------------------------------- MODULE MCCatalog -------------------------------
EXTENDS CatalogDrivers
Row(k, t) == [key |-> k, at |-> t]
MCBatches == {<<Row("k1", 1), Row("k2", 2)>>, <<Row("k2", 1), Row("k1", 2)>>}
=============================================================================
