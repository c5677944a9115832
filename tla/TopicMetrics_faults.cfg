\* Refreshes of a topic that is created, extended and deleted, and any requests failing.
CONSTANTS
  Topics = {t1}
  Groups = {g1, g2}
  MaxPartitions = 2
  MaxRefreshes = 3
SYMMETRY MetricsSymmetry
SPECIFICATION Spec
INVARIANTS RecordsFromOneLoad LagFromLoadedEnds
PROPERTIES MetricsAreKept GroupsAreComplete
CHECK_DEADLOCK FALSE
