\* A filter is applied and no new client can be built.
CONSTANTS
  Services = {1, 2}
  Workers = {w1, w2}
  Manual = {TRUE}
  LastOffset = 3
  Matching = {1}
  PageSizes = {2}
  DefaultPage = 2
  MaxPolls = 2
  MaxWaits = 2
  MaxRebalances = 0
  Faults = {"factory"}
SPECIFICATION Spec
PROPERTIES FilterRestarts
CHECK_DEADLOCK FALSE
