\* The group takes the partitions back during a page.
CONSTANTS
  Services = {1}
  Workers = {w1, w2}
  Manual = {FALSE}
  LastOffset = 3
  Matching = {1}
  PageSizes = {2}
  DefaultPage = 2
  MaxPolls = 2
  MaxWaits = 2
  MaxRebalances = 1
  Faults = {}
SPECIFICATION Spec
PROPERTIES AssignmentIsAwaited
CHECK_DEADLOCK FALSE
