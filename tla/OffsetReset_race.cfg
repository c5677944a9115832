\* Two partitions whose logs move while resets are planned, one after another;
\* a topic which another client changes while it is edited.
CONSTANTS
  Partitions = {p1, p2}
  Planners = {w1, w2}
  MaxOffset = 2
  Numbers = {"min.insync.replicas"}
  MaxPartitions = 2
  OtherChanges = 1
SYMMETRY ResetSymmetry
SPECIFICATION FormsSpec
INVARIANTS TimestampLosesNothing PlanWithinLog ReviewIsWhatWasAsked ChangesAreTold
PROPERTIES OthersChangesAreKept
CHECK_DEADLOCK FALSE
