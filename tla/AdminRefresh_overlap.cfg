\* Mutations that overlap, calls that are executed late, auto-refresh on.
CONSTANTS
  Generations = 2
  Mutations = {m1, m2}
  AutoRefresh = TRUE
  ReadOnly = FALSE
  ScreensUsed = {"form", "other"}
  MaxCalls = 1
  MaxLoads = 0
  MaxScreens = 1
  MaxQueued = 1
  MaxLate = 1
SPECIFICATION FairSpec
INVARIANTS SingleRefresh
PROPERTIES RefinesCoalescedRefresh UncancelledIsFollowedUp ListCatchesUp
