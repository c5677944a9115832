\* One mutation at a time, of one call or two, with configuration loads and a
\* topic filter.
CONSTANTS
  Generations = 2
  Mutations = {m1}
  AutoRefresh = TRUE
  ReadOnly = FALSE
  ScreensUsed = {"form", "details", "filter"}
  MaxCalls = 2
  MaxLoads = 1
  MaxScreens = 1
  MaxQueued = 1
  MaxLate = 0
SPECIFICATION FairSpec
PROPERTIES MutationIsFollowedUp ListIsUncovered
