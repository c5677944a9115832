\* A mutation started from Topic Details while another one still calls.
CONSTANTS
  Generations = 2
  Mutations = {m1, m2}
  AutoRefresh = TRUE
  ReadOnly = FALSE
  ScreensUsed = {"form", "details"}
  MaxCalls = 2
  MaxLoads = 1
  MaxScreens = 2
  MaxQueued = 1
  MaxLate = 0
SYMMETRY MutationSymmetry
SPECIFICATION Spec
PROPERTIES MutationIsFollowedUp
