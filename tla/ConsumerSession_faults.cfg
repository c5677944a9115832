\* Paging and everything that may go wrong at once, down to closing.
CONSTANTS
  Services = {1, 2}
  Workers = {w1, w2}
  Manual = {TRUE, FALSE}
  LastOffset = 2
  Matching = {1}
  PageSizes = {1, 2}
  DefaultPage = 2
  MaxPolls = 1
  MaxWaits = 1
  MaxRebalances = 1
  Faults = {"start", "authorization", "message", "factory"}
SPECIFICATION FairSpec
INVARIANTS ClientsUsedSafely OnePageAtATime OnlyRebalancesRepeat
PROPERTIES RefinesPagedRecords PagesEnd EverythingIsClosed
CHECK_DEADLOCK FALSE
