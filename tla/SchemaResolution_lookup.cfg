SPECIFICATION FairSpec
CONSTANTS
  RetryCount = 1
  OAuth = TRUE
  Lifetime = 20
  CheckPeriod = 20
  CacheCapacity = 2
  Duration = 20
  Latency = 10
  MaxTime = 30
  PageSize = 1
  MaxLookups = 2
  MaxTroubles = 3
  NoDoc = NoDoc
  None = None
  Artifacts <- MCArtifacts
  Docs <- MCDocs
  DocRefs <- MCDocRefs
  TypeTold <- MCTypeTold
  ArtifactType <- MCArtifactType
  Setups <- MCSetups
INVARIANTS
  SendsAreBounded RefusedTokenIsNew
  RegisteredOnce SchemaOfTheField SchemaIsWhole CacheIsTrue
PROPERTIES
  LatestIsFresh LookupsEnd
CHECK_DEADLOCK FALSE
