\* Both fields have Registry serializers; up to two records.
CONSTANTS
  MaxRecords = 2
  RegistryFields = {"key", "value"}
  Drafts <- SomeDrafts
SPECIFICATION FairSpec
INVARIANTS NeverRefused SummaryIsCurrent
PROPERTIES RefinesReportedDelivery DeliveriesEnd ShutdownEnds
CHECK_DEADLOCK FALSE
