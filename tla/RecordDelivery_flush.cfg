\* A record is produced just before the composer closes.
CONSTANTS
  MaxRecords = 1
  RegistryFields = {}
  Drafts = {}
SPECIFICATION Spec
PROPERTIES QueuedRecordsAreFlushed
CHECK_DEADLOCK FALSE
