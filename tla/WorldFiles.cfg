SPECIFICATION Spec
CONSTANTS
  NumFiles = 2
  MaxVersion = 2
  MaxBackups = 2
  MaxDeaths = 1
CHECK_DEADLOCK FALSE
INVARIANTS StoredIsWhole RestoredIsArchive
PROPERTY TransfersEnd
