SPECIFICATION FairSpec
CONSTANTS
  NumServers = 2
  MaxJobs = 2
  Keep = 1
  MaxSaves = 1
  MaxFaults = 1
INVARIANTS CompletedIsTrue NewestAreKept HeldIsWhole
PROPERTIES RunsEnd BackupsAreRemoteCalls
CHECK_DEADLOCK FALSE
