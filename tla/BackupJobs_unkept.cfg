SPECIFICATION Spec
CONSTANTS
  NumServers = 1
  MaxJobs = 1
  Keep = 1
  MaxSaves = 1
  MaxFaults = 1
INVARIANT CompletedIsKept
CHECK_DEADLOCK FALSE
