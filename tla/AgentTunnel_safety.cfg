SPECIFICATION Spec
CONSTANTS
  MaxConns = 2
  MaxCmds = 2
  MaxCrashes = 1
  Kinds = {"START", "STOP", "RESTART"}
  MayFail = TRUE
INVARIANTS SessionIsNewest CrashCountedOnce ExecutedInOrder WaitingIsPending 
PROPERTY CallsAreRemoteCalls
CHECK_DEADLOCK FALSE
