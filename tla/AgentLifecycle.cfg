SPECIFICATION FairSpec
CONSTANTS
  Servers = {s1}
  Callers = {readLoop}
  MaxGen = 3
  InterruptCanFail = FALSE
  StartCanFail = TRUE
  None = None
INVARIANT NoOrphan
PROPERTIES DeadIsNoticed Supervises
CHECK_DEADLOCK FALSE
