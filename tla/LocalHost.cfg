SPECIFICATION RunnerSpec
CONSTANTS
  MaxPid = 3
  None = None
  Requests = {q1, q2}
  MaxRestart = 1
CHECK_DEADLOCK FALSE
INVARIANTS UntoldIsHeld OfflineIsStopped KillHasCause
SYMMETRY Symmetry
