SPECIFICATION Spec
CONSTANTS
  Servers = {s1, s2}
  Labels = {play}
  MinPort = 1
  MaxPort = 2
  Requests = {q1, q2}
  None = None
  MaxRestart = 1
CHECK_DEADLOCK FALSE
INVARIANTS ClaimIsLeased LeaseIsAccountedFor LiveIsTrue
