SPECIFICATION PanelSpec
CONSTANTS
  Players = {p1, p2}
  Limit = 2
  Threshold = 2
  WindowMs = 2
  MaxTime = 4
  MaxRequests = 3
  MaxJoins = 3
  Servers = {sA, sB}
  Managed = sA
  Nowhere = Nowhere
  Syncs = {q1, q2}
  MaxFaults = 1
  Subjects = {iA, iB}
  NoSubject = NoSubject
  Slots = {k1, k2}
  MaxChanges = 2
  MaxMoves = 2
  MaxFails = 1
INVARIANTS LimitIsExact FloodIsTrue QuietIsLoaded ActionIsShown
PROPERTY CatchesUp
CONSTRAINT Separate
CHECK_DEADLOCK FALSE
