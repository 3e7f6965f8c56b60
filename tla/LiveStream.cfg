SPECIFICATION FairSpec
CONSTANTS
  Servers = {sA, sB}
  NoServer = NoServer
  MaxStreams = 3
  MaxLines = 2
  MaxBreaks = 1
INVARIANTS ShownInOrder OpenIsReal
PROPERTY StreamSettles
CHECK_DEADLOCK FALSE
