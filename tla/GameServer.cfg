SPECIFICATION GameServerSpec
CONSTANTS
  Streams = {stdout, stderr}
  MaxLines = 3
  Capacity = 2
  LongLines = TRUE
  ApiCalls = {a1, a2}
  AgentCalls = {g1, g2}
  MaxId = 8
  First = {1, 8}
INVARIANTS NoGap AnswerIsOwn
PROPERTIES NoLogAfterExit NothingIsStuck ExecutesEnd
CONSTRAINT Separate
CHECK_DEADLOCK FALSE
