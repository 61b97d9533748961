SPECIFICATION FairSpec
CONSTANTS
  Conns = {c1, c2}
  NoConn = NoConn
  SameChunk = TRUE
  MaxFaults = 1
PROPERTIES Reconnects
CHECK_DEADLOCK FALSE
