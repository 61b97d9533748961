SPECIFICATION FairSpec
CONSTANTS
  Conns = {c1, c2, c3, c4}
  NoConn = NoConn
  SameChunk = FALSE
  MaxFaults = 4
INVARIANTS OneRecoveryPath NoStrayConnection
PROPERTIES Reconnects OnlyItsOwnEvents NothingStartsAfterShutdown
CHECK_DEADLOCK FALSE
