SPECIFICATION FairSpec
CONSTANTS
  m1 = m1
  m2 = m2
  t1 = t1
  t2 = t2
  Messages = {m1, m2}
  Txs = {t1, t2}
  TxOf <- Distinct
  Malformed = {m2}
  Consumers = {c1, c2}
  NoMessage = NoMessage
  Prefetch = 1
  MaxAttempts = 3
  MaxTransient = 3
  MaxPermanent = 1
  MaxLosses = 1
INVARIANTS NothingLost OneRecommendation GivenUpForAReason
PROPERTIES KeepsPromise Settles
CHECK_DEADLOCK FALSE
