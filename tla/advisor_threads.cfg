SPECIFICATION FairSpec
CONSTANTS
  t1 = t1
  t2 = t2
  Threads = {t1, t2}
  Transactions <- FourTransactions
  GeminiAnswers <- OddAnswers
  Cooldown = 3
  NaN = NaN
  NoConfidence = NoConfidence
  None = None
INVARIANTS FewLateRequests NoLongerThanCooldown CountersAddUp LargerIsNoSafer
PROPERTIES CircuitCloses
