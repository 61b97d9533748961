\* Three requests in a ring of three accounts, with one key, retries, faults and a crash.
SPECIFICATION Spec
CONSTANTS
  Requests = {r1, r2, r3}
  Accounts <- RingAccounts
  Active <- RingAccounts
  Currencies = {"USD", "EUR"}
  CurrencyOf <- RingCurrencyOf
  Opening <- RingOpening
  Keys = {"k"}
  Orders <- ContendedRing
  NoKey = NoKey
  NoCurrency = NoCurrency
  NoOrder = NoOrder
  NoRequest = NoRequest
  PoolMax = 3
  MaxAttempts = 2
  Faults = {"40P01", "57014", "CONN"}
  MaxCrashes = 1
CHECK_DEADLOCK FALSE
SYMMETRY Symmetry
INVARIANTS
  NothingLeaks
  LedgerExplainsBalances
  NoDeadlock
  AtMostOncePerKey
  OutboxMatchesLedger
  AnswersAreTrue
