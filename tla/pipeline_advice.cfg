SPECIFICATION FairSpec
CONSTANTS
  Requests = {q, r}
  Accounts = {1, 2}
  Active = {1, 2}
  Opening <- MCOpening
  Orders <- PaymentsAndLoad
  NoKey = "none"
  NoOrder = NoOrder
  MaxAttempts = 1
  MaxCopies = 2
INVARIANTS AdviceIsPaidFor
PROPERTIES EveryPaymentAdvised
CHECK_DEADLOCK FALSE
