\* Every kind of refusal, one connection for two requests, under fairness.
SPECIFICATION FairSpec
CONSTANTS
  Requests = {r1, r2}
  Accounts <- AllAccounts
  Active <- OrdinaryAccounts
  Currencies = {"USD", "EUR"}
  CurrencyOf <- AllCurrencyOf
  Opening <- AllOpening
  Keys = {"k"}
  Orders <- RefusedOrders
  NoKey = NoKey
  NoCurrency = NoCurrency
  NoOrder = NoOrder
  NoRequest = NoRequest
  PoolMax = 1
  MaxAttempts = 3
  Faults = {"40001", "CONN"}
  MaxCrashes = 1
CHECK_DEADLOCK FALSE
PROPERTIES
  EveryRequestAnswered
  ImplementsPromise
