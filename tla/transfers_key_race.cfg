\* transactions.service.ts:111 of the loser of a key race, when funds do not cover both.
SPECIFICATION FairSpec
CONSTANTS
  Requests = {r1, r2}
  Accounts <- MCAccounts
  Active <- MCAccounts
  Currencies = {"USD", "EUR"}
  CurrencyOf <- MCCurrencyOf
  Opening <- MCOpening
  Keys = {"k"}
  Orders <- LargeRace
  NoKey = NoKey
  NoCurrency = NoCurrency
  NoOrder = NoOrder
  NoRequest = NoRequest
  PoolMax = 2
  MaxAttempts = 1
  Faults = {}
  MaxCrashes = 0
CHECK_DEADLOCK FALSE
PROPERTY
  LoserReturnsWinner
