SPECIFICATION FairSpec
CONSTANTS
  Accounts <- TwoAccounts
  Active <- TwoAccounts
  Opening <- Funded
  Drafts <- Drafted
  Malformed = Malformed
  Clicked = {1}
  NoAccount = NoAccount
  NoKey = NoKey
  NoOrder = NoOrder
  MaxForms = 2
  MaxPosts = 2
  Loads = {l1, l2}
  MaxFailures = 1
INVARIANTS OnePaymentPerOpening SuccessIsItsOwn LoadingMeansWaiting
PROPERTIES CatchesUp
