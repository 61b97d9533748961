SPECIFICATION FairSpec
CONSTANTS
  Accounts <- TwoAccounts
  Active <- TwoAccounts
  Opening <- Funded
  Drafts <- Drafted
  Malformed = Malformed
  Clicked = {1, 2}
  NoAccount = NoAccount
  NoKey = NoKey
  NoOrder = NoOrder
  MaxForms = 1
  MaxPosts = 1
  Loads = {l1, l2}
  MaxFailures = 0
PROPERTIES SelectionIsTheUsers
