SPECIFICATION Spec
CONSTANTS
  NPages = 2
  Keys = {k1, k2}
  NoKey = NoKey
  NoPage = NoPage
  Zeroed = Zeroed
  Torn = Torn
  MaxTransactions = 2
  MaxFaults = 1
  MaxCrashes = 2
  RekeyFaults = TRUE
PROPERTY KeyFollowsCommit
