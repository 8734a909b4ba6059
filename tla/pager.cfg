SPECIFICATION Spec
CONSTANTS
  NPages = 2
  Keys = {k1, k2}
  NoKey = NoKey
  NoPage = NoPage
  Zeroed = Zeroed
  Torn = Torn
  MaxTransactions = 2
  MaxFaults = 2
  MaxCrashes = 2
  RekeyFaults = FALSE
INVARIANTS
  TypeOK
  OneKeyAfterCrash
  CacheCoherent
  WriteAhead
PROPERTIES
  ImplementsAtomicFile
  WrongKeyChangesNothing
  KeyFollowsCommit
SYMMETRY KeySymmetry
