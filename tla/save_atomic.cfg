SPECIFICATION Spec
CONSTANTS
  MaxId = 2
  Attrs = {x}
  Values = {a, b}
  MaxRegistrations = 2
  MaxVersion = 2
  Unchanged = Unchanged
  NoRow = NoRow
  NoNode = NoNode
  Failures <- Recoverable
SYMMETRY ValueSymmetry
INVARIANTS
  TypeOK
  AllocatedIdsAreFree
  TransactionEnded
  CacheCoherent
  VersionsIdentifyValues
PROPERTIES
  ImplementsAtomicStore
  SavedIsDurable
