SPECIFICATION Spec
CONSTANTS
  MaxId = 2
  Attrs = {x}
  Values = {a}
  MaxRegistrations = 1
  MaxVersion = 2
  Unchanged = Unchanged
  NoRow = NoRow
  NoNode = NoNode
  Failures <- AutoRollbacks
INVARIANT BlockRunsInTransaction
