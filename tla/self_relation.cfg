SPECIFICATION Spec
CONSTANTS
  Left = {a1}
  Right = {b1}
  SameRoot = TRUE
  MaxPosition = 4
  Failures <- NoFailures
INVARIANT RelationIsStored
