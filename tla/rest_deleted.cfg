SPECIFICATION Spec
CONSTANTS
  Left = {a1}
  Right = {b1, b2}
  SameRoot = FALSE
  MaxPosition = 4
  Failures <- NoFailures
INVARIANT RestIsDeleted
