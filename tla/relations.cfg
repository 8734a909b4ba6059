SPECIFICATION Spec
CONSTANTS
  Left = {a1}
  Right = {b1, b2}
  SameRoot = FALSE
  MaxPosition = 6
  Failures <- AllFailures
INVARIANTS
  TypeOK
  RelatedObjectsReadBack
  OrderReadsBack
  NoDanglingLinks
