SPECIFICATION Spec
CONSTANTS
  W8 = 2
  MaxLen = 10
  Field = 2
INVARIANTS
  SumExact
  VerdictsRight
  TestsAgree
PROPERTIES
  Judged
CHECK_DEADLOCK FALSE
