SPECIFICATION Spec
CONSTANTS
  Source = {"A", "B"}
  Contents <- MCContents
  Operands <- MCOperands
  Ons <- MCOns
  Tests <- MCTests
  Batch = 2
  Allowed <- MCAllowed
  MaxClauses = 3
INVARIANTS
  ResultUnchanged
  JoinPathsAgree
CHECK_DEADLOCK FALSE
