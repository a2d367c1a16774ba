SPECIFICATION Spec
CONSTANTS
  Field <- MCField
  Row <- MCRow
  Missing = {"chapters"}
  NonNull = {"id"}
  Enumerated = {"id", "title"}
  Enum = {"live_status"}
  Caseless <- MCCaseless
  Measured = {2, 3}
  Text <- MCText
  Atoms <- MCAtoms
  MaxSize = 3
  MaxPasses = 32
INVARIANTS
  SameTruth
  NeverGivesUp
  NeverTrueHolds
  StagesHold
CHECK_DEADLOCK FALSE
