\* Queries of up to three terms and clauses, written in at most three steps,
\* over five tables.
CONSTANTS
  Literals <- MCLiterals
  CharPoints <- MCCharPoints
  DayTexts <- MCDayTexts
  FloatMax <- MCFloatMax
  Atoms <- MCAtoms
  Contexts <- MCContexts
  Aliases <- MCAliases
  Tables <- MCTables
  MaxSteps = 3
  MaxEntries = 3
  Admitted <- MCAdmitted
SPECIFICATION Spec
INVARIANTS AcceptedRuns ColumnsHonest FieldsSuffice GroupsDeterminate
CHECK_DEADLOCK FALSE
