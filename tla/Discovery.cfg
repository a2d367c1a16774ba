SPECIFICATION Spec
CONSTANTS
  Proc = {p1, p2}
  Nothing = Nothing
  Day <- MCDay
  Confirm = 2
  Reach = 2
  Boundary = 2
  Margin = 2
  Drift = 2
  Batch = 1
  Good = {1, 2, 3, 4}
  Queries <- MCQueries
  Cuts = FALSE
  Specialised = FALSE
  Titled = {1, 2, 4, 5}
  First = 3
  Last = 5
  MaxStarts = 2
  MaxEvents = 2
  MaxFaults = 1
INVARIANTS TrustedOrder CoverageHonest AnswerComplete ShortAnswerSawAll
SYMMETRY Symmetry
CHECK_DEADLOCK FALSE
