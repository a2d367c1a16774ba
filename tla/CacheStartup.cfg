SPECIFICATION FairSpec
CONSTANTS
  Proc = {p1, p2}
  Explicit = {}
  NoProc = NoProc
  SourceFact = {s1}
  MediaFact = {m1, m2}
  BatchSize = 1
  MaxStarts = 1
  MaxFaults = 2
  StampWindow = FALSE
INVARIANTS
  ActiveHoldsEverything
PROPERTIES
  SourceRetiredAfterCutover
  HandoverSpec
  StartupEnds
