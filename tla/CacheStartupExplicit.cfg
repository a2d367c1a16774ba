SPECIFICATION Spec
CONSTANTS
  Proc = {p1, p2}
  Explicit = {e1}
  NoProc = NoProc
  SourceFact = {s1}
  MediaFact = {m1}
  BatchSize = 1
  MaxStarts = 1
  MaxFaults = 1
  StampWindow = FALSE
SYMMETRY MCSymmetry
INVARIANTS
  NoFactLost
  WorkersKeepTheirFile
