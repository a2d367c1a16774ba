SPECIFICATION Spec
CONSTANTS
  Run = {r1, r2}
  Target <- MCTarget
  Line <- MarkedLine
  NoTarget = "none"
  NoRemoval = NoRemoval
  RowMode = TRUE
  MaxRuns = 2
  MaxAppends = 1
  MaxFailures = 1
SYMMETRY Symmetric
 
PROPERTY UnrelatedKeptByRewrites
