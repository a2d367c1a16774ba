SPECIFICATION Spec
CONSTANTS
  Writer = {w1, w2}
  Video = {v1, v2}
  Source = {s1}
  NoVideo = NoVideo
  NoRow = NoRow
  NoTime = NoTime
  MaxId = 2
  MaxTime = 2
  MaxJobs = 3
  MaxAge = 0
  Exclusive = TRUE
  Overlap = TRUE
  OddValues = TRUE
SYMMETRY MCSymmetry
INVARIANTS
  IdentityKept
  SuccessHasMetadata
PROPERTIES
  YoungMetadataStays
  CollectOnlyReleased
