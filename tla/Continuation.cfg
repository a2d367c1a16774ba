SPECIFICATION FairSpec
CONSTANTS
  Run = {r1, r2}
  Target <- MCTarget
  Url = {}
  Revision <- MCRevision
  NoRun = NoRun
  NoDownload = NoDownload
  NoCallback = NoCallback
  NoObservation = NoObservation
  OtherVersion = OtherVersion
  Excerpts = FALSE
  MaxRuns = 2
  MaxFaults = 1
  MaxKills = 1
  MaxEdits = 1
INVARIANTS SkippedWereRetrieved SerialisedUnlessKilled
PROPERTIES EvidenceKept InvocationEnds
