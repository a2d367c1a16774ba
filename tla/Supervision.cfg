SPECIFICATION FairSpec
CONSTANTS
  PipeCapacity = 2
  QueueCapacity = 2
  MaxOut = 5
  MaxCalls = 2
  MaxFaults = 2
INVARIANTS SuccessIsComplete OneStory
PROPERTIES SupervisionEnds AttemptSpec
