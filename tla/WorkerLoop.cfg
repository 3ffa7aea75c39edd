CONSTANTS
  Batch <- Turns
  Patience = 2
SPECIFICATION FairSpec
INVARIANTS TypeOK DutiesSoon StopsSoon
PROPERTY DutiesDone
