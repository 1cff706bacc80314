SPECIFICATION FairSpec
CONSTANTS
  Stages <- RangeStages
  MaxRetries = 1
  MaxChunk = 2
  MaxRuns = 2
  SlowTicker = FALSE
INVARIANTS CompleteIsWhole
PROPERTY RunEnds
