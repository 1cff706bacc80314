SPECIFICATION Spec
CONSTANTS
  Stages <- PlainStages
  MaxRetries = 1
  MaxChunk = 2
  MaxRuns = 1
  SlowTicker = FALSE
INVARIANT CompleteIsWhole
