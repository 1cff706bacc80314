SPECIFICATION FairSpec
CONSTANTS
  CleanName <- CleanKey
  Marker = "marker"
  Walks <- SmallWalks
  Length <- Lengths
  MaxRetries = 2
  MaxRuns = 2
  MaxFaults = 2
INVARIANTS ManifestDisjoint CompleteIsWhole LoadSurvivesOneFault
PROPERTIES ForeignUntouched RunEnds
CHECK_DEADLOCK FALSE
