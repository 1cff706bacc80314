SPECIFICATION FairQueue
CONSTANTS
  Cap = 2
  MaxChanges = 6
INVARIANTS NewestOnItsWay
PROPERTIES WindowCatchesUp PumpEnds
CHECK_DEADLOCK FALSE
