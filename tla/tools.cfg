SPECIFICATION FairSpec
CONSTANTS
  Kinds <- MCKinds
  Buffer = 2
  MaxWrites = 3
INVARIANTS
  NothingLeft
  OkIsEarned
PROPERTIES
  CallsEnd
CHECK_DEADLOCK FALSE
