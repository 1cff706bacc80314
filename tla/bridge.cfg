SPECIFICATION FairSpec
CONSTANTS
  Conn = {c1}
  t1 = t1
  t2 = t2
  None = none
  Configs <- SmallConfigs
  MaxChanges = 1
  MaxSaves = 2
  MaxFailures = 2
INVARIANTS SessionsAreCurrent SettingsAgree
PROPERTIES StopReturns ExtensionCatchesUp
CHECK_DEADLOCK FALSE
