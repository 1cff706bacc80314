SPECIFICATION FairSpec
CONSTANTS
  MaxTasks = 3
  MaxStored = 2
  StoredStatus <- IdleStatus
  BT = {3}
  Registered = {1, 3}
  Limits = {1, 2}
  MaxEdits = 0
  MaxRestarts = 0
  Calls <- NoEdits
INVARIANTS
  ActiveHasWorker OneWorker SlotBound WaitsOnlyForSlot
  StopQuiesces RedownloadAfterExit LoopsComputeSlots
PROPERTIES LockIsReturned
