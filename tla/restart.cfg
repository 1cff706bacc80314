SPECIFICATION WorkerSpec
CONSTANTS
  MaxTasks = 1
  Registered = {1}
  MaxStored = 0
  StoredStatus = {"paused"}
  BT = {1}
  Limits = {1}
  MaxEdits = 1
  MaxRestarts = 1
  Calls <- NoStop
INVARIANTS EditSticks HeldStaysPaused RestartGivesBack
PROPERTIES QueueDrains
