SPECIFICATION Spec
CONSTANTS
  Task = {t1, t2, t3}
  Secret = {t1, t2}
  MaxRev = 2
INVARIANTS StoreIsSnapshot MigrationIsSound
PROPERTIES FailedLoadKeepsStore
