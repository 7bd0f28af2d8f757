SPECIFICATION FairSpec
CONSTANTS
  Job = {j1, j2}
  Last = 2
  SomeSettings <- AnySettings
  Resends = 1
  MaxRestarts = 1
  None = None
INVARIANTS OneTaskPerSlot CancelHolds CountsTrue RunningIsAlive
PROPERTIES JobsSettle
CHECK_DEADLOCK FALSE
