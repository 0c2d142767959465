SPECIFICATION FairSpec
CONSTANTS
  Jobs = {j1, j2}
  Clients = {u1}
  d1 = d1
  d2 = d2
  Docs = {d1, d2}
  Batches <- MCBatches
  Faults <- MCFaults
  LostAcks = TRUE
  Restarts = TRUE
CHECK_DEADLOCK FALSE
INVARIANTS
  ProgressIsReal
  DuplicatesNeedRace
  FailuresHaveCause
PROPERTIES
  LifecycleKept
  JobsEnd
