SPECIFICATION FairSpecRuns
CONSTANTS
  Jobs = {j1}
  Clients = {u1}
  Pages = {g1}
  Pollers = {p1, p2}
  NoPage = NoPage
  d1 = d1
  d2 = d2
  Docs = {d1, d2}
  Batches <- MCBatches
  Faults <- JobFaults
  LostAcks = TRUE
  Restarts = TRUE
  CallsFail = TRUE
  NoRun = NoRun
  NoStats = NoStats
CHECK_DEADLOCK FALSE
INVARIANTS
  RunFollowsJob
  GrowthShown
PROPERTIES
  RunsSettle
