CONSTANTS
  db1 = db1
  db2 = db2
  installDB = installDB
  installMonitor = installMonitor
  Agents <- OneAgent
  Tasks <- TwoTasks
  Targets <- Contention
  QueueCap = 1
  MaxTries = 1
  MaxRestarts = 1
  MaxLosses = 1
SPECIFICATION FairSpec
PROPERTIES SendReturns CancelReleases
INVARIANTS SuccessIsOwn
