CONSTANTS
  db1 = db1
  db2 = db2
  installDB = installDB
  installMonitor = installMonitor
  Agents <- TwoAgents
  Tasks <- OneTask
  Targets <- Fanout
  QueueCap = 1
  MaxTries = 2
  MaxRestarts = 0
  MaxLosses = 2
SPECIFICATION Spec
INVARIANTS TypeOK SuccessIsOwn NoRepeatNoReorder TaskDoneEverywhere
SYMMETRY Symmetry
