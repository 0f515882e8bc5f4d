SPECIFICATION Spec
CONSTANTS
  Configs <- ConfigsDef
  MaxTries = 2
  MaxFaults = 1
  MaxOrphans = 1
  Frail <- Runner
INVARIANTS
  TypeOK
  NothingMissing
  WorkloadOnReadyCluster
  FirstPassClean
  BootstrapFailureFailsRun
