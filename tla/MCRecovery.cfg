CONSTANTS
  machines = machines
  installDB = installDB
  installMonitor = installMonitor
  runStroppy = runStroppy
  teardown = teardown
  targets = targets
  workDir = workDir
  h1 = h1
  h2 = h2
  Nodes <- ChainNodes
  Deps <- ChainDeps
  AlwaysRun <- ChainAlwaysRun
  MustComplete <- ChainMustComplete
  Outputs <- DockerOutputs
  Records <- DockerRecords
  Produces <- DockerProduces
  Exported <- DockerOutputs
  Hosts <- RunHosts
  Docker = TRUE
  DockerMayFail = TRUE
  StorageMayFail = TRUE
  Targets = targets
  WorkDir = workDir
  MaxRetries = 0
  MaxMade = 2
  MaxCrashes = 2
  Machines = machines
  Teardown = teardown
SPECIFICATION FairRSpec
INVARIANTS RTypeOK RowFitForRecovery WorkHasMachines
PROPERTIES DoneNotRepeated ComesToRest
