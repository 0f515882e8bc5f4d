CONSTANTS
  machines = machines
  installDB = installDB
  installMonitor = installMonitor
  runStroppy = runStroppy
  teardown = teardown
  targets = targets
  workDir = workDir
  h1 = h1
  h2 = h2
  Nodes <- ChainNodes
  Deps <- ChainDeps
  AlwaysRun <- ChainAlwaysRun
  MustComplete <- ChainMustComplete
  Outputs <- CloudOutputs
  Records <- CloudRecords
  Produces <- CloudRecords
  Exported <- CloudExported
  Hosts <- RunHosts
  Docker = FALSE
  DockerMayFail = FALSE
  StorageMayFail = FALSE
  Targets = targets
  WorkDir = workDir
  MaxRetries = 0
  MaxMade = 2
  MaxCrashes = 1
  Machines = machines
  Teardown = teardown
SPECIFICATION RSpec
PROPERTY RestartCleansUp
