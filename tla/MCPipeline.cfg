CONSTANTS
  machines = machines
  installDB = installDB
  installMonitor = installMonitor
  runStroppy = runStroppy
  teardown = teardown
  archive = archive
  Nodes <- GraphNodes
  Deps <- GraphDeps
  AlwaysRun <- GraphAlwaysRun
  MustComplete <- GraphMustComplete
  MaxRetries = 1
  StorageMayFail = FALSE
  targets = targets
  containerID = containerID
  Outputs <- GraphOutputs
  Records <- GraphRecords
  Produces <- GraphProduces
  Exported <- GraphOutputs
SPECIFICATION FairSpec
INVARIANTS TypeOK ResultSound RowRestorable DependenciesDurable FinalRowCurrent DependencyOrder TeardownNotSkipped RowCarriesOutputs
PROPERTIES MustCompleteNotInterrupted CancelTerminates ImplementsContract
