----------------------------- MODULE MCDagExecutor -----------------------------
(******************************************************************************)
(* Graphs for model checking DagExecutor.                                     *)
(******************************************************************************)
EXTENDS DagExecutor

CONSTANTS machines, installDB, installMonitor, runStroppy, teardown,
          archive, targets, containerID

(* The machines task leaves container IDs on its way and targets at its end.  *)
GraphOutputs == {targets, containerID}

(* The shape run.Build gives a run, and then some: provisioning, installs, the *)
(* workload, the teardown last; of what the package accepts and the builder   *)
(* does not produce, an ordinary node beside provisioning and a second        *)
(* AlwaysRun node.                                                            *)
GraphNodes ==
  {machines, installDB, installMonitor, runStroppy, teardown, archive}
GraphDeps ==
  [n \in GraphNodes |->
    CASE n \in {machines, installMonitor} -> {}
      [] n \in {installDB, archive} -> {machines}
      [] n = runStroppy -> {installDB, installMonitor}
      [] n = teardown -> {runStroppy, archive}]
GraphRecords == [n \in GraphNodes |-> IF n = machines THEN GraphOutputs ELSE {}]
GraphProduces == GraphRecords
GraphAlwaysRun == {archive, teardown}
GraphMustComplete == {machines}
================================================================================
