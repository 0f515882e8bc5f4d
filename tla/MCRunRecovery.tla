----------------------------- MODULE MCRunRecovery -----------------------------
(******************************************************************************)
(* Model checking RunRecovery: a run of five nodes in the builder's order.    *)
(******************************************************************************)
EXTENDS RunRecovery

CONSTANTS machines, installDB, installMonitor, runStroppy, teardown,
          targets, workDir, h1, h2

ChainNodes == {machines, installDB, installMonitor, runStroppy, teardown}
ChainDeps ==
  [n \in ChainNodes |->
    CASE n = machines -> {}
      [] n \in {installDB, installMonitor} -> {machines}
      [] n = runStroppy -> {machines, installDB, installMonitor}
      [] n = teardown -> {runStroppy}]
ChainAlwaysRun == {teardown}
ChainMustComplete == {machines}

RunHosts == {h1, h2}

(* Docker: IDs and targets, all of them exported.                             *)
DockerOutputs == IDs \cup {targets}
DockerRecords == [n \in ChainNodes |-> IF n = machines THEN DockerOutputs ELSE {}]
DockerProduces == [n \in ChainNodes |-> IF n = machines THEN {targets} ELSE {}]

(* Yandex Cloud: the working directory and the targets; only the targets are  *)
(* exported.                                                                  *)
CloudOutputs == {workDir, targets}
CloudRecords == [n \in ChainNodes |-> IF n = machines THEN CloudOutputs ELSE {}]
CloudExported == {targets}
================================================================================
