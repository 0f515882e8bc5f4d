---------------------------- MODULE MCCommandChannel ----------------------------
(******************************************************************************)
(* Model checking CommandChannel: two tasks for one machine, so that two      *)
(* commands compete for its queue, or one task for two machines, so that the  *)
(* Sends of one call cancel each other.                                       *)
(******************************************************************************)
EXTENDS CommandChannel, TLC

CONSTANTS db1, db2, installDB, installMonitor

TwoAgents == {db1, db2}
TwoTasks == {installDB, installMonitor}
Fanout == [t \in {installDB} |-> TwoAgents]
Contention == [t \in TwoTasks |-> {db1}]

(* The machines are interchangeable.                                          *)
Symmetry == Permutations(TwoAgents)

OneTask == {installDB}
OneTarget == [t \in OneTask |-> {db1}]
OneAgent == {db1}
================================================================================
