------------------------------ MODULE RunContract ------------------------------
(******************************************************************************)
(* What the executor promises about a run, with no waves, retries, contexts   *)
(* or saves: ordinary nodes start when their dependencies are done and until  *)
(* the run halts; once it has halted and nothing runs any more, the AlwaysRun *)
(* nodes that have not ended run; then there is an outcome, once.             *)
(******************************************************************************)
EXTENDS Dag

VARIABLES
  status,   \* the state of each node
  halted,   \* no ordinary node starts any more
  result    \* the outcome, or "none"

cvars == <<status, halted, result>>

In(st) == {n \in Nodes : status[n] \in st}

Init ==
  /\ \E D \in Restorable :
       status = [n \in Nodes |-> IF n \in D THEN "done" ELSE "pending"]
  /\ halted = FALSE
  /\ result = "none"

(* Some nodes start together, each with its dependencies done, while no node  *)
(* has failed.                                                                *)
Begin(S) ==
  /\ ~halted
  /\ In({"failed"}) = {}
  /\ S \subseteq In({"pending"})
  /\ \A n \in S : Deps[n] \subseteq In({"done"})
  /\ status' = [n \in Nodes |-> IF n \in S THEN "running" ELSE status[n]]
  /\ UNCHANGED <<halted, result>>

(* A running node ends.  A provisioning node is cut short only once the run   *)
(* has halted.                                                                *)
End(n, st) ==
  /\ status[n] = "running"
  /\ st = "cancelled" => halted \/ n \notin MustComplete
  /\ status' = [status EXCEPT ![n] = st]
  /\ UNCHANGED <<halted, result>>

(* The run halts with nothing in progress; the ordinary nodes that never ran  *)
(* may be cancelled.                                                          *)
Halt ==
  /\ ~halted
  /\ In({"running"}) = {}
  /\ halted' = TRUE
  /\ \/ UNCHANGED status
     \/ status' = [n \in Nodes |->
                     IF status[n] = "pending" /\ n \notin AlwaysRun
                       THEN "cancelled" ELSE status[n]]
  /\ UNCHANGED result

(* The AlwaysRun nodes that have not ended start, dependencies or not, beside *)
(* nothing else.                                                              *)
TearDown ==
  /\ halted
  /\ result = "none"
  /\ In({"running"}) = {}
  /\ In({"pending"}) \cap AlwaysRun # {}
  /\ status' = [n \in Nodes |->
                  IF status[n] = "pending" /\ n \in AlwaysRun
                    THEN "running" ELSE status[n]]
  /\ UNCHANGED <<halted, result>>

(* The outcome: completed when every node is done, failed when a node failed, *)
(* else cancelled; no AlwaysRun node is left behind.                          *)
Conclude ==
  /\ halted
  /\ result = "none"
  /\ In({"running"}) = {}
  /\ In({"pending"}) \cap AlwaysRun = {}
  /\ \/ result' = "failed" /\ In({"failed"}) # {}
     \/ result' = "cancelled" /\ In({"failed", "pending"}) = {}
     \/ result' = "completed" /\ In({"done"}) = Nodes
  /\ UNCHANGED <<status, halted>>

Next ==
  \/ \E S \in SUBSET Nodes : Begin(S)
  \/ \E n \in Nodes, st \in {"done", "failed", "cancelled"} : End(n, st)
  \/ Halt
  \/ TearDown
  \/ Conclude

Spec == Init /\ [][Next]_cvars
================================================================================
