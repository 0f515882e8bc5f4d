---------------------------------- MODULE Dag ----------------------------------
(******************************************************************************)
(* The run graph of internal/core/dag: a finite set of nodes, the nodes each  *)
(* one depends on, and the two flags the executor looks at.  Graph.Validate   *)
(* rejects unknown dependencies and cycles before a graph is ever executed,   *)
(* so both are assumptions here.                                              *)
(******************************************************************************)
EXTENDS FiniteSets

CONSTANTS
  Nodes,         \* node IDs; Graph.Add refuses a duplicate
  Deps,          \* Deps[n]: the nodes that n waits for
  AlwaysRun,     \* nodes with the AlwaysRun flag (teardown)
  MustComplete   \* nodes with the MustComplete flag (provisioning)

(* A finite graph has no cycle exactly when every non-empty set of its nodes  *)
(* has a member that depends on no member of the set.                         *)
Acyclic == \A S \in (SUBSET Nodes) \ {{}} : \E n \in S : Deps[n] \cap S = {}

(* What Graph.Add and Graph.Validate accept.                                  *)
Valid ==
  /\ Deps \in [Nodes -> SUBSET Nodes]
  /\ Acyclic

ASSUME GraphAssumption ==
  /\ IsFiniteSet(Nodes)
  /\ Nodes # {}
  /\ AlwaysRun \subseteq Nodes
  /\ MustComplete \subseteq Nodes
  /\ Valid

(* A slip in Ready: one finished dependency is enough.                        *)
ReadySomeDep(done) ==
  {n \in Nodes \ done : Deps[n] = {} \/ Deps[n] \cap done # {}}

(* Graph.Ready: the nodes outside done whose dependencies are all in done.    *)
Ready(done) == {n \in Nodes \ done : Deps[n] \subseteq done}

(* A slip in ReadyAlwaysRun: the ended nodes are not left out.                *)
ReadyAlwaysRunAgain(ended) == AlwaysRun

(* Graph.ReadyAlwaysRun: every AlwaysRun node outside ended; dependencies are *)
(* not looked at.                                                             *)
ReadyAlwaysRun(ended) == AlwaysRun \ ended

(* The sets of finished nodes a snapshot can hold: an ordinary node finished  *)
(* after its dependencies did, an AlwaysRun node perhaps without them.        *)
Restorable ==
  {D \in SUBSET Nodes : \A n \in D \ AlwaysRun : Deps[n] \subseteq D}

================================================================================
