--------------------------- MODULE DagExecutor_proofs ---------------------------
(******************************************************************************)
(* Theorems about DagExecutor, for every graph that Graph.Validate accepts,   *)
(* every retry policy and a storage that may fail.                            *)
(******************************************************************************)
EXTENDS DagExecutor, TLAPS

(* Graph.Ready on a graph that Graph.Validate accepts: while a node is left,  *)
(* one is ready, so the main loop reaches every node unless it is stopped.    *)
THEOREM EveryNodeReached ==
  ASSUME NEW D \in SUBSET Nodes, D # Nodes
  PROVE  Ready(D) # {}
<1>1. PICK n \in Nodes \ D : Deps[n] \cap (Nodes \ D) = {}
  BY GraphAssumption DEF Valid, Acyclic
<1>2. Deps[n] \subseteq D
  BY <1>1, GraphAssumption DEF Valid
<1> QED
  BY <1>1, <1>2 DEF Ready

(* A snapshot of well-typed statuses is a snapshot.                           *)
LEMMA SnapshotTyped ==
  ASSUME NEW st \in [Nodes -> Status]
  PROVE  SnapshotOf(st) \in Snapshot
  BY DEF SnapshotOf, Snapshot

(* Whatever save does, the row stays empty or a snapshot.                     *)
LEMMA SaveTyped ==
  ASSUME TypeOK, NEW s \in Snapshot, NEW c, SaveUnder(c, s)
  PROVE  store' \in SUBSET Snapshot
  BY DEF TypeOK, SaveUnder, Save

(* The initial states are well typed, recovered or not.                       *)
LEMMA InitTyped == Init => TypeOK
<1> SUFFICES ASSUME Init PROVE TypeOK
  OBVIOUS
<1>1. NoSnapshot \in Snapshot
  BY DEF NoSnapshot, Snapshot, Status
<1>2. \A D : Restored(D) \in [Nodes -> Status]
  BY DEF Restored, Status
<1>3. status \in [Nodes -> Status] /\ outputs \in SUBSET Outputs
  BY <1>2, ExecutorAssumption DEF Init, Snapshot
<1>4. store \in SUBSET Snapshot
  BY DEF Init
<1>5. snap \in [Nodes -> Snapshot]
  BY <1>1 DEF Init
<1>6. attempt \in [Nodes -> 0 .. MaxRetries]
  BY ExecutorAssumption DEF Init
<1> QED
  BY <1>3, <1>4, <1>5, <1>6 DEF Init, TypeOK

(* Marking a set of nodes as running keeps the node variables typed.          *)
LEMMA SpawnTyped ==
  ASSUME TypeOK, NEW S \in SUBSET Nodes, Spawn(S)
  PROVE  /\ status' \in [Nodes -> Status]
         /\ wave' \in SUBSET Nodes
         /\ gpc' \in [Nodes -> {"idle", "execute", "backoff", "marked", "saving"}]
         /\ attempt' \in [Nodes -> 0 .. MaxRetries]
         /\ snap' \in [Nodes -> Snapshot]
  BY ExecutorAssumption DEF TypeOK, Spawn, Status

(* A step of the main goroutine keeps the types.                              *)
LEMMA MainTyped == TypeOK /\ MainStep => TypeOK'
<1> SUFFICES ASSUME TypeOK, MainStep PROVE TypeOK'
  OBVIOUS
<1>1. CASE StopOnCancel
  <2>1. status' \in [Nodes -> Status]
    BY <1>1 DEF StopOnCancel, TypeOK, Status
  <2>2. store' \in SUBSET Snapshot
    BY <1>1, <2>1, SnapshotTyped, SaveTyped DEF StopOnCancel, SaveUnder
  <2> QED
    BY <1>1, <2>1, <2>2 DEF StopOnCancel, TypeOK, ctxVars, nodeVars
<1>2. CASE StopWhenIdle
  BY <1>2 DEF StopWhenIdle, TypeOK, runVars, ctxVars, nodeVars
<1>3. CASE StartWave
  <2>1. GetReady \in SUBSET Nodes
    BY DEF GetReady, Ready
  <2>2. status' \in [Nodes -> Status]
    BY <1>3, <2>1, SpawnTyped DEF StartWave
  <2>3. store' \in SUBSET Snapshot
    BY <1>3, <2>2, SnapshotTyped, SaveTyped DEF StartWave, SaveUnder
  <2> QED
    BY <1>3, <2>1, <2>3, SpawnTyped DEF StartWave, TypeOK, ctxVars
<1>4. CASE EndWave
  <2>1. store' \in SUBSET Snapshot
    BY <1>4, SnapshotTyped, SaveTyped DEF EndWave, SaveUnder, TypeOK
  <2> QED
    BY <1>4, <2>1 DEF EndWave, TypeOK, runVars, ctxVars, nodeVars
<1>5. CASE StartTeardown
  <2>1. ReadyAlwaysRun(Ended) \in SUBSET Nodes
    BY GraphAssumption DEF ReadyAlwaysRun
  <2> QED
    BY <1>5, <2>1, SpawnTyped DEF StartTeardown, TypeOK, ctxVars
<1>6. CASE EndTeardown
  <2>1. store' \in SUBSET Snapshot
    BY <1>6, SnapshotTyped, SaveTyped DEF EndTeardown, TypeOK
  <2> QED
    BY <1>6, <2>1 DEF EndTeardown, TypeOK, runVars, ctxVars, nodeVars
<1>7. CASE Return
  <2>1. store' \in SUBSET Snapshot
    BY <1>7, SnapshotTyped, SaveTyped DEF Return, SaveUnder, TypeOK
  <2>2. result' \in {"completed", "failed", "cancelled", "unreached"}
    BY <1>7 DEF Return, Outcome
  <2> QED
    BY <1>7, <2>1, <2>2 DEF Return, TypeOK, runVars, ctxVars, nodeVars
<1> QED
  BY <1>1, <1>2, <1>3, <1>4, <1>5, <1>6, <1>7 DEF MainStep

(* A step of a node's goroutine keeps the types.                              *)
LEMMA NodeTyped ==
  ASSUME TypeOK, RetriesLeft, NEW n \in Nodes, NodeStep(n)
  PROVE  TypeOK'
<1>1. CASE TaskSucceeds(n)
  BY <1>1, ExecutorAssumption DEF TaskSucceeds, TypeOK, Status, mainVars, ctxVars
<1>2. CASE TaskFails(n)
  BY <1>2 DEF TaskFails, TypeOK, mainVars, runVars, ctxVars
<1>3. CASE TaskExhausted(n)
  BY <1>3 DEF TaskExhausted, Finished, TypeOK, Status, mainVars, ctxVars
<1>4. CASE TakeSnapshot(n)
  <2>1. SnapshotOf(status) \in Snapshot
    BY SnapshotTyped DEF TypeOK
  <2> QED
    BY <1>4, <2>1 DEF TakeSnapshot, TypeOK, mainVars, runVars, ctxVars
<1>5. CASE WriteSnapshot(n)
  <2>1. store' \in SUBSET Snapshot
    BY <1>5, SaveTyped DEF WriteSnapshot, TypeOK
  <2>2. NoSnapshot \in Snapshot
    BY DEF NoSnapshot, Snapshot, Status
  <2> QED
    BY <1>5, <2>1, <2>2
    DEF WriteSnapshot, Finished, TypeOK, mainVars, runVars, ctxVars
<1>6. CASE Retry(n)
  <2>1. attempt[n] + 1 \in 0 .. MaxRetries
    BY <1>6, ExecutorAssumption DEF Retry, At, RetriesLeft, TypeOK
  <2> QED
    BY <1>6, <2>1 DEF Retry, TypeOK, mainVars, runVars, ctxVars
<1>7. CASE RetryCancelled(n)
  BY <1>7 DEF RetryCancelled, Finished, TypeOK, Status, mainVars, ctxVars
<1>8. CASE TaskRecords(n)
  BY <1>8, ExecutorAssumption DEF TaskRecords, TypeOK, mainVars, ctxVars, nodeVars
<1> QED
  BY <1>1, <1>2, <1>3, <1>4, <1>5, <1>6, <1>7, <1>8 DEF NodeStep, TaskReturns

--------------------------------------------------------------------------------
(* The inductive invariant.                                                   *)

(* What the done nodes have produced, as far as it is exported, is recorded.  *)
DoneRecorded == \A n \in Done : Produces[n] \cap Exported \subseteq outputs

(* It holds initially: a recovered row has a set of done nodes that is        *)
(* Restorable, and nothing is in progress.                                    *)
LEMMA InitInv == Init => ExecutorInv
<1> SUFFICES ASSUME Init PROVE ExecutorInv
  OBVIOUS
<1>1. TypeOK
  BY InitTyped
<1>2. PICK D \in Restorable : status = Restored(D)
  BY DEF Init, Restorable
<1>3. Done = D /\ Running = {} /\ \A n \in Nodes : status[n] \in {"done", "pending"}
  BY <1>2 DEF Restored, Done, Running, WithStatus, Restorable
<1>4. WaveRunning /\ WavePhase /\ RetriesLeft /\ StopReasons
  BY <1>3 DEF Init, WaveRunning, WavePhase, RetriesLeft, StopReasons
<1>5. DoneRecorded
  <2>1. CASE status = Restored({})
    BY <2>1 DEF DoneRecorded, Restored, Done, WithStatus
  <2>2. CASE \E s \in Snapshot : /\ Carries(s)
                                 /\ status = Restored(DoneIn(s))
                                 /\ outputs = s.outputs
    BY <2>2 DEF DoneRecorded, Carries, Restored, Done, WithStatus, DoneIn
  <2> QED
    BY <2>1, <2>2 DEF Init
<1>6. \A s \in store : Fit(s)
  <2> SUFFICES ASSUME NEW s \in store PROVE Fit(s)
    OBVIOUS
  <2>1. /\ DoneIn(s) \in Restorable
        /\ Carries(s)
        /\ status = Restored(DoneIn(s))
    BY DEF Init
  <2>2. DoneIn(s) \subseteq Done
    BY <2>1 DEF Restored, Done, WithStatus, DoneIn
  <2> QED
    BY <2>1, <2>2 DEF Fit
<1>7. RowsFit
  BY <1>2, <1>3, <1>5, <1>6 DEF RowsFit, DoneRecorded, Init
<1> QED
  BY <1>1, <1>4, <1>7 DEF ExecutorInv

(* A fresh copy of the present state is fit.                                  *)
LEMMA SnapshotFit ==
  ASSUME ExecutorInv
  PROVE  Fit(SnapshotOf(status)) /\ DoneIn(SnapshotOf(status)) = Done
<1>1. DoneIn(SnapshotOf(status)) = Done
  BY DEF DoneIn, SnapshotOf, Done, WithStatus
<1> QED
  BY <1>1 DEF ExecutorInv, RowsFit, Fit, Carries, SnapshotOf

(* The same for the statuses as a main step is about to leave them, as long   *)
(* as it does not touch the done nodes.                                       *)
LEMMA SavedFit ==
  ASSUME ExecutorInv, Done' = Done, outputs' = outputs, status' \in [Nodes -> Status],
         NEW c, SaveUnder(c, SnapshotOf(status'))
  PROVE  \A s \in store' : Fit(s)'
<1>1. DoneIn(SnapshotOf(status')) = Done
  BY DEF DoneIn, SnapshotOf, Done, WithStatus
<1>2. \A s \in store : Fit(s)'
  BY DEF ExecutorInv, RowsFit, Fit, Carries, DoneIn
<1>3. ASSUME NEW s, s = SnapshotOf(status') PROVE Fit(s)'
  <2>1. DoneIn(s) = Done /\ s.outputs = outputs \cap Exported
    BY <1>1, <1>3 DEF SnapshotOf
  <2> QED
    BY <2>1 DEF ExecutorInv, RowsFit, Fit, Carries, DoneIn
<1> QED
  BY <1>2, <1>3 DEF SaveUnder, Save

(* A step of the main goroutine keeps the invariant.                          *)
LEMMA MainInv == ExecutorInv /\ MainStep => ExecutorInv'
<1> SUFFICES ASSUME ExecutorInv, MainStep PROVE ExecutorInv'
  OBVIOUS
<1> USE DEF ExecutorInv
<1>0. TypeOK'
  BY MainTyped
<1>1. CASE StopOnCancel
  <2>1. Done' = Done /\ Running' = Running /\ wave = {}
    BY <1>1 DEF StopOnCancel, Done, Running, WithStatus, WavePhase, TypeOK
  <2>2. WaveRunning'
    BY <1>1, <2>1 DEF StopOnCancel, WaveRunning, nodeVars
  <2>3. WavePhase' /\ RetriesLeft'
    BY <1>1, <2>1 DEF StopOnCancel, WavePhase, RetriesLeft, nodeVars
  <2>4. StopReasons'
    <3>1. Running = {}
      BY <2>1 DEF WaveRunning
    <3>2. Nodes \ AlwaysRun \subseteq Ended'
      BY <1>1, <3>1 DEF StopOnCancel, Ended, Terminal, Running, WithStatus, TypeOK, Status
    <3> QED
      BY <1>1, <3>2 DEF StopOnCancel, StopReasons, ctxVars, HasFailedOrCancelled
  <2>5. RowsFit'
    BY <1>0, <1>1, <2>1, SavedFit
    DEF StopOnCancel, RowsFit, WaveRunning, nodeVars, SaveUnder, TypeOK
  <2> QED
    BY <1>0, <2>2, <2>3, <2>4, <2>5
<1>2. CASE StopWhenIdle
  <2>1. ~HasFailedOrCancelled => Done = Nodes
    BY <1>2, EveryNodeReached DEF StopWhenIdle, GetReady, Done, WithStatus
  <2>2. /\ Done' = Done /\ Running' = Running /\ Ended' = Ended
        /\ HasFailedOrCancelled' = HasFailedOrCancelled
    BY <1>2 DEF StopWhenIdle, runVars, Done, Running, Ended, Failed, WithStatus,
                HasFailedOrCancelled
  <2>3. WaveRunning'
    BY <1>2, <2>2 DEF StopWhenIdle, WaveRunning, runVars, nodeVars
  <2>4. WavePhase' /\ RetriesLeft'
    BY <1>2, <2>2 DEF StopWhenIdle, WavePhase, RetriesLeft, runVars, nodeVars
  <2>5. StopReasons'
    BY <1>2, <2>1, <2>2 DEF StopWhenIdle, StopReasons, runVars, ctxVars
  <2>6. RowsFit'
    BY <1>2, <2>2 DEF StopWhenIdle, RowsFit, Fit, Carries, DoneIn, runVars, nodeVars
  <2> QED
    BY <1>0, <2>3, <2>4, <2>5, <2>6
<1>3. CASE StartWave
  <2>1. /\ ~HasFailedOrCancelled /\ wave = {} /\ Running = {}
        /\ \A n \in Nodes : gpc[n] = "idle"
        /\ \A n \in GetReady : n \in Nodes \ Done /\ Deps[n] \subseteq Done
    BY <1>3 DEF StartWave, GetReady, Ready, WavePhase, WaveRunning
  <2>2. Done' = Done /\ Running' = GetReady /\ GetReady \subseteq Nodes
    BY <1>3, <2>1 DEF StartWave, Spawn, Done, Running, WithStatus, TypeOK
  <2>3. WaveRunning'
    BY <1>3, <2>1, <2>2 DEF StartWave, Spawn, WaveRunning, TypeOK
  <2>4. WavePhase'
    BY <1>3, <2>1, <2>2 DEF StartWave, Spawn, WavePhase
  <2>5. RetriesLeft'
    BY <1>3, <2>1, <2>2 DEF StartWave, Spawn, RetriesLeft, TypeOK
  <2>6. StopReasons'
    BY <1>3, <2>1 DEF StartWave, Spawn, StopReasons, HasFailedOrCancelled, ctxVars, TypeOK
  <2>7. RowsFit'
    <3>1. /\ Done' \in Restorable /\ DoneRecorded'
          /\ \A n \in Nodes : gpc'[n] # "saving"
      BY <1>3, <2>1, <2>2 DEF StartWave, Spawn, RowsFit, DoneRecorded, TypeOK
    <3>2. \A s \in store' : Fit(s)'
      BY <1>0, <1>3, <2>2, SavedFit DEF StartWave, SaveUnder, TypeOK
    <3>3. ASSUME ~StorageMayFail
          PROVE  \A m \in wave' : \E s \in store' : Deps[m] \subseteq DoneIn(s)
      <4>1. DoneIn(SnapshotOf(status')) = Done
        BY <2>2 DEF DoneIn, SnapshotOf, Done, WithStatus
      <4> QED
        BY <1>3, <2>1, <3>3, <4>1 DEF StartWave, Spawn, Save
    <3> QED
      BY <3>1, <3>2, <3>3 DEF RowsFit, DoneRecorded, DoneIn
  <2> QED
    BY <1>0, <2>3, <2>4, <2>5, <2>6, <2>7
<1>4. CASE EndWave
  <2>1. /\ Done' = Done /\ Running' = Running /\ Ended' = Ended
        /\ HasFailedOrCancelled' = HasFailedOrCancelled
    BY <1>4 DEF EndWave, runVars, Done, Running, Ended, Failed, WithStatus,
                HasFailedOrCancelled
  <2>2. WaveRunning'
    BY <1>4, <2>1 DEF EndWave, WaveRunning, runVars, nodeVars
  <2>3. WavePhase' /\ RetriesLeft'
    BY <1>4, <2>1 DEF EndWave, WavePhase, RetriesLeft, runVars, nodeVars
  <2>4. StopReasons'
    BY <1>4, <2>1 DEF EndWave, StopReasons, runVars, ctxVars
  <2>5. \A s \in store' : Fit(s)'
    <3>1. CASE UNCHANGED store
      BY <1>4, <2>1, <3>1 DEF EndWave, RowsFit, Fit, Carries, DoneIn, runVars
    <3>2. CASE Save(SnapshotOf(status))
      BY <1>4, <2>1, <3>2, SavedFit DEF EndWave, SaveUnder, TypeOK, runVars
    <3> QED
      BY <1>4, <3>1, <3>2 DEF EndWave
  <2>6. RowsFit'
    BY <1>4, <2>1, <2>5 DEF EndWave, RowsFit, Fit, Carries, DoneIn, runVars, nodeVars
  <2> QED
    BY <1>0, <2>2, <2>3, <2>4, <2>6
<1>5. CASE StartTeardown
  <2>1. /\ wave = {} /\ Running = {}
        /\ \A n \in Nodes : gpc[n] = "idle"
    BY <1>5 DEF StartTeardown, WavePhase, WaveRunning
  <2>2. ReadyAlwaysRun(Ended) \subseteq AlwaysRun \ Ended
    BY DEF ReadyAlwaysRun
  <2>3. /\ Done' = Done /\ Running' = ReadyAlwaysRun(Ended)
        /\ Ended' = Ended /\ Failed' = Failed
    BY <1>5, <2>1, <2>2, GraphAssumption
    DEF StartTeardown, Spawn, Done, Running, Ended, Failed, Terminal, WithStatus, TypeOK
  <2>4. WaveRunning'
    BY <1>5, <2>1, <2>2, <2>3, GraphAssumption DEF StartTeardown, Spawn, WaveRunning, TypeOK
  <2>5. WavePhase' /\ RetriesLeft'
    BY <1>5, <2>1, <2>2, <2>3
    DEF StartTeardown, Spawn, WavePhase, RetriesLeft, HasFailedOrCancelled, TypeOK
  <2>6. StopReasons'
    BY <1>5, <2>3 DEF StartTeardown, StopReasons, ctxVars
  <2>7. RowsFit'
    BY <1>5, <2>1, <2>3 DEF StartTeardown, Spawn, RowsFit, Fit, Carries, DoneIn, TypeOK
  <2> QED
    BY <1>0, <2>4, <2>5, <2>6, <2>7
<1>6. CASE EndTeardown
  <2>1. /\ Done' = Done /\ Running' = Running /\ Ended' = Ended
        /\ HasFailedOrCancelled' = HasFailedOrCancelled
    BY <1>6 DEF EndTeardown, runVars, Done, Running, Ended, Failed, WithStatus,
                HasFailedOrCancelled
  <2>2. WaveRunning'
    BY <1>6, <2>1 DEF EndTeardown, WaveRunning, runVars, nodeVars
  <2>3. WavePhase' /\ RetriesLeft'
    BY <1>6, <2>1 DEF EndTeardown, WavePhase, RetriesLeft, runVars, nodeVars
  <2>4. StopReasons'
    BY <1>6, <2>1 DEF EndTeardown, StopReasons, WavePhase, runVars, ctxVars
  <2>5. \A s \in store' : Fit(s)'
    BY <1>6, <2>1, SavedFit DEF EndTeardown, TypeOK, runVars
  <2>6. RowsFit'
    BY <1>6, <2>1, <2>5 DEF EndTeardown, RowsFit, Fit, Carries, DoneIn, runVars, nodeVars
  <2> QED
    BY <1>0, <2>2, <2>3, <2>4, <2>6
<1>7. CASE Return
  <2>1. /\ Done' = Done /\ Running' = Running /\ Ended' = Ended
        /\ HasFailedOrCancelled' = HasFailedOrCancelled
    BY <1>7 DEF Return, runVars, Done, Running, Ended, Failed, WithStatus,
                HasFailedOrCancelled
  <2>2. WaveRunning'
    BY <1>7, <2>1 DEF Return, WaveRunning, runVars, nodeVars
  <2>3. WavePhase' /\ RetriesLeft'
    BY <1>7, <2>1 DEF Return, WavePhase, RetriesLeft, runVars, nodeVars
  <2>4. StopReasons'
    BY <1>7, <2>1 DEF Return, StopReasons, runVars, ctxVars
  <2>5. \A s \in store' : Fit(s)'
    BY <1>7, <2>1, SavedFit DEF Return, SaveUnder, TypeOK, runVars
  <2>6. RowsFit'
    BY <1>7, <2>1, <2>5 DEF Return, RowsFit, Fit, Carries, DoneIn, runVars, nodeVars
  <2> QED
    BY <1>0, <2>2, <2>3, <2>4, <2>6
<1> QED
  BY <1>1, <1>2, <1>3, <1>4, <1>5, <1>6, <1>7 DEF MainStep

(* A node whose goroutine executes is running, inside a wave of nodes that    *)
(* were ready or inside the teardown.                                         *)
LEMMA AtExecute ==
  ASSUME ExecutorInv, NEW n \in Nodes, NEW l \in {"execute", "backoff"}, At(n, l)
  PROVE  /\ status[n] = "running"
         /\ pc \in {"wave", "teardown"}
         /\ n \in AlwaysRun \/ Deps[n] \subseteq Done
         /\ pc = "teardown" => n \in AlwaysRun
  BY DEF ExecutorInv, At, WaveRunning, WavePhase, Running, WithStatus

(* The rows stay fit while done nodes only accumulate, goroutines only finish *)
(* and nothing new is copied or written.                                      *)
LEMMA RowsKept ==
  ASSUME ExecutorInv, Done \subseteq Done', Done' \in Restorable,
         DoneRecorded', store' = store, pc' = pc,
         wave' \subseteq wave,
         \A m \in Nodes : gpc'[m] = "saving" => gpc[m] = "saving" /\ snap'[m] = snap[m]
  PROVE  RowsFit'
<1>1. \A s \in store' : Fit(s)'
  BY DEF ExecutorInv, RowsFit, Fit, Carries, DoneIn
<1>2. \A m \in Nodes : gpc'[m] = "saving" => Fit(snap[m])'
  BY DEF ExecutorInv, RowsFit, Fit
<1>3. ASSUME ~StorageMayFail, pc' = "wave", NEW m \in wave'
      PROVE  /\ \E s \in store' : Deps[m] \subseteq DoneIn(s)
             /\ \A n \in Nodes : gpc'[n] = "saving" => Deps[m] \subseteq DoneIn(snap'[n])
  BY <1>3 DEF ExecutorInv, RowsFit
<1> QED
  BY <1>1, <1>2, <1>3 DEF RowsFit, DoneRecorded

(* A step of a node's goroutine keeps the invariant.                          *)
LEMMA NodeInv ==
  ASSUME ExecutorInv, NEW n \in Nodes, NodeStep(n)
  PROVE  ExecutorInv'
<1> USE DEF ExecutorInv
<1>0. TypeOK'
  BY NodeTyped
<1>1. CASE TaskSucceeds(n)
  <2>1. /\ n \in wave /\ gpc[n] = "execute" /\ status[n] = "running"
        /\ n \in AlwaysRun \/ Deps[n] \subseteq Done
    BY <1>1, AtExecute DEF TaskSucceeds, At
  <2>2. /\ Done' = Done \cup {n} /\ Running' = Running \ {n}
        /\ Failed' = Failed /\ Ended \subseteq Ended'
    BY <1>1, <2>1 DEF TaskSucceeds, Done, Running, Failed, Ended, WithStatus, Terminal, TypeOK
  <2>3. WaveRunning'
    BY <1>1, <2>1, <2>2 DEF TaskSucceeds, WaveRunning, TypeOK
  <2>4. WavePhase' /\ RetriesLeft'
    BY <1>1, <2>1, <2>2
    DEF TaskSucceeds, WavePhase, RetriesLeft, HasFailedOrCancelled, mainVars, TypeOK
  <2>5. StopReasons'
    BY <1>1, <2>1, <2>2
    DEF TaskSucceeds, StopReasons, WavePhase, HasFailedOrCancelled, mainVars, ctxVars, TypeOK
  <2>6. Done' \in Restorable /\ DoneRecorded'
    BY <1>1, <2>1, <2>2, ExecutorAssumption
    DEF TaskSucceeds, RowsFit, Restorable, DoneRecorded
  <2>7. RowsFit'
    BY <1>1, <2>2, <2>6, RowsKept DEF TaskSucceeds, mainVars, TypeOK
  <2> QED
    BY <1>0, <2>3, <2>4, <2>5, <2>7
<1>2. CASE TaskFails(n)
  <2>1. n \in wave /\ gpc[n] = "execute"
    BY <1>2 DEF TaskFails, At
  <2>2. /\ Done' = Done /\ Running' = Running /\ Ended' = Ended
        /\ HasFailedOrCancelled' = HasFailedOrCancelled
    BY <1>2 DEF TaskFails, mainVars, runVars, Done, Running, Ended, Failed, WithStatus,
                HasFailedOrCancelled
  <2>3. WaveRunning'
    BY <1>2, <2>1, <2>2 DEF TaskFails, WaveRunning, runVars, TypeOK
  <2>4. WavePhase' /\ RetriesLeft'
    BY <1>2, <2>1, <2>2 DEF TaskFails, WavePhase, RetriesLeft, mainVars, runVars, TypeOK
  <2>5. StopReasons'
    BY <1>2, <2>2 DEF TaskFails, StopReasons, mainVars, runVars, ctxVars
  <2>6. RowsFit'
    BY <1>2, <2>2, RowsKept DEF TaskFails, RowsFit, DoneRecorded, mainVars, runVars, TypeOK
  <2> QED
    BY <1>0, <2>3, <2>4, <2>5, <2>6
<1>3. CASE TaskExhausted(n)
  <2>1. n \in wave /\ gpc[n] = "execute" /\ status[n] = "running"
    BY <1>3, AtExecute DEF TaskExhausted, At
  <2>2. /\ Done' = Done /\ Running' = Running \ {n}
        /\ n \in Failed' /\ Ended \subseteq Ended'
    BY <1>3, <2>1
    DEF TaskExhausted, Done, Running, Failed, Ended, WithStatus, Terminal, TypeOK
  <2>3. WaveRunning'
    BY <1>3, <2>1, <2>2 DEF TaskExhausted, Finished, WaveRunning, TypeOK
  <2>4. WavePhase' /\ RetriesLeft'
    BY <1>3, <2>1, <2>2
    DEF TaskExhausted, Finished, WavePhase, RetriesLeft, HasFailedOrCancelled,
        mainVars, TypeOK
  <2>5. StopReasons'
    BY <1>3, <2>1, <2>2
    DEF TaskExhausted, StopReasons, HasFailedOrCancelled, mainVars, ctxVars, TypeOK
  <2>6. RowsFit'
    BY <1>3, <2>2, RowsKept DEF TaskExhausted, Finished, RowsFit, DoneRecorded, mainVars, TypeOK
  <2> QED
    BY <1>0, <2>3, <2>4, <2>5, <2>6
<1>4. CASE TakeSnapshot(n)
  <2>1. n \in wave /\ gpc[n] = "marked"
    BY <1>4 DEF TakeSnapshot, At
  <2>2. /\ Done' = Done /\ Running' = Running /\ Ended' = Ended
        /\ HasFailedOrCancelled' = HasFailedOrCancelled
    BY <1>4 DEF TakeSnapshot, mainVars, runVars, Done, Running, Ended, Failed,
                WithStatus, HasFailedOrCancelled
  <2>3. WaveRunning'
    BY <1>4, <2>1, <2>2 DEF TakeSnapshot, WaveRunning, runVars, TypeOK
  <2>4. WavePhase' /\ RetriesLeft'
    BY <1>4, <2>1, <2>2
    DEF TakeSnapshot, WavePhase, RetriesLeft, mainVars, runVars, TypeOK
  <2>5. StopReasons'
    BY <1>4, <2>2 DEF TakeSnapshot, StopReasons, mainVars, runVars, ctxVars
  <2>6. RowsFit'
    <3>1. Fit(SnapshotOf(status)) /\ DoneIn(SnapshotOf(status)) = Done
      BY SnapshotFit
    <3>2. \A m \in Nodes : gpc'[m] = "saving" =>
            \/ snap'[m] = SnapshotOf(status)
            \/ gpc[m] = "saving" /\ snap'[m] = snap[m]
      BY <1>4, <2>1 DEF TakeSnapshot, TypeOK
    <3>3. pc = "wave" => \A m \in wave : Deps[m] \subseteq Done
      BY DEF WavePhase
    <3> QED
      BY <1>4, <2>2, <3>1, <3>2, <3>3
      DEF TakeSnapshot, RowsFit, Fit, DoneRecorded, mainVars, runVars
  <2> QED
    BY <1>0, <2>3, <2>4, <2>5, <2>6
<1>5. CASE WriteSnapshot(n)
  <2>1. n \in wave /\ gpc[n] = "saving" /\ status[n] = "done"
    BY <1>5 DEF WriteSnapshot, At, WaveRunning
  <2>2. /\ Done' = Done /\ Running' = Running /\ Ended' = Ended
        /\ HasFailedOrCancelled' = HasFailedOrCancelled
    BY <1>5 DEF WriteSnapshot, mainVars, runVars, Done, Running, Ended, Failed,
                WithStatus, HasFailedOrCancelled
  <2>3. WaveRunning'
    BY <1>5, <2>1, <2>2 DEF WriteSnapshot, Finished, WaveRunning, runVars, TypeOK
  <2>4. WavePhase' /\ RetriesLeft'
    BY <1>5, <2>1, <2>2
    DEF WriteSnapshot, Finished, WavePhase, RetriesLeft, mainVars, runVars, TypeOK
  <2>5. StopReasons'
    BY <1>5, <2>2 DEF WriteSnapshot, StopReasons, mainVars, runVars, ctxVars
  <2>6. RowsFit'
    <3>1. store' = store \/ store' = {snap[n]}
      BY <1>5 DEF WriteSnapshot, SaveUnder, Save
    <3>2. \A m \in Nodes : gpc'[m] = "saving" =>
            gpc[m] = "saving" /\ snap'[m] = snap[m]
      BY <1>5, <2>1 DEF WriteSnapshot, Finished, TypeOK
    <3>3. wave' \subseteq wave
      BY <1>5 DEF WriteSnapshot, Finished
    <3> QED
      BY <1>5, <2>1, <2>2, <3>1, <3>2, <3>3
      DEF WriteSnapshot, RowsFit, Fit, DoneRecorded, mainVars, runVars
  <2> QED
    BY <1>0, <2>3, <2>4, <2>5, <2>6
<1>6. CASE Retry(n)
  <2>1. n \in wave /\ gpc[n] = "backoff"
    BY <1>6 DEF Retry, At
  <2>2. /\ Done' = Done /\ Running' = Running /\ Ended' = Ended
        /\ HasFailedOrCancelled' = HasFailedOrCancelled
    BY <1>6 DEF Retry, mainVars, runVars, Done, Running, Ended, Failed, WithStatus,
                HasFailedOrCancelled
  <2>3. WaveRunning'
    BY <1>6, <2>1, <2>2 DEF Retry, WaveRunning, runVars, TypeOK
  <2>4. WavePhase' /\ RetriesLeft'
    BY <1>6, <2>1, <2>2 DEF Retry, WavePhase, RetriesLeft, mainVars, runVars, TypeOK
  <2>5. StopReasons'
    BY <1>6, <2>2 DEF Retry, StopReasons, mainVars, runVars, ctxVars
  <2>6. RowsFit'
    BY <1>6, <2>2, RowsKept DEF Retry, RowsFit, DoneRecorded, mainVars, runVars, TypeOK
  <2> QED
    BY <1>0, <2>3, <2>4, <2>5, <2>6
<1>7. CASE RetryCancelled(n)
  <2>1. n \in wave /\ gpc[n] = "backoff" /\ status[n] = "running"
    BY <1>7, AtExecute DEF RetryCancelled, At
  <2>2. /\ Done' = Done /\ Running' = Running \ {n}
        /\ Failed' = Failed /\ Ended \subseteq Ended'
    BY <1>7, <2>1
    DEF RetryCancelled, Done, Running, Failed, Ended, WithStatus, Terminal, TypeOK
  <2>3. WaveRunning'
    BY <1>7, <2>1, <2>2 DEF RetryCancelled, Finished, WaveRunning, TypeOK
  <2>4. WavePhase' /\ RetriesLeft'
    BY <1>7, <2>1, <2>2
    DEF RetryCancelled, Finished, WavePhase, RetriesLeft, HasFailedOrCancelled,
        mainVars, TypeOK
  <2>5. StopReasons'
    BY <1>7, <2>1, <2>2
    DEF RetryCancelled, NodeCtxDone, StopReasons, WavePhase, HasFailedOrCancelled,
        mainVars, ctxVars, TypeOK
  <2>6. RowsFit'
    BY <1>7, <2>2, RowsKept DEF RetryCancelled, Finished, RowsFit, DoneRecorded, mainVars, TypeOK
  <2> QED
    BY <1>0, <2>3, <2>4, <2>5, <2>6
<1>8. CASE TaskRecords(n)
  <2>1. /\ Done' = Done /\ Running' = Running /\ Ended' = Ended
        /\ HasFailedOrCancelled' = HasFailedOrCancelled /\ outputs \subseteq outputs'
    BY <1>8 DEF TaskRecords, mainVars, Done, Running, Ended, Failed, WithStatus,
                HasFailedOrCancelled
  <2>2. WaveRunning' /\ WavePhase' /\ RetriesLeft'
    BY <1>8, <2>1 DEF TaskRecords, WaveRunning, WavePhase, RetriesLeft, mainVars, nodeVars
  <2>3. StopReasons'
    BY <1>8, <2>1 DEF TaskRecords, StopReasons, mainVars, ctxVars
  <2>4. RowsFit'
    BY <1>8, <2>1, RowsKept DEF TaskRecords, RowsFit, DoneRecorded, mainVars, nodeVars
  <2> QED
    BY <1>0, <2>2, <2>3, <2>4
<1> QED
  BY <1>1, <1>2, <1>3, <1>4, <1>5, <1>6, <1>7, <1>8 DEF NodeStep, TaskReturns

(* The caller, the timer and a stuttering step keep the invariant.            *)
LEMMA OtherInv ==
  ASSUME ExecutorInv, Cancel \/ TeardownTimeout \/ UNCHANGED vars
  PROVE  ExecutorInv'
<1> USE DEF ExecutorInv
<1>1. UNCHANGED <<mainVars, runVars, nodeVars, store>>
  BY DEF Cancel, TeardownTimeout, vars
<1>2. /\ ctxDone => ctxDone'
      /\ ctxDone' \in BOOLEAN /\ tdExpired' \in BOOLEAN
  BY DEF Cancel, TeardownTimeout, vars, ctxVars, TypeOK
<1>3. TypeOK'
  BY <1>1, <1>2 DEF TypeOK, mainVars, runVars, nodeVars
<1>4. /\ Done' = Done /\ Running' = Running /\ Ended' = Ended
      /\ HasFailedOrCancelled' = HasFailedOrCancelled
  BY <1>1 DEF mainVars, runVars, Done, Running, Ended, Failed, WithStatus,
              HasFailedOrCancelled
<1>5. WaveRunning' /\ WavePhase' /\ RetriesLeft'
  BY <1>1, <1>4 DEF WaveRunning, WavePhase, RetriesLeft, mainVars, runVars, nodeVars
<1>6. StopReasons'
  BY <1>1, <1>2, <1>4 DEF StopReasons, mainVars, runVars
<1>7. RowsFit'
  BY <1>1, <1>4, RowsKept DEF RowsFit, DoneRecorded, mainVars, runVars, nodeVars
<1> QED
  BY <1>3, <1>5, <1>6, <1>7

(* Every step keeps the invariant.                                            *)
LEMMA NextInv == ExecutorInv /\ [Next]_vars => ExecutorInv'
<1> SUFFICES ASSUME ExecutorInv, [Next]_vars PROVE ExecutorInv'
  OBVIOUS
<1>1. CASE MainStep
  BY <1>1, MainInv
<1>2. CASE \E n \in Nodes : NodeStep(n)
  BY <1>2, NodeInv
<1>3. CASE Cancel \/ TeardownTimeout \/ Over \/ UNCHANGED vars
  BY <1>3, OtherInv DEF Over
<1> QED
  BY <1>1, <1>2, <1>3 DEF Next

(* The inductive invariant holds in every reachable state of executor.go's    *)
(* Run, for every graph, retry policy and storage.                            *)
THEOREM InvariantHolds == Spec => []ExecutorInv
  BY InitInv, NextInv, PTL DEF Spec

--------------------------------------------------------------------------------
(* The safety properties that the runs check.                                 *)

(* The state of an execution is always well typed: in particular no goroutine *)
(* of executeWithRetry runs a task more than MaxRetries + 1 times.            *)
THEOREM TypeCorrect == Spec => []TypeOK
  BY InvariantHolds, PTL DEF ExecutorInv

(* dag.go: a node that runs has its dependencies done, except an AlwaysRun    *)
(* node of a run that has failed or was cancelled.                            *)
THEOREM DependencyOrderHolds == Spec => []DependencyOrder
<1>1. ExecutorInv => DependencyOrder
  BY DEF ExecutorInv, WaveRunning, WavePhase, DependencyOrder
<1> QED
  BY <1>1, InvariantHolds, PTL

(* executor.go: when the teardown runs, every provisioning or other ordinary  *)
(* node has ended, whenever the cancel or the failure came.                   *)
THEOREM TeardownAloneHolds == Spec => []TeardownAlone
<1>1. ExecutorInv => TeardownAlone
  BY DEF ExecutorInv, WaveRunning, WavePhase, TeardownAlone
<1> QED
  BY <1>1, InvariantHolds, PTL

(* The row and every copy on its way to it can be resumed from, although the  *)
(* saves of a wave race and the storage may lose some of them.                *)
THEOREM RowRestorableHolds == Spec => []RowRestorable
<1>1. ExecutorInv => RowRestorable
  BY DEF ExecutorInv, RowsFit, Fit, RowRestorable
<1> QED
  BY <1>1, InvariantHolds, PTL

(* When the exporter writes what every task leaves behind, the row has the    *)
(* outputs of all nodes that it has as done.                                  *)
THEOREM RowCarriesOutputsHolds ==
  ASSUME Exported = Outputs
  PROVE  Spec => []RowCarriesOutputs
<1>1. ExecutorInv => RowCarriesOutputs
  BY ExecutorAssumption
  DEF ExecutorInv, RowsFit, Fit, Carries, DoneIn, RowCarriesOutputs
<1> QED
  BY <1>1, InvariantHolds, PTL

(* While the storage works, no node of a wave executes before the completion  *)
(* of its dependencies is in the row, and no late save takes it out again.    *)
THEOREM DependenciesDurableHolds == Spec => []DependenciesDurable
<1>1. ExecutorInv => DependenciesDurable
  BY DEF ExecutorInv, WaveRunning, RowsFit, DependenciesDurable
<1> QED
  BY <1>1, InvariantHolds, PTL

(* What holds of a run once Run has returned; there is no result before.      *)
Concluded ==
  /\ pc = "returned" =>
       /\ result = Outcome
       /\ HasFailedOrCancelled => AlwaysRun \subseteq Ended
       /\ ~StorageMayFail => store = {SnapshotOf(status)}
  /\ pc # "returned" => result = "none"

(* Return establishes it, and afterwards no goroutine is left to change       *)
(* anything.                                                                  *)
LEMMA ConcludedInv == ExecutorInv /\ Concluded /\ [Next]_vars => Concluded'
<1> SUFFICES ASSUME ExecutorInv, Concluded, [Next]_vars PROVE Concluded'
  OBVIOUS
<1>1. CASE Return
  <2>1. UNCHANGED runVars /\ UNCHANGED cancelled /\ Save(SnapshotOf(status))
    BY <1>1 DEF Return
  <2>2. AlwaysRun \subseteq Ended \/ ~HasFailedOrCancelled
    BY <1>1 DEF Return, ReadyAlwaysRun
  <2>3. /\ Ended' = Ended /\ Outcome' = Outcome
        /\ HasFailedOrCancelled' = HasFailedOrCancelled
        /\ SnapshotOf(status)' = SnapshotOf(status)
    BY <2>1 DEF runVars, Ended, Outcome, Done, Failed, WithStatus, HasFailedOrCancelled,
                SnapshotOf
  <2> QED
    BY <1>1, <2>1, <2>2, <2>3 DEF Return, Concluded, Save
<1>2. CASE pc = "returned"
  <2>1. wave = {}
    BY <1>2 DEF ExecutorInv, WavePhase
  <2>2. UNCHANGED <<mainVars, runVars, store>>
    BY <1>2, <2>1
    DEF Next, MainStep, StopOnCancel, StopWhenIdle, StartWave, EndWave, StartTeardown,
        EndTeardown, Return, NodeStep, TaskRecords, TaskReturns, TaskSucceeds, TaskFails,
        TaskExhausted, TakeSnapshot, WriteSnapshot, Retry, RetryCancelled, At, Cancel,
        TeardownTimeout, Over, vars, mainVars
  <2>3. /\ Ended' = Ended /\ Outcome' = Outcome
        /\ HasFailedOrCancelled' = HasFailedOrCancelled
        /\ SnapshotOf(status)' = SnapshotOf(status)
    BY <2>2 DEF mainVars, runVars, Ended, Outcome, Done, Failed, WithStatus, HasFailedOrCancelled,
                SnapshotOf
  <2> QED
    BY <1>2, <2>2, <2>3 DEF Concluded, mainVars
<1>3. CASE ~Return /\ pc # "returned"
  BY <1>3
  DEF Concluded, Next, MainStep, StopOnCancel, StopWhenIdle, StartWave, EndWave, StartTeardown,
      EndTeardown, NodeStep, TaskRecords, TaskReturns, TaskSucceeds, TaskFails, TaskExhausted,
      TakeSnapshot, WriteSnapshot, Retry, RetryCancelled, Cancel, TeardownTimeout, Over,
      vars, mainVars
<1> QED
  BY <1>1, <1>2, <1>3

(* Every run that has returned has concluded.                                 *)
LEMMA ConcludedHolds == Spec => []Concluded
<1>1. Init => Concluded
  BY DEF Init, Concluded
<1> QED
  BY <1>1, ConcludedInv, InvariantHolds, PTL DEF Spec

(* executor.go: what Run returns agrees with what became of the nodes: nil    *)
(* only when all are done, and never the error that nodes were not reached.   *)
THEOREM ResultSoundHolds == Spec => []ResultSound
<1>1. ExecutorInv /\ Concluded => ResultSound
  <2> SUFFICES ASSUME ExecutorInv, Concluded, pc = "returned" PROVE ResultSound
    BY DEF ResultSound
  <2>1. Running = {}
    BY DEF ExecutorInv, WaveRunning, WavePhase
  <2>2. result = Outcome /\ (HasFailedOrCancelled \/ Done = Nodes)
    BY DEF ExecutorInv, Concluded, StopReasons
  <2>3. result = "cancelled" => ctxDone /\ Ended = Nodes
    <3> SUFFICES ASSUME result = "cancelled" PROVE ctxDone /\ Ended = Nodes
      OBVIOUS
    <3>1. cancelled
      BY <2>2 DEF Outcome
    <3>2. Nodes \ AlwaysRun \subseteq Ended /\ AlwaysRun \subseteq Ended /\ ctxDone
      BY <3>1 DEF ExecutorInv, StopReasons, Concluded, HasFailedOrCancelled
    <3> QED
      BY <3>2 DEF Ended
  <2> QED
    BY <2>1, <2>2, <2>3 DEF Outcome, ResultSound, HasFailedOrCancelled
<1> QED
  BY <1>1, InvariantHolds, ConcludedHolds, PTL

(* executor.go: while the storage works, the row that Run leaves behind is    *)
(* the final status of every node.                                            *)
THEOREM FinalRowCurrentHolds == Spec => []FinalRowCurrent
<1>1. Concluded => FinalRowCurrent
  BY DEF Concluded, FinalRowCurrent
<1> QED
  BY <1>1, ConcludedHolds, PTL

(* No step changes the status of a node that has ended.                       *)
LEMMA EndedKept ==
  ASSUME ExecutorInv, [Next]_vars
  PROVE  \A n \in Nodes : status[n] \in Terminal => status'[n] = status[n]
<1> USE DEF ExecutorInv
<1>1. CASE StartWave
  <2>1. \A n \in GetReady : status[n] \notin Terminal
    BY <1>1 DEF StartWave, GetReady, Ready, StopReasons, HasFailedOrCancelled, Done,
                Failed, WithStatus, Terminal
  <2> QED
    BY <1>1, <2>1 DEF StartWave, Spawn
<1>2. CASE StartTeardown
  BY <1>2 DEF StartTeardown, Spawn, ReadyAlwaysRun, Ended
<1>3. CASE StopOnCancel
  BY <1>3 DEF StopOnCancel, Terminal
<1>4. CASE StopWhenIdle \/ EndWave \/ EndTeardown \/ Return
  BY <1>4 DEF StopWhenIdle, EndWave, EndTeardown, Return, runVars
<1>5. CASE \E n \in Nodes : NodeStep(n)
  <2> PICK n \in Nodes : NodeStep(n)
    BY <1>5
  <2>1. CASE TaskSucceeds(n) \/ TaskExhausted(n) \/ RetryCancelled(n)
    <3>1. status[n] = "running"
      BY <2>1, AtExecute DEF TaskSucceeds, TaskExhausted, RetryCancelled
    <3> QED
      BY <2>1, <3>1 DEF TaskSucceeds, TaskExhausted, RetryCancelled, TypeOK, Terminal
  <2>2. CASE TaskRecords(n) \/ TaskFails(n) \/ TakeSnapshot(n) \/ WriteSnapshot(n) \/ Retry(n)
    BY <2>2 DEF TaskRecords, TaskFails, TakeSnapshot, WriteSnapshot, Retry, runVars
  <2> QED
    BY <2>1, <2>2 DEF NodeStep, TaskReturns
<1>6. CASE Cancel \/ TeardownTimeout \/ Over \/ UNCHANGED vars
  BY <1>6 DEF Cancel, TeardownTimeout, Over, vars, runVars
<1> QED
  BY <1>1, <1>2, <1>3, <1>4, <1>5, <1>6 DEF Next, MainStep

(* A teardown that was cut short had passed its deadline, or the cancel came  *)
(* when all that it depends on was done.                                      *)
CutShort ==
  \A n \in AlwaysRun :
    status[n] = "cancelled" => tdExpired \/ (ctxDone /\ Deps[n] \subseteq Done)

LEMMA CutShortInv == ExecutorInv /\ CutShort /\ [Next]_vars => CutShort'
<1> SUFFICES ASSUME ExecutorInv, CutShort, [Next]_vars,
                    NEW n \in AlwaysRun, status'[n] = "cancelled"
             PROVE  tdExpired' \/ (ctxDone' /\ Deps[n] \subseteq Done')
  BY DEF CutShort
<1> USE GraphAssumption DEF ExecutorInv
<1>1. Done \subseteq Done'
  BY EndedKept DEF Done, WithStatus, Terminal
<1>2. (ctxDone => ctxDone') /\ (tdExpired => tdExpired')
  BY DEF Next, MainStep, StopOnCancel, StopWhenIdle, StartWave, EndWave, StartTeardown,
         EndTeardown, Return, NodeStep, TaskRecords, TaskReturns, TaskSucceeds, TaskFails,
         TaskExhausted, TakeSnapshot, WriteSnapshot, Retry, RetryCancelled, Cancel,
         TeardownTimeout, Over, vars, ctxVars
<1>3. CASE status[n] = "cancelled"
  BY <1>1, <1>2, <1>3 DEF CutShort
<1>4. CASE RetryCancelled(n)
  <2>1. pc \in {"wave", "teardown"} /\ (pc = "wave" => Deps[n] \subseteq Done)
    BY <1>4, AtExecute DEF RetryCancelled, At, WavePhase
  <2> QED
    BY <1>1, <1>2, <1>4, <2>1 DEF RetryCancelled, NodeCtxDone
<1>5. CASE status[n] # "cancelled" /\ ~RetryCancelled(n)
  <2>1. CASE MainStep
    BY <1>5, <2>1 DEF MainStep, StopOnCancel, StopWhenIdle, StartWave, EndWave, StartTeardown,
                      EndTeardown, Return, Spawn, runVars
  <2>2. CASE \E m \in Nodes : NodeStep(m)
    BY <1>5, <2>2 DEF NodeStep, TaskRecords, TaskReturns, TaskSucceeds, TaskFails,
                      TaskExhausted, TakeSnapshot, WriteSnapshot, Retry, RetryCancelled,
                      runVars, TypeOK
  <2>3. CASE Cancel \/ TeardownTimeout \/ Over \/ UNCHANGED vars
    BY <1>5, <2>3 DEF Cancel, TeardownTimeout, Over, vars, runVars
  <2> QED
    BY <2>1, <2>2, <2>3 DEF Next
<1> QED
  BY <1>3, <1>4, <1>5

(* dag.go, executor.go: whichever way a run stops, Run returns with every     *)
(* AlwaysRun node executed to its end, unless its deadline passed or a cancel *)
(* found it in a wave of the main loop.                                       *)
THEOREM TeardownNotSkippedHolds == Spec => []TeardownNotSkipped
<1>1. Init => CutShort
  BY GraphAssumption DEF Init, CutShort, Restored
<1>2. ExecutorInv /\ Concluded /\ CutShort => TeardownNotSkipped
  <2> SUFFICES ASSUME ExecutorInv, Concluded, CutShort, pc = "returned"
               PROVE  AlwaysRun \subseteq Ended
    BY DEF CutShort, TeardownNotSkipped, Ended, Terminal
  <2> QED
    BY GraphAssumption
    DEF ExecutorInv, StopReasons, Concluded, Done, Ended, WithStatus, Terminal
<1> QED
  BY <1>1, <1>2, CutShortInv, InvariantHolds, ConcludedHolds, PTL DEF Spec

(* A node that is done, failed or cancelled keeps that status: it is never    *)
(* scheduled again by this Run.                                               *)
THEOREM EndedStaysHolds == Spec => EndedStays
  BY EndedKept, InvariantHolds, PTL DEF Spec, EndedStays

(* dag.go: a provisioning node that is running is never cancelled, whatever   *)
(* happens to the context of the run.                                         *)
THEOREM MustCompleteNotInterruptedHolds == Spec => MustCompleteNotInterrupted
<1>1. ASSUME ExecutorInv, [Next]_vars
      PROVE  \A n \in MustComplete \ AlwaysRun :
               status[n] = "running" => status'[n] # "cancelled"
  <2> SUFFICES ASSUME NEW n \in MustComplete \ AlwaysRun, status[n] = "running"
               PROVE  status'[n] # "cancelled"
    OBVIOUS
  <2> USE <1>1, GraphAssumption DEF ExecutorInv
  <2>1. CASE MainStep
    BY <2>1 DEF MainStep, StopOnCancel, StopWhenIdle, StartWave, EndWave, StartTeardown,
                EndTeardown, Return, Spawn, runVars
  <2>2. CASE \E m \in Nodes : NodeStep(m)
    <3> PICK m \in Nodes : NodeStep(m)
      BY <2>2
    <3>1. CASE RetryCancelled(m)
      <4>1. m # n
        BY <3>1, AtExecute DEF RetryCancelled, NodeCtxDone
      <4> QED
        BY <3>1, <4>1 DEF RetryCancelled, TypeOK
    <3>2. CASE TaskSucceeds(m) \/ TaskExhausted(m)
      BY <3>2 DEF TaskSucceeds, TaskExhausted, TypeOK
    <3>3. CASE TaskRecords(m) \/ TaskFails(m) \/ TakeSnapshot(m) \/ WriteSnapshot(m) \/ Retry(m)
      BY <3>3 DEF TaskRecords, TaskFails, TakeSnapshot, WriteSnapshot, Retry, runVars
    <3> QED
      BY <3>1, <3>2, <3>3 DEF NodeStep, TaskReturns
  <2>3. CASE Cancel \/ TeardownTimeout \/ Over \/ UNCHANGED vars
    BY <2>3 DEF Cancel, TeardownTimeout, Over, vars, runVars
  <2> QED
    BY <2>1, <2>2, <2>3 DEF Next
<1> QED
  BY <1>1, InvariantHolds, PTL DEF Spec, MustCompleteNotInterrupted

--------------------------------------------------------------------------------
(* The executor implements RunContract.                                       *)

(* The statuses are those of the contract.                                    *)
LEMMA SameSets ==
  /\ Contract!In({"done"}) = Done
  /\ Contract!In({"failed"}) = Failed
  /\ Contract!In({"running"}) = Running
  BY DEF Contract!In, Done, Failed, Running, WithStatus

(* The contract's initial states.                                             *)
LEMMA RefineInit == Init => Contract!Init
<1> SUFFICES ASSUME Init PROVE Contract!Init
  OBVIOUS
<1>1. PICK D \in Restorable : status = Restored(D)
  BY DEF Init, Restorable
<1> QED
  BY <1>1 DEF Init, Restored, Restorable, Contract!Init, Contract!Restorable

(* A main step halts the run, begins nodes, tears down, concludes or is       *)
(* invisible.                                                                 *)
LEMMA RefineMain ==
  ASSUME ExecutorInv, Concluded, MainStep
  PROVE  Contract!Next \/ UNCHANGED Contract!cvars
<1> USE DEF ExecutorInv
<1>1. CASE StopOnCancel \/ StopWhenIdle
  <2>1. Running = {}
    BY <1>1 DEF StopOnCancel, StopWhenIdle, WaveRunning, WavePhase
  <2>2. Contract!Halt
    BY <1>1, <2>1, SameSets DEF StopOnCancel, StopWhenIdle, runVars, Contract!Halt
  <2> QED
    BY <2>2 DEF Contract!Next
<1>2. CASE StartWave
  <2>1. Running = {}
    BY <1>2 DEF StartWave, WaveRunning, WavePhase
  <2>2. /\ GetReady \subseteq Nodes /\ ~HasFailedOrCancelled
        /\ \A n \in GetReady : status[n] = "pending" /\ Deps[n] \subseteq Done
    BY <1>2, <2>1 DEF StartWave, GetReady, Ready, StopReasons, HasFailedOrCancelled,
                      Done, Failed, Running, WithStatus, TypeOK, Status
  <2>3. GetReady \subseteq Contract!In({"pending"})
    BY <2>2 DEF Contract!In
  <2>4. Contract!Begin(GetReady)
    BY <1>2, <2>2, <2>3, SameSets
    DEF StartWave, Spawn, HasFailedOrCancelled, Contract!Begin
  <2> QED
    BY <2>2, <2>4 DEF Contract!Next
<1>3. CASE EndWave
  <2>1. Running = {}
    BY <1>3 DEF EndWave, WaveRunning
  <2>2. Contract!Halt \/ UNCHANGED Contract!cvars
    BY <1>3, <2>1, SameSets DEF EndWave, runVars, Contract!Halt, Contract!cvars
  <2> QED
    BY <2>2 DEF Contract!Next
<1>4. CASE StartTeardown
  <2>1. Running = {}
    BY <1>4 DEF StartTeardown, WaveRunning, WavePhase
  <2>2. \A n \in Nodes :
          n \in ReadyAlwaysRun(Ended) <=> status[n] = "pending" /\ n \in AlwaysRun
    BY <2>1 DEF ReadyAlwaysRun, Ended, Terminal, Running, WithStatus, TypeOK, Status
  <2>3. Contract!In({"pending"}) \cap AlwaysRun # {}
    BY <1>4, <2>2, GraphAssumption DEF StartTeardown, ReadyAlwaysRun, Contract!In
  <2>4. Contract!TearDown
    BY <1>4, <2>1, <2>2, <2>3, SameSets
    DEF StartTeardown, Spawn, Concluded, Contract!TearDown
  <2> QED
    BY <2>4 DEF Contract!Next
<1>5. CASE EndTeardown
  BY <1>5 DEF EndTeardown, runVars, Contract!cvars
<1>6. CASE Return
  <2>1. Running = {} /\ result = "none"
    BY <1>6 DEF Return, WaveRunning, WavePhase, Concluded
  <2>2. HasFailedOrCancelled \/ Done = Nodes
    BY <1>6 DEF Return, StopReasons
  <2>3. HasFailedOrCancelled => AlwaysRun \subseteq Ended
    BY <1>6 DEF Return, ReadyAlwaysRun
  <2>4. Contract!In({"pending"}) \cap AlwaysRun = {}
    BY <2>2, <2>3, GraphAssumption
    DEF Contract!In, Ended, Done, Terminal, WithStatus
  <2>5. CASE Failed # {}
    BY <1>6, <2>1, <2>4, <2>5, SameSets
    DEF Return, Outcome, runVars, Contract!Conclude, Contract!Next
  <2>6. CASE Failed = {} /\ cancelled
    <3>1. Ended = Nodes
      BY <2>3, <2>6 DEF StopReasons, HasFailedOrCancelled, Ended
    <3>2. Contract!In({"failed", "pending"}) = {}
      BY <2>6, <3>1 DEF Contract!In, Failed, Ended, Terminal, WithStatus
    <3> QED
      BY <1>6, <2>1, <2>4, <2>6, <3>2, SameSets
      DEF Return, Outcome, runVars, Contract!Conclude, Contract!Next
  <2>7. CASE ~HasFailedOrCancelled
    BY <1>6, <2>1, <2>2, <2>4, <2>7, SameSets
    DEF Return, Outcome, HasFailedOrCancelled, runVars, Contract!Conclude, Contract!Next
  <2> QED
    BY <2>5, <2>6, <2>7 DEF HasFailedOrCancelled
<1> QED
  BY <1>1, <1>2, <1>3, <1>4, <1>5, <1>6 DEF MainStep

(* A step of a node's goroutine ends the node or is invisible.                *)
LEMMA RefineNode ==
  ASSUME ExecutorInv, NEW n \in Nodes, NodeStep(n)
  PROVE  Contract!Next \/ UNCHANGED Contract!cvars
<1> USE DEF ExecutorInv
<1>1. CASE TaskSucceeds(n)
  <2>1. Contract!End(n, "done")
    BY <1>1, AtExecute DEF TaskSucceeds, mainVars, Contract!End
  <2> QED
    BY <2>1 DEF Contract!Next
<1>2. CASE TaskExhausted(n)
  <2>1. Contract!End(n, "failed")
    BY <1>2, AtExecute DEF TaskExhausted, mainVars, Contract!End
  <2> QED
    BY <2>1 DEF Contract!Next
<1>3. CASE RetryCancelled(n)
  <2>1. Contract!End(n, "cancelled")
    BY <1>3, AtExecute DEF RetryCancelled, NodeCtxDone, mainVars, Contract!End
  <2> QED
    BY <2>1 DEF Contract!Next
<1>4. CASE TaskRecords(n) \/ TaskFails(n) \/ TakeSnapshot(n) \/ WriteSnapshot(n) \/ Retry(n)
  BY <1>4
  DEF TaskRecords, TaskFails, TakeSnapshot, WriteSnapshot, Retry, mainVars, runVars, Contract!cvars
<1> QED
  BY <1>1, <1>2, <1>3, <1>4 DEF NodeStep, TaskReturns

(* executor.go implements the contract: whatever the interleaving of waves,   *)
(* retries, saves, cancellations and deadlines, the statuses and the result   *)
(* move as RunContract says.                                                  *)
THEOREM ContractImplemented == Spec => ImplementsContract
<1>1. ExecutorInv /\ Concluded /\ [Next]_vars => [Contract!Next]_(Contract!cvars)
  <2> SUFFICES ASSUME ExecutorInv, Concluded, [Next]_vars
               PROVE  Contract!Next \/ UNCHANGED Contract!cvars
    OBVIOUS
  <2>1. CASE MainStep
    BY <2>1, RefineMain
  <2>2. CASE \E n \in Nodes : NodeStep(n)
    BY <2>2, RefineNode
  <2>3. CASE Cancel \/ TeardownTimeout \/ Over \/ UNCHANGED vars
    BY <2>3 DEF Cancel, TeardownTimeout, Over, vars, mainVars, runVars, Contract!cvars
  <2> QED
    BY <2>1, <2>2, <2>3 DEF Next
<1> QED
  BY <1>1, RefineInit, InvariantHolds, ConcludedHolds, PTL
  DEF Spec, ImplementsContract, Contract!Spec
================================================================================
