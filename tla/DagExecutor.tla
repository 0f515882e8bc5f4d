------------------------------ MODULE DagExecutor ------------------------------
(******************************************************************************)
(* internal/core/dag/executor.go: one call of Executor.Run.                   *)
(*                                                                            *)
(* The main goroutine schedules the ready nodes in waves: it marks them       *)
(* running, saves a snapshot, starts one goroutine per node and waits for all *)
(* of them.  A node goroutine executes its task with retries and a backoff;   *)
(* on success it marks its node done and saves a snapshot of the whole run.   *)
(* That save copies the statuses under e.mu and writes the copy after the     *)
(* unlock, so saves of one wave reach the storage in any order.  When a node  *)
(* has failed or the context is cancelled, scheduling stops and the AlwaysRun *)
(* nodes run under a context of their own that expires after ten minutes.     *)
(*                                                                            *)
(* A task is its outcome: Execute returns nil or an error, and on the way it  *)
(* records outputs in the shared run state one by one (container IDs,         *)
(* targets, endpoints), which every snapshot exports for a later recovery.    *)
(* Every save ignores its error, so a failed write leaves the old row.        *)
(******************************************************************************)
EXTENDS Dag, Naturals

CONSTANTS
  MaxRetries,      \* RetryPolicy.MaxRetries
  StorageMayFail,  \* TRUE: a write to the storage may fail for its own reasons
  Outputs,         \* what tasks record in the run state
  Records,         \* Records[n]: what the task of n may record
  Produces,        \* Produces[n]: what it has recorded when it succeeds
  Exported         \* the outputs that State.ExportRunState writes out

ASSUME ExecutorAssumption ==
  /\ MaxRetries \in Nat
  /\ StorageMayFail \in BOOLEAN
  /\ Records \in [Nodes -> SUBSET Outputs]
  /\ Produces \in [Nodes -> SUBSET Outputs]
  /\ \A n \in Nodes : Produces[n] \subseteq Records[n]
  /\ Exported \subseteq Outputs

VARIABLES
  pc,         \* where the main goroutine is
  status,     \* e.nodeStatus; an absent entry is "pending"
  outputs,    \* run.State: the outputs recorded so far
  cancelled,  \* e.cancelled
  ctxDone,    \* the context given to Run is cancelled
  tdExpired,  \* the teardown context has passed its deadline
  wave,       \* nodes whose goroutine has not called wg.Done
  gpc,        \* where each node's goroutine is
  attempt,    \* the retry counter of each running node
  snap,       \* the snapshot a goroutine took and has yet to write
  store,      \* the run's row: {} when there is none, else one snapshot
  result      \* what Run returned

mainVars == <<pc, cancelled, result>>
runVars  == <<status, outputs>>
nodeVars == <<wave, gpc, attempt, snap>>
ctxVars  == <<ctxDone, tdExpired>>
vars == <<mainVars, runVars, ctxVars, nodeVars, store>>

Status == {"pending", "running", "done", "failed", "cancelled"}
Terminal == {"done", "failed", "cancelled"}

(* dag.Snapshot: the node statuses and the exported run state.                *)
Snapshot == [nodes : [Nodes -> Status], outputs : SUBSET Exported]

TypeOK ==
  /\ pc \in {"loop", "wave", "stopped", "teardown", "returned"}
  /\ status \in [Nodes -> Status]
  /\ outputs \in SUBSET Outputs
  /\ cancelled \in BOOLEAN
  /\ ctxDone \in BOOLEAN
  /\ tdExpired \in BOOLEAN
  /\ wave \in SUBSET Nodes
  /\ gpc \in [Nodes -> {"idle", "execute", "backoff", "marked", "saving"}]
  /\ attempt \in [Nodes -> 0 .. MaxRetries]
  /\ snap \in [Nodes -> Snapshot]
  /\ store \in SUBSET Snapshot
  /\ result \in {"none", "completed", "failed", "cancelled", "unreached"}

--------------------------------------------------------------------------------

WithStatus(s) == {n \in Nodes : status[n] = s}
DoneIn(s) == {n \in Nodes : s.nodes[n] = "done"}   \* of a snapshot
Done    == WithStatus("done")
Failed  == WithStatus("failed")
Ended   == {n \in Nodes : status[n] \in Terminal}

(* A slip in HasFailedOrCancelled: the cancellation is forgotten.             *)
HasFailed == Failed # {}

HasFailedOrCancelled == cancelled \/ Failed # {}

(* getReady                                                                   *)
GetReady == IF HasFailedOrCancelled THEN {} ELSE Ready(Done)

(* A slip in SnapshotOf: no exporter is set.                                  *)
SnapshotOfStatuses(st) == [nodes |-> st, outputs |-> {}]

(* snapshot: taken under e.mu, the exporter called last.                      *)
SnapshotOf(st) == [nodes |-> st, outputs |-> outputs \cap Exported]

(* save with a context that cannot be cancelled: the row becomes the snapshot *)
(* s, or the storage fails and nobody looks at the error.                     *)
Save(s) ==
  \/ store' = {s}
  \/ StorageMayFail /\ UNCHANGED store

(* save under a context: a cancelled context stops the write unless it was    *)
(* already on its way.                                                        *)
SaveUnder(done, s) == Save(s) \/ (done /\ UNCHANGED store)

(* A slip in NodeCtxDone: provisioning nodes share the run's context.         *)
NodeCtxDoneAlike(n) == IF pc = "teardown" THEN tdExpired ELSE ctxDone

(* The context executeWithRetry was given: Background for a MustComplete node *)
(* of the main loop, else the run's; for an AlwaysRun node run after the loop *)
(* it is the teardown context.                                                *)
NodeCtxDone(n) ==
  IF pc = "teardown" THEN tdExpired ELSE n \notin MustComplete /\ ctxDone

NoSnapshot == [nodes |-> [n \in Nodes |-> "pending"], outputs |-> {}]

(* A snapshot has what its done nodes have produced.                          *)
Carries(s) == \A n \in DoneIn(s) : Produces[n] \cap Exported \subseteq s.outputs

(* MarkNodeDone for the nodes that the row records as done.                   *)
Restored(D) == [n \in Nodes |-> IF n \in D THEN "done" ELSE "pending"]

(* A fresh run has no row.  A recovered one has the row it is recovered from: *)
(* of its nodes only the done ones keep their status, and ImportRunState      *)
(* restores the outputs.                                                      *)
Init ==
  /\ pc = "loop"
  /\ cancelled = FALSE
  /\ ctxDone = FALSE
  /\ tdExpired = FALSE
  /\ wave = {}
  /\ gpc = [n \in Nodes |-> "idle"]
  /\ attempt = [n \in Nodes |-> 0]
  /\ snap = [n \in Nodes |-> NoSnapshot]
  /\ result = "none"
  /\ \/ store = {} /\ status = Restored({}) /\ outputs = {}
     \/ \E s \in Snapshot :
          /\ DoneIn(s) \in Restorable
          /\ Carries(s)
          /\ \E n \in Nodes : s.nodes[n] = "pending"
          /\ store = {s}
          /\ status = Restored(DoneIn(s))
          /\ outputs = s.outputs

--------------------------------------------------------------------------------
(* The caller of Run and the teardown timer.                                  *)

(* The server calls the run's cancel function.                                *)
Cancel ==
  /\ pc # "returned"
  /\ ~ctxDone
  /\ ctxDone' = TRUE
  /\ UNCHANGED <<mainVars, runVars, tdExpired, nodeVars, store>>

(* context.WithTimeout: ten minutes after the teardown began.                 *)
TeardownTimeout ==
  /\ pc = "teardown"
  /\ ~tdExpired
  /\ tdExpired' = TRUE
  /\ UNCHANGED <<mainVars, runVars, ctxDone, nodeVars, store>>

--------------------------------------------------------------------------------
(* The main goroutine.                                                        *)

(* Goroutines for the nodes of S: marked running, first attempt ahead.        *)
Spawn(S) ==
  /\ status' = [n \in Nodes |-> IF n \in S THEN "running" ELSE status[n]]
  /\ wave' = S
  /\ gpc' = [n \in Nodes |-> IF n \in S THEN "execute" ELSE gpc[n]]
  /\ attempt' = [n \in Nodes |-> IF n \in S THEN 0 ELSE attempt[n]]
  /\ UNCHANGED snap

(* A slip in StopOnCancel: the AlwaysRun nodes are cancelled with the others. *)
StopOnCancelAll ==
  /\ pc = "loop"
  /\ ctxDone
  /\ cancelled' = TRUE
  /\ status' = [n \in Nodes |->
                  IF status[n] = "pending" THEN "cancelled" ELSE status[n]]
  /\ Save(SnapshotOf(status'))
  /\ pc' = "stopped"
  /\ UNCHANGED <<outputs, result, ctxVars, nodeVars>>

(* The top of the loop finds the context cancelled: the nodes that never ran  *)
(* are cancelled, the AlwaysRun ones are kept for the teardown.               *)
StopOnCancel ==
  /\ pc = "loop"
  /\ ctxDone
  /\ cancelled' = TRUE
  /\ status' = [n \in Nodes |->
                  IF status[n] = "pending" /\ n \notin AlwaysRun
                    THEN "cancelled" ELSE status[n]]
  /\ Save(SnapshotOf(status'))
  /\ pc' = "stopped"
  /\ UNCHANGED <<outputs, result, ctxVars, nodeVars>>

(* Nothing is ready: the loop ends.                                           *)
StopWhenIdle ==
  /\ pc = "loop"
  /\ ~ctxDone
  /\ GetReady = {}
  /\ pc' = "stopped"
  /\ UNCHANGED <<cancelled, result, runVars, ctxVars, nodeVars, store>>

(* A slip in StartWave: the running marks are not saved.                      *)
StartWaveUnsaved ==
  /\ pc = "loop"
  /\ ~ctxDone
  /\ GetReady # {}
  /\ Spawn(GetReady)
  /\ pc' = "wave"
  /\ UNCHANGED <<cancelled, result, outputs, ctxVars, store>>

(* The ready nodes are marked running and saved before any of them starts.    *)
StartWave ==
  /\ pc = "loop"
  /\ ~ctxDone
  /\ GetReady # {}
  /\ Spawn(GetReady)
  /\ Save(SnapshotOf(status'))
  /\ pc' = "wave"
  /\ UNCHANGED <<cancelled, result, outputs, ctxVars>>

(* wg.Wait returns when every goroutine of the wave is finished.              *)
EndWave ==
  /\ pc = "wave"
  /\ wave = {}
  /\ \/ /\ HasFailedOrCancelled
        /\ Save(SnapshotOf(status))
        /\ pc' = "stopped"
     \/ /\ ~HasFailedOrCancelled
        /\ pc' = "loop"
        /\ UNCHANGED store
  /\ UNCHANGED <<cancelled, result, runVars, ctxVars, nodeVars>>

(* runAlwaysRunNodes: the AlwaysRun nodes that have not ended, all at once;   *)
(* this marking is not saved.                                                 *)
StartTeardown ==
  /\ pc = "stopped"
  /\ HasFailedOrCancelled
  /\ ReadyAlwaysRun(Ended) # {}
  /\ Spawn(ReadyAlwaysRun(Ended))
  /\ pc' = "teardown"
  /\ UNCHANGED <<cancelled, result, outputs, ctxVars, store>>

EndTeardown ==
  /\ pc = "teardown"
  /\ wave = {}
  /\ SaveUnder(tdExpired, SnapshotOf(status))
  /\ pc' = "stopped"
  /\ UNCHANGED <<cancelled, result, runVars, ctxVars, nodeVars>>

(* A slip in Outcome: e.cancelled is not looked at.                           *)
OutcomeWithoutCancelled ==
  IF Failed # {} THEN "failed" ELSE IF Done # Nodes THEN "unreached"
  ELSE "completed"

(* The error Run returns; markFailed records one error per failed node.       *)
Outcome ==
  IF Failed # {} THEN "failed"
  ELSE IF cancelled THEN "cancelled"
  ELSE IF Done # Nodes THEN "unreached"
  ELSE "completed"

(* A slip in Return: no last save.                                            *)
ReturnUnsaved ==
  /\ pc = "stopped"
  /\ HasFailedOrCancelled => ReadyAlwaysRun(Ended) = {}
  /\ result' = Outcome
  /\ pc' = "returned"
  /\ UNCHANGED <<cancelled, runVars, ctxVars, nodeVars, store>>

Return ==
  /\ pc = "stopped"
  /\ HasFailedOrCancelled => ReadyAlwaysRun(Ended) = {}
  /\ Save(SnapshotOf(status))
  /\ result' = Outcome
  /\ pc' = "returned"
  /\ UNCHANGED <<cancelled, runVars, ctxVars, nodeVars>>

--------------------------------------------------------------------------------
(* The goroutine of node n: executeWithRetry.                                 *)

At(n, label) == n \in wave /\ gpc[n] = label

(* wg.Done: the goroutine is over.                                            *)
Finished(n) ==
  /\ wave' = wave \ {n}
  /\ gpc' = [gpc EXCEPT ![n] = "idle"]

(* The task of n records one of its outputs and goes on.                      *)
TaskRecords(n) ==
  /\ At(n, "execute")
  /\ \E x \in Records[n] : outputs' = outputs \cup {x}
  /\ UNCHANGED <<mainVars, status, ctxVars, nodeVars, store>>

(* Execute returns nil, its outputs recorded; markDone sets the status under  *)
(* the lock ...                                                               *)
TaskSucceeds(n) ==
  /\ At(n, "execute")
  /\ status' = [status EXCEPT ![n] = "done"]
  /\ outputs' = outputs \cup Produces[n]
  /\ gpc' = [gpc EXCEPT ![n] = "marked"]
  /\ UNCHANGED <<mainVars, ctxVars, wave, attempt, snap, store>>

(* ... save takes the lock again to copy the statuses ...                     *)
TakeSnapshot(n) ==
  /\ At(n, "marked")
  /\ snap' = [snap EXCEPT ![n] = SnapshotOf(status)]
  /\ gpc' = [gpc EXCEPT ![n] = "saving"]
  /\ UNCHANGED <<mainVars, runVars, ctxVars, wave, attempt, store>>

(* ... and the copy is written with no lock held.                             *)
WriteSnapshot(n) ==
  /\ At(n, "saving")
  /\ SaveUnder(NodeCtxDone(n), snap[n])
  /\ snap' = [snap EXCEPT ![n] = NoSnapshot]
  /\ Finished(n)
  /\ UNCHANGED <<mainVars, runVars, ctxVars, attempt>>

(* A slip in TaskFails: one retry too many.                                   *)
TaskFailsOnceMore(n) ==
  /\ At(n, "execute")
  /\ attempt[n] <= MaxRetries
  /\ gpc' = [gpc EXCEPT ![n] = "backoff"]
  /\ UNCHANGED <<mainVars, runVars, ctxVars, wave, attempt, snap, store>>

(* Execute returns an error, and attempts are left.                           *)
TaskFails(n) ==
  /\ At(n, "execute")
  /\ attempt[n] < MaxRetries
  /\ gpc' = [gpc EXCEPT ![n] = "backoff"]
  /\ UNCHANGED <<mainVars, runVars, ctxVars, wave, attempt, snap, store>>

(* Execute fails for the last time: markFailed, and no save.                  *)
TaskExhausted(n) ==
  /\ At(n, "execute")
  /\ attempt[n] = MaxRetries
  /\ status' = [status EXCEPT ![n] = "failed"]
  /\ Finished(n)
  /\ UNCHANGED <<mainVars, outputs, ctxVars, attempt, snap, store>>

(* A slip in Retry: the attempt is not counted.                               *)
RetryUncounted(n) ==
  /\ At(n, "backoff")
  /\ gpc' = [gpc EXCEPT ![n] = "execute"]
  /\ UNCHANGED <<mainVars, runVars, ctxVars, wave, attempt, snap, store>>

(* The select of the retry wait.  With both channels ready Go picks either,   *)
(* so the timer may win over a cancelled context.                             *)
Retry(n) ==
  /\ At(n, "backoff")
  /\ attempt' = [attempt EXCEPT ![n] = @ + 1]
  /\ gpc' = [gpc EXCEPT ![n] = "execute"]
  /\ UNCHANGED <<mainVars, runVars, ctxVars, wave, snap, store>>

RetryCancelled(n) ==
  /\ At(n, "backoff")
  /\ NodeCtxDone(n)
  /\ status' = [status EXCEPT ![n] = "cancelled"]
  /\ Finished(n)
  /\ UNCHANGED <<mainVars, outputs, ctxVars, attempt, snap, store>>

--------------------------------------------------------------------------------

TaskReturns(n) == TaskSucceeds(n) \/ TaskFails(n) \/ TaskExhausted(n)

NodeStep(n) ==
  \/ TaskRecords(n)
  \/ TaskReturns(n)
  \/ TakeSnapshot(n)
  \/ WriteSnapshot(n)
  \/ Retry(n)
  \/ RetryCancelled(n)

MainStep ==
  \/ StopOnCancel
  \/ StopWhenIdle
  \/ StartWave
  \/ EndWave
  \/ StartTeardown
  \/ EndTeardown
  \/ Return

(* Run has returned: nothing is left to do.                                   *)
Over == pc = "returned" /\ UNCHANGED vars

Next ==
  \/ MainStep
  \/ \E n \in Nodes : NodeStep(n)
  \/ Cancel
  \/ TeardownTimeout
  \/ Over

Spec == Init /\ [][Next]_vars

(* What the scheduling justifies.  Goroutines that can step do, timers fire,  *)
(* a provisioning task returns, and any other task returns once its context   *)
(* is cancelled.  A task whose context is live may take for ever: nothing in  *)
(* the executor bounds it.                                                    *)
NodeProgress(n) ==
  \/ TakeSnapshot(n)
  \/ WriteSnapshot(n)
  \/ Retry(n)
  \/ RetryCancelled(n)
  \/ (NodeCtxDone(n) \/ n \in MustComplete) /\ TaskReturns(n)

Fairness ==
  /\ WF_vars(MainStep)
  /\ WF_vars(TeardownTimeout)
  /\ \A n \in Nodes : WF_vars(NodeProgress(n))

FairSpec == Spec /\ Fairness

--------------------------------------------------------------------------------
(* Properties.                                                                *)

Running == WithStatus("running")

(* How the statuses, the goroutines and the main goroutine hang together.  A  *)
(* node is marked running exactly while its goroutine executes its task.      *)
WaveRunning ==
  /\ Running = {n \in wave : gpc[n] \in {"execute", "backoff"}}
  /\ \A n \in wave : gpc[n] \in {"marked", "saving"} => status[n] = "done"
  /\ \A n \in Nodes : n \in wave <=> gpc[n] # "idle"

(* Goroutines exist only inside a wave, whose nodes were ready, or inside the *)
(* teardown, which consists of AlwaysRun nodes.                               *)
WavePhase ==
  /\ wave # {} => pc \in {"wave", "teardown"}
  /\ pc = "wave" => \A n \in wave : Deps[n] \subseteq Done
  /\ pc = "teardown" => HasFailedOrCancelled /\ wave \subseteq AlwaysRun

(* A goroutine waits for a retry only while it has attempts left.             *)
RetriesLeft == \A n \in Nodes : gpc[n] = "backoff" => attempt[n] < MaxRetries

(* What has happened when the main loop is left.                              *)
StopReasons ==
  /\ cancelled => /\ ctxDone
                  /\ pc \in {"stopped", "teardown", "returned"}
                  /\ Nodes \ AlwaysRun \subseteq Ended
  /\ pc \in {"loop", "wave"} => \A n \in Nodes : status[n] = "cancelled" => ctxDone
  /\ pc \in {"stopped", "returned"} => HasFailedOrCancelled \/ Done = Nodes

(* A snapshot that RecoverRun can resume from: not ahead of the run, closed   *)
(* under dependencies, and with the outputs of its done nodes.                *)
Fit(s) ==
  /\ DoneIn(s) \subseteq Done
  /\ DoneIn(s) \in Restorable
  /\ Carries(s)

(* The row, each copy that is still to be written and the present state are   *)
(* fit; while the storage works they have the dependencies of the whole wave. *)
RowsFit ==
  /\ Done \in Restorable
  /\ \A n \in Done : Produces[n] \cap Exported \subseteq outputs
  /\ \A s \in store : Fit(s)
  /\ \A n \in Nodes : gpc[n] = "saving" => Fit(snap[n])
  /\ ~StorageMayFail /\ pc = "wave" =>
       \A m \in wave :
         /\ \E s \in store : Deps[m] \subseteq DoneIn(s)
         /\ \A n \in Nodes : gpc[n] = "saving" => Deps[m] \subseteq DoneIn(snap[n])

(* The inductive invariant behind the safety properties below: no step of the *)
(* main goroutine, of a node, of the caller or of the timer breaks it.        *)
ExecutorInv ==
  /\ TypeOK
  /\ WaveRunning
  /\ WavePhase
  /\ RetriesLeft
  /\ StopReasons
  /\ RowsFit

(* dag.go: "Deps lists IDs of nodes that must complete before this one".  A   *)
(* running node has its dependencies done, in every interleaving of the wave; *)
(* only an AlwaysRun node of a stopped run is exempt.                         *)
DependencyOrder ==
  \A n \in Running :
    \/ Deps[n] \subseteq Done
    \/ n \in AlwaysRun /\ HasFailedOrCancelled

(* dag.go: a MustComplete node "must finish before teardown can begin on      *)
(* cancel".  While the teardown phase runs, no other node is in progress,     *)
(* whatever was running when the cancel or the failure came.                  *)
TeardownAlone == pc = "teardown" => Running \subseteq AlwaysRun

(* dag.go: provisioning "must not be interrupted mid-way": a MustComplete     *)
(* node that is running ends done or failed, never cancelled.                 *)
MustCompleteNotInterrupted ==
  [][\A n \in MustComplete \ AlwaysRun :
       status[n] = "running" => status'[n] # "cancelled"]_vars

(* A node that has ended is never scheduled again by this Run: a done node    *)
(* that executes twice would install or provision twice.                      *)
EndedStays ==
  [][\A n \in Nodes : status[n] \in Terminal => status'[n] = status[n]]_vars

(* What Run returns agrees with what its nodes did: nil only when all of them *)
(* are done, "run cancelled" only when every node has ended, and never "nodes *)
(* not reached", which a valid graph cannot produce.                          *)
ResultSound ==
  pc = "returned" =>
    /\ Running = {}
    /\ result # "unreached"
    /\ result = "completed" => Done = Nodes
    /\ result = "cancelled" => ctxDone /\ Ended = Nodes

(* dag.go: an AlwaysRun node "executes even when upstream nodes have failed", *)
(* and the executor runs it "with its own context" under a deadline.  When    *)
(* Run returns, each one was executed until it succeeded or had no attempt    *)
(* left, however the run stopped.  Only two things cut a teardown short: its  *)
(* deadline, and a cancel that comes when all that it waits for was done, so  *)
(* that it runs in a wave of the main loop.                                   *)
TeardownNotSkipped ==
  pc = "returned" =>
    \A n \in AlwaysRun :
      \/ status[n] \in {"done", "failed"}
      \/ status[n] = "cancelled" /\ tdExpired
      \/ status[n] = "cancelled" /\ ctxDone /\ Deps[n] \subseteq Done

(* What RecoverRun relies on.  Saves of one wave race and the storage may     *)
(* lose some, but the row never claims a node that is not done and never has  *)
(* a node done without its dependencies.                                      *)
RowRestorable ==
  \A s \in store : DoneIn(s) \subseteq Done /\ DoneIn(s) \in Restorable

(* storage.go: RunState holds the state "needed to recover a run after        *)
(* restart": whenever the row has a node done it has that node's outputs, so  *)
(* a recovered run, which skips the node, does not miss what it produced.     *)
RowCarriesOutputs == \A s \in store : \A n \in DoneIn(s) : Produces[n] \subseteq s.outputs

(* While the storage works, a node of the main loop only executes when the    *)
(* completion of its dependencies is in the row, and stays there however the  *)
(* saves of the wave are reordered: a restart never repeats a dependency of a *)
(* node that has begun.                                                       *)
DependenciesDurable ==
  ~StorageMayFail /\ pc = "wave" =>
    \A n \in Running : \E s \in store : Deps[n] \subseteq DoneIn(s)

(* While the storage works, the row Run leaves behind is the final status of  *)
(* every node: no late snapshot overwrites it.                                *)
FinalRowCurrent ==
  ~StorageMayFail /\ pc = "returned" => store = {SnapshotOf(status)}

(* A cancelled run ends, even when ordinary tasks only react to their context *)
(* and the teardown hangs until its deadline.                                 *)
CancelTerminates == ctxDone ~> pc = "returned"

--------------------------------------------------------------------------------
(* The executor implements the contract: the run has halted when the main     *)
(* loop is behind.                                                            *)
Contract == INSTANCE RunContract
              WITH halted <- pc \in {"stopped", "teardown", "returned"}

(* Every behaviour of Executor.Run, seen through the node statuses and the    *)
(* value it returns, is one of RunContract.                                   *)
ImplementsContract == Contract!Spec
================================================================================
