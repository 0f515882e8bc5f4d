------------------------------ MODULE RunRecovery ------------------------------
(******************************************************************************)
(* One run across crashes of the server: the executor of DagExecutor lives in *)
(* the server process, its row in Postgres and its machines on a Docker host  *)
(* or in Yandex Cloud.  A crash takes the process and everything in memory;   *)
(* at the next start RecoverOrCleanupRuns reads the row and resumes the run,  *)
(* or marks it failed, or leaves it, and cleans up what no resumed run owns.  *)
(*                                                                            *)
(* Machines come and go one by one.  A container has an ID of its own each    *)
(* time it is created, and the IDs reach the row; Terraform's working         *)
(* directory, by which virtual machines are found again, does not.            *)
(******************************************************************************)
EXTENDS DagExecutor

CONSTANTS
  Machines,       \* the node that creates the machines
  Teardown,       \* the node that removes them
  Hosts,          \* the machines of the run
  Docker,         \* TRUE: containers; FALSE: virtual machines of Yandex Cloud
  DockerMayFail,  \* TRUE: a call to Docker may fail
  Targets,        \* the output of Machines that the other tasks work with
  WorkDir,        \* the output by which the teardown finds virtual machines
  MaxMade,        \* bound of the model: how often a machine is created
  MaxCrashes      \* bound of the model: how often the server may crash

(* Container IDs: that of the g-th container created for machine h.           *)
IDs == Hosts \X (1 .. MaxMade)

(* Build makes the teardown wait for the workload, and the workload for the   *)
(* last node of every branch: what is done before the teardown may begin in   *)
(* its turn is all the work there is.                                         *)
ASSUME RecoveryAssumption ==
  /\ Machines \in Nodes \ AlwaysRun
  /\ Teardown \in AlwaysRun
  /\ \A D \in Restorable : Deps[Teardown] \subseteq D => Nodes \ AlwaysRun \subseteq D
  /\ IsFiniteSet(Hosts) /\ Hosts # {}
  /\ Docker \in BOOLEAN /\ DockerMayFail \in BOOLEAN
  /\ Targets \in Produces[Machines] \cap Exported
  /\ MaxMade \in Nat /\ MaxCrashes \in Nat

VARIABLES
  up,        \* the server process is alive
  engaged,   \* it has started a Run for this row since it came up
  live,      \* the machines that exist
  made,      \* how many containers were created for each machine
  deployed,  \* the machines that this attempt of Machines has created
  crashes    \* crashes so far

serverVars   == <<up, engaged, crashes>>
machineVars  == <<live, made, deployed>>
executorVars == <<mainVars, runVars, ctxVars, nodeVars>>
rvars == <<serverVars, machineVars, executorVars, store>>

RTypeOK ==
  /\ TypeOK
  /\ up \in BOOLEAN
  /\ engaged \in BOOLEAN
  /\ live \in SUBSET Hosts
  /\ made \in [Hosts -> 0 .. MaxMade]
  /\ deployed \in SUBSET live
  /\ crashes \in 0 .. MaxCrashes

(* The ID of the container that stands for machine h now.                     *)
Current(h) == <<h, made[h]>>

--------------------------------------------------------------------------------

(* A new executor with the nodes of D marked done and the outputs O imported; *)
(* or, at "returned", no executor at all.                                     *)
Executor(at, D, O) ==
  /\ pc' = at
  /\ status' = Restored(D)
  /\ outputs' = O
  /\ cancelled' = FALSE
  /\ ctxDone' = FALSE
  /\ tdExpired' = FALSE
  /\ wave' = {}
  /\ gpc' = [n \in Nodes |-> "idle"]
  /\ attempt' = [n \in Nodes |-> 0]
  /\ snap' = [n \in Nodes |-> NoSnapshot]
  /\ result' = "none"

NoExecutor == Executor("returned", {}, {})

RInit ==
  /\ Init
  /\ store = {}
  /\ up = TRUE
  /\ engaged = TRUE
  /\ live = {}
  /\ made = [h \in Hosts |-> 0]
  /\ deployed = {}
  /\ crashes = 0

--------------------------------------------------------------------------------
(* The server is up and executes the run.                                     *)

Executing == up /\ engaged

Succeeds(n) == n \in Done' \ Done

(* When the teardown may report success.  The Docker one only logs the        *)
(* containers that it cannot remove; the Terraform one fails unless           *)
(* everything is destroyed, but has nothing to destroy without its directory. *)
TeardownContent ==
  IF Docker
    THEN DockerMayFail \/ NodeCtxDone(Teardown) \/ \A h \in live : Current(h) \notin outputs
    ELSE WorkDir \notin outputs \/ live = {}

(* What a step of the executor and the machines have to do with each other.   *)
(* Container IDs are recorded by DeployMachine; the directory is recorded,    *)
(* and the machines task succeeds, when this attempt has created every        *)
(* machine.  dockerTeardown never returns an error.                           *)
MachinesAgree ==
  /\ (outputs' \ outputs) \cap IDs = {}
  /\ WorkDir \in outputs' \ outputs => deployed = Hosts
  /\ Succeeds(Machines) => deployed = Hosts
  /\ Succeeds(Teardown) => TeardownContent
  /\ Docker => gpc'[Teardown] # "backoff" /\ status'[Teardown] # "failed"
  /\ deployed' = IF gpc'[Machines] = "execute" THEN deployed ELSE {}
  /\ UNCHANGED <<serverVars, live, made>>

ExecutorStep ==
  /\ Executing
  /\ \/ MainStep
     \/ \E n \in Nodes : NodeStep(n)
     \/ Cancel
     \/ TeardownTimeout
  /\ MachinesAgree

(* dockerMachines: a fresh container replaces whatever bears the machine's    *)
(* name, and its ID is recorded.  yandexMachines: a virtual machine comes up. *)
DeployMachine(h) ==
  /\ Executing
  /\ At(Machines, "execute")
  /\ h \notin deployed
  /\ made[h] < MaxMade
  /\ live' = live \cup {h}
  /\ made' = [made EXCEPT ![h] = @ + 1]
  /\ deployed' = deployed \cup {h}
  /\ \/ /\ Docker
        /\ TaskRecords(Machines)
        /\ outputs' = outputs \cup {Current(h)'}
     \/ /\ ~Docker
        /\ h \notin live
        /\ UNCHANGED <<executorVars, store>>
  /\ UNCHANGED serverVars

(* The attempt fails half-way.  Deploy has removed the old container, and a   *)
(* new one may run without its ID being recorded; a failed apply is rolled    *)
(* back as far as the cloud lets it.                                          *)
DeployFails(h) ==
  /\ Executing
  /\ TaskFails(Machines) \/ TaskExhausted(Machines)
  /\ \/ /\ Docker
        /\ DockerMayFail
        /\ h \notin deployed
        /\ made[h] < MaxMade
        /\ made' = [made EXCEPT ![h] = @ + 1]
        /\ live' \in {live \ {h}, live \cup {h}}
     \/ /\ ~Docker
        /\ live' \in SUBSET live
        /\ UNCHANGED made
  /\ deployed' = {}
  /\ UNCHANGED serverVars

(* dockerTeardown, yandexTeardown: a machine that the run state knows of is   *)
(* gone; with a cancelled context none of the calls succeeds.                 *)
RemoveMachine(h) ==
  /\ Executing
  /\ At(Teardown, "execute")
  /\ ~NodeCtxDone(Teardown)
  /\ h \in live
  /\ IF Docker THEN Current(h) \in outputs ELSE WorkDir \in outputs
  /\ live' = live \ {h}
  /\ UNCHANGED <<serverVars, made, deployed, executorVars, store>>

--------------------------------------------------------------------------------
(* Crash and restart.                                                         *)

Crash ==
  /\ up
  /\ crashes < MaxCrashes
  /\ crashes' = crashes + 1
  /\ up' = FALSE
  /\ engaged' = FALSE
  /\ NoExecutor
  /\ deployed' = {}
  /\ UNCHANGED <<live, made, store>>

(* A container stops while the server is down.                                *)
ContainerDies(h) ==
  /\ ~up
  /\ Docker
  /\ h \in live
  /\ live' = live \ {h}
  /\ UNCHANGED <<serverVars, made, deployed, executorVars, store>>

(* RecoverOrCleanupRuns takes a row for incomplete when a node is pending.    *)
Incomplete(s) == \E n \in Nodes : s.nodes[n] = "pending"

(* A slip in CanRecover: the row is believed, the host not asked.             *)
CanRecoverByRow(s) == IDs \cap s.outputs # {}

(* canRecoverRun: "at least one container alive -- worth trying".             *)
CanRecover(s) == \E h \in live : Current(h) \in s.outputs

(* markRunFailed: the pending nodes, and only those, become failed.           *)
MarkedFailed(s) ==
  [s EXCEPT !.nodes =
     [n \in Nodes |-> IF s.nodes[n] = "pending" THEN "failed" ELSE s.nodes[n]]]

(* cleanupRunResources and cleanupOrphanedContainers remove the containers of *)
(* the run, unless Docker cannot list them or refuses; nobody looks at the    *)
(* errors.  They know nothing of virtual machines.                            *)
Cleanup ==
  \/ Docker /\ live' = {}
  \/ Docker /\ DockerMayFail /\ live' \in SUBSET live
  \/ ~Docker /\ UNCHANGED live

Boot ==
  /\ ~up
  /\ up' = TRUE
  /\ UNCHANGED <<crashes, made, deployed>>

(* A slip in Resume: no node is marked done.                                  *)
ResumeFromScratch ==
  /\ Boot
  /\ \E s \in store :
       /\ Incomplete(s)
       /\ CanRecover(s)
       /\ Executor("loop", {}, s.outputs)
  /\ engaged' = TRUE
  /\ UNCHANGED <<live, store>>

(* A slip in Resume: the run state is not imported.                           *)
ResumeWithoutState ==
  /\ Boot
  /\ \E s \in store :
       /\ Incomplete(s)
       /\ CanRecover(s)
       /\ Executor("loop", DoneIn(s), {})
  /\ engaged' = TRUE
  /\ UNCHANGED <<live, store>>

(* recoverRun, RecoverRun: a new executor resumes from the row; its container *)
(* prefix keeps the machines from the orphan cleanup.                         *)
Resume ==
  /\ Boot
  /\ \E s \in store :
       /\ Incomplete(s)
       /\ CanRecover(s)
       /\ Executor("loop", DoneIn(s), s.outputs)
  /\ engaged' = TRUE
  /\ UNCHANGED <<live, store>>

(* RecoverRun returns an error before there is an executor, as when it gets   *)
(* no Docker client: the run is not executed, its row stays as it was and its *)
(* machines, taken for those of a resumed run, are spared.                    *)
ResumeFails ==
  /\ Boot
  /\ DockerMayFail
  /\ \E s \in store : Incomplete(s) /\ CanRecover(s)
  /\ UNCHANGED <<engaged, live, executorVars, store>>

(* No recorded container is alive, or Docker cannot tell.                     *)
MarkRunFailed ==
  /\ Boot
  /\ \E s \in store :
       /\ Incomplete(s)
       /\ ~CanRecover(s) \/ DockerMayFail
       /\ Save(MarkedFailed(s))
  /\ Cleanup
  /\ UNCHANGED <<engaged, executorVars>>

NothingToRecover ==
  /\ Boot
  /\ \A s \in store : ~Incomplete(s)
  /\ Cleanup
  /\ UNCHANGED <<engaged, executorVars, store>>

(* The rows cannot be listed: recovery gives up with a warning.               *)
RecoveryFails ==
  /\ Boot
  /\ StorageMayFail
  /\ UNCHANGED <<engaged, live, executorVars, store>>

Restart == Resume \/ ResumeFails \/ MarkRunFailed \/ NothingToRecover \/ RecoveryFails

(* Nothing is left to do.                                                     *)
AtRest == up /\ pc = "returned" /\ UNCHANGED rvars

RNext ==
  \/ ExecutorStep
  \/ \E h \in Hosts :
       DeployMachine(h) \/ DeployFails(h) \/ RemoveMachine(h) \/ ContainerDies(h)
  \/ Crash
  \/ Restart
  \/ AtRest

RSpec == RInit /\ [][RNext]_rvars

(* The server is restarted after a crash; inside it, the fairness of          *)
(* DagExecutor: a task that is not a provisioning one need only return once   *)
(* its context is done.                                                       *)
RFairness ==
  /\ WF_rvars(Restart)
  /\ WF_rvars(Executing /\ MainStep /\ MachinesAgree)
  /\ WF_rvars(Executing /\ TeardownTimeout /\ MachinesAgree)
  /\ \A n \in Nodes : WF_rvars(Executing /\ NodeProgress(n) /\ MachinesAgree)

FairRSpec == RSpec /\ RFairness

--------------------------------------------------------------------------------
(* Properties.                                                                *)

Booted == ~up /\ up'

(* api.go: RecoverRun re-executes "only the nodes that were not yet           *)
(* completed".  Whatever the crashes and the order of the saves, a node that  *)
(* the row has as done is never started again.                                *)
DoneNotRepeated ==
  [][\A s \in store, n \in Nodes :
       s.nodes[n] = "done" /\ n \notin Running => n \notin Running']_rvars

(* The row stays fit for recovery across crashes, resumed runs and failed     *)
(* writes: the done nodes have their dependencies and their outputs with      *)
(* them, and it is never ahead of the executor that writes it.                *)
RowFitForRecovery ==
  \A s \in store :
    /\ DoneIn(s) \in Restorable
    /\ \A n \in DoneIn(s) : Produces[n] \subseteq s.outputs
    /\ engaged => DoneIn(s) \subseteq Done

(* A task that works on the machines has their targets in the run state.  In  *)
(* a first run it finds every machine, created by the attempt that succeeded. *)
(* A resumed run is not promised that much: server.go takes "at least one     *)
(* container alive" for "worth trying", and one there is: no start goes on    *)
(* with work on machines that are all gone.                                   *)
WorkHasMachines ==
  \A n \in Running \ AlwaysRun :
    Machines \in Deps[n] =>
      /\ Targets \in outputs
      /\ live # {}
      /\ crashes = 0 => live = Hosts

(* server.go: "Runs that cannot be recovered are marked as failed and their   *)
(* resources are cleaned up": a start that reads the row and does not resume  *)
(* the run leaves no machine behind.                                          *)
RestartCleansUp == [][MarkRunFailed \/ NothingToRecover => live' = {}]_rvars

(* server.go: "Runs that cannot be recovered are marked as failed": after a   *)
(* start that does not resume the run, the row has no node in progress.       *)
UnrecoveredMarkedFailed ==
  [][Booted /\ ~engaged' =>
       \A s \in store' : \A n \in Nodes : s.nodes[n] \in Terminal]_rvars

(* A task with a live context may take for ever, but every run that does not  *)
(* end by itself can be cancelled.  If the last executor ends or is cancelled *)
(* then the run comes to rest: a server is up and executes nothing of it any  *)
(* more, however many crashes, resumed runs and failed writes came before.    *)
ComesToRest ==
  []<>(ctxDone \/ pc = "returned" \/ ~up) => <>[](up /\ pc = "returned")
================================================================================
