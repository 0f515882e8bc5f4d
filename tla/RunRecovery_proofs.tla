--------------------------- MODULE RunRecovery_proofs ---------------------------
(******************************************************************************)
(* Theorems about RunRecovery: a run across any number of crashes, for every  *)
(* graph whose teardown comes last, every set of machines and either          *)
(* provider.                                                                  *)
(******************************************************************************)
EXTENDS RunRecovery, DagExecutor_proofs

LEMMA Bounds == MaxCrashes \in Nat /\ MaxMade \in Nat
  BY RecoveryAssumption

(* At most one row, and one that recovery can use, whoever wrote it.          *)
OneRow == \A s, t \in store : s = t

RowsUsable == \A s \in store : DoneIn(s) \in Restorable /\ Carries(s)

(* No node that works on the machines is to run any more.                     *)
WorkOver == Nodes \ AlwaysRun \subseteq Done \/ pc \in {"stopped", "teardown", "returned"}

(* The machines of a run that has them stay until its work is over: all of    *)
(* them in a first run, one at least in a resumed one.                        *)
MachinesKept ==
  engaged /\ Machines \in Done =>
    WorkOver \/ (live # {} /\ (crashes = 0 => live = Hosts))

(* Machines are created while their task executes and at no other time.       *)
Deploying == deployed # {} => engaged /\ At(Machines, "execute")

(* While the server executes the run, its executor is as DagExecutor has it;  *)
(* at any other time there is none.                                           *)
ExecutorFits ==
  /\ engaged => up /\ ExecutorInv /\ Concluded
  /\ ~engaged => pc = "returned" /\ Running = {}
  /\ crashes = 0 => up

RecoveryInv ==
  RTypeOK /\ ExecutorFits /\ OneRow /\ RowsUsable /\ MachinesKept /\ Deploying

(* A new executor of a usable row starts in an initial state of DagExecutor.  *)
LEMMA InitInvNext == Init' => ExecutorInv' /\ Concluded'
<1>1. Init => ExecutorInv /\ Concluded
  BY InitInv DEF Init, Concluded
<1> QED
  BY <1>1, PTL

LEMMA InitRecovery == RInit => RecoveryInv
<1> SUFFICES ASSUME RInit PROVE RecoveryInv
  OBVIOUS
<1>1. ExecutorInv /\ Concluded
  BY InitInv DEF RInit, Init, Concluded
<1>2. RTypeOK
  <2>1. crashes \in 0 .. MaxCrashes /\ made \in [Hosts -> 0 .. MaxMade]
    BY Bounds DEF RInit
  <2> QED
    BY <1>1, <2>1 DEF RInit, RTypeOK, ExecutorInv
<1>3. Machines \notin Done
  BY DEF RInit, Init, Done, WithStatus, Restored
<1> QED
  BY <1>1, <1>2, <1>3
  DEF RInit, RecoveryInv, ExecutorFits, OneRow, RowsUsable, MachinesKept, Deploying

(* What the executor has done before, it keeps.                               *)
LEMMA DoneKept ==
  ASSUME ExecutorInv, [Next]_vars
  PROVE  Done \subseteq Done'
  BY EndedKept DEF Done, WithStatus, Terminal

(* A step of DagExecutor inside the server.                                   *)
LEMMA StepIsNext == ExecutorStep => Next /\ UNCHANGED <<serverVars, live, made>> /\ engaged
  BY DEF ExecutorStep, MachinesAgree, Next, Executing

(* Once the main loop is left there is no way back.                           *)
LEMMA LoopLeft ==
  ASSUME [Next]_vars, pc \in {"stopped", "teardown", "returned"}
  PROVE  pc' \in {"stopped", "teardown", "returned"}
  BY DEF Next, MainStep, StopOnCancel, StopWhenIdle, StartWave, EndWave, StartTeardown,
         EndTeardown, Return, NodeStep, TaskRecords, TaskReturns, TaskSucceeds, TaskFails,
         TaskExhausted, TakeSnapshot, WriteSnapshot, Retry, RetryCancelled, Cancel,
         TeardownTimeout, Over, vars, mainVars

LEMMA OneRowKept ==
  ASSUME OneRow, [Next]_vars
  PROVE  OneRow'
  BY DEF OneRow, Next, MainStep, StopOnCancel, StopWhenIdle, StartWave, EndWave, StartTeardown,
         EndTeardown, Return, NodeStep, TaskRecords, TaskReturns, TaskSucceeds, TaskFails,
         TaskExhausted, TakeSnapshot, WriteSnapshot, Retry, RetryCancelled, Cancel,
         TeardownTimeout, Over, vars, Save, SaveUnder

(* What a step of the executor keeps, whatever becomes of the machines.       *)
LEMMA ExecutorKept ==
  ASSUME RecoveryInv, engaged, [Next]_vars, UNCHANGED serverVars
  PROVE  /\ TypeOK' /\ ExecutorFits' /\ OneRow' /\ RowsUsable'
         /\ ExecutorInv /\ ExecutorInv'
         /\ WorkOver => WorkOver'
<1>1. ExecutorInv /\ Concluded
  BY DEF RecoveryInv, ExecutorFits
<1>2. ExecutorInv' /\ Concluded'
  BY <1>1, NextInv, ConcludedInv
<1>3. RowsUsable'
  BY <1>2 DEF ExecutorInv, RowsFit, Fit, RowsUsable
<1>4. OneRow'
  BY OneRowKept DEF RecoveryInv
<1>5. WorkOver => WorkOver'
  BY <1>1, DoneKept, LoopLeft DEF WorkOver
<1>6. ExecutorFits'
  BY <1>1, <1>2 DEF RecoveryInv, ExecutorFits, serverVars
<1> QED
  BY <1>1, <1>2, <1>3, <1>4, <1>5, <1>6 DEF ExecutorInv

(* While the machines are being created their task is not done.               *)
LEMMA ExecutingNotDone ==
  ASSUME ExecutorInv, NEW n \in Nodes, At(n, "execute")
  PROVE  n \notin Done
  BY AtExecute DEF Done, WithStatus

LEMMA ExecutorStepInv == RecoveryInv /\ ExecutorStep => RecoveryInv'
<1> SUFFICES ASSUME RecoveryInv, ExecutorStep PROVE RecoveryInv'
  OBVIOUS
<1>1. Next /\ UNCHANGED <<serverVars, live, made>> /\ engaged
  BY StepIsNext
<1>2. /\ TypeOK' /\ ExecutorFits' /\ OneRow' /\ RowsUsable'
      /\ ExecutorInv /\ ExecutorInv'
      /\ WorkOver => WorkOver'
  BY <1>1, ExecutorKept
<1>3. deployed' = IF gpc'[Machines] = "execute" THEN deployed ELSE {}
  BY DEF ExecutorStep, MachinesAgree
<1>4. RTypeOK'
  BY <1>1, <1>2, <1>3 DEF RecoveryInv, RTypeOK, serverVars
<1>5. MachinesKept'
  <2> SUFFICES ASSUME Machines \in Done'
               PROVE  (WorkOver \/ (live # {} /\ (crashes = 0 => live = Hosts)))'
    BY DEF MachinesKept
  <2>1. CASE Machines \in Done
    BY <1>1, <1>2, <2>1 DEF RecoveryInv, MachinesKept, serverVars
  <2>2. CASE Machines \notin Done
    <3>1. deployed = Hosts
      BY <2>2 DEF ExecutorStep, MachinesAgree, Succeeds
    <3>2. live = Hosts /\ live # {}
      BY <3>1, RecoveryAssumption DEF RecoveryInv, RTypeOK
    <3> QED
      BY <1>1, <3>2
  <2> QED
    BY <2>1, <2>2
<1>6. Deploying'
  <2> SUFFICES ASSUME deployed' # {} PROVE engaged' /\ At(Machines, "execute")'
    BY DEF Deploying
  <2>1. gpc'[Machines] = "execute" /\ Machines \in Nodes
    BY <1>3, RecoveryAssumption
  <2>2. At(Machines, "execute")'
    BY <1>2, <2>1 DEF ExecutorInv, WaveRunning, At
  <2> QED
    BY <1>1, <2>2 DEF serverVars
<1> QED
  BY <1>2, <1>4, <1>5, <1>6 DEF RecoveryInv

(* Nothing changes but the machines.                                          *)
LEMMA OnlyMachines ==
  ASSUME RecoveryInv, UNCHANGED <<serverVars, executorVars, store>>
  PROVE  /\ TypeOK' /\ ExecutorFits' /\ OneRow' /\ RowsUsable'
         /\ WorkOver' = WorkOver /\ Done' = Done
         /\ At(Machines, "execute")' = At(Machines, "execute")
<1>1. UNCHANGED vars
  BY DEF executorVars, vars
<1> USE DEF vars, mainVars, runVars, ctxVars, nodeVars
<1>2. /\ TypeOK' = TypeOK /\ Running' = Running /\ Done' = Done /\ WorkOver' = WorkOver
      /\ At(Machines, "execute")' = At(Machines, "execute")
  BY <1>1 DEF TypeOK, Running, Done, WithStatus, WorkOver, At
<1>3. RowsUsable' /\ OneRow'
  BY <1>1 DEF RowsUsable, OneRow, RecoveryInv
<1>4. ExecutorFits'
  <2>1. ExecutorInv /\ Concluded => ExecutorInv' /\ Concluded'
    BY <1>1, NextInv, ConcludedInv
  <2> QED
    BY <1>1, <1>2, <2>1 DEF RecoveryInv, ExecutorFits, serverVars
<1> QED
  BY <1>2, <1>3, <1>4 DEF RecoveryInv, RTypeOK

(* Creating a machine.                                                        *)
LEMMA DeployMachineInv ==
  ASSUME RecoveryInv, NEW h \in Hosts, DeployMachine(h)
  PROVE  RecoveryInv'
<1> USE RecoveryAssumption
<1>1. /\ engaged /\ UNCHANGED serverVars /\ At(Machines, "execute")
      /\ live' = live \cup {h} /\ deployed' = deployed \cup {h}
      /\ made[h] < MaxMade /\ made' = [made EXCEPT ![h] = @ + 1]
  BY DEF DeployMachine, Executing
<1>2. [Next]_vars /\ UNCHANGED status /\ At(Machines, "execute")'
  <2>1. CASE TaskRecords(Machines)
    BY <1>1, <2>1 DEF TaskRecords, Next, NodeStep, nodeVars, At
  <2>2. CASE UNCHANGED <<executorVars, store>>
    BY <1>1, <2>2 DEF executorVars, vars, runVars, nodeVars, At
  <2> QED
    BY <2>1, <2>2 DEF DeployMachine
<1>3. /\ TypeOK' /\ ExecutorFits' /\ OneRow' /\ RowsUsable' /\ ExecutorInv
  BY <1>1, <1>2, ExecutorKept
<1>4. Machines \notin Done'
  BY <1>1, <1>2, <1>3, ExecutingNotDone DEF Done, WithStatus
<1>5. RTypeOK'
  <2>1. made[h] + 1 \in 0 .. MaxMade
    BY <1>1, Bounds DEF RecoveryInv, RTypeOK
  <2> QED
    BY <1>1, <1>3, <2>1 DEF RecoveryInv, RTypeOK, serverVars
<1>6. MachinesKept' /\ Deploying'
  BY <1>1, <1>2, <1>4 DEF MachinesKept, Deploying, serverVars
<1> QED
  BY <1>3, <1>5, <1>6 DEF RecoveryInv

(* An attempt to create the machines fails.                                   *)
LEMMA DeployFailsInv ==
  ASSUME RecoveryInv, NEW h \in Hosts, DeployFails(h)
  PROVE  RecoveryInv'
<1> USE RecoveryAssumption
<1>1. /\ engaged /\ UNCHANGED serverVars /\ deployed' = {}
      /\ TaskFails(Machines) \/ TaskExhausted(Machines)
  BY DEF DeployFails, Executing
<1>2. Next
  BY <1>1 DEF Next, NodeStep, TaskReturns
<1>3. /\ TypeOK' /\ ExecutorFits' /\ OneRow' /\ RowsUsable' /\ ExecutorInv
  BY <1>1, <1>2, ExecutorKept
<1>4. Machines \notin Done'
  <2>1. CASE TaskFails(Machines)
    BY <1>3, <2>1, ExecutingNotDone DEF TaskFails, runVars, Done, WithStatus
  <2>2. CASE TaskExhausted(Machines)
    BY <1>3, <2>2 DEF TaskExhausted, ExecutorInv, TypeOK, Done, WithStatus
  <2> QED
    BY <1>1, <2>1, <2>2
<1>5. RTypeOK'
  <2>1. live' \in SUBSET Hosts
    BY DEF DeployFails, RecoveryInv, RTypeOK
  <2>2. made' \in [Hosts -> 0 .. MaxMade]
    <3>1. CASE UNCHANGED made
      BY <3>1 DEF RecoveryInv, RTypeOK
    <3>2. CASE made[h] < MaxMade /\ made' = [made EXCEPT ![h] = @ + 1]
      <4>1. made[h] + 1 \in 0 .. MaxMade
        BY <3>2, Bounds DEF RecoveryInv, RTypeOK
      <4> QED
        BY <3>2, <4>1 DEF RecoveryInv, RTypeOK
    <3> QED
      BY <3>1, <3>2 DEF DeployFails
  <2> QED
    BY <1>1, <1>3, <2>1, <2>2 DEF RecoveryInv, RTypeOK, serverVars
<1>6. MachinesKept' /\ Deploying'
  BY <1>1, <1>4 DEF MachinesKept, Deploying
<1> QED
  BY <1>3, <1>5, <1>6 DEF RecoveryInv

(* Removing a machine: all the work is behind.                                *)
LEMMA RemoveMachineInv ==
  ASSUME RecoveryInv, NEW h \in Hosts, RemoveMachine(h)
  PROVE  RecoveryInv'
<1> USE RecoveryAssumption, GraphAssumption
<1>1. /\ engaged /\ UNCHANGED <<serverVars, made, deployed, executorVars, store>>
      /\ At(Teardown, "execute") /\ live' = live \ {h}
  BY DEF RemoveMachine, Executing
<1>2. /\ TypeOK' /\ ExecutorFits' /\ OneRow' /\ RowsUsable'
      /\ WorkOver' = WorkOver /\ Done' = Done
  BY <1>1, OnlyMachines
<1>3. ExecutorInv /\ Teardown \in Nodes
  BY <1>1 DEF RecoveryInv, ExecutorFits
<1>4. CASE pc = "wave"
  <2>1. Deps[Teardown] \subseteq Done /\ Done \in Restorable
    BY <1>1, <1>3, <1>4 DEF At, ExecutorInv, WavePhase, RowsFit
  <2>2. Nodes \ AlwaysRun \subseteq Done
    BY <2>1
  <2>3. ~At(Machines, "execute") /\ WorkOver
    BY <1>3, <2>2, ExecutingNotDone DEF WorkOver
  <2> QED
    BY <1>1, <1>2, <2>3
    DEF RecoveryInv, RTypeOK, MachinesKept, Deploying, serverVars
<1>5. CASE pc = "teardown"
  <2>1. ~At(Machines, "execute") /\ WorkOver
    BY <1>3, <1>5 DEF At, ExecutorInv, WavePhase, WorkOver
  <2> QED
    BY <1>1, <1>2, <2>1
    DEF RecoveryInv, RTypeOK, MachinesKept, Deploying, serverVars
<1> QED
  BY <1>1, <1>3, <1>4, <1>5, AtExecute

(* A container dies while nobody looks.                                       *)
LEMMA ContainerDiesInv ==
  ASSUME RecoveryInv, NEW h \in Hosts, ContainerDies(h)
  PROVE  RecoveryInv'
<1>1. /\ ~engaged /\ UNCHANGED <<serverVars, made, deployed, executorVars, store>>
      /\ live' = live \ {h}
  BY DEF ContainerDies, RecoveryInv, ExecutorFits
<1>2. TypeOK' /\ ExecutorFits' /\ OneRow' /\ RowsUsable'
  BY <1>1, OnlyMachines
<1> QED
  BY <1>1, <1>2 DEF RecoveryInv, RTypeOK, MachinesKept, Deploying, serverVars

(* The server comes down or up.                                               *)
LEMMA CrashInv == RecoveryInv /\ Crash => RecoveryInv'
<1> SUFFICES ASSUME RecoveryInv, Crash PROVE RecoveryInv'
  OBVIOUS
<1> USE DEF Crash, NoExecutor, Executor
<1>1. NoSnapshot \in Snapshot /\ Restored({}) \in [Nodes -> Status]
  BY DEF NoSnapshot, Snapshot, Status, Restored
<1>2. TypeOK'
  <2>1. attempt' \in [Nodes -> 0 .. MaxRetries]
    BY ExecutorAssumption
  <2>2. snap' \in [Nodes -> Snapshot] /\ status' \in [Nodes -> Status] /\ outputs' = {}
    BY <1>1
  <2> QED
    BY <2>1, <2>2 DEF RecoveryInv, RTypeOK, TypeOK
<1>3. RTypeOK' /\ crashes' # 0
  <2>1. crashes' \in 0 .. MaxCrashes /\ crashes' # 0
    BY Bounds DEF RecoveryInv, RTypeOK
  <2> QED
    BY <1>2, <2>1 DEF RecoveryInv, RTypeOK
<1>4. (Running = {})'
  BY DEF Running, WithStatus, Restored
<1>5. RowsUsable'
  BY DEF RecoveryInv, RowsUsable
<1> QED
  BY <1>3, <1>4, <1>5 DEF RecoveryInv, ExecutorFits, OneRow, MachinesKept, Deploying

LEMMA ResumeInv == RecoveryInv /\ Resume => RecoveryInv'
<1> SUFFICES ASSUME RecoveryInv, Resume PROVE RecoveryInv'
  OBVIOUS
<1>1. PICK s \in store : Incomplete(s) /\ CanRecover(s) /\ Executor("loop", DoneIn(s), s.outputs)
  BY DEF Resume
<1>2. s \in Snapshot /\ store = {s} /\ DoneIn(s) \in Restorable /\ Carries(s)
  BY DEF RecoveryInv, RTypeOK, TypeOK, OneRow, RowsUsable
<1>3. Init'
  <2>1. store' = {s} /\ \E n \in Nodes : s.nodes[n] = "pending"
    BY <1>1, <1>2 DEF Incomplete, Resume
  <2> QED
    BY <1>1, <1>2, <2>1 DEF Executor, Init
<1>4. ExecutorInv' /\ Concluded'
  BY <1>3, InitInvNext
<1>5. RTypeOK'
  BY <1>4 DEF RecoveryInv, RTypeOK, Resume, Boot, ExecutorInv
<1>6. RowsUsable' /\ OneRow'
  BY DEF RecoveryInv, RowsUsable, OneRow, Resume
<1>7. crashes' # 0 /\ deployed' = {} /\ live' # {}
  BY <1>1 DEF RecoveryInv, ExecutorFits, Deploying, Resume, Boot, CanRecover
<1>8. MachinesKept' /\ Deploying'
  BY <1>7 DEF MachinesKept, Deploying
<1> QED
  BY <1>4, <1>5, <1>6, <1>7, <1>8 DEF RecoveryInv, ExecutorFits, Resume, Boot

(* The run is not resumed; if its row is marked failed, no done node changes. *)
LEMMA NotResumedInv ==
  ASSUME RecoveryInv, ResumeFails \/ MarkRunFailed \/ NothingToRecover \/ RecoveryFails
  PROVE  RecoveryInv'
<1>1. /\ up' = TRUE /\ ~engaged /\ deployed = {} /\ crashes # 0
      /\ UNCHANGED <<engaged, crashes, made, deployed, executorVars>>
  BY DEF RecoveryInv, ExecutorFits, Deploying, ResumeFails, MarkRunFailed, NothingToRecover,
         RecoveryFails, Boot
<1>2. live' \in SUBSET Hosts
  BY DEF ResumeFails, MarkRunFailed, NothingToRecover, RecoveryFails, Cleanup, RecoveryInv,
         RTypeOK
<1>3. store' \subseteq Snapshot /\ OneRow' /\ RowsUsable'
  <2>1. CASE UNCHANGED store
    BY <2>1 DEF RecoveryInv, RTypeOK, TypeOK, OneRow, RowsUsable
  <2>2. CASE ~UNCHANGED store
    <3>1. PICK s \in store : store' = {MarkedFailed(s)}
      BY <2>2 DEF ResumeFails, MarkRunFailed, NothingToRecover, RecoveryFails, Save
    <3>2. s \in Snapshot
      BY DEF RecoveryInv, RTypeOK, TypeOK
    <3>3. MarkedFailed(s) \in Snapshot /\ MarkedFailed(s).outputs = s.outputs
      BY <3>2 DEF MarkedFailed, Snapshot, Status
    <3>4. DoneIn(MarkedFailed(s)) = DoneIn(s)
      BY <3>2 DEF MarkedFailed, Snapshot, DoneIn
    <3>5. Carries(MarkedFailed(s))
      BY <3>3, <3>4 DEF RecoveryInv, RowsUsable, Carries
    <3> QED
      BY <3>1, <3>3, <3>4, <3>5 DEF RecoveryInv, OneRow, RowsUsable
  <2> QED
    BY <2>1, <2>2
<1>4. TypeOK'
  BY <1>1, <1>3 DEF RecoveryInv, RTypeOK, TypeOK, executorVars, mainVars, runVars, ctxVars,
                    nodeVars
<1>5. ExecutorFits'
  BY <1>1 DEF RecoveryInv, ExecutorFits, executorVars, mainVars, runVars, Running, WithStatus
<1> QED
  BY <1>1, <1>2, <1>3, <1>4, <1>5 DEF RecoveryInv, RTypeOK, MachinesKept, Deploying

LEMMA NextRecovery == RecoveryInv /\ [RNext]_rvars => RecoveryInv'
<1> SUFFICES ASSUME RecoveryInv, [RNext]_rvars PROVE RecoveryInv'
  OBVIOUS
<1>1. CASE UNCHANGED rvars
  <2>1. UNCHANGED <<serverVars, machineVars, executorVars, store>>
    BY <1>1 DEF rvars
  <2>2. /\ TypeOK' /\ ExecutorFits' /\ OneRow' /\ RowsUsable'
        /\ WorkOver' = WorkOver /\ Done' = Done
        /\ At(Machines, "execute")' = At(Machines, "execute")
    BY <2>1, OnlyMachines
  <2> QED
    BY <2>1, <2>2
    DEF RecoveryInv, RTypeOK, MachinesKept, Deploying, serverVars, machineVars
<1>2. CASE \E h \in Hosts :
             DeployMachine(h) \/ DeployFails(h) \/ RemoveMachine(h) \/ ContainerDies(h)
  BY <1>2, DeployMachineInv, DeployFailsInv, RemoveMachineInv, ContainerDiesInv
<1>3. CASE ExecutorStep \/ Crash \/ Restart
  BY <1>3, ExecutorStepInv, CrashInv, ResumeInv, NotResumedInv DEF Restart
<1> QED
  BY <1>1, <1>2, <1>3 DEF RNext, AtRest

(* The invariant of the executor survives crashes: whatever row a resumed run *)
(* starts from, it is as good as a fresh one.                                 *)
THEOREM RecoveryInvHolds == RSpec => []RecoveryInv
  BY InitRecovery, NextRecovery, PTL DEF RSpec

--------------------------------------------------------------------------------
(* The properties.                                                            *)

(* Type correctness across crashes.                                           *)
THEOREM RecoveryTyped == RSpec => []RTypeOK
  BY RecoveryInvHolds, PTL DEF RecoveryInv

(* api.go: what RecoverRun relies on: through crashes, resumed runs and lost  *)
(* writes the row is closed under dependencies, has the outputs of its done   *)
(* nodes and is never ahead of the executor.                                  *)
THEOREM RowFitForRecoveryHolds ==
  ASSUME \A n \in Nodes : Produces[n] \subseteq Exported
  PROVE  RSpec => []RowFitForRecovery
<1>1. RecoveryInv => RowFitForRecovery
  <2> SUFFICES ASSUME RecoveryInv, NEW s \in store
               PROVE  /\ DoneIn(s) \in Restorable
                      /\ \A n \in DoneIn(s) : Produces[n] \subseteq s.outputs
                      /\ engaged => DoneIn(s) \subseteq Done
    BY DEF RowFitForRecovery
  <2>1. DoneIn(s) \in Restorable /\ Carries(s)
    BY DEF RecoveryInv, RowsUsable
  <2>2. \A n \in DoneIn(s) : Produces[n] \subseteq s.outputs
    BY <2>1 DEF Carries, DoneIn
  <2>3. engaged => DoneIn(s) \subseteq Done
    BY DEF RecoveryInv, ExecutorFits, ExecutorInv, RowsFit, Fit
  <2> QED
    BY <2>1, <2>2, <2>3
<1> QED
  BY <1>1, RecoveryInvHolds, PTL

(* server.go: a task that works on the machines has their targets; it finds   *)
(* every machine in a first run, and at least one in a resumed run, which is  *)
(* all that canRecoverRun asks for.                                           *)
THEOREM WorkHasMachinesHolds == RSpec => []WorkHasMachines
<1>1. RecoveryInv => WorkHasMachines
  <2> SUFFICES ASSUME RecoveryInv, NEW n \in Running \ AlwaysRun, Machines \in Deps[n]
               PROVE  Targets \in outputs /\ live # {} /\ (crashes = 0 => live = Hosts)
    BY DEF WorkHasMachines
  <2>1. engaged /\ ExecutorInv /\ n \in Nodes /\ status[n] = "running"
    BY DEF RecoveryInv, ExecutorFits, Running, WithStatus
  <2>2. n \in wave
    BY <2>1 DEF ExecutorInv, WaveRunning
  <2>3. pc = "wave" /\ Deps[n] \subseteq Done
    BY <2>1, <2>2 DEF ExecutorInv, WavePhase
  <2>4. ~WorkOver
    BY <2>1, <2>3 DEF WorkOver, Done, WithStatus
  <2>5. Targets \in outputs
    BY <2>1, <2>3, RecoveryAssumption DEF ExecutorInv, RowsFit
  <2> QED
    BY <2>1, <2>3, <2>4, <2>5 DEF RecoveryInv, MachinesKept
<1> QED
  BY <1>1, RecoveryInvHolds, PTL

(* api.go: a node that the row has as done is never started again, by no      *)
(* executor before or after a crash.                                          *)
THEOREM DoneNotRepeatedHolds == RSpec => DoneNotRepeated
<1>1. ASSUME RecoveryInv, [RNext]_rvars
      PROVE  \A s \in store, n \in Nodes :
               s.nodes[n] = "done" /\ n \notin Running => n \notin Running'
  <2> SUFFICES ASSUME NEW s \in store, NEW n \in Nodes, s.nodes[n] = "done", n \notin Running
               PROVE  n \notin Running'
    OBVIOUS
  <2>1. CASE engaged /\ [Next]_vars
    <3>1. ExecutorInv
      BY <1>1, <2>1 DEF RecoveryInv, ExecutorFits
    <3>2. status[n] = "done"
      BY <3>1 DEF ExecutorInv, RowsFit, Fit, DoneIn, Done, WithStatus
    <3>3. status'[n] = "done"
      BY <2>1, <3>1, <3>2, EndedKept DEF Terminal
    <3> QED
      BY <3>3 DEF Running, WithStatus
  <2>2. CASE Crash \/ Resume
    BY <2>2 DEF Crash, Resume, NoExecutor, Executor, Restored, Running, WithStatus
  <2>3. CASE UNCHANGED status
    BY <2>3 DEF Running, WithStatus
  <2>4. CASE ExecutorStep
    BY <2>1, <2>4, StepIsNext
  <2>5. CASE \E h \in Hosts : DeployFails(h)
    BY <2>1, <2>5, RecoveryAssumption DEF DeployFails, Executing, Next, NodeStep, TaskReturns
  <2>6. CASE \E h \in Hosts : DeployMachine(h) \/ RemoveMachine(h) \/ ContainerDies(h)
    BY <2>3, <2>6
    DEF DeployMachine, TaskRecords, RemoveMachine, ContainerDies, executorVars, runVars
  <2> QED
    BY <1>1, <2>2, <2>3, <2>4, <2>5, <2>6
    DEF RNext, Restart, ResumeFails, MarkRunFailed, NothingToRecover, RecoveryFails, AtRest,
        rvars, executorVars, runVars
<1> QED
  BY <1>1, RecoveryInvHolds, PTL DEF RSpec, DoneNotRepeated
================================================================================
