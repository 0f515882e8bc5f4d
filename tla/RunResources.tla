------------------------------ MODULE RunResources ------------------------------
(******************************************************************************)
(* What a run leaves in the outside world: the Docker network and containers  *)
(* or the cloud machines of its three infrastructure tasks (network, machines *)
(* and teardown), call by call, with the calls that fail, the retries of the  *)
(* executor and restarts of the server.                                       *)
(*                                                                            *)
(* Containers are known by name to the deployer and by ID to the run state,   *)
(* which a restart finds in the run's row as it was last saved; any save may  *)
(* fail.  Docker refuses to remove a network with a running container on it.  *)
(* Terraform knows what the state file of its working directory lists; an     *)
(* Actor knows the directories it has applied.  The cloud refuses a machine   *)
(* or a subnet that exists already.                                           *)
(******************************************************************************)
EXTENDS RunPlan

CONSTANTS
  Configs,   \* the run configurations to try
  MaxTries,  \* executions of a task: RetryPolicy.MaxRetries + 1
  MaxFaults  \* bound of the model: calls that fail, and restarts

ASSUME ResourcesAssumption ==
  /\ \A c \in Configs :
       /\ ValidConfig(c)
       /\ FillMachinesFromTopology(c) \in Seq([role : STRING, count : Nat])
  /\ MaxTries \in Nat \ {0}
  /\ MaxFaults \in Nat

VARIABLES
  cfg,      \* the run's configuration
  provider, \* "docker" or "yandex"
  phase,    \* "network", "machines", "work", "teardown", "over" or "stranded"
  step,     \* where the phase's task is
  tries,    \* executions of the task so far
  left,     \* machines the task has yet to deploy
  box,      \* name -> the container of that name, None if there is none
  ids,      \* container IDs handed out so far
  net,      \* the run's Docker network exists
  cloud,    \* cloud resources of the run that exist
  tracked,  \* those of them the working directory's state file lists
  known,    \* state.containerIDs
  netKnown, \* state.networkID is set
  actor,    \* the Actor of the run state: "none", and whether it knows the directory
  targets,  \* state: the targets, in their order
  ready,    \* the machines task has succeeded
  torn,     \* the teardown was done before the run was resumed
  pending,  \* the main loop has left nodes pending, the teardown apart
  row,      \* the run's row
  doomed,   \* containers a teardown has yet to remove
  faults,   \* faults so far
  mishaps   \* those that matter for what is left behind

taskVars  == <<phase, step, tries, left, doomed>>
worldVars == <<box, ids, net, cloud, tracked>>
stateVars == <<known, netKnown, actor, targets>>
doneVars  == <<ready, torn, pending, row>>
vars == <<cfg, provider, taskVars, worldVars, stateVars, doneVars, faults, mishaps>>

None == [id |-> 0, up |-> FALSE]
Subnet == <<"subnet", 0>>

(* A slip in MachineIds: the index is left out of the machine ID.             *)
MachineIdsByRole(spec) == [i \in 1 .. spec.count |-> <<spec.role, 1>>]

MachineIds(spec) == [i \in 1 .. spec.count |-> <<spec.role, i>>]

(* The machines in the order they are deployed.                               *)
Order(c) ==
  LET specs == FillMachinesFromTopology(c)
  IN  FlattenSeq([k \in DOMAIN specs |-> MachineIds(specs[k])])

Count(c) == Total([k \in DOMAIN FillMachinesFromTopology(c) |->
                     FillMachinesFromTopology(c)[k].count])

Names  == ToSet(Order(cfg))
Wanted == Names \cup {Subnet}

(* What of a row matters: whether a node is pending in it, whether the        *)
(* machines task and the teardown are done, and the IDs.                      *)
Rows(i) == [open : BOOLEAN, ready : BOOLEAN, tornDown : BOOLEAN,
            known : SUBSET (1 .. i), netKnown : BOOLEAN]

NoRow == [open |-> FALSE, ready |-> FALSE, tornDown |-> FALSE,
          known |-> {}, netKnown |-> FALSE]

Mishaps == {"remove", "rollback", "unreadable", "destroy", "restart"}

TypeOK ==
  /\ cfg \in Configs
  /\ provider \in {"docker", "yandex"}
  /\ phase \in {"network", "machines", "work", "teardown", "over", "stranded"}
  /\ step \in {"begin", "deploy", "create", "copy", "start",
               "apply", "output", "rollback", "read", "removing", "net"}
  /\ tries \in 0 .. MaxTries - 1
  /\ ToSet(left) \subseteq Names
  /\ \A n \in Names : box[n].id \in 0 .. ids /\ (box[n].up => box[n].id # 0)
  /\ cloud \subseteq Wanted
  /\ tracked \subseteq cloud
  /\ known \subseteq 1 .. ids
  /\ doomed \subseteq known
  /\ actor \in {"none", "present", "absent"}
  /\ targets = <<>> \/ ToSet(targets) = Names
  /\ ready \in BOOLEAN /\ torn \in BOOLEAN /\ pending \in BOOLEAN
  /\ row \in Rows(ids) /\ row.known \subseteq known
  /\ faults \in 0 .. MaxFaults
  /\ mishaps \subseteq Mishaps

Init ==
  /\ cfg \in Configs
  /\ provider \in {"docker", "yandex"}
  /\ phase = "network"
  /\ step = "begin"
  /\ tries = 0
  /\ left = <<>>
  /\ box = [n \in Names |-> None]
  /\ ids = 0
  /\ net = FALSE
  /\ cloud = {}
  /\ tracked = {}
  /\ known = {}
  /\ netKnown = FALSE
  /\ actor = "none"
  /\ targets = <<>>
  /\ ready = FALSE
  /\ torn = FALSE
  /\ pending = FALSE
  /\ row = NoRow
  /\ doomed = {}
  /\ faults = 0
  /\ mishaps = {}
--------------------------------------------------------------------------------
(* The executor around a task.                                                *)

Fault == faults < MaxFaults /\ faults' = faults + 1

At(ph, st) == phase = ph /\ step = st

Goto(st) == step' = st /\ UNCHANGED <<phase, tries>>

(* The task has succeeded, and phase ph begins.                               *)
Succeeds(ph) == phase' = ph /\ step' = "begin" /\ tries' = 0

(* A slip in Errs: one attempt too many.                                      *)
ErrsOnceMore ==
  /\ step' = "begin"
  /\ IF tries < MaxTries
       THEN tries' = tries + 1 /\ UNCHANGED phase
       ELSE tries' = 0 /\ phase' = IF phase = "teardown" THEN "over" ELSE "teardown"

(* The task has returned an error: it is executed again, or the run is torn   *)
(* down, or the teardown is given up.                                         *)
Errs ==
  /\ step' = "begin"
  /\ IF tries + 1 < MaxTries
       THEN tries' = tries + 1 /\ UNCHANGED phase
       ELSE tries' = 0 /\ phase' = IF phase = "teardown" THEN "over" ELSE "teardown"

(* The row as the present state has it, with or without a pending node.       *)
Snapshot(open) == [open |-> open, ready |-> ready, tornDown |-> torn,
                   known |-> known, netKnown |-> netKnown]

(* Nobody looks at the error of a save.                                       *)
Save(s) == row' \in {row, s}

(* The phases between machines and teardown, done or failed; or the run is    *)
(* cancelled before machines begins.                                          *)
WorkEnds ==
  /\ phase = "work" \/ (At("machines", "begin") /\ tries = 0)
  /\ Succeeds("teardown")
  /\ UNCHANGED <<cfg, provider, left, doomed, worldVars, stateVars, doneVars, faults, mishaps>>
--------------------------------------------------------------------------------
(* The network task.                                                          *)

SkipNetwork ==
  /\ provider = "yandex" /\ At("network", "begin")
  /\ Succeeds("machines")
  /\ UNCHANGED <<cfg, provider, left, doomed, worldVars, stateVars, doneVars, faults, mishaps>>

(* The network of that name is reused, or created.                            *)
MakeNetwork ==
  /\ provider = "docker" /\ At("network", "begin")
  /\ net' = TRUE
  /\ netKnown' = TRUE
  /\ Succeeds("machines")
  /\ Save([Snapshot(TRUE) EXCEPT !.netKnown = TRUE])
  /\ UNCHANGED <<cfg, provider, left, doomed, box, ids, cloud, tracked, known, actor,
                 targets, ready, torn, pending, faults, mishaps>>

(* Docker does not answer, or its answer is lost.                             *)
NetworkFails ==
  /\ provider = "docker" /\ At("network", "begin")
  /\ Fault
  /\ net' \in {net, TRUE}
  /\ Errs
  /\ UNCHANGED <<cfg, provider, left, doomed, box, ids, cloud, tracked, stateVars, doneVars,
                 mishaps>>
--------------------------------------------------------------------------------
(* The machines task on Docker: DockerDeployer.Deploy, machine by machine.    *)

BeginDeploying ==
  /\ provider = "docker" /\ At("machines", "begin")
  /\ left' = Order(cfg)
  /\ Goto("deploy")
  /\ UNCHANGED <<cfg, provider, doomed, worldVars, stateVars, doneVars, faults, mishaps>>

Deploying == provider = "docker" /\ phase = "machines" /\ left # <<>>

(* Neither image can be pulled.                                               *)
PullFails ==
  /\ Deploying /\ step = "deploy"
  /\ Fault
  /\ Errs
  /\ UNCHANGED <<cfg, provider, left, doomed, worldVars, stateVars, doneVars, mishaps>>

(* The old container of that name goes; whether it does is not looked at.     *)
RemoveOld ==
  /\ Deploying /\ step = "deploy"
  /\ \/ box' = [box EXCEPT ![Head(left)] = None] /\ UNCHANGED faults
     \/ box[Head(left)] # None /\ Fault /\ UNCHANGED box
  /\ Goto("create")
  /\ UNCHANGED <<cfg, provider, left, doomed, ids, net, cloud, tracked, stateVars, doneVars,
                 mishaps>>

Create(n) ==
  /\ box[n] = None
  /\ ids' = ids + 1
  /\ box' = [box EXCEPT ![n] = [id |-> ids + 1, up |-> FALSE]]

CreateContainer ==
  /\ Deploying /\ step = "create"
  /\ Create(Head(left))
  /\ Goto("copy")
  /\ UNCHANGED <<cfg, provider, left, doomed, net, cloud, tracked, stateVars, doneVars, faults,
                 mishaps>>

(* The name is taken, or the call fails with or without its effect.           *)
CreateFails ==
  /\ Deploying /\ step = "create"
  /\ IF box[Head(left)] # None THEN UNCHANGED faults ELSE Fault
  /\ Create(Head(left)) \/ UNCHANGED <<box, ids>>
  /\ Errs
  /\ UNCHANGED <<cfg, provider, left, doomed, net, cloud, tracked, stateVars, doneVars, mishaps>>

CopyEnv ==
  /\ Deploying /\ step = "copy"
  /\ \/ Goto("start") /\ UNCHANGED faults
     \/ Fault /\ Errs
  /\ UNCHANGED <<cfg, provider, left, doomed, worldVars, stateVars, doneVars, mishaps>>

(* The ID of a container that runs is kept in the run state.                  *)
StartContainer ==
  /\ Deploying /\ step = "start"
  /\ box' = [box EXCEPT ![Head(left)].up = TRUE]
  /\ known' = known \cup {box[Head(left)].id}
  /\ left' = Tail(left)
  /\ Goto("deploy")
  /\ UNCHANGED <<cfg, provider, doomed, ids, net, cloud, tracked, netKnown, actor, targets,
                 doneVars, faults, mishaps>>

(* An error comes without the ID, whether the container runs or not.          *)
StartFails ==
  /\ Deploying /\ step = "start"
  /\ Fault
  /\ box' \in {box, [box EXCEPT ![Head(left)].up = TRUE]}
  /\ Errs
  /\ UNCHANGED <<cfg, provider, left, doomed, ids, net, cloud, tracked, stateVars, doneVars,
                 mishaps>>

Deployed ==
  /\ provider = "docker" /\ At("machines", "deploy") /\ left = <<>>
  /\ targets' = Order(cfg)
  /\ ready' = TRUE
  /\ Succeeds("work")
  /\ Save([Snapshot(TRUE) EXCEPT !.ready = TRUE])
  /\ UNCHANGED <<cfg, provider, left, doomed, worldVars, known, netKnown, actor, torn, pending,
                 faults, mishaps>>
--------------------------------------------------------------------------------
(* The machines task on Yandex Cloud: Actor.ApplyTerraform and what follows.  *)

(* CreateDir clears the working directory, the state file with it.            *)
CreateDir == tracked' = {}

(* Every attempt has a new Actor and a new working directory of the same name;*)
(* terraform init may fail.                                                   *)
BeginApply ==
  /\ provider = "yandex" /\ At("machines", "begin")
  /\ CreateDir
  /\ \/ Goto("apply") /\ UNCHANGED faults
     \/ Fault /\ Errs
  /\ UNCHANGED <<cfg, provider, left, doomed, box, ids, net, cloud, stateVars, doneVars, mishaps>>

Apply ==
  /\ provider = "yandex" /\ At("machines", "apply")
  /\ cloud = {}
  /\ cloud' = Wanted
  /\ tracked' = Wanted
  /\ Goto("output")
  /\ UNCHANGED <<cfg, provider, left, doomed, box, ids, net, stateVars, doneVars, faults, mishaps>>

(* Some are created, then the cloud refuses, because of what exists or        *)
(* without a reason.                                                          *)
ApplyFails ==
  /\ provider = "yandex" /\ At("machines", "apply")
  /\ IF cloud # {} THEN UNCHANGED faults ELSE Fault
  /\ \E made \in SUBSET (Wanted \ cloud) :
       /\ cloud' = cloud \cup made
       /\ tracked' = made
  /\ Goto("rollback")
  /\ UNCHANGED <<cfg, provider, left, doomed, box, ids, net, stateVars, doneVars, mishaps>>

(* The working directory and the Actor are kept in the run state once the     *)
(* output has been read; else all is rolled back.                             *)
ReadState ==
  /\ provider = "yandex" /\ At("machines", "output")
  /\ \/ actor' = "present" /\ Goto("read") /\ UNCHANGED faults
     \/ Fault /\ Goto("rollback") /\ UNCHANGED actor
  /\ UNCHANGED <<cfg, provider, left, doomed, worldVars, known, netKnown, targets, doneVars,
                 mishaps>>

(* terraform destroy, which may stop half-way.                                *)
Destroy(mishap) ==
  \/ /\ cloud' = cloud \ tracked
     /\ tracked' = {}
     /\ UNCHANGED <<faults, mishaps>>
  \/ /\ Fault
     /\ \E gone \in SUBSET tracked :
          /\ cloud' = cloud \ gone
          /\ tracked' = tracked \ gone
     /\ mishaps' = mishaps \cup {mishap}

Rollback ==
  /\ provider = "yandex" /\ At("machines", "rollback")
  /\ Destroy("rollback")
  /\ Errs
  /\ UNCHANGED <<cfg, provider, left, doomed, box, ids, net, stateVars, doneVars>>

(* The targets come in the order of a Go map.                                 *)
ReadOutput ==
  /\ provider = "yandex" /\ At("machines", "read")
  /\ \E t \in SetToSeqs(Names) : targets' = t
  /\ ready' = TRUE
  /\ Succeeds("work")
  /\ Save([Snapshot(TRUE) EXCEPT !.ready = TRUE])
  /\ UNCHANGED <<cfg, provider, left, doomed, worldVars, known, netKnown, actor, torn, pending,
                 faults, mishaps>>

(* The output lacks a machine: the machines exist, and the task is repeated.  *)
OutputUnreadable ==
  /\ provider = "yandex" /\ At("machines", "read")
  /\ Fault
  /\ mishaps' = mishaps \cup {"unreadable"}
  /\ Errs
  /\ UNCHANGED <<cfg, provider, left, doomed, worldVars, stateVars, doneVars>>
--------------------------------------------------------------------------------
(* The teardown task.                                                         *)

(* The main loop is left, in a last wave in which nothing but the teardown    *)
(* runs, or before the end of the work: it may then have left nodes pending,  *)
(* and the teardown begins as one of them.                                    *)
BeginRemoving ==
  /\ provider = "docker" /\ At("teardown", "begin")
  /\ ~torn
  /\ doomed' = known
  /\ pending' \in BOOLEAN
  /\ \E open \in BOOLEAN :
       /\ pending' \/ ~ready => open
       /\ Save(Snapshot(open))
  /\ Goto("removing")
  /\ UNCHANGED <<cfg, provider, left, worldVars, stateVars, ready, torn, faults, mishaps>>

(* A resumed run does not repeat the teardown that its row has as done.       *)
SkipRemoving ==
  /\ provider = "docker" /\ At("teardown", "begin")
  /\ torn
  /\ \E open \in BOOLEAN : Save(Snapshot(open))
  /\ Succeeds("over")
  /\ UNCHANGED <<cfg, provider, left, doomed, worldVars, stateVars, ready, torn, pending,
                 faults, mishaps>>

HasId(i) == {n \in Names : box[n].id = i}

(* Errors are logged: an ID of an earlier attempt belongs to no container.    *)
RemoveContainer(i) ==
  /\ provider = "docker" /\ At("teardown", "removing")
  /\ i \in doomed
  /\ doomed' = doomed \ {i}
  /\ \/ /\ box' = [n \in Names |-> IF n \in HasId(i) THEN None ELSE box[n]]
        /\ UNCHANGED <<faults, mishaps>>
     \/ /\ HasId(i) # {}
        /\ Fault
        /\ mishaps' = mishaps \cup {"remove"}
        /\ UNCHANGED box
  /\ UNCHANGED <<cfg, provider, phase, step, tries, left, ids, net, cloud, tracked, stateVars,
                 doneVars>>

(* A container that runs keeps the network.                                   *)
Attached == \E n \in Names : box[n].up

(* The task succeeds in any case; the error of the removal is not looked at.  *)
RemoveNetwork ==
  /\ provider = "docker" /\ At("teardown", "removing")
  /\ doomed = {}
  /\ \/ net' = (net /\ (~netKnown \/ Attached)) /\ UNCHANGED <<faults, mishaps>>
     \/ netKnown /\ Fault /\ mishaps' = mishaps \cup {"remove"} /\ UNCHANGED net
  /\ Succeeds("over")
  /\ Save([Snapshot(pending) EXCEPT !.tornDown = TRUE])
  /\ UNCHANGED <<cfg, provider, left, doomed, box, ids, cloud, tracked, stateVars, ready, torn,
                 pending>>

(* No working directory is recorded: nothing to do.                           *)
SkipDestroy ==
  /\ provider = "yandex" /\ At("teardown", "begin")
  /\ actor = "none"
  /\ Succeeds("over")
  /\ UNCHANGED <<cfg, provider, left, doomed, worldVars, stateVars, doneVars, faults, mishaps>>

(* terraform init fails, or destroy does or does not: after it, the Actor no  *)
(* longer knows the directory.                                                *)
DestroyTerraform ==
  /\ provider = "yandex" /\ At("teardown", "begin")
  /\ actor = "present"
  /\ \/ Fault /\ Errs /\ mishaps' = mishaps \cup {"destroy"}
        /\ UNCHANGED <<actor, cloud, tracked>>
     \/ Destroy("destroy") /\ actor' = "absent"
        /\ IF faults' = faults THEN Succeeds("over") ELSE Errs
  /\ UNCHANGED <<cfg, provider, left, doomed, box, ids, net, known, netKnown, targets, doneVars>>

DirectoryNotFound ==
  /\ provider = "yandex" /\ At("teardown", "begin")
  /\ actor = "absent"
  /\ Errs
  /\ UNCHANGED <<cfg, provider, left, doomed, worldVars, stateVars, doneVars, faults, mishaps>>
--------------------------------------------------------------------------------
(* The server restarts.                                                       *)

(* A node is pending in the row, and one of its containers runs.              *)
CanRecover == row.open /\ \E n \in Names : box[n].up /\ box[n].id \in row.known

(* A slip in Resume: the container IDs are not imported.                      *)
ResumeWithoutIds ==
  /\ CanRecover
  /\ phase' = IF row.ready THEN "work" ELSE "machines"
  /\ ready' = row.ready
  /\ torn' = row.tornDown
  /\ known' = {}
  /\ netKnown' = row.netKnown
  /\ targets' = IF row.ready THEN targets ELSE <<>>
  /\ UNCHANGED <<box, net, pending, row, mishaps>>

(* The run is resumed from its row: behind its machines task, of which what   *)
(* came later may be done again; or with it, if it had failed.                *)
Resume ==
  /\ CanRecover
  /\ phase' = IF row.ready THEN "work" ELSE "machines"
  /\ ready' = row.ready
  /\ torn' = row.tornDown
  /\ known' = row.known
  /\ netKnown' = row.netKnown
  /\ targets' = IF row.ready THEN targets ELSE <<>>
  /\ UNCHANGED <<box, net, pending, row, mishaps>>

(* RecoverRun fails before there is an executor: the run is not executed, its *)
(* row stays as it is and nothing of it is removed.                           *)
ResumeFails ==
  /\ CanRecover
  /\ phase' = "stranded"
  /\ UNCHANGED <<box, net, known, netKnown, targets, doneVars, mishaps>>

(* The run is not resumed, perhaps because Docker does not answer: its        *)
(* pending nodes are marked failed, and everything that bears its name is     *)
(* removed, call by call.                                                     *)
CleanUp ==
  /\ phase' = "over"
  /\ row' \in {row, [row EXCEPT !.open = FALSE]}
  /\ \E kept \in SUBSET {n \in Names : box[n] # None} : \E netKept \in {FALSE, net} :
       /\ net /\ (\E n \in kept : box[n].up) => netKept
       /\ box' = [n \in Names |-> IF n \in kept THEN box[n] ELSE None]
       /\ net' = netKept
       /\ mishaps' = mishaps \cup (IF kept # {} \/ netKept THEN {"remove"} ELSE {})
                             \cup (IF provider = "yandex" THEN {"restart"} ELSE {})
  /\ UNCHANGED <<known, netKnown, targets, ready, torn, pending>>

Restart ==
  /\ Fault
  /\ Resume \/ ResumeFails \/ CleanUp
  /\ step' = "begin" /\ tries' = 0
  /\ left' = <<>>
  /\ doomed' = {}
  /\ UNCHANGED <<cfg, provider, ids, cloud, tracked, actor>>

AtRest == phase \in {"over", "stranded"} /\ UNCHANGED vars

Next ==
  \/ WorkEnds
  \/ SkipNetwork \/ MakeNetwork \/ NetworkFails
  \/ BeginDeploying \/ PullFails \/ RemoveOld \/ CreateContainer \/ CreateFails \/ CopyEnv
  \/ StartContainer \/ StartFails \/ Deployed
  \/ BeginApply \/ Apply \/ ApplyFails \/ ReadState \/ Rollback \/ ReadOutput
  \/ OutputUnreadable
  \/ BeginRemoving \/ SkipRemoving \/ (\E i \in doomed : RemoveContainer(i)) \/ RemoveNetwork
  \/ SkipDestroy \/ DestroyTerraform \/ DirectoryNotFound
  \/ Restart
  \/ AtRest

Spec == Init /\ [][Next]_vars
--------------------------------------------------------------------------------
(* Properties.                                                                *)

Containers == {n \in Names : box[n] # None}

(* task_infra.go: "teardownTask destroys containers and network": whatever    *)
(* failed, was retried or resumed before, a run that is over has left nothing *)
(* behind if its machines task has succeeded.  If it has not, what is left is *)
(* what an error kept from the run state: a container without its ID, the     *)
(* network without its ID or with such a container on it, machines that a     *)
(* rollback or a repeated apply has lost.  Left out are the removals that     *)
(* fail themselves, and a restart of a cloud run (RunRecovery).               *)
LeftBehind ==
  phase = "over" /\ mishaps \cap {"remove", "destroy", "restart"} = {} =>
    /\ ready => Containers = {} /\ ~net
    /\ \A n \in Containers : box[n].id \notin known
    /\ net => ~netKnown \/ \E n \in Containers : box[n].up
    /\ cloud # {} => ~ready /\ mishaps # {}

(* cloudinit.go: "MachineID is a unique identifier for this machine": the     *)
(* machines task succeeds, however often it was repeated, with as many        *)
(* machines as the configuration asks for, each known to the run state and    *)
(* each the target of commands.                                               *)
Supplied ==
  /\ Len(targets) = Count(cfg)
  /\ ToSet(targets) = Names
  /\ Cardinality(IF provider = "yandex" THEN cloud \ {Subnet}
                 ELSE {n \in Names : box[n].up /\ box[n].id \in known}) = Count(cfg)

MachineForEachTarget == [][~ready /\ ready' => Supplied']_vars
================================================================================
