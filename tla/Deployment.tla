------------------------------- MODULE Deployment -------------------------------
(******************************************************************************)
(* A run from end to end: the phases of RunPlan in waves as the executor      *)
(* schedules them, the commands each phase sends to the agents, and what the  *)
(* scripts of AgentScripts do to the machines.  Tasks fail and are retried,   *)
(* Sends are given up while their command stays with the agent, and the       *)
(* server may crash and resume the run from its row.                          *)
(*                                                                            *)
(* A machine executes one command at a time, and the commands of one phase in *)
(* the order they were sent; those of different phases in any order, which is *)
(* more than the machine's queue allows (CommandChannel has the queue).       *)
(******************************************************************************)
EXTENDS AgentScripts

CONSTANTS
  Configs,    \* the run configurations to try
  MaxTries,   \* executions of a task: RetryPolicy.MaxRetries + 1
  MaxFaults,  \* bound of the model: faults of a run
  MaxOrphans, \* bound of the model: machines a crash finds at work
  Frail       \* bound of the model: machines whose bootstrap may fail

ASSUME DeploymentAssumption ==
  /\ \A c \in Configs :
       /\ ValidConfig(c)
       /\ FillMachinesFromTopology(c) \in Seq([role : STRING, count : Nat])
  /\ MaxTries \in Nat \ {0}
  /\ MaxFaults \in Nat
  /\ MaxOrphans \in Nat

VARIABLES
  cfg,      \* the run's configuration
  plan,     \* the graph that was built from it, and its machines
  status,   \* status of each phase
  tries,    \* executions of each phase's task by this executor
  todo,     \* machines a task that sends in sequence has yet to serve
  failing,  \* phases whose current execution has met an error
  live,     \* commands some Send waits for: <<phase, machine>>
  stale,    \* commands with an agent that no Send waits for any more
  waiting,  \* commands that have started etcd and wait for its quorum
  mach,     \* the machines
  state,    \* run.State
  known,    \* the Patroni cluster etcd knows of, 0 for none
  clusters, \* clusters created so far
  faults,   \* faults so far
  mishaps,  \* what went wrong in scripts so far
  result    \* "running", "completed" or "failed"

runVars == <<status, tries, todo, failing>>
cmdVars == <<live, stale, waiting>>
machVars == <<mach, known, clusters>>
vars == <<cfg, plan, runVars, cmdVars, machVars, state, faults, mishaps, result>>

(* What RunPlan makes of a configuration.                                     *)
Built(c) ==
  LET ready == Provisioned(c)
      sends(st) == [p \in Phases(c) |-> TargetsOf(c, st, p)]
  IN  [phases   |-> Phases(c),
       deps     |-> [p \in Phases(c) |-> DepsOf(c, p)],
       mode     |-> [p \in Phases(c) |-> SendMode(c, p)],
       machines |-> ToSet(AllTargets(ready)),
       ready    |-> ready,
       before   |-> sends(NewState),
       after    |-> sends(ready)]

Machines  == plan.machines
Fleet     == IF state = NewState THEN {} ELSE Machines
Databases == ToSet(state.database)
Targets(p) == IF state = NewState THEN plan.before[p] ELSE plan.after[p]

Bare == [boot |-> "no", have |-> {}, up |-> {}, data |-> 0]

In(st) == {p \in plan.phases : status[p] \in st}

Commands == plan.phases \X Machines

TypeOK ==
  /\ cfg \in Configs
  /\ status \in [plan.phases -> {"pending", "running", "done", "failed"}]
  /\ tries \in [plan.phases -> 0 .. MaxTries]
  /\ \A p \in plan.phases : ToSet(todo[p]) \subseteq Machines
  /\ failing \subseteq plan.phases
  /\ live \subseteq Commands
  /\ stale \subseteq Commands
  /\ waiting \subseteq live \cup stale
  /\ \A m \in Machines :
       /\ mach[m].boot \in {"no", "ok", "failed"}
       /\ mach[m].data \in 0 .. clusters
  /\ state \in {NewState, plan.ready}
  /\ known \in 0 .. clusters
  /\ faults \in 0 .. MaxFaults
  /\ mishaps \subseteq {"missing", "repeat", "fault", "orphaned", "swallowed", "underfoot"}
  /\ result \in {"running", "completed", "failed"}

Init ==
  /\ cfg \in Configs
  /\ plan = Built(cfg)
  /\ status = [p \in plan.phases |-> "pending"]
  /\ tries = [p \in plan.phases |-> 0]
  /\ todo = [p \in plan.phases |-> <<>>]
  /\ failing = {}
  /\ live = {}
  /\ stale = {}
  /\ waiting = {}
  /\ mach = [m \in Machines |-> Bare]
  /\ state = NewState
  /\ known = 0
  /\ clusters = 0
  /\ faults = 0
  /\ mishaps = {}
  /\ result = "running"
--------------------------------------------------------------------------------
(* The executor's waves.                                                      *)

Halted == In({"failed"}) # {}

Ready ==
  IF Halted THEN {} ELSE {p \in In({"pending"}) : plan.deps[p] \subseteq In({"done"})}

(* A task that panics has sent nothing before.                                *)
Sends(p) == IF Panics(cfg, state, p) THEN <<>> ELSE Targets(p)

(* The tasks of L begin to execute: each sends its first commands.            *)
Execute(L) ==
  /\ tries' = [p \in plan.phases |-> IF p \in L THEN tries[p] + 1 ELSE tries[p]]
  /\ todo' = [p \in plan.phases |->
                LET ts == Sends(p)
                IN  IF p \in L /\ plan.mode[p] = "sequence" /\ ts # <<>>
                      THEN Tail(ts) ELSE todo[p]]
  /\ live' = live \cup
       {c \in L \X Fleet :
          LET ts == Sends(c[1])
          IN  IF plan.mode[c[1]] = "sequence" THEN ts # <<>> /\ c[2] = ts[1]
                                                  ELSE c[2] \in ToSet(ts)}
  /\ failing' = {p \in (failing \ L) \cup L : p \notin L \/ FailsOutright(cfg, state, p)}

StartWave ==
  /\ result = "running"
  /\ In({"running"}) = {}
  /\ Ready \ {"teardown"} # {}
  /\ status' = [p \in plan.phases |-> IF p \in Ready THEN "running" ELSE status[p]]
  /\ Execute(Ready)
  /\ UNCHANGED <<cfg, plan, stale, waiting, machVars, state, faults, mishaps, result>>

(* The current execution of p's task has returned.                            *)
Returned(p) ==
  /\ status[p] = "running"
  /\ ~Panics(cfg, state, p)
  /\ todo[p] = <<>>
  /\ \A c \in live : c[1] # p

Ends(p, st) ==
  /\ status' = [status EXCEPT ![p] = st]
  /\ tries' = [tries EXCEPT ![p] = 0]
  /\ failing' = failing \ {p}

(* The machines task leaves new machines and their targets in the run state.  *)
Finish(p) ==
  /\ Returned(p)
  /\ p \notin failing
  /\ Ends(p, "done")
  /\ IF p = "machines"
       THEN /\ mach' = [m \in Machines |-> Bare]
            /\ state' = plan.ready
       ELSE UNCHANGED <<mach, state>>
  /\ UNCHANGED <<cfg, plan, todo, cmdVars, known, clusters, faults, mishaps, result>>

(* A slip in Retry: the attempts are not counted.                             *)
RetryForever(p) ==
  /\ Returned(p)
  /\ p \in failing
  /\ Execute({p})
  /\ UNCHANGED <<cfg, plan, status, stale, waiting, machVars, state, faults,
                 mishaps, result>>

Retry(p) ==
  /\ Returned(p)
  /\ p \in failing
  /\ tries[p] < MaxTries
  /\ Execute({p})
  /\ UNCHANGED <<cfg, plan, status, stale, waiting, machVars, state, faults,
                 mishaps, result>>

(* The task has used up its attempts.                                         *)
GiveUp(p) ==
  /\ Returned(p)
  /\ p \in failing
  /\ tries[p] = MaxTries
  /\ Ends(p, "failed")
  /\ UNCHANGED <<cfg, plan, todo, cmdVars, machVars, state, faults, mishaps, result>>

(* Teardown, the last phase of the run or what is left of a failed one:       *)
(* the machines go, and with them what their agents were doing.               *)
TearDown ==
  /\ result = "running"
  /\ In({"running"}) = {}
  /\ Ready \ {"teardown"} = {}
  /\ status' = [status EXCEPT !["teardown"] = "done"]
  /\ mach' = [m \in Machines |-> Bare]
  /\ stale' = {}
  /\ waiting' = {}
  /\ result' = IF Halted THEN "failed" ELSE "completed"
  /\ UNCHANGED <<cfg, plan, tries, todo, failing, live, state, known, clusters, faults,
                 mishaps>>
--------------------------------------------------------------------------------
(* The agents.                                                                *)

EtcdHosts  == IF NeedsEtcd(cfg) THEN ToSet(Targets("configure_etcd")) ELSE {}
EtcdQuorum ==
  2 * Cardinality({m \in EtcdHosts : "etcd" \in mach[m].up}) > Cardinality(EtcdHosts)

Env(m, strict) ==
  LET head == state.database[1]
  IN  [first  |-> IsFirst(state, m),
       group  |-> "group" \in cfg.features,
       peer   |-> IF Databases # {} /\ Service(cfg.kind) \in mach[head].up
                    THEN mach[head].data ELSE 0,
       quorum |-> EtcdQuorum,
       nodes  |-> \A d \in Databases : "ydbd" \in mach[d].up,
       known  |-> known,
       member |-> \E d \in Databases \ {m} : known # 0 /\ mach[d].data = known,
       fresh  |-> clusters + 1,
       strict |-> strict]

(* What the machine can turn to: nothing before the command it is busy with,  *)
(* nor before an older one of the same phase.  Installs of different software *)
(* commute, so it takes them in one order out of many.                        *)
InstallOrder ==
  <<"install_db", "install_etcd", "install_patroni", "install_pgbouncer",
    "install_proxy", "install_monitor", "install_stroppy">>

Before(p, q) ==
  \E i, j \in DOMAIN InstallOrder : i < j /\ InstallOrder[i] = p /\ InstallOrder[j] = q

CanTake(c) ==
  /\ \A w \in waiting : w[2] # c[2]
  /\ \A d \in live \cup stale : d[2] = c[2] => ~Before(d[1], c[1])

(* What machine m makes of the script of phase p when fault "bad" hits it.    *)
Work(p, m, bad, strict) ==
  LET env == Env(m, strict) IN Executed(Script(cfg, p, m, env), mach[m], env, bad)

(* Its effect x on the machines.  A storage that is initialised is that of    *)
(* all database machines.  An error of a stale command reaches nobody.        *)
Takes(c, x) ==
  LET p == c[1]
      m == c[2]
      new == [boot |-> IF mach[m].boot = "no" THEN "ok" ELSE mach[m].boot,
              have |-> x.have, up |-> x.up, data |-> x.data]
      formed == p = "init_ydb_cluster" /\ x.err = "none"
  IN  /\ mach' = [n \in Machines |->
                    IF n = m THEN new
                    ELSE IF formed /\ n \in Databases THEN [mach[n] EXCEPT !.data = x.data]
                    ELSE mach[n]]
      /\ known' = IF p = "configure_patroni" /\ x.err = "none" THEN x.data ELSE known
      /\ clusters' = IF x.data > clusters THEN x.data ELSE clusters
      /\ mishaps' = mishaps \cup x.notes
                    \cup (IF x.err = "none" THEN {}
                          ELSE IF c \in stale THEN {"orphaned"} ELSE {x.err})

(* The report of a live command reaches its Send, that of a stale one nobody. *)
(* After an error SendAll gives up on its other Sends; what they have queued   *)
(* stays with the agents.                                                      *)
Reports(c, err) ==
  IF c \in stale
    THEN stale' = stale \ {c} /\ UNCHANGED <<live, todo, failing>>
  ELSE IF err = "none"
    THEN LET p == c[1] rest == todo[c[1]]
         IN  /\ live' = (live \ {c}) \cup (IF rest = <<>> THEN {} ELSE {<<p, rest[1]>>})
             /\ todo' = [todo EXCEPT ![p] = IF rest = <<>> THEN <<>> ELSE Tail(rest)]
             /\ UNCHANGED <<stale, failing>>
  ELSE LET given == IF plan.mode[c[1]] = "all"
                      THEN {d \in live : d[1] = c[1]} \ {c} ELSE {}
       IN  /\ live' = (live \ {c}) \ given
           /\ \E queued \in SUBSET given : stale' = stale \cup queued
           /\ todo' = [todo EXCEPT ![c[1]] = <<>>]
           /\ failing' = failing \cup {c[1]}

MayFault == faults < MaxFaults /\ faults' = faults + 1

(* The base packages cannot be installed: the agent never tries again.        *)
BootstrapFails(c) ==
  /\ CanTake(c)
  /\ c[2] \in Frail
  /\ mach[c[2]].boot = "no"
  /\ MayFault
  /\ mach' = [mach EXCEPT ![c[2]].boot = "failed"]
  /\ mishaps' = mishaps \cup {"fault"}
  /\ Reports(c, "fault")
  /\ UNCHANGED <<cfg, plan, status, tries, waiting, known, clusters, state, result>>

(* Every command after a failed bootstrap fails.                              *)
Refuse(c) ==
  /\ CanTake(c)
  /\ mach[c[2]].boot = "failed"
  /\ Reports(c, "fault")
  /\ UNCHANGED <<cfg, plan, status, tries, waiting, machVars, state, faults, mishaps, result>>

(* A slip in Bootstrapped: its error is returned once and not kept.           *)
BootstrappedOnce(m) == TRUE

(* Done, or about to be.                                                      *)
Bootstrapped(m) == mach[m].boot # "failed"

(* The agent executes a command, with one of its steps hit by a fault or not. *)
Perform(c) ==
  LET p == c[1] m == c[2] IN
  /\ CanTake(c)
  /\ Bootstrapped(m)
  /\ \E strict \in BOOLEAN :
       \E bad \in 0 .. Len(Script(cfg, p, m, Env(m, strict))) :
         /\ IF bad = 0 THEN UNCHANGED faults ELSE MayFault
         /\ \E x \in {Work(p, m, bad, strict)} :
              /\ Takes(c, x)
              /\ IF p = "configure_etcd" /\ x.err = "none"
                   THEN waiting' = waiting \cup {c} /\ UNCHANGED <<live, stale, todo, failing>>
                   ELSE Reports(c, x.err) /\ UNCHANGED waiting
  /\ UNCHANGED <<cfg, plan, status, tries, state, result>>

EtcdHealthy(c) ==
  /\ c \in waiting
  /\ EtcdQuorum
  /\ waiting' = waiting \ {c}
  /\ Reports(c, "none")
  /\ UNCHANGED <<cfg, plan, status, tries, machVars, state, faults, mishaps, result>>

(* Ten seconds without a quorum.  While others are still to start etcd, that  *)
(* is a fault of its own.                                                     *)
EtcdTimesOut(c) ==
  /\ c \in waiting
  /\ ~EtcdQuorum
  /\ IF {d \in live \ waiting : d[1] = "configure_etcd"} = {}
       THEN UNCHANGED faults ELSE MayFault
  /\ waiting' = waiting \ {c}
  /\ mishaps' = mishaps \cup {"fault"}
  /\ Reports(c, "fault")
  /\ UNCHANGED <<cfg, plan, status, tries, machVars, state, result>>

(* The agent has not polled within two minutes: the command is not sent.      *)
SendFails(c) ==
  /\ c \in live \ stale
  /\ mach[c[2]].boot = "no"
  /\ MayFault
  /\ mishaps' = mishaps \cup {"fault"}
  /\ Reports(c, "fault")
  /\ UNCHANGED <<cfg, plan, status, tries, waiting, machVars, state, result>>
--------------------------------------------------------------------------------
(* The server.                                                                *)

(* It comes back with the saved form of the run state and the phases that     *)
(* were saved as done, perhaps all but the last; it knows of no command, but  *)
(* an agent finishes what it is doing.  Where the machines task is not saved  *)
(* as done the row has no container either (its failures are those of         *)
(* RunResources), and the run is given up.                                    *)
Resumes ==
  /\ \E lost \in SUBSET In({"done"}) :
       /\ Cardinality(lost) <= 1
       /\ \A p \in In({"running", "done"}) : plan.deps[p] \cap lost = {}
       /\ status' = [p \in plan.phases |->
                       IF status[p] = "done" /\ p \notin lost THEN "done" ELSE "pending"]
       /\ result' = IF "machines" \in In({"done"}) \ lost THEN result ELSE "failed"
  /\ \E kept \in SUBSET (live \cup stale) :
       /\ waiting \subseteq kept
       /\ Cardinality(kept \ waiting) <= MaxOrphans
       /\ \A c, d \in kept : c[2] = d[2] => c = d
       /\ stale' = kept
  /\ live' = {}
  /\ tries' = [p \in plan.phases |-> 0]
  /\ todo' = [p \in plan.phases |-> <<>>]
  /\ failing' = {}
  /\ state' = ImportRunState(ExportRunState(state))
  /\ UNCHANGED <<cfg, plan, waiting, machVars, mishaps>>

ServerCrashes ==
  /\ result = "running"
  /\ MayFault
  /\ Resumes

(* A panic needs no fault, and happens again in the resumed run.              *)
ServerPanics ==
  /\ \E p \in In({"running"}) : Panics(cfg, state, p)
  /\ Resumes
  /\ UNCHANGED faults

AtRest == result # "running" /\ UNCHANGED vars

Progress ==
  \/ StartWave
  \/ \E p \in plan.phases : Finish(p) \/ Retry(p) \/ GiveUp(p)
  \/ TearDown
  \/ \E c \in live \cup stale : Refuse(c) \/ Perform(c) \/ EtcdHealthy(c) \/ EtcdTimesOut(c)
  \/ ServerPanics

Mishap ==
  \/ \E c \in live \cup stale : BootstrapFails(c) \/ SendFails(c)
  \/ ServerCrashes

Next == Progress \/ Mishap \/ AtRest

Spec == Init /\ [][Next]_vars

(* Executor, tasks and agents go on: goroutines and processes that nothing    *)
(* blocks, scripts whose waits are bounded.                                   *)
FairSpec == Spec /\ WF_vars(Progress)
--------------------------------------------------------------------------------
(* Properties.                                                                *)

NoSwallowed == "swallowed" \notin mishaps

(* builder.go: the dependencies of a phase cover what its scripts rely on.    *)
(* Whatever fails, is retried or resumed, no script whose result a Send waits *)
(* for misses software, a peer, a quorum or a node, unless an error before it *)
(* was not reported.                                                          *)
NothingMissing == NoSwallowed => "missing" \notin mishaps

Serves(m, us) == us \subseteq mach[m].up

(* builder.go: run_stroppy "depends on all configure phases": while the       *)
(* workload runs, what it connects to is served, every database machine is a  *)
(* running member of one and the same cluster with its pooler and its         *)
(* database node, and every machine is monitored.                             *)
ClusterReady ==
  /\ state.endpoint.service \in mach[state.endpoint.host].up
  /\ \A d \in Databases :
       /\ Service(cfg.kind) \in mach[d].up
       /\ mach[d].data # 0
       /\ mach[d].data = mach[state.database[1]].data
       /\ NeedsPgBouncer(cfg) => "pgbouncer" \in mach[d].up
       /\ NeedsPatroni(cfg) => "patroni" \in mach[d].up
       /\ NeedsYDBInit(cfg) => "ydbd-database" \in mach[d].up
  /\ \A m \in Fleet : {"node_exporter", "vmagent"} \subseteq mach[m].up

WorkloadOnReadyCluster ==
  status["run_stroppy"] = "running" /\ NoSwallowed => ClusterReady

(* builder.go: "Patroni REPLACES the PG configure phase entirely", and so on: *)
(* in a run without faults no two scripts get in each other's way, by         *)
(* starting what runs or by clearing the data of what runs.                   *)
FirstPassClean == faults = 0 => mishaps = {}

(* executor.go: the bootstrap is tried once and its error kept: no workload   *)
(* ends well in a run that has a machine without its base packages.           *)
BootstrapFailureFailsRun ==
  status["run_stroppy"] = "done" =>
    result # "running" \/ \A m \in Fleet : mach[m].boot = "ok"

(* validate.go: "ValidateConfig checks RunConfig semantics before building    *)
(* the DAG": a run whose configuration was accepted ends.                     *)
RunEnds == <>(result # "running")
================================================================================
