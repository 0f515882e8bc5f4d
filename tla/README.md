# Stroppy Cloud: TLA+ specifications

The program in `src/` runs database benchmarks: a server accepts a run
configuration, builds a graph of tasks (create machines, install a database,
run the workload, tear down), executes it, and drives agents on the machines
through HTTP long polling. Runs last hours, several go on at once, the server
may be restarted in the middle, agents and connections come and go. These
modules specify the parts whose correctness depends on interleaving, failure
and order; TLC checks them on small instances and TLAPS proves the main
theorems for all instances.

Paths below are relative to `src/`.

## 1. Inventory

### Components with state of their own

| Component | State | Operations | Talks to |
|---|---|---|---|
| Run graph and executor, `internal/core/dag/` | graph, node statuses, cancelled flag, errors (under `e.mu`); wave goroutines; the row of the run | `Add`, `Validate`, `Ready`, `ReadyAlwaysRun`, `Run`, `executeWithRetry`, `markDone`, `markFailed`, `save` | tasks (call), storage (unordered writes), server (context) |
| Run storage, `internal/infrastructure/postgres/run_storage.go` | one row per tenant and run ID | `Save` (upsert of a whole snapshot), `Load`, `List`, `Delete` | executor, server |
| Crash recovery, `internal/domain/api/api.go`, `server.go:687-850` | none: rows and the Docker host | `RecoverOrCleanupRuns`, `canRecoverRun`, `recoverRun`, `markRunFailed`, orphan clean-up | storage, Docker, a new executor |
| Run registry, `server.go:413-650` | `runCancels`, `runTenants` (one lock), `cancelledRuns` (no lock) | `runStart`, the deferred clean-up, `cancelRun`, `deleteRun` | executor (goroutine, context), storage, Docker |
| Command channel, `internal/domain/agent/client_poll.go`, `agent_server.go` | queues, result channels, healthy channels, command counter | `Send`, `SendAll`, `Poll`, `DeliverReport`, `MarkAgentReady` | tasks, HTTP handlers, agents |
| Agent, `agent_server.go`, `executor.go` | current command, once-only bootstrap, what is installed and running on its machine | poll, report, one handler per action | server, the machine |
| Run graph builder and tasks, `internal/domain/run/builder.go`, `validate.go`, `machines.go`, `task_*.go` | run state (targets, connection) | `ValidateConfig`, `FillMachinesFromTopology`, `Build`, one `Execute` per phase | executor, command channel |
| Provisioning, `internal/domain/run/task_infra.go`, `internal/domain/agent/deploy_docker.go` | run state (container IDs, network, Terraform actor) | `networkTask`, `dockerMachines`, `yandexMachines`, `teardownTask`, `Deploy`, `Stop` | Docker, Terraform |
| Terraform actor, `internal/infrastructure/terraform/actor.go`, `uow.go` | working directories, Terraform's state file | `CreateDir`, `ApplyTerraform` with rollback, `DestroyTerraform` | cloud |
| Accounts and tokens, `internal/domain/api/auth_handlers.go`, `tenant_handlers.go`, `internal/domain/auth/` | users, memberships, refresh tokens; claims in the hands of clients | login, refresh, logout, select-tenant, auth/me, members, the middleware | client, storage |
| Client, `cmd/cli/cloud*.go` | `credentials.json`, read whole and written whole by every command | login, logout, use, token refresh before a request | server |

The remaining packages (presets, packages, shares, upload, log hub, metrics,
renderers of database configurations, thin clients of VictoriaMetrics, S3,
Valkey, the web interface) are single statements, arithmetic or text; `PROJECT.json` lists every
one with the reason it is not modelled.

### How they interact

`runStart` registers a run and starts a goroutine that builds the graph and
calls `Executor.Run`. The executor starts a goroutine per ready node. A task
calls `SendAll`, which waits for reports of agents; provisioning tasks call
Docker or Terraform and record targets and container IDs in the shared run
state, which every snapshot exports. Snapshots are rows in Postgres. `cancelRun`
cancels the context of a run by ID. At start the server reads the rows left by
its predecessor, resumes what can be resumed and cleans up the rest.

### What is hard, and what makes each component correct

* **Executor.** Saves of one wave copy the statuses under the lock and write
  after it, so an older copy can land last; save errors are ignored; a
  cancellation arrives while provisioning and ordinary nodes run together; the
  timer and the context of a retry race; the teardown has a deadline. Correct
  means: dependency order, teardown alone and complete, provisioning never cut
  short, nothing executed twice, a result that agrees with the nodes, a row that
  can always be resumed from, and a cancelled run that ends.
* **Recovery.** A crash between any two steps. Correct means: what the row says
  is done has its dependencies and its outputs with it, is not repeated, and a
  start leaves no machine that no run owns.
* **Command channel.** Lost connections, a lost report, a poll handler that
  takes a command for a connection that is gone, calls that are aborted and
  retried behind their own stale commands, a counter that restarts. Correct
  means: success is the success of one's own command, a command is never
  executed twice, a call returns, a cancellation releases it.
* **Registry.** Checks and registrations under separate locks or none; maps
  keyed by run ID, rows by tenant and ID; removals by container name. Correct
  means: the maps hold exactly the executing runs, no row stays open, no run
  takes another's container.
* **Deployment: builder, tasks, agents.** The graph's edges are the only thing
  that orders scripts on different machines; tasks are retried and resumed,
  commands given up may still run, the bootstrap is tried once. Correct means: no
  script runs before what it relies on, the workload starts on the cluster that
  was asked for, and a run whose configuration was accepted ends.
* **Provisioning and Terraform.** Any call may fail with or without its effect,
  retries meet what the attempt before left, rollbacks fail themselves. Correct
  means: the run leaves nothing behind that its state knows of, and has as many
  machines as targets.
* **Sessions.** Refresh deletes one token and creates another in separate
  statements; commands of the client overlap on one file; claims are believed
  until they expire. Correct means: overlapping commands do not end the session,
  and no right outlives the membership by more than one access token.

All hazards, each at its line, are in `PROJECT.json`.

## 2. Modules

| Module | Models | Extends / instantiates |
|---|---|---|
| `Dag` | `dag.go`: validity, `Ready`, `ReadyAlwaysRun` | |
| `RunContract` | what the executor promises, without waves, retries and saves | `Dag` |
| `DagExecutor` | `executor.go`: one call of `Executor.Run` | `Dag`; instance of `RunContract` |
| `DagExecutor_proofs` | theorems | `DagExecutor` |
| `RunRecovery` | one run across crashes: executor, row, machines, the start of the server | `DagExecutor` |
| `RunRecovery_proofs` | theorems | `RunRecovery`, `DagExecutor_proofs` |
| `CommandChannel` | `PollClient`, the agent handlers, the agent's loop | |
| `CommandChannel_proofs` | theorems | `CommandChannel` |
| `RunRegistry` | starts, cancels and deletions over shared maps, rows and containers | |
| `RunRegistry_proofs` | theorems | `RunRegistry` |
| `RunPlan` | `builder.go`, `validate.go`, `machines.go`, `state.go`, `task_*.go`: machines, phases, dependencies, commands | |
| `RunPlan_proofs` | theorems | `RunPlan` |
| `AgentScripts` | `executor.go` of the agent: each handler as steps on a machine | `RunPlan` |
| `Deployment` | a run from end to end: waves, commands, agents, crash and resumption | `AgentScripts` |
| `Deployment_proofs` | theorems | `Deployment`, `RunPlan_proofs` |
| `RunResources` | `task_infra.go`, `deploy_docker.go`, `actor.go`, `uow.go`: what a run creates and removes | `RunPlan` |
| `RunResources_proofs` | theorems | `RunResources`, `RunPlan_proofs` |
| `Sessions` | the auth and member handlers, the middleware, the client's credentials file | |
| `Sessions_proofs` | theorems | `Sessions` |
| `MC...` | instances for TLC | the module they are named after |

Definitions called "a slip in ..." are plausible errors, used by nothing in the
specifications: substituted for the definition they follow they make a property
fail, which shows that the property depends on that code.

### DagExecutor

`pc` is the main goroutine: at the top of the loop, waiting for a wave, out of
the loop (`stopped`), waiting for the teardown, returned. `gpc[n]` is the
goroutine of node `n`: executing its task, waiting to retry, between
`markDone`'s status change and the copy (`marked`), between the copy and the
write (`saving`). `snap[n]` is the copy in hand and `store` the row (empty or one
snapshot). Actions are the steps between two visible effects: `StartWave` marks
and saves, `TaskSucceeds` / `TakeSnapshot` / `WriteSnapshot` are the three parts
of `markDone`, `Retry` and `RetryCancelled` are the branches of the `select`,
`StopOnCancel`, `StopWhenIdle`, `EndWave`, `StartTeardown`, `EndTeardown` and
`Return` are `Run`. A task is its outcome, plus the outputs it records in the run
state on its way, one by one (`TaskRecords`), whether it succeeds later or not: what
it may record is `Records[n]`, what it has recorded when it succeeds `Produces[n]`,
and `Exported` is what a snapshot has of them. A save may fail when `StorageMayFail`, and
may be cut off when its context is done. A run begins fresh, or recovered from
any row that recovery may find.

`TeardownNotSkipped` says how an AlwaysRun node can end: done, failed for want of
attempts, cut short by the deadline of the teardown, or cut short by a cancel that
comes when all that it waits for is done, so that it runs in an ordinary wave. The
last is a teardown that `executor.go:165` says cannot be: it "must complete fully
regardless of cancel". The property names the case and shows that there is no
other.

### RunRecovery

Adds to the executor whether the server is up, whether it has engaged with this
run, and which machines exist. Machines come and go one by one: `DeployMachine`
creates one and, on Docker, records its ID, a new one for each container
(`Current`); `DeployFails` is an attempt that ends half-way; `RemoveMachine` is the
teardown's; `ContainerDies` takes one while the server is down. `MachinesAgree` ties
the executor's steps to them: the machines task succeeds with every machine that
this attempt has created, and the teardown only under `TeardownContent`, which on
Docker is always once a call may fail, since `dockerTeardown` never returns an error.

`Crash` takes the executor away; `Resume`, `ResumeFails`, `MarkRunFailed`,
`NothingToRecover` and `RecoveryFails` are the outcomes of `RecoverOrCleanupRuns`.
`CanRecover` is the code's: one recorded container is alive. A resumed run may thus
work on machines of which some are dead, which `server.go:776` accepts as "worth
trying"; `WorkHasMachines` promises all machines to a first run and one to a resumed
run. `ResumeFails` is an error of `RecoverRun` before there is an executor: the run
is not executed, its row stays, and its machines, taken for those of a resumed run,
are spared by the clean-up. `Cleanup` may leave any of the containers, as Docker may
refuse and nobody looks at the errors. The providers differ in constants: Docker's
container IDs are `Exported` to the row, Terraform's working directory is not.

### CommandChannel

A `Send` goes through `start`, `waiting` (for the agent's first poll), `enqueue`,
`await`; its context can end it in each. Commands are records; the ID by which
reports are matched is the agent and a counter that restarts with the server,
and the model alone knows which server issued a command. Poll handlers whose
connection broke stay behind (`dead`) and may swallow a command. The agent
executes one command at a time and reports once.

### RunRegistry

A request is what follows it until its run has ended: duplicate check, count,
registration, then the goroutine, reduced to what others can see of it (first
save, removal of an old container and creation of a new one, later saves,
teardown, last save, deferred clean-up). Each step is one access to something
shared. `cancelRun` and `deleteRun` are three steps each. IDs and tenants of all
calls are arbitrary, so that several runs can have one ID and one ID can be a
prefix of another. The executor's writes succeed here; the ones that fail are
`DagExecutor`'s subject. A run has one container, and networks are left out.

### RunPlan, AgentScripts and Deployment

`RunPlan` has no state. A configuration is a record of what decides the shape of
a run: kind, topologies, features, counts, explicit machines, script.
`ValidConfig` is `ValidateConfig`, `Phases` and `DepsOf` are `Build`,
`FillMachinesFromTopology`, `Provisioned` and `TargetsOf` say which machines there
are and which a phase addresses (before a restart from the run state, after it
from its exported form, `ExportRunState`, `ImportRunState`), and `SendMode` how its
task sends: one machine after the other up to the first error, to all and wait for
all, or to all and give up on the others at the first error.

`AgentScripts` gives each handler as a sequence of steps: install, fetch, use,
start, restart, wipe, join, and so on. `Tolerated` says which errors the handler
drops (`|| true`, an ignored return value), so that a step can fail and the
script go on; `Unseen` says which failures it may or may not see: a daemon or
`pgbouncer` that exits after its start, a YDB database node whose port the storage
node of the machine already serves, a MySQL replica that goes on looking for its
primary, a MySQL installation that failed and left its binary. `Hit` is what becomes
of a step that a fault hits; a failure that nobody sees is noted as "swallowed". What a step needs and leaves is a function of the machine and of
its environment (the first database machine, etcd's quorum, the other nodes).

`Deployment` runs these. `StartWave`, `Finish`, `Retry`, `GiveUp` and `TearDown`
are the executor; `live` and `stale` are the commands with the agents, those that a
`Send` waits for and those it has given up; `Perform` executes a handler on a
machine, with one of its steps hit by a fault or none; `BootstrapFails` and
`Refuse` are the once-only bootstrap; `EtcdHealthy` and `EtcdTimesOut` end the one
script that waits for other machines; `Resumes` is the server after a crash, or
after a panic of a task. The machines are there from the beginning, so that a row in
which their task is not done has no container either, and a resumption from it gives
the run up; the machines tasks that fail and are resumed are those of `RunResources`. `mishaps` collects what went wrong in scripts: a step
that missed what it relies on, an error that was swallowed, a repetition that a
database refuses. The error of a stale command reaches no `Send`, whatever it is:
it counts as `orphaned` only. (With two faults such a command can miss the peer it
was sent to join; its phase is executed again by the run that resumed.) `Sends` is
what a task sends before it panics: nothing. A service that runs does not die by
itself, a step that fails leaves nothing of its own, and a MySQL replica that was
configured while its primary was absent stays outside the cluster.

A handler is one action: what another machine sees of it in between is modelled
only where a script waits for it (etcd). Installs of different software commute
on a machine, so it takes them in one order. Cancellation is `DagExecutor`'s
subject, lost reports are `CommandChannel`'s; an agent does not restart here.

### RunResources

`step` is where the present infrastructure task is, `box` the container behind
each name, `known` the container IDs of the run state, `cloud` what exists in the
cloud, `tracked` what the state file in Terraform's working directory lists and
`actor` what the `Actor` in the run state knows. Every call may fail, and those
whose answer can be lost may fail with their effect. `RemoveOld`,
`CreateContainer`, `CopyEnv`, `StartContainer` are `Deploy`; `BeginApply`, `Apply`,
`ReadState`, `Rollback`, `ReadOutput` are `yandexMachines`; `DestroyTerraform` forgets
the directory whether destroy fails or not, so that `DirectoryNotFound` meets the
retry. The cloud is external: it refuses a machine or a subnet that exists. So is
Docker: it keeps a network that a running container is attached to (`Attached`),
and the teardown does not look at its answer (`RemoveNetwork`). `OutputUnreadable`
is handled by the code though Terraform always prints that output.

`row` is what the run's row has: whether a node is pending in it, whether machines
and teardown are done, and the recorded IDs, as of the last save that succeeded;
every save may be lost. `Restart` has three outcomes. `Resume` takes the run up from
its row whenever a node is pending there and one of its containers runs: behind the
machines task, or with that task again if the row does not have it as done, as after
a crash in the teardown of a run whose machines task had failed; a teardown that the
row has as done is not repeated (`SkipRemoving`). `ResumeFails` leaves the run
"stranded": not executed, and nothing removed. `CleanUp` removes by name what Docker
lets it. Containers do not die by themselves here, which they do in `RunRecovery`.

### Sessions

One user without root rights and one profile of the credentials file. A command
of the client is where it is (`at`), its copy of the profile (`mem`) and what the
handler of its request holds (`hand`); each statement of a handler is an action,
and so are the loss of an answer and a failed statement whose error the code
ignores. `since[t][l]` remembers how long ago the user last had level `l` in
tenant `t`. Ages are counted in ticks and saturate, so that time itself has no
bound; a request does not last across a tick. "rewrite" stands for the commands
that write the file for the sake of another profile. `SessionKept` excludes what
the code visibly accepts (`intact`): a statement that fails after the deletion of
the old token, an answer or a write that is lost, and a command that writes back
a copy another command has overtaken.

## 3. Runs

| Run | Question | States |
|---|---|---|
| `MCPipeline` | provisioning, an ordinary node beside it, install, workload, two AlwaysRun nodes; fresh or recovered, one retry, a cancellation anywhere: order, completeness of the teardown, rows resumable and current, result right, a cancelled run ends, refinement of `RunContract` | 120 thousand |
| `MCRecovery` | a Docker run of two machines, two crashes, unreliable storage, a Docker host that may refuse, containers that die one by one | 230 thousand |
| `MCChannel` | one call to two agents, one retry, two losses, a cancellation | 450 thousand |
| `MCChannelLive` | two tasks for one agent, a loss, a restart of the server: is success one's own, does a call return, does a cancellation release it | 210 thousand |
| `MCRegistry` | two starts, a cancel and a deletion with any tenants and IDs | 1.6 million |
| `MCDeployment` | nine configurations of all four databases, one fault (failed step, failed bootstrap, send given up, crash), two tries | 280 thousand |
| `MCResources` | Docker and Yandex Cloud, four faults, three tries: what is left behind, are there machines for all targets | 680 thousand |
| `MCSessions` | two commands, two tenants, two levels, three refresh tokens, three events | 1.5 million |
| `MCRecoveryYandex`, `MCRecoveryStaleRow`, `MCDeploymentEmpty`, `MCResourcesTiers` | where code and documentation disagree, see below | |

Why the bounds are enough. The executor's races are between two nodes of one
wave, the main goroutine and the context: every graph used has a wave of two.
One retry distinguishes first, last and retried attempts. Two crashes let a
resumed run crash again. Two machines, each created at most twice (`MaxMade`),
distinguish all, some and none of them alive and an ID of an earlier container from
the present one. `QueueCap` is 1 for the code's 8, so that stale commands
fill the queue within the tries allowed. Two losses give a lost connection for
each of two tries. Two starts suffice for every pairwise conflict of the
registry; the same module with three starts and no cancel (4.6 million states)
has no violation either. The configurations of `MCDeployment` switch every feature
on at least once (etcd and Patroni, PgBouncer, both proxies, group replication,
machines listed by hand, no machine counts, a preset without a topology) with two database machines, a first
and another, which is all the scripts distinguish; one fault at any step reaches
every retry and every resumption; a second one in the same task would fail it. At most
`MaxOrphans` machines are at work when a crash strikes, and only the runner's
bootstrap fails (`Frail`): the base packages are the same everywhere. Four faults in
`MCResources` let every attempt of a task fail and the rollback, the teardown or a
restart on top. In `MCSessions` three refresh tokens are two logins and a refresh,
or a login and two refreshes of overlapping commands; lifetimes of two ticks
distinguish fresh, about to expire and expired; two tenants distinguish one
membership from several.

In `MCChannelLive` each task has one try and one machine, so that its queue
never fills: `SendReturns` is not checked behind a full queue, `SuccessIsOwn` and
`NoRepeatNoReorder` are (`MCChannel`).

Bounds named `MaxCrashes`, `MaxMade`, `MaxRestarts`, `MaxLosses`, `MaxFaults`, `MaxOrphans`,
`MaxTokens` and `MaxEvents` are of the model; `MaxRetries`, `MaxTries`, `QueueCap`
and `MaxRuns` are the code's parameters.

Symmetry is used over agents in `MCChannel`, over requests in `MCRegistry` and
over tenants and commands in `MCSessions`, never with liveness. `MCRegistry`
switches deadlock checking off because the system really stops when all calls are
answered and all runs have ended; the other specifications have an explicit last
step, or time goes on.

### Fairness

* `DagExecutor`: goroutines that can step do, timers fire, provisioning tasks
  return, and other tasks return once their context is done. A task whose
  context is live may take for ever, since nothing in the executor bounds it.
  Nothing is assumed about cancellations.
* `RunRecovery`: a crashed server is started again, and inside it the fairness is
  that of `DagExecutor`: a task with a live context may take for ever, as a `Send`
  does whose report is lost. `ComesToRest` is therefore conditional: if the last
  executor ends or is cancelled, the run comes to rest, whatever crashes, resumed
  runs and failed writes came before. Crashes are not fair.
* `Deployment`: the executor, the tasks and the agents go on, which goroutines and
  processes do that nothing blocks, and the waits inside scripts are bounded.
  Faults are not fair. Used by `MCDeploymentEmpty` only: the run does not end
  although everything goes on.
* `CommandChannel`: goroutines, handlers and an agent that is connected make
  progress. Losses are not fair; `SendReturns` is conditional on no further
  loss, since one lost report makes a call wait until the run is cancelled.

### Where the code and its documentation disagree

Each has a run that ends in a counterexample.

* `MCRecoveryYandex`: `server.go:687` says that what cannot be recovered is
  marked failed and its resources cleaned up. Runs on Yandex Cloud have no
  container IDs and their Terraform directory is not in the row: their machines
  stay.
* `MCRecoveryStaleRow`: only a pending node makes a row incomplete, and only
  pending nodes are marked failed: a node that was running stays so in the row.
* `MCDeploymentEmpty`: `validate.go:18` says `ValidateConfig` checks a configuration
  before the graph is built. It accepts a Postgres topology whose machine counts
  are zero; the task that configures Postgres indexes an empty list
  (`task_postgres.go:44`) in a goroutine of its own, the server ends, and every
  restart resumes the run at that task.
* `MCResourcesTiers`: `cloudinit.go:18` says a machine ID is unique. The index in it
  starts again with each machine specification (`task_infra.go:124`), so that two
  groups of Picodata instances share IDs: on Docker the second deployment removes
  the first's container, on Yandex Cloud it overwrites its entry.

Four more are known and have no run of their own. A teardown reached in an
ordinary wave has the run's context and may be cancelled in it, after which the
teardown phase does not run it again, though `executor.go:165` says it must complete
regardless of cancel: `TeardownNotSkipped` names the case for that reason.
`server.go:606` says `cancelRun` verifies that the run belongs to the tenant; but `Load`
returns no error when the tenant has no such row (`run_storage.go:41`), and the cancel
function is found by the ID alone (`VerifyRun`, `FindCancel`).
`ReadyAlwaysRun` ignores dependencies among AlwaysRun nodes (`dag.go:21`); the
builder's graphs have one. `cancelledRuns` is keyed by run ID alone and never
cleared (`server.go:76`).

## 4. Proofs

`DagExecutor_proofs` assumes of the constants only `GraphAssumption` (what
`Graph.Validate` accepts: dependencies exist, no cycle) and `ExecutorAssumption`.

* `EveryNodeReached`: in such a graph some node is ready while not all are done.
* `ExecutorInv` is inductive (`InitInv`, `MainInv`, `NodeInv`, `OtherInv`). The
  properties are not, and the type invariant alone says nothing about the row:
  a copy taken before a sibling's `markDone` may be written after it, so
  `RowsFit` speaks of the row, of every copy in hand and of the present state;
  it needs `WavePhase` (the nodes of a wave had their dependencies done when it
  started, and `Done` only grows), `WaveRunning` (statuses agree with
  goroutines), `RetriesLeft` (attempts stay in bounds) and `StopReasons` (why the
  loop was left, from which the result follows).
* From it: `DependencyOrder`, `TeardownAlone`, `RowRestorable`,
  `DependenciesDurable`, `ResultSound`, `FinalRowCurrent`, `EndedStays`,
  `MustCompleteNotInterrupted`; and `RowCarriesOutputs` under
  `Exported = Outputs`, the case of Docker. `ResultSound` and `FinalRowCurrent`
  need a second invariant, `Concluded`, about what is frozen after `Return`, and
  `TeardownNotSkipped` one about the reason why a teardown was cancelled.
* `ContractImplemented`: `DagExecutor` implements `RunContract` under the mapping
  that calls a run halted once its main loop is behind. Main steps map to
  `Begin`, `Halt`, `TearDown`, `Conclude` or stuttering, node steps to `End` or
  stuttering.

`CommandChannel_proofs` assumes `ChannelAssumption` only: finitely many tasks and
agents, any targets, queue capacity, and any numbers of tries, losses and restarts.

* `ChannelTyped`, the type invariant with its bounds, that of the command counter
  included. A `Send` draws an ID once in each try of its task, and a restart sets
  the tries and the counter back together: the counter is at most the number of
  the pairs of a `Send` and a try that have drawn one (`Spent`), of which there can
  be `MaxSeq`. The argument counts, by the library's theorems on cardinality; hence
  the finite sets.

* `OwnInv`, for `SuccessIsOwn` and `TaskDoneEverywhere`: no two commands share
  counter and server (`Counted`), a command is with the agent it is addressed to
  (`Addressed`), reports under way are true (`ReportsTrue`), and an agent that has
  polled the present server holds no command and no report of an earlier one
  (`PolledHere`). The last is the reason why a counter that restarts does no
  harm: a `Send` waits for that poll before it issues its command.
  `TaskDoneEverywhere` is about the command of a task's last call on each machine,
  which nothing replaces while the task is not called again: `Resting` says that a
  `Send` is on its way only in such a call.
* `InOrder`, for `NoRepeatNoReorder`: what an agent has run, what it runs, what is
  queued and what is about to be queued is ordered, for each task and machine.
  Retries are issued by one goroutine after another, and a queue is first in first
  out, whatever its stale commands are.

`Sessions_proofs` assumes `SessionsAssumption`: any tenants, levels, commands and
lifetimes of at least a tick.

* `AccessInv`, for `AccessFollowsMembership`: every token that exists, in the file,
  with a command or in a handler, is backed: for each level it grants, the time
  since the user had that level is at most the age of the token. A tick ages both,
  a refresh reads the memberships anew.
* `SessionInv`, for `SessionKept`: a refresh token that a command has received and
  not yet written is known to no other command and not to the file (`FreshAlone`)
  and has its row (`FreshHasRow`); a command that nobody has overtaken holds the
  file's token (`CopyCurrent`). Without `FreshAlone` a logout or refresh elsewhere
  could delete the row before the file has it.

`RunRegistry_proofs` assumes `RegistryAssumption` (finitely many run IDs, every ID
a prefix of itself). `RegistryInv` adds to the checked properties `OpenRowHasRun`:
a row that is not final has a run that will save again. `NoRowLeftOpen` is not
inductive without it, since a run past its last save or one that fails before
its first does not write any more. All properties of `MCRegistry` are theorems;
so is `LimitCounts`, which no run checks any more: it follows by an
injection of the runs with IDs of their own into the entries that are counted.

`RunPlan_proofs` is about data. A fold over a sequence is, in the library, a
recursive function over sets of positions; `NatSetInduction`, `FoldExists`,
`Flattened` and `Selected` say once what such folds compute, by a least
counterexample instead of an induction theorem.

* `BuiltGraphValid`: what the builder adds is a graph that `Graph.Validate` accepts,
  whatever the configuration switches on (`Rank` descends along dependencies).
* `TeardownComesLast`: the dependencies of the teardown, done, imply that all is
  done. `WorkloadLast` is the same of `run_stroppy`.
* `ImportExport`: `ImportRunState(ExportRunState(st)) = st` for every run state.

`RunRecovery_proofs` assumes `RecoveryAssumption`, which asks of the graph what
`TeardownComesLast` proves of every graph the builder makes. `RecoveryInv` has
`ExecutorInv` for whatever row a resumed run starts from (`ExecutorFits`), the row
that `RecoverRun` reads (`RowsUsable`), and the machines (`MachinesKept`): a run that
has them keeps them until its work is over, all of them before the first crash and
one at least after it, because a run is resumed only when one is alive and only
another attempt of the machines task or the teardown, which comes last, removes any.
`RecoveryTyped`, `RowFitForRecovery`, `WorkHasMachines` and `DoneNotRepeated` follow,
for any number of machines. `RowFitForRecovery` has the hypothesis that what a node
produces is exported, the case of Docker: on Yandex Cloud it is false, which
`MCRecoveryYandex` shows the consequence of.

`RunResources_proofs` assumes `ResourcesAssumption`: any configurations that
`ValidateConfig` accepts, any numbers of attempts and faults, both providers.
`ResourcesInv` says what the deployer's, the run state's and the cloud's view of a
resource have to do with one another at each step of a task, and `RowFits` what the
row has to do with them: it knows no more than the run state, and all of it where it
says that the machines are there, so that a resumed run loses no ID that a done task
has recorded. `LeftBehind` holds even of configurations whose machines share names. `MachineForEachTarget` has the
hypothesis `DistinctRoles`, no two specifications for one role: exactly what the
groups of a Picodata topology break (`MCResourcesTiers`), and what
`TopologyRolesDistinct` proves of every other topology.

`Deployment_proofs` assumes `DeploymentAssumption`: any set of accepted
configurations with any machine counts, any numbers of attempts, faults, crashes
and commands that outlive them.

* `PhaseWork` says of each handler, for every machine, environment and fault, what
  a script leaves (`Software`, `Services`, the cluster its database belongs to), what
  it takes away (services of its own phase only), and that it misses something only
  if what its phase `Uses`, its peer, etcd's quorum or a node is not there.
* `Control` is the executor and the commands: a phase that runs or is done has its
  dependencies done (`Waves`), live commands are those of running tasks on machines
  of their phase, stale ones are on machines the present execution has not served
  (`Sent`), and a task that sends in sequence waits for one at a time (`InTurn`).
* `Served(p)` are the machines whose command has succeeded in the current execution
  of `p`, all of them once `p` is done. `Effects`: as long as no error was
  swallowed, what `p` leaves is still on every machine that `p` has served. It is
  what makes the invariant inductive: no later script, retry or leftover of a
  crash undoes it, because scripts of different phases have different services
  (`ServicesApart`) and the first machine keeps its cluster when it is configured
  again.
* `NothingMissing` needs, with `Effects`, the dependency of each phase that a script
  relies on. Its hypothesis is that a configuration with Patroni has etcd too.
  `ValidateConfig` and the builder accept one without, and Patroni then never finds
  a quorum; all presets have both.
* `WorkloadOnReadyCluster` has the hypothesis `Complete`: a list of machines has the
  database machines and proxies that its features ask for (or the database task
  panics, as in `MCDeploymentEmpty`), and group replication no machine twice. The
  property itself is about runs in which no failure was swallowed (`NoSwallowed`):
  with one, the workload may start on a cluster that is not ready, and nothing in the
  code notices.
* `FirstPassClean` is proved from `Control`, `Effects` and `FirstPass`: as long as
  there was no fault, `Smooth` holds, through a panic of the server too. What a
  script would mind on a machine (a service that runs, a directory with data) is
  only where its phase has served, in this execution (`Traces`); a task that sends in
  sequence does not come back to a machine (`InLine`); a panic comes when
  `configure_db` starts, so that the commands that outlive it are installs; and a
  task fails only for want of a machine (`Lonely`). `configure_patroni` finds etcd's quorum
  because `configure_etcd`, on which it depends, has had every vote. The theorem has
  two hypotheses: that of `NothingMissing`, and `NamedOnce`, no database machine twice
  where Patroni or MySQL replication is set up. A list of machines written by hand may
  have two specifications of database machines, and both number from 1: the second
  command to a machine then clears or starts what runs there. `TopologyNamesOnce`
  proves that no topology leads to such a list, Picodata's apart.
* `BootstrapFailureFailsRun` needs `Booted`: a machine that `install_monitor` has
  served has its base packages; it serves all machines before the workload.

### Model-checked only

`CancelTerminates`, `ComesToRest`, `SendReturns`, `CancelReleases` and the violated
`RunEnds` are liveness properties, which TLAPS does not reach. Every invariant of a
passing run is a theorem, some under hypotheses on the configurations named above,
and so is every action property of one. `RestartCleansUp` is false on Yandex Cloud
(`MCRecoveryYandex`), and on Docker whenever a removal fails. `TeardownAlone`, `EndedStays` and
`LimitCounts` are the other way round: proved, and no longer checked by a run.

## 5. Limits, and the plan

Not modelled, and why:

* Packages, presets, shares, upload, settings: single statements on rows of their
  own. `updatePackage` (`package_handlers.go:187`) writes back the file name it
  has read before and can lose that of an upload in between; nothing else
  depends on it.
* The data race on `cancelledRuns`: a process that ends, which is `Crash`.
* Containers that die while the server executes their run (`RunRecovery`) or at all
  (`RunResources`, `Deployment`): to the run such a machine is one whose agent is
  lost, which `CommandChannel` has.
* Several runs at a restart whose names are prefixes of one another; networks
  whose name contains "cloud", which the clean-up skips.
* A restart of an agent in the middle of a deployment, which ends the daemons it
  started (`executor.go:69`), and how long `ydbd` takes to be ready.
* What `cloud wait` concludes: it counts a cancelled node as pending
  (`cloud_wait.go:77`) and waits for its time limit.
* Passwords, API tokens, root users. A refresh of a user with several tenants
  yields a token without one, while the profile still names it; the client then
  fails until `use` is called again.
* The subnet of a run, a hash modulo 254 (`task_infra.go:218`), is arithmetic: two
  runs may collide whatever the interleaving.
* Rendered configuration files, sizes, metrics, logs, the web interface: text,
  arithmetic and I/O.

Next, in this order:

1. Several runs at one restart: `RunRecovery` and `RunRegistry` composed.
2. A restart of an agent in `Deployment`.
