----------------------------- MODULE RunRegistry -----------------------------
(****************************************************************************)
(* internal/domain/api/server.go: how the server starts, registers, cancels *)
(* and deletes runs while they execute.                                     *)
(*                                                                          *)
(* Every HTTP request is a goroutine of its own and so is every run.  They  *)
(* share two maps under runCancelsMu (the cancel function and the tenant of *)
(* each executing run), one map under no lock (the cancelled runs), the     *)
(* table of runs and the Docker host.  Rows are keyed by tenant and run ID; *)
(* the maps and the containers by run ID alone.  A handler is a sequence of *)
(* steps, one per access to something shared.                               *)
(*                                                                          *)
(* A run is what the others can see of it: its rows, its container, its     *)
(* entry in the maps; DagExecutor has the rest.  A run has one container.   *)
(****************************************************************************)
EXTENDS FiniteSets, Naturals

CONSTANTS
  Requests,     \* calls of runStart; each one names the run it starts
  Cancels,      \* calls of cancelRun
  Deletes,      \* calls of deleteRun
  Tenants,
  RunIds,
  PrefixOf,     \* <<a, b>>: "stroppy-agent-a-" also starts b's container name
  MaxRuns,      \* Quotas.MaxConcurrentRuns of each tenant, 0 for no limit
  None

Keys == Tenants \X RunIds

ASSUME RegistryAssumption ==
  /\ IsFiniteSet(RunIds)
  /\ PrefixOf \subseteq RunIds \X RunIds
  /\ \A a \in RunIds : <<a, a>> \in PrefixOf
  /\ MaxRuns \in [Tenants -> Nat]
  /\ None \notin Requests \cup Keys \cup Tenants

VARIABLES
  key, ckey, dkey,  \* the tenant and run ID of each call, given by the caller
  pc,         \* the progress of each start request and of its run
  runCancels, \* s.runCancels: run ID -> the run its cancel function belongs to
  runTenants, \* s.runTenants: run ID -> tenant
  flagged,    \* s.cancelledRuns
  hit,        \* runs whose cancel function cancelRun has called
  writer,     \* the run that wrote the row of a key, None if there is no row
  final,      \* keys whose row is a final one
  container,  \* run ID -> the run whose container bears its name
  known,      \* runs that have recorded the ID of their container
  cpc, held,  \* cancelRun: its progress and the cancel function in hand
  dpc         \* deleteRun: its progress

arguments == <<key, ckey, dkey>>
registry == <<runCancels, runTenants>>
rows     == <<writer, final>>
docker   == <<container, known>>
cancels  == <<cpc, held, flagged, hit>>
vars == <<arguments, pc, registry, rows, docker, cancels, dpc>>

Tenant(r) == key[r][1]
Id(r)     == key[r][2]

(* From the registration to the deferred clean-up of the goroutine.         *)
Executing == {"started", "running", "deploying", "working", "stopping", "torn",
              "finished"}
Progress == Executing \cup {"idle", "checked", "admitted", "refused", "ended"}

TypeOK ==
  /\ key \in [Requests -> Keys]
  /\ ckey \in [Cancels -> Keys]
  /\ dkey \in [Deletes -> Keys]
  /\ pc \in [Requests -> Progress]
  /\ runCancels \in [RunIds -> Requests \cup {None}]
  /\ runTenants \in [RunIds -> Tenants \cup {None}]
  /\ flagged \in SUBSET RunIds
  /\ hit \in SUBSET Requests
  /\ writer \in [Keys -> Requests \cup {None}]
  /\ final \in SUBSET Keys
  /\ container \in [RunIds -> Requests \cup {None}]
  /\ known \in SUBSET Requests
  /\ cpc \in [Cancels -> {"idle", "verified", "found", "answered"}]
  /\ held \in [Cancels -> Requests \cup {None}]
  /\ \A c \in Cancels : cpc[c] = "found" => held[c] \in Requests
  /\ dpc \in [Deletes -> {"idle", "found", "cleaned", "answered"}]

Init ==
  /\ key \in [Requests -> Keys]
  /\ ckey \in [Cancels -> Keys]
  /\ dkey \in [Deletes -> Keys]
  /\ pc = [r \in Requests |-> "idle"]
  /\ runCancels = [i \in RunIds |-> None]
  /\ runTenants = [i \in RunIds |-> None]
  /\ flagged = {}
  /\ hit = {}
  /\ writer = [k \in Keys |-> None]
  /\ final = {}
  /\ container = [i \in RunIds |-> None]
  /\ known = {}
  /\ cpc = [c \in Cancels |-> "idle"]
  /\ held = [c \in Cancels |-> None]
  /\ dpc = [d \in Deletes |-> "idle"]

----------------------------------------------------------------------------
(* runStart.                                                                *)

Goto(r, from, to) ==
  /\ pc[r] = from
  /\ pc' = [pc EXCEPT ![r] = to]

(* The other handlers' state.                                               *)
Others == UNCHANGED <<arguments, cancels, dpc>>

(* The duplicate check: a Load that fails is taken for "no such run".       *)
CheckDuplicate(r) ==
  /\ \/ Goto(r, "idle", "checked")
     \/ writer[key[r]] # None /\ Goto(r, "idle", "refused")
  /\ UNCHANGED <<registry, rows, docker>> /\ Others

RunsOf(t) == {i \in RunIds : runTenants[i] = t}

LimitReached(t) == MaxRuns[t] > 0 /\ Cardinality(RunsOf(t)) >= MaxRuns[t]

(* The count is taken under the lock, which is released before the answer.  *)
CheckLimit(r) ==
  /\ Goto(r, "checked", IF LimitReached(Tenant(r)) THEN "refused" ELSE "admitted")
  /\ UNCHANGED <<registry, rows, docker>> /\ Others

(* The run enters both maps, over an entry of its ID if there is one, and   *)
(* its goroutine starts.                                                    *)
Register(r) ==
  /\ Goto(r, "admitted", "started")
  /\ runCancels' = [runCancels EXCEPT ![Id(r)] = r]
  /\ runTenants' = [runTenants EXCEPT ![Id(r)] = Tenant(r)]
  /\ UNCHANGED <<rows, docker>> /\ Others

----------------------------------------------------------------------------
(* The goroutine of a run: App.Start, then the deferred clean-up.           *)

(* The executor's writes succeed here; DagExecutor has the ones that do not.*)
SaveRow(r, isFinal) ==
  /\ writer' = [writer EXCEPT ![key[r]] = r]
  /\ final' = IF isFinal THEN final \cup {key[r]} ELSE final \ {key[r]}

(* The configuration does not validate, or no graph can be built from it.   *)
StartFails(r) ==
  /\ Goto(r, "started", "finished")
  /\ UNCHANGED <<registry, rows, docker>> /\ Others

(* The executor's first save, before the first wave.                        *)
FirstSave(r) ==
  /\ Goto(r, "started", "running")
  /\ SaveRow(r, FALSE)
  /\ UNCHANGED <<registry, docker>> /\ Others

(* The saves of later nodes and waves, over whatever row there is.          *)
SaveAgain(r) ==
  /\ pc[r] \in {"running", "working", "torn"}
  /\ SaveRow(r, FALSE)
  /\ UNCHANGED <<pc, registry, docker>> /\ Others

(* Deploy: a container of the same name goes first.                         *)
RemoveOld(r) ==
  /\ Goto(r, "running", "deploying")
  /\ container' = [container EXCEPT ![Id(r)] = None]
  /\ UNCHANGED <<registry, rows, known>> /\ Others

(* Deploy, continued: the container is created and started and its ID       *)
(* recorded; or it is created but does not start, and nobody learns its ID; *)
(* or it is not created, as when its name has been taken meanwhile.         *)
CreateContainer(r) ==
  /\ \/ /\ container[Id(r)] = None
        /\ container' = [container EXCEPT ![Id(r)] = r]
        /\ \/ Goto(r, "deploying", "working") /\ known' = known \cup {r}
           \/ Goto(r, "deploying", "stopping") /\ UNCHANGED known
     \/ Goto(r, "deploying", "stopping") /\ UNCHANGED docker
  /\ UNCHANGED <<registry, rows>> /\ Others

(* Every task is done, or one has failed, or the context is cancelled.      *)
StopScheduling(r) ==
  /\ \/ Goto(r, "running", "stopping")
     \/ Goto(r, "working", "stopping")
  /\ UNCHANGED <<registry, rows, docker>> /\ Others

(* A slip in TearDown: the containers are found by name, as deleteRun does. *)
TearDownByName(r) ==
  /\ Goto(r, "stopping", "torn")
  /\ container' = [i \in RunIds |-> IF <<Id(r), i>> \in PrefixOf THEN None
                                    ELSE container[i]]
  /\ UNCHANGED <<registry, rows, known>> /\ Others

(* dockerTeardown removes the containers whose IDs the run has recorded and *)
(* goes on when one cannot be removed.                                      *)
TearDown(r) ==
  /\ Goto(r, "stopping", "torn")
  /\ \/ /\ r \in known /\ container[Id(r)] = r
        /\ container' = [container EXCEPT ![Id(r)] = None]
     \/ UNCHANGED container
  /\ UNCHANGED <<registry, rows, known>> /\ Others

(* A slip in FinalSave: it is skipped.                                      *)
FinalSaveSkipped(r) ==
  /\ Goto(r, "torn", "finished")
  /\ UNCHANGED <<registry, rows, docker>> /\ Others

FinalSave(r) ==
  /\ Goto(r, "torn", "finished")
  /\ SaveRow(r, TRUE)
  /\ UNCHANGED <<registry, docker>> /\ Others

(* A slip in Deregister: only the tenant's entry is deleted.                *)
DeregisterTenant(r) ==
  /\ Goto(r, "finished", "ended")
  /\ runTenants' = [runTenants EXCEPT ![Id(r)] = None]
  /\ UNCHANGED <<runCancels, rows, docker>> /\ Others

(* The deferred function deletes the entries of its ID, whosever they are.  *)
Deregister(r) ==
  /\ Goto(r, "finished", "ended")
  /\ runCancels' = [runCancels EXCEPT ![Id(r)] = None]
  /\ runTenants' = [runTenants EXCEPT ![Id(r)] = None]
  /\ UNCHANGED <<rows, docker>> /\ Others

----------------------------------------------------------------------------
(* cancelRun.  Load returns an error when the query fails, and no error     *)
(* when there is no row.                                                    *)

VerifyRun(c) ==
  /\ cpc[c] = "idle"
  /\ \E to \in {"verified", "answered"} : cpc' = [cpc EXCEPT ![c] = to]
  /\ UNCHANGED <<held, flagged, hit>>
  /\ UNCHANGED <<arguments, pc, registry, rows, docker, dpc>>

(* A slip in FindCancel: that there may be no entry is overlooked.          *)
FindCancelUnchecked(c) ==
  /\ cpc[c] = "verified"
  /\ held' = [held EXCEPT ![c] = runCancels[ckey[c][2]]]
  /\ cpc' = [cpc EXCEPT ![c] = "found"]
  /\ UNCHANGED <<flagged, hit>>
  /\ UNCHANGED <<arguments, pc, registry, rows, docker, dpc>>

(* The lookup, under the lock.                                              *)
FindCancel(c) ==
  /\ cpc[c] = "verified"
  /\ LET found == runCancels[ckey[c][2]] IN
       /\ held' = [held EXCEPT ![c] = found]
       /\ cpc' = [cpc EXCEPT ![c] = IF found = None THEN "answered" ELSE "found"]
  /\ UNCHANGED <<flagged, hit>>
  /\ UNCHANGED <<arguments, pc, registry, rows, docker, dpc>>

(* The call, outside it, and the flag.                                      *)
CancelFound(c) ==
  /\ cpc[c] = "found"
  /\ cpc' = [cpc EXCEPT ![c] = "answered"]
  /\ hit' = hit \cup {held[c]}
  /\ flagged' = flagged \cup {ckey[c][2]}
  /\ UNCHANGED held
  /\ UNCHANGED <<arguments, pc, registry, rows, docker, dpc>>

----------------------------------------------------------------------------
(* deleteRun.                                                               *)

FindRun(d) ==
  /\ dpc[d] = "idle"
  /\ \/ writer[dkey[d]] # None /\ dpc' = [dpc EXCEPT ![d] = "found"]
     \/ dpc' = [dpc EXCEPT ![d] = "answered"]
  /\ UNCHANGED <<arguments, pc, registry, rows, docker, cancels>>

(* cleanupRunResources: every container whose name starts with the run's.   *)
CleanUp(d) ==
  /\ dpc[d] = "found"
  /\ dpc' = [dpc EXCEPT ![d] = "cleaned"]
  /\ container' = [i \in RunIds |->
                     IF <<dkey[d][2], i>> \in PrefixOf THEN None
                     ELSE container[i]]
  /\ UNCHANGED <<arguments, pc, registry, rows, known, cancels>>

(* The row goes, or the statement fails.                                    *)
DeleteRow(d) ==
  /\ dpc[d] = "cleaned"
  /\ dpc' = [dpc EXCEPT ![d] = "answered"]
  /\ \/ /\ writer' = [writer EXCEPT ![dkey[d]] = None]
        /\ final' = final \ {dkey[d]}
     \/ UNCHANGED rows
  /\ UNCHANGED <<arguments, pc, registry, docker, cancels>>

----------------------------------------------------------------------------

RunStep(r) ==
  \/ StartFails(r) \/ FirstSave(r) \/ SaveAgain(r)
  \/ RemoveOld(r) \/ CreateContainer(r) \/ StopScheduling(r)
  \/ TearDown(r) \/ FinalSave(r) \/ Deregister(r)

Next ==
  \/ \E r \in Requests :
       CheckDuplicate(r) \/ CheckLimit(r) \/ Register(r) \/ RunStep(r)
  \/ \E c \in Cancels : VerifyRun(c) \/ FindCancel(c) \/ CancelFound(c)
  \/ \E d \in Deletes : FindRun(d) \/ CleanUp(d) \/ DeleteRow(d)

Spec == Init /\ [][Next]_vars

----------------------------------------------------------------------------
(* Properties.                                                              *)

(* r is the only run of its ID that has ever been registered: IDs are given *)
(* by the caller and nothing but the duplicate check keeps them apart.      *)
Sole(r) ==
  \A q \in Requests \ {r} :
    pc[q] \in Executing \cup {"ended"} => Id(q) # Id(r)

EntryOfLiveRun(i) ==
  /\ runCancels[i] = None <=> runTenants[i] = None
  /\ runCancels[i] # None => /\ pc[runCancels[i]] \in Executing
                             /\ Id(runCancels[i]) = i
                             /\ Tenant(runCancels[i]) = runTenants[i]

(* What cancelRun and the limit rely on (server.go:473, :484): an entry     *)
(* belongs to a run that is still executing, both maps have the same        *)
(* entries, and a run whose ID nobody else has used is found by its ID for  *)
(* as long as it executes.                                                  *)
RegistryTracksRuns ==
  /\ \A i \in RunIds : EntryOfLiveRun(i)
  /\ \A r \in Requests : pc[r] \in Executing /\ Sole(r) => runCancels[Id(r)] = r

SoleRuns(t) ==
  {q \in Requests : pc[q] \in Executing /\ Tenant(q) = t /\ Sole(q)}

(* The concurrency limit of runStart (server.go:457): when a request of a   *)
(* tenant passes the count, fewer runs of the tenant than the limit are     *)
(* executing under IDs of their own.  It says nothing of the requests that  *)
(* passed the count before and have yet to register.                        *)
LimitCounts ==
  [][\A r \in Requests :
       pc[r] = "checked" /\ pc'[r] = "admitted" /\ MaxRuns[Tenant(r)] > 0
         => Cardinality(SoleRuns(Tenant(r))) < MaxRuns[Tenant(r)]]_vars

(* No row is left unfinished (executor.go's last save): when nothing        *)
(* executes under its tenant and ID, the row is final, whatever runs with   *)
(* the same ID and deletions of the row came in between.                    *)
NoRowLeftOpen ==
  \A k \in Keys :
    /\ writer[k] # None
    /\ \A r \in Requests : pc[r] \in Executing => key[r] # k
    => k \in final

(* Another run's start, end or deletion never takes the container a run is  *)
(* working with (deploy_docker.go:124, server.go:652), provided that their  *)
(* IDs are not the run's own and deleted ones are no prefix of it.          *)
WorkingRunKeepsContainer ==
  \A r \in Requests :
    /\ pc[r] = "working"
    /\ Sole(r)
    /\ \A d \in Deletes :
         dpc[d] # "idle" => <<dkey[d][2], Id(r)>> \notin PrefixOf
    => container[Id(r)] = r
=============================================================================
