-------------------------- MODULE RunRegistry_proofs --------------------------
(****************************************************************************)
(* Theorems about RunRegistry, for any number of concurrent starts, cancels *)
(* and deletions of runs with any IDs in any tenants.                       *)
(****************************************************************************)
EXTENDS RunRegistry, FiniteSetTheorems, TLAPS

(* A row that is not final has a run that will save it again: the part of   *)
(* NoRowLeftOpen that a step preserves.  A run that has just been started   *)
(* may still fail without a save, one that is past its last save is done    *)
(* with the row.                                                            *)
Saving == {"running", "deploying", "working", "stopping", "torn"}

OpenRowHasRun ==
  \A k \in Keys :
    writer[k] # None /\ k \notin final
      => \E r \in Requests : pc[r] \in Saving /\ key[r] = k

RegistryInv ==
  /\ TypeOK
  /\ RegistryTracksRuns
  /\ OpenRowHasRun
  /\ WorkingRunKeepsContainer

(* The two parts of a key of the table.                                     *)
LEMMA KeyParts ==
  ASSUME TypeOK, NEW r \in Requests
  PROVE  Tenant(r) \in Tenants /\ Id(r) \in RunIds
  BY DEF TypeOK, Tenant, Id, Keys

LEMMA NoneApart ==
  None \notin Requests /\ None \notin Tenants /\ None \notin Keys
  BY RegistryAssumption

LEMMA InitEstablishes == Init => RegistryInv
<1> SUFFICES ASSUME Init PROVE RegistryInv
  OBVIOUS
<1>1. TypeOK
  BY DEF Init, TypeOK, Progress
<1>2. RegistryTracksRuns
  BY DEF Init, RegistryTracksRuns, EntryOfLiveRun, Executing
<1>3. OpenRowHasRun
  BY DEF Init, OpenRowHasRun
<1>4. WorkingRunKeepsContainer
  BY DEF Init, WorkingRunKeepsContainer
<1> QED
  BY <1>1, <1>2, <1>3, <1>4 DEF RegistryInv

----------------------------------------------------------------------------
(* Types.                                                                   *)

(* The steps of runStart keep the types.                                    *)
LEMMA StartTyped ==
  ASSUME TypeOK, NEW r \in Requests,
         CheckDuplicate(r) \/ CheckLimit(r) \/ Register(r)
  PROVE  TypeOK'
<1> USE DEF TypeOK, Others, arguments, registry, rows, docker, cancels, Goto
<1>1. CASE CheckDuplicate(r)
  BY <1>1 DEF CheckDuplicate, Progress
<1>2. CASE CheckLimit(r)
  BY <1>2 DEF CheckLimit, Progress
<1>3. CASE Register(r)
  BY <1>3, KeyParts DEF Register, Progress, Executing
<1> QED
  BY <1>1, <1>2, <1>3

(* The steps of an executing run keep the types.                            *)
LEMMA RunTyped ==
  ASSUME TypeOK, NEW r \in Requests, RunStep(r)
  PROVE  TypeOK'
<1> USE DEF TypeOK, Others, arguments, registry, rows, docker, cancels, Goto,
            Progress, Executing
<1>1. CASE StartFails(r)
  BY <1>1 DEF StartFails
<1>2. CASE FirstSave(r)
  BY <1>2 DEF FirstSave, SaveRow
<1>3. CASE SaveAgain(r)
  BY <1>3 DEF SaveAgain, SaveRow
<1>4. CASE RemoveOld(r)
  BY <1>4, KeyParts DEF RemoveOld
<1>5. CASE CreateContainer(r)
  BY <1>5, KeyParts DEF CreateContainer
<1>6. CASE StopScheduling(r)
  BY <1>6 DEF StopScheduling
<1>7. CASE TearDown(r)
  BY <1>7, KeyParts DEF TearDown
<1>8. CASE FinalSave(r)
  BY <1>8 DEF FinalSave, SaveRow
<1>9. CASE Deregister(r)
  BY <1>9, KeyParts DEF Deregister
<1> QED
  BY <1>1, <1>2, <1>3, <1>4, <1>5, <1>6, <1>7, <1>8, <1>9 DEF RunStep

(* The steps of cancelRun and deleteRun keep the types.                     *)
LEMMA CancelTyped ==
  ASSUME TypeOK, NEW c \in Cancels, VerifyRun(c) \/ FindCancel(c) \/ CancelFound(c)
  PROVE  TypeOK'
<1> USE DEF TypeOK, arguments, registry, rows, docker, cancels
<1>1. CASE VerifyRun(c)
  BY <1>1 DEF VerifyRun
<1>2. CASE FindCancel(c)
  <2>1. runCancels[ckey[c][2]] \in Requests \cup {None}
    BY DEF Keys
  <2> QED
    BY <1>2, <2>1 DEF FindCancel
<1>3. CASE CancelFound(c)
  BY <1>3 DEF CancelFound, Keys
<1> QED
  BY <1>1, <1>2, <1>3

LEMMA DeleteTyped ==
  ASSUME TypeOK, NEW d \in Deletes, FindRun(d) \/ CleanUp(d) \/ DeleteRow(d)
  PROVE  TypeOK'
<1> USE DEF TypeOK, arguments, registry, rows, docker, cancels
<1>1. CASE FindRun(d)
  BY <1>1 DEF FindRun
<1>2. CASE CleanUp(d)
  BY <1>2 DEF CleanUp
<1>3. CASE DeleteRow(d)
  BY <1>3 DEF DeleteRow
<1> QED
  BY <1>1, <1>2, <1>3

LEMMA NextTyped == RegistryInv /\ [Next]_vars => TypeOK'
<1> SUFFICES ASSUME TypeOK, [Next]_vars PROVE TypeOK'
  BY DEF RegistryInv
<1>1. CASE Next
  BY <1>1, StartTyped, RunTyped, CancelTyped, DeleteTyped DEF Next
<1>2. CASE UNCHANGED vars
  BY <1>2 DEF vars, arguments, registry, rows, docker, cancels, TypeOK
<1> QED
  BY <1>1, <1>2

----------------------------------------------------------------------------
(* What no step undoes.                                                     *)

Registered == Executing \cup {"ended"}

LEMMA ArgumentsFixed == [Next]_vars => UNCHANGED <<key, ckey, dkey>>
  BY DEF Next, RunStep, CheckDuplicate, CheckLimit, Register, StartFails,
         FirstSave, SaveAgain, RemoveOld, CreateContainer, StopScheduling,
         TearDown, FinalSave, Deregister, VerifyRun, FindCancel, CancelFound,
         FindRun, CleanUp, DeleteRow, Others, arguments, vars

(* A call of Goto moves one run.                                            *)
LEMMA GotoMoves ==
  ASSUME TypeOK, NEW r \in Requests, NEW from, NEW to, Goto(r, from, to)
  PROVE  /\ pc[r] = from
         /\ pc'[r] = to
         /\ \A q \in Requests \ {r} : pc'[q] = pc[q]
  BY DEF Goto, TypeOK

(* A run that has been registered stays so.                                 *)
LEMMA RegisteredStays ==
  ASSUME TypeOK, [Next]_vars, NEW q \in Requests, pc[q] \in Registered
  PROVE  pc'[q] \in Registered
<1> USE DEF Registered, Executing
<1>1. CASE \E r \in Requests : CheckDuplicate(r) \/ CheckLimit(r) \/ Register(r)
  BY <1>1 DEF CheckDuplicate, CheckLimit, Register, Goto, TypeOK
<1>2. CASE \E r \in Requests : RunStep(r)
  <2> PICK r \in Requests : RunStep(r)
    BY <1>2
  <2>1. CASE \E from, to \in Registered : Goto(r, from, to)
    BY <2>1 DEF Goto, TypeOK
  <2>2. CASE SaveAgain(r)
    BY <2>2 DEF SaveAgain
  <2> QED
    BY <2>1, <2>2 DEF RunStep, StartFails, FirstSave, RemoveOld,
       CreateContainer, StopScheduling, TearDown, FinalSave, Deregister
<1>3. CASE \E c \in Cancels : VerifyRun(c) \/ FindCancel(c) \/ CancelFound(c)
  BY <1>3 DEF VerifyRun, FindCancel, CancelFound
<1>4. CASE \E d \in Deletes : FindRun(d) \/ CleanUp(d) \/ DeleteRow(d)
  BY <1>4 DEF FindRun, CleanUp, DeleteRow
<1>5. CASE UNCHANGED vars
  BY <1>5 DEF vars
<1> QED
  BY <1>1, <1>2, <1>3, <1>4, <1>5 DEF Next

(* An ID once shared stays shared.                                          *)
LEMMA SoleBefore ==
  ASSUME TypeOK, [Next]_vars, NEW r \in Requests, Sole(r)'
  PROVE  Sole(r)
  BY RegisteredStays, ArgumentsFixed DEF Sole, Id, Registered

----------------------------------------------------------------------------
(* The registry.                                                            *)

(* Steps that touch neither map and move no run into or out of execution.   *)
LEMMA RegistryKept ==
  ASSUME TypeOK, RegistryTracksRuns, [Next]_vars, UNCHANGED registry,
         \A q \in Requests : pc'[q] \in Executing <=> pc[q] \in Executing
  PROVE  RegistryTracksRuns'
<1>1. UNCHANGED key
  BY ArgumentsFixed
<1>2. \A q \in Requests : Sole(q)' => Sole(q)
  BY SoleBefore
<1> QED
  BY <1>1, <1>2
  DEF RegistryTracksRuns, EntryOfLiveRun, registry, Id, Tenant, TypeOK

LEMMA RegisterTracks ==
  ASSUME TypeOK, RegistryTracksRuns, NEW r \in Requests, Register(r)
  PROVE  RegistryTracksRuns'
<1>1. [Next]_vars
  BY DEF Next
<1>2. UNCHANGED key
  BY <1>1, ArgumentsFixed
<1>3. pc'[r] = "started" /\ \A q \in Requests \ {r} : pc'[q] = pc[q]
  BY GotoMoves DEF Register
<1>4. /\ runCancels' = [runCancels EXCEPT ![Id(r)] = r]
      /\ runTenants' = [runTenants EXCEPT ![Id(r)] = Tenant(r)]
  BY DEF Register
<1>5. Id(r) \in RunIds /\ Tenant(r) \in Tenants
  BY KeyParts
<1>6. ASSUME NEW i \in RunIds
      PROVE  EntryOfLiveRun(i)'
  <2>1. CASE i = Id(r)
    <3>1. runCancels'[i] = r /\ runTenants'[i] = Tenant(r)
      BY <2>1, <1>4, <1>5 DEF TypeOK
    <3> QED
      BY <3>1, <2>1, <1>2, <1>3, <1>5, NoneApart
      DEF EntryOfLiveRun, Executing, Id, Tenant
  <2>2. CASE i # Id(r)
    <3>1. runCancels'[i] = runCancels[i] /\ runTenants'[i] = runTenants[i]
      BY <2>2, <1>4 DEF TypeOK
    <3>2. runCancels[i] # None => runCancels[i] \in Requests
      BY DEF TypeOK
    <3> QED
      BY <3>1, <3>2, <1>2, <1>3
      DEF RegistryTracksRuns, EntryOfLiveRun, Executing, Id, Tenant
  <2> QED
    BY <2>1, <2>2
<1>7. ASSUME NEW q \in Requests, pc'[q] \in Executing, Sole(q)'
      PROVE  runCancels'[Id(q)'] = q
  <2>1. CASE q = r
    BY <2>1, <1>2, <1>4, <1>5 DEF TypeOK, Id
  <2>2. CASE q # r
    <3>1. Id(r) # Id(q)
      BY <2>2, <1>2, <1>3, <1>7 DEF Sole, Executing, Id
    <3>2. Sole(q)
      BY <1>1, <1>7, SoleBefore
    <3>3. runCancels[Id(q)] = q
      BY <2>2, <1>3, <1>7, <3>2 DEF RegistryTracksRuns
    <3> QED
      BY <3>1, <3>3, <1>2, <1>4, <1>5, KeyParts DEF TypeOK, Id
  <2> QED
    BY <2>1, <2>2
<1> QED
  BY <1>6, <1>7, <1>2 DEF RegistryTracksRuns, Id

LEMMA DeregisterTracks ==
  ASSUME TypeOK, RegistryTracksRuns, NEW r \in Requests, Deregister(r)
  PROVE  RegistryTracksRuns'
<1>1. [Next]_vars
  BY DEF Next, RunStep
<1>2. UNCHANGED key
  BY <1>1, ArgumentsFixed
<1>3. /\ pc[r] = "finished"
      /\ pc'[r] = "ended"
      /\ \A q \in Requests \ {r} : pc'[q] = pc[q]
  BY GotoMoves DEF Deregister
<1>4. /\ runCancels' = [runCancels EXCEPT ![Id(r)] = None]
      /\ runTenants' = [runTenants EXCEPT ![Id(r)] = None]
  BY DEF Deregister
<1>5. Id(r) \in RunIds
  BY KeyParts
<1>6. ASSUME NEW i \in RunIds
      PROVE  EntryOfLiveRun(i)'
  <2>1. CASE i = Id(r)
    BY <2>1, <1>4, <1>5 DEF TypeOK, EntryOfLiveRun
  <2>2. CASE i # Id(r)
    <3>1. runCancels'[i] = runCancels[i] /\ runTenants'[i] = runTenants[i]
      BY <2>2, <1>4 DEF TypeOK
    <3>2. runCancels[i] # None => runCancels[i] \in Requests \ {r}
      BY <2>2 DEF TypeOK, RegistryTracksRuns, EntryOfLiveRun
    <3> QED
      BY <3>1, <3>2, <1>2, <1>3
      DEF RegistryTracksRuns, EntryOfLiveRun, Id, Tenant
  <2> QED
    BY <2>1, <2>2
<1>7. ASSUME NEW q \in Requests, pc'[q] \in Executing, Sole(q)'
      PROVE  runCancels'[Id(q)'] = q
  <2>1. q # r
    BY <1>3, <1>7 DEF Executing
  <2>2. Id(r) # Id(q)
    BY <2>1, <1>2, <1>3, <1>7 DEF Sole, Id
  <2>3. runCancels[Id(q)] = q
    BY <1>1, <1>3, <1>7, <2>1, SoleBefore DEF RegistryTracksRuns
  <2> QED
    BY <2>2, <2>3, <1>2, <1>4, <1>5, KeyParts DEF TypeOK, Id
<1> QED
  BY <1>6, <1>7, <1>2 DEF RegistryTracksRuns, Id

(* Every other step is one of those.                                        *)
LEMMA NextTracks == RegistryInv /\ [Next]_vars => RegistryTracksRuns'
<1> SUFFICES ASSUME TypeOK, RegistryTracksRuns, [Next]_vars
             PROVE  RegistryTracksRuns'
  BY DEF RegistryInv
<1> DEFINE Kept == /\ UNCHANGED registry
                   /\ \A q \in Requests : pc'[q] \in Executing <=> pc[q] \in Executing
<1>1. CASE \E r \in Requests : Register(r)
  BY <1>1, RegisterTracks
<1>2. CASE \E r \in Requests : Deregister(r)
  BY <1>2, DeregisterTracks
<1>3. ASSUME NEW r \in Requests, CheckDuplicate(r) \/ CheckLimit(r)
      PROVE  Kept
  <2>1. ASSUME NEW from, NEW to, Goto(r, from, to),
               from \notin Executing, to \notin Executing
        PROVE  \A q \in Requests : pc'[q] \in Executing <=> pc[q] \in Executing
    BY <2>1, GotoMoves
  <2>2. {"idle", "checked", "admitted", "refused"} \cap Executing = {}
    BY DEF Executing
  <2> QED
    BY <1>3, <2>1, <2>2 DEF CheckDuplicate, CheckLimit
<1>4. ASSUME NEW r \in Requests, RunStep(r), ~Deregister(r)
      PROVE  Kept
  <2>1. ASSUME NEW from \in Executing, NEW to \in Executing, Goto(r, from, to)
        PROVE  \A q \in Requests : pc'[q] \in Executing <=> pc[q] \in Executing
    BY <2>1, GotoMoves
  <2>2. UNCHANGED pc \/ \E from, to \in Executing : Goto(r, from, to)
    BY <1>4 DEF RunStep, StartFails, FirstSave, SaveAgain, RemoveOld,
       CreateContainer, StopScheduling, TearDown, FinalSave, Executing
  <2>3. UNCHANGED registry
    BY <1>4 DEF RunStep, StartFails, FirstSave, SaveAgain, RemoveOld,
       CreateContainer, StopScheduling, TearDown, FinalSave, registry
  <2> QED
    BY <2>1, <2>2, <2>3
<1>5. CASE \E c \in Cancels : VerifyRun(c) \/ FindCancel(c) \/ CancelFound(c)
  BY <1>5, RegistryKept DEF VerifyRun, FindCancel, CancelFound
<1>6. CASE \E d \in Deletes : FindRun(d) \/ CleanUp(d) \/ DeleteRow(d)
  BY <1>6, RegistryKept DEF FindRun, CleanUp, DeleteRow
<1>7. CASE UNCHANGED vars
  BY <1>7, RegistryKept DEF vars
<1>8. Kept => RegistryTracksRuns'
  BY RegistryKept
<1> QED
  BY <1>1, <1>2, <1>3, <1>4, <1>5, <1>6, <1>7, <1>8 DEF Next

----------------------------------------------------------------------------
(* The rows.                                                                *)

(* Steps that write no row and leave every run that will save one.          *)
LEMMA RowsKept ==
  ASSUME OpenRowHasRun, UNCHANGED <<rows, key>>,
         \A q \in Requests : pc[q] \in Saving => pc'[q] \in Saving
  PROVE  OpenRowHasRun'
  BY DEF OpenRowHasRun, rows

(* A save by r writes the row of its key and no other.                      *)
LEMMA SaveOpens ==
  ASSUME TypeOK, OpenRowHasRun, UNCHANGED key,
         NEW r \in Requests, NEW b \in BOOLEAN, SaveRow(r, b),
         pc'[r] \in Saving \/ b,
         \A q \in Requests \ {r} : pc'[q] = pc[q]
  PROVE  OpenRowHasRun'
<1> SUFFICES ASSUME NEW k \in Keys, writer'[k] # None, k \notin final'
             PROVE  \E q \in Requests : pc'[q] \in Saving /\ key'[q] = k
  BY DEF OpenRowHasRun
<1>1. CASE k = key[r]
  BY <1>1 DEF SaveRow
<1>2. CASE k # key[r]
  <2>1. writer[k] # None /\ k \notin final
    BY <1>2 DEF SaveRow, TypeOK
  <2>2. PICK q \in Requests : pc[q] \in Saving /\ key[q] = k
    BY <2>1 DEF OpenRowHasRun
  <2> QED
    BY <2>2, <1>2
<1> QED
  BY <1>1, <1>2

LEMMA NextOpens == RegistryInv /\ [Next]_vars => OpenRowHasRun'
<1> SUFFICES ASSUME TypeOK, OpenRowHasRun, [Next]_vars PROVE OpenRowHasRun'
  BY DEF RegistryInv
<1> DEFINE Onward == \A q \in Requests : pc[q] \in Saving => pc'[q] \in Saving
<1>1. UNCHANGED key
  BY ArgumentsFixed
<1>2. ASSUME NEW r \in Requests, FirstSave(r) \/ SaveAgain(r)
      PROVE  OpenRowHasRun'
  <2>1. CASE FirstSave(r)
    BY <2>1, <1>1, GotoMoves, SaveOpens DEF FirstSave, Saving
  <2>2. CASE SaveAgain(r)
    BY <2>2, <1>1, SaveOpens DEF SaveAgain, Saving
  <2> QED
    BY <1>2, <2>1, <2>2
<1>3. ASSUME NEW r \in Requests, FinalSave(r)
      PROVE  OpenRowHasRun'
  BY <1>3, <1>1, GotoMoves, SaveOpens DEF FinalSave
<1>4. ASSUME NEW r \in Requests,
             CheckDuplicate(r) \/ CheckLimit(r) \/ Register(r)
               \/ StartFails(r) \/ Deregister(r)
      PROVE  Onward /\ UNCHANGED rows
  <2>1. ASSUME NEW from, NEW to, Goto(r, from, to), from \notin Saving
        PROVE  Onward
    BY <2>1, GotoMoves
  <2>2. {"idle", "checked", "admitted", "started", "finished"} \cap Saving = {}
    BY DEF Saving
  <2> QED
    BY <1>4, <2>1, <2>2
    DEF CheckDuplicate, CheckLimit, Register, StartFails, Deregister, rows
<1>5. ASSUME NEW r \in Requests,
             RemoveOld(r) \/ CreateContainer(r) \/ StopScheduling(r) \/ TearDown(r)
      PROVE  Onward /\ UNCHANGED rows
  <2>1. ASSUME NEW from, NEW to \in Saving, Goto(r, from, to)
        PROVE  Onward
    BY <2>1, GotoMoves
  <2>2. \E from, to \in Saving : Goto(r, from, to)
    BY <1>5 DEF RemoveOld, CreateContainer, StopScheduling, TearDown, Saving
  <2> QED
    BY <1>5, <2>1, <2>2
    DEF RemoveOld, CreateContainer, StopScheduling, TearDown, rows
<1>6. CASE \E c \in Cancels : VerifyRun(c) \/ FindCancel(c) \/ CancelFound(c)
  BY <1>6, <1>1, RowsKept DEF VerifyRun, FindCancel, CancelFound
<1>7. ASSUME NEW d \in Deletes, DeleteRow(d) PROVE OpenRowHasRun'
  BY <1>7, <1>1 DEF DeleteRow, OpenRowHasRun, TypeOK, rows
<1>8. CASE \E d \in Deletes : FindRun(d) \/ CleanUp(d)
  BY <1>8, <1>1, RowsKept DEF FindRun, CleanUp
<1>9. CASE UNCHANGED vars
  BY <1>9, <1>1, RowsKept DEF vars
<1>10. Onward /\ UNCHANGED rows => OpenRowHasRun'
  BY <1>1, RowsKept
<1> QED
  BY <1>2, <1>3, <1>4, <1>5, <1>6, <1>7, <1>8, <1>9, <1>10 DEF Next, RunStep

----------------------------------------------------------------------------
(* The containers.                                                          *)

(* Steps that leave the containers alone and give no run a container.       *)
LEMMA ContainersKept ==
  ASSUME TypeOK, WorkingRunKeepsContainer, [Next]_vars, UNCHANGED container,
         \A q \in Requests : pc'[q] = "working" => pc[q] = "working",
         \A d \in Deletes : dpc[d] # "idle" => dpc'[d] # "idle"
  PROVE  WorkingRunKeepsContainer'
<1>1. UNCHANGED <<key, dkey>>
  BY ArgumentsFixed
<1>2. \A q \in Requests : Sole(q)' => Sole(q)
  BY SoleBefore
<1> QED
  BY <1>1, <1>2 DEF WorkingRunKeepsContainer, Id

(* Steps of a run r that change at most the container of r's ID: it is not  *)
(* the ID of another run that is sole.                                      *)
LEMMA OwnContainerChanged ==
  ASSUME TypeOK, WorkingRunKeepsContainer, [Next]_vars,
         NEW r \in Requests, pc'[r] \in Executing,
         \A q \in Requests \ {r} : pc'[q] = pc[q],
         UNCHANGED dpc,
         \A i \in RunIds \ {Id(r)} : container'[i] = container[i],
         pc'[r] = "working" => container'[Id(r)] = r
  PROVE  WorkingRunKeepsContainer'
<1> SUFFICES ASSUME NEW q \in Requests, pc'[q] = "working", Sole(q)',
                    \A d \in Deletes :
                      dpc[d] # "idle" => <<dkey[d][2], Id(q)>> \notin PrefixOf
             PROVE  container'[Id(q)] = q
  BY ArgumentsFixed DEF WorkingRunKeepsContainer, Id
<1>1. CASE q = r
  BY <1>1
<1>2. CASE q # r
  <2>1. Id(q) # Id(r)
    BY <1>2, ArgumentsFixed DEF Sole, Id
  <2>2. container[Id(q)] = q
    BY <1>2, SoleBefore DEF WorkingRunKeepsContainer
  <2> QED
    BY <2>1, <2>2, KeyParts
<1> QED
  BY <1>1, <1>2

LEMMA NextKeepsContainers == RegistryInv /\ [Next]_vars => WorkingRunKeepsContainer'
<1> SUFFICES ASSUME TypeOK, WorkingRunKeepsContainer, [Next]_vars
             PROVE  WorkingRunKeepsContainer'
  BY DEF RegistryInv
<1> DEFINE NoneStartsWork ==
             \A q \in Requests : pc'[q] = "working" => pc[q] = "working"
<1>1. ASSUME NEW r \in Requests, RemoveOld(r)
      PROVE  WorkingRunKeepsContainer'
  BY <1>1, GotoMoves, OwnContainerChanged DEF RemoveOld, Others, Executing, TypeOK
<1>2. ASSUME NEW r \in Requests, CreateContainer(r)
      PROVE  WorkingRunKeepsContainer'
  <2>1. \/ Goto(r, "deploying", "working")
        \/ Goto(r, "deploying", "stopping")
    BY <1>2 DEF CreateContainer
  <2>2. pc'[r] \in Executing /\ \A q \in Requests \ {r} : pc'[q] = pc[q]
    BY <2>1, GotoMoves DEF Executing
  <2>3. /\ \A i \in RunIds \ {Id(r)} : container'[i] = container[i]
        /\ pc'[r] = "working" => container'[Id(r)] = r
    BY <1>2, GotoMoves, KeyParts DEF CreateContainer, docker, TypeOK
  <2> QED
    BY <1>2, <2>2, <2>3, OwnContainerChanged DEF CreateContainer, Others
<1>3. ASSUME NEW r \in Requests, TearDown(r)
      PROVE  WorkingRunKeepsContainer'
  BY <1>3, GotoMoves, OwnContainerChanged DEF TearDown, Others, Executing, TypeOK
<1>4. ASSUME NEW r \in Requests,
             CheckDuplicate(r) \/ CheckLimit(r) \/ Register(r) \/ StartFails(r)
               \/ FirstSave(r) \/ SaveAgain(r) \/ StopScheduling(r)
               \/ FinalSave(r) \/ Deregister(r)
      PROVE  NoneStartsWork /\ UNCHANGED <<container, dpc>>
  <2>1. ASSUME NEW from, NEW to \in Progress \ {"working"}, Goto(r, from, to)
        PROVE  NoneStartsWork
    BY <2>1, GotoMoves
  <2>2. UNCHANGED pc
          \/ \E from \in Progress, to \in Progress \ {"working"} : Goto(r, from, to)
    BY <1>4 DEF CheckDuplicate, CheckLimit, Register, StartFails, FirstSave,
       SaveAgain, StopScheduling, FinalSave, Deregister, Progress, Executing
  <2>3. UNCHANGED <<container, dpc>>
    BY <1>4 DEF CheckDuplicate, CheckLimit, Register, StartFails, FirstSave,
       SaveAgain, StopScheduling, FinalSave, Deregister, docker, Others
  <2> QED
    BY <2>1, <2>2, <2>3
<1>5. CASE \E c \in Cancels : VerifyRun(c) \/ FindCancel(c) \/ CancelFound(c)
  BY <1>5, ContainersKept DEF VerifyRun, FindCancel, CancelFound, docker
<1>6. ASSUME NEW d \in Deletes, CleanUp(d) PROVE WorkingRunKeepsContainer'
  <2> SUFFICES ASSUME NEW q \in Requests, pc'[q] = "working", Sole(q)',
                      \A e \in Deletes :
                        dpc'[e] # "idle" => <<dkey[e][2], Id(q)>> \notin PrefixOf
               PROVE  container'[Id(q)] = q
    BY ArgumentsFixed DEF WorkingRunKeepsContainer, Id
  <2>1. /\ dpc[d] = "found" /\ dpc' = [dpc EXCEPT ![d] = "cleaned"]
        /\ container' = [i \in RunIds |->
                           IF <<dkey[d][2], i>> \in PrefixOf THEN None
                           ELSE container[i]]
        /\ UNCHANGED pc
    BY <1>6 DEF CleanUp
  <2>2. \A e \in Deletes : dpc[e] # "idle" => dpc'[e] # "idle"
    BY <2>1 DEF TypeOK
  <2>3. container[Id(q)] = q
    BY <2>1, <2>2, SoleBefore DEF WorkingRunKeepsContainer
  <2>4. <<dkey[d][2], Id(q)>> \notin PrefixOf
    BY <2>1 DEF TypeOK
  <2> QED
    BY <2>1, <2>3, <2>4, KeyParts
<1>7. ASSUME NEW d \in Deletes, FindRun(d) \/ DeleteRow(d)
      PROVE  WorkingRunKeepsContainer'
  <2>1. \A e \in Deletes : dpc[e] # "idle" => dpc'[e] # "idle"
    BY <1>7 DEF FindRun, DeleteRow, TypeOK
  <2> QED
    BY <1>7, <2>1, ContainersKept DEF FindRun, DeleteRow, docker
<1>8. CASE UNCHANGED vars
  BY <1>8, ContainersKept DEF vars, docker
<1>9. NoneStartsWork /\ UNCHANGED <<container, dpc>> => WorkingRunKeepsContainer'
  BY ContainersKept
<1> QED
  BY <1>1, <1>2, <1>3, <1>4, <1>5, <1>6, <1>7, <1>8, <1>9 DEF Next, RunStep

----------------------------------------------------------------------------
(* Theorems.                                                                *)

(* RegistryInv holds in every reachable state.                              *)
THEOREM RegistryInvHolds == Spec => []RegistryInv
<1>1. RegistryInv /\ [Next]_vars => RegistryInv'
  BY NextTyped, NextTracks, NextOpens, NextKeepsContainers DEF RegistryInv
<1> QED
  BY InitEstablishes, <1>1, PTL DEF Spec

(* Type correctness of the registry, its rows and its callers.              *)
THEOREM RegistryTyped == Spec => []TypeOK
<1>1. RegistryInv => TypeOK
  BY DEF RegistryInv
<1> QED
  BY RegistryInvHolds, <1>1, PTL

(* runStart's registration and its deferred clean-up (server.go:473, :484): *)
(* the maps hold executing runs only, agree with each other, and hold every *)
(* executing run whose ID is its own.                                       *)
THEOREM RegistryTracksRunsHolds == Spec => []RegistryTracksRuns
<1>1. RegistryInv => RegistryTracksRuns
  BY DEF RegistryInv
<1> QED
  BY RegistryInvHolds, <1>1, PTL

(* The executor's last save (executor.go:172): whatever starts and deletes  *)
(* overlap, a row that nobody executes is a final one.                      *)
THEOREM NoRowLeftOpenHolds == Spec => []NoRowLeftOpen
<1>1. RegistryInv => NoRowLeftOpen
  BY DEF RegistryInv, OpenRowHasRun, NoRowLeftOpen, Saving, Executing
<1> QED
  BY RegistryInvHolds, <1>1, PTL

(* Deploy's and deleteRun's removals by name (deploy_docker.go:124,         *)
(* server.go:664) spare the container of a run with an ID of its own.       *)
THEOREM WorkingRunKeepsContainerHolds == Spec => []WorkingRunKeepsContainer
<1>1. RegistryInv => WorkingRunKeepsContainer
  BY DEF RegistryInv
<1> QED
  BY RegistryInvHolds, <1>1, PTL

(* The runs of a tenant that execute under IDs of their own are all counted *)
(* by the loop over runTenants (server.go:461).                             *)
LEMMA SoleRunsCounted ==
  ASSUME TypeOK, RegistryTracksRuns, NEW t \in Tenants
  PROVE  /\ Cardinality(RunsOf(t)) \in Nat
         /\ Cardinality(SoleRuns(t)) \in Nat
         /\ Cardinality(SoleRuns(t)) <= Cardinality(RunsOf(t))
<1> DEFINE f == [q \in SoleRuns(t) |-> Id(q)]
<1>1. IsFiniteSet(RunsOf(t))
  BY RegistryAssumption, FS_Subset DEF RunsOf
<1>2. f \in [SoleRuns(t) -> RunsOf(t)]
  <2> SUFFICES ASSUME NEW q \in SoleRuns(t) PROVE Id(q) \in RunsOf(t)
    OBVIOUS
  <2>1. /\ q \in Requests /\ pc[q] \in Executing /\ Tenant(q) = t /\ Sole(q)
        /\ Id(q) \in RunIds
    BY KeyParts DEF SoleRuns
  <2>2. runCancels[Id(q)] = q
    BY <2>1 DEF RegistryTracksRuns
  <2>3. runTenants[Id(q)] = t
    BY <2>1, <2>2, NoneApart DEF RegistryTracksRuns, EntryOfLiveRun
  <2> QED
    BY <2>1, <2>3 DEF RunsOf
<1>3. \A p, q \in SoleRuns(t) : f[p] = f[q] => p = q
  BY DEF SoleRuns, Sole
<1>4. f \in Injection(SoleRuns(t), RunsOf(t))
  BY <1>2, <1>3 DEF Injection, IsInjective
<1>5. IsFiniteSet(SoleRuns(t)) /\ Cardinality(SoleRuns(t)) <= Cardinality(RunsOf(t))
  BY <1>1, <1>4, FS_Injection
<1> QED
  BY <1>1, <1>5, FS_CardinalityType

(* The concurrency limit (server.go:457): a request that passes the count   *)
(* finds fewer runs of its tenant than the limit.                           *)
THEOREM LimitCountsHolds == Spec => LimitCounts
<1>1. RegistryInv /\ [Next]_vars =>
        \A r \in Requests :
          pc[r] = "checked" /\ pc'[r] = "admitted" /\ MaxRuns[Tenant(r)] > 0
            => Cardinality(SoleRuns(Tenant(r))) < MaxRuns[Tenant(r)]
  <2> SUFFICES ASSUME TypeOK, RegistryTracksRuns, [Next]_vars,
                      NEW r \in Requests, pc[r] = "checked", pc'[r] = "admitted",
                      MaxRuns[Tenant(r)] > 0
               PROVE  Cardinality(SoleRuns(Tenant(r))) < MaxRuns[Tenant(r)]
    BY DEF RegistryInv
  <2>1. CheckLimit(r)
    BY DEF Next, RunStep, CheckDuplicate, CheckLimit, Register, StartFails,
       FirstSave, SaveAgain, RemoveOld, CreateContainer, StopScheduling,
       TearDown, FinalSave, Deregister, VerifyRun, FindCancel, CancelFound,
       FindRun, CleanUp, DeleteRow, Goto, TypeOK, vars
  <2>2. ~LimitReached(Tenant(r))
    BY <2>1, GotoMoves DEF CheckLimit
  <2>3. MaxRuns[Tenant(r)] \in Nat /\ Tenant(r) \in Tenants
    BY KeyParts, RegistryAssumption
  <2> QED
    BY <2>2, <2>3, SoleRunsCounted DEF LimitReached
<1> QED
  BY RegistryInvHolds, <1>1, PTL DEF Spec, LimitCounts

=============================================================================
