--------------------------- MODULE RunResources_proofs ---------------------------
(******************************************************************************)
(* Theorems about what a run leaves behind (RunResources), for every set of   *)
(* configurations, every number of attempts and every number of faults.       *)
(******************************************************************************)
EXTENDS RunResources, RunPlan_proofs, FiniteSetTheorems

(* Lemmas about the machines of a configuration.                              *)

Machine == STRING \X (Nat \ {0})

LEMMA ConfigFacts ==
  ASSUME NEW c \in Configs
  PROVE  FillMachinesFromTopology(c) \in Seq([role : STRING, count : Nat])
BY ResourcesAssumption

LEMMA TriesFacts == MaxTries \in Nat /\ MaxTries > 0 /\ MaxFaults \in Nat
BY ResourcesAssumption

LEMMA MachineIdsSeq ==
  ASSUME NEW spec \in [role : STRING, count : Nat]
  PROVE  /\ MachineIds(spec) \in Seq(Machine)
         /\ Len(MachineIds(spec)) = spec.count
BY DEF MachineIds, Machine

LEMMA OrderSeq ==
  ASSUME NEW c \in Configs
  PROVE  Order(c) \in Seq(Machine)
<1> DEFINE specs == FillMachinesFromTopology(c)
<1> DEFINE seqs == [k \in DOMAIN specs |-> MachineIds(specs[k])]
<1>1. /\ specs \in Seq([role : STRING, count : Nat])
      /\ Len(specs) \in Nat
      /\ DOMAIN specs = 1 .. Len(specs)
  BY ConfigFacts, LenProperties
<1>2. \A k \in 1 .. Len(specs) : MachineIds(specs[k]) \in Seq(Machine)
  BY <1>1, MachineIdsSeq, ElementOfSeq
<1> HIDE DEF specs
<1>3. seqs \in Seq(Seq(Machine)) /\ Len(seqs) = Len(specs)
  BY <1>1, <1>2
<1>4. Order(c) = FlattenSeq(seqs)
  BY DEF Order, specs
<1> HIDE DEF seqs
<1>5. CASE seqs = <<>>
  BY <1>4, <1>5 DEF FlattenSeq
<1>6. CASE seqs # <<>>
  <2>1. PICK f : JoinedStepByStep(f, seqs, Machine) /\ FlattenSeq(seqs) = f[Len(seqs)]
    BY <1>3, <1>6, Flattened
  <2>2. Len(seqs) \in 1 .. Len(seqs)
    BY <1>3, <1>6, EmptySeq
  <2> QED BY <1>4, <2>1, <2>2 DEF JoinedStepByStep
<1> QED BY <1>5, <1>6

LEMMA SeqOfItsMembers ==
  ASSUME NEW S, NEW s \in Seq(S)
  PROVE  s \in Seq(ToSet(s)) /\ ToSet(s) \subseteq S
BY DEF ToSet

LEMMA MembersFinite ==
  ASSUME NEW S, NEW s \in Seq(S)
  PROVE  IsFiniteSet(ToSet(s))
<1>1. Len(s) \in Nat /\ DOMAIN s = 1 .. Len(s) /\ s \in [1 .. Len(s) -> S]
  BY LenProperties
<1>2. s \in Surjection(1 .. Len(s), ToSet(s))
  BY <1>1 DEF ToSet, Surjection
<1> QED BY <1>1, <1>2, FS_Interval, FS_Surjection

LEMMA HeadAndTail ==
  ASSUME NEW S, NEW s \in Seq(S), s # <<>>
  PROVE  /\ Head(s) \in S
         /\ Tail(s) \in Seq(S)
         /\ ToSet(s) \subseteq {Head(s)} \cup ToSet(Tail(s))
         /\ Head(s) \in ToSet(s)
<1>1. Len(s) \in Nat \ {0} /\ DOMAIN s = 1 .. Len(s)
  BY EmptySeq, LenProperties
<1>2. /\ Head(s) \in S
      /\ Tail(s) \in Seq(S)
      /\ Len(Tail(s)) = Len(s) - 1
      /\ \A i \in 1 .. Len(Tail(s)) : Tail(s)[i] = s[i+1]
  BY HeadTailProperties
<1>3. DOMAIN Tail(s) = 1 .. Len(Tail(s))
  BY <1>2, LenProperties
<1>4. Head(s) = s[1]
  OBVIOUS
<1>5. ASSUME NEW i \in DOMAIN s, i # 1 PROVE s[i] \in ToSet(Tail(s))
  <2>1. i - 1 \in 1 .. Len(Tail(s)) /\ i - 1 + 1 = i
    BY <1>1, <1>2, <1>5
  <2>2. Tail(s)[i-1] = s[i]
    BY <1>2, <2>1
  <2> QED BY <1>3, <2>1, <2>2 DEF ToSet
<1> QED BY <1>1, <1>2, <1>4, <1>5 DEF ToSet

(* Every listing of a finite set without repetition has all its members.      *)
LEMMA ListingsComplete ==
  ASSUME NEW S, IsFiniteSet(S), NEW t \in SetToSeqs(S)
  PROVE  t \in Seq(S) /\ ToSet(t) = S /\ Len(t) = Cardinality(S)
<1>1. Cardinality(S) \in Nat
  BY FS_CardinalityType
<1>2. t \in [1 .. Cardinality(S) -> S]
  BY DEF SetToSeqs
<1>3. t \in Injection(1 .. Cardinality(S), S)
  BY <1>2 DEF SetToSeqs, Injection, IsInjective
<1>4. Cardinality(1 .. Cardinality(S)) = Cardinality(S)
  BY <1>1, FS_Interval
<1>5. t \in Surjection(1 .. Cardinality(S), S)
  BY <1>3, <1>4, FS_Injection
<1>6. t \in Seq(S) /\ Len(t) = Cardinality(S)
  BY <1>1, <1>2
<1> QED BY <1>2, <1>5, <1>6 DEF Surjection, ToSet

LEMMA NamesFacts ==
  ASSUME cfg \in Configs
  PROVE  /\ Order(cfg) \in Seq(Names)
         /\ IsFiniteSet(Names)
         /\ Subnet \notin Names
<1>1. Order(cfg) \in Seq(Machine)
  BY OrderSeq
<1>2. Names \subseteq Machine
  BY <1>1, SeqOfItsMembers DEF Names
<1> QED BY <1>1, <1>2, SeqOfItsMembers, MembersFinite DEF Names, Machine, Subnet
--------------------------------------------------------------------------------
(* Where a task is belongs to its phase and its provider.                     *)
StepsOf(ph, pr) ==
  CASE ph = "machines" /\ pr = "docker" -> {"begin", "deploy", "create", "copy", "start"}
    [] ph = "machines" /\ pr = "yandex" -> {"begin", "apply", "output", "rollback", "read"}
    [] ph = "teardown" /\ pr = "docker" -> {"begin", "removing"}
    [] OTHER -> {"begin"}

Control ==
  /\ tries \in 0 .. MaxTries - 1
  /\ step \in StepsOf(phase, provider)
  /\ left \in Seq(Names)
  /\ ready => phase \in {"work", "teardown", "over", "stranded"}

(* Containers have IDs that were handed out, and so do those recorded.        *)
BoxesUpTo(i) == {b \in [id : 0 .. i, up : BOOLEAN] : b.up => b.id # 0}

Boxes ==
  /\ ids \in Nat
  /\ box \in [Names -> BoxesUpTo(ids)]
  /\ known \subseteq 1 .. ids
  /\ doomed \subseteq known
  /\ net \in BOOLEAN /\ netKnown \in BOOLEAN

(* The rest of the type invariant.                                            *)
Rest ==
  /\ cfg \in Configs
  /\ provider \in {"docker", "yandex"}
  /\ phase \in {"network", "machines", "work", "teardown", "over", "stranded"}
  /\ cloud \subseteq Wanted
  /\ tracked \subseteq cloud
  /\ actor \in {"none", "present", "absent"}
  /\ targets = <<>> \/ ToSet(targets) = Names
  /\ ready \in BOOLEAN /\ torn \in BOOLEAN /\ pending \in BOOLEAN
  /\ faults \in 0 .. MaxFaults
  /\ mishaps \subseteq Mishaps

(* A provider has only resources of its own kind.                             *)
OwnKind ==
  /\ provider = "docker" => cloud = {} /\ tracked = {} /\ actor = "none"
  /\ provider = "yandex" =>
       box = [n \in Names |-> None] /\ known = {} /\ ~net /\ ~netKnown

(* While containers are deployed, those the loop has passed run and are      *)
(* recorded, and the one it is at exists from its creation on.                *)
Passed ==
  provider = "docker" /\ phase = "machines" /\ step # "begin" =>
    /\ \A n \in Names \ ToSet(left) : box[n].up /\ box[n].id \in known
    /\ step # "deploy" => left # <<>>
    /\ step \in {"copy", "start"} => box[Head(left)].id # 0

(* The run's network is recorded before its machines are deployed, and when   *)
(* the machines task has succeeded, so is every container there is.           *)
Recorded ==
  provider = "docker" =>
    /\ phase = "machines" \/ ready \/ known # {} => netKnown
    /\ ready => \A n \in Names : box[n] # None => box[n].id \in known

(* A teardown removes every container that was recorded.                      *)
Removing ==
  "remove" \notin mishaps =>
    /\ step = "removing" => \A n \in Names : box[n].id \in known => box[n].id \in doomed
    /\ phase = "over" =>
         /\ \A n \in Names : box[n].id \notin known
         /\ net => ~netKnown \/ Attached

(* The row is behind the run but not false: what it has as ready is ready.    *)
(* Where it has the teardown as done, nothing is left to resume from, unless  *)
(* a removal has failed.                                                      *)
RowFits ==
  /\ row \in Rows(ids) /\ row.known \subseteq known
  /\ row.known # {} => row.netKnown
  /\ row.ready => ready /\ row.known = known
  /\ "remove" \notin mishaps => ~torn /\ (row.tornDown => phase = "over")

(* What terraform apply has made is what its state file lists until the run   *)
(* is torn down; when nothing went wrong, nothing else is in the cloud.       *)
Applied ==
  provider = "yandex" =>
    /\ step \in {"output", "read"} => cloud = Wanted /\ tracked = Wanted
    /\ step = "read" => actor = "present"
    /\ ready /\ mishaps \cap {"destroy", "restart"} = {} =>
         IF phase = "over" THEN cloud = {} ELSE cloud = tracked /\ actor = "present"
    /\ mishaps = {} =>
         /\ cloud = {} \/ cloud = tracked
         /\ step \in {"begin", "apply"} /\ ~ready => cloud = {}
         /\ actor = "absent" => phase = "over"

ResourcesInv ==
  /\ TypeOK /\ Control /\ Boxes /\ Rest
  /\ OwnKind /\ Passed /\ Recorded /\ Removing /\ Applied /\ RowFits
--------------------------------------------------------------------------------
(* The invariant is preserved, part by part.                                  *)

LEMMA Frame ==
  ASSUME [Next]_vars
  PROVE  cfg' = cfg /\ provider' = provider /\ Names' = Names /\ Wanted' = Wanted
<1>1. cfg' = cfg /\ provider' = provider
  BY
  DEF Next, vars, WorkEnds, SkipNetwork, MakeNetwork, NetworkFails, BeginDeploying, PullFails,
      RemoveOld, CreateContainer, CreateFails, CopyEnv, StartContainer, StartFails, Deployed,
      BeginApply, Apply, ApplyFails, ReadState, Rollback, ReadOutput, OutputUnreadable,
      BeginRemoving, SkipRemoving, RemoveContainer, RemoveNetwork, SkipDestroy, DestroyTerraform,
      DirectoryNotFound, Restart, AtRest, taskVars, worldVars, stateVars, doneVars
<1> QED BY <1>1 DEF Names, Wanted

LEMMA InitResources == Init => ResourcesInv
<1> SUFFICES ASSUME Init PROVE ResourcesInv
  OBVIOUS
<1> USE DEF Init
<1>1. cfg \in Configs /\ ToSet(<<>>) = {}
  BY DEF ToSet
<1>2. tries \in 0 .. MaxTries - 1 /\ faults \in 0 .. MaxFaults
  BY TriesFacts
<1>3. None \in BoxesUpTo(0) /\ \A n \in Names : box[n] = None
  BY DEF None, BoxesUpTo
<1>4. Boxes
  BY <1>3 DEF Boxes
<1>9. NoRow \in Rows(0) /\ NoRow.known = {} /\ ~NoRow.ready /\ ~NoRow.tornDown
  BY DEF NoRow, Rows
<1>10. RowFits
  BY <1>9 DEF RowFits
<1>5. TypeOK
  <2>1. \A n \in Names : box[n].id \in 0 .. ids /\ (box[n].up => box[n].id # 0)
    BY <1>3 DEF None
  <2> QED BY <1>1, <1>2, <1>9, <2>1 DEF TypeOK
<1>8. Rest
  BY <1>1, <1>2 DEF Rest
<1>6. Control
  BY <1>2, EmptySeq DEF Control, StepsOf
<1>7. OwnKind /\ Passed /\ Recorded /\ Removing /\ Applied
  <2>1. \A n \in Names : box[n].id \notin known
    OBVIOUS
  <2> QED BY <2>1 DEF OwnKind, Passed, Recorded, Removing, Applied
<1> QED BY <1>1, <1>4, <1>5, <1>6, <1>7, <1>8, <1>10 DEF ResourcesInv

LEMMA TriesKept ==
  ASSUME Control,
         Errs \/ (\E ph : Succeeds(ph)) \/ (\E st : Goto(st)) \/ tries' = tries \/ tries' = 0
  PROVE  tries' \in 0 .. MaxTries - 1
BY TriesFacts DEF Control, Errs, Succeeds, Goto

LEMMA BoxFacts ==
  ASSUME NEW i \in Nat
  PROVE  /\ None \in BoxesUpTo(i)
         /\ BoxesUpTo(i) \subseteq BoxesUpTo(i + 1)
         /\ [id |-> i + 1, up |-> FALSE] \in BoxesUpTo(i + 1)
         /\ \A b \in BoxesUpTo(i) :
              /\ b.id \in 0 .. i
              /\ b.id # 0 => [b EXCEPT !.up = TRUE] \in BoxesUpTo(i)
<1>1. ASSUME NEW b \in BoxesUpTo(i), b.id # 0
      PROVE  [b EXCEPT !.up = TRUE] \in BoxesUpTo(i)
  <2>1. b \in [id : 0 .. i, up : BOOLEAN]
    BY DEF BoxesUpTo
  <2>2. [b EXCEPT !.up = TRUE] \in [id : 0 .. i, up : BOOLEAN]
    BY <2>1
  <2>3. [b EXCEPT !.up = TRUE].id = b.id
    BY <2>1
  <2> QED BY <1>1, <2>2, <2>3 DEF BoxesUpTo
<1>2. None \in BoxesUpTo(i) /\ [id |-> i + 1, up |-> FALSE] \in BoxesUpTo(i + 1)
  BY DEF None, BoxesUpTo
<1>3. BoxesUpTo(i) \subseteq BoxesUpTo(i + 1) /\ \A b \in BoxesUpTo(i) : b.id \in 0 .. i
  BY DEF BoxesUpTo
<1> QED BY <1>1, <1>2, <1>3

(* The container the loop is at.                                              *)
LEMMA AtHead ==
  ASSUME ResourcesInv, Deploying
  PROVE  Head(left) \in Names /\ box[Head(left)] \in BoxesUpTo(ids)
<1>1. left \in Seq(Names) /\ left # <<>>
  BY DEF ResourcesInv, Control, Deploying
<1>2. Head(left) \in Names
  BY <1>1, HeadAndTail
<1> QED BY <1>2 DEF ResourcesInv, Boxes

LEMMA CreateTyped ==
  ASSUME ResourcesInv, NEW n \in Names, Create(n), Names' = Names
  PROVE  /\ ids' \in Nat /\ known \subseteq 1 .. ids'
         /\ box' \in [Names' -> BoxesUpTo(ids')]
<1>1. ids \in Nat /\ ids' = ids + 1 /\ known \subseteq 1 .. ids
  BY DEF ResourcesInv, Boxes, Create
<1>2. box \in [Names -> BoxesUpTo(ids + 1)]
  BY <1>1, BoxFacts DEF ResourcesInv, Boxes
<1>3. box' \in [Names -> BoxesUpTo(ids + 1)]
  BY <1>1, <1>2, BoxFacts DEF Create
<1> QED BY <1>1, <1>3

LEMMA RestartFacts ==
  ASSUME Restart
  PROVE  /\ Resume \/ ResumeFails \/ CleanUp
         /\ step' = "begin" /\ tries' = 0 /\ left' = <<>> /\ doomed' = {}
         /\ UNCHANGED <<ids, cloud, tracked, actor>>
BY DEF Restart

(* What a resumed run has recorded is what its row has.                       *)
LEMMA ResumeFacts ==
  ASSUME ResourcesInv, CanRecover
  PROVE  /\ provider = "docker"
         /\ row.known # {} /\ row.known \subseteq known /\ row.netKnown = TRUE
         /\ row.ready \in BOOLEAN /\ row.tornDown \in BOOLEAN
         /\ row.ready => ready /\ row.known = known
         /\ "remove" \notin mishaps /\ row.tornDown => FALSE
<1>1. PICK n \in Names : box[n].up /\ box[n].id \in row.known
  BY DEF CanRecover
<1>2. provider = "docker"
  BY <1>1 DEF ResourcesInv, OwnKind, Rest, None
<1>3. /\ row.known # {} /\ row.known \subseteq known
      /\ row.ready \in BOOLEAN /\ row.tornDown \in BOOLEAN /\ row.netKnown \in BOOLEAN
      /\ row.netKnown
      /\ row.ready => ready /\ row.known = known
  BY <1>1 DEF ResourcesInv, RowFits, Rows
<1>4. "remove" \notin mishaps /\ row.tornDown => FALSE
  BY <1>1, <1>3 DEF ResourcesInv, RowFits, Removing
<1> QED BY <1>2, <1>3, <1>4

LEMMA CleanUpFacts ==
  ASSUME CleanUp
  PROVE  /\ phase' = "over"
         /\ UNCHANGED <<known, netKnown, targets, ready, torn, pending>>
         /\ row' \in {row, [row EXCEPT !.open = FALSE]}
         /\ \E kept \in SUBSET {n \in Names : box[n] # None}, netKept \in {FALSE, net} :
              /\ box' = [n \in Names |-> IF n \in kept THEN box[n] ELSE None]
              /\ net' = netKept
              /\ mishaps' = mishaps \cup (IF kept # {} \/ netKept THEN {"remove"} ELSE {})
                                    \cup (IF provider = "yandex" THEN {"restart"} ELSE {})
BY DEF CleanUp

LEMMA ControlNext ==
  ASSUME ResourcesInv, Next
  PROVE  Control'
<1>a. cfg' = cfg /\ provider' = provider /\ Names' = Names
  BY Frame
<1>b. Errs \/ (\E ph : Succeeds(ph)) \/ (\E st : Goto(st)) \/ tries' = tries \/ tries' = 0
        => tries' \in 0 .. MaxTries - 1
  BY TriesKept DEF ResourcesInv
<1> USE <1>a, <1>b DEF ResourcesInv, Control, TypeOK, StepsOf
<1>1. CASE WorkEnds
  BY <1>1 DEF WorkEnds, At, worldVars, stateVars, doneVars, Fault, Goto, Succeeds, Errs
<1>2. CASE SkipNetwork
  BY <1>2 DEF SkipNetwork, At, worldVars, stateVars, doneVars, Fault, Goto, Succeeds, Errs
<1>3. CASE MakeNetwork
  BY <1>3 DEF MakeNetwork, At, worldVars, stateVars, doneVars, Fault, Goto, Succeeds, Errs
<1>4. CASE NetworkFails
  BY <1>4 DEF NetworkFails, At, worldVars, stateVars, doneVars, Fault, Goto, Succeeds, Errs
<1>5. CASE BeginDeploying
  <2>1. Order(cfg) \in Seq(Names)
    BY NamesFacts
  <2> QED BY <1>5, <2>1
      DEF BeginDeploying, At, worldVars, stateVars, doneVars, Fault, Goto, Succeeds, Errs
<1>6. CASE RemoveOld
  BY <1>6 DEF RemoveOld, At, worldVars, stateVars, doneVars, Deploying, Fault, Goto, Succeeds, Errs
<1>28. CASE PullFails
  BY <1>28 DEF PullFails, At, worldVars, stateVars, doneVars, Deploying, Fault, Goto, Succeeds, Errs
<1>7. CASE CreateContainer
  BY <1>7
  DEF CreateContainer, At, worldVars, stateVars, doneVars, Deploying, Create, Fault, Goto, Succeeds,
      Errs
<1>8. CASE CreateFails
  BY <1>8
  DEF CreateFails, At, worldVars, stateVars, doneVars, Deploying, Create, Fault, Goto, Succeeds,
      Errs
<1>9. CASE CopyEnv
  BY <1>9 DEF CopyEnv, At, worldVars, stateVars, doneVars, Deploying, Fault, Goto, Succeeds, Errs
<1>10. CASE StartContainer
  BY <1>10
  DEF StartContainer, At, worldVars, stateVars, doneVars, Deploying, Fault, Goto, Succeeds, Errs
<1>11. CASE StartFails
  BY <1>11
  DEF StartFails, At, worldVars, stateVars, doneVars, Deploying, Fault, Goto, Succeeds, Errs
<1>12. CASE Deployed
  BY <1>12 DEF Deployed, At, worldVars, stateVars, doneVars, Fault, Goto, Succeeds, Errs
<1>13. CASE BeginApply
  BY <1>13
  DEF BeginApply, At, worldVars, stateVars, doneVars, CreateDir, Fault, Goto, Succeeds, Errs
<1>14. CASE Apply
  BY <1>14 DEF Apply, At, worldVars, stateVars, doneVars, Fault, Goto, Succeeds, Errs
<1>15. CASE ApplyFails
  BY <1>15 DEF ApplyFails, At, worldVars, stateVars, doneVars, Fault, Goto, Succeeds, Errs
<1>16. CASE ReadState
  BY <1>16 DEF ReadState, At, worldVars, stateVars, doneVars, Fault, Goto, Succeeds, Errs
<1>17. CASE Rollback
  BY <1>17 DEF Rollback, At, worldVars, stateVars, doneVars, Destroy, Fault, Goto, Succeeds, Errs
<1>18. CASE ReadOutput
  BY <1>18 DEF ReadOutput, At, worldVars, stateVars, doneVars, Fault, Goto, Succeeds, Errs
<1>19. CASE OutputUnreadable
  BY <1>19 DEF OutputUnreadable, At, worldVars, stateVars, doneVars, Fault, Goto, Succeeds, Errs
<1>20. CASE BeginRemoving
  BY <1>20 DEF BeginRemoving, At, worldVars, stateVars, doneVars, Fault, Goto, Succeeds, Errs
<1>29. CASE SkipRemoving
  BY <1>29 DEF SkipRemoving, At, worldVars, stateVars, doneVars, Fault, Goto, Succeeds, Errs
<1>21. CASE \E i \in doomed : RemoveContainer(i)
  BY <1>21
  DEF RemoveContainer, At, worldVars, stateVars, doneVars, HasId, Fault, Goto, Succeeds, Errs
<1>22. CASE RemoveNetwork
  BY <1>22 DEF RemoveNetwork, At, worldVars, stateVars, doneVars, Fault, Goto, Succeeds, Errs
<1>23. CASE SkipDestroy
  BY <1>23 DEF SkipDestroy, At, worldVars, stateVars, doneVars, Fault, Goto, Succeeds, Errs
<1>24. CASE DestroyTerraform
  BY <1>24
  DEF DestroyTerraform, At, worldVars, stateVars, doneVars, Destroy, Fault, Goto, Succeeds, Errs
<1>25. CASE DirectoryNotFound
  BY <1>25 DEF DirectoryNotFound, At, worldVars, stateVars, doneVars, Fault, Goto, Succeeds, Errs
<1>26. CASE Restart
  <2>1. left' \in Seq(Names)'
    BY <1>26, EmptySeq DEF Restart
  <2>2. step' \in StepsOf(phase', provider')
    BY <1>26 DEF Restart, Resume, ResumeFails, CleanUp
  <2>3. ready' => phase' \in {"work", "teardown", "over", "stranded"}
    BY <1>26 DEF Restart, Resume, ResumeFails, CleanUp
  <2>4. tries' \in 0 .. MaxTries - 1
    <3>1. tries' = 0
      BY <1>26 DEF Restart, Resume, ResumeFails, CleanUp
    <3> QED BY <3>1, <1>b
  <2> QED BY <2>1, <2>2, <2>3, <2>4
<1>27. CASE AtRest
  BY <1>27 DEF AtRest, vars, taskVars, worldVars, stateVars, doneVars
<1> HIDE DEF ResourcesInv, Control, TypeOK, StepsOf
<1> QED
  BY <1>1, <1>2, <1>3, <1>4, <1>5, <1>6, <1>7, <1>8, <1>9, <1>10, <1>11, <1>12, <1>13, <1>14, <1>15,
     <1>16, <1>17, <1>18, <1>19, <1>20, <1>21, <1>22, <1>23, <1>24, <1>25, <1>26, <1>27,
     <1>28, <1>29
  DEF Next

LEMMA BoxesNext ==
  ASSUME ResourcesInv, Next
  PROVE  Boxes'
<1>a. Names' = Names
  BY Frame
<1> USE <1>a DEF ResourcesInv, Boxes
<1>1. CASE WorkEnds
  BY <1>1 DEF WorkEnds, At, worldVars, stateVars, doneVars, Fault, Goto, Succeeds, Errs
<1>2. CASE SkipNetwork
  BY <1>2 DEF SkipNetwork, At, worldVars, stateVars, doneVars, Fault, Goto, Succeeds, Errs
<1>3. CASE MakeNetwork
  <2>1. net' \in BOOLEAN /\ netKnown' \in BOOLEAN
    BY <1>3 DEF MakeNetwork
  <2> QED BY <1>3, <2>1 DEF MakeNetwork
<1>4. CASE NetworkFails
  BY <1>4 DEF NetworkFails, At, worldVars, stateVars, doneVars, Fault, Goto, Succeeds, Errs
<1>5. CASE BeginDeploying
  BY <1>5 DEF BeginDeploying, At, worldVars, stateVars, doneVars, Fault, Goto, Succeeds, Errs
<1>6. CASE RemoveOld
  <2>1. box' \in [Names -> BoxesUpTo(ids)]
    BY <1>6, BoxFacts, AtHead DEF RemoveOld
  <2> QED BY <1>6, <2>1 DEF RemoveOld, stateVars, doneVars
<1>28. CASE PullFails
  BY <1>28 DEF PullFails, At, worldVars, stateVars, doneVars, Deploying, Fault, Goto, Succeeds, Errs
<1>7. CASE CreateContainer
  <2>1. ids' \in Nat /\ known \subseteq 1 .. ids' /\ box' \in [Names' -> BoxesUpTo(ids')]
    BY <1>7, AtHead, CreateTyped DEF CreateContainer
  <2> QED BY <1>7, <2>1 DEF CreateContainer, stateVars, doneVars
<1>8. CASE CreateFails
  <2>1. CASE Create(Head(left))
    <3>1. ids' \in Nat /\ known \subseteq 1 .. ids' /\ box' \in [Names' -> BoxesUpTo(ids')]
      BY <1>8, <2>1, AtHead, CreateTyped DEF CreateFails
    <3> QED BY <1>8, <3>1 DEF CreateFails, stateVars, doneVars
  <2>2. CASE UNCHANGED <<box, ids>>
    BY <1>8, <2>2 DEF CreateFails, stateVars, doneVars
  <2> QED BY <1>8, <2>1, <2>2 DEF CreateFails
<1>9. CASE CopyEnv
  BY <1>9 DEF CopyEnv, At, worldVars, stateVars, doneVars, Deploying, Fault, Goto, Succeeds, Errs
<1>10. CASE StartContainer
  <2>1. Deploying /\ box[Head(left)].id # 0
    BY <1>10 DEF StartContainer, Deploying, Passed
  <2>2. Head(left) \in Names /\ box[Head(left)] \in BoxesUpTo(ids)
    BY <2>1, AtHead
  <2>3. [box[Head(left)] EXCEPT !.up = TRUE] \in BoxesUpTo(ids)
    BY <2>1, <2>2, BoxFacts
  <2>4. box' \in [Names -> BoxesUpTo(ids)]
    BY <1>10, <2>2, <2>3 DEF StartContainer
  <2>5. known' \subseteq 1 .. ids
    <3>1. box[Head(left)].id \in 1 .. ids
      <4>1. ids \in Nat /\ box[Head(left)].id \in 0 .. ids
        BY <2>2 DEF BoxesUpTo
      <4> QED BY <2>1, <4>1
    <3> QED BY <1>10, <3>1 DEF StartContainer
  <2> QED BY <1>10, <2>4, <2>5 DEF StartContainer
<1>11. CASE StartFails
  <2>1. Deploying /\ box[Head(left)].id # 0
    BY <1>11 DEF StartFails, Deploying, Passed
  <2>2. Head(left) \in Names /\ box[Head(left)] \in BoxesUpTo(ids)
    BY <2>1, AtHead
  <2>3. [box[Head(left)] EXCEPT !.up = TRUE] \in BoxesUpTo(ids)
    BY <2>1, <2>2, BoxFacts
  <2>4. box' \in [Names -> BoxesUpTo(ids)]
    BY <1>11, <2>2, <2>3 DEF StartFails
  <2> QED BY <1>11, <2>4 DEF StartFails, stateVars, doneVars
<1>12. CASE Deployed
  BY <1>12 DEF Deployed, At, worldVars, stateVars, doneVars, Fault, Goto, Succeeds, Errs
<1>13. CASE BeginApply
  BY <1>13
  DEF BeginApply, At, worldVars, stateVars, doneVars, CreateDir, Fault, Goto, Succeeds, Errs
<1>14. CASE Apply
  BY <1>14 DEF Apply, At, worldVars, stateVars, doneVars, Fault, Goto, Succeeds, Errs
<1>15. CASE ApplyFails
  BY <1>15 DEF ApplyFails, At, worldVars, stateVars, doneVars, Fault, Goto, Succeeds, Errs
<1>16. CASE ReadState
  BY <1>16 DEF ReadState, At, worldVars, stateVars, doneVars, Fault, Goto, Succeeds, Errs
<1>17. CASE Rollback
  BY <1>17 DEF Rollback, At, worldVars, stateVars, doneVars, Destroy, Fault, Goto, Succeeds, Errs
<1>18. CASE ReadOutput
  BY <1>18 DEF ReadOutput, At, worldVars, stateVars, doneVars, Fault, Goto, Succeeds, Errs
<1>19. CASE OutputUnreadable
  BY <1>19 DEF OutputUnreadable, At, worldVars, stateVars, doneVars, Fault, Goto, Succeeds, Errs
<1>20. CASE BeginRemoving
  BY <1>20 DEF BeginRemoving, At, worldVars, stateVars, doneVars, Fault, Goto, Succeeds, Errs
<1>29. CASE SkipRemoving
  BY <1>29 DEF SkipRemoving, At, worldVars, stateVars, doneVars, Fault, Goto, Succeeds, Errs
<1>21. CASE \E i \in doomed : RemoveContainer(i)
  <2>1. box' \in [Names -> BoxesUpTo(ids)]
    BY <1>21, BoxFacts DEF RemoveContainer
  <2> QED BY <1>21, <2>1 DEF RemoveContainer, stateVars, doneVars
<1>22. CASE RemoveNetwork
  BY <1>22 DEF RemoveNetwork, At, worldVars, stateVars, doneVars, Fault, Goto, Succeeds, Errs
<1>23. CASE SkipDestroy
  BY <1>23 DEF SkipDestroy, At, worldVars, stateVars, doneVars, Fault, Goto, Succeeds, Errs
<1>24. CASE DestroyTerraform
  BY <1>24
  DEF DestroyTerraform, At, worldVars, stateVars, doneVars, Destroy, Fault, Goto, Succeeds, Errs
<1>25. CASE DirectoryNotFound
  BY <1>25 DEF DirectoryNotFound, At, worldVars, stateVars, doneVars, Fault, Goto, Succeeds, Errs
<1>26. CASE Restart
  <2>1. ids' = ids /\ doomed' = {} /\ (Resume \/ ResumeFails \/ CleanUp)
    BY <1>26, RestartFacts
  <2>2. CASE Resume
    <3>1. known' \subseteq 1 .. ids /\ netKnown' = TRUE /\ UNCHANGED <<box, net>>
      BY <2>2, ResumeFacts DEF Resume
    <3> QED BY <2>1, <3>1
  <2>3. CASE ResumeFails
    BY <2>1, <2>3 DEF ResumeFails
  <2>4. CASE CleanUp
    <3>1. box' \in [Names -> BoxesUpTo(ids)] /\ net' \in BOOLEAN
      BY <2>4, BoxFacts, CleanUpFacts
    <3> QED BY <2>1, <2>4, <3>1, CleanUpFacts
  <2> QED BY <2>1, <2>2, <2>3, <2>4
<1>27. CASE AtRest
  BY <1>27 DEF AtRest, vars, taskVars, worldVars, stateVars, doneVars
<1> HIDE DEF ResourcesInv, Boxes
<1> QED
  BY <1>1, <1>2, <1>3, <1>4, <1>5, <1>6, <1>7, <1>8, <1>9, <1>10, <1>11, <1>12, <1>13, <1>14, <1>15,
     <1>16, <1>17, <1>18, <1>19, <1>20, <1>21, <1>22, <1>23, <1>24, <1>25, <1>26, <1>27,
     <1>28, <1>29
  DEF Next

LEMMA FaultsKept ==
  ASSUME TypeOK, Fault \/ faults' = faults
  PROVE  faults' \in 0 .. MaxFaults
BY TriesFacts DEF TypeOK, Fault

LEMMA RestNext ==
  ASSUME ResourcesInv, Next
  PROVE  Rest'
<1>a. cfg' = cfg /\ provider' = provider /\ Names' = Names /\ Wanted' = Wanted
  BY Frame
<1>b. Fault \/ faults' = faults => faults' \in 0 .. MaxFaults
  BY FaultsKept DEF ResourcesInv
<1> USE <1>a, <1>b DEF ResourcesInv, Rest, TypeOK, Mishaps
<1>1. CASE WorkEnds
  BY <1>1 DEF WorkEnds, At, worldVars, stateVars, doneVars, Fault, Goto, Succeeds, Errs
<1>2. CASE SkipNetwork
  BY <1>2 DEF SkipNetwork, At, worldVars, stateVars, doneVars, Fault, Goto, Succeeds, Errs
<1>3. CASE MakeNetwork
  BY <1>3 DEF MakeNetwork, At, worldVars, stateVars, doneVars, Fault, Goto, Succeeds, Errs
<1>4. CASE NetworkFails
  BY <1>4 DEF NetworkFails, At, worldVars, stateVars, doneVars, Fault, Goto, Succeeds, Errs
<1>5. CASE BeginDeploying
  BY <1>5 DEF BeginDeploying, At, worldVars, stateVars, doneVars, Fault, Goto, Succeeds, Errs
<1>6. CASE RemoveOld
  BY <1>6 DEF RemoveOld, At, worldVars, stateVars, doneVars, Deploying, Fault, Goto, Succeeds, Errs
<1>28. CASE PullFails
  BY <1>28 DEF PullFails, At, worldVars, stateVars, doneVars, Deploying, Fault, Goto, Succeeds, Errs
<1>7. CASE CreateContainer
  BY <1>7
  DEF CreateContainer, At, worldVars, stateVars, doneVars, Deploying, Create, Fault, Goto, Succeeds,
      Errs
<1>8. CASE CreateFails
  BY <1>8
  DEF CreateFails, At, worldVars, stateVars, doneVars, Deploying, Create, Fault, Goto, Succeeds,
      Errs
<1>9. CASE CopyEnv
  BY <1>9 DEF CopyEnv, At, worldVars, stateVars, doneVars, Deploying, Fault, Goto, Succeeds, Errs
<1>10. CASE StartContainer
  BY <1>10
  DEF StartContainer, At, worldVars, stateVars, doneVars, Deploying, Fault, Goto, Succeeds, Errs
<1>11. CASE StartFails
  BY <1>11
  DEF StartFails, At, worldVars, stateVars, doneVars, Deploying, Fault, Goto, Succeeds, Errs
<1>12. CASE Deployed
  <2>1. targets' = Order(cfg) /\ ToSet(targets') = Names
    BY <1>12 DEF Deployed, Names
  <2> QED BY <1>12, <2>1 DEF Deployed, At, Succeeds, worldVars
<1>13. CASE BeginApply
  BY <1>13
  DEF BeginApply, At, worldVars, stateVars, doneVars, CreateDir, Fault, Goto, Succeeds, Errs
<1>14. CASE Apply
  BY <1>14 DEF Apply, At, worldVars, stateVars, doneVars, Fault, Goto, Succeeds, Errs
<1>15. CASE ApplyFails
  BY <1>15 DEF ApplyFails, At, worldVars, stateVars, doneVars, Fault, Goto, Succeeds, Errs
<1>16. CASE ReadState
  BY <1>16 DEF ReadState, At, worldVars, stateVars, doneVars, Fault, Goto, Succeeds, Errs
<1>17. CASE Rollback
  BY <1>17 DEF Rollback, At, worldVars, stateVars, doneVars, Destroy, Fault, Goto, Succeeds, Errs
<1>18. CASE ReadOutput
  <2>1. ToSet(targets') = Names
    BY <1>18, NamesFacts, ListingsComplete DEF ReadOutput
  <2> QED BY <1>18, <2>1 DEF ReadOutput, At, Succeeds, worldVars
<1>19. CASE OutputUnreadable
  BY <1>19 DEF OutputUnreadable, At, worldVars, stateVars, doneVars, Fault, Goto, Succeeds, Errs
<1>20. CASE BeginRemoving
  BY <1>20 DEF BeginRemoving, At, worldVars, stateVars, doneVars, Fault, Goto, Succeeds, Errs
<1>29. CASE SkipRemoving
  BY <1>29 DEF SkipRemoving, At, worldVars, stateVars, doneVars, Fault, Goto, Succeeds, Errs
<1>21. CASE \E i \in doomed : RemoveContainer(i)
  BY <1>21
  DEF RemoveContainer, At, worldVars, stateVars, doneVars, HasId, Fault, Goto, Succeeds, Errs
<1>22. CASE RemoveNetwork
  BY <1>22 DEF RemoveNetwork, At, worldVars, stateVars, doneVars, Fault, Goto, Succeeds, Errs
<1>23. CASE SkipDestroy
  BY <1>23 DEF SkipDestroy, At, worldVars, stateVars, doneVars, Fault, Goto, Succeeds, Errs
<1>24. CASE DestroyTerraform
  BY <1>24
  DEF DestroyTerraform, At, worldVars, stateVars, doneVars, Destroy, Fault, Goto, Succeeds, Errs
<1>25. CASE DirectoryNotFound
  BY <1>25 DEF DirectoryNotFound, At, worldVars, stateVars, doneVars, Fault, Goto, Succeeds, Errs
<1>26. CASE Restart
  <2>1. /\ Resume \/ ResumeFails \/ CleanUp
        /\ UNCHANGED <<cloud, tracked, actor>>
        /\ Fault
    BY <1>26, RestartFacts DEF Restart
  <2>2. CASE Resume
    <3>1. /\ ready' \in BOOLEAN /\ torn' \in BOOLEAN /\ UNCHANGED <<pending, mishaps>>
          /\ phase' \in {"work", "machines"}
          /\ targets' \in {targets, <<>>}
      BY <2>2, ResumeFacts DEF Resume
    <3> QED BY <2>1, <3>1
  <2>3. CASE ResumeFails
    BY <2>1, <2>3 DEF ResumeFails, doneVars
  <2>4. CASE CleanUp
    <3>1. mishaps' \subseteq Mishaps
      BY <2>4, CleanUpFacts
    <3> QED BY <2>1, <2>4, <3>1, CleanUpFacts
  <2> QED BY <2>1, <2>2, <2>3, <2>4
<1>27. CASE AtRest
  BY <1>27 DEF AtRest, vars, taskVars, worldVars, stateVars, doneVars
<1> HIDE DEF ResourcesInv, Rest, TypeOK, Mishaps
<1> QED
  BY <1>1, <1>2, <1>3, <1>4, <1>5, <1>6, <1>7, <1>8, <1>9, <1>10, <1>11, <1>12, <1>13, <1>14, <1>15,
     <1>16, <1>17, <1>18, <1>19, <1>20, <1>21, <1>22, <1>23, <1>24, <1>25, <1>26, <1>27,
     <1>28, <1>29
  DEF Next

LEMMA OwnKindNext ==
  ASSUME ResourcesInv, Next
  PROVE  OwnKind'
<1>a. cfg' = cfg /\ provider' = provider /\ Names' = Names /\ Wanted' = Wanted
  BY Frame
<1> USE <1>a DEF ResourcesInv, OwnKind, Rest, Control, StepsOf, None
<1>1. CASE WorkEnds
  BY <1>1 DEF WorkEnds, At, worldVars, stateVars, doneVars, Fault, Goto, Succeeds, Errs
<1>2. CASE SkipNetwork
  BY <1>2 DEF SkipNetwork, At, worldVars, stateVars, doneVars, Fault, Goto, Succeeds, Errs
<1>3. CASE MakeNetwork
  BY <1>3 DEF MakeNetwork, At, worldVars, stateVars, doneVars, Fault, Goto, Succeeds, Errs
<1>4. CASE NetworkFails
  BY <1>4 DEF NetworkFails, At, worldVars, stateVars, doneVars, Fault, Goto, Succeeds, Errs
<1>5. CASE BeginDeploying
  BY <1>5 DEF BeginDeploying, At, worldVars, stateVars, doneVars, Fault, Goto, Succeeds, Errs
<1>6. CASE RemoveOld
  BY <1>6 DEF RemoveOld, At, worldVars, stateVars, doneVars, Deploying, Fault, Goto, Succeeds, Errs
<1>28. CASE PullFails
  BY <1>28 DEF PullFails, At, worldVars, stateVars, doneVars, Deploying, Fault, Goto, Succeeds, Errs
<1>7. CASE CreateContainer
  BY <1>7
  DEF CreateContainer, At, worldVars, stateVars, doneVars, Deploying, Create, Fault, Goto, Succeeds,
      Errs
<1>8. CASE CreateFails
  BY <1>8
  DEF CreateFails, At, worldVars, stateVars, doneVars, Deploying, Create, Fault, Goto, Succeeds,
      Errs
<1>9. CASE CopyEnv
  BY <1>9 DEF CopyEnv, At, worldVars, stateVars, doneVars, Deploying, Fault, Goto, Succeeds, Errs
<1>10. CASE StartContainer
  BY <1>10
  DEF StartContainer, At, worldVars, stateVars, doneVars, Deploying, Fault, Goto, Succeeds, Errs
<1>11. CASE StartFails
  BY <1>11
  DEF StartFails, At, worldVars, stateVars, doneVars, Deploying, Fault, Goto, Succeeds, Errs
<1>12. CASE Deployed
  BY <1>12 DEF Deployed, At, worldVars, stateVars, doneVars, Fault, Goto, Succeeds, Errs
<1>13. CASE BeginApply
  BY <1>13
  DEF BeginApply, At, worldVars, stateVars, doneVars, CreateDir, Fault, Goto, Succeeds, Errs
<1>14. CASE Apply
  BY <1>14 DEF Apply, At, worldVars, stateVars, doneVars, Fault, Goto, Succeeds, Errs
<1>15. CASE ApplyFails
  BY <1>15 DEF ApplyFails, At, worldVars, stateVars, doneVars, Fault, Goto, Succeeds, Errs
<1>16. CASE ReadState
  BY <1>16 DEF ReadState, At, worldVars, stateVars, doneVars, Fault, Goto, Succeeds, Errs
<1>17. CASE Rollback
  BY <1>17 DEF Rollback, At, worldVars, stateVars, doneVars, Destroy, Fault, Goto, Succeeds, Errs
<1>18. CASE ReadOutput
  BY <1>18 DEF ReadOutput, At, worldVars, stateVars, doneVars, Fault, Goto, Succeeds, Errs
<1>19. CASE OutputUnreadable
  BY <1>19 DEF OutputUnreadable, At, worldVars, stateVars, doneVars, Fault, Goto, Succeeds, Errs
<1>20. CASE BeginRemoving
  BY <1>20 DEF BeginRemoving, At, worldVars, stateVars, doneVars, Fault, Goto, Succeeds, Errs
<1>29. CASE SkipRemoving
  BY <1>29 DEF SkipRemoving, At, worldVars, stateVars, doneVars, Fault, Goto, Succeeds, Errs
<1>21. CASE \E i \in doomed : RemoveContainer(i)
  BY <1>21
  DEF RemoveContainer, At, worldVars, stateVars, doneVars, HasId, Fault, Goto, Succeeds, Errs
<1>22. CASE RemoveNetwork
  BY <1>22 DEF RemoveNetwork, At, worldVars, stateVars, doneVars, Fault, Goto, Succeeds, Errs
<1>23. CASE SkipDestroy
  BY <1>23 DEF SkipDestroy, At, worldVars, stateVars, doneVars, Fault, Goto, Succeeds, Errs
<1>24. CASE DestroyTerraform
  BY <1>24
  DEF DestroyTerraform, At, worldVars, stateVars, doneVars, Destroy, Fault, Goto, Succeeds, Errs
<1>25. CASE DirectoryNotFound
  BY <1>25 DEF DirectoryNotFound, At, worldVars, stateVars, doneVars, Fault, Goto, Succeeds, Errs
<1>26. CASE Restart
  <2>1. UNCHANGED <<cloud, tracked, actor>> /\ (Resume \/ ResumeFails \/ CleanUp)
    BY <1>26, RestartFacts
  <2>2. CASE Resume \/ ResumeFails
    <3>1. provider = "docker"
      BY <2>2, ResumeFacts DEF Resume, ResumeFails
    <3> QED BY <2>1, <3>1
  <2>3. CASE CleanUp
    <3>1. PICK kept \in SUBSET {n \in Names : box[n] # None} :
            /\ box' = [n \in Names |-> IF n \in kept THEN box[n] ELSE None]
            /\ net' \in {FALSE, net}
      BY <2>3, CleanUpFacts
    <3>2. provider = "yandex" => kept = {} /\ ~net'
      BY <3>1
    <3>3. provider = "yandex" => box' = [n \in Names |-> None]
      BY <3>1, <3>2
    <3> QED BY <2>1, <2>3, <3>2, <3>3, CleanUpFacts
  <2> QED BY <2>1, <2>2, <2>3
<1>27. CASE AtRest
  BY <1>27 DEF AtRest, vars, taskVars, worldVars, stateVars, doneVars
<1> HIDE DEF ResourcesInv, OwnKind, Rest, Control, StepsOf, None
<1> QED
  BY <1>1, <1>2, <1>3, <1>4, <1>5, <1>6, <1>7, <1>8, <1>9, <1>10, <1>11, <1>12, <1>13, <1>14, <1>15,
     <1>16, <1>17, <1>18, <1>19, <1>20, <1>21, <1>22, <1>23, <1>24, <1>25, <1>26, <1>27,
     <1>28, <1>29
  DEF Next

LEMMA PassedNext ==
  ASSUME ResourcesInv, Next
  PROVE  Passed'
<1>a. cfg' = cfg /\ provider' = provider /\ Names' = Names /\ Wanted' = Wanted
  BY Frame
<1> USE <1>a DEF ResourcesInv, Passed, Rest, Control, StepsOf, None
<1>1. CASE WorkEnds
  BY <1>1 DEF WorkEnds, At, worldVars, stateVars, doneVars, Fault, Goto, Succeeds, Errs
<1>2. CASE SkipNetwork
  BY <1>2 DEF SkipNetwork, At, worldVars, stateVars, doneVars, Fault, Goto, Succeeds, Errs
<1>3. CASE MakeNetwork
  BY <1>3 DEF MakeNetwork, At, worldVars, stateVars, doneVars, Fault, Goto, Succeeds, Errs
<1>4. CASE NetworkFails
  BY <1>4 DEF NetworkFails, At, worldVars, stateVars, doneVars, Fault, Goto, Succeeds, Errs
<1>5. CASE BeginDeploying
  <2>1. step' = "deploy" /\ \A n \in Names : n \in ToSet(left')
    BY <1>5 DEF BeginDeploying, Goto, Names
  <2> QED BY <2>1
<1>6. CASE RemoveOld
  <2>1. Deploying /\ left # <<>> /\ Head(left) \in Names
    BY <1>6, AtHead DEF RemoveOld, Deploying
  <2>2. Head(left) \in ToSet(left)
    BY <2>1, HeadAndTail
  <2>3. \A n \in Names \ ToSet(left) : box[n].up /\ box[n].id \in known
    BY <1>6 DEF RemoveOld, Deploying, At
  <2>4. \A n \in Names \ ToSet(left) : box'[n] = box[n]
    BY <1>6, <2>2 DEF RemoveOld, Boxes
  <2> QED BY <1>6, <2>1, <2>3, <2>4 DEF RemoveOld, Goto, stateVars, doneVars
<1>28. CASE PullFails
  BY <1>28 DEF PullFails, At, worldVars, stateVars, doneVars, Deploying, Fault, Goto, Succeeds, Errs
<1>7. CASE CreateContainer
  <2>1. Deploying /\ left # <<>> /\ Head(left) \in Names
    BY <1>7, AtHead DEF CreateContainer, Deploying
  <2>2. Head(left) \in ToSet(left)
    BY <2>1, HeadAndTail
  <2>3. \A n \in Names \ ToSet(left) : box[n].up /\ box[n].id \in known
    BY <1>7 DEF CreateContainer, Deploying, At
  <2>4. \A n \in Names \ ToSet(left) : box'[n] = box[n]
    BY <1>7, <2>2 DEF CreateContainer, Create, Boxes
  <2>5. box'[Head(left)].id # 0
    BY <1>7, <2>1 DEF CreateContainer, Create, Boxes
  <2> QED BY <1>7, <2>1, <2>3, <2>4, <2>5 DEF CreateContainer, Goto, stateVars, doneVars
<1>8. CASE CreateFails
  BY <1>8
  DEF CreateFails, At, worldVars, stateVars, doneVars, Deploying, Create, Fault, Goto, Succeeds,
      Errs
<1>9. CASE CopyEnv
  BY <1>9 DEF CopyEnv, At, worldVars, stateVars, doneVars, Deploying, Fault, Goto, Succeeds, Errs
<1>10. CASE StartContainer
  <2>1. Deploying /\ left # <<>> /\ Head(left) \in Names
    BY <1>10, AtHead DEF StartContainer, Deploying
  <2>2. Head(left) \in ToSet(left)
    BY <2>1, HeadAndTail
  <2>3. \A n \in Names \ ToSet(left) : box[n].up /\ box[n].id \in known
    BY <1>10 DEF StartContainer, Deploying, At
  <2>4. ToSet(left) \subseteq {Head(left)} \cup ToSet(Tail(left))
    BY <2>1, HeadAndTail
  <2>5. /\ \A n \in Names : box'[n].id = box[n].id
        /\ \A n \in Names : box'[n].up <=> n = Head(left) \/ box[n].up
    <3>1. box'[Head(left)] = [box[Head(left)] EXCEPT !.up = TRUE]
      BY <1>10, <2>1 DEF StartContainer, Boxes
    <3>2. box[Head(left)] \in [id : 0 .. ids, up : BOOLEAN]
      BY <2>1 DEF Boxes, BoxesUpTo
    <3>3. box'[Head(left)].up /\ box'[Head(left)].id = box[Head(left)].id
      BY <3>1, <3>2
    <3>4. \A n \in Names \ {Head(left)} : box'[n] = box[n]
      BY <1>10, <2>1 DEF StartContainer, Boxes
    <3> QED BY <3>3, <3>4
  <2>6. known' = known \cup {box[Head(left)].id} /\ left' = Tail(left) /\ step' = "deploy"
    BY <1>10 DEF StartContainer, Goto
  <2>7. \A n \in Names \ ToSet(left') : box'[n].up /\ box'[n].id \in known'
    BY <2>3, <2>4, <2>5, <2>6
  <2> QED BY <2>6, <2>7
<1>11. CASE StartFails
  BY <1>11
  DEF StartFails, At, worldVars, stateVars, doneVars, Deploying, Fault, Goto, Succeeds, Errs
<1>12. CASE Deployed
  BY <1>12 DEF Deployed, At, worldVars, stateVars, doneVars, Fault, Goto, Succeeds, Errs
<1>13. CASE BeginApply
  BY <1>13
  DEF BeginApply, At, worldVars, stateVars, doneVars, CreateDir, Fault, Goto, Succeeds, Errs
<1>14. CASE Apply
  BY <1>14 DEF Apply, At, worldVars, stateVars, doneVars, Fault, Goto, Succeeds, Errs
<1>15. CASE ApplyFails
  BY <1>15 DEF ApplyFails, At, worldVars, stateVars, doneVars, Fault, Goto, Succeeds, Errs
<1>16. CASE ReadState
  BY <1>16 DEF ReadState, At, worldVars, stateVars, doneVars, Fault, Goto, Succeeds, Errs
<1>17. CASE Rollback
  BY <1>17 DEF Rollback, At, worldVars, stateVars, doneVars, Destroy, Fault, Goto, Succeeds, Errs
<1>18. CASE ReadOutput
  BY <1>18 DEF ReadOutput, At, worldVars, stateVars, doneVars, Fault, Goto, Succeeds, Errs
<1>19. CASE OutputUnreadable
  BY <1>19 DEF OutputUnreadable, At, worldVars, stateVars, doneVars, Fault, Goto, Succeeds, Errs
<1>20. CASE BeginRemoving
  BY <1>20 DEF BeginRemoving, At, worldVars, stateVars, doneVars, Fault, Goto, Succeeds, Errs
<1>29. CASE SkipRemoving
  BY <1>29 DEF SkipRemoving, At, worldVars, stateVars, doneVars, Fault, Goto, Succeeds, Errs
<1>21. CASE \E i \in doomed : RemoveContainer(i)
  BY <1>21
  DEF RemoveContainer, At, worldVars, stateVars, doneVars, HasId, Fault, Goto, Succeeds, Errs
<1>22. CASE RemoveNetwork
  BY <1>22 DEF RemoveNetwork, At, worldVars, stateVars, doneVars, Fault, Goto, Succeeds, Errs
<1>23. CASE SkipDestroy
  BY <1>23 DEF SkipDestroy, At, worldVars, stateVars, doneVars, Fault, Goto, Succeeds, Errs
<1>24. CASE DestroyTerraform
  BY <1>24
  DEF DestroyTerraform, At, worldVars, stateVars, doneVars, Destroy, Fault, Goto, Succeeds, Errs
<1>25. CASE DirectoryNotFound
  BY <1>25 DEF DirectoryNotFound, At, worldVars, stateVars, doneVars, Fault, Goto, Succeeds, Errs
<1>26. CASE Restart
  BY <1>26
  DEF Restart, At, worldVars, stateVars, doneVars, Resume, ResumeFails, CleanUp, Fault, Goto,
      Succeeds, Errs
<1>27. CASE AtRest
  BY <1>27 DEF AtRest, vars, taskVars, worldVars, stateVars, doneVars
<1> HIDE DEF ResourcesInv, Passed, Rest, Control, StepsOf, None
<1> QED
  BY <1>1, <1>2, <1>3, <1>4, <1>5, <1>6, <1>7, <1>8, <1>9, <1>10, <1>11, <1>12, <1>13, <1>14, <1>15,
     <1>16, <1>17, <1>18, <1>19, <1>20, <1>21, <1>22, <1>23, <1>24, <1>25, <1>26, <1>27,
     <1>28, <1>29
  DEF Next

LEMMA RecordedNext ==
  ASSUME ResourcesInv, Next
  PROVE  Recorded'
<1>a. cfg' = cfg /\ provider' = provider /\ Names' = Names /\ Wanted' = Wanted
  BY Frame
<1> USE <1>a DEF ResourcesInv, Recorded, OwnKind, Rest, Control, StepsOf
<1>1. CASE WorkEnds
  BY <1>1 DEF WorkEnds, At, worldVars, stateVars, doneVars, Fault, Goto, Succeeds, Errs
<1>2. CASE SkipNetwork
  BY <1>2 DEF SkipNetwork, At, worldVars, stateVars, doneVars, Fault, Goto, Succeeds, Errs
<1>3. CASE MakeNetwork
  BY <1>3 DEF MakeNetwork, At, worldVars, stateVars, doneVars, Fault, Goto, Succeeds, Errs
<1>4. CASE NetworkFails
  BY <1>4 DEF NetworkFails, At, worldVars, stateVars, doneVars, Fault, Goto, Succeeds, Errs
<1>5. CASE BeginDeploying
  BY <1>5 DEF BeginDeploying, At, worldVars, stateVars, doneVars, Fault, Goto, Succeeds, Errs
<1>6. CASE RemoveOld
  BY <1>6 DEF RemoveOld, At, worldVars, stateVars, doneVars, Deploying, Fault, Goto, Succeeds, Errs
<1>28. CASE PullFails
  BY <1>28 DEF PullFails, At, worldVars, stateVars, doneVars, Deploying, Fault, Goto, Succeeds, Errs
<1>7. CASE CreateContainer
  BY <1>7
  DEF CreateContainer, At, worldVars, stateVars, doneVars, Deploying, Create, Fault, Goto, Succeeds,
      Errs
<1>8. CASE CreateFails
  BY <1>8
  DEF CreateFails, At, worldVars, stateVars, doneVars, Deploying, Create, Fault, Goto, Succeeds,
      Errs
<1>9. CASE CopyEnv
  BY <1>9 DEF CopyEnv, At, worldVars, stateVars, doneVars, Deploying, Fault, Goto, Succeeds, Errs
<1>10. CASE StartContainer
  <2>1. phase = "machines" /\ netKnown' = netKnown /\ ready' = ready
    BY <1>10 DEF StartContainer, Deploying, doneVars
  <2> QED BY <2>1
<1>11. CASE StartFails
  BY <1>11
  DEF StartFails, At, worldVars, stateVars, doneVars, Deploying, Fault, Goto, Succeeds, Errs
<1>12. CASE Deployed
  <2>1. \A n \in Names : box[n].id \in known
    BY <1>12 DEF Deployed, Passed, At, ToSet
  <2>2. netKnown' /\ \A n \in Names : box'[n].id \in known'
    BY <1>12, <2>1 DEF Deployed, At, worldVars
  <2> QED BY <2>2
<1>13. CASE BeginApply
  BY <1>13
  DEF BeginApply, At, worldVars, stateVars, doneVars, CreateDir, Fault, Goto, Succeeds, Errs
<1>14. CASE Apply
  BY <1>14 DEF Apply, At, worldVars, stateVars, doneVars, Fault, Goto, Succeeds, Errs
<1>15. CASE ApplyFails
  BY <1>15 DEF ApplyFails, At, worldVars, stateVars, doneVars, Fault, Goto, Succeeds, Errs
<1>16. CASE ReadState
  BY <1>16 DEF ReadState, At, worldVars, stateVars, doneVars, Fault, Goto, Succeeds, Errs
<1>17. CASE Rollback
  BY <1>17 DEF Rollback, At, worldVars, stateVars, doneVars, Destroy, Fault, Goto, Succeeds, Errs
<1>18. CASE ReadOutput
  BY <1>18 DEF ReadOutput, At, worldVars, stateVars, doneVars, Fault, Goto, Succeeds, Errs
<1>19. CASE OutputUnreadable
  BY <1>19 DEF OutputUnreadable, At, worldVars, stateVars, doneVars, Fault, Goto, Succeeds, Errs
<1>20. CASE BeginRemoving
  BY <1>20 DEF BeginRemoving, At, worldVars, stateVars, doneVars, Fault, Goto, Succeeds, Errs
<1>29. CASE SkipRemoving
  BY <1>29 DEF SkipRemoving, At, worldVars, stateVars, doneVars, Fault, Goto, Succeeds, Errs
<1>21. CASE \E i \in doomed : RemoveContainer(i)
  BY <1>21
  DEF RemoveContainer, At, worldVars, stateVars, doneVars, HasId, Fault, Goto, Succeeds, Errs
<1>22. CASE RemoveNetwork
  BY <1>22 DEF RemoveNetwork, At, worldVars, stateVars, doneVars, Fault, Goto, Succeeds, Errs
<1>23. CASE SkipDestroy
  BY <1>23 DEF SkipDestroy, At, worldVars, stateVars, doneVars, Fault, Goto, Succeeds, Errs
<1>24. CASE DestroyTerraform
  BY <1>24
  DEF DestroyTerraform, At, worldVars, stateVars, doneVars, Destroy, Fault, Goto, Succeeds, Errs
<1>25. CASE DirectoryNotFound
  BY <1>25 DEF DirectoryNotFound, At, worldVars, stateVars, doneVars, Fault, Goto, Succeeds, Errs
<1>26. CASE Restart
  <2>1. Resume \/ ResumeFails \/ CleanUp
    BY <1>26, RestartFacts
  <2>2. CASE Resume
    <3>1. netKnown' = TRUE /\ box' = box /\ ready' = row.ready /\ known' = row.known
          /\ (row.ready => ready /\ row.known = known)
      BY <2>2, ResumeFacts DEF Resume
    <3> QED BY <3>1
  <2>3. CASE ResumeFails
    BY <2>3 DEF ResumeFails, doneVars
  <2>4. CASE CleanUp
    <3>1. \A n \in Names : box'[n] # None => box'[n] = box[n] /\ box[n] # None
      BY <2>4, CleanUpFacts
    <3>2. phase' = "over" /\ UNCHANGED <<known, netKnown, ready>>
      BY <2>4, CleanUpFacts
    <3> QED BY <3>1, <3>2
  <2> QED BY <2>1, <2>2, <2>3, <2>4
<1>27. CASE AtRest
  BY <1>27 DEF AtRest, vars, taskVars, worldVars, stateVars, doneVars
<1> HIDE DEF ResourcesInv, Recorded, OwnKind, Rest, Control, StepsOf
<1> QED
  BY <1>1, <1>2, <1>3, <1>4, <1>5, <1>6, <1>7, <1>8, <1>9, <1>10, <1>11, <1>12, <1>13, <1>14, <1>15,
     <1>16, <1>17, <1>18, <1>19, <1>20, <1>21, <1>22, <1>23, <1>24, <1>25, <1>26, <1>27,
     <1>28, <1>29
  DEF Next

LEMMA RemovingNext ==
  ASSUME ResourcesInv, Next
  PROVE  Removing'
<1>a. cfg' = cfg /\ provider' = provider /\ Names' = Names /\ Wanted' = Wanted
  BY Frame
<1> USE <1>a DEF ResourcesInv, Removing, Recorded, Rest, Control, StepsOf
<1>1. CASE WorkEnds
  BY <1>1 DEF WorkEnds, At, worldVars, stateVars, doneVars, Fault, Goto, Succeeds, Errs
<1>2. CASE SkipNetwork
  BY <1>2 DEF SkipNetwork, At, worldVars, stateVars, doneVars, Fault, Goto, Succeeds, Errs
<1>3. CASE MakeNetwork
  BY <1>3 DEF MakeNetwork, At, worldVars, stateVars, doneVars, Fault, Goto, Succeeds, Errs
<1>4. CASE NetworkFails
  <2>1. step' = "begin" /\ phase' # "over"
    BY <1>4 DEF NetworkFails, At, Errs
  <2> QED BY <2>1
<1>5. CASE BeginDeploying
  BY <1>5 DEF BeginDeploying, At, worldVars, stateVars, doneVars, Fault, Goto, Succeeds, Errs
<1>6. CASE RemoveOld
  BY <1>6 DEF RemoveOld, At, worldVars, stateVars, doneVars, Deploying, Fault, Goto, Succeeds, Errs
<1>28. CASE PullFails
  BY <1>28 DEF PullFails, At, worldVars, stateVars, doneVars, Deploying, Fault, Goto, Succeeds, Errs
<1>7. CASE CreateContainer
  BY <1>7
  DEF CreateContainer, At, worldVars, stateVars, doneVars, Deploying, Create, Fault, Goto, Succeeds,
      Errs
<1>8. CASE CreateFails
  BY <1>8
  DEF CreateFails, At, worldVars, stateVars, doneVars, Deploying, Create, Fault, Goto, Succeeds,
      Errs
<1>9. CASE CopyEnv
  BY <1>9 DEF CopyEnv, At, worldVars, stateVars, doneVars, Deploying, Fault, Goto, Succeeds, Errs
<1>10. CASE StartContainer
  BY <1>10
  DEF StartContainer, At, worldVars, stateVars, doneVars, Deploying, Fault, Goto, Succeeds, Errs
<1>11. CASE StartFails
  BY <1>11
  DEF StartFails, At, worldVars, stateVars, doneVars, Deploying, Fault, Goto, Succeeds, Errs
<1>12. CASE Deployed
  BY <1>12 DEF Deployed, At, worldVars, stateVars, doneVars, Fault, Goto, Succeeds, Errs
<1>13. CASE BeginApply
  BY <1>13
  DEF BeginApply, At, worldVars, stateVars, doneVars, CreateDir, Fault, Goto, Succeeds, Errs
<1>14. CASE Apply
  BY <1>14 DEF Apply, At, worldVars, stateVars, doneVars, Fault, Goto, Succeeds, Errs
<1>15. CASE ApplyFails
  BY <1>15 DEF ApplyFails, At, worldVars, stateVars, doneVars, Fault, Goto, Succeeds, Errs
<1>16. CASE ReadState
  BY <1>16 DEF ReadState, At, worldVars, stateVars, doneVars, Fault, Goto, Succeeds, Errs
<1>17. CASE Rollback
  BY <1>17 DEF Rollback, At, worldVars, stateVars, doneVars, Destroy, Fault, Goto, Succeeds, Errs
<1>18. CASE ReadOutput
  BY <1>18 DEF ReadOutput, At, worldVars, stateVars, doneVars, Fault, Goto, Succeeds, Errs
<1>19. CASE OutputUnreadable
  BY <1>19 DEF OutputUnreadable, At, worldVars, stateVars, doneVars, Fault, Goto, Succeeds, Errs
<1>20. CASE BeginRemoving
  BY <1>20 DEF BeginRemoving, At, worldVars, stateVars, doneVars, Fault, Goto, Succeeds, Errs
<1>29. CASE SkipRemoving
  <2>1. "remove" \in mishaps'
    BY <1>29 DEF SkipRemoving, RowFits
  <2> QED BY <2>1
<1>21. CASE \E i \in doomed : RemoveContainer(i)
  <2>1. PICK i \in doomed : RemoveContainer(i)
    BY <1>21
  <2>2. phase' # "over" /\ known' = known /\ doomed' = doomed \ {i} /\ step' = step
    BY <2>1 DEF RemoveContainer, At, stateVars, doneVars
  <2>3. CASE /\ box' = [n \in Names |-> IF n \in HasId(i) THEN None ELSE box[n]]
             /\ UNCHANGED <<faults, mishaps>>
    <3>1. i # 0 /\ 0 \notin known
      BY DEF Boxes
    <3>2. ASSUME NEW n \in Names, box'[n].id \in known PROVE box[n].id \in known \ {i}
      BY <2>3, <3>1, <3>2 DEF HasId, None
    <3>3. ASSUME NEW n \in Names, box'[n].id \in known PROVE box'[n].id = box[n].id
      BY <2>3, <3>1, <3>3 DEF HasId, None
    <3> QED BY <2>1, <2>2, <2>3, <3>2, <3>3 DEF RemoveContainer, At
  <2>4. CASE mishaps' = mishaps \cup {"remove"}
    BY <2>4
  <2> QED BY <2>1, <2>3, <2>4 DEF RemoveContainer
<1>22. CASE RemoveNetwork
  <2>1. /\ step = "removing" /\ doomed = {} /\ step' = "begin"
        /\ box' = box /\ known' = known /\ netKnown' = netKnown
    BY <1>22 DEF RemoveNetwork, At, Succeeds, stateVars
  <2>2. Attached' = Attached
    BY <2>1 DEF Attached
  <2>3. ASSUME "remove" \notin mishaps'
        PROVE  "remove" \notin mishaps /\ (net' => ~netKnown \/ Attached)
    BY <1>22, <2>3 DEF RemoveNetwork
  <2>4. ASSUME "remove" \notin mishaps', NEW n \in Names PROVE box[n].id \notin known
    BY <2>1, <2>3, <2>4
  <2> QED BY <2>1, <2>2, <2>3, <2>4
<1>23. CASE SkipDestroy
  <2>1. known' = {} /\ ~net' /\ step' = "begin"
    BY <1>23 DEF SkipDestroy, OwnKind, stateVars, doneVars, worldVars, Succeeds, Errs
  <2> QED BY <2>1
<1>24. CASE DestroyTerraform
  <2>1. known' = {} /\ ~net' /\ step' = "begin"
    BY <1>24 DEF DestroyTerraform, OwnKind, stateVars, doneVars, worldVars, Succeeds, Errs
  <2> QED BY <2>1
<1>25. CASE DirectoryNotFound
  <2>1. known' = {} /\ ~net' /\ step' = "begin"
    BY <1>25 DEF DirectoryNotFound, OwnKind, stateVars, doneVars, worldVars, Succeeds, Errs
  <2> QED BY <2>1
<1>26. CASE Restart
  <2>1. step' = "begin" /\ (Resume \/ ResumeFails \/ CleanUp)
    BY <1>26, RestartFacts
  <2>2. CASE Resume \/ ResumeFails
    <3>1. phase' # "over"
      BY <2>2 DEF Resume, ResumeFails
    <3> QED BY <2>1, <3>1
  <2>3. CASE CleanUp
    <3>1. PICK kept \in SUBSET {n \in Names : box[n] # None}, netKept \in {FALSE, net} :
            /\ box' = [n \in Names |-> IF n \in kept THEN box[n] ELSE None]
            /\ net' = netKept
            /\ mishaps' = mishaps \cup (IF kept # {} \/ netKept THEN {"remove"} ELSE {})
                                  \cup (IF provider = "yandex" THEN {"restart"} ELSE {})
      BY <2>3, CleanUpFacts
    <3>2. ASSUME "remove" \notin mishaps' PROVE kept = {} /\ ~net'
      BY <3>1, <3>2
    <3>3. 0 \notin known /\ known' = known
      BY <2>3, CleanUpFacts DEF Boxes
    <3>4. ASSUME "remove" \notin mishaps', NEW n \in Names PROVE box'[n].id = 0
      BY <3>1, <3>2, <3>4 DEF None
    <3> QED BY <2>1, <3>2, <3>3, <3>4
  <2> QED BY <2>1, <2>2, <2>3
<1>27. CASE AtRest
  <2>1. UNCHANGED <<step, phase, box, known, netKnown, doomed, net, mishaps>>
    BY <1>27 DEF AtRest, vars, taskVars, worldVars, stateVars
  <2>2. Attached' = Attached
    BY <2>1 DEF Attached
  <2> QED BY <2>1, <2>2
<1> HIDE DEF ResourcesInv, Removing, Recorded, Rest, Control, StepsOf
<1> QED
  BY <1>1, <1>2, <1>3, <1>4, <1>5, <1>6, <1>7, <1>8, <1>9, <1>10, <1>11, <1>12, <1>13, <1>14, <1>15,
     <1>16, <1>17, <1>18, <1>19, <1>20, <1>21, <1>22, <1>23, <1>24, <1>25, <1>26, <1>27,
     <1>28, <1>29
  DEF Next

LEMMA AppliedNext ==
  ASSUME ResourcesInv, Next
  PROVE  Applied'
<1>a. cfg' = cfg /\ provider' = provider /\ Names' = Names /\ Wanted' = Wanted
  BY Frame
<1> USE <1>a DEF ResourcesInv, Applied, OwnKind, Rest, Control, StepsOf
<1>1. CASE WorkEnds
  BY <1>1 DEF WorkEnds, At, worldVars, stateVars, doneVars, Fault, Goto, Succeeds, Errs
<1>2. CASE SkipNetwork
  BY <1>2 DEF SkipNetwork, At, worldVars, stateVars, doneVars, Fault, Goto, Succeeds, Errs
<1>3. CASE MakeNetwork
  BY <1>3 DEF MakeNetwork, At, worldVars, stateVars, doneVars, Fault, Goto, Succeeds, Errs
<1>4. CASE NetworkFails
  BY <1>4 DEF NetworkFails, At, worldVars, stateVars, doneVars, Fault, Goto, Succeeds, Errs
<1>5. CASE BeginDeploying
  BY <1>5 DEF BeginDeploying, At, worldVars, stateVars, doneVars, Fault, Goto, Succeeds, Errs
<1>6. CASE RemoveOld
  BY <1>6 DEF RemoveOld, At, worldVars, stateVars, doneVars, Deploying, Fault, Goto, Succeeds, Errs
<1>28. CASE PullFails
  BY <1>28 DEF PullFails, At, worldVars, stateVars, doneVars, Deploying, Fault, Goto, Succeeds, Errs
<1>7. CASE CreateContainer
  BY <1>7
  DEF CreateContainer, At, worldVars, stateVars, doneVars, Deploying, Create, Fault, Goto, Succeeds,
      Errs
<1>8. CASE CreateFails
  BY <1>8
  DEF CreateFails, At, worldVars, stateVars, doneVars, Deploying, Create, Fault, Goto, Succeeds,
      Errs
<1>9. CASE CopyEnv
  BY <1>9 DEF CopyEnv, At, worldVars, stateVars, doneVars, Deploying, Fault, Goto, Succeeds, Errs
<1>10. CASE StartContainer
  BY <1>10
  DEF StartContainer, At, worldVars, stateVars, doneVars, Deploying, Fault, Goto, Succeeds, Errs
<1>11. CASE StartFails
  BY <1>11
  DEF StartFails, At, worldVars, stateVars, doneVars, Deploying, Fault, Goto, Succeeds, Errs
<1>12. CASE Deployed
  BY <1>12 DEF Deployed, At, worldVars, stateVars, doneVars, Fault, Goto, Succeeds, Errs
<1>13. CASE BeginApply
  BY <1>13
  DEF BeginApply, At, worldVars, stateVars, doneVars, CreateDir, Fault, Goto, Succeeds, Errs
<1>14. CASE Apply
  BY <1>14 DEF Apply, At, worldVars, stateVars, doneVars, Fault, Goto, Succeeds, Errs
<1>15. CASE ApplyFails
  BY <1>15 DEF ApplyFails, At, worldVars, stateVars, doneVars, Fault, Goto, Succeeds, Errs
<1>16. CASE ReadState
  BY <1>16 DEF ReadState, At, worldVars, stateVars, doneVars, Fault, Goto, Succeeds, Errs
<1>17. CASE Rollback
  BY <1>17 DEF Rollback, At, worldVars, stateVars, doneVars, Destroy, Fault, Goto, Succeeds, Errs
<1>18. CASE ReadOutput
  BY <1>18 DEF ReadOutput, At, worldVars, stateVars, doneVars, Fault, Goto, Succeeds, Errs
<1>19. CASE OutputUnreadable
  BY <1>19 DEF OutputUnreadable, At, worldVars, stateVars, doneVars, Fault, Goto, Succeeds, Errs
<1>20. CASE BeginRemoving
  BY <1>20 DEF BeginRemoving, At, worldVars, stateVars, doneVars, Fault, Goto, Succeeds, Errs
<1>29. CASE SkipRemoving
  BY <1>29 DEF SkipRemoving, At, worldVars, stateVars, doneVars, Fault, Goto, Succeeds, Errs
<1>21. CASE \E i \in doomed : RemoveContainer(i)
  BY <1>21
  DEF RemoveContainer, At, worldVars, stateVars, doneVars, HasId, Fault, Goto, Succeeds, Errs
<1>22. CASE RemoveNetwork
  BY <1>22 DEF RemoveNetwork, At, worldVars, stateVars, doneVars, Fault, Goto, Succeeds, Errs
<1>23. CASE SkipDestroy
  BY <1>23 DEF SkipDestroy, At, worldVars, stateVars, doneVars, Fault, Goto, Succeeds, Errs
<1>24. CASE DestroyTerraform
  BY <1>24
  DEF DestroyTerraform, At, worldVars, stateVars, doneVars, Destroy, Fault, Goto, Succeeds, Errs
<1>25. CASE DirectoryNotFound
  BY <1>25 DEF DirectoryNotFound, At, worldVars, stateVars, doneVars, Fault, Goto, Succeeds, Errs
<1>26. CASE Restart
  <2>1. /\ UNCHANGED <<cloud, tracked, actor>> /\ step' = "begin"
        /\ Resume \/ ResumeFails \/ CleanUp
    BY <1>26, RestartFacts
  <2>2. CASE Resume \/ ResumeFails
    <3>1. provider = "docker"
      BY <2>2, ResumeFacts DEF Resume, ResumeFails
    <3> QED BY <3>1
  <2>3. CASE CleanUp
    <3>1. provider = "yandex" => "restart" \in mishaps'
      BY <2>3, CleanUpFacts
    <3> QED BY <2>1, <3>1
  <2> QED BY <2>1, <2>2, <2>3
<1>27. CASE AtRest
  BY <1>27 DEF AtRest, vars, taskVars, worldVars, stateVars, doneVars
<1> HIDE DEF ResourcesInv, Applied, OwnKind, Rest, Control, StepsOf
<1> QED
  BY <1>1, <1>2, <1>3, <1>4, <1>5, <1>6, <1>7, <1>8, <1>9, <1>10, <1>11, <1>12, <1>13, <1>14, <1>15,
     <1>16, <1>17, <1>18, <1>19, <1>20, <1>21, <1>22, <1>23, <1>24, <1>25, <1>26, <1>27,
     <1>28, <1>29
  DEF Next

LEMMA RowNext ==
  ASSUME ResourcesInv, Next
  PROVE  RowFits'
<1>1. /\ row \in [open : BOOLEAN, ready : BOOLEAN, tornDown : BOOLEAN,
                  known : SUBSET (1 .. ids), netKnown : BOOLEAN]
      /\ row.known \subseteq known
      /\ row.known # {} => row.netKnown
      /\ row.ready => ready /\ row.known = known
      /\ "remove" \notin mishaps => ~torn /\ (row.tornDown => phase = "over")
      /\ ids \in Nat /\ known \subseteq 1 .. ids /\ netKnown \in BOOLEAN
      /\ ready \in BOOLEAN /\ torn \in BOOLEAN /\ pending \in BOOLEAN
  BY DEF ResourcesInv, RowFits, Rows, Boxes, Rest
<1>2. known # {} => netKnown
  BY DEF ResourcesInv, Recorded, OwnKind, Rest
<1>3. ready => phase \in {"work", "teardown", "over", "stranded"}
  BY DEF ResourcesInv, Control
<1>4. Rows(ids) = [open : BOOLEAN, ready : BOOLEAN, tornDown : BOOLEAN,
                   known : SUBSET (1 .. ids), netKnown : BOOLEAN]
  BY DEF Rows
<1>5. ASSUME NEW o \in BOOLEAN PROVE Snapshot(o) \in Rows(ids)
  BY <1>1, <1>4, <1>5 DEF Snapshot
<1>6. CASE MakeNetwork
  <2>1. /\ ~ready /\ phase # "over" /\ netKnown' = TRUE
        /\ UNCHANGED <<ids, known, ready, torn, mishaps>>
        /\ row' \in {row, [Snapshot(TRUE) EXCEPT !.netKnown = TRUE]}
    BY <1>3, <1>6 DEF MakeNetwork, At, Save
  <2> QED BY <1>1, <1>4, <2>1 DEF RowFits, Rows, Snapshot
<1>7. CASE Deployed \/ ReadOutput
  <2>1. /\ ~ready /\ phase # "over" /\ ready' = TRUE
        /\ UNCHANGED <<ids, known, torn, mishaps>>
        /\ row' \in {row, [Snapshot(TRUE) EXCEPT !.ready = TRUE]}
    BY <1>3, <1>7 DEF Deployed, ReadOutput, At, Save, worldVars
  <2> QED BY <1>1, <1>2, <1>4, <2>1 DEF RowFits, Rows, Snapshot
<1>8. CASE BeginRemoving \/ SkipRemoving
  <2>1. /\ phase # "over" /\ UNCHANGED <<ids, known, ready, torn, mishaps>>
        /\ \E open \in BOOLEAN : row' \in {row, Snapshot(open)}
    BY <1>8 DEF BeginRemoving, SkipRemoving, At, Save, worldVars, stateVars
  <2>2. PICK open \in BOOLEAN : row' \in {row, Snapshot(open)}
    BY <2>1
  <2>3. ~torn \/ "remove" \in mishaps
    BY <1>1
  <2>4. CASE row' = row
    BY <1>1, <1>4, <2>1, <2>4 DEF RowFits, Rows
  <2>5. CASE row' = Snapshot(open)
    <3>1. /\ row' \in Rows(ids) /\ row'.known = known /\ row'.netKnown = netKnown
          /\ row'.ready = ready /\ row'.tornDown = torn
      BY <1>5, <2>2, <2>5 DEF Snapshot
    <3> QED BY <1>1, <1>2, <2>1, <2>3, <3>1 DEF RowFits, Rows
  <2> QED BY <2>2, <2>4, <2>5
<1>9. CASE RemoveNetwork
  <2>1. /\ phase' = "over" /\ UNCHANGED <<ids, known, ready, torn>>
        /\ mishaps \subseteq mishaps'
        /\ row' \in {row, [Snapshot(pending) EXCEPT !.tornDown = TRUE]}
    BY <1>9 DEF RemoveNetwork, Save, Succeeds, stateVars
  <2> QED BY <1>1, <1>2, <1>4, <2>1 DEF RowFits, Rows, Snapshot
<1>10. CASE StartContainer
  <2>1. /\ ~ready /\ phase # "over" /\ known \subseteq known'
        /\ UNCHANGED <<ids, row, ready, torn, mishaps>>
    BY <1>3, <1>10 DEF StartContainer, Deploying, doneVars
  <2> QED BY <1>1, <1>4, <2>1 DEF RowFits
<1>11. CASE Restart
  <2>1. ids' = ids /\ (Resume \/ ResumeFails \/ CleanUp)
    BY <1>11, RestartFacts
  <2>2. CASE Resume
    <3>1. /\ row' = row /\ known' = row.known /\ ready' = row.ready /\ torn' = row.tornDown
          /\ mishaps' = mishaps
          /\ "remove" \notin mishaps /\ row.tornDown => FALSE
      BY <2>2, ResumeFacts DEF Resume
    <3> QED BY <1>1, <1>4, <2>1, <3>1 DEF RowFits
  <2>3. CASE ResumeFails
    <3>1. /\ UNCHANGED <<row, known, ready, torn, mishaps>>
          /\ "remove" \notin mishaps /\ row.tornDown => FALSE
      BY <2>3, ResumeFacts DEF ResumeFails, doneVars
    <3> QED BY <1>1, <1>4, <2>1, <3>1 DEF RowFits
  <2>4. CASE CleanUp
    <3>1. /\ phase' = "over" /\ UNCHANGED <<known, ready, torn>>
          /\ row' \in {row, [row EXCEPT !.open = FALSE]}
          /\ mishaps \subseteq mishaps'
      BY <2>4, CleanUpFacts
    <3> QED BY <1>1, <1>4, <2>1, <3>1 DEF RowFits, Rows
  <2> QED BY <2>1, <2>2, <2>3, <2>4
<1>12. ASSUME UNCHANGED <<row, known, ready, torn>>, ids' = ids \/ ids' = ids + 1,
              mishaps \subseteq mishaps', phase # "over" \/ phase' = phase
       PROVE  RowFits'
  <2>1. SUBSET (1 .. ids) \subseteq SUBSET (1 .. ids')
    BY <1>1, <1>12
  <2> QED BY <1>1, <1>12, <2>1 DEF RowFits, Rows
<1>13. CASE \/ WorkEnds \/ SkipNetwork \/ NetworkFails \/ BeginDeploying \/ PullFails
            \/ CopyEnv \/ RemoveOld \/ CreateContainer \/ CreateFails \/ StartFails
  <2>1. UNCHANGED <<row, known, ready, torn, mishaps>>
    BY <1>13
    DEF WorkEnds, SkipNetwork, NetworkFails, BeginDeploying, PullFails, CopyEnv, RemoveOld,
        CreateContainer, CreateFails, StartFails, stateVars, doneVars
  <2>2. phase # "over"
    BY <1>13
    DEF WorkEnds, SkipNetwork, NetworkFails, BeginDeploying, PullFails, CopyEnv, RemoveOld,
        CreateContainer, CreateFails, StartFails, Deploying, At
  <2>3. ids' = ids \/ ids' = ids + 1
    BY <1>13
    DEF WorkEnds, SkipNetwork, NetworkFails, BeginDeploying, PullFails, CopyEnv, RemoveOld,
        CreateContainer, CreateFails, StartFails, Create, worldVars
  <2> QED BY <1>12, <2>1, <2>2, <2>3
<1>14. CASE \/ BeginApply \/ Apply \/ ApplyFails \/ ReadState \/ Rollback \/ OutputUnreadable
            \/ SkipDestroy \/ DestroyTerraform \/ DirectoryNotFound
            \/ \E i \in doomed : RemoveContainer(i)
  <2>1. UNCHANGED <<row, known, ready, torn, ids>> /\ phase # "over"
    BY <1>14
    DEF BeginApply, Apply, ApplyFails, ReadState, Rollback, OutputUnreadable, SkipDestroy,
        DestroyTerraform, DirectoryNotFound, RemoveContainer, At, worldVars, stateVars, doneVars
  <2>2. mishaps \subseteq mishaps'
    BY <1>14
    DEF BeginApply, Apply, ApplyFails, ReadState, Rollback, OutputUnreadable, SkipDestroy,
        DestroyTerraform, DirectoryNotFound, RemoveContainer, Destroy
  <2> QED BY <1>12, <2>1, <2>2
<1>15. CASE AtRest
  <2>1. UNCHANGED <<row, known, ready, torn, ids, mishaps, phase>>
    BY <1>15 DEF AtRest, vars, taskVars, worldVars, stateVars, doneVars
  <2> QED BY <1>12, <2>1
<1> QED
  BY <1>6, <1>7, <1>8, <1>9, <1>10, <1>11, <1>13, <1>14, <1>15 DEF Next

LEMMA NextResources == ResourcesInv /\ [Next]_vars => ResourcesInv'
<1> SUFFICES ASSUME ResourcesInv, [Next]_vars PROVE ResourcesInv'
  OBVIOUS
<1>1. CASE Next
  <2>1. Control' /\ Boxes' /\ Rest'
    BY <1>1, ControlNext, BoxesNext, RestNext
  <2>4. RowFits'
    BY <1>1, RowNext
  <2>2. OwnKind' /\ Passed' /\ Recorded' /\ Removing' /\ Applied'
    BY <1>1, OwnKindNext, PassedNext, RecordedNext, RemovingNext, AppliedNext
  <2>3. TypeOK'
    <3>1. step' \in {"begin", "deploy", "create", "copy", "start",
                     "apply", "output", "rollback", "read", "removing", "net"}
      BY <2>1 DEF Control, StepsOf
    <3>2. ToSet(left') \subseteq Names'
      BY <2>1, SeqOfItsMembers DEF Control
    <3>3. \A n \in Names' : box'[n].id \in 0 .. ids' /\ (box'[n].up => box'[n].id # 0)
      BY <2>1 DEF Boxes, BoxesUpTo
    <3>4. row' \in Rows(ids)' /\ (row.known)' \subseteq known'
      BY <2>4 DEF RowFits
    <3> QED BY <2>1, <3>1, <3>2, <3>3, <3>4 DEF TypeOK, Control, Boxes, Rest
  <2> QED BY <2>1, <2>2, <2>3, <2>4 DEF ResourcesInv
<1>2. CASE UNCHANGED vars
  <2>1. Names' = Names /\ Wanted' = Wanted
    BY Frame
  <2> USE <1>2, <2>1 DEF vars, taskVars, worldVars, stateVars, doneVars, ResourcesInv
  <2>2. TypeOK' /\ Control' /\ Boxes' /\ Rest'
    BY DEF TypeOK, Control, Boxes, Rest
  <2>3. OwnKind' /\ Passed' /\ Recorded' /\ Removing' /\ Applied'
    BY DEF OwnKind, Passed, Recorded, Removing, Attached, Applied
  <2>4. RowFits'
    BY DEF RowFits, Rows
  <2> QED BY <2>2, <2>3, <2>4
<1> QED BY <1>1, <1>2

LEMMA Resources == Spec => []ResourcesInv
BY InitResources, NextResources, PTL DEF Spec

(* The run's resources, the deployer's, the run state's and the cloud's view  *)
(* of them are typed: in particular no recorded container ID is invented, and *)
(* the state file lists only what exists.                                     *)
THEOREM ResourcesTyped == Spec => []TypeOK
<1>1. ResourcesInv => TypeOK
  BY DEF ResourcesInv
<1> QED BY <1>1, Resources, PTL

(* task_infra.go: "teardownTask destroys containers and network": for every   *)
(* set of configurations, even those whose machines share names, and every    *)
(* number of attempts and faults, what is left behind is what an error kept   *)
(* from the run state.                                                        *)
THEOREM LeftBehindHolds == Spec => []LeftBehind
<1>1. ResourcesInv => LeftBehind
  <2> SUFFICES ASSUME ResourcesInv, phase = "over",
                      mishaps \cap {"remove", "destroy", "restart"} = {}
               PROVE  /\ ready => Containers = {} /\ ~net
                      /\ \A n \in Containers : box[n].id \notin known
                      /\ net => ~netKnown \/ \E n \in Containers : box[n].up
                      /\ cloud # {} => ~ready /\ mishaps # {}
    BY DEF LeftBehind
  <2>1. /\ \A n \in Names : box[n].id \notin known
        /\ net => ~netKnown \/ Attached
    BY DEF ResourcesInv, Removing
  <2>4. Attached => \E n \in Containers : box[n].up
    <3>1. \A n \in Names : box[n].up => box[n].id # 0
      BY DEF ResourcesInv, TypeOK
    <3> QED BY <3>1 DEF Attached, Containers, None
  <2>2. CASE provider = "docker"
    <3>1. ready => Containers = {}
      BY <2>1, <2>2 DEF ResourcesInv, Recorded, Containers
    <3>2. ready => ~net
      BY <2>1, <2>2, <2>4, <3>1 DEF ResourcesInv, Recorded
    <3>3. cloud = {}
      BY <2>2 DEF ResourcesInv, OwnKind
    <3> QED BY <2>1, <2>4, <3>1, <3>2, <3>3 DEF Containers
  <2>3. CASE provider = "yandex"
    <3>1. Containers = {} /\ ~net
      BY <2>3 DEF ResourcesInv, OwnKind, Containers
    <3>2. cloud # {} => ~ready
      BY <2>3 DEF ResourcesInv, Applied
    <3>3. cloud # {} /\ ~ready => mishaps # {}
      BY <2>3 DEF ResourcesInv, Applied, Control, StepsOf
    <3> QED BY <2>1, <3>1, <3>2, <3>3
  <2> QED BY <2>2, <2>3 DEF ResourcesInv, TypeOK
<1> QED BY <1>1, Resources, PTL
--------------------------------------------------------------------------------
(* As many machines as the configuration asks for.                            *)

(* Every role has one specification.                                          *)
DistinctRoles(c) ==
  \A j, k \in DOMAIN FillMachinesFromTopology(c) :
    FillMachinesFromTopology(c)[j].role = FillMachinesFromTopology(c)[k].role => j = k

Repeats(s) == \E i, j \in DOMAIN s : i # j /\ s[i] = s[j]

LEMMA JoinWithoutRepeats ==
  ASSUME NEW S, NEW s \in Seq(S), NEW t \in Seq(S), ~Repeats(s), ~Repeats(t),
         ToSet(s) \cap ToSet(t) = {}
  PROVE  /\ ~Repeats(s \o t)
         /\ ToSet(s \o t) \subseteq ToSet(s) \cup ToSet(t)
<1>1. /\ s \o t \in Seq(S)
      /\ Len(s \o t) = Len(s) + Len(t)
      /\ \A i \in 1 .. Len(s) + Len(t) :
           (s \o t)[i] = IF i <= Len(s) THEN s[i] ELSE t[i - Len(s)]
  BY ConcatProperties
<1>2. /\ Len(s) \in Nat /\ DOMAIN s = 1 .. Len(s)
      /\ Len(t) \in Nat /\ DOMAIN t = 1 .. Len(t)
      /\ DOMAIN (s \o t) = 1 .. Len(s) + Len(t)
  BY <1>1, LenProperties
<1> DEFINE u == s \o t
<1>3. \A i \in DOMAIN u : \/ i \in DOMAIN s /\ u[i] = s[i]
                          \/ i - Len(s) \in DOMAIN t /\ u[i] = t[i - Len(s)]
  BY <1>1, <1>2
<1>4. \A i \in DOMAIN s : s[i] \in ToSet(s)
  BY DEF ToSet
<1>5. \A i \in DOMAIN t : t[i] \in ToSet(t)
  BY DEF ToSet
<1> HIDE DEF u
<1>6. ASSUME NEW i \in DOMAIN u, NEW j \in DOMAIN u, i # j, u[i] = u[j] PROVE FALSE
  <2>1. i \in Int /\ j \in Int /\ Len(s) \in Int
    BY <1>2 DEF u
  <2>2. CASE i \in DOMAIN s /\ u[i] = s[i] /\ j \in DOMAIN s /\ u[j] = s[j]
    BY <1>6, <2>2 DEF Repeats
  <2>3. CASE /\ i - Len(s) \in DOMAIN t /\ u[i] = t[i - Len(s)]
             /\ j - Len(s) \in DOMAIN t /\ u[j] = t[j - Len(s)]
    <3>1. i - Len(s) # j - Len(s)
      BY <1>6, <2>1
    <3> QED BY <1>6, <2>3, <3>1 DEF Repeats
  <2>4. CASE i \in DOMAIN s /\ u[i] = s[i] /\ u[j] \in ToSet(t)
    BY <1>4, <1>6, <2>4
  <2>5. CASE j \in DOMAIN s /\ u[j] = s[j] /\ u[i] \in ToSet(t)
    BY <1>4, <1>6, <2>5
  <2> QED BY <1>3, <1>5, <2>2, <2>3, <2>4, <2>5
<1>7. ToSet(u) \subseteq ToSet(s) \cup ToSet(t)
  BY <1>3, <1>4, <1>5 DEF ToSet
<1> QED BY <1>6, <1>7 DEF Repeats, u

LEMMA MachineIdsDistinct ==
  ASSUME NEW spec \in [role : STRING, count : Nat]
  PROVE  /\ ~Repeats(MachineIds(spec))
         /\ \A m \in ToSet(MachineIds(spec)) : m[1] = spec.role
<1>1. /\ DOMAIN MachineIds(spec) = 1 .. spec.count
      /\ \A i \in 1 .. spec.count : MachineIds(spec)[i] = <<spec.role, i>>
  BY DEF MachineIds
<1>2. \A i, j \in 1 .. spec.count : <<spec.role, i>> = <<spec.role, j>> => i = j
  OBVIOUS
<1>3. \A i \in 1 .. spec.count : <<spec.role, i>>[1] = spec.role
  OBVIOUS
<1> QED BY <1>1, <1>2, <1>3 DEF Repeats, ToSet

LEMMA OrderDistinct ==
  ASSUME NEW c \in Configs, DistinctRoles(c)
  PROVE  ~Repeats(Order(c)) /\ Len(Order(c)) = Count(c)
<1> DEFINE specs == FillMachinesFromTopology(c)
<1> DEFINE seqs == [k \in DOMAIN specs |-> MachineIds(specs[k])]
<1> DEFINE counts == [k \in DOMAIN specs |-> specs[k].count]
<1>1. /\ specs \in Seq([role : STRING, count : Nat])
      /\ Len(specs) \in Nat
      /\ DOMAIN specs = 1 .. Len(specs)
  BY ConfigFacts, LenProperties
<1>2. \A k \in 1 .. Len(specs) : specs[k] \in [role : STRING, count : Nat]
  BY <1>1, ElementOfSeq
<1>3. Order(c) = FlattenSeq(seqs) /\ Count(c) = Total(counts)
  BY DEF Order, Count
<1>4. \A j, k \in 1 .. Len(specs) : specs[j].role = specs[k].role => j = k
  BY <1>1 DEF DistinctRoles
<1> HIDE DEF specs
<1>5. counts \in Seq(Nat) /\ Len(counts) = Len(specs)
  BY <1>1, <1>2
<1>6. \A k \in 1 .. Len(specs) :
        /\ MachineIds(specs[k]) \in Seq(Machine)
        /\ Len(MachineIds(specs[k])) = specs[k].count
        /\ ~Repeats(MachineIds(specs[k]))
        /\ \A m \in ToSet(MachineIds(specs[k])) : m[1] = specs[k].role
  BY <1>2, MachineIdsSeq, MachineIdsDistinct
<1>7. seqs \in Seq(Seq(Machine)) /\ Len(seqs) = Len(specs)
  BY <1>1, <1>6
<1>8. PICK t : RunningTotals(t, counts) /\ Total(counts) = t[Len(counts)]
  BY <1>5, Totalled
<1>9. CASE Len(specs) = 0
  <2>1. Order(c) = <<>>
    BY <1>3, <1>7, <1>9 DEF FlattenSeq
  <2>2. Count(c) = 0
    BY <1>3, <1>5, <1>8, <1>9 DEF RunningTotals
  <2> QED BY <2>1, <2>2 DEF Repeats
<1>10. CASE Len(specs) # 0
  <2>1. PICK f : JoinedStepByStep(f, seqs, Machine) /\ FlattenSeq(seqs) = f[Len(seqs)]
    <3>1. seqs # <<>>
      BY <1>7, <1>10
    <3> HIDE DEF seqs
    <3> QED BY <1>7, <3>1, Flattened
  <2>2. /\ \A k \in 1 .. Len(specs) : seqs[k] = MachineIds(specs[k])
        /\ \A k \in 1 .. Len(specs) : counts[k] = specs[k].count
    BY <1>1
  <2> HIDE DEF seqs, counts
  <2>3. /\ \A i \in 1 .. Len(specs) : f[i] \in Seq(Machine)
        /\ f[1] = MachineIds(specs[1])
        /\ \A i \in 2 .. Len(specs) : f[i] = f[i-1] \o MachineIds(specs[i])
    <3>1. /\ f \in [1 .. Len(specs) -> Seq(Machine)]
          /\ f[1] = seqs[1]
          /\ \A i \in 2 .. Len(specs) : f[i] = f[i-1] \o seqs[i]
      BY <1>7, <2>1 DEF JoinedStepByStep
    <3>2. 1 \in 1 .. Len(specs) /\ \A i \in 2 .. Len(specs) : i \in 1 .. Len(specs)
      BY <1>1, <1>10
    <3>3. f[1] = MachineIds(specs[1])
      BY <2>2, <3>1, <3>2
    <3>4. ASSUME NEW i \in 2 .. Len(specs) PROVE f[i] = f[i-1] \o MachineIds(specs[i])
      BY <2>2, <3>1, <3>2
    <3> QED BY <3>1, <3>3, <3>4
  <2>4. /\ t[0] = 0
        /\ \A i \in 1 .. Len(specs) : t[i] = t[i-1] + specs[i].count
    BY <1>5, <1>8, <2>2 DEF RunningTotals
  <2> DEFINE Good(i) == /\ ~Repeats(f[i])
                        /\ Len(f[i]) = t[i]
                        /\ \A m \in ToSet(f[i]) : \E j \in 1 .. i : m[1] = specs[j].role
  <2> DEFINE S == {k \in Nat : k + 1 \in 1 .. Len(specs) => Good(k + 1)}
  <2>5. Good(1)
    <3>1. 1 \in 1 .. Len(specs) /\ 1 - 1 = 0
      BY <1>1, <1>10
    <3>2. t[1] = specs[1].count
      <4>1. t[1] = t[1-1] + specs[1].count
        BY <2>4, <3>1
      <4> QED BY <1>2, <2>4, <3>1, <4>1
    <3> QED BY <1>6, <2>3, <3>1, <3>2
  <2>6. ASSUME NEW k \in Nat, k \in S PROVE k + 1 \in S
    <3> SUFFICES ASSUME NEW i, i = k + 2, i \in 1 .. Len(specs) PROVE Good(i)
      OBVIOUS
    <3>1. i \in 2 .. Len(specs) /\ i - 1 = k + 1 /\ i - 1 \in 1 .. Len(specs)
      BY <1>1
    <3>2. Good(i - 1)
      BY <2>6, <3>1
    <3>3. f[i] = f[i-1] \o MachineIds(specs[i]) /\ f[i-1] \in Seq(Machine)
      BY <2>3, <3>1
    <3>4. /\ MachineIds(specs[i]) \in Seq(Machine)
          /\ Len(MachineIds(specs[i])) = specs[i].count
          /\ ~Repeats(MachineIds(specs[i]))
          /\ \A m \in ToSet(MachineIds(specs[i])) : m[1] = specs[i].role
      BY <1>6
    <3>5. ToSet(f[i-1]) \cap ToSet(MachineIds(specs[i])) = {}
      <4> SUFFICES ASSUME NEW m \in ToSet(f[i-1]), m[1] = specs[i].role PROVE FALSE
        BY <3>4
      <4>1. PICK j \in 1 .. (i - 1) : m[1] = specs[j].role
        BY <3>2
      <4>2. j \in 1 .. Len(specs) /\ j # i
        BY <1>1, <3>1
      <4> QED BY <1>4, <4>1, <4>2
    <3>6. /\ ~Repeats(f[i])
          /\ ToSet(f[i]) \subseteq ToSet(f[i-1]) \cup ToSet(MachineIds(specs[i]))
      BY <3>2, <3>3, <3>4, <3>5, JoinWithoutRepeats
    <3>7. Len(f[i]) = t[i]
      <4>1. Len(f[i]) = Len(f[i-1]) + specs[i].count
        <5>1. Len(f[i-1] \o MachineIds(specs[i])) = Len(f[i-1]) + Len(MachineIds(specs[i]))
          BY <3>3, <3>4, ConcatProperties
        <5> QED BY <3>3, <3>4, <5>1
      <4>2. t[i] = t[i-1] + specs[i].count
        BY <2>4
      <4> QED BY <3>2, <4>1, <4>2
    <3>8. ASSUME NEW m \in ToSet(f[i]) PROVE \E j \in 1 .. i : m[1] = specs[j].role
      <4>1. CASE m \in ToSet(f[i-1])
        <5>1. PICK j \in 1 .. (i - 1) : m[1] = specs[j].role
          BY <3>2, <4>1
        <5>2. j \in 1 .. i
          BY <1>1, <3>1
        <5> QED BY <5>1, <5>2
      <4>2. CASE m \in ToSet(MachineIds(specs[i]))
        <5>1. i \in 1 .. i
          BY <1>1
        <5> QED BY <3>4, <4>2, <5>1
      <4> QED BY <3>6, <4>1, <4>2
    <3> QED BY <3>6, <3>7, <3>8
  <2>7. 0 \in S
    BY <2>5
  <2>8. \A k \in Nat : k \in S
    <3> HIDE DEF S
    <3> QED BY <2>6, <2>7, NatSetInduction
  <2>9. Good(Len(specs))
    <3>1. Len(specs) - 1 \in Nat /\ Len(specs) - 1 + 1 = Len(specs)
          /\ Len(specs) \in 1 .. Len(specs)
      BY <1>1, <1>10
    <3> HIDE DEF Good
    <3> QED BY <2>8, <3>1
  <2> QED BY <1>3, <1>5, <1>7, <1>8, <2>1, <2>9
<1> QED BY <1>9, <1>10

LEMMA NamesCounted ==
  ASSUME cfg \in Configs, DistinctRoles(cfg)
  PROVE  Len(Order(cfg)) = Count(cfg) /\ Cardinality(Names) = Count(cfg)
<1>1. /\ Order(cfg) \in Seq(Names)
      /\ ~Repeats(Order(cfg))
      /\ Len(Order(cfg)) = Count(cfg)
  BY NamesFacts, OrderDistinct
<1>2. /\ Len(Order(cfg)) \in Nat
      /\ DOMAIN Order(cfg) = 1 .. Len(Order(cfg))
      /\ Order(cfg) \in [1 .. Len(Order(cfg)) -> Names]
  BY <1>1, LenProperties
<1>3. Order(cfg) \in Surjection(1 .. Len(Order(cfg)), Names)
  BY <1>2 DEF Surjection, Names, ToSet
<1>4. Order(cfg) \in Injection(1 .. Len(Order(cfg)), Names)
  BY <1>1, <1>2 DEF Injection, IsInjective, Repeats
<1>5. /\ IsFiniteSet(1 .. Len(Order(cfg)))
      /\ Cardinality(1 .. Len(Order(cfg))) = Len(Order(cfg))
  BY <1>2, FS_Interval
<1>6. Cardinality(Names) = Cardinality(1 .. Len(Order(cfg)))
  BY <1>3, <1>4, <1>5, FS_Surjection
<1> QED BY <1>1, <1>5, <1>6

(* cloudinit.go: "MachineID is a unique identifier for this machine": where   *)
(* no two specifications of a configuration are for one role, the machines    *)
(* task never succeeds with fewer machines than were asked for, whatever it   *)
(* has met and repeated before.  (Where two are, it does: see the run         *)
(* MCResourcesTiers.)                                                         *)
THEOREM MachineForEachTargetHolds ==
  ASSUME \A c \in Configs : DistinctRoles(c)
  PROVE  Spec => MachineForEachTarget
<1>1. ASSUME ResourcesInv, [Next]_vars, ~ready, ready' PROVE Supplied'
  <2>1. cfg' = cfg /\ provider' = provider /\ Names' = Names
    BY <1>1, Frame
  <2>2. cfg \in Configs
    BY <1>1 DEF ResourcesInv, TypeOK
  <2>3. /\ Len(Order(cfg)) = Count(cfg)
        /\ Cardinality(Names) = Count(cfg)
        /\ IsFiniteSet(Names)
        /\ Subnet \notin Names
    BY <2>2, NamesCounted, NamesFacts
  <2>4. Count(cfg)' = Count(cfg)
    BY <2>1 DEF Count
  <2>5. CASE Deployed
    <3>1. provider # "yandex" /\ targets' = Order(cfg) /\ box' = box /\ known' = known
      BY <2>5 DEF Deployed, worldVars
    <3>2. \A n \in Names : box[n].up /\ box[n].id \in known
      BY <1>1, <2>5 DEF ResourcesInv, Passed, Deployed, At, ToSet
    <3>3. {n \in Names : box[n].up /\ box[n].id \in known} = Names
      BY <3>2
    <3>4. ToSet(targets') = Names
      BY <3>1 DEF Names
    <3> QED BY <2>1, <2>3, <2>4, <3>1, <3>3, <3>4 DEF Supplied
  <2>6. CASE ReadOutput
    <3>1. provider = "yandex" /\ cloud' = cloud /\ targets' \in SetToSeqs(Names)
      BY <2>6 DEF ReadOutput, worldVars
    <3>2. cloud \ {Subnet} = Names
      BY <1>1, <2>3, <2>6 DEF ResourcesInv, Applied, ReadOutput, At, Wanted
    <3>3. ToSet(targets') = Names /\ Len(targets') = Cardinality(Names)
      BY <2>3, <3>1, ListingsComplete
    <3> QED BY <2>1, <2>3, <2>4, <3>1, <3>2, <3>3 DEF Supplied
  <2>7. CASE Restart
    <3>1. Resume \/ ResumeFails \/ CleanUp
      BY <2>7, RestartFacts
    <3>2. CASE Resume
      BY <1>1, <3>2, ResumeFacts DEF Resume
    <3> QED BY <1>1, <3>1, <3>2, CleanUpFacts DEF ResumeFails, doneVars
  <2> QED BY <1>1, <2>5, <2>6, <2>7
          DEF Next, vars, taskVars, worldVars, stateVars, doneVars, AtRest,
              WorkEnds, SkipNetwork, MakeNetwork, NetworkFails, BeginDeploying, PullFails,
              RemoveOld, CreateContainer, CreateFails, CopyEnv, StartContainer, StartFails,
              BeginApply, Apply, ApplyFails, ReadState, Rollback, OutputUnreadable,
              BeginRemoving, SkipRemoving, RemoveContainer, RemoveNetwork, SkipDestroy,
              DestroyTerraform, DirectoryNotFound
<1>2. ResourcesInv /\ [Next]_vars => [~ready /\ ready' => Supplied']_vars
  BY <1>1
<1> QED BY <1>2, Resources, PTL DEF Spec, MachineForEachTarget

(* builder.go (fillMachinesFromTopology): of a topology it makes at most one  *)
(* specification of a role, Picodata's groups of instances apart.             *)
THEOREM TopologyRolesDistinct ==
  ASSUME NEW c, c.machines = <<>>, c.kind # "picodata"
  PROVE  DistinctRoles(c)
<1> DEFINE db == DatabaseSpecs(c)
<1> DEFINE px == IF NeedsProxy(c) THEN <<[role |-> "proxy", count |-> c.proxies]>> ELSE <<>>
<1> DEFINE run == <<[role |-> "stroppy", count |-> 1]>>
<1>1. FillMachinesFromTopology(c) = db \o px \o run
  BY DEF FillMachinesFromTopology
<1>2. db = <<>> \/ \E n : db = <<[role |-> "database", count |-> n]>>
  BY DEF DatabaseSpecs, DatabaseSpec
<1> HIDE DEF db
<1>3. CASE db = <<>>
  BY <1>1, <1>3 DEF DistinctRoles
<1>4. CASE \E n : db = <<[role |-> "database", count |-> n]>>
  BY <1>1, <1>4 DEF DistinctRoles
<1> QED BY <1>2, <1>3, <1>4
================================================================================
