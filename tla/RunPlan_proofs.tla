----------------------------- MODULE RunPlan_proofs -----------------------------
(******************************************************************************)
(* Theorems about the plan of a run (RunPlan): the graph the builder makes of *)
(* every valid configuration, and the machines it asks for.                   *)
(******************************************************************************)
EXTENDS RunPlan, NaturalsInduction, WellFoundedInduction, SequenceTheorems, TLAPS

(* Induction on the natural numbers, for a set instead of a predicate.        *)
NatLess == OpToRel(<, Nat)

LEMMA NatSetInduction ==
  ASSUME NEW S, 0 \in S, \A n \in Nat : n \in S => n + 1 \in S
  PROVE  \A n \in Nat : n \in S
<1>1. SUFFICES ASSUME Nat \ S # {} PROVE FALSE
  OBVIOUS
<1>2. IsWellFoundedOn(NatLess, Nat)
  BY NatLessThanWellFounded DEF NatLess, OpToRel
<1>3. PICK x \in Nat \ S : \A y \in Nat \ S : <<y, x>> \notin NatLess
  BY <1>1, <1>2, WFMin
<1>4. NatLess = {ss \in Nat \X Nat : ss[1] < ss[2]}
  BY DEF NatLess, OpToRel
<1>5. x - 1 \in Nat \ S
  BY <1>3
<1>6. <<x - 1, x>> \in NatLess
  BY <1>3, <1>4, <1>5
<1> QED BY <1>3, <1>5, <1>6

(* FlattenSeq joins the sequences one by one.                                 *)
Joins(f, seqs, n) ==
  f = [i \in 1 .. n |-> IF i = 1 THEN seqs[i] ELSE f[i-1] \o seqs[i]]

LEMMA JoinsExists ==
  ASSUME NEW seqs, NEW n \in Nat
  PROVE  \E f : Joins(f, seqs, n)
<1> DEFINE S == {k \in Nat : \E f : Joins(f, seqs, k)}
<1>1. 0 \in S
  <2>1. Joins([i \in 1 .. 0 |-> 0], seqs, 0)
    BY DEF Joins
  <2> QED BY <2>1
<1>2. ASSUME NEW k \in Nat, k \in S PROVE k + 1 \in S
  <2>1. PICK f : Joins(f, seqs, k)
    BY <1>2
  <2> DEFINE h == [i \in 1 .. k + 1 |-> IF i \in 1 .. k THEN f[i]
                     ELSE IF i = 1 THEN seqs[i] ELSE f[i-1] \o seqs[i]]
  <2>2. \A i \in 1 .. k : h[i] = f[i]
    OBVIOUS
  <2>3. \A i \in 1 .. k : h[i] = IF i = 1 THEN seqs[i] ELSE h[i-1] \o seqs[i]
    <3> SUFFICES ASSUME NEW i \in 1 .. k
                 PROVE  h[i] = IF i = 1 THEN seqs[i] ELSE h[i-1] \o seqs[i]
      OBVIOUS
    <3>1. f[i] = IF i = 1 THEN seqs[i] ELSE f[i-1] \o seqs[i]
      BY <2>1 DEF Joins
    <3>2. i # 1 => i - 1 \in 1 .. k
      OBVIOUS
    <3>3. i # 1 => h[i-1] = f[i-1]
      BY <2>2, <3>2
    <3> HIDE DEF h
    <3> QED BY <2>2, <3>1, <3>3
  <2>4. h[k+1] = IF k + 1 = 1 THEN seqs[k+1] ELSE h[k] \o seqs[k+1]
    <3>1. k + 1 \in 1 .. k + 1 /\ k + 1 \notin 1 .. k /\ k + 1 - 1 = k
      OBVIOUS
    <3>2. h[k+1] = IF k + 1 = 1 THEN seqs[k+1] ELSE f[k] \o seqs[k+1]
      BY <3>1
    <3>3. k + 1 # 1 => h[k] = f[k]
      OBVIOUS
    <3> HIDE DEF h
    <3> QED BY <3>2, <3>3
  <2>5. h = [i \in 1 .. k + 1 |-> h[i]]
    OBVIOUS
  <2>6. \A i \in 1 .. k + 1 : h[i] = IF i = 1 THEN seqs[i] ELSE h[i-1] \o seqs[i]
    <3> HIDE DEF h
    <3> SUFFICES ASSUME NEW i \in 1 .. k + 1
                 PROVE  h[i] = IF i = 1 THEN seqs[i] ELSE h[i-1] \o seqs[i]
      OBVIOUS
    <3>1. i \in 1 .. k \/ (i = k + 1 /\ i - 1 = k)
      OBVIOUS
    <3> QED BY <2>3, <2>4, <3>1
  <2>7. Joins(h, seqs, k + 1)
    <3> HIDE DEF h
    <3> QED BY <2>5, <2>6 DEF Joins
  <2> QED BY <2>7
<1> HIDE DEF S
<1>3. n \in S
  BY <1>1, <1>2, NatSetInduction
<1> QED BY <1>3 DEF S

JoinedStepByStep(f, seqs, E) ==
  /\ f \in [1 .. Len(seqs) -> Seq(E)]
  /\ f[1] = seqs[1]
  /\ \A i \in 2 .. Len(seqs) : f[i] = f[i-1] \o seqs[i]

LEMMA JoinsSeq ==
  ASSUME NEW E, NEW seqs \in Seq(Seq(E)), seqs # <<>>,
         NEW f, Joins(f, seqs, Len(seqs))
  PROVE  JoinedStepByStep(f, seqs, E)
<1>0. Len(seqs) \in Nat \ {0}
  BY EmptySeq
<1>1. ASSUME NEW i \in 1 .. Len(seqs)
      PROVE  f[i] = IF i = 1 THEN seqs[i] ELSE f[i-1] \o seqs[i]
  BY DEF Joins
<1>2. f = [i \in 1 .. Len(seqs) |-> f[i]]
  BY DEF Joins
<1>3. f[1] = seqs[1]
  BY <1>0, <1>1
<1>4. ASSUME NEW i \in 2 .. Len(seqs) PROVE f[i] = f[i-1] \o seqs[i]
  <2>1. i \in 1 .. Len(seqs) /\ i # 1
    BY <1>0
  <2> QED BY <1>1, <2>1
<1> DEFINE S == {k \in Nat : k + 1 \in 1 .. Len(seqs) => f[k+1] \in Seq(E)}
<1>5. 0 \in S
  BY <1>0, <1>3, ElementOfSeq
<1>6. ASSUME NEW k \in Nat, k \in S PROVE k + 1 \in S
  <2> SUFFICES ASSUME NEW i, i = k + 2, i \in 1 .. Len(seqs) PROVE f[i] \in Seq(E)
    OBVIOUS
  <2>1. f[k+1] \in Seq(E)
    BY <1>6, <1>0
  <2>2. i \in 2 .. Len(seqs) /\ i - 1 = k + 1
    BY <1>0
  <2>3. f[i] = f[i-1] \o seqs[i]
    BY <1>4, <2>2
  <2>4. seqs[i] \in Seq(E)
    BY <1>0, ElementOfSeq
  <2> QED BY <2>1, <2>2, <2>3, <2>4, ConcatProperties
<1>7. \A k \in Nat : k \in S
  <2> HIDE DEF S
  <2> QED BY <1>5, <1>6, NatSetInduction
<1>8. \A i \in 1 .. Len(seqs) : f[i] \in Seq(E)
  <2> SUFFICES ASSUME NEW i \in 1 .. Len(seqs) PROVE f[i] \in Seq(E)
    OBVIOUS
  <2>1. i - 1 \in Nat /\ i - 1 + 1 = i
    BY <1>0
  <2> QED BY <1>7, <2>1
<1> QED BY <1>2, <1>3, <1>4, <1>8 DEF JoinedStepByStep

LEMMA Flattened ==
  ASSUME NEW E, NEW seqs \in Seq(Seq(E)), seqs # <<>>
  PROVE  \E f : JoinedStepByStep(f, seqs, E) /\ FlattenSeq(seqs) = f[Len(seqs)]
<1>0. Len(seqs) \in Nat \ {0}
  BY EmptySeq
<1>1. PICK f : FlattenSeq(seqs) = f[Len(seqs)] /\ Joins(f, seqs, Len(seqs))
  <2> DEFINE g == CHOOSE f : f = [i \in 1 .. Len(seqs) |->
                                IF i = 1 THEN seqs[i] ELSE f[i-1] \o seqs[i]]
  <2>1. FlattenSeq(seqs) = g[Len(seqs)]
    BY <1>0 DEF FlattenSeq
  <2>2. Joins(g, seqs, Len(seqs))
    BY JoinsExists, <1>0 DEF Joins
  <2> HIDE DEF g
  <2> QED BY <2>1, <2>2
<1>2. JoinedStepByStep(f, seqs, E)
  BY <1>1, JoinsSeq
<1> QED BY <1>1, <1>2

(* A fold over a sequence takes its elements one by one, whatever it computes *)
(* in A: g[<<i, x>>] is what the i-th element makes of x.                     *)
FoldsOver(it, A, base, g, n) ==
  /\ it \in [SUBSET (1 .. n) -> A]
  /\ \A s \in SUBSET (1 .. n) :
       it[s] = IF s = {} THEN base ELSE g[<<Max(s), it[s \ {Max(s)}]>>]

LEMMA MaxIsLast ==
  ASSUME NEW n \in Nat, NEW s \in SUBSET (1 .. n + 1), n + 1 \in s
  PROVE  Max(s) = n + 1 /\ s \ {Max(s)} \in SUBSET (1 .. n)
<1>1. \A y \in s : n + 1 >= y
  OBVIOUS
<1>2. \A x \in s : (\A y \in s : x >= y) => x = n + 1
  OBVIOUS
<1>3. Max(s) = n + 1
  BY <1>1, <1>2 DEF Max
<1> QED BY <1>3

LEMMA LastOut ==
  ASSUME NEW k \in Nat \ {0}
  PROVE  1 .. k # {} /\ Max(1 .. k) = k /\ (1 .. k) \ {Max(1 .. k)} = 1 .. (k - 1)
<1>1. k - 1 \in Nat /\ k - 1 + 1 = k /\ 1 .. k # {}
  OBVIOUS
<1>2. 1 .. k \in SUBSET (1 .. k - 1 + 1) /\ k - 1 + 1 \in 1 .. k
  BY <1>1
<1>3. Max(1 .. k) = k
  BY <1>1, <1>2, MaxIsLast
<1>4. (1 .. k) \ {k} = 1 .. (k - 1)
  OBVIOUS
<1> QED BY <1>1, <1>3, <1>4

LEMMA MaxInside ==
  ASSUME NEW n \in Nat, NEW s \in SUBSET (1 .. n), s # {}
  PROVE  Max(s) \in s
<1> DEFINE S == {k \in Nat : \A t \in SUBSET (1 .. k) : t # {} =>
                                \E x \in t : \A y \in t : x >= y}
<1>1. 0 \in S
  <2>1. 1 .. 0 = {}
    OBVIOUS
  <2> QED BY <2>1
<1>2. ASSUME NEW k \in Nat, k \in S PROVE k + 1 \in S
  <2> SUFFICES ASSUME NEW t \in SUBSET (1 .. k + 1), t # {}
               PROVE  \E x \in t : \A y \in t : x >= y
    OBVIOUS
  <2>1. CASE k + 1 \in t
    BY <2>1
  <2>2. CASE k + 1 \notin t
    <3>1. t \in SUBSET (1 .. k)
      BY <2>2
    <3> QED BY <1>2, <3>1
  <2> QED BY <2>1, <2>2
<1>3. n \in S
  <2> HIDE DEF S
  <2> QED BY <1>1, <1>2, NatSetInduction
<1> QED BY <1>3 DEF Max

LEMMA FoldExists ==
  ASSUME NEW A, NEW base \in A, NEW n \in Nat, NEW g \in [(1 .. n) \X A -> A]
  PROVE  \E it : FoldsOver(it, A, base, g, n)
<1> DEFINE S == {k \in Nat : k <= n => \E it : FoldsOver(it, A, base, g, k)}
<1>1. 0 \in S
  <2> DEFINE z == [s \in SUBSET (1 .. 0) |-> base]
  <2>1. \A s \in SUBSET (1 .. 0) : s = {}
    OBVIOUS
  <2>2. FoldsOver(z, A, base, g, 0)
    BY <2>1 DEF FoldsOver
  <2> QED BY <2>2
<1>2. ASSUME NEW k \in Nat, k \in S PROVE k + 1 \in S
  <2> SUFFICES ASSUME k + 1 <= n PROVE \E it : FoldsOver(it, A, base, g, k + 1)
    OBVIOUS
  <2>1. PICK it : FoldsOver(it, A, base, g, k)
    BY <1>2
  <2>2. /\ it \in [SUBSET (1 .. k) -> A]
        /\ \A s \in SUBSET (1 .. k) :
             it[s] = IF s = {} THEN base ELSE g[<<Max(s), it[s \ {Max(s)}]>>]
    BY <2>1 DEF FoldsOver
  <2> DEFINE h == [s \in SUBSET (1 .. k + 1) |->
                     IF k + 1 \notin s THEN it[s] ELSE g[<<Max(s), it[s \ {Max(s)}]>>]]
  <2>3. \A s \in SUBSET (1 .. k) : s \in SUBSET (1 .. k + 1) /\ k + 1 \notin s
    OBVIOUS
  <2>4. \A s \in SUBSET (1 .. k) : h[s] = it[s]
    BY <2>3
  <2>5. ASSUME NEW s \in SUBSET (1 .. k + 1)
        PROVE  /\ h[s] \in A
               /\ h[s] = IF s = {} THEN base ELSE g[<<Max(s), h[s \ {Max(s)}]>>]
    <3>1. CASE k + 1 \in s
      <4>1. Max(s) = k + 1 /\ s \ {Max(s)} \in SUBSET (1 .. k)
        BY <3>1, MaxIsLast
      <4>2. h[s] = g[<<Max(s), it[s \ {Max(s)}]>>]
        BY <3>1
      <4>3. h[s \ {Max(s)}] = it[s \ {Max(s)}]
        BY <2>4, <4>1
      <4> HIDE DEF h
      <4>4. k + 1 \in 1 .. n /\ it[s \ {Max(s)}] \in A
        BY <2>2, <4>1
      <4>5. <<Max(s), it[s \ {Max(s)}]>> \in (1 .. n) \X A
        BY <4>1, <4>4
      <4> QED BY <3>1, <4>2, <4>3, <4>5
    <3>2. CASE k + 1 \notin s
      <4>a. s \subseteq 1 .. k
        BY <3>2
      <4>1. s \in SUBSET (1 .. k) /\ s \ {Max(s)} \in SUBSET (1 .. k)
        BY <4>a
      <4>2. h[s] = it[s] /\ h[s \ {Max(s)}] = it[s \ {Max(s)}]
        BY <2>4, <4>1
      <4> HIDE DEF h
      <4> QED BY <2>2, <4>1, <4>2
    <3> QED BY <3>1, <3>2
  <2>6. h \in [SUBSET (1 .. k + 1) -> A]
    <3>1. h = [s \in SUBSET (1 .. k + 1) |-> h[s]]
      OBVIOUS
    <3> HIDE DEF h
    <3> QED BY <2>5, <3>1
  <2>7. FoldsOver(h, A, base, g, k + 1)
    <3> HIDE DEF h
    <3> QED BY <2>5, <2>6 DEF FoldsOver
  <2> QED BY <2>7
<1>3. n \in S
  <2> HIDE DEF S
  <2> QED BY <1>1, <1>2, NatSetInduction
<1> QED BY <1>3

(* What holds at the start of a fold and is kept by its steps holds at its    *)
(* end: a set of values instead of an invariant.                              *)
LEMMA Along ==
  ASSUME NEW n \in Nat, NEW r, NEW P, NEW first \in 0 .. n, r[first] \in P,
         \A i \in first + 1 .. n : r[i-1] \in P => r[i] \in P
  PROVE  \A i \in first .. n : r[i] \in P
<1> DEFINE S == {k \in Nat : first + k <= n => r[first + k] \in P}
<1>1. 0 \in S
  OBVIOUS
<1>2. ASSUME NEW k \in Nat, k \in S PROVE k + 1 \in S
  <2> SUFFICES ASSUME NEW i, i = first + (k + 1), i <= n PROVE r[i] \in P
    OBVIOUS
  <2>1. i \in first + 1 .. n /\ i - 1 = first + k
    OBVIOUS
  <2>2. r[first + k] \in P
    BY <1>2, <2>1
  <2> QED BY <2>1, <2>2
<1>3. \A k \in Nat : k \in S
  <2> HIDE DEF S
  <2> QED BY <1>1, <1>2, NatSetInduction
<1> TAKE i \in first .. n
<1>4. i - first \in Nat /\ first + (i - first) = i
  OBVIOUS
<1> QED BY <1>3, <1>4

(* Total adds up the counts one by one.                                       *)
RunningTotals(t, s) ==
  /\ t \in [0 .. Len(s) -> Nat]
  /\ t[0] = 0
  /\ \A k \in 1 .. Len(s) : t[k] = t[k-1] + s[k]

LEMMA Totalled ==
  ASSUME NEW s \in Seq(Nat)
  PROVE  \E t : RunningTotals(t, s) /\ Total(s) = t[Len(s)]
<1>0. /\ Len(s) \in Nat /\ DOMAIN s = 1 .. Len(s)
      /\ \A k \in 1 .. Len(s) : s[k] \in Nat
  BY LenProperties, ElementOfSeq
<1> DEFINE d == DOMAIN s
<1> DEFINE g == [x \in (1 .. Len(s)) \X Nat |-> x[2] + s[x[1]]]
<1> DEFINE h == CHOOSE it : it = [u \in SUBSET d |->
                  IF u = {} THEN 0 ELSE it[u \ {Max(u)}] + s[Max(u)]]
<1>1. g \in [(1 .. Len(s)) \X Nat -> Nat]
  BY <1>0
<1>2. PICK it : FoldsOver(it, Nat, 0, g, Len(s))
  <2> HIDE DEF g
  <2> QED BY <1>0, <1>1, FoldExists
<1>3. Total(s) = h[d]
  BY DEF Total, FoldLeft, MapThenFoldSet
<1> HIDE DEF d
<1>4. d = 1 .. Len(s)
  BY <1>0 DEF d
<1>5. it = [u \in SUBSET d |-> IF u = {} THEN 0 ELSE it[u \ {Max(u)}] + s[Max(u)]]
  <2>1. it = [u \in SUBSET d |-> it[u]]
    BY <1>2, <1>4 DEF FoldsOver
  <2>2. ASSUME NEW u \in SUBSET d
        PROVE  it[u] = IF u = {} THEN 0 ELSE it[u \ {Max(u)}] + s[Max(u)]
    <3>1. it[u] = IF u = {} THEN 0 ELSE g[<<Max(u), it[u \ {Max(u)}]>>]
      BY <1>2, <1>4 DEF FoldsOver
    <3>2. CASE u # {}
      <4>1. Max(u) \in 1 .. Len(s)
        BY <1>0, <1>4, <3>2, MaxInside
      <4>2. it[u \ {Max(u)}] \in Nat
        BY <1>2, <1>4 DEF FoldsOver
      <4>3. g[<<Max(u), it[u \ {Max(u)}]>>] = it[u \ {Max(u)}] + s[Max(u)]
        BY <4>1, <4>2
      <4> QED BY <3>1, <3>2, <4>3
    <3> QED BY <3>1, <3>2
  <2> QED BY <2>1, <2>2
<1>6. h = [u \in SUBSET d |-> IF u = {} THEN 0 ELSE h[u \ {Max(u)}] + s[Max(u)]]
  BY <1>5
<1> HIDE DEF h, g
<1>7. \A u \in SUBSET (1 .. Len(s)) :
        h[u] = IF u = {} THEN 0 ELSE h[u \ {Max(u)}] + s[Max(u)]
  BY <1>4, <1>6
<1> DEFINE t == [k \in 0 .. Len(s) |-> h[1 .. k]]
<1>8. t[0] = 0
  <2>1. 1 .. 0 = {} /\ 0 \in 0 .. Len(s)
    BY <1>0
  <2> QED BY <1>7, <2>1
<1>9. ASSUME NEW k \in 1 .. Len(s) PROVE t[k] = t[k-1] + s[k]
  <2>1. k \in Nat \ {0} /\ 1 .. k \in SUBSET (1 .. Len(s)) /\ k \in 0 .. Len(s)
        /\ k - 1 \in 0 .. Len(s)
    BY <1>0
  <2>2. h[1 .. k] = h[1 .. (k - 1)] + s[k]
    BY <1>7, <2>1, LastOut
  <2> QED BY <2>1, <2>2
<1>10. t = [k \in 0 .. Len(s) |-> t[k]]
  OBVIOUS
<1>11. Total(s) = t[Len(s)]
  BY <1>0, <1>3, <1>4
<1> HIDE DEF t
<1>12. \A k \in 0 .. Len(s) : t[k] \in Nat
  <2>1. \A k \in 0 + 1 .. Len(s) : t[k-1] \in Nat => t[k] \in Nat
    BY <1>0, <1>9
  <2>2. 0 \in 0 .. Len(s) /\ t[0] \in Nat
    BY <1>0, <1>8
  <2> QED BY <1>0, <2>1, <2>2, Along
<1> QED BY <1>8, <1>9, <1>10, <1>11, <1>12 DEF RunningTotals

(* OfRole goes through its list one by one.                                   *)
Selection(t, list, role, E) ==
  /\ t \in [0 .. Len(list) -> Seq(E)]
  /\ t[0] = <<>>
  /\ \A k \in 1 .. Len(list) :
       t[k] = IF list[k].role = role THEN Append(t[k-1], list[k]) ELSE t[k-1]

LEMMA Selected ==
  ASSUME NEW E, NEW s \in Seq(E), NEW role
  PROVE  \E t : Selection(t, s, role, E) /\ OfRole(s, role) = t[Len(s)]
<1>0. /\ Len(s) \in Nat /\ DOMAIN s = 1 .. Len(s)
      /\ \A k \in 1 .. Len(s) : s[k] \in E
  BY LenProperties, ElementOfSeq
<1> DEFINE d == DOMAIN s
<1> DEFINE g == [x \in (1 .. Len(s)) \X Seq(E) |->
                   IF s[x[1]].role = role THEN Append(x[2], s[x[1]]) ELSE x[2]]
<1> DEFINE h == CHOOSE it : it = [u \in SUBSET d |->
                  IF u = {} THEN <<>>
                  ELSE IF s[Max(u)].role = role
                         THEN Append(it[u \ {Max(u)}], s[Max(u)]) ELSE it[u \ {Max(u)}]]
<1>1. g \in [(1 .. Len(s)) \X Seq(E) -> Seq(E)]
  <2> SUFFICES ASSUME NEW x \in (1 .. Len(s)) \X Seq(E) PROVE g[x] \in Seq(E)
    OBVIOUS
  <2>1. x[1] \in 1 .. Len(s) /\ x[2] \in Seq(E) /\ s[x[1]] \in E
    BY <1>0
  <2>2. Append(x[2], s[x[1]]) \in Seq(E)
    BY <2>1, AppendProperties
  <2> QED BY <2>1, <2>2
<1>2. PICK it : FoldsOver(it, Seq(E), <<>>, g, Len(s))
  <2>1. <<>> \in Seq(E)
    OBVIOUS
  <2> HIDE DEF g
  <2> QED BY <1>0, <1>1, <2>1, FoldExists
<1>3. OfRole(s, role) = h[d]
  BY DEF OfRole, FoldLeft, MapThenFoldSet
<1> HIDE DEF d
<1>4. d = 1 .. Len(s)
  BY <1>0 DEF d
<1>5. it = [u \in SUBSET d |->
              IF u = {} THEN <<>>
              ELSE IF s[Max(u)].role = role
                     THEN Append(it[u \ {Max(u)}], s[Max(u)]) ELSE it[u \ {Max(u)}]]
  <2>1. it = [u \in SUBSET d |-> it[u]]
    BY <1>2, <1>4 DEF FoldsOver
  <2>2. ASSUME NEW u \in SUBSET d
        PROVE  it[u] = IF u = {} THEN <<>>
                       ELSE IF s[Max(u)].role = role
                              THEN Append(it[u \ {Max(u)}], s[Max(u)]) ELSE it[u \ {Max(u)}]
    <3>1. it[u] = IF u = {} THEN <<>> ELSE g[<<Max(u), it[u \ {Max(u)}]>>]
      BY <1>2, <1>4 DEF FoldsOver
    <3>2. CASE u # {}
      <4>1. Max(u) \in 1 .. Len(s)
        BY <1>0, <1>4, <3>2, MaxInside
      <4>2. it[u \ {Max(u)}] \in Seq(E)
        BY <1>2, <1>4 DEF FoldsOver
      <4>3. g[<<Max(u), it[u \ {Max(u)}]>>]
              = IF s[Max(u)].role = role
                  THEN Append(it[u \ {Max(u)}], s[Max(u)]) ELSE it[u \ {Max(u)}]
        BY <4>1, <4>2
      <4> QED BY <3>1, <3>2, <4>3
    <3> QED BY <3>1, <3>2
  <2> QED BY <2>1, <2>2
<1>6. h = [u \in SUBSET d |->
             IF u = {} THEN <<>>
             ELSE IF s[Max(u)].role = role
                    THEN Append(h[u \ {Max(u)}], s[Max(u)]) ELSE h[u \ {Max(u)}]]
  BY <1>5
<1> HIDE DEF h, g
<1>7. \A u \in SUBSET (1 .. Len(s)) :
        h[u] = IF u = {} THEN <<>>
               ELSE IF s[Max(u)].role = role
                      THEN Append(h[u \ {Max(u)}], s[Max(u)]) ELSE h[u \ {Max(u)}]
  BY <1>4, <1>6
<1> DEFINE t == [k \in 0 .. Len(s) |-> h[1 .. k]]
<1>8. t[0] = <<>>
  <2>1. 1 .. 0 = {} /\ 0 \in 0 .. Len(s)
    BY <1>0
  <2> QED BY <1>7, <2>1
<1>9. ASSUME NEW k \in 1 .. Len(s)
      PROVE  t[k] = IF s[k].role = role THEN Append(t[k-1], s[k]) ELSE t[k-1]
  <2>1. k \in Nat \ {0} /\ 1 .. k \in SUBSET (1 .. Len(s)) /\ k \in 0 .. Len(s)
        /\ k - 1 \in 0 .. Len(s)
    BY <1>0
  <2>2. h[1 .. k] = IF s[k].role = role
                      THEN Append(h[1 .. (k - 1)], s[k]) ELSE h[1 .. (k - 1)]
    BY <1>7, <2>1, LastOut
  <2> QED BY <2>1, <2>2
<1>10. t = [k \in 0 .. Len(s) |-> t[k]]
  OBVIOUS
<1>11. OfRole(s, role) = t[Len(s)]
  BY <1>0, <1>3, <1>4
<1> HIDE DEF t
<1>12. \A k \in 0 .. Len(s) : t[k] \in Seq(E)
  <2>1. ASSUME NEW k \in 0 + 1 .. Len(s), t[k-1] \in Seq(E) PROVE t[k] \in Seq(E)
    <3>a. k \in 1 .. Len(s)
      BY <1>0
    <3>1. Append(t[k-1], s[k]) \in Seq(E)
      BY <1>0, <2>1, <3>a, AppendProperties
    <3> QED BY <1>9, <2>1, <3>a, <3>1
  <2>2. 0 \in 0 .. Len(s) /\ t[0] \in Seq(E)
    BY <1>0, <1>8
  <2> QED BY <1>0, <2>1, <2>2, Along
<1> QED BY <1>8, <1>9, <1>10, <1>11, <1>12 DEF Selection

(* The entries of a role stand together, after the first lo, up to hi.        *)
Together(s, role, lo, hi) ==
  \A i \in 1 .. Len(s) : (s[i].role = role) <=> (i \in lo + 1 .. hi)

(* OfRole cuts them out.                                                      *)
LEMMA SelectedPart ==
  ASSUME NEW E, NEW s \in Seq(E), NEW role, NEW lo \in 0 .. Len(s), NEW hi \in lo .. Len(s),
         Together(s, role, lo, hi)
  PROVE  /\ OfRole(s, role) \in Seq(E)
         /\ Len(OfRole(s, role)) = hi - lo
         /\ \A k \in 1 .. hi - lo : OfRole(s, role)[k] = s[lo + k]
<1>0. \A i \in 1 .. Len(s) : (s[i].role = role) <=> (i \in lo + 1 .. hi)
  BY DEF Together
<1>1. PICK t : Selection(t, s, role, E) /\ OfRole(s, role) = t[Len(s)]
  BY Selected
<1>2. /\ Len(s) \in Nat
      /\ \A i \in 1 .. Len(s) : s[i] \in E
      /\ lo \in Int /\ hi \in Int
  BY LenProperties, ElementOfSeq
<1>3. /\ \A k \in 0 .. Len(s) : t[k] \in Seq(E)
      /\ t[0] = <<>>
      /\ \A k \in 1 .. Len(s) :
           t[k] = IF s[k].role = role THEN Append(t[k-1], s[k]) ELSE t[k-1]
  BY <1>1 DEF Selection
<1> DEFINE Upto(n) == IF n <= lo THEN 0 ELSE IF n <= hi THEN n - lo ELSE hi - lo
<1> DEFINE Good(n) == /\ t[n] \in Seq(E)
                      /\ Len(t[n]) = Upto(n)
                      /\ \A k \in 1 .. Upto(n) : t[n][k] = s[lo + k]
<1> DEFINE S == {n \in Nat : n <= Len(s) => Good(n)}
<1>4. 0 \in S
  BY <1>2, <1>3
<1>5. ASSUME NEW m \in Nat, m \in S, NEW n, n = m + 1, n <= Len(s) PROVE Good(n)
  <2>1. Good(m) /\ n \in 1 .. Len(s) /\ n - 1 = m
    BY <1>2, <1>5
  <2>2. CASE n \in lo + 1 .. hi
    <3>1. t[n] = Append(t[m], s[n]) /\ s[n] \in E
      BY <1>0, <1>2, <1>3, <2>1, <2>2
    <3>2. Upto(m) = m - lo /\ Upto(n) = Upto(m) + 1
      BY <1>2, <2>1, <2>2
    <3>3. /\ t[n] \in Seq(E)
          /\ Len(t[n]) = Len(t[m]) + 1
          /\ \A k \in 1 .. Len(t[m]) : t[n][k] = t[m][k]
          /\ t[n][Len(t[m]) + 1] = s[n]
      BY <2>1, <3>1, AppendProperties
    <3>4. ASSUME NEW k \in 1 .. Upto(n) PROVE t[n][k] = s[lo + k]
      <4>1. CASE k \in 1 .. Upto(m)
        BY <2>1, <3>3, <4>1
      <4>2. CASE k = Upto(m) + 1
        <5>1. lo + k = n
          BY <1>2, <2>1, <3>2, <4>2
        <5> QED BY <2>1, <3>3, <4>2, <5>1
      <4> QED BY <1>2, <2>1, <3>2, <4>1, <4>2
    <3> QED BY <2>1, <3>2, <3>3, <3>4
  <2>3. CASE n \notin lo + 1 .. hi
    <3>1. t[n] = t[m]
      BY <1>0, <1>3, <2>1, <2>3
    <3>2. Upto(n) = Upto(m)
      BY <1>2, <2>1, <2>3
    <3> QED BY <2>1, <3>1, <3>2
  <2> QED BY <2>2, <2>3
<1>a. ASSUME NEW m \in Nat, m \in S PROVE m + 1 \in S
  <2> HIDE DEF Good
  <2> QED BY <1>5, <1>a
<1>6. Good(Len(s))
  <2>1. Len(s) \in S
    <3> HIDE DEF S
    <3> QED BY <1>2, <1>4, <1>a, NatSetInduction
  <2> QED BY <2>1
<1>7. Upto(Len(s)) = hi - lo
  BY <1>2
<1> QED BY <1>1, <1>6, <1>7
--------------------------------------------------------------------------------
(* The machines of a role are machines, and the run state has lists of them.  *)
Roles == {"database", "monitor", "proxy", "stroppy"}

MachineNames == (Roles \cup {"none"}) \X Nat

ServiceNames == {"postgres", "mysql", "picodata", "ydbd", "proxysql", "haproxy", "none"}

RunStates ==
  [database : Seq(MachineNames), monitor : Seq(MachineNames), proxy : Seq(MachineNames),
   stroppy : Seq(MachineNames), endpoint : [host : MachineNames, service : ServiceNames]]

LEMMA RoleTargets ==
  ASSUME NEW c, FillMachinesFromTopology(c) \in Seq([role : STRING, count : Nat]),
         NEW role \in Roles
  PROVE  TargetsOfRole(c, role) \in Seq(MachineNames)
<1> DEFINE R == [role : STRING, count : Nat]
<1> DEFINE list == FillMachinesFromTopology(c)
<1> DEFINE mine == OfRole(list, role)
<1> DEFINE seqs == [k \in DOMAIN mine |-> [i \in 1 .. mine[k].count |-> <<role, i>>]]
<1>1. mine \in Seq(R)
  <2>1. list \in Seq(R)
    OBVIOUS
  <2> HIDE DEF list, R
  <2>2. PICK t : Selection(t, list, role, R) /\ mine = t[Len(list)]
    BY <2>1, Selected
  <2>3. Len(list) \in 0 .. Len(list)
    BY <2>1, LenProperties
  <2> QED BY <2>2, <2>3 DEF Selection
<1>2. TargetsOfRole(c, role) = FlattenSeq(seqs)
  BY DEF TargetsOfRole
<1> HIDE DEF mine
<1>3. /\ Len(mine) \in Nat /\ DOMAIN mine = 1 .. Len(mine)
      /\ \A k \in 1 .. Len(mine) : mine[k].count \in Nat
  <2>1. \A k \in 1 .. Len(mine) : mine[k] \in R
    BY <1>1, ElementOfSeq
  <2> QED BY <1>1, <2>1, LenProperties
<1>4. \A k \in 1 .. Len(mine) : [i \in 1 .. mine[k].count |-> <<role, i>>] \in Seq(MachineNames)
  <2>1. \A i \in Nat : <<role, i>> \in MachineNames
    BY DEF MachineNames
  <2> QED BY <1>3, <2>1
<1>5. seqs \in Seq(Seq(MachineNames)) /\ Len(seqs) = Len(mine)
  BY <1>3, <1>4
<1>6. CASE seqs = <<>>
  BY <1>2, <1>6 DEF FlattenSeq
<1>7. CASE seqs # <<>>
  <2> HIDE DEF seqs
  <2>1. PICK f : JoinedStepByStep(f, seqs, MachineNames) /\ FlattenSeq(seqs) = f[Len(seqs)]
    BY <1>5, <1>7, Flattened
  <2>2. Len(seqs) \in 1 .. Len(seqs)
    BY <1>5, <1>7, LenProperties, EmptySeq
  <2> QED BY <1>2, <2>1, <2>2 DEF JoinedStepByStep
<1> QED BY <1>6, <1>7

LEMMA RunStatesMade ==
  /\ NewState \in RunStates
  /\ \A c : ValidConfig(c) /\ FillMachinesFromTopology(c) \in Seq([role : STRING, count : Nat])
              => Provisioned(c) \in RunStates
<1>1. NewState \in RunStates
  <2>1. <<>> \in Seq(MachineNames) /\ <<"none", 0>> \in MachineNames
    BY DEF MachineNames
  <2> QED BY <2>1 DEF NewState, RunStates, ServiceNames
<1>2. ASSUME NEW c, ValidConfig(c),
             FillMachinesFromTopology(c) \in Seq([role : STRING, count : Nat])
      PROVE  Provisioned(c) \in RunStates
  <2> DEFINE db == TargetsOfRole(c, "database")
  <2> DEFINE px == TargetsOfRole(c, "proxy")
  <2> DEFINE runner == TargetsOfRole(c, "stroppy")
  <2>1. db \in Seq(MachineNames) /\ px \in Seq(MachineNames) /\ runner \in Seq(MachineNames)
    <3>1. "database" \in Roles /\ "proxy" \in Roles /\ "stroppy" \in Roles
      BY DEF Roles
    <3> QED BY <1>2, <3>1, RoleTargets
  <2>2. Provisioned(c) = [database |-> db, monitor |-> <<>>, proxy |-> px,
          stroppy |-> IF runner = <<>> THEN <<>> ELSE <<runner[Len(runner)]>>,
          endpoint |-> EndpointOf(c, db, px)]
    BY DEF Provisioned
  <2> HIDE DEF db, px, runner
  <2>3. /\ runner # <<>> => runner[Len(runner)] \in MachineNames
        /\ db # <<>> => db[1] \in MachineNames
        /\ px # <<>> => px[1] \in MachineNames
    BY <2>1, EmptySeq, ElementOfSeq, LenProperties
  <2>4. (IF runner = <<>> THEN <<>> ELSE <<runner[Len(runner)]>>) \in Seq(MachineNames)
    BY <2>3
  <2>5. c.kind \in {"postgres", "mysql", "picodata", "ydb"}
    BY <1>2 DEF ValidConfig, Kinds
  <2>6. EndpointOf(c, db, px) \in [host : MachineNames, service : ServiceNames]
    <3>1. <<"none", 0>> \in MachineNames
      BY DEF MachineNames
    <3>2. /\ Service(c.kind) \in ServiceNames
          /\ ProxyService(c.kind) \in ServiceNames
          /\ "none" \in ServiceNames
      BY <2>5 DEF Service, ProxyService, ServiceNames
    <3> QED BY <2>3, <3>1, <3>2 DEF EndpointOf
  <2> QED BY <2>1, <2>2, <2>4, <2>6 DEF RunStates
<1> QED BY <1>1, <1>2

LEMMA FourParts ==
  ASSUME NEW E, NEW a \in Seq(E), NEW b \in Seq(E), NEW c \in Seq(E), NEW d \in Seq(E),
         NEW s, s = a \o b \o c \o d
  PROVE  /\ s \in Seq(E)
         /\ Len(s) = Len(a) + Len(b) + Len(c) + Len(d)
         /\ \A i \in 1 .. Len(s) :
              s[i] = IF i <= Len(a) THEN a[i]
                     ELSE IF i <= Len(a) + Len(b) THEN b[i - Len(a)]
                     ELSE IF i <= Len(a) + Len(b) + Len(c) THEN c[i - Len(a) - Len(b)]
                     ELSE d[i - Len(a) - Len(b) - Len(c)]
<1> DEFINE ab == a \o b
<1> DEFINE abc == ab \o c
<1>1. /\ ab \in Seq(E) /\ Len(ab) = Len(a) + Len(b)
      /\ \A i \in 1 .. Len(ab) : ab[i] = IF i <= Len(a) THEN a[i] ELSE b[i - Len(a)]
  BY ConcatProperties
<1>2. /\ Len(a) \in Nat /\ Len(b) \in Nat /\ Len(c) \in Nat /\ Len(d) \in Nat
  BY LenProperties
<1> HIDE DEF ab
<1>3. /\ abc \in Seq(E) /\ Len(abc) = Len(ab) + Len(c)
      /\ \A i \in 1 .. Len(abc) : abc[i] = IF i <= Len(ab) THEN ab[i] ELSE c[i - Len(ab)]
  <2>1. ab \in Seq(E) /\ c \in Seq(E)
    BY <1>1
  <2> QED BY <2>1, ConcatProperties
<1>4. s = abc \o d
  BY DEF ab
<1> HIDE DEF abc
<1>5. /\ s \in Seq(E) /\ Len(s) = Len(abc) + Len(d)
      /\ \A i \in 1 .. Len(s) : s[i] = IF i <= Len(abc) THEN abc[i] ELSE d[i - Len(abc)]
  BY <1>3, <1>4, ConcatProperties
<1>6. Len(s) = Len(a) + Len(b) + Len(c) + Len(d)
  BY <1>1, <1>2, <1>3, <1>5
<1>7. ASSUME NEW i \in 1 .. Len(s)
      PROVE  s[i] = IF i <= Len(a) THEN a[i]
                     ELSE IF i <= Len(a) + Len(b) THEN b[i - Len(a)]
                     ELSE IF i <= Len(a) + Len(b) + Len(c) THEN c[i - Len(a) - Len(b)]
                     ELSE d[i - Len(a) - Len(b) - Len(c)]
  <2>1. i <= Len(abc) => i \in 1 .. Len(abc)
    BY <1>1, <1>2, <1>3
  <2>2. i <= Len(ab) => i \in 1 .. Len(ab) /\ i <= Len(abc)
    BY <1>1, <1>2, <1>3
  <2>3. i <= Len(a) => i <= Len(ab)
    BY <1>1, <1>2
  <2>4. s[i] = IF i <= Len(abc) THEN abc[i] ELSE d[i - Len(abc)]
    BY <1>5
  <2>5. i <= Len(abc) => abc[i] = IF i <= Len(ab) THEN ab[i] ELSE c[i - Len(ab)]
    BY <1>3, <2>1
  <2>6. i <= Len(ab) => ab[i] = IF i <= Len(a) THEN a[i] ELSE b[i - Len(a)]
    BY <1>1, <2>2
  <2>7. /\ i - Len(abc) = i - Len(a) - Len(b) - Len(c)
        /\ i - Len(ab) = i - Len(a) - Len(b)
    BY <1>1, <1>2, <1>3
  <2>8. Len(ab) = Len(a) + Len(b) /\ Len(abc) = Len(a) + Len(b) + Len(c)
    BY <1>1, <1>2, <1>3
  <2> QED BY <2>2, <2>3, <2>4, <2>5, <2>6, <2>7, <2>8
<1> QED BY <1>5, <1>6, <1>7

(* state.go: what a restarted server reads back (ImportRunState) is what was  *)
(* saved (ExportRunState): every list of targets in its order, and nothing    *)
(* under another role.                                                        *)
THEOREM ImportExport ==
  ASSUME NEW st \in RunStates
  PROVE  ImportRunState(ExportRunState(st)) = st
<1> DEFINE E == [target : MachineNames, role : Roles]
<1> DEFINE Tagged(s, role) == [i \in DOMAIN s |-> [target |-> s[i], role |-> role]]
<1> DEFINE a == Tagged(st.database, "database")
<1> DEFINE b == Tagged(st.monitor, "monitor")
<1> DEFINE c == Tagged(st.proxy, "proxy")
<1> DEFINE d == Tagged(st.stroppy, "stroppy")
<1> DEFINE s == a \o b \o c \o d
<1> DEFINE Cut(role) == LET mine == OfRole(s, role) IN [i \in DOMAIN mine |-> mine[i].target]
<1>0. "database" \in Roles /\ "monitor" \in Roles /\ "proxy" \in Roles /\ "stroppy" \in Roles
  BY DEF Roles
<1>1. ASSUME NEW q \in Seq(MachineNames), NEW role \in Roles
      PROVE  /\ Tagged(q, role) \in Seq(E)
             /\ Len(Tagged(q, role)) = Len(q)
             /\ \A i \in 1 .. Len(q) : /\ Tagged(q, role)[i].target = q[i]
                                       /\ Tagged(q, role)[i].role = role
  <2>1. DOMAIN q = 1 .. Len(q) /\ Len(q) \in Nat /\ \A i \in 1 .. Len(q) : q[i] \in MachineNames
    BY LenProperties, ElementOfSeq
  <2> QED BY <2>1
<1>2. /\ st.database \in Seq(MachineNames) /\ st.monitor \in Seq(MachineNames)
      /\ st.proxy \in Seq(MachineNames) /\ st.stroppy \in Seq(MachineNames)
      /\ st = [database |-> st.database, monitor |-> st.monitor, proxy |-> st.proxy,
               stroppy |-> st.stroppy, endpoint |-> st.endpoint]
  BY DEF RunStates
<1>3. ExportRunState(st) = [targets |-> s, endpoint |-> st.endpoint]
  BY DEF ExportRunState
<1>4. ImportRunState(ExportRunState(st)) =
        [database |-> Cut("database"), monitor |-> Cut("monitor"), proxy |-> Cut("proxy"),
         stroppy |-> Cut("stroppy"), endpoint |-> st.endpoint]
  <2> HIDE DEF s
  <2> QED BY <1>3 DEF ImportRunState
<1>5. /\ a \in Seq(E) /\ b \in Seq(E) /\ c \in Seq(E) /\ d \in Seq(E)
      /\ Len(a) = Len(st.database) /\ Len(b) = Len(st.monitor)
      /\ Len(c) = Len(st.proxy) /\ Len(d) = Len(st.stroppy)
      /\ \A i \in 1 .. Len(a) : a[i].target = st.database[i] /\ a[i].role = "database"
      /\ \A i \in 1 .. Len(b) : b[i].target = st.monitor[i] /\ b[i].role = "monitor"
      /\ \A i \in 1 .. Len(c) : c[i].target = st.proxy[i] /\ c[i].role = "proxy"
      /\ \A i \in 1 .. Len(d) : d[i].target = st.stroppy[i] /\ d[i].role = "stroppy"
  <2> HIDE DEF Tagged, E
  <2>1. a \in Seq(E) /\ Len(a) = Len(st.database)
        /\ \A i \in 1 .. Len(a) : a[i].target = st.database[i] /\ a[i].role = "database"
    BY <1>0, <1>1, <1>2
  <2>2. b \in Seq(E) /\ Len(b) = Len(st.monitor)
        /\ \A i \in 1 .. Len(b) : b[i].target = st.monitor[i] /\ b[i].role = "monitor"
    BY <1>0, <1>1, <1>2
  <2>3. c \in Seq(E) /\ Len(c) = Len(st.proxy)
        /\ \A i \in 1 .. Len(c) : c[i].target = st.proxy[i] /\ c[i].role = "proxy"
    BY <1>0, <1>1, <1>2
  <2>4. d \in Seq(E) /\ Len(d) = Len(st.stroppy)
        /\ \A i \in 1 .. Len(d) : d[i].target = st.stroppy[i] /\ d[i].role = "stroppy"
    BY <1>0, <1>1, <1>2
  <2> QED BY <2>1, <2>2, <2>3, <2>4
<1> HIDE DEF a, b, c, d, E
<1>s. s = a \o b \o c \o d
  OBVIOUS
<1> HIDE DEF s
<1>6. /\ s \in Seq(E)
      /\ Len(s) = Len(a) + Len(b) + Len(c) + Len(d)
      /\ \A i \in 1 .. Len(s) :
           s[i] = IF i <= Len(a) THEN a[i]
                  ELSE IF i <= Len(a) + Len(b) THEN b[i - Len(a)]
                  ELSE IF i <= Len(a) + Len(b) + Len(c) THEN c[i - Len(a) - Len(b)]
                  ELSE d[i - Len(a) - Len(b) - Len(c)]
  <2>1. a \in Seq(E) /\ b \in Seq(E) /\ c \in Seq(E) /\ d \in Seq(E)
    BY <1>5
  <2> QED BY <2>1, <1>s, FourParts
<1>7. Len(a) \in Nat /\ Len(b) \in Nat /\ Len(c) \in Nat /\ Len(d) \in Nat /\ Len(s) \in Nat
  BY <1>5, <1>6, LenProperties
<1>8. \A i \in 1 .. Len(s) :
        /\ s[i].role = "database" <=> i \in 0 + 1 .. Len(a)
        /\ s[i].role = "monitor" <=> i \in Len(a) + 1 .. Len(a) + Len(b)
        /\ s[i].role = "proxy" <=> i \in Len(a) + Len(b) + 1 .. Len(a) + Len(b) + Len(c)
        /\ s[i].role = "stroppy" <=> i \in Len(a) + Len(b) + Len(c) + 1 .. Len(s)
  <2> SUFFICES ASSUME NEW i \in 1 .. Len(s)
               PROVE  /\ s[i].role = "database" <=> i \in 0 + 1 .. Len(a)
                      /\ s[i].role = "monitor" <=> i \in Len(a) + 1 .. Len(a) + Len(b)
                      /\ s[i].role = "proxy"
                           <=> i \in Len(a) + Len(b) + 1 .. Len(a) + Len(b) + Len(c)
                      /\ s[i].role = "stroppy" <=> i \in Len(a) + Len(b) + Len(c) + 1 .. Len(s)
    OBVIOUS
  <2>1. CASE i <= Len(a)
    <3>1. s[i] = a[i] /\ i \in 1 .. Len(a)
      BY <1>6, <1>7, <2>1
    <3>2. s[i].role = "database"
      BY <1>5, <3>1
    <3> QED BY <1>7, <2>1, <3>2
  <2>2. CASE i > Len(a) /\ i <= Len(a) + Len(b)
    <3>1. s[i] = b[i - Len(a)] /\ i - Len(a) \in 1 .. Len(b)
      BY <1>6, <1>7, <2>2
    <3>2. s[i].role = "monitor"
      BY <1>5, <3>1
    <3> QED BY <1>7, <2>2, <3>2
  <2>3. CASE i > Len(a) + Len(b) /\ i <= Len(a) + Len(b) + Len(c)
    <3>1. s[i] = c[i - Len(a) - Len(b)] /\ i - Len(a) - Len(b) \in 1 .. Len(c)
      BY <1>6, <1>7, <2>3
    <3>2. s[i].role = "proxy"
      BY <1>5, <3>1
    <3> QED BY <1>7, <2>3, <3>2
  <2>4. CASE i > Len(a) + Len(b) + Len(c)
    <3>1. s[i] = d[i - Len(a) - Len(b) - Len(c)]
          /\ i - Len(a) - Len(b) - Len(c) \in 1 .. Len(d)
      BY <1>6, <1>7, <2>4
    <3>2. s[i].role = "stroppy"
      BY <1>5, <3>1
    <3> QED BY <1>6, <1>7, <2>4, <3>2
  <2> QED BY <1>7, <2>1, <2>2, <2>3, <2>4
<1>9. ASSUME NEW role, NEW lo \in 0 .. Len(s), NEW hi \in lo .. Len(s), NEW q \in Seq(MachineNames),
             Len(q) = hi - lo,
             \A i \in 1 .. Len(s) : s[i].role = role <=> i \in lo + 1 .. hi,
             \A k \in 1 .. hi - lo : s[lo + k].target = q[k]
      PROVE  Cut(role) = q
  <2> DEFINE mine == OfRole(s, role)
  <2>1. /\ mine \in Seq(E)
        /\ Len(mine) = hi - lo
        /\ \A k \in 1 .. hi - lo : mine[k] = s[lo + k]
    <3>1. s \in Seq(E)
      BY <1>6
    <3>2. Together(s, role, lo, hi)
      BY <1>9 DEF Together
    <3>3. lo \in 0 .. Len(s) /\ hi \in lo .. Len(s)
      BY <1>9
    <3> QED BY <3>1, <3>2, <3>3, SelectedPart
  <2>2. Cut(role) = [i \in DOMAIN mine |-> mine[i].target]
    OBVIOUS
  <2> HIDE DEF mine
  <2>3. DOMAIN mine = 1 .. hi - lo /\ DOMAIN q = 1 .. hi - lo
    BY <1>9, <2>1, LenProperties
  <2>4. q = [i \in DOMAIN q |-> q[i]]
    OBVIOUS
  <2>5. \A i \in 1 .. hi - lo : mine[i].target = q[i]
    BY <1>9, <2>1
  <2> HIDE DEF Cut
  <2> QED BY <2>2, <2>3, <2>4, <2>5
<1> HIDE DEF Cut
<1>10. Cut("database") = st.database
  <2> DEFINE lo == 0
  <2> DEFINE hi == Len(a)
  <2>1. lo \in 0 .. Len(s) /\ hi \in lo .. Len(s) /\ hi - lo = Len(a)
    BY <1>6, <1>7
  <2>2. ASSUME NEW k \in 1 .. hi - lo PROVE s[lo + k].target = st.database[k]
    <3>1. lo + k \in 1 .. Len(s) /\ lo + k <= Len(a) /\ lo + k = k /\ k \in 1 .. Len(a)
      BY <1>6, <1>7
    <3>2. s[lo + k] = a[k]
      BY <1>6, <1>7, <3>1
    <3> QED BY <1>5, <3>1, <3>2
  <2>3. \A i \in 1 .. Len(s) : s[i].role = "database" <=> i \in lo + 1 .. hi
    BY <1>8
  <2> HIDE DEF lo, hi
  <2>4. st.database \in Seq(MachineNames) /\ Len(st.database) = hi - lo
    BY <1>2, <1>5, <2>1
  <2> QED BY <1>9, <2>1, <2>2, <2>3, <2>4
<1>11. Cut("monitor") = st.monitor
  <2> DEFINE lo == Len(a)
  <2> DEFINE hi == Len(a) + Len(b)
  <2>1. lo \in 0 .. Len(s) /\ hi \in lo .. Len(s) /\ hi - lo = Len(b)
    BY <1>6, <1>7
  <2>2. ASSUME NEW k \in 1 .. hi - lo PROVE s[lo + k].target = st.monitor[k]
    <3>1. lo + k \in 1 .. Len(s) /\ lo + k > Len(a) /\ lo + k <= Len(a) + Len(b)
          /\ lo + k - Len(a) = k /\ k \in 1 .. Len(b)
      BY <1>6, <1>7
    <3>2. s[lo + k] = b[k]
      BY <1>6, <1>7, <3>1
    <3> QED BY <1>5, <3>1, <3>2
  <2>3. \A i \in 1 .. Len(s) : s[i].role = "monitor" <=> i \in lo + 1 .. hi
    BY <1>8
  <2> HIDE DEF lo, hi
  <2>4. st.monitor \in Seq(MachineNames) /\ Len(st.monitor) = hi - lo
    BY <1>2, <1>5, <2>1
  <2> QED BY <1>9, <2>1, <2>2, <2>3, <2>4
<1>12. Cut("proxy") = st.proxy
  <2> DEFINE lo == Len(a) + Len(b)
  <2> DEFINE hi == Len(a) + Len(b) + Len(c)
  <2>1. lo \in 0 .. Len(s) /\ hi \in lo .. Len(s) /\ hi - lo = Len(c)
    BY <1>6, <1>7
  <2>2. ASSUME NEW k \in 1 .. hi - lo PROVE s[lo + k].target = st.proxy[k]
    <3>1. lo + k \in 1 .. Len(s) /\ lo + k > Len(a) + Len(b) /\ lo + k <= hi
          /\ lo + k - Len(a) - Len(b) = k /\ k \in 1 .. Len(c)
      BY <1>6, <1>7
    <3>2. s[lo + k] = c[k]
      BY <1>6, <1>7, <3>1
    <3> QED BY <1>5, <3>1, <3>2
  <2>3. \A i \in 1 .. Len(s) : s[i].role = "proxy" <=> i \in lo + 1 .. hi
    BY <1>8
  <2> HIDE DEF lo, hi
  <2>4. st.proxy \in Seq(MachineNames) /\ Len(st.proxy) = hi - lo
    BY <1>2, <1>5, <2>1
  <2> QED BY <1>9, <2>1, <2>2, <2>3, <2>4
<1>13. Cut("stroppy") = st.stroppy
  <2> DEFINE lo == Len(a) + Len(b) + Len(c)
  <2> DEFINE hi == Len(s)
  <2>1. lo \in 0 .. Len(s) /\ hi \in lo .. Len(s) /\ hi - lo = Len(d)
    BY <1>6, <1>7
  <2>2. ASSUME NEW k \in 1 .. hi - lo PROVE s[lo + k].target = st.stroppy[k]
    <3>1. lo + k \in 1 .. Len(s) /\ lo + k > Len(a) + Len(b) + Len(c)
          /\ lo + k - Len(a) - Len(b) - Len(c) = k /\ k \in 1 .. Len(d)
      BY <1>6, <1>7
    <3>2. s[lo + k] = d[k]
      BY <1>6, <1>7, <3>1
    <3> QED BY <1>5, <3>1, <3>2
  <2>3. \A i \in 1 .. Len(s) : s[i].role = "stroppy" <=> i \in lo + 1 .. hi
    BY <1>8
  <2> HIDE DEF lo, hi
  <2>4. st.stroppy \in Seq(MachineNames) /\ Len(st.stroppy) = hi - lo
    BY <1>2, <1>5, <2>1
  <2> QED BY <1>9, <2>1, <2>2, <2>3, <2>4
<1> QED BY <1>2, <1>4, <1>10, <1>11, <1>12, <1>13
--------------------------------------------------------------------------------
(* The graph the builder makes of a configuration.                            *)

Graph(c) == INSTANCE Dag WITH
  Nodes        <- Phases(c),
  Deps         <- [p \in Phases(c) |-> DepsOf(c, p)],
  AlwaysRun    <- {"teardown"},
  MustComplete <- {"network", "machines"}

(* Dependencies lead from a phase to phases of lower rank.                    *)
Rank(p) ==
  CASE p = "network"            -> 0
    [] p = "machines"           -> 1
    [] p \in Installs           -> 2
    [] p = "configure_etcd"     -> 3
    [] p = "configure_patroni"  -> 4
    [] p = "configure_db"       -> 5
    [] p \in {"configure_pgbouncer", "configure_proxy", "init_ydb_cluster"} -> 6
    [] p = "start_ydb_database" -> 7
    [] p = "configure_monitor"  -> 8
    [] p = "run_stroppy"        -> 9
    [] p = "teardown"           -> 10

AllPhases ==
  Installs \cup
  {"network", "machines", "configure_db", "configure_monitor", "run_stroppy", "teardown",
   "configure_etcd", "configure_patroni", "configure_pgbouncer", "configure_proxy",
   "init_ydb_cluster", "start_ydb_database"}

LEMMA PhasesKnown == ASSUME NEW c PROVE Phases(c) \subseteq AllPhases
BY DEF Phases, AllPhases, Installs

LEMMA RankIsNat == \A p \in AllPhases : Rank(p) \in Nat
<1> SUFFICES ASSUME NEW p \in AllPhases PROVE Rank(p) \in Nat
  OBVIOUS
<1> QED BY DEF AllPhases, Installs, Rank

LEMMA DepsDescend ==
  ASSUME NEW c, NEW p \in Phases(c)
  PROVE  /\ DepsOf(c, p) \subseteq Phases(c)
         /\ \A d \in DepsOf(c, p) : Rank(d) < Rank(p)
<1> USE DEF DepsOf, Phases, Installs, Rank
<1>1. CASE p \in {"network", "machines"} \cup Installs
  BY <1>1
<1>2. CASE p \in {"configure_monitor", "configure_pgbouncer", "configure_proxy"}
  BY <1>2
<1>3. CASE p = "run_stroppy"
  BY <1>3 DEF RunStroppyDeps
<1>4. CASE p = "teardown"
  BY <1>4
<1>5. CASE p \in {"init_ydb_cluster", "start_ydb_database", "configure_etcd"}
  BY <1>5 DEF DatabaseDeps
<1>6. CASE p \in {"configure_patroni", "configure_db"}
  BY <1>6 DEF DatabaseDeps, ConfigDBDeps
<1> QED BY <1>1, <1>2, <1>3, <1>4, <1>5, <1>6

(* Graph.Validate accepts what the builder adds: every dependency is a phase  *)
(* of the graph and none leads back, whatever the configuration switches on.  *)
THEOREM BuiltGraphValid ==
  ASSUME NEW c
  PROVE  Graph(c)!Valid
<1>1. \A p \in Phases(c) : DepsOf(c, p) \subseteq Phases(c)
  BY DepsDescend
<1>2. ASSUME NEW S \in (SUBSET Phases(c)) \ {{}}
      PROVE  \E n \in S : DepsOf(c, n) \cap S = {}
  <2> DEFINE T == {Rank(p) : p \in S}
  <2>1. T \subseteq Nat /\ T # {}
    BY PhasesKnown, RankIsNat
  <2>2. PICK x \in T : \A y \in T : <<y, x>> \notin NatLess
    <3>1. IsWellFoundedOn(NatLess, Nat)
      BY NatLessThanWellFounded DEF NatLess, OpToRel
    <3> HIDE DEF T
    <3> QED BY <2>1, <3>1, WFMin
  <2>3. NatLess = {ss \in Nat \X Nat : ss[1] < ss[2]}
    BY DEF NatLess, OpToRel
  <2>4. \A y \in T : ~(y < x)
    <3> HIDE DEF T
    <3> SUFFICES ASSUME NEW y \in T, y < x PROVE FALSE
      OBVIOUS
    <3>1. <<y, x>> \in NatLess
      BY <2>1, <2>3
    <3> QED BY <2>2, <3>1
  <2>5. PICK n \in S : Rank(n) = x
    OBVIOUS
  <2>6. \A d \in DepsOf(c, n) : d \notin S
    BY <2>4, <2>5, DepsDescend
  <2> QED BY <2>6
<1> QED BY <1>1, <1>2 DEF Graph!Valid, Graph!Acyclic

(* The phases that are done when the workload may start.                      *)
LEMMA WorkloadLast ==
  ASSUME NEW c, NEW D, "run_stroppy" \in D,
         \A p \in (Phases(c) \cap D) \ {"teardown"} : DepsOf(c, p) \subseteq D
  PROVE  Phases(c) \ {"teardown"} \subseteq D
<1> USE DEF Phases, DepsOf, Installs
<1>1. {"configure_db", "configure_monitor", "install_stroppy"} \subseteq D
  BY DEF RunStroppyDeps
<1>2. \A p \in {"configure_pgbouncer", "configure_proxy", "start_ydb_database"} :
        p \in Phases(c) => p \in D
  BY DEF RunStroppyDeps
<1>3. {"install_monitor", "machines", "network"} \subseteq D
  <2>1. {"install_monitor", "machines"} \subseteq D
    BY <1>1
  <2> QED BY <2>1
<1>4. /\ ConfigDBDeps(c) \subseteq D
      /\ (NeedsPatroni(c) => {"configure_patroni", "install_patroni"} \subseteq D)
  <2>1. CASE NeedsPatroni(c)
    <3>1. "configure_patroni" \in D
      BY <1>1, <2>1 DEF DatabaseDeps
    <3> QED BY <2>1, <3>1 DEF DatabaseDeps
  <2>2. CASE ~NeedsPatroni(c)
    BY <1>1, <2>2 DEF DatabaseDeps
  <2> QED BY <2>1, <2>2
<1>5. "install_db" \in D /\ (NeedsEtcd(c) => {"configure_etcd", "install_etcd"} \subseteq D)
  <2>1. "install_db" \in D /\ (NeedsEtcd(c) => "configure_etcd" \in D)
    BY <1>4 DEF ConfigDBDeps
  <2> QED BY <2>1 DEF DatabaseDeps
<1>6. NeedsPgBouncer(c) => {"configure_pgbouncer", "install_pgbouncer"} \subseteq D
  BY <1>2
<1>7. NeedsProxy(c) => {"configure_proxy", "install_proxy"} \subseteq D
  BY <1>2
<1>8. NeedsYDBInit(c) => {"start_ydb_database", "init_ydb_cluster"} \subseteq D
  BY <1>2 DEF DatabaseDeps
<1> QED BY <1>1, <1>3, <1>4, <1>5, <1>6, <1>7, <1>8

(* builder.go: run_stroppy "depends on all configure phases", and teardown on *)
(* run_stroppy: when the dependencies of the teardown are done, everything    *)
(* is.  This is what RunRecovery assumes of the graph it recovers.            *)
THEOREM TeardownComesLast ==
  ASSUME NEW c, NEW D \in Graph(c)!Restorable, DepsOf(c, "teardown") \subseteq D
  PROVE  Phases(c) \ {"teardown"} \subseteq D
<1>1. "run_stroppy" \in D
  BY DEF DepsOf, Installs
<1>2. \A p \in (Phases(c) \cap D) \ {"teardown"} : DepsOf(c, p) \subseteq D
  BY DEF Graph!Restorable
<1> QED BY <1>1, <1>2, WorkloadLast
================================================================================
