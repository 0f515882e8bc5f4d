--------------------------- MODULE Deployment_proofs ---------------------------
(******************************************************************************)
(* Theorems about a run from end to end (Deployment), for every set of        *)
(* configurations, numbers of attempts, faults and crashes.                   *)
(******************************************************************************)
EXTENDS Deployment, RunPlan_proofs, FiniteSetTheorems

(* Scripts (AgentScripts): what their steps are made of and what they see.    *)
Programs ==
  {"postgres", "mysql", "picodata", "ydb", "etcd", "patroni", "pgbouncer", "haproxy",
   "proxysql", "node_exporter", "vmagent", "mysqld_exporter", "postgres_exporter", "stroppy"}

Daemons ==
  {"postgres", "mysql", "picodata", "ydbd", "ydbd-database", "etcd", "patroni", "pgbouncer",
   "haproxy", "proxysql", "node_exporter", "vmagent"}

Steps ==
  [op : {"install", "fetch", "use"}, arg : Programs]
  \cup [op : {"stop", "try", "restart", "start", "daemon"}, arg : Daemons]
  \cup [op : {"wipe", "trywipe"}, arg : SUBSET Daemons]
  \cup [op : {"found"}, arg : {"postgres", "mysql", "picodata"}]
  \cup [op : {"bootstrap", "join", "replicate", "elect", "form"}, arg : {""}]

(* Clusters have the numbers up to b.                                         *)
MachineRecs(b) ==
  [boot : {"no", "ok", "failed"}, have : SUBSET Programs, up : SUBSET Daemons, data : 0 .. b]

Envs(b) ==
  [first : BOOLEAN, group : BOOLEAN, peer : 0 .. b, quorum : BOOLEAN, nodes : BOOLEAN,
   known : 0 .. b, member : BOOLEAN, fresh : 1 .. b, strict : BOOLEAN]

Outcomes(b) ==
  [have : SUBSET Programs, up : SUBSET Daemons, data : 0 .. b,
   err : {"none", "missing", "repeat", "fault"}, notes : SUBSET {"swallowed", "underfoot"}]

Begun(machine) ==
  [have |-> machine.have, up |-> machine.up, data |-> machine.data,
   err |-> "none", notes |-> {}]

Stepped(x, s, env, hit) ==
  IF x.err # "none" THEN x
  ELSE IF ~hit THEN Do(x, s, env)
  ELSE Hit(x, s, env)

(* r holds the machine before the first step, after it, and so on.            *)
RunOf(r, script, machine, env, bad, b) ==
  /\ r \in [0 .. Len(script) -> Outcomes(b)]
  /\ r[0] = Begun(machine)
  /\ \A i \in 1 .. Len(script) : r[i] = Stepped(r[i-1], script[i], env, i = bad)

LEMMA DoTyped ==
  ASSUME NEW b \in Nat, NEW x \in Outcomes(b), NEW s \in Steps, NEW env \in Envs(b)
  PROVE  Do(x, s, env) \in Outcomes(b)
<1>0. /\ s.op \in {"install", "fetch", "use"} => s.arg \in Programs
      /\ s.op \in {"stop", "try", "daemon", "restart", "start"} => s.arg \in Daemons
      /\ s.op \in {"install", "fetch", "use", "stop", "try", "restart", "start", "daemon", "wipe",
                   "trywipe", "found", "bootstrap", "join", "replicate", "elect", "form"}
  BY DEF Steps
<1>1. CASE s.op \in {"install", "fetch"}
  <2>1. Do(x, s, env) = [x EXCEPT !.have = @ \cup {s.arg}]
    BY <1>1 DEF Do
  <2> QED BY <1>0, <1>1, <2>1 DEF Outcomes
<1>2. CASE s.op = "use"
  <2>1. Do(x, s, env) = IF s.arg \in x.have THEN x ELSE Err(x, "missing")
    BY <1>2 DEF Do
  <2> QED BY <2>1 DEF Err, Outcomes
<1>3. CASE s.op = "stop"
  <2>1. Do(x, s, env) = [x EXCEPT !.up = @ \ {s.arg}]
    BY <1>3 DEF Do
  <2> QED BY <2>1 DEF Outcomes
<1>4. CASE s.op \in {"try", "daemon", "start", "restart"}
  <2>1. Do(x, s, env) \in {Run(x, {s.arg}), Err(x, "repeat"), Run(Member(x, 0), {s.arg})}
    BY <1>4 DEF Do
  <2>2. Member(x, 0) \in Outcomes(b)
    BY DEF Member, Outcomes
  <2>3. Run(x, {s.arg}) \in Outcomes(b) /\ Run(Member(x, 0), {s.arg}) \in Outcomes(b)
    <3> SUFFICES ASSUME NEW y \in Outcomes(b) PROVE Run(y, {s.arg}) \in Outcomes(b)
      BY <2>2
    <3> QED BY <1>0, <1>4 DEF Run, Outcomes
  <2>4. Err(x, "repeat") \in Outcomes(b)
    BY DEF Err, Outcomes
  <2> QED BY <2>1, <2>3, <2>4
<1>5. CASE s.op \in {"wipe", "trywipe"}
  <2>1. Do(x, s, env) = Cleared(x, s.arg)
    BY <1>5 DEF Do
  <2>2. Note(x, "underfoot") \in Outcomes(b)
    BY DEF Note, Outcomes
  <2>3. \A y \in Outcomes(b) : Member(y, 0) \in Outcomes(b)
    BY DEF Member, Outcomes
  <2> QED BY <2>1, <2>2, <2>3 DEF Cleared
<1>6. CASE s.op \in {"found", "bootstrap", "join", "replicate", "form"}
  <2>1. Do(x, s, env) \in {x, Member(x, env.fresh), Member(x, env.peer), Err(x, "missing"),
                           Err(x, "repeat"), Note(x, "swallowed")}
    BY <1>6 DEF Do
  <2>2. env.fresh \in 0 .. b /\ env.peer \in 0 .. b
    BY DEF Envs
  <2> QED BY <2>1, <2>2 DEF Member, Err, Note, Outcomes
<1>7. CASE s.op = "elect"
  <2>1. Do(x, s, env) = Elected(x, env)
    BY <1>7 DEF Do
  <2>2. env.fresh \in 0 .. b /\ env.known \in 0 .. b
    BY DEF Envs
  <2>3. \A k \in 0 .. b : Run(Member(x, k), {"postgres"}) \in Outcomes(b)
    BY DEF Run, Member, Daemons, Outcomes
  <2>4. Err(x, "missing") \in Outcomes(b) /\ Err(x, "repeat") \in Outcomes(b)
    BY DEF Err, Outcomes
  <2> QED BY <2>1, <2>2, <2>3, <2>4 DEF Elected
<1> QED BY <1>0, <1>1, <1>2, <1>3, <1>4, <1>5, <1>6, <1>7

LEMMA SteppedTyped ==
  ASSUME NEW b \in Nat, NEW x \in Outcomes(b), NEW s \in Steps, NEW env \in Envs(b), NEW hit
  PROVE  Stepped(x, s, env, hit) \in Outcomes(b)
<1>1. Do(x, s, env) \in Outcomes(b)
  BY DoTyped
<1>2. \A y \in Outcomes(b) : Note(y, "swallowed") \in Outcomes(b)
  BY DEF Note, Outcomes
<1>3. Err(x, "fault") \in Outcomes(b)
  BY DEF Err, Outcomes
<1> QED BY <1>1, <1>2, <1>3 DEF Stepped, Hit

LEMMA ScriptRuns ==
  ASSUME NEW b \in Nat, NEW script \in Seq(Steps), NEW machine \in MachineRecs(b),
         NEW env \in Envs(b), NEW bad
  PROVE  \E r : /\ RunOf(r, script, machine, env, bad, b)
                /\ Executed(script, machine, env, bad) = r[Len(script)]
<1>0. /\ Len(script) \in Nat /\ DOMAIN script = 1 .. Len(script)
      /\ \A k \in 1 .. Len(script) : script[k] \in Steps
  BY LenProperties, ElementOfSeq
<1> DEFINE n == Len(script)
<1> DEFINE idx == [i \in DOMAIN script |-> i]
<1> DEFINE d == DOMAIN idx
<1> DEFINE g == [x \in (1 .. n) \X Outcomes(b) |->
                   Stepped(x[2], script[x[1]], env, x[1] = bad)]
<1> DEFINE h == CHOOSE it : it = [u \in SUBSET d |->
                  IF u = {} THEN Begun(machine)
                  ELSE Stepped(it[u \ {Max(u)}], script[idx[Max(u)]], env, idx[Max(u)] = bad)]
<1>1. g \in [(1 .. n) \X Outcomes(b) -> Outcomes(b)]
  <2> SUFFICES ASSUME NEW x \in (1 .. n) \X Outcomes(b) PROVE g[x] \in Outcomes(b)
    OBVIOUS
  <2>1. x[1] \in 1 .. n /\ x[2] \in Outcomes(b) /\ script[x[1]] \in Steps
    BY <1>0
  <2> QED BY <2>1, SteppedTyped
<1>2. PICK it : FoldsOver(it, Outcomes(b), Begun(machine), g, n)
  <2>1. Begun(machine) \in Outcomes(b)
    BY DEF Begun, Outcomes, MachineRecs
  <2> HIDE DEF g
  <2> QED BY <1>0, <1>1, <2>1, FoldExists
<1>3. Executed(script, machine, env, bad) = h[d]
  BY DEF Executed, Stepped, Begun, FoldLeftDomain, FoldLeft, MapThenFoldSet
<1> HIDE DEF d, idx
<1>4. d = 1 .. n /\ \A i \in 1 .. n : idx[i] = i
  BY <1>0 DEF d, idx
<1>5. it = [u \in SUBSET d |->
              IF u = {} THEN Begun(machine)
              ELSE Stepped(it[u \ {Max(u)}], script[idx[Max(u)]], env, idx[Max(u)] = bad)]
  <2>1. it = [u \in SUBSET d |-> it[u]]
    BY <1>2, <1>4 DEF FoldsOver
  <2>2. ASSUME NEW u \in SUBSET d
        PROVE  it[u] = IF u = {} THEN Begun(machine)
                       ELSE Stepped(it[u \ {Max(u)}], script[idx[Max(u)]], env,
                                    idx[Max(u)] = bad)
    <3>1. it[u] = IF u = {} THEN Begun(machine) ELSE g[<<Max(u), it[u \ {Max(u)}]>>]
      BY <1>2, <1>4 DEF FoldsOver
    <3>2. CASE u # {}
      <4>a. Max(u) \in u
        BY <1>0, <1>4, <3>2, MaxInside
      <4>1. Max(u) \in 1 .. n /\ idx[Max(u)] = Max(u)
        BY <1>4, <4>a
      <4>2. it[u \ {Max(u)}] \in Outcomes(b)
        BY <1>2, <1>4 DEF FoldsOver
      <4>3. g[<<Max(u), it[u \ {Max(u)}]>>]
              = Stepped(it[u \ {Max(u)}], script[Max(u)], env, Max(u) = bad)
        BY <4>1, <4>2
      <4> QED BY <3>1, <3>2, <4>1, <4>3
    <3> QED BY <3>1, <3>2
  <2> QED BY <2>1, <2>2
<1>6. h = [u \in SUBSET d |->
             IF u = {} THEN Begun(machine)
             ELSE Stepped(h[u \ {Max(u)}], script[idx[Max(u)]], env, idx[Max(u)] = bad)]
  BY <1>5
<1> HIDE DEF h, g
<1>7. \A u \in SUBSET (1 .. n) :
        h[u] = IF u = {} THEN Begun(machine)
               ELSE Stepped(h[u \ {Max(u)}], script[idx[Max(u)]], env, idx[Max(u)] = bad)
  BY <1>4, <1>6
<1> DEFINE r == [k \in 0 .. n |-> h[1 .. k]]
<1>8. r[0] = Begun(machine)
  <2>1. 1 .. 0 = {} /\ 0 \in 0 .. n
    BY <1>0
  <2> QED BY <1>7, <2>1
<1>9. ASSUME NEW k \in 1 .. n
      PROVE  r[k] = Stepped(r[k-1], script[k], env, k = bad)
  <2>1. k \in Nat \ {0} /\ 1 .. k \in SUBSET (1 .. n) /\ k \in 0 .. n /\ k - 1 \in 0 .. n
    BY <1>0
  <2>2. h[1 .. k] = Stepped(h[1 .. (k - 1)], script[idx[k]], env, idx[k] = bad)
    BY <1>7, <2>1, LastOut
  <2> QED BY <1>4, <2>1, <2>2
<1>10. r = [k \in 0 .. n |-> r[k]]
  OBVIOUS
<1>11. Executed(script, machine, env, bad) = r[n]
  BY <1>0, <1>3, <1>4
<1> HIDE DEF r
<1>12. \A k \in 0 .. n : r[k] \in Outcomes(b)
  <2>1. ASSUME NEW k \in 0 + 1 .. n, r[k-1] \in Outcomes(b) PROVE r[k] \in Outcomes(b)
    <3>1. k \in 1 .. n /\ script[k] \in Steps
      BY <1>0
    <3> QED BY <1>9, <2>1, <3>1, SteppedTyped
  <2>2. 0 \in 0 .. n /\ r[0] \in Outcomes(b)
    BY <1>0, <1>8 DEF Begun, Outcomes, MachineRecs
  <2> QED BY <1>0, <2>1, <2>2, Along
<1> QED BY <1>8, <1>9, <1>10, <1>11, <1>12 DEF RunOf

(* What a step does not have that it needs.                                   *)
Lacks(have, s, env) ==
  \/ s.op = "use" /\ s.arg \notin have
  \/ s.op = "join" /\ env.peer = 0
  \/ s.op = "elect" /\ ~env.quorum
  \/ s.op = "form" /\ ~env.nodes

(* A replica is configured and its primary is not there.                      *)
Vain(s, env) == s.op = "replicate" /\ env.peer = 0

Stops(s) == IF s.op = "stop" THEN {s.arg} ELSE {}

(* The steps that may change the cluster a machine of cluster d belongs to.   *)
Moves(s, env, d) ==
  \/ s.op \in {"wipe", "trywipe", "bootstrap", "join", "replicate", "elect", "form"}
  \/ s.op = "restart" /\ env.group
  \/ s.op = "found" /\ d = 0

LEMMA DoStep ==
  ASSUME NEW b \in Nat, NEW x \in Outcomes(b), NEW s \in Steps, NEW env \in Envs(b),
         NEW y, y = Do(x, s, env), x.err = "none"
  PROVE  /\ x.have \subseteq y.have
         /\ x.up \ Stops(s) \subseteq y.up
         /\ ~Moves(s, env, x.data) => y.data = x.data
         /\ x.notes \subseteq y.notes
         /\ "swallowed" \in y.notes => "swallowed" \in x.notes \/ Vain(s, env)
         /\ y.err = "missing" => Lacks(x.have, s, env)
         /\ y.err # "fault"
<1>0. s.op \in {"install", "fetch", "use", "stop", "try", "restart", "start", "daemon", "wipe",
                "trywipe", "found", "bootstrap", "join", "replicate", "elect", "form"}
  BY DEF Steps
<1>a. x = [have |-> x.have, up |-> x.up, data |-> x.data, err |-> x.err, notes |-> x.notes]
  BY DEF Outcomes
<1>1. CASE s.op \in {"install", "fetch"}
  <2>1. y = [x EXCEPT !.have = @ \cup {s.arg}]
    BY <1>1 DEF Do
  <2>2. y = [have |-> x.have \cup {s.arg}, up |-> x.up, data |-> x.data, err |-> x.err,
             notes |-> x.notes]
    BY <1>a, <2>1
  <2> QED BY <2>2
<1>2. CASE s.op = "use"
  <2>1. y = IF s.arg \in x.have THEN x ELSE Err(x, "missing")
    BY <1>2 DEF Do
  <2>2. y = [have |-> x.have, up |-> x.up, data |-> x.data, notes |-> x.notes,
             err |-> IF s.arg \in x.have THEN x.err ELSE "missing"]
    BY <1>a, <2>1 DEF Err
  <2> QED BY <1>2, <2>2 DEF Lacks
<1>3. CASE s.op = "stop"
  <2>1. y = [x EXCEPT !.up = @ \ {s.arg}]
    BY <1>3 DEF Do
  <2>2. y = [have |-> x.have, up |-> x.up \ {s.arg}, data |-> x.data, err |-> x.err,
             notes |-> x.notes]
    BY <1>a, <2>1
  <2> QED BY <1>3, <2>2 DEF Stops
<1>4. CASE s.op \in {"try", "daemon", "start", "restart"}
  <2>1. \/ y = Run(x, {s.arg})
        \/ y = Err(x, "repeat")
        \/ y = Run(Member(x, 0), {s.arg}) /\ Moves(s, env, x.data)
    BY <1>4 DEF Do, Moves
  <2>2. CASE y = Run(x, {s.arg})
    <3>1. y = [have |-> x.have, up |-> x.up \cup {s.arg}, data |-> x.data, err |-> x.err,
               notes |-> x.notes]
      BY <1>a, <2>2 DEF Run
    <3> QED BY <3>1
  <2>3. CASE y = Err(x, "repeat")
    <3>1. y = [have |-> x.have, up |-> x.up, data |-> x.data, err |-> "repeat",
               notes |-> x.notes]
      BY <1>a, <2>3 DEF Err
    <3> QED BY <3>1
  <2>4. CASE y = Run(Member(x, 0), {s.arg}) /\ Moves(s, env, x.data)
    <3>1. y = [have |-> x.have, up |-> x.up \cup {s.arg}, data |-> 0, err |-> x.err,
               notes |-> x.notes]
      BY <1>a, <2>4 DEF Run, Member
    <3> QED BY <2>4, <3>1
  <2> QED BY <2>1, <2>2, <2>3, <2>4
<1>5. CASE s.op \in {"wipe", "trywipe"}
  <2>1. y = Cleared(x, s.arg) /\ Moves(s, env, x.data)
    BY <1>5 DEF Do, Moves
  <2>2. y = [have |-> x.have, up |-> x.up, data |-> 0, err |-> x.err,
             notes |-> IF s.arg \cap x.up # {} THEN x.notes \cup {"underfoot"} ELSE x.notes]
    BY <1>a, <2>1 DEF Cleared, Note, Member
  <2> QED BY <2>1, <2>2
<1>6. CASE s.op \in {"found", "bootstrap", "join", "replicate", "form"}
  <2>1. /\ Moves(s, env, x.data) \/ y = x
        /\ \/ y = x \/ y = Member(x, env.fresh) \/ y = Member(x, env.peer)
           \/ y = Err(x, "repeat") \/ (y = Err(x, "missing") /\ Lacks(x.have, s, env))
           \/ (y = Note(x, "swallowed") /\ Vain(s, env))
    BY <1>6 DEF Do, Moves, Lacks, Vain
  <2>2. \E d, e, k :
          /\ y = [have |-> x.have, up |-> x.up, data |-> d, err |-> e, notes |-> k]
          /\ e \in {"none", "repeat"} \/ (e = "missing" /\ Lacks(x.have, s, env))
          /\ k = x.notes \/ (k = x.notes \cup {"swallowed"} /\ Vain(s, env))
          /\ Moves(s, env, x.data) \/ d = x.data
    BY <1>a, <2>1 DEF Member, Err, Note
  <2> QED BY <2>1, <2>2
<1>7. CASE s.op = "elect"
  <2>1. y = Elected(x, env) /\ Moves(s, env, x.data)
    BY <1>7 DEF Do, Moves
  <2>2. \/ \E d : y = [have |-> x.have, up |-> x.up \cup {"postgres"}, data |-> d, err |-> x.err,
                       notes |-> x.notes]
        \/ y = [have |-> x.have, up |-> x.up, data |-> x.data, err |-> "repeat",
                notes |-> x.notes]
        \/ /\ y = [have |-> x.have, up |-> x.up, data |-> x.data, err |-> "missing",
                   notes |-> x.notes]
           /\ Lacks(x.have, s, env)
    BY <1>a, <1>7, <2>1 DEF Elected, Run, Member, Err, Lacks
  <2> QED BY <2>1, <2>2
<1> QED BY <1>0, <1>1, <1>2, <1>3, <1>4, <1>5, <1>6, <1>7

LEMMA OneStep ==
  ASSUME NEW b \in Nat, NEW x \in Outcomes(b), NEW s \in Steps, NEW env \in Envs(b),
         NEW hit \in BOOLEAN, NEW y, y = Stepped(x, s, env, hit)
  PROVE  /\ x.have \subseteq y.have
         /\ x.up \ Stops(s) \subseteq y.up
         /\ ~Moves(s, env, x.data) => y.data = x.data
         /\ x.notes \subseteq y.notes
         /\ x.err # "none" => y.err = x.err
         /\ y.err = "none" => y = Do(x, s, env) \/ Tolerated(s, x) \/ Unseen(s)
         /\ y.err = "none" /\ "swallowed" \notin y.notes => y = Do(x, s, env)
         /\ y.err = "missing" /\ x.err = "none" => Lacks(x.have, s, env)
         /\ ~hit /\ "swallowed" \in y.notes => "swallowed" \in x.notes \/ Vain(s, env)
         /\ ~hit /\ y.err = "fault" => x.err = "fault"
<1>a. x = [have |-> x.have, up |-> x.up, data |-> x.data, err |-> x.err, notes |-> x.notes]
  BY DEF Outcomes
<1>1. CASE x.err # "none"
  BY <1>1 DEF Stepped
<1>2. CASE x.err = "none" /\ ~hit
  <2>1. y = Do(x, s, env)
    BY <1>2 DEF Stepped
  <2> QED BY <1>2, <2>1, DoStep
<1>3. CASE x.err = "none" /\ hit /\ Tolerated(s, x)
  <2>1. y = Note(x, "swallowed")
    BY <1>3 DEF Stepped, Hit
  <2>2. /\ y.have = x.have /\ y.up = x.up /\ y.data = x.data /\ y.err = x.err
        /\ y.notes = x.notes \cup {"swallowed"}
    BY <1>a, <2>1 DEF Note
  <2> QED BY <1>3, <2>2
<1>4. CASE x.err = "none" /\ hit /\ ~Tolerated(s, x) /\ Unseen(s) /\ ~env.strict
  <2>1. y = Note(IF s.op = "install" THEN Do(x, s, env) ELSE x, "swallowed")
    BY <1>4 DEF Stepped, Hit
  <2>2. s.op = "install" => Do(x, s, env) = [x EXCEPT !.have = @ \cup {s.arg}]
    BY DEF Do
  <2>3. /\ x.have \subseteq y.have /\ y.up = x.up /\ y.data = x.data /\ y.err = x.err
        /\ y.notes = x.notes \cup {"swallowed"}
    BY <1>a, <2>1, <2>2 DEF Note
  <2> QED BY <1>4, <2>3
<1>5. CASE x.err = "none" /\ hit /\ ~Tolerated(s, x) /\ ~(Unseen(s) /\ ~env.strict)
  <2>1. y = Err(x, "fault")
    BY <1>5 DEF Stepped, Hit
  <2>2. /\ y.have = x.have /\ y.up = x.up /\ y.data = x.data /\ y.err = "fault"
        /\ y.notes = x.notes
    BY <1>a, <2>1 DEF Err
  <2> QED BY <1>5, <2>2
<1> QED BY <1>1, <1>2, <1>3, <1>4, <1>5

StoppedBy(script) == UNION {Stops(script[i]) : i \in 1 .. Len(script)}

LEMMA AlongScript ==
  ASSUME NEW b \in Nat, NEW script \in Seq(Steps), NEW machine \in MachineRecs(b),
         NEW env \in Envs(b), NEW bad \in Nat, NEW r, RunOf(r, script, machine, env, bad, b),
         NEW n, n = Len(script)
  PROVE  /\ n \in Nat
         /\ r[n] \in Outcomes(b)
         /\ \A i \in 0 .. n : machine.have \subseteq r[i].have
         /\ machine.up \ StoppedBy(script) \subseteq r[n].up
         /\ (\A i \in 1 .. n : ~Moves(script[i], env, machine.data)) => r[n].data = machine.data
         /\ r[n].err = "none" =>
              \A i \in 1 .. n : \/ r[i] = Do(r[i-1], script[i], env)
                                \/ Tolerated(script[i], r[i-1]) \/ Unseen(script[i])
         /\ r[n].err = "none" => \A i \in 0 .. n : r[i].err = "none"
         /\ r[n].err = "none" /\ "swallowed" \notin r[n].notes =>
              \A i \in 1 .. n : r[i] = Do(r[i-1], script[i], env) /\ "swallowed" \notin r[i].notes
         /\ r[n].err = "missing" => \E i \in 1 .. n : Lacks(machine.have, script[i], env)
         /\ bad = 0 => r[n].err # "fault"
         /\ bad = 0 /\ "swallowed" \in r[n].notes => \E i \in 1 .. n : Vain(script[i], env)
<1>0. /\ n \in Nat
      /\ \A i \in 1 .. n : i - 1 \in 0 .. n /\ i \in 0 .. n
      /\ 0 \in 0 .. n /\ n \in 0 .. n
      /\ \A i \in 1 .. n : script[i] \in Steps
  BY LenProperties, ElementOfSeq
<1>1. /\ \A i \in 0 .. n : r[i] \in Outcomes(b)
      /\ r[0] = Begun(machine)
      /\ \A i \in 1 .. n : r[i] = Stepped(r[i-1], script[i], env, i = bad)
  BY DEF RunOf
<1>2. /\ r[0].have = machine.have /\ r[0].up = machine.up /\ r[0].data = machine.data
      /\ r[0].err = "none" /\ r[0].notes = {}
  BY <1>1 DEF Begun
<1>3. ASSUME NEW i \in 1 .. n
      PROVE  /\ r[i-1].have \subseteq r[i].have
             /\ r[i-1].up \ Stops(script[i]) \subseteq r[i].up
             /\ ~Moves(script[i], env, r[i-1].data) => r[i].data = r[i-1].data
             /\ r[i-1].notes \subseteq r[i].notes
             /\ r[i-1].err # "none" => r[i].err = r[i-1].err
             /\ r[i].err = "none" =>
                  \/ r[i] = Do(r[i-1], script[i], env)
                  \/ Tolerated(script[i], r[i-1]) \/ Unseen(script[i])
             /\ r[i].err = "none" /\ "swallowed" \notin r[i].notes =>
                  r[i] = Do(r[i-1], script[i], env)
             /\ r[i].err = "missing" /\ r[i-1].err = "none" => Lacks(r[i-1].have, script[i], env)
             /\ i # bad /\ "swallowed" \in r[i].notes =>
                  "swallowed" \in r[i-1].notes \/ Vain(script[i], env)
             /\ i # bad /\ r[i].err = "fault" => r[i-1].err = "fault"
  <2>1. PICK hit \in BOOLEAN : hit <=> (i = bad)
    OBVIOUS
  <2>2. r[i-1] \in Outcomes(b) /\ script[i] \in Steps
    BY <1>0, <1>1
  <2>3. r[i] = Stepped(r[i-1], script[i], env, hit)
    BY <1>1, <2>1 DEF Stepped
  <2>4. PICK x, y, s : x = r[i-1] /\ y = r[i] /\ s = script[i]
    OBVIOUS
  <2>5. x \in Outcomes(b) /\ s \in Steps /\ y = Stepped(x, s, env, hit)
    BY <2>2, <2>3, <2>4
  <2>6. /\ x.have \subseteq y.have
        /\ x.up \ Stops(s) \subseteq y.up
        /\ ~Moves(s, env, x.data) => y.data = x.data
        /\ x.notes \subseteq y.notes
        /\ x.err # "none" => y.err = x.err
        /\ y.err = "none" => y = Do(x, s, env) \/ Tolerated(s, x) \/ Unseen(s)
        /\ y.err = "none" /\ "swallowed" \notin y.notes => y = Do(x, s, env)
        /\ y.err = "missing" /\ x.err = "none" => Lacks(x.have, s, env)
        /\ ~hit /\ "swallowed" \in y.notes => "swallowed" \in x.notes \/ Vain(s, env)
        /\ ~hit /\ y.err = "fault" => x.err = "fault"
    BY <2>5, OneStep
  <2> QED BY <2>1, <2>4, <2>6
<1>4. \A i \in 0 .. n : machine.have \subseteq r[i].have
  <2> DEFINE P == {y \in Outcomes(b) : machine.have \subseteq y.have}
  <2>1. ASSUME NEW i \in 0 + 1 .. n, r[i-1] \in P PROVE r[i] \in P
    <3>1. i \in 1 .. n
      BY <1>0
    <3>2. r[i-1].have \subseteq r[i].have /\ r[i] \in Outcomes(b)
      BY <1>0, <1>1, <1>3, <3>1
    <3> QED BY <2>1, <3>2
  <2>2. r[0] \in P
    BY <1>0, <1>1, <1>2
  <2>3. \A i \in 0 .. n : r[i] \in P
    <3> HIDE DEF P
    <3> QED BY <1>0, <2>1, <2>2, Along
  <2> QED BY <2>3
<1>5. machine.up \ StoppedBy(script) \subseteq r[n].up
  <2> DEFINE P == {y \in Outcomes(b) : machine.up \ StoppedBy(script) \subseteq y.up}
  <2>1. ASSUME NEW i \in 0 + 1 .. n, r[i-1] \in P PROVE r[i] \in P
    <3>1. i \in 1 .. n
      BY <1>0
    <3>2. r[i-1].up \ Stops(script[i]) \subseteq r[i].up /\ r[i] \in Outcomes(b)
      BY <1>0, <1>1, <1>3, <3>1
    <3>3. Stops(script[i]) \subseteq StoppedBy(script)
      BY <3>1 DEF StoppedBy
    <3> QED BY <2>1, <3>2, <3>3
  <2>2. r[0] \in P
    BY <1>0, <1>1, <1>2
  <2>3. \A i \in 0 .. n : r[i] \in P
    <3> HIDE DEF P
    <3> QED BY <1>0, <2>1, <2>2, Along
  <2> QED BY <1>0, <2>3
<1>6. ASSUME \A i \in 1 .. n : ~Moves(script[i], env, machine.data)
      PROVE  r[n].data = machine.data
  <2> DEFINE P == {y \in Outcomes(b) : y.data = machine.data}
  <2>1. ASSUME NEW i \in 0 + 1 .. n, r[i-1] \in P PROVE r[i] \in P
    <3>1. i \in 1 .. n
      BY <1>0
    <3>2. r[i].data = r[i-1].data /\ r[i] \in Outcomes(b)
      BY <1>0, <1>1, <1>3, <1>6, <2>1, <3>1
    <3> QED BY <2>1, <3>2
  <2>2. r[0] \in P
    BY <1>0, <1>1, <1>2
  <2>3. \A i \in 0 .. n : r[i] \in P
    <3> HIDE DEF P
    <3> QED BY <1>0, <2>1, <2>2, Along
  <2> QED BY <1>0, <2>3
<1>7. ASSUME r[n].err = "none" PROVE \A i \in 0 .. n : r[i].err = "none"
  <2> SUFFICES ASSUME NEW j \in 0 .. n, r[j].err # "none" PROVE FALSE
    OBVIOUS
  <2> DEFINE P == {y \in Outcomes(b) : y.err # "none"}
  <2>1. ASSUME NEW i \in j + 1 .. n, r[i-1] \in P PROVE r[i] \in P
    <3>1. i \in 1 .. n
      BY <1>0
    <3>2. (r[i-1].err # "none" => r[i].err = r[i-1].err) /\ r[i] \in Outcomes(b)
      BY <1>0, <1>1, <1>3, <3>1
    <3> QED BY <2>1, <3>2
  <2>2. r[j] \in P
    BY <1>1
  <2>3. \A i \in j .. n : r[i] \in P
    <3> HIDE DEF P
    <3> QED BY <1>0, <2>1, <2>2, Along
  <2>4. n \in j .. n
    BY <1>0
  <2> QED BY <1>7, <2>3, <2>4
<1>8. ASSUME "swallowed" \notin r[n].notes PROVE \A i \in 0 .. n : "swallowed" \notin r[i].notes
  <2> SUFFICES ASSUME NEW j \in 0 .. n, "swallowed" \in r[j].notes PROVE FALSE
    OBVIOUS
  <2> DEFINE P == {y \in Outcomes(b) : "swallowed" \in y.notes}
  <2>1. ASSUME NEW i \in j + 1 .. n, r[i-1] \in P PROVE r[i] \in P
    <3>1. i \in 1 .. n
      BY <1>0
    <3>2. r[i-1].notes \subseteq r[i].notes /\ r[i] \in Outcomes(b)
      BY <1>0, <1>1, <1>3, <3>1
    <3> QED BY <2>1, <3>2
  <2>2. r[j] \in P
    BY <1>1
  <2>3. \A i \in j .. n : r[i] \in P
    <3> HIDE DEF P
    <3> QED BY <1>0, <2>1, <2>2, Along
  <2>4. n \in j .. n
    BY <1>0
  <2> QED BY <1>8, <2>3, <2>4
<1>9. ASSUME \A i \in 1 .. n : ~Lacks(machine.have, script[i], env) PROVE r[n].err # "missing"
  <2> DEFINE P == {y \in Outcomes(b) : y.err # "missing"}
  <2>1. ASSUME NEW i \in 0 + 1 .. n, r[i-1] \in P PROVE r[i] \in P
    <3>1. i \in 1 .. n /\ i - 1 \in 0 .. n
      BY <1>0
    <3>2. machine.have \subseteq r[i-1].have
      BY <1>4, <3>1
    <3>3. ~Lacks(r[i-1].have, script[i], env)
      BY <1>9, <3>1, <3>2 DEF Lacks
    <3>4. r[i].err = "missing" /\ r[i-1].err = "none" => Lacks(r[i-1].have, script[i], env)
      BY <1>3, <3>1
    <3>5. r[i-1].err # "none" => r[i].err = r[i-1].err
      BY <1>3, <3>1
    <3>6. r[i] \in Outcomes(b) /\ r[i-1].err # "missing"
      BY <1>0, <1>1, <2>1, <3>1
    <3>7. r[i].err # "missing"
      BY <3>3, <3>4, <3>5, <3>6
    <3> QED BY <3>6, <3>7
  <2>2. r[0] \in P
    BY <1>0, <1>1, <1>2
  <2>3. \A i \in 0 .. n : r[i] \in P
    <3> HIDE DEF P
    <3> QED BY <1>0, <2>1, <2>2, Along
  <2> QED BY <1>0, <2>3
<1>10. ASSUME bad = 0 PROVE r[n].err # "fault"
  <2> DEFINE P == {y \in Outcomes(b) : y.err # "fault"}
  <2>1. ASSUME NEW i \in 0 + 1 .. n, r[i-1] \in P PROVE r[i] \in P
    <3>1. i \in 1 .. n /\ i # bad
      BY <1>0, <1>10
    <3>2. r[i].err = "fault" => r[i-1].err = "fault"
      BY <1>3, <3>1
    <3>3. r[i] \in Outcomes(b)
      BY <1>0, <1>1, <3>1
    <3> QED BY <2>1, <3>2, <3>3
  <2>2. r[0] \in P
    BY <1>0, <1>1, <1>2
  <2>3. \A i \in 0 .. n : r[i] \in P
    <3> HIDE DEF P
    <3> QED BY <1>0, <2>1, <2>2, Along
  <2> QED BY <1>0, <2>3
<1>11. ASSUME bad = 0, \A i \in 1 .. n : ~Vain(script[i], env)
       PROVE  "swallowed" \notin r[n].notes
  <2> DEFINE P == {y \in Outcomes(b) : "swallowed" \notin y.notes}
  <2>1. ASSUME NEW i \in 0 + 1 .. n, r[i-1] \in P PROVE r[i] \in P
    <3>1. i \in 1 .. n /\ i # bad
      BY <1>0, <1>11
    <3>2. "swallowed" \in r[i].notes => "swallowed" \in r[i-1].notes
      BY <1>3, <1>11, <3>1
    <3>3. r[i] \in Outcomes(b)
      BY <1>0, <1>1, <3>1
    <3> QED BY <2>1, <3>2, <3>3
  <2>2. r[0] \in P
    BY <1>0, <1>1, <1>2
  <2>3. \A i \in 0 .. n : r[i] \in P
    <3> HIDE DEF P
    <3> QED BY <1>0, <2>1, <2>2, Along
  <2> QED BY <1>0, <2>3
<1>12. ASSUME r[n].err = "none"
       PROVE  \A i \in 1 .. n : \/ r[i] = Do(r[i-1], script[i], env)
                                \/ Tolerated(script[i], r[i-1]) \/ Unseen(script[i])
  BY <1>0, <1>3, <1>7, <1>12
<1>13. ASSUME r[n].err = "none", "swallowed" \notin r[n].notes
       PROVE  \A i \in 1 .. n : r[i] = Do(r[i-1], script[i], env) /\ "swallowed" \notin r[i].notes
  BY <1>0, <1>3, <1>7, <1>8, <1>13
<1>14. r[n] \in Outcomes(b)
  BY <1>0, <1>1
<1> QED BY <1>0, <1>4, <1>5, <1>6, <1>7, <1>9, <1>10, <1>11, <1>12, <1>13, <1>14

LEMMA StepByStep ==
  ASSUME NEW b \in Nat, NEW script \in Seq(Steps), NEW machine \in MachineRecs(b),
         NEW env \in Envs(b), NEW bad \in Nat, NEW r, RunOf(r, script, machine, env, bad, b),
         r[Len(script)].err = "none"
  PROVE  /\ \A i \in 1 .. Len(script) : \/ r[i] = Do(r[i-1], script[i], env)
                                         \/ Tolerated(script[i], r[i-1]) \/ Unseen(script[i])
         /\ \A i \in 0 .. Len(script) : r[i].err = "none"
<1>1. PICK n : n = Len(script)
  OBVIOUS
<1>2. RunOf(r, script, machine, env, bad, b) /\ r[n].err = "none"
  BY <1>1
<1>3. /\ \A i \in 1 .. n : \/ r[i] = Do(r[i-1], script[i], env)
                             \/ Tolerated(script[i], r[i-1]) \/ Unseen(script[i])
      /\ \A i \in 0 .. n : r[i].err = "none"
  BY <1>1, <1>2, AlongScript
<1> QED BY <1>1, <1>3

(* A step that succeeds.                                                      *)
After(x, s, env, y) ==
  /\ x.have \subseteq y.have
  /\ s.op \in {"install", "fetch"} => s.arg \in y.have /\ y.up = x.up /\ y.data = x.data
  /\ s.op = "use" => s.arg \in x.have /\ y = x
  /\ s.op = "stop" => y.up = x.up \ {s.arg} /\ y.data = x.data
  /\ s.op \in {"try", "daemon", "start"} => y.up = x.up \cup {s.arg} /\ y.data = x.data
  /\ s.op = "restart" => /\ y.up = x.up \cup {s.arg}
                         /\ ~env.group => y.data = x.data
  /\ s.op \in {"wipe", "trywipe"} => y.up = x.up /\ y.data = 0
  /\ s.op = "found" => /\ y.up = x.up /\ y.data # 0
                       /\ x.data # 0 => y.data = x.data
  /\ s.op = "bootstrap" => y.up = x.up /\ y.data = env.fresh
  /\ s.op = "join" => y.up = x.up /\ y.data = env.peer /\ env.peer # 0
  /\ s.op = "replicate" => y.up = x.up /\ y.data = env.peer /\ env.peer # 0 /\ x.data = 0
  /\ s.op = "elect" => /\ y.up = x.up \cup {"postgres"}
                       /\ y.data = IF env.known = 0 THEN env.fresh ELSE env.known
  /\ s.op = "form" => y.up = x.up /\ y.data = env.fresh

LEMMA DoneStep ==
  ASSUME NEW b \in Nat, NEW x \in Outcomes(b), NEW s \in Steps, NEW env \in Envs(b),
         NEW y, y = Do(x, s, env), x.err = "none", y.err = "none",
         ~Vain(s, env) \/ "swallowed" \notin y.notes
  PROVE  After(x, s, env, y)
<1>a. x = [have |-> x.have, up |-> x.up, data |-> x.data, err |-> x.err, notes |-> x.notes]
  BY DEF Outcomes
<1>b. env.fresh # 0 /\ env.group \in BOOLEAN /\ x.data \in Nat
  BY DEF Envs, Outcomes
<1>e. \A e : e # "none" => y # Err(x, e)
  BY <1>a DEF Err
<1>m. ASSUME NEW d, y = Member(x, d) PROVE y.up = x.up /\ y.data = d
  BY <1>a, <1>m DEF Member
<1>r. ASSUME NEW us, y = Run(x, us) PROVE y.up = x.up \cup us /\ y.data = x.data
  BY <1>a, <1>r DEF Run
<1>mr. ASSUME NEW us, NEW d, y = Run(Member(x, d), us)
       PROVE  y.up = x.up \cup us /\ y.data = d
  BY <1>a, <1>mr DEF Run, Member
<1>1. ASSUME s.op \in {"install", "fetch"}
      PROVE  s.arg \in y.have /\ y.up = x.up /\ y.data = x.data
  <2>1. y = [x EXCEPT !.have = @ \cup {s.arg}]
    BY <1>1 DEF Do
  <2> QED BY <1>a, <2>1
<1>2. ASSUME s.op = "use" PROVE s.arg \in x.have /\ y = x
  <2>1. y = IF s.arg \in x.have THEN x ELSE Err(x, "missing")
    BY <1>2 DEF Do
  <2> QED BY <1>e, <2>1
<1>3. ASSUME s.op = "stop" PROVE y.up = x.up \ {s.arg} /\ y.data = x.data
  <2>1. y = [x EXCEPT !.up = @ \ {s.arg}]
    BY <1>3 DEF Do
  <2> QED BY <1>a, <2>1
<1>4. ASSUME s.op \in {"try", "daemon", "start"}
      PROVE  y.up = x.up \cup {s.arg} /\ y.data = x.data
  <2>1. y = Run(x, {s.arg}) \/ y = Err(x, "repeat")
    BY <1>4 DEF Do
  <2> QED BY <1>e, <1>r, <2>1
<1>5. ASSUME s.op = "restart"
      PROVE  y.up = x.up \cup {s.arg} /\ (~env.group => y.data = x.data)
  <2>1. y = Run(x, {s.arg}) \/ (env.group /\ y = Run(Member(x, 0), {s.arg}))
    BY <1>b, <1>5 DEF Do
  <2> QED BY <1>r, <1>mr, <2>1
<1>6. ASSUME s.op \in {"wipe", "trywipe"} PROVE y.up = x.up /\ y.data = 0
  <2>1. y = Cleared(x, s.arg)
    BY <1>6 DEF Do
  <2>2. y = [have |-> x.have, up |-> x.up, data |-> 0, err |-> x.err,
             notes |-> IF s.arg \cap x.up # {} THEN x.notes \cup {"underfoot"} ELSE x.notes]
    BY <1>a, <2>1 DEF Cleared, Note, Member
  <2> QED BY <2>2
<1>7. ASSUME s.op = "found"
      PROVE  y.up = x.up /\ y.data # 0 /\ (x.data # 0 => y.data = x.data)
  <2>1. y = IF x.data = 0 THEN Member(x, env.fresh) ELSE x
    BY <1>7 DEF Do
  <2> QED BY <1>b, <1>m, <2>1
<1>8. ASSUME s.op = "bootstrap" PROVE y.up = x.up /\ y.data = env.fresh
  <2>1. y = Member(x, env.fresh)
    BY <1>8 DEF Do
  <2> QED BY <1>m, <2>1
<1>9. ASSUME s.op = "join" PROVE y.up = x.up /\ y.data = env.peer /\ env.peer # 0
  <2>1. y = IF env.peer = 0 THEN Err(x, "missing") ELSE Member(x, env.peer)
    BY <1>9 DEF Do
  <2> QED BY <1>e, <1>m, <2>1
<1>10. ASSUME s.op = "replicate"
       PROVE  y.up = x.up /\ y.data = env.peer /\ env.peer # 0 /\ x.data = 0
  <2>1. y = IF x.data # 0 THEN Err(x, "repeat")
            ELSE IF env.peer = 0 THEN Note(x, "swallowed") ELSE Member(x, env.peer)
    BY <1>10 DEF Do
  <2>2. env.peer # 0
    <3> SUFFICES ASSUME env.peer = 0 PROVE FALSE
      OBVIOUS
    <3>1. y = Note(x, "swallowed")
      BY <1>e, <2>1
    <3>2. "swallowed" \in y.notes
      BY <1>a, <3>1 DEF Note
    <3> QED BY <1>10, <3>2 DEF Vain
  <2> QED BY <1>e, <1>m, <2>1, <2>2
<1>11. ASSUME s.op = "elect"
       PROVE  /\ y.up = x.up \cup {"postgres"}
              /\ y.data = IF env.known = 0 THEN env.fresh ELSE env.known
  <2>1. y = Elected(x, env)
    BY <1>11 DEF Do
  <2>2. \/ env.known = 0 /\ y = Run(Member(x, env.fresh), {"postgres"})
        \/ env.known # 0 /\ y = Run(Member(x, env.known), {"postgres"})
        \/ y = Err(x, "missing") \/ y = Err(x, "repeat")
    BY <2>1 DEF Elected
  <2> QED BY <1>e, <1>mr, <2>2
<1>12. ASSUME s.op = "form" PROVE y.up = x.up /\ y.data = env.fresh
  <2>1. y = Err(x, "missing") \/ y = Err(x, "repeat") \/ y = Member(x, env.fresh)
    BY <1>12 DEF Do
  <2> QED BY <1>e, <1>m, <2>1
<1>13. x.have \subseteq y.have
  BY DoStep
<1> QED BY <1>1, <1>2, <1>3, <1>4, <1>5, <1>6, <1>7, <1>8, <1>9, <1>10, <1>11, <1>12, <1>13
        DEF After
--------------------------------------------------------------------------------
(* The script of each phase.                                                  *)

WorkPhases == AllPhases \ {"network", "machines", "teardown"}

LEMMA InstallScripts ==
  ASSUME NEW c, c.kind \in Kinds, NEW m, NEW env
  PROVE  /\ Script(c, "install_db", m, env) = IF c.kind = "ydb" THEN <<Fetch("ydb")>>
                                                                ELSE <<Install(c.kind)>>
         /\ Script(c, "install_proxy", m, env) = <<Install(ProxyService(c.kind))>>
         /\ Script(c, "install_etcd", m, env) = <<Install("etcd")>>
         /\ Script(c, "install_patroni", m, env) = <<Install("patroni")>>
         /\ Script(c, "install_pgbouncer", m, env) = <<Install("pgbouncer")>>
         /\ Script(c, "install_stroppy", m, env) = <<Fetch("stroppy")>>
         /\ Script(c, "run_stroppy", m, env) = <<Use("stroppy")>>
         /\ Script(c, "install_monitor", m, env) = InstallMonitor(c, m)
<1>1. Script(c, "install_db", m, env) = IF c.kind = "ydb" THEN <<Fetch("ydb")>>
                                                         ELSE <<Install(c.kind)>>
  BY DEF Script, Action, InstallPackage, InstallYDB
<1>2. Script(c, "install_proxy", m, env) = <<Install(ProxyService(c.kind))>>
  BY DEF Script, Action, InstallProxySQL, InstallHAProxy, ProxyService
<1>3. Script(c, "install_etcd", m, env) = <<Install("etcd")>>
  BY DEF Script, Action, InstallEtcd
<1>4. Script(c, "install_patroni", m, env) = <<Install("patroni")>>
  BY DEF Script, Action, InstallPatroni
<1>5. Script(c, "install_pgbouncer", m, env) = <<Install("pgbouncer")>>
  BY DEF Script, Action, InstallPgBouncer
<1>6. Script(c, "install_stroppy", m, env) = <<Fetch("stroppy")>>
  BY DEF Script, Action, InstallStroppy
<1>7. Script(c, "run_stroppy", m, env) = <<Use("stroppy")>>
  BY DEF Script, Action, RunStroppy
<1>8. Script(c, "install_monitor", m, env) = InstallMonitor(c, m)
  BY DEF Script, Action
<1> QED BY <1>1, <1>2, <1>3, <1>4, <1>5, <1>6, <1>7, <1>8

LEMMA ConfigureScripts ==
  ASSUME NEW c, c.kind \in Kinds, NEW m, NEW env
  PROVE  /\ c.kind = "postgres" => Script(c, "configure_db", m, env) = ConfigPostgres(env)
         /\ c.kind = "mysql" => Script(c, "configure_db", m, env) = ConfigMySQL(env)
         /\ c.kind = "picodata" => Script(c, "configure_db", m, env) = ConfigPicodata(env)
         /\ c.kind = "ydb" => Script(c, "configure_db", m, env) = ConfigYDB
         /\ Script(c, "configure_proxy", m, env)
              = <<Use(ProxyService(c.kind)), Daemon(ProxyService(c.kind))>>
         /\ Script(c, "configure_etcd", m, env) = ConfigEtcd
         /\ Script(c, "configure_patroni", m, env) = ConfigPatroni
         /\ Script(c, "configure_pgbouncer", m, env) = ConfigPgBouncer
         /\ Script(c, "configure_monitor", m, env) = ConfigMonitor
         /\ Script(c, "init_ydb_cluster", m, env) = InitYDB
         /\ Script(c, "start_ydb_database", m, env) = StartYDBDB
<1>1. /\ c.kind = "postgres" => Script(c, "configure_db", m, env) = ConfigPostgres(env)
      /\ c.kind = "mysql" => Script(c, "configure_db", m, env) = ConfigMySQL(env)
      /\ c.kind = "picodata" => Script(c, "configure_db", m, env) = ConfigPicodata(env)
      /\ c.kind = "ydb" => Script(c, "configure_db", m, env) = ConfigYDB
  BY DEF Script, Action, Handler
<1>2. Script(c, "configure_proxy", m, env)
        = <<Use(ProxyService(c.kind)), Daemon(ProxyService(c.kind))>>
  BY DEF Script, Action, ConfigProxySQL, ConfigHAProxy, ProxyService
<1>3. Script(c, "configure_etcd", m, env) = ConfigEtcd
  BY DEF Script, Action
<1>4. Script(c, "configure_patroni", m, env) = ConfigPatroni
  BY DEF Script, Action
<1>5. Script(c, "configure_pgbouncer", m, env) = ConfigPgBouncer
  BY DEF Script, Action
<1>6. Script(c, "configure_monitor", m, env) = ConfigMonitor
  BY DEF Script, Action
<1>7. Script(c, "init_ydb_cluster", m, env) = InitYDB
  BY DEF Script, Action
<1>8. Script(c, "start_ydb_database", m, env) = StartYDBDB
  BY DEF Script, Action
<1> QED BY <1>1, <1>2, <1>3, <1>4, <1>5, <1>6, <1>7, <1>8

(* What a phase installs, needs and starts; which phases decide on clusters.  *)
Software(c, p) ==
  CASE p = "install_db"        -> {c.kind}
    [] p = "install_etcd"      -> {"etcd"}
    [] p = "install_patroni"   -> {"patroni"}
    [] p = "install_pgbouncer" -> {"pgbouncer"}
    [] p = "install_proxy"     -> {ProxyService(c.kind)}
    [] p = "install_monitor"   -> {"node_exporter", "vmagent"}
    [] p = "install_stroppy"   -> {"stroppy"}
    [] OTHER                   -> {}

Uses(c, p) ==
  CASE p = "configure_db"        -> {c.kind}
    [] p = "configure_etcd"      -> {"etcd"}
    [] p = "configure_patroni"   -> {"patroni", "postgres"}
    [] p = "configure_pgbouncer" -> {"pgbouncer"}
    [] p = "configure_proxy"     -> {ProxyService(c.kind)}
    [] p = "configure_monitor"   -> {"node_exporter", "vmagent"}
    [] p = "init_ydb_cluster"    -> {"ydb"}
    [] p = "start_ydb_database"  -> {"ydb"}
    [] p = "run_stroppy"         -> {"stroppy"}
    [] OTHER                     -> {}

Services(c, p) ==
  CASE p = "configure_db"        -> {Service(c.kind)}
    [] p = "configure_etcd"      -> {"etcd"}
    [] p = "configure_patroni"   -> {"patroni", "postgres"}
    [] p = "configure_pgbouncer" -> {"pgbouncer"}
    [] p = "configure_proxy"     -> {ProxyService(c.kind)}
    [] p = "configure_monitor"   -> {"node_exporter", "vmagent"}
    [] p = "start_ydb_database"  -> {"ydbd-database"}
    [] OTHER                     -> {}

DataPhases == {"configure_db", "configure_patroni", "init_ydb_cluster"}

(* The steps that may occur in the script of a phase.                         *)
Suits(c, p, s, env) ==
  /\ s.op \in {"stop", "try", "restart", "start", "daemon"} => s.arg \in Services(c, p)
  /\ s.op = "use" => s.arg \in Uses(c, p)
  /\ s.op \in {"join", "replicate"} => p = "configure_db" /\ c.kind # "ydb" /\ ~env.first
  /\ s.op = "elect" => p = "configure_patroni"
  /\ s.op = "form" => p = "init_ydb_cluster"
  /\ s.op \in {"wipe", "trywipe", "bootstrap", "found", "restart"} =>
       p \in {"configure_db", "configure_patroni"}
  /\ p = "configure_db" /\ c.kind # "ydb" /\ env.first =>
       s.op \notin {"wipe", "trywipe"} /\ (s.op = "bootstrap" => env.group)

Suitable(c, p, env) == {s \in Steps : Suits(c, p, s, env)}

LEMMA UseSuits ==
  ASSUME NEW c, NEW p, NEW env, NEW s \in Programs, s \in Uses(c, p)
  PROVE  Use(s) \in Suitable(c, p, env)
BY DEF Use, Steps, Suits, Suitable

LEMMA InstallSuits ==
  ASSUME NEW c, NEW p, NEW env, NEW s \in Programs
  PROVE  Install(s) \in Suitable(c, p, env) /\ Fetch(s) \in Suitable(c, p, env)
BY DEF Install, Fetch, Steps, Suits, Suitable

LEMMA StopSuits ==
  ASSUME NEW c, NEW p, NEW env, NEW u \in Daemons, u \in Services(c, p)
  PROVE  Stop(u) \in Suitable(c, p, env)
BY DEF Stop, Steps, Suits, Suitable

LEMMA StartSuits ==
  ASSUME NEW c, NEW p, NEW env, NEW u \in Daemons, u \in Services(c, p)
  PROVE  /\ Start(u) \in Suitable(c, p, env) /\ Daemon(u) \in Suitable(c, p, env)
         /\ TryRestart(u) \in Suitable(c, p, env)
BY DEF Start, Daemon, TryRestart, Steps, Suits, Suitable

LEMMA InstallPhasesSuit ==
  ASSUME NEW c, c.kind \in Kinds, NEW m, NEW env, NEW p \in Installs \cup {"run_stroppy"}
  PROVE  Script(c, p, m, env) \in Seq(Suitable(c, p, env))
<1> DEFINE T == Suitable(c, p, env)
<1>1. \A s \in Programs : Install(s) \in T /\ Fetch(s) \in T
  BY InstallSuits
<1>2. p = "run_stroppy" => Use("stroppy") \in T
  <2> SUFFICES ASSUME p = "run_stroppy" PROVE Use("stroppy") \in T
    OBVIOUS
  <2>1. "stroppy" \in Programs /\ "stroppy" \in Uses(c, p)
    BY DEF Programs, Uses
  <2> QED BY <2>1, UseSuits
<1>3. c.kind \in Programs /\ ProxyService(c.kind) \in Programs
  BY DEF Kinds, Programs, ProxyService
<1>4. {"ydb", "etcd", "patroni", "pgbouncer", "stroppy", "node_exporter", "vmagent",
       "mysqld_exporter", "postgres_exporter"} \subseteq Programs
  BY DEF Programs
<1> HIDE DEF T
<1>5. InstallMonitor(c, m) \in Seq(T)
  <2>1. /\ <<Fetch("node_exporter")>> \in Seq(T) /\ <<Fetch("vmagent")>> \in Seq(T)
        /\ <<Fetch("mysqld_exporter")>> \in Seq(T) /\ <<Install("postgres_exporter")>> \in Seq(T)
        /\ <<>> \in Seq(T)
    BY <1>1, <1>4
  <2>2. \A u, v \in Seq(T) : u \o v \in Seq(T)
    BY ConcatProperties
  <2> QED BY <2>1, <2>2 DEF InstallMonitor
<1>6. Script(c, p, m, env) \in {<<Fetch("ydb")>>, <<Install(c.kind)>>, <<Install("etcd")>>,
        <<Install(ProxyService(c.kind))>>, <<Install("patroni")>>, <<Install("pgbouncer")>>,
        <<Fetch("stroppy")>>, InstallMonitor(c, m)}
      \/ (p = "run_stroppy" /\ Script(c, p, m, env) = <<Use("stroppy")>>)
  BY InstallScripts DEF Installs
<1>7. /\ <<Fetch("ydb")>> \in Seq(T) /\ <<Install(c.kind)>> \in Seq(T)
      /\ <<Install(ProxyService(c.kind))>> \in Seq(T) /\ <<Install("etcd")>> \in Seq(T)
      /\ <<Install("patroni")>> \in Seq(T) /\ <<Install("pgbouncer")>> \in Seq(T)
      /\ <<Fetch("stroppy")>> \in Seq(T)
      /\ p = "run_stroppy" => <<Use("stroppy")>> \in Seq(T)
  BY <1>1, <1>2, <1>3, <1>4
<1>8. Script(c, p, m, env) \in Seq(T)
  BY <1>5, <1>6, <1>7
<1> QED BY <1>8 DEF T

LEMMA ConfigurePhasesSuit ==
  ASSUME NEW c, c.kind \in Kinds, NEW m, NEW env,
         NEW p \in {"configure_etcd", "configure_pgbouncer", "configure_proxy",
                    "configure_monitor", "init_ydb_cluster", "start_ydb_database"}
  PROVE  Script(c, p, m, env) \in Seq(Suitable(c, p, env))
<1> DEFINE T == Suitable(c, p, env)
<1>1. /\ \A s \in Programs : s \in Uses(c, p) => Use(s) \in T
      /\ \A u \in Daemons :
           u \in Services(c, p) => Stop(u) \in T /\ Start(u) \in T /\ Daemon(u) \in T
  BY UseSuits, StopSuits, StartSuits
<1>2. p = "init_ydb_cluster" => Form \in T
  BY DEF Form, Steps, Suits, Suitable
<1>3. ProxyService(c.kind) \in Programs /\ ProxyService(c.kind) \in Daemons
  BY DEF Programs, Daemons, ProxyService
<1>4. /\ {"ydb", "etcd", "pgbouncer", "node_exporter", "vmagent"} \subseteq Programs
      /\ {"ydbd-database", "etcd", "pgbouncer", "node_exporter", "vmagent"} \subseteq Daemons
  BY DEF Programs, Daemons
<1> HIDE DEF T
<1>5. CASE p = "configure_etcd"
  <2>1. "etcd" \in Uses(c, p) /\ "etcd" \in Services(c, p)
    BY <1>5 DEF Uses, Services
  <2>2. Stop("etcd") \in T /\ Use("etcd") \in T /\ Start("etcd") \in T
    BY <1>1, <1>4, <2>1
  <2>3. Script(c, p, m, env) = <<Stop("etcd"), Use("etcd"), Start("etcd")>>
    BY <1>5, ConfigureScripts DEF ConfigEtcd
  <2>4. Script(c, p, m, env) \in Seq(T)
    BY <2>2, <2>3
  <2> QED BY <2>4 DEF T
<1>6. CASE p = "configure_pgbouncer"
  <2>1. "pgbouncer" \in Uses(c, p) /\ "pgbouncer" \in Services(c, p)
    BY <1>6 DEF Uses, Services
  <2>2. Use("pgbouncer") \in T /\ Start("pgbouncer") \in T
    BY <1>1, <1>4, <2>1
  <2>3. Script(c, p, m, env) = <<Use("pgbouncer"), Start("pgbouncer")>>
    BY <1>6, ConfigureScripts DEF ConfigPgBouncer
  <2>4. Script(c, p, m, env) \in Seq(T)
    BY <2>2, <2>3
  <2> QED BY <2>4 DEF T
<1>7. CASE p = "configure_proxy"
  <2>1. ProxyService(c.kind) \in Uses(c, p) /\ ProxyService(c.kind) \in Services(c, p)
    BY <1>7 DEF Uses, Services
  <2>2. Use(ProxyService(c.kind)) \in T /\ Daemon(ProxyService(c.kind)) \in T
    BY <1>1, <1>3, <2>1
  <2>3. Script(c, p, m, env) = <<Use(ProxyService(c.kind)), Daemon(ProxyService(c.kind))>>
    BY <1>7, ConfigureScripts
  <2>4. Script(c, p, m, env) \in Seq(T)
    BY <2>2, <2>3
  <2> QED BY <2>4 DEF T
<1>8. CASE p = "configure_monitor"
  <2>1. /\ "node_exporter" \in Uses(c, p) /\ "vmagent" \in Uses(c, p)
        /\ "node_exporter" \in Services(c, p) /\ "vmagent" \in Services(c, p)
    BY <1>8 DEF Uses, Services
  <2>2. /\ Use("node_exporter") \in T /\ Daemon("node_exporter") \in T
        /\ Use("vmagent") \in T /\ Daemon("vmagent") \in T
    BY <1>1, <1>4, <2>1
  <2>3. Script(c, p, m, env) = <<Use("node_exporter"), Daemon("node_exporter"),
                                 Use("vmagent"), Daemon("vmagent")>>
    BY <1>8, ConfigureScripts DEF ConfigMonitor
  <2>4. Script(c, p, m, env) \in Seq(T)
    BY <2>2, <2>3
  <2> QED BY <2>4 DEF T
<1>9. CASE p = "init_ydb_cluster"
  <2>1. "ydb" \in Uses(c, p)
    BY <1>9 DEF Uses
  <2>2. Use("ydb") \in T /\ Form \in T
    BY <1>1, <1>2, <1>4, <1>9, <2>1
  <2>3. Script(c, p, m, env) = <<Use("ydb"), Form>>
    BY <1>9, ConfigureScripts DEF InitYDB
  <2>4. Script(c, p, m, env) \in Seq(T)
    BY <2>2, <2>3
  <2> QED BY <2>4 DEF T
<1>10. CASE p = "start_ydb_database"
  <2>1. "ydb" \in Uses(c, p) /\ "ydbd-database" \in Services(c, p)
    BY <1>10 DEF Uses, Services
  <2>2. Stop("ydbd-database") \in T /\ Use("ydb") \in T /\ Start("ydbd-database") \in T
    BY <1>1, <1>4, <2>1
  <2>3. Script(c, p, m, env) = <<Stop("ydbd-database"), Use("ydb"), Start("ydbd-database")>>
    BY <1>10, ConfigureScripts DEF StartYDBDB
  <2>4. Script(c, p, m, env) \in Seq(T)
    BY <2>2, <2>3
  <2> QED BY <2>4 DEF T
<1> QED BY <1>5, <1>6, <1>7, <1>8, <1>9, <1>10

LEMMA TuplesJoined ==
  ASSUME NEW x, NEW y, NEW z
  PROVE  <<x>> \o <<z>> = <<x, z>> /\ <<x, y>> \o <<z>> = <<x, y, z>>
<1> DEFINE E == {x, y, z}
<1>1. <<x, y>> \in Seq(E) /\ <<z>> \in Seq(E) /\ <<x, y, z>> \in Seq(E)
      /\ <<x, z>> \in Seq(E) /\ <<x>> \in Seq(E)
      /\ Len(<<x, y>>) = 2 /\ Len(<<z>>) = 1 /\ Len(<<x, y, z>>) = 3
      /\ Len(<<x, z>>) = 2 /\ Len(<<x>>) = 1
  OBVIOUS
<1> DEFINE s == <<x, y>> \o <<z>>
<1> DEFINE t == <<x>> \o <<z>>
<1>2. /\ s \in Seq(E) /\ Len(s) = 3
      /\ \A i \in 1 .. 3 : s[i] = IF i <= 2 THEN <<x, y>>[i] ELSE <<z>>[i - 2]
  BY <1>1, ConcatProperties
<1>3. /\ t \in Seq(E) /\ Len(t) = 2
      /\ \A i \in 1 .. 2 : t[i] = IF i <= 1 THEN <<x>>[i] ELSE <<z>>[i - 1]
  BY <1>1, ConcatProperties
<1> HIDE DEF s, t
<1>4. s[1] = x /\ s[2] = y /\ s[3] = z
  BY <1>2
<1>5. t[1] = x /\ t[2] = z
  BY <1>3
<1>6. \A i \in 1 .. 3 : s[i] = <<x, y, z>>[i]
  <2>1. \A i \in 1 .. 3 : i = 1 \/ i = 2 \/ i = 3
    OBVIOUS
  <2> QED BY <1>4, <2>1
<1>7. \A i \in 1 .. 2 : t[i] = <<x, z>>[i]
  <2>1. \A i \in 1 .. 2 : i = 1 \/ i = 2
    OBVIOUS
  <2> QED BY <1>5, <2>1
<1> HIDE DEF E
<1>8. s = <<x, y, z>>
  BY <1>1, <1>2, <1>6, SeqEqual
<1>9. t = <<x, z>>
  BY <1>1, <1>3, <1>7, SeqEqual
<1> QED BY <1>8, <1>9 DEF s, t

LEMMA MySQLScript ==
  ASSUME NEW env
  PROVE  ConfigMySQL(env) = <<Use("mysql"), Restart("mysql"),
           IF env.group THEN IF env.first THEN Bootstrap ELSE Join
                        ELSE IF env.first THEN Found("mysql") ELSE Replicate>>
<1>1. \A x, y, z : <<x, y>> \o <<z>> = <<x, y, z>>
  BY TuplesJoined
<1> QED BY <1>1 DEF ConfigMySQL

LEMMA MonitorScript ==
  ASSUME NEW c, NEW m
  PROVE  \/ InstallMonitor(c, m) = <<Fetch("node_exporter"), Fetch("vmagent")>>
         \/ \E z : InstallMonitor(c, m) = <<Fetch("node_exporter"), z, Fetch("vmagent")>>
<1>1. /\ \A x, z : <<x>> \o <<z>> = <<x, z>>
      /\ \A x, y, z : <<x, y>> \o <<z>> = <<x, y, z>>
  BY TuplesJoined
<1>2. \A x : <<x>> \o <<>> = <<x>>
  <2> TAKE x
  <2>1. <<x>> \in Seq({x})
    OBVIOUS
  <2> QED BY <2>1, ConcatEmptySeq
<1>3. \A x, y : <<x, y>> \o <<>> = <<x, y>>
  <2> TAKE x, y
  <2>1. <<x, y>> \in Seq({x, y})
    OBVIOUS
  <2> QED BY <2>1, ConcatEmptySeq
<1>a. ASSUME NEW x, NEW y, NEW z
      PROVE  /\ <<x>> \o <<y>> \o <<>> \o <<z>> = <<x, y, z>>
             /\ <<x>> \o <<>> \o <<y>> \o <<z>> = <<x, y, z>>
  <2>1. <<x>> \o <<y>> = <<x, y>> /\ <<x>> \o <<>> = <<x>>
    BY <1>1, <1>2
  <2>2. <<x, y>> \o <<>> = <<x, y>> /\ <<x, y>> \o <<z>> = <<x, y, z>>
    BY <1>1, <1>3
  <2>3. (<<x>> \o <<y>>) \o <<>> = <<x, y>> /\ (<<x>> \o <<>>) \o <<y>> = <<x, y>>
    BY <2>1, <2>2, Zenon
  <2> QED BY <2>2, <2>3, Zenon
<1>4. CASE m[1] = "database" /\ c.kind = "mysql"
  <2>1. InstallMonitor(c, m) = <<Fetch("node_exporter")>> \o <<Fetch("mysqld_exporter")>>
                               \o <<>> \o <<Fetch("vmagent")>>
    BY <1>4 DEF InstallMonitor
  <2>2. InstallMonitor(c, m)
          = <<Fetch("node_exporter"), Fetch("mysqld_exporter"), Fetch("vmagent")>>
    BY <1>a, <2>1, Zenon
  <2> QED BY <2>2
<1>5. CASE m[1] = "database" /\ c.kind = "postgres"
  <2>1. InstallMonitor(c, m) = <<Fetch("node_exporter")>> \o <<>>
                               \o <<Install("postgres_exporter")>> \o <<Fetch("vmagent")>>
    BY <1>5 DEF InstallMonitor
  <2>2. InstallMonitor(c, m)
          = <<Fetch("node_exporter"), Install("postgres_exporter"), Fetch("vmagent")>>
    BY <1>a, <2>1, Zenon
  <2> QED BY <2>2
<1>6. CASE ~(m[1] = "database" /\ c.kind \in {"mysql", "postgres"})
  BY <1>1, <1>2, <1>6 DEF InstallMonitor
<1> QED BY <1>4, <1>5, <1>6

LEMMA TuplesAreSeqs ==
  ASSUME NEW T
  PROVE  /\ \A a, b, c \in T : <<a, b, c>> \in Seq(T)
         /\ \A a, b, c, d, e \in T : <<a, b, c, d, e>> \in Seq(T)
         /\ \A a, b, c, d, e, f, g \in T : <<a, b, c, d, e, f, g>> \in Seq(T)
OBVIOUS

LEMMA DatabasePhasesSuit ==
  ASSUME NEW c, c.kind \in Kinds, NEW m, NEW env, env.first \in BOOLEAN, env.group \in BOOLEAN,
         NEW p \in {"configure_db", "configure_patroni"}
  PROVE  Script(c, p, m, env) \in Seq(Suitable(c, p, env))
<1> DEFINE T == Suitable(c, p, env)
<1>1. /\ \A s \in Programs : s \in Uses(c, p) => Use(s) \in T
      /\ \A u \in Daemons :
           u \in Services(c, p) => Stop(u) \in T /\ Start(u) \in T /\ TryRestart(u) \in T
  BY UseSuits, StopSuits, StartSuits
<1>2. /\ {"ydb", "postgres", "mysql", "picodata", "patroni"} \subseteq Programs
      /\ {"ydbd", "postgres", "mysql", "picodata", "patroni"} \subseteq Daemons
      /\ {"postgres", "patroni"} \in SUBSET Daemons /\ {"ydbd"} \in SUBSET Daemons
  BY DEF Programs, Daemons
<1>3. /\ \A u \in {"postgres", "mysql", "picodata"} : Found(u) \in T
      /\ p = "configure_db" /\ c.kind = "mysql" => Restart("mysql") \in T
  BY <1>2 DEF Found, Restart, Steps, Suits, Suitable, Services, Service
<1>4. p = "configure_patroni" =>
        Elect \in T /\ TryWipe({"postgres", "patroni"}) \in T
  BY <1>2 DEF Elect, TryWipe, Steps, Suits, Suitable
<1>5. p = "configure_db" /\ c.kind # "ydb" /\ ~env.first =>
        /\ Join \in T /\ Replicate \in T
        /\ TryWipe({"postgres", "patroni"}) \in T
  BY <1>2 DEF Join, Replicate, TryWipe, Steps, Suits, Suitable
<1>6. p = "configure_db" /\ c.kind = "ydb" => Wipe({"ydbd"}) \in T
  BY <1>2 DEF Wipe, Steps, Suits, Suitable
<1>7. p = "configure_db" /\ env.group => Bootstrap \in T
  BY DEF Bootstrap, Steps, Suits, Suitable
<1>8. p = "configure_db" => c.kind \in Uses(c, p) /\ Service(c.kind) \in Services(c, p)
  BY DEF Uses, Services
<1>s. SUFFICES Script(c, p, m, env) \in Seq(T)
  OBVIOUS
<1> HIDE DEF T
<1>9. CASE p = "configure_db" /\ c.kind = "postgres"
  <2>1. /\ Use("postgres") \in T /\ TryRestart("postgres") \in T /\ Start("postgres") \in T
        /\ Stop("postgres") \in T
    BY <1>1, <1>2, <1>8, <1>9 DEF Service
  <2>2. Script(c, p, m, env) = ConfigPostgres(env)
    BY <1>9, ConfigureScripts
  <2>3. CASE env.first
    <3>1. Script(c, p, m, env) = <<Use("postgres"), TryRestart("postgres"), Found("postgres")>>
      BY <2>2, <2>3 DEF ConfigPostgres
    <3> QED BY <1>3, <2>1, <3>1
  <2>4. CASE ~env.first
    <3>1. Script(c, p, m, env)
            = <<Use("postgres"), Stop("postgres"), TryWipe({"postgres", "patroni"}), Join,
                Start("postgres")>>
      BY <2>2, <2>4 DEF ConfigPostgres
    <3>2. TryWipe({"postgres", "patroni"}) \in T /\ Join \in T
      BY <1>5, <1>9, <2>4
    <3> QED BY <2>1, <3>1, <3>2, TuplesAreSeqs
  <2> QED BY <2>3, <2>4
<1>10. CASE p = "configure_db" /\ c.kind = "mysql"
  <2>1. Use("mysql") \in T
    BY <1>1, <1>2, <1>8, <1>10
  <2>2. (IF env.group THEN IF env.first THEN Bootstrap ELSE Join
                      ELSE IF env.first THEN Found("mysql") ELSE Replicate) \in T
    BY <1>3, <1>5, <1>7, <1>10
  <2>3. Script(c, p, m, env) = ConfigMySQL(env)
    BY <1>10, ConfigureScripts
  <2>4. PICK z \in T : ConfigMySQL(env) = <<Use("mysql"), Restart("mysql"), z>>
    BY <2>2, MySQLScript
  <2>5. Restart("mysql") \in T
    BY <1>3, <1>10
  <2> QED BY <2>1, <2>3, <2>4, <2>5, TuplesAreSeqs
<1>11. CASE p = "configure_db" /\ c.kind = "picodata"
  <2>1. Stop("picodata") \in T /\ Use("picodata") \in T /\ Start("picodata") \in T
    BY <1>1, <1>2, <1>8, <1>11 DEF Service
  <2>2. (IF env.first THEN Found("picodata") ELSE Join) \in T
    BY <1>3, <1>5, <1>11
  <2>3. Script(c, p, m, env) = ConfigPicodata(env)
    BY <1>11, ConfigureScripts
  <2> QED BY <2>1, <2>2, <2>3 DEF ConfigPicodata
<1>12. CASE p = "configure_db" /\ c.kind = "ydb"
  <2>1. Use("ydb") \in T /\ Stop("ydbd") \in T /\ Start("ydbd") \in T /\ Wipe({"ydbd"}) \in T
    BY <1>1, <1>2, <1>6, <1>8, <1>12 DEF Service
  <2>2. Script(c, p, m, env) = ConfigYDB
    BY <1>12, ConfigureScripts
  <2> QED BY <2>1, <2>2 DEF ConfigYDB
<1>13. CASE p = "configure_patroni"
  <2>0. /\ {"postgres", "patroni"} \subseteq Uses(c, p)
        /\ {"postgres", "patroni"} \subseteq Services(c, p)
    BY <1>13 DEF Uses, Services
  <2>1. /\ Stop("postgres") \in T /\ Stop("patroni") \in T /\ Use("postgres") \in T
        /\ Use("patroni") \in T /\ Start("patroni") \in T
    BY <1>1, <1>2, <2>0
  <2>2. Script(c, p, m, env) = ConfigPatroni
    BY <1>13, ConfigureScripts
  <2>3. Elect \in T /\ TryWipe({"postgres", "patroni"}) \in T
    BY <1>4, <1>13
  <2>4. <<Stop("postgres"), TryWipe({"postgres", "patroni"}), Stop("patroni"),
          Use("patroni"), Use("postgres"), Start("patroni"), Elect>> \in Seq(T)
    BY <2>1, <2>3, TuplesAreSeqs
  <2> QED BY <2>2, <2>4 DEF ConfigPatroni
<1> QED BY <1>9, <1>10, <1>11, <1>12, <1>13 DEF Kinds

LEMMA ScriptSuits ==
  ASSUME NEW b \in Nat, NEW c, c.kind \in Kinds, NEW m, NEW env \in Envs(b), NEW p \in WorkPhases
  PROVE  /\ Script(c, p, m, env) \in Seq(Steps)
         /\ \A i \in 1 .. Len(Script(c, p, m, env)) : Suits(c, p, Script(c, p, m, env)[i], env)
<1>1. Script(c, p, m, env) \in Seq(Suitable(c, p, env))
  <2>1. env.first \in BOOLEAN /\ env.group \in BOOLEAN
    BY DEF Envs
  <2>2. \/ p \in Installs \cup {"run_stroppy"}
        \/ p \in {"configure_etcd", "configure_pgbouncer", "configure_proxy",
                  "configure_monitor", "init_ydb_cluster", "start_ydb_database"}
        \/ p \in {"configure_db", "configure_patroni"}
    BY DEF WorkPhases, AllPhases
  <2> QED BY <2>1, <2>2, InstallPhasesSuit, ConfigurePhasesSuit, DatabasePhasesSuit
<1>2. PICK script : script = Script(c, p, m, env)
  OBVIOUS
<1>3. PICK T : T = Suitable(c, p, env)
  OBVIOUS
<1>4. script \in Seq(T)
  BY <1>1, <1>2, <1>3
<1>5. \A i \in 1 .. Len(script) : script[i] \in T
  BY <1>4, ElementOfSeq
<1>6. T \subseteq Steps /\ \A s \in T : Suits(c, p, s, env)
  BY <1>3 DEF Suitable
<1>7. script \in Seq(Steps)
  <2>1. Len(script) \in Nat /\ script = [i \in 1 .. Len(script) |-> script[i]]
    BY <1>4, LenProperties
  <2> QED BY <1>5, <1>6, <2>1
<1> QED BY <1>2, <1>5, <1>6, <1>7

(* A script that succeeds with nothing swallowed: every step has succeeded.   *)
LEMMA DoneSteps ==
  ASSUME NEW b \in Nat, NEW script \in Seq(Steps), NEW machine \in MachineRecs(b),
         NEW env \in Envs(b), NEW bad \in Nat, NEW x, x = Executed(script, machine, env, bad),
         x.err = "none", "swallowed" \notin x.notes
  PROVE  \E r : /\ r[0] = Begun(machine) /\ x = r[Len(script)]
                /\ \A i \in 1 .. Len(script) : After(r[i-1], script[i], env, r[i])
<1>1. PICK r : RunOf(r, script, machine, env, bad, b) /\ x = r[Len(script)]
  BY ScriptRuns
<1>2. /\ \A i \in 1 .. Len(script) :
           r[i] = Do(r[i-1], script[i], env) /\ "swallowed" \notin r[i].notes
      /\ \A i \in 0 .. Len(script) : r[i].err = "none"
  BY <1>1, AlongScript
<1>3. /\ \A i \in 0 .. Len(script) : r[i] \in Outcomes(b)
      /\ r[0] = Begun(machine)
  BY <1>1 DEF RunOf
<1>4. ASSUME NEW i \in 1 .. Len(script) PROVE After(r[i-1], script[i], env, r[i])
  <2>1. script[i] \in Steps /\ i - 1 \in 0 .. Len(script) /\ i \in 0 .. Len(script)
    BY ElementOfSeq, LenProperties
  <2>2. PICK y, z, s : y = r[i-1] /\ z = r[i] /\ s = script[i]
    OBVIOUS
  <2>3. /\ y \in Outcomes(b) /\ s \in Steps /\ z = Do(y, s, env)
        /\ y.err = "none" /\ z.err = "none" /\ "swallowed" \notin z.notes
    BY <1>2, <1>3, <2>1, <2>2
  <2>4. After(y, s, env, z)
    BY <2>3, DoneStep
  <2> QED BY <2>2, <2>4
<1> QED BY <1>1, <1>3, <1>4

(* What a successful script leaves.                                           *)
Success(c, p, env, x) ==
  /\ Software(c, p) \subseteq x.have
  /\ Services(c, p) \subseteq x.up
  /\ p = "configure_db" /\ c.kind # "ydb" =>
       /\ env.first => x.data # 0
       /\ ~env.first => x.data = env.peer /\ env.peer # 0
  /\ p = "configure_patroni" => x.data = IF env.known = 0 THEN env.fresh ELSE env.known
  /\ p = "init_ydb_cluster" => x.data = env.fresh

LEMMA InstallsSucceed ==
  ASSUME NEW b \in Nat, NEW c, c.kind \in Kinds, NEW m, NEW env \in Envs(b),
         NEW p \in Installs \cup {"run_stroppy"}, NEW machine \in MachineRecs(b), NEW bad \in Nat,
         NEW x, x = Executed(Script(c, p, m, env), machine, env, bad),
         x.err = "none", "swallowed" \notin x.notes
  PROVE  Success(c, p, env, x)
<1>0. PICK script : script = Script(c, p, m, env)
  OBVIOUS
<1>1. script \in Seq(Steps)
  <2>1. p \in WorkPhases
    BY DEF WorkPhases, AllPhases, Installs
  <2> QED BY <1>0, <2>1, ScriptSuits
<1>2. PICK r : /\ r[0] = Begun(machine) /\ x = r[Len(script)]
               /\ \A i \in 1 .. Len(script) : After(r[i-1], script[i], env, r[i])
  BY <1>0, <1>1, DoneSteps
<1>3. ASSUME NEW s, s \in Programs, script \in {<<Install(s)>>, <<Fetch(s)>>} PROVE s \in x.have
  <2>1. Len(script) = 1 /\ script[1] \in {Install(s), Fetch(s)}
    BY <1>3
  <2>2. After(r[0], script[1], env, x)
    <3>1. 1 \in 1 .. Len(script) /\ 1 - 1 = 0
      BY <2>1
    <3>2. After(r[1-1], script[1], env, r[1])
      BY <1>2, <3>1
    <3> QED BY <1>2, <2>1, <3>1, <3>2
  <2> QED BY <2>1, <2>2 DEF After, Install, Fetch
<1>4. p # "install_monitor" => Software(c, p) \subseteq x.have
  <2>1. CASE p = "install_db"
    <3>1. c.kind \in Programs /\ script \in {<<Install(c.kind)>>, <<Fetch(c.kind)>>}
      BY <1>0, <2>1, InstallScripts DEF Programs, Kinds
    <3> QED BY <1>3, <2>1, <3>1 DEF Software
  <2>2. CASE p = "install_proxy"
    <3>1. ProxyService(c.kind) \in Programs /\ script = <<Install(ProxyService(c.kind))>>
      BY <1>0, <2>2, InstallScripts DEF Programs, ProxyService
    <3> QED BY <1>3, <2>2, <3>1 DEF Software
  <2>3. CASE p = "install_etcd"
    <3>1. "etcd" \in Programs /\ script = <<Install("etcd")>>
      BY <1>0, <2>3, InstallScripts DEF Programs
    <3> QED BY <1>3, <2>3, <3>1 DEF Software
  <2>4. CASE p = "install_patroni"
    <3>1. "patroni" \in Programs /\ script = <<Install("patroni")>>
      BY <1>0, <2>4, InstallScripts DEF Programs
    <3> QED BY <1>3, <2>4, <3>1 DEF Software
  <2>5. CASE p = "install_pgbouncer"
    <3>1. "pgbouncer" \in Programs /\ script = <<Install("pgbouncer")>>
      BY <1>0, <2>5, InstallScripts DEF Programs
    <3> QED BY <1>3, <2>5, <3>1 DEF Software
  <2>6. CASE p = "install_stroppy"
    <3>1. "stroppy" \in Programs /\ script = <<Fetch("stroppy")>>
      BY <1>0, <2>6, InstallScripts DEF Programs
    <3> QED BY <1>3, <2>6, <3>1 DEF Software
  <2>7. CASE p = "run_stroppy"
    BY <2>7 DEF Software
  <2> QED BY <2>1, <2>2, <2>3, <2>4, <2>5, <2>6, <2>7 DEF Installs
<1>5. p = "install_monitor" => {"node_exporter", "vmagent"} \subseteq x.have
  <2> SUFFICES ASSUME p = "install_monitor" PROVE {"node_exporter", "vmagent"} \subseteq x.have
    OBVIOUS
  <2>1. script = InstallMonitor(c, m)
    BY <1>0, InstallScripts
  <2>2. CASE script = <<Fetch("node_exporter"), Fetch("vmagent")>>
    <3>1. Len(script) = 2 /\ script[1] = Fetch("node_exporter") /\ script[2] = Fetch("vmagent")
      BY <2>2
    <3>2. After(r[0], script[1], env, r[1]) /\ After(r[1], script[2], env, r[2])
      <4>1. 1 \in 1 .. Len(script) /\ 2 \in 1 .. Len(script) /\ 1 - 1 = 0 /\ 2 - 1 = 1
        BY <3>1
      <4> QED BY <1>2, <4>1
    <3>3. "node_exporter" \in r[1].have /\ r[1].have \subseteq r[2].have
          /\ "vmagent" \in r[2].have
      BY <3>1, <3>2 DEF After, Fetch
    <3> QED BY <1>2, <3>1, <3>3
  <2>3. CASE \E z : script = <<Fetch("node_exporter"), z, Fetch("vmagent")>>
    <3>1. Len(script) = 3 /\ script[1] = Fetch("node_exporter") /\ script[3] = Fetch("vmagent")
      BY <2>3
    <3>2. After(r[0], script[1], env, r[1]) /\ After(r[1], script[2], env, r[2])
          /\ After(r[2], script[3], env, r[3])
      <4>1. 1 \in 1 .. Len(script) /\ 2 \in 1 .. Len(script) /\ 3 \in 1 .. Len(script)
            /\ 1 - 1 = 0 /\ 2 - 1 = 1 /\ 3 - 1 = 2
        BY <3>1
      <4> QED BY <1>2, <4>1
    <3>3. "node_exporter" \in r[1].have /\ "vmagent" \in r[3].have
      BY <3>1, <3>2 DEF After, Fetch
    <3>4. r[1].have \subseteq r[2].have /\ r[2].have \subseteq r[3].have
      BY <3>2 DEF After
    <3> QED BY <1>2, <3>1, <3>3, <3>4
  <2> QED BY <2>1, <2>2, <2>3, MonitorScript
<1>6. Software(c, p) \subseteq x.have
  BY <1>4, <1>5 DEF Software
<1>7. Services(c, p) = {}
  BY DEF Services, Installs
<1> QED BY <1>6, <1>7 DEF Success, Installs

LEMMA FirstSteps ==
  ASSUME NEW r, NEW script, NEW env, Len(script) \in Nat,
         \A i \in 1 .. Len(script) : After(r[i-1], script[i], env, r[i])
  PROVE  /\ Len(script) >= 2 => /\ After(r[0], script[1], env, r[1])
                                /\ After(r[1], script[2], env, r[2])
         /\ Len(script) >= 3 => After(r[2], script[3], env, r[3])
         /\ Len(script) >= 4 => After(r[3], script[4], env, r[4])
         /\ Len(script) >= 5 => After(r[4], script[5], env, r[5])
         /\ Len(script) = 7 => /\ After(r[5], script[6], env, r[6])
                               /\ After(r[6], script[7], env, r[7])
<1>1. /\ Len(script) >= 2 => 1 \in 1 .. Len(script) /\ 2 \in 1 .. Len(script)
      /\ Len(script) >= 3 => 3 \in 1 .. Len(script)
      /\ Len(script) >= 4 => 4 \in 1 .. Len(script)
      /\ Len(script) >= 5 => 5 \in 1 .. Len(script)
      /\ Len(script) = 7 => 6 \in 1 .. Len(script) /\ 7 \in 1 .. Len(script)
  OBVIOUS
<1>2. 1 - 1 = 0 /\ 2 - 1 = 1 /\ 3 - 1 = 2 /\ 4 - 1 = 3 /\ 5 - 1 = 4 /\ 6 - 1 = 5 /\ 7 - 1 = 6
  OBVIOUS
<1> HIDE DEF After
<1> QED BY <1>1, <1>2

LEMMA ConfiguresSucceed ==
  ASSUME NEW b \in Nat, NEW c, c.kind \in Kinds, NEW m, NEW env \in Envs(b),
         NEW p \in {"configure_etcd", "configure_pgbouncer", "configure_proxy",
                    "configure_monitor", "init_ydb_cluster", "start_ydb_database"},
         NEW machine \in MachineRecs(b), NEW bad \in Nat,
         NEW x, x = Executed(Script(c, p, m, env), machine, env, bad),
         x.err = "none", "swallowed" \notin x.notes
  PROVE  Success(c, p, env, x)
<1>0. PICK script : script = Script(c, p, m, env)
  OBVIOUS
<1>1. script \in Seq(Steps) /\ Len(script) \in Nat
  <2>1. p \in WorkPhases
    BY DEF WorkPhases, AllPhases
  <2> QED BY <1>0, <2>1, ScriptSuits, LenProperties
<1>2. PICK r : /\ r[0] = Begun(machine) /\ x = r[Len(script)]
               /\ \A i \in 1 .. Len(script) : After(r[i-1], script[i], env, r[i])
  BY <1>0, <1>1, DoneSteps
<1>3. Software(c, p) = {}
  BY DEF Software
<1>4. CASE p = "configure_etcd"
  <2>1. script = <<Stop("etcd"), Use("etcd"), Start("etcd")>>
    BY <1>0, <1>4, ConfigureScripts DEF ConfigEtcd
  <2>2. Len(script) = 3 /\ script[3] = Start("etcd")
    BY <2>1
  <2>3. After(r[2], Start("etcd"), env, x)
    BY <1>1, <1>2, <2>2, FirstSteps
  <2>4. "etcd" \in x.up
    BY <2>3 DEF After, Start
  <2> QED BY <1>3, <1>4, <2>4 DEF Success, Services
<1>5. CASE p = "configure_pgbouncer"
  <2>1. script = <<Use("pgbouncer"), Start("pgbouncer")>>
    BY <1>0, <1>5, ConfigureScripts DEF ConfigPgBouncer
  <2>2. Len(script) = 2 /\ script[2] = Start("pgbouncer")
    BY <2>1
  <2>3. After(r[1], Start("pgbouncer"), env, x)
    BY <1>1, <1>2, <2>2, FirstSteps
  <2>4. "pgbouncer" \in x.up
    BY <2>3 DEF After, Start
  <2> QED BY <1>3, <1>5, <2>4 DEF Success, Services
<1>6. CASE p = "configure_proxy"
  <2>1. script = <<Use(ProxyService(c.kind)), Daemon(ProxyService(c.kind))>>
    BY <1>0, <1>6, ConfigureScripts
  <2>2. Len(script) = 2 /\ script[2] = Daemon(ProxyService(c.kind))
    BY <2>1
  <2>3. After(r[1], Daemon(ProxyService(c.kind)), env, x)
    BY <1>1, <1>2, <2>2, FirstSteps
  <2>4. ProxyService(c.kind) \in x.up
    BY <2>3 DEF After, Daemon
  <2> QED BY <1>3, <1>6, <2>4 DEF Success, Services
<1>7. CASE p = "configure_monitor"
  <2>1. script = <<Use("node_exporter"), Daemon("node_exporter"), Use("vmagent"),
                   Daemon("vmagent")>>
    BY <1>0, <1>7, ConfigureScripts DEF ConfigMonitor
  <2>2. Len(script) = 4 /\ script[2] = Daemon("node_exporter") /\ script[3] = Use("vmagent")
        /\ script[4] = Daemon("vmagent")
    BY <2>1
  <2>3. /\ After(r[1], Daemon("node_exporter"), env, r[2])
        /\ After(r[2], Use("vmagent"), env, r[3])
        /\ After(r[3], Daemon("vmagent"), env, x)
    BY <1>1, <1>2, <2>2, FirstSteps
  <2>4. "node_exporter" \in r[2].up /\ r[3] = r[2] /\ x.up = r[3].up \cup {"vmagent"}
    BY <2>3 DEF After, Daemon, Use
  <2> QED BY <1>3, <1>7, <2>4 DEF Success, Services
<1>8. CASE p = "init_ydb_cluster"
  <2>1. script = <<Use("ydb"), Form>>
    BY <1>0, <1>8, ConfigureScripts DEF InitYDB
  <2>2. Len(script) = 2 /\ script[2] = Form
    BY <2>1
  <2>3. After(r[1], Form, env, x)
    BY <1>1, <1>2, <2>2, FirstSteps
  <2>4. x.data = env.fresh
    BY <2>3 DEF After, Form
  <2> QED BY <1>3, <1>8, <2>4 DEF Success, Services
<1>9. CASE p = "start_ydb_database"
  <2>1. script = <<Stop("ydbd-database"), Use("ydb"), Start("ydbd-database")>>
    BY <1>0, <1>9, ConfigureScripts DEF StartYDBDB
  <2>2. Len(script) = 3 /\ script[3] = Start("ydbd-database")
    BY <2>1
  <2>3. After(r[2], Start("ydbd-database"), env, x)
    BY <1>1, <1>2, <2>2, FirstSteps
  <2>4. "ydbd-database" \in x.up
    BY <2>3 DEF After, Start
  <2> QED BY <1>3, <1>9, <2>4 DEF Success, Services
<1> QED BY <1>4, <1>5, <1>6, <1>7, <1>8, <1>9

LEMMA DatabasesSucceed ==
  ASSUME NEW b \in Nat, NEW c, c.kind \in Kinds, NEW m, NEW env \in Envs(b),
         NEW p \in {"configure_db", "configure_patroni"},
         NEW machine \in MachineRecs(b), NEW bad \in Nat,
         NEW x, x = Executed(Script(c, p, m, env), machine, env, bad),
         x.err = "none", "swallowed" \notin x.notes
  PROVE  Success(c, p, env, x)
<1>0. PICK script : script = Script(c, p, m, env)
  OBVIOUS
<1>1. script \in Seq(Steps) /\ Len(script) \in Nat
  <2>1. p \in WorkPhases
    BY DEF WorkPhases, AllPhases
  <2> QED BY <1>0, <2>1, ScriptSuits, LenProperties
<1>2. PICK r : /\ r[0] = Begun(machine) /\ x = r[Len(script)]
               /\ \A i \in 1 .. Len(script) : After(r[i-1], script[i], env, r[i])
  BY <1>0, <1>1, DoneSteps
<1>3. Software(c, p) = {}
  BY DEF Software
<1>a. /\ env.first \in BOOLEAN /\ env.group \in BOOLEAN
      /\ env.fresh # 0
  BY DEF Envs
<1>4. CASE p = "configure_db" /\ c.kind = "postgres"
  <2>0. script = ConfigPostgres(env)
    BY <1>0, <1>4, ConfigureScripts
  <2>1. CASE env.first
    <3>1. script = <<Use("postgres"), TryRestart("postgres"), Found("postgres")>>
      BY <2>0, <2>1 DEF ConfigPostgres
    <3>2. Len(script) = 3 /\ script[2] = TryRestart("postgres") /\ script[3] = Found("postgres")
      BY <3>1
    <3>3. After(r[1], TryRestart("postgres"), env, r[2]) /\ After(r[2], Found("postgres"), env, x)
      BY <1>1, <1>2, <3>2, FirstSteps
    <3>4. "postgres" \in r[2].up /\ x.up = r[2].up /\ x.data # 0
      BY <3>3 DEF After, TryRestart, Found
    <3> QED BY <1>3, <1>4, <2>1, <3>4 DEF Success, Services, Service
  <2>2. CASE ~env.first
    <3>1. script = <<Use("postgres"), Stop("postgres"), TryWipe({"postgres", "patroni"}), Join,
                     Start("postgres")>>
      BY <2>0, <2>2 DEF ConfigPostgres
    <3>2. Len(script) = 5 /\ script[4] = Join /\ script[5] = Start("postgres")
      BY <3>1
    <3>3. After(r[3], Join, env, r[4]) /\ After(r[4], Start("postgres"), env, x)
      BY <1>1, <1>2, <3>2, FirstSteps
    <3>4. /\ r[4].data = env.peer /\ env.peer # 0
          /\ x.data = r[4].data /\ "postgres" \in x.up
      BY <3>3 DEF After, Join, Start
    <3> QED BY <1>3, <1>4, <2>2, <3>4 DEF Success, Services, Service
  <2> QED BY <1>a, <2>1, <2>2
<1>5. CASE p = "configure_db" /\ c.kind = "mysql"
  <2>0. PICK z : /\ z = (IF env.group THEN IF env.first THEN Bootstrap ELSE Join
                                      ELSE IF env.first THEN Found("mysql") ELSE Replicate)
                 /\ script = <<Use("mysql"), Restart("mysql"), z>>
    BY <1>0, <1>5, ConfigureScripts, MySQLScript
  <2>1. Len(script) = 3 /\ script[2] = Restart("mysql") /\ script[3] = z
    BY <2>0
  <2>2. After(r[1], Restart("mysql"), env, r[2]) /\ After(r[2], z, env, x)
    BY <1>1, <1>2, <2>1, FirstSteps
  <2>3. "mysql" \in r[2].up
    BY <2>2 DEF After, Restart
  <2>4. CASE env.first
    <3>1. z \in {Bootstrap, Found("mysql")}
      BY <2>0, <2>4
    <3>2. x.up = r[2].up /\ x.data # 0
      <4>1. CASE z = Bootstrap
        <5>1. After(r[2], Bootstrap, env, x)
          BY <2>2, <4>1
        <5> QED BY <1>a, <5>1 DEF After, Bootstrap
      <4>2. CASE z = Found("mysql")
        <5>1. After(r[2], Found("mysql"), env, x)
          BY <2>2, <4>2
        <5> QED BY <5>1 DEF After, Found
      <4> QED BY <3>1, <4>1, <4>2
    <3> QED BY <1>3, <1>5, <2>3, <2>4, <3>2 DEF Success, Services, Service
  <2>5. CASE ~env.first
    <3>1. z \in {Join, Replicate}
      BY <2>0, <2>5
    <3>2. x.up = r[2].up /\ x.data = env.peer /\ env.peer # 0
      <4>1. CASE z = Join
        <5>1. After(r[2], Join, env, x)
          BY <2>2, <4>1
        <5> QED BY <5>1 DEF After, Join
      <4>2. CASE z = Replicate
        <5>1. After(r[2], Replicate, env, x)
          BY <2>2, <4>2
        <5> QED BY <5>1 DEF After, Replicate
      <4> QED BY <3>1, <4>1, <4>2
    <3> QED BY <1>3, <1>5, <2>3, <2>5, <3>2 DEF Success, Services, Service
  <2> QED BY <1>a, <2>4, <2>5
<1>6. CASE p = "configure_db" /\ c.kind = "picodata"
  <2>0. PICK z : /\ z = (IF env.first THEN Found("picodata") ELSE Join)
                 /\ script = <<Stop("picodata"), Use("picodata"), Start("picodata"), z>>
    BY <1>0, <1>6, ConfigureScripts DEF ConfigPicodata
  <2>1. Len(script) = 4 /\ script[3] = Start("picodata") /\ script[4] = z
    BY <2>0
  <2>2. After(r[2], Start("picodata"), env, r[3]) /\ After(r[3], z, env, x)
    BY <1>1, <1>2, <2>1, FirstSteps
  <2>3. "picodata" \in r[3].up
    BY <2>2 DEF After, Start
  <2>4. CASE env.first
    <3>1. x.up = r[3].up /\ x.data # 0
      BY <2>0, <2>2, <2>4 DEF After, Found
    <3> QED BY <1>3, <1>6, <2>3, <2>4, <3>1 DEF Success, Services, Service
  <2>5. CASE ~env.first
    <3>1. x.up = r[3].up /\ x.data = env.peer /\ env.peer # 0
      BY <2>0, <2>2, <2>5 DEF After, Join
    <3> QED BY <1>3, <1>6, <2>3, <2>5, <3>1 DEF Success, Services, Service
  <2> QED BY <1>a, <2>4, <2>5
<1>7. CASE p = "configure_db" /\ c.kind = "ydb"
  <2>1. script = <<Use("ydb"), Wipe({"ydbd"}), Stop("ydbd"), Start("ydbd")>>
    BY <1>0, <1>7, ConfigureScripts DEF ConfigYDB
  <2>2. Len(script) = 4 /\ script[4] = Start("ydbd")
    BY <2>1
  <2>3. After(r[3], Start("ydbd"), env, x)
    BY <1>1, <1>2, <2>2, FirstSteps
  <2>4. "ydbd" \in x.up
    BY <2>3 DEF After, Start
  <2> QED BY <1>3, <1>7, <2>4 DEF Success, Services, Service
<1>8. CASE p = "configure_patroni"
  <2>1. script = <<Stop("postgres"), TryWipe({"postgres", "patroni"}), Stop("patroni"),
                   Use("patroni"), Use("postgres"), Start("patroni"), Elect>>
    BY <1>0, <1>8, ConfigureScripts DEF ConfigPatroni
  <2>2. Len(script) = 7 /\ script[6] = Start("patroni") /\ script[7] = Elect
    BY <2>1
  <2>3. After(r[5], Start("patroni"), env, r[6]) /\ After(r[6], Elect, env, x)
    BY <1>1, <1>2, <2>2, FirstSteps
  <2>4. /\ "patroni" \in r[6].up /\ x.up = r[6].up \cup {"postgres"}
        /\ x.data = IF env.known = 0 THEN env.fresh ELSE env.known
    BY <2>3 DEF After, Start, Elect
  <2> QED BY <1>3, <1>8, <2>4 DEF Success, Services
<1> QED BY <1>4, <1>5, <1>6, <1>7, <1>8 DEF Kinds

(* A script is to join the first machine's cluster, which is not there.       *)
Alone(c, p, env) ==
  p = "configure_db" /\ c.kind # "ydb" /\ ~env.first /\ env.peer = 0

(* What the script of a phase can and cannot do, whichever step is hit.       *)
Works(b, c, p, machine, env, bad, x) ==
  /\ x \in Outcomes(b)
  /\ machine.have \subseteq x.have
  /\ machine.up \ Services(c, p) \subseteq x.up
  /\ p \notin DataPhases => x.data = machine.data
  /\ (p = "configure_db" /\ c.kind # "ydb" /\ env.first /\ ~env.group /\ machine.data # 0)
       => x.data = machine.data
  /\ x.err = "none" /\ "swallowed" \notin x.notes => Success(c, p, env, x)
  /\ x.err = "missing" => \/ ~(Uses(c, p) \subseteq machine.have)
                          \/ Alone(c, p, env)
                          \/ p = "configure_patroni" /\ ~env.quorum
                          \/ p = "init_ydb_cluster" /\ ~env.nodes
  /\ bad = 0 => x.err # "fault"
  /\ bad = 0 /\ "swallowed" \in x.notes => Alone(c, p, env)
  /\ p = "configure_etcd" /\ x.err = "none" => "etcd" \in x.up

LEMMA PhaseWork ==
  ASSUME NEW b \in Nat, NEW c, c.kind \in Kinds, NEW m, NEW env \in Envs(b),
         NEW p \in WorkPhases, NEW machine \in MachineRecs(b), NEW bad \in Nat,
         NEW x, x = Executed(Script(c, p, m, env), machine, env, bad)
  PROVE  Works(b, c, p, machine, env, bad, x)
<1>0. PICK script : script = Script(c, p, m, env)
  OBVIOUS
<1>1. /\ script \in Seq(Steps) /\ Len(script) \in Nat
      /\ \A i \in 1 .. Len(script) : Suits(c, p, script[i], env)
  BY <1>0, ScriptSuits, LenProperties
<1>2. PICK r : RunOf(r, script, machine, env, bad, b) /\ x = r[Len(script)]
  BY <1>0, <1>1, ScriptRuns
<1>3. /\ x \in Outcomes(b)
      /\ machine.have \subseteq x.have
      /\ machine.up \ StoppedBy(script) \subseteq x.up
      /\ (\A i \in 1 .. Len(script) : ~Moves(script[i], env, machine.data))
            => x.data = machine.data
      /\ x.err = "missing" => \E i \in 1 .. Len(script) : Lacks(machine.have, script[i], env)
      /\ bad = 0 => x.err # "fault"
      /\ bad = 0 /\ "swallowed" \in x.notes =>
           \E i \in 1 .. Len(script) : Vain(script[i], env)
  <2>1. Len(script) \in 0 .. Len(script)
    BY <1>1
  <2> QED BY <1>1, <1>2, <2>1, AlongScript
<1>4. StoppedBy(script) \subseteq Services(c, p)
  BY <1>1 DEF StoppedBy, Stops, Suits
<1>5. ASSUME p \notin DataPhases PROVE x.data = machine.data
  <2>1. ASSUME NEW i \in 1 .. Len(script) PROVE ~Moves(script[i], env, machine.data)
    <3>1. Suits(c, p, script[i], env)
      BY <1>1
    <3> QED BY <1>5, <3>1 DEF Suits, Moves, DataPhases
  <2> QED BY <1>3, <2>1
<1>6. ASSUME p = "configure_db", c.kind # "ydb", env.first, ~env.group, machine.data # 0
      PROVE  x.data = machine.data
  <2>1. ASSUME NEW i \in 1 .. Len(script) PROVE ~Moves(script[i], env, machine.data)
    <3>1. Suits(c, p, script[i], env)
      BY <1>1
    <3> QED BY <1>6, <3>1 DEF Suits, Moves
  <2> QED BY <1>3, <2>1
<1>7. ASSUME x.err = "none", "swallowed" \notin x.notes PROVE Success(c, p, env, x)
  <2>1. \/ p \in Installs \cup {"run_stroppy"}
        \/ p \in {"configure_etcd", "configure_pgbouncer", "configure_proxy",
                  "configure_monitor", "init_ydb_cluster", "start_ydb_database"}
        \/ p \in {"configure_db", "configure_patroni"}
    BY DEF WorkPhases, AllPhases
  <2> QED BY <1>7, <2>1, InstallsSucceed, ConfiguresSucceed, DatabasesSucceed
<1>8. ASSUME x.err = "missing"
      PROVE  \/ ~(Uses(c, p) \subseteq machine.have)
             \/ Alone(c, p, env)
             \/ p = "configure_patroni" /\ ~env.quorum
             \/ p = "init_ydb_cluster" /\ ~env.nodes
  <2>1. PICK i \in 1 .. Len(script) : Lacks(machine.have, script[i], env)
    BY <1>3, <1>8
  <2>2. Suits(c, p, script[i], env)
    BY <1>1
  <2> QED BY <2>1, <2>2 DEF Lacks, Suits, Alone
<1>10. ASSUME bad = 0, "swallowed" \in x.notes PROVE Alone(c, p, env)
  <2>1. PICK i \in 1 .. Len(script) : Vain(script[i], env)
    BY <1>3, <1>10
  <2>2. Suits(c, p, script[i], env)
    BY <1>1
  <2> QED BY <2>1, <2>2 DEF Vain, Suits, Alone
<1>9. ASSUME p = "configure_etcd", x.err = "none" PROVE "etcd" \in x.up
  <2>1. script = <<Stop("etcd"), Use("etcd"), Start("etcd")>>
    BY <1>0, <1>9, ConfigureScripts DEF ConfigEtcd
  <2>2. Len(script) = 3 /\ script[3] = Start("etcd")
    BY <2>1
  <2>3. 3 \in 1 .. 3 /\ 3 - 1 = 2 /\ 2 \in 0 .. 3 /\ 3 \in 0 .. 3
    OBVIOUS
  <2>a. r[Len(script)].err = "none"
    BY <1>2, <1>9
  <2>b. /\ \A i \in 1 .. Len(script) :
             \/ r[i] = Do(r[i-1], script[i], env)
             \/ Tolerated(script[i], r[i-1]) \/ Unseen(script[i])
        /\ \A i \in 0 .. Len(script) : r[i].err = "none"
    BY <1>1, <1>2, <2>a, StepByStep
  <2>4. \/ x = Do(r[2], Start("etcd"), env)
        \/ Tolerated(Start("etcd"), r[2]) \/ Unseen(Start("etcd"))
    BY <1>2, <2>b, <2>2, <2>3
  <2>5. ~Tolerated(Start("etcd"), r[2]) /\ ~Unseen(Start("etcd")) /\ ~Vain(Start("etcd"), env)
    BY DEF Tolerated, Unseen, Vain, Start
  <2>6. r[2] \in Outcomes(b) /\ Start("etcd") \in Steps /\ r[2].err = "none"
    <3>1. r[2].err = "none"
      BY <2>b, <2>2, <2>3
    <3>2. r[2] \in Outcomes(b)
      BY <1>2, <2>2, <2>3 DEF RunOf
    <3>3. Start("etcd") \in Steps
      BY <1>1, <2>2, <2>3, ElementOfSeq
    <3> QED BY <3>1, <3>2, <3>3
  <2>7. After(r[2], Start("etcd"), env, x)
    BY <1>9, <2>4, <2>5, <2>6, DoneStep
  <2> QED BY <2>7 DEF After, Start
<1> QED BY <1>3, <1>4, <1>5, <1>6, <1>7, <1>8, <1>9, <1>10 DEF Works

(* A script that no fault hits.  What it starts, what it meets of its own     *)
(* earlier work, and what it clears the data of while it runs.                *)
Launches(s) ==
  IF s.op \in {"try", "restart", "start", "daemon"} THEN {s.arg}
  ELSE IF s.op = "elect" THEN {"postgres"} ELSE {}

Repeats(x, s, env) ==
  \/ s.op = "start" /\ s.arg \in x.up
  \/ s.op = "replicate" /\ x.data # 0
  \/ s.op = "elect" /\ env.known # 0 /\ ~env.member
  \/ s.op = "form" /\ x.data # 0

Clears(x, s) == s.op \in {"wipe", "trywipe"} /\ s.arg \cap x.up # {}

LEMMA CleanStep ==
  ASSUME NEW b \in Nat, NEW x \in Outcomes(b), NEW s \in Steps, NEW env \in Envs(b),
         NEW y, y = Do(x, s, env), x.err = "none"
  PROVE  /\ y.up \subseteq x.up \cup Launches(s)
         /\ y.err = "repeat" => Repeats(x, s, env)
         /\ "underfoot" \in y.notes => "underfoot" \in x.notes \/ Clears(x, s)
<1>0. s.op \in {"install", "fetch", "use", "stop", "try", "restart", "start", "daemon", "wipe",
                "trywipe", "found", "bootstrap", "join", "replicate", "elect", "form"}
  BY DEF Steps
<1>a. x = [have |-> x.have, up |-> x.up, data |-> x.data, err |-> x.err, notes |-> x.notes]
  BY DEF Outcomes
<1>1. CASE s.op \in {"install", "fetch"}
  <2>1. y = [x EXCEPT !.have = @ \cup {s.arg}]
    BY <1>1 DEF Do
  <2>2. y = [have |-> x.have \cup {s.arg}, up |-> x.up, data |-> x.data, err |-> x.err,
             notes |-> x.notes]
    BY <1>a, <2>1
  <2> QED BY <2>2
<1>2. CASE s.op = "use"
  <2>1. y = IF s.arg \in x.have THEN x ELSE Err(x, "missing")
    BY <1>2 DEF Do
  <2>2. y = [have |-> x.have, up |-> x.up, data |-> x.data, notes |-> x.notes,
             err |-> IF s.arg \in x.have THEN x.err ELSE "missing"]
    BY <1>a, <2>1 DEF Err
  <2> QED BY <2>2
<1>3. CASE s.op = "stop"
  <2>1. y = [x EXCEPT !.up = @ \ {s.arg}]
    BY <1>3 DEF Do
  <2>2. y = [have |-> x.have, up |-> x.up \ {s.arg}, data |-> x.data, err |-> x.err,
             notes |-> x.notes]
    BY <1>a, <2>1
  <2> QED BY <2>2
<1>4. CASE s.op \in {"try", "daemon", "start", "restart"}
  <2>1. \/ y = Run(x, {s.arg})
        \/ y = Err(x, "repeat") /\ Repeats(x, s, env)
        \/ y = Run(Member(x, 0), {s.arg})
    BY <1>4 DEF Do, Repeats
  <2>2. \/ y.up = x.up \cup {s.arg} /\ y.err = x.err /\ y.notes = x.notes
        \/ y.up = x.up /\ y.notes = x.notes /\ Repeats(x, s, env)
    <3>1. CASE y = Run(x, {s.arg})
      <4>1. y = [have |-> x.have, up |-> x.up \cup {s.arg}, data |-> x.data, err |-> x.err,
                 notes |-> x.notes]
        BY <1>a, <3>1 DEF Run
      <4> QED BY <4>1
    <3>2. CASE y = Err(x, "repeat") /\ Repeats(x, s, env)
      <4>1. y = [have |-> x.have, up |-> x.up, data |-> x.data, err |-> "repeat",
                 notes |-> x.notes]
        BY <1>a, <3>2 DEF Err
      <4> QED BY <3>2, <4>1
    <3>3. CASE y = Run(Member(x, 0), {s.arg})
      <4>1. y = [have |-> x.have, up |-> x.up \cup {s.arg}, data |-> 0, err |-> x.err,
                 notes |-> x.notes]
        BY <1>a, <3>3 DEF Run, Member
      <4> QED BY <4>1
    <3> QED BY <2>1, <3>1, <3>2, <3>3
  <2>3. Launches(s) = {s.arg}
    BY <1>4 DEF Launches
  <2> QED BY <2>2, <2>3
<1>5. CASE s.op \in {"wipe", "trywipe"}
  <2>1. y = Cleared(x, s.arg)
    BY <1>5 DEF Do
  <2>2. y = [have |-> x.have, up |-> x.up, data |-> 0, err |-> x.err,
             notes |-> IF s.arg \cap x.up # {} THEN x.notes \cup {"underfoot"} ELSE x.notes]
    BY <1>a, <2>1 DEF Cleared, Note, Member
  <2> QED BY <1>5, <2>2 DEF Clears
<1>6. CASE s.op \in {"found", "bootstrap", "join", "replicate", "form"}
  <2>1. \/ y = x \/ y = Member(x, env.fresh) \/ y = Member(x, env.peer)
        \/ (y = Err(x, "repeat") /\ Repeats(x, s, env)) \/ y = Err(x, "missing")
        \/ y = Note(x, "swallowed")
    BY <1>6 DEF Do, Repeats
  <2>2. \E d, e, k :
          /\ y = [have |-> x.have, up |-> x.up, data |-> d, err |-> e, notes |-> k]
          /\ e \in {"none", "missing"} \/ (e = "repeat" /\ Repeats(x, s, env))
          /\ k \in {x.notes, x.notes \cup {"swallowed"}}
    BY <1>a, <2>1 DEF Member, Err, Note
  <2> QED BY <2>2
<1>7. CASE s.op = "elect"
  <2>1. y = Elected(x, env) /\ Launches(s) = {"postgres"}
    BY <1>7 DEF Do, Launches
  <2>2. \/ \E d : y = [have |-> x.have, up |-> x.up \cup {"postgres"}, data |-> d, err |-> x.err,
                       notes |-> x.notes]
        \/ /\ y = [have |-> x.have, up |-> x.up, data |-> x.data, err |-> "repeat",
                   notes |-> x.notes]
           /\ Repeats(x, s, env)
        \/ y = [have |-> x.have, up |-> x.up, data |-> x.data, err |-> "missing",
                notes |-> x.notes]
    BY <1>a, <1>7, <2>1 DEF Elected, Run, Member, Err, Repeats
  <2> QED BY <2>1, <2>2
<1> QED BY <1>0, <1>1, <1>2, <1>3, <1>4, <1>5, <1>6, <1>7

(* The first step that errs, and one that clears what runs, come after steps  *)
(* that have all succeeded.                                                   *)
CleanRun(r, script, machine, env, us, x) ==
  /\ r[0] = Begun(machine) /\ x = r[Len(script)]
  /\ x.up \subseteq machine.up \cup us
  /\ x.notes \subseteq {"underfoot"}
  /\ \A i \in 0 .. Len(script) : r[i].err = "none" =>
       \A j \in 1 .. Len(script) : j <= i => After(r[j-1], script[j], env, r[j])
  /\ x.err = "repeat" => \E i \in 1 .. Len(script) :
       r[i-1].err = "none" /\ Repeats(r[i-1], script[i], env)
  /\ x.notes # {} => \E i \in 1 .. Len(script) :
       r[i-1].err = "none" /\ Clears(r[i-1], script[i])

LEMMA CleanScript ==
  ASSUME NEW b \in Nat, NEW script \in Seq(Steps), NEW machine \in MachineRecs(b),
         NEW env \in Envs(b), NEW us, \A i \in 1 .. Len(script) : Launches(script[i]) \subseteq us,
         \A i \in 1 .. Len(script) : ~Vain(script[i], env),
         NEW x, x = Executed(script, machine, env, 0)
  PROVE  \E r : CleanRun(r, script, machine, env, us, x)
<1> DEFINE n == Len(script)
<1>0. /\ n \in Nat
      /\ \A i \in 1 .. n : i - 1 \in 0 .. n /\ i \in 0 .. n /\ i # 0
      /\ 0 \in 0 .. n /\ n \in 0 .. n
      /\ \A i \in 1 .. n : script[i] \in Steps
  BY LenProperties, ElementOfSeq
<1>1. PICK r : RunOf(r, script, machine, env, 0, b) /\ x = r[n]
  BY ScriptRuns
<1> HIDE DEF n
<1>2. /\ \A i \in 0 .. n : r[i] \in Outcomes(b)
      /\ r[0] = Begun(machine)
      /\ \A i \in 1 .. n : r[i] = Stepped(r[i-1], script[i], env, i = 0)
  BY <1>1 DEF RunOf, n
<1>3. r[0].up = machine.up /\ r[0].err = "none" /\ r[0].notes = {}
  BY <1>2 DEF Begun
<1>4. ASSUME NEW i \in 1 .. n
      PROVE  r[i] = IF r[i-1].err # "none" THEN r[i-1] ELSE Do(r[i-1], script[i], env)
  BY <1>0, <1>2 DEF Stepped
<1>5. ASSUME NEW i \in 1 .. n
      PROVE  /\ r[i].up \subseteq r[i-1].up \cup us
             /\ r[i-1].err # "none" => r[i].err = r[i-1].err /\ r[i].notes = r[i-1].notes
             /\ r[i].err = "repeat" => \/ r[i-1].err = "repeat"
                                       \/ r[i-1].err = "none" /\ Repeats(r[i-1], script[i], env)
             /\ "underfoot" \in r[i].notes =>
                  \/ "underfoot" \in r[i-1].notes
                  \/ r[i-1].err = "none" /\ Clears(r[i-1], script[i])
             /\ r[i-1].err = "none" /\ r[i].err = "none" => After(r[i-1], script[i], env, r[i])
  <2>1. PICK u, v, s : u = r[i-1] /\ v = r[i] /\ s = script[i]
    OBVIOUS
  <2>2. u \in Outcomes(b) /\ s \in Steps
    BY <1>0, <1>2, <2>1
  <2>3. v = IF u.err # "none" THEN u ELSE Do(u, s, env)
    BY <1>4, <2>1
  <2>4. Launches(s) \subseteq us /\ ~Vain(s, env)
    BY <2>1 DEF n
  <2>5. CASE u.err # "none"
    <3>1. v = u
      BY <2>3, <2>5
    <3> QED BY <2>1, <2>5, <3>1
  <2>6. CASE u.err = "none"
    <3>1. v = Do(u, s, env)
      BY <2>3, <2>6
    <3>2. /\ v.up \subseteq u.up \cup Launches(s)
          /\ v.err = "repeat" => Repeats(u, s, env)
          /\ "underfoot" \in v.notes => "underfoot" \in u.notes \/ Clears(u, s)
      BY <2>2, <2>6, <3>1, CleanStep
    <3>3. v.err = "none" => After(u, s, env, v)
      BY <2>2, <2>4, <2>6, <3>1, DoneStep
    <3> QED BY <2>1, <2>4, <2>6, <3>2, <3>3
  <2> QED BY <2>5, <2>6
<1>6. x.up \subseteq machine.up \cup us
  <2> DEFINE P == {y \in Outcomes(b) : y.up \subseteq machine.up \cup us}
  <2>1. ASSUME NEW i \in 0 + 1 .. n, r[i-1] \in P PROVE r[i] \in P
    <3>1. i \in 1 .. n
      BY <1>0
    <3> QED BY <1>0, <1>2, <1>5, <2>1, <3>1
  <2>2. r[0] \in P
    BY <1>0, <1>2, <1>3
  <2>3. \A i \in 0 .. n : r[i] \in P
    <3> HIDE DEF P
    <3> QED BY <1>0, <2>1, <2>2, Along
  <2> QED BY <1>0, <1>1, <2>3 DEF n
<1>7. x.notes \subseteq {"underfoot"}
  <2>1. Len(script) \in Nat /\ 0 \in Nat
    BY <1>0 DEF n
  <2>2. "swallowed" \notin r[Len(script)].notes
    BY <1>1, <2>1, AlongScript
  <2> QED BY <1>0, <1>1, <1>2, <2>2 DEF Outcomes, n
<1>8. ASSUME NEW i \in 0 .. n, r[i].err = "none", NEW j \in 1 .. n, j <= i
      PROVE  After(r[j-1], script[j], env, r[j])
  <2>1. \A k \in 0 .. i : r[k].err = "none"
    <3> SUFFICES ASSUME NEW k \in 0 .. i, r[k].err # "none" PROVE FALSE
      OBVIOUS
    <3> DEFINE P == {y \in Outcomes(b) : y.err # "none"}
    <3>1. ASSUME NEW l \in k + 1 .. i, r[l-1] \in P PROVE r[l] \in P
      <4>1. l \in 1 .. n
        BY <1>0
      <4> QED BY <1>0, <1>2, <1>5, <3>1, <4>1
    <3>a. k \in 0 .. n
      BY <1>0
    <3>2. r[k] \in P /\ i \in Nat /\ k \in 0 .. i
      BY <1>0, <1>2, <3>a
    <3>3. \A l \in k .. i : r[l] \in P
      <4> HIDE DEF P
      <4> QED BY <3>1, <3>2, Along
    <3> QED BY <1>8, <3>2, <3>3
  <2>2. j - 1 \in 0 .. i /\ j \in 0 .. i
    BY <1>0, <1>8
  <2> QED BY <1>5, <2>1, <2>2
<1>9. ASSUME x.err = "repeat"
      PROVE  \E i \in 1 .. n : r[i-1].err = "none" /\ Repeats(r[i-1], script[i], env)
  <2> SUFFICES ASSUME \A i \in 1 .. n : ~(r[i-1].err = "none" /\ Repeats(r[i-1], script[i], env))
               PROVE  FALSE
    OBVIOUS
  <2> DEFINE P == {y \in Outcomes(b) : y.err # "repeat"}
  <2>1. ASSUME NEW i \in 0 + 1 .. n, r[i-1] \in P PROVE r[i] \in P
    <3>1. i \in 1 .. n
      BY <1>0
    <3>2. r[i-1].err # "repeat"
      BY <2>1
    <3>3. r[i].err # "repeat"
      BY <1>5, <3>1, <3>2
    <3> QED BY <1>0, <1>2, <3>1, <3>3
  <2>2. r[0] \in P
    BY <1>0, <1>2, <1>3
  <2>3. \A i \in 0 .. n : r[i] \in P
    <3> HIDE DEF P
    <3> QED BY <1>0, <2>1, <2>2, Along
  <2> QED BY <1>0, <1>1, <1>9, <2>3 DEF n
<1>10. ASSUME x.notes # {}
       PROVE  \E i \in 1 .. n : r[i-1].err = "none" /\ Clears(r[i-1], script[i])
  <2> SUFFICES ASSUME \A i \in 1 .. n : ~(r[i-1].err = "none" /\ Clears(r[i-1], script[i]))
               PROVE  FALSE
    OBVIOUS
  <2> DEFINE P == {y \in Outcomes(b) : "underfoot" \notin y.notes}
  <2>1. ASSUME NEW i \in 0 + 1 .. n, r[i-1] \in P PROVE r[i] \in P
    <3>1. i \in 1 .. n
      BY <1>0
    <3>2. "underfoot" \notin r[i-1].notes
      BY <2>1
    <3>3. "underfoot" \notin r[i].notes
      BY <1>5, <3>1, <3>2
    <3> QED BY <1>0, <1>2, <3>1, <3>3
  <2>2. r[0] \in P
    BY <1>0, <1>2, <1>3
  <2>3. \A i \in 0 .. n : r[i] \in P
    <3> HIDE DEF P
    <3> QED BY <1>0, <2>1, <2>2, Along
  <2> QED BY <1>0, <1>1, <1>7, <1>10, <2>3 DEF n
<1> QED BY <1>1, <1>2, <1>6, <1>7, <1>8, <1>9, <1>10 DEF n, CleanRun

(* What the script of a phase meets of its own earlier work on the machine,   *)
(* and what it clears the data of, when no fault hits it.                     *)
MetAgain(c, p, machine, env) ==
  \/ p = "configure_pgbouncer" /\ "pgbouncer" \in machine.up
  \/ p = "configure_db" /\ c.kind = "mysql" /\ ~env.group /\ ~env.first /\ machine.data # 0
  \/ p = "configure_patroni" /\ env.known # 0 /\ ~env.member
  \/ p = "init_ydb_cluster" /\ machine.data # 0

ClearedUnder(c, p, machine) ==
  \/ p = "configure_db" /\ c.kind = "postgres" /\ "patroni" \in machine.up
  \/ p = "configure_db" /\ c.kind = "ydb" /\ "ydbd" \in machine.up
  \/ p = "configure_patroni" /\ "patroni" \in machine.up

(* The i-th step of a script, which works on r[i-1], does no more than that.   *)
Blamed(c, p, machine, env, r, script, i) ==
  /\ Repeats(r[i-1], script[i], env) => MetAgain(c, p, machine, env)
  /\ Clears(r[i-1], script[i]) => ClearedUnder(c, p, machine)

(* The steps before the i-th have succeeded.                                  *)
Reached(r, script, env, i) ==
  \A j \in 1 .. Len(script) : j < i => After(r[j-1], script[j], env, r[j])

LEMMA SafeSteps ==
  ASSUME NEW x, NEW env, NEW a
  PROVE  /\ ~Repeats(x, Use(a), env) /\ ~Clears(x, Use(a))
         /\ ~Repeats(x, Stop(a), env) /\ ~Clears(x, Stop(a))
         /\ ~Repeats(x, Daemon(a), env) /\ ~Clears(x, Daemon(a))
         /\ ~Repeats(x, TryRestart(a), env) /\ ~Clears(x, TryRestart(a))
         /\ ~Repeats(x, Restart(a), env) /\ ~Clears(x, Restart(a))
         /\ ~Repeats(x, Found(a), env) /\ ~Clears(x, Found(a))
         /\ ~Repeats(x, Bootstrap, env) /\ ~Clears(x, Bootstrap)
         /\ ~Repeats(x, Join, env) /\ ~Clears(x, Join)
         /\ Repeats(x, Start(a), env) => a \in x.up
         /\ ~Clears(x, Start(a))
         /\ ~Repeats(x, Wipe(a), env) /\ ~Repeats(x, TryWipe(a), env)
         /\ Clears(x, Wipe(a)) \/ Clears(x, TryWipe(a)) => a \cap x.up # {}
         /\ Repeats(x, Replicate, env) => x.data # 0
         /\ ~Clears(x, Replicate)
         /\ Repeats(x, Elect, env) => env.known # 0 /\ ~env.member
         /\ ~Clears(x, Elect)
         /\ Repeats(x, Form, env) => x.data # 0
         /\ ~Clears(x, Form)
BY DEF Repeats, Clears, Use, Stop, Daemon, TryRestart, Restart, Found, Bootstrap, Join, Start,
       Wipe, TryWipe, Replicate, Elect, Form

LEMMA ReachedSteps ==
  ASSUME NEW r, NEW script, NEW env, Len(script) \in Nat, NEW i \in 1 .. Len(script),
         Reached(r, script, env, i)
  PROVE  /\ i >= 2 => After(r[0], script[1], env, r[1])
         /\ i >= 3 => After(r[1], script[2], env, r[2])
         /\ i >= 4 => After(r[2], script[3], env, r[3])
         /\ i >= 5 => After(r[3], script[4], env, r[4])
         /\ i >= 6 => After(r[4], script[5], env, r[5])
<1>1. \A j \in 1 .. Len(script) : j < i => After(r[j-1], script[j], env, r[j])
  BY DEF Reached
<1>2. ASSUME NEW j \in 1 .. 5, j < i PROVE After(r[j-1], script[j], env, r[j])
  <2>1. j \in 1 .. Len(script)
    BY <1>2
  <2> QED BY <1>1, <1>2, <2>1
<1>3. 1 - 1 = 0 /\ 2 - 1 = 1 /\ 3 - 1 = 2 /\ 4 - 1 = 3 /\ 5 - 1 = 4
  OBVIOUS
<1> HIDE DEF After
<1> QED BY <1>2, <1>3

(* What the steps before leave of services and data.                          *)
LEMMA StepLeaves ==
  ASSUME NEW x, NEW env, NEW a, NEW y
  PROVE  /\ After(x, Use(a), env, y) => y = x
         /\ After(x, Stop(a), env, y) => y.up = x.up \ {a} /\ y.data = x.data
         /\ After(x, TryWipe(a), env, y) => y.up = x.up /\ y.data = 0
         /\ After(x, Wipe(a), env, y) => y.up = x.up /\ y.data = 0
         /\ After(x, Join, env, y) => y.up = x.up
         /\ After(x, Restart(a), env, y) /\ ~env.group => y.data = x.data
         /\ After(x, Start(a), env, y) => y.data = x.data
BY DEF After, Use, Stop, TryWipe, Wipe, Join, Restart, Start

LEMMA PlainBlamed ==
  ASSUME NEW b \in Nat, NEW c, c.kind \in Kinds, NEW m, NEW env \in Envs(b), NEW machine,
         NEW p \in Installs \cup {"run_stroppy", "configure_proxy", "configure_monitor"},
         NEW script, script = Script(c, p, m, env), NEW r, NEW i \in 1 .. Len(script)
  PROVE  Blamed(c, p, machine, env, r, script, i)
<1>1. CASE p \in Installs \cup {"run_stroppy"}
  <2>1. p \in WorkPhases
    BY <1>1 DEF WorkPhases, AllPhases, Installs
  <2>2. Suits(c, p, script[i], env)
    BY <2>1, ScriptSuits
  <2>3. Services(c, p) = {} /\ p \notin DataPhases
    BY <1>1 DEF Services, DataPhases, Installs
  <2> QED BY <2>2, <2>3 DEF Suits, DataPhases, Blamed, Repeats, Clears
<1>2. CASE p = "configure_proxy"
  <2>1. script = <<Use(ProxyService(c.kind)), Daemon(ProxyService(c.kind))>>
    BY <1>2, ConfigureScripts
  <2>2. i \in {1, 2}
    BY <2>1
  <2>3. script[i] \in {Use(ProxyService(c.kind)), Daemon(ProxyService(c.kind))}
    BY <2>1, <2>2
  <2> QED BY <2>3, SafeSteps DEF Blamed
<1>3. CASE p = "configure_monitor"
  <2>1. script = <<Use("node_exporter"), Daemon("node_exporter"), Use("vmagent"),
                   Daemon("vmagent")>>
    BY <1>3, ConfigureScripts DEF ConfigMonitor
  <2>2. i \in {1, 2, 3, 4}
    BY <2>1
  <2>3. script[i] \in {Use("node_exporter"), Daemon("node_exporter"), Use("vmagent"),
                       Daemon("vmagent")}
    BY <2>1, <2>2
  <2> QED BY <2>3, SafeSteps DEF Blamed
<1> QED BY <1>1, <1>2, <1>3

LEMMA ServicesBlamed ==
  ASSUME NEW b \in Nat, NEW c, c.kind \in Kinds, NEW m, NEW env \in Envs(b), NEW machine,
         NEW p \in {"configure_etcd", "configure_pgbouncer", "init_ydb_cluster",
                    "start_ydb_database"},
         NEW script, script = Script(c, p, m, env), NEW r, r[0] = Begun(machine),
         NEW i \in 1 .. Len(script), Reached(r, script, env, i)
  PROVE  Blamed(c, p, machine, env, r, script, i)
<1>0. r[0].up = machine.up /\ r[0].data = machine.data
  BY DEF Begun
<1>1. ASSUME NEW u, \E w : script = <<Stop(u), Use(w), Start(u)>>
      PROVE  Blamed(c, p, machine, env, r, script, i)
  <2>0. PICK w : script = <<Stop(u), Use(w), Start(u)>>
    BY <1>1
  <2>1. Len(script) = 3 /\ script[1] = Stop(u) /\ script[2] = Use(w) /\ script[3] = Start(u)
    BY <2>0
  <2>2. i \in {1, 2, 3}
    BY <2>1
  <2>3. CASE i = 3
    <3>0. /\ i >= 2 => After(r[0], script[1], env, r[1])
          /\ i >= 3 => After(r[1], script[2], env, r[2])
      <4>1. Len(script) \in Nat
        BY <2>1
      <4> QED BY ONLY <4>1, i \in 1 .. Len(script), Reached(r, script, env, i), ReachedSteps
    <3>1. After(r[0], Stop(u), env, r[1]) /\ After(r[1], Use(w), env, r[2])
      BY <2>1, <2>3, <3>0
    <3>2. u \notin r[2].up
      BY <3>1, StepLeaves
    <3>3. i - 1 = 2
      BY <2>3
    <3> QED BY <2>1, <2>3, <3>2, <3>3, SafeSteps DEF Blamed
  <2>4. CASE i # 3
    <3>1. script[i] \in {Stop(u), Use(w)}
      BY <2>1, <2>2, <2>4
    <3> QED BY <3>1, SafeSteps DEF Blamed
  <2> QED BY <2>3, <2>4
<1>2. CASE p = "configure_etcd"
  <2>1. script = <<Stop("etcd"), Use("etcd"), Start("etcd")>>
    BY <1>2, ConfigureScripts DEF ConfigEtcd
  <2> QED BY <1>1, <2>1
<1>3. CASE p = "start_ydb_database"
  <2>1. script = <<Stop("ydbd-database"), Use("ydb"), Start("ydbd-database")>>
    BY <1>3, ConfigureScripts DEF StartYDBDB
  <2> QED BY <1>1, <2>1
<1>4. CASE p = "configure_pgbouncer"
  <2>1. script = <<Use("pgbouncer"), Start("pgbouncer")>>
    BY <1>4, ConfigureScripts DEF ConfigPgBouncer
  <2>2. Len(script) = 2 /\ script[1] = Use("pgbouncer") /\ script[2] = Start("pgbouncer")
    BY <2>1
  <2>3. i \in {1, 2}
    BY <2>2
  <2>4. CASE i = 2
    <3>0. i >= 2 => After(r[0], script[1], env, r[1])
      <4>1. Len(script) \in Nat
        BY <2>2
      <4> QED BY ONLY <4>1, i \in 1 .. Len(script), Reached(r, script, env, i), ReachedSteps
    <3>1. r[1] = r[0]
      <4>1. After(r[0], Use("pgbouncer"), env, r[1])
        BY <2>2, <2>4, <3>0
      <4> QED BY <4>1, StepLeaves
    <3>2. i - 1 = 1
      BY <2>4
    <3>3. Repeats(r[i-1], script[i], env) => "pgbouncer" \in machine.up
      BY <1>0, <2>2, <2>4, <3>1, <3>2, SafeSteps
    <3> QED BY <1>4, <2>2, <2>4, <3>3, SafeSteps DEF Blamed, MetAgain
  <2>5. CASE i = 1
    BY <2>2, <2>5, SafeSteps DEF Blamed
  <2> QED BY <2>3, <2>4, <2>5
<1>5. CASE p = "init_ydb_cluster"
  <2>1. script = <<Use("ydb"), Form>>
    BY <1>5, ConfigureScripts DEF InitYDB
  <2>2. Len(script) = 2 /\ script[1] = Use("ydb") /\ script[2] = Form
    BY <2>1
  <2>3. i \in {1, 2}
    BY <2>2
  <2>4. CASE i = 2
    <3>0. i >= 2 => After(r[0], script[1], env, r[1])
      <4>1. Len(script) \in Nat
        BY <2>2
      <4> QED BY ONLY <4>1, i \in 1 .. Len(script), Reached(r, script, env, i), ReachedSteps
    <3>1. r[1] = r[0]
      <4>1. After(r[0], Use("ydb"), env, r[1])
        BY <2>2, <2>4, <3>0
      <4> QED BY <4>1, StepLeaves
    <3>2. i - 1 = 1
      BY <2>4
    <3>3. Repeats(r[i-1], script[i], env) => machine.data # 0
      BY <1>0, <2>2, <2>4, <3>1, <3>2, SafeSteps
    <3> QED BY <1>5, <2>2, <2>4, <3>3, SafeSteps DEF Blamed, MetAgain
  <2>5. CASE i = 1
    BY <2>2, <2>5, SafeSteps DEF Blamed
  <2> QED BY <2>3, <2>4, <2>5
<1> QED BY <1>2, <1>3, <1>4, <1>5

LEMMA DatabasesBlamed ==
  ASSUME NEW b \in Nat, NEW c, c.kind \in Kinds, NEW m, NEW env \in Envs(b), NEW machine,
         NEW p \in {"configure_db", "configure_patroni"},
         NEW script, script = Script(c, p, m, env), NEW r, r[0] = Begun(machine),
         NEW i \in 1 .. Len(script), Reached(r, script, env, i)
  PROVE  Blamed(c, p, machine, env, r, script, i)
<1>0. /\ r[0].up = machine.up /\ r[0].data = machine.data
      /\ env.first \in BOOLEAN /\ env.group \in BOOLEAN
  BY DEF Begun, Envs
<1>r. Len(script) \in Nat =>
        /\ i >= 2 => After(r[0], script[1], env, r[1])
        /\ i >= 3 => After(r[1], script[2], env, r[2])
        /\ i >= 4 => After(r[2], script[3], env, r[3])
        /\ i >= 5 => After(r[3], script[4], env, r[4])
        /\ i >= 6 => After(r[4], script[5], env, r[5])
  BY ONLY i \in 1 .. Len(script), Reached(r, script, env, i), ReachedSteps
<1>i. /\ i = 2 => i - 1 = 1
      /\ i = 3 => i - 1 = 2
      /\ i = 4 => i - 1 = 3
      /\ i = 5 => i - 1 = 4
      /\ i = 6 => i - 1 = 5
  OBVIOUS
<1>1. CASE p = "configure_db" /\ c.kind = "postgres"
  <2>0. script = ConfigPostgres(env)
    BY <1>1, ConfigureScripts
  <2>1. CASE env.first
    <3>1. script = <<Use("postgres"), TryRestart("postgres"), Found("postgres")>>
      BY <2>0, <2>1 DEF ConfigPostgres
    <3>2. i \in {1, 2, 3}
      BY <3>1
    <3>3. script[i] \in {Use("postgres"), TryRestart("postgres"), Found("postgres")}
      BY <3>1, <3>2
    <3> QED BY <3>3, SafeSteps DEF Blamed
  <2>2. CASE ~env.first
    <3>1. script = <<Use("postgres"), Stop("postgres"), TryWipe({"postgres", "patroni"}), Join,
                     Start("postgres")>>
      BY <2>0, <2>2 DEF ConfigPostgres
    <3>2. /\ Len(script) = 5 /\ script[1] = Use("postgres") /\ script[2] = Stop("postgres")
          /\ script[3] = TryWipe({"postgres", "patroni"}) /\ script[4] = Join
          /\ script[5] = Start("postgres")
      BY <3>1
    <3>3. i \in {1, 2, 3, 4, 5}
      BY <3>2
    <3>4. CASE i = 3
      <4>1. After(r[0], Use("postgres"), env, r[1]) /\ After(r[1], Stop("postgres"), env, r[2])
        BY <1>r, <3>2, <3>4
      <4>2. r[2].up = machine.up \ {"postgres"}
        BY <1>0, <4>1, StepLeaves
      <4>3. ~Repeats(r[2], TryWipe({"postgres", "patroni"}), env)
        BY SafeSteps
      <4>4. ASSUME Clears(r[2], TryWipe({"postgres", "patroni"})) PROVE "patroni" \in machine.up
        <5>1. {"postgres", "patroni"} \cap r[2].up # {}
          BY <4>4, SafeSteps
        <5> QED BY <4>2, <5>1
      <4> QED BY <1>1, <1>i, <3>2, <3>4, <4>3, <4>4 DEF Blamed, ClearedUnder
    <3>5. CASE i = 5
      <4>1. /\ After(r[1], Stop("postgres"), env, r[2])
            /\ After(r[2], TryWipe({"postgres", "patroni"}), env, r[3])
            /\ After(r[3], Join, env, r[4])
        BY <1>r, <3>2, <3>5
      <4>a. r[2].up = r[1].up \ {"postgres"}
        BY <4>1, StepLeaves
      <4>b. r[3].up = r[2].up
        BY <4>1, StepLeaves
      <4>c. r[4].up = r[3].up
        BY <4>1 DEF After, Join
      <4>2. r[4].up = r[1].up \ {"postgres"}
        BY <4>a, <4>b, <4>c
      <4>3. ~Repeats(r[4], Start("postgres"), env) /\ ~Clears(r[4], Start("postgres"))
        <5>1. "postgres" \notin r[4].up
          BY <4>2
        <5> QED BY <5>1, SafeSteps
      <4> QED BY <1>i, <3>2, <3>5, <4>3 DEF Blamed
    <3>6. CASE i \in {1, 2, 4}
      <4>1. script[i] \in {Use("postgres"), Stop("postgres"), Join}
        BY <3>2, <3>6
      <4> QED BY <4>1, SafeSteps DEF Blamed
    <3> QED BY <3>3, <3>4, <3>5, <3>6
  <2> QED BY <1>0, <2>1, <2>2
<1>2. CASE p = "configure_db" /\ c.kind = "mysql"
  <2>0. PICK z : /\ z = (IF env.group THEN IF env.first THEN Bootstrap ELSE Join
                                      ELSE IF env.first THEN Found("mysql") ELSE Replicate)
                 /\ script = <<Use("mysql"), Restart("mysql"), z>>
    BY <1>2, ConfigureScripts, MySQLScript
  <2>1. Len(script) = 3 /\ script[1] = Use("mysql") /\ script[2] = Restart("mysql")
        /\ script[3] = z
    BY <2>0
  <2>2. i \in {1, 2, 3}
    BY <2>1
  <2>3. CASE i \in {1, 2}
    <3>1. script[i] \in {Use("mysql"), Restart("mysql")}
      BY <2>1, <2>3
    <3> QED BY <3>1, SafeSteps DEF Blamed
  <2>4. CASE i = 3 /\ (env.group \/ env.first)
    <3>1. script[i] \in {Bootstrap, Join, Found("mysql")}
      BY <2>0, <2>1, <2>4
    <3> QED BY <3>1, SafeSteps DEF Blamed
  <2>5. CASE i = 3 /\ ~env.group /\ ~env.first
    <3>1. script[3] = Replicate
      BY <2>0, <2>1, <2>5
    <3>2. After(r[0], Use("mysql"), env, r[1]) /\ After(r[1], Restart("mysql"), env, r[2])
      BY <1>r, <2>1, <2>5
    <3>3. r[2].data = machine.data
      BY <1>0, <2>5, <3>2, StepLeaves
    <3>4. Repeats(r[2], Replicate, env) => machine.data # 0
      BY <3>3, SafeSteps
    <3>5. ~Clears(r[2], Replicate)
      BY SafeSteps
    <3> QED BY <1>2, <1>i, <2>5, <3>1, <3>4, <3>5 DEF Blamed, MetAgain
  <2> QED BY <1>0, <2>2, <2>3, <2>4, <2>5
<1>3. CASE p = "configure_db" /\ c.kind = "picodata"
  <2>0. PICK z : /\ z = (IF env.first THEN Found("picodata") ELSE Join)
                 /\ script = <<Stop("picodata"), Use("picodata"), Start("picodata"), z>>
    BY <1>3, ConfigureScripts DEF ConfigPicodata
  <2>1. /\ Len(script) = 4 /\ script[1] = Stop("picodata") /\ script[2] = Use("picodata")
        /\ script[3] = Start("picodata") /\ script[4] = z
    BY <2>0
  <2>2. i \in {1, 2, 3, 4}
    BY <2>1
  <2>3. CASE i = 3
    <3>1. After(r[0], Stop("picodata"), env, r[1]) /\ After(r[1], Use("picodata"), env, r[2])
      BY <1>r, <2>1, <2>3
    <3>2. "picodata" \notin r[2].up
      BY <3>1, StepLeaves
    <3>3. ~Repeats(r[2], Start("picodata"), env) /\ ~Clears(r[2], Start("picodata"))
      BY <3>2, SafeSteps
    <3> QED BY <1>i, <2>1, <2>3, <3>3 DEF Blamed
  <2>4. CASE i \in {1, 2, 4}
    <3>1. script[i] \in {Stop("picodata"), Use("picodata"), Found("picodata"), Join}
      BY <2>0, <2>1, <2>4
    <3> QED BY <3>1, SafeSteps DEF Blamed
  <2> QED BY <2>2, <2>3, <2>4
<1>4. CASE p = "configure_db" /\ c.kind = "ydb"
  <2>0. script = <<Use("ydb"), Wipe({"ydbd"}), Stop("ydbd"), Start("ydbd")>>
    BY <1>4, ConfigureScripts DEF ConfigYDB
  <2>1. /\ Len(script) = 4 /\ script[1] = Use("ydb") /\ script[2] = Wipe({"ydbd"})
        /\ script[3] = Stop("ydbd") /\ script[4] = Start("ydbd")
    BY <2>0
  <2>2. i \in {1, 2, 3, 4}
    BY <2>1
  <2>3. CASE i = 2
    <3>1. After(r[0], Use("ydb"), env, r[1])
      BY <1>r, <2>1, <2>3
    <3>2. r[1].up = machine.up
      BY <1>0, <3>1, StepLeaves
    <3>3. Clears(r[1], Wipe({"ydbd"})) => "ydbd" \in machine.up
      <4>1. Clears(r[1], Wipe({"ydbd"})) => {"ydbd"} \cap r[1].up # {}
        BY SafeSteps
      <4> QED BY <3>2, <4>1
    <3>4. ~Repeats(r[1], Wipe({"ydbd"}), env)
      BY SafeSteps
    <3> QED BY <1>4, <1>i, <2>1, <2>3, <3>3, <3>4 DEF Blamed, ClearedUnder
  <2>4. CASE i = 4
    <3>1. After(r[2], Stop("ydbd"), env, r[3])
      BY <1>r, <2>1, <2>4
    <3>2. "ydbd" \notin r[3].up
      BY <3>1, StepLeaves
    <3>3. ~Repeats(r[3], Start("ydbd"), env) /\ ~Clears(r[3], Start("ydbd"))
      BY <3>2, SafeSteps
    <3> QED BY <1>i, <2>1, <2>4, <3>3 DEF Blamed
  <2>5. CASE i \in {1, 3}
    <3>1. script[i] \in {Use("ydb"), Stop("ydbd")}
      BY <2>1, <2>5
    <3> QED BY <3>1, SafeSteps DEF Blamed
  <2> QED BY <2>2, <2>3, <2>4, <2>5
<1>5. CASE p = "configure_patroni"
  <2>0. script = <<Stop("postgres"), TryWipe({"postgres", "patroni"}), Stop("patroni"),
                   Use("patroni"), Use("postgres"), Start("patroni"), Elect>>
    BY <1>5, ConfigureScripts DEF ConfigPatroni
  <2>1. /\ Len(script) = 7 /\ script[1] = Stop("postgres")
        /\ script[2] = TryWipe({"postgres", "patroni"}) /\ script[3] = Stop("patroni")
        /\ script[4] = Use("patroni") /\ script[5] = Use("postgres")
        /\ script[6] = Start("patroni") /\ script[7] = Elect
    BY <2>0
  <2>2. i \in {1, 2, 3, 4, 5, 6, 7}
    BY <2>1
  <2>3. CASE i = 2
    <3>1. After(r[0], Stop("postgres"), env, r[1])
      BY <1>r, <2>1, <2>3
    <3>2. r[1].up = machine.up \ {"postgres"}
      BY <1>0, <3>1, StepLeaves
    <3>3. ASSUME Clears(r[1], TryWipe({"postgres", "patroni"})) PROVE "patroni" \in machine.up
      <4>1. {"postgres", "patroni"} \cap r[1].up # {}
        BY <3>3, SafeSteps
      <4> QED BY <3>2, <4>1
    <3>4. ~Repeats(r[1], TryWipe({"postgres", "patroni"}), env)
      BY SafeSteps
    <3> QED BY <1>5, <1>i, <2>1, <2>3, <3>3, <3>4 DEF Blamed, ClearedUnder
  <2>4. CASE i = 6
    <3>1. /\ After(r[2], Stop("patroni"), env, r[3]) /\ After(r[3], Use("patroni"), env, r[4])
          /\ After(r[4], Use("postgres"), env, r[5])
      BY <1>r, <2>1, <2>4
    <3>2. "patroni" \notin r[5].up
      BY <3>1, StepLeaves
    <3>3. ~Repeats(r[5], Start("patroni"), env) /\ ~Clears(r[5], Start("patroni"))
      BY <3>2, SafeSteps
    <3> QED BY <1>i, <2>1, <2>4, <3>3 DEF Blamed
  <2>5. CASE i = 7
    <3>1. Repeats(r[i-1], Elect, env) => env.known # 0 /\ ~env.member
      BY SafeSteps
    <3>2. ~Clears(r[i-1], Elect)
      BY SafeSteps
    <3> QED BY <1>5, <2>1, <2>5, <3>1, <3>2 DEF Blamed, MetAgain
  <2>6. CASE i \in {1, 3, 4, 5}
    <3>1. script[i] \in {Stop("postgres"), Stop("patroni"), Use("patroni"), Use("postgres")}
      BY <2>1, <2>6
    <3> QED BY <3>1, SafeSteps DEF Blamed
  <2> QED BY <2>2, <2>3, <2>4, <2>5, <2>6
<1> QED BY <1>1, <1>2, <1>3, <1>4, <1>5 DEF Kinds

(* What the script of a phase does when no fault hits it.                     *)
Tidy(c, p, machine, env, x) ==
  /\ x.up \subseteq machine.up \cup Services(c, p)
  /\ p = "configure_db" /\ c.kind = "ydb" /\ x.err = "none" => x.data = 0
  /\ x.err = "repeat" => MetAgain(c, p, machine, env)
  /\ x.notes # {} => ClearedUnder(c, p, machine)

LEMMA CleanWork ==
  ASSUME NEW b \in Nat, NEW c, c.kind \in Kinds, NEW m, NEW env \in Envs(b),
         NEW p \in WorkPhases, NEW machine \in MachineRecs(b), ~Alone(c, p, env),
         NEW x, x = Executed(Script(c, p, m, env), machine, env, 0)
  PROVE  Tidy(c, p, machine, env, x)
<1>0. PICK script : script = Script(c, p, m, env)
  OBVIOUS
<1>1. /\ script \in Seq(Steps) /\ Len(script) \in Nat
      /\ \A i \in 1 .. Len(script) : Suits(c, p, script[i], env)
  BY <1>0, ScriptSuits, LenProperties
<1>2. \A i \in 1 .. Len(script) : Launches(script[i]) \subseteq Services(c, p)
  <2>1. ASSUME NEW s, Suits(c, p, s, env) PROVE Launches(s) \subseteq Services(c, p)
    BY <2>1 DEF Suits, Launches, Services
  <2> QED BY <1>1, <2>1
<1>3. PICK us : us = Services(c, p)
  OBVIOUS
<1>a. PICK r : CleanRun(r, script, machine, env, us, x)
  <2>1. \A i \in 1 .. Len(script) : Launches(script[i]) \subseteq us
    BY <1>2, <1>3
  <2>2. x = Executed(script, machine, env, 0)
    BY <1>0
  <2>3. script \in Seq(Steps)
    BY <1>1
  <2>4. ASSUME NEW i \in 1 .. Len(script) PROVE ~Vain(script[i], env)
    <3>1. Suits(c, p, script[i], env)
      BY <1>1
    <3> QED BY <3>1 DEF Vain, Suits, Alone
  <2> QED BY <2>1, <2>2, <2>3, <2>4, CleanScript
<1>4. /\ r[0] = Begun(machine) /\ x = r[Len(script)]
      /\ x.up \subseteq machine.up \cup us
      /\ \A i \in 0 .. Len(script) : r[i].err = "none" =>
           \A j \in 1 .. Len(script) : j <= i => After(r[j-1], script[j], env, r[j])
      /\ x.err = "repeat" => \E i \in 1 .. Len(script) :
           r[i-1].err = "none" /\ Repeats(r[i-1], script[i], env)
      /\ x.notes # {} => \E i \in 1 .. Len(script) :
           r[i-1].err = "none" /\ Clears(r[i-1], script[i])
  BY <1>a DEF CleanRun
<1>5. ASSUME NEW i \in 1 .. Len(script), r[i-1].err = "none"
      PROVE  Blamed(c, p, machine, env, r, script, i)
  <2>1. Reached(r, script, env, i)
    <3>1. i - 1 \in 0 .. Len(script)
      BY <1>1
    <3>2. \A j \in 1 .. Len(script) : j <= i - 1 => After(r[j-1], script[j], env, r[j])
      BY <1>4, <1>5, <3>1
    <3>3. \A j \in 1 .. Len(script) : j < i => j <= i - 1
      BY <1>1
    <3> QED BY <3>2, <3>3 DEF Reached
  <2>2. \/ p \in Installs \cup {"run_stroppy", "configure_proxy", "configure_monitor"}
        \/ p \in {"configure_etcd", "configure_pgbouncer", "init_ydb_cluster",
                  "start_ydb_database"}
        \/ p \in {"configure_db", "configure_patroni"}
    BY DEF WorkPhases, AllPhases, Installs
  <2> QED BY <1>0, <1>4, <2>1, <2>2, PlainBlamed, ServicesBlamed, DatabasesBlamed
<1>6. x.err = "repeat" => MetAgain(c, p, machine, env)
  BY <1>4, <1>5 DEF Blamed
<1>7. x.notes # {} => ClearedUnder(c, p, machine)
  BY <1>4, <1>5 DEF Blamed
<1>8. ASSUME p = "configure_db", c.kind = "ydb", x.err = "none" PROVE x.data = 0
  <2>1. script = <<Use("ydb"), Wipe({"ydbd"}), Stop("ydbd"), Start("ydbd")>>
    BY <1>0, <1>8, ConfigureScripts DEF ConfigYDB
  <2>2. /\ Len(script) = 4 /\ script[2] = Wipe({"ydbd"}) /\ script[3] = Stop("ydbd")
        /\ script[4] = Start("ydbd")
    BY <2>1
  <2>3. ASSUME NEW j \in 1 .. 4 PROVE After(r[j-1], script[j], env, r[j])
    <3>1. 4 \in 0 .. Len(script) /\ r[4].err = "none" /\ j \in 1 .. Len(script) /\ j <= 4
      BY <1>4, <1>8, <2>2
    <3> QED BY <1>4, <3>1
  <2>4. /\ After(r[1], Wipe({"ydbd"}), env, r[2]) /\ After(r[2], Stop("ydbd"), env, r[3])
        /\ After(r[3], Start("ydbd"), env, r[4])
    <3>1. 2 - 1 = 1 /\ 3 - 1 = 2 /\ 4 - 1 = 3
      OBVIOUS
    <3> HIDE DEF After
    <3> QED BY <2>2, <2>3, <3>1
  <2>5. r[4].data = 0
    BY <2>4, StepLeaves
  <2> QED BY <1>4, <2>2, <2>5
<1> QED BY <1>3, <1>4, <1>6, <1>7, <1>8 DEF Tidy
--------------------------------------------------------------------------------
(* The plan of a run.                                                         *)

LEMMA Table ==
  ASSUME NEW c, c.kind \in Kinds, NEW st
  PROVE  /\ \A p \in {"network", "machines", "teardown"} :
              TargetsOf(c, st, p) = <<>> /\ SendMode(c, p) = "all"
         /\ \A p \in {"install_db", "install_patroni", "install_pgbouncer",
                      "configure_pgbouncer"} :
              TargetsOf(c, st, p) = st.database /\ SendMode(c, p) = "all"
         /\ \A p \in {"install_proxy", "configure_proxy"} :
              TargetsOf(c, st, p) = st.proxy /\ SendMode(c, p) = "all"
         /\ \A p \in {"install_stroppy", "run_stroppy"} :
              TargetsOf(c, st, p) = st.stroppy /\ SendMode(c, p) = "all"
         /\ \A p \in {"install_monitor", "configure_monitor"} :
              TargetsOf(c, st, p) = AllTargets(st) /\ SendMode(c, p) = "all"
         /\ TargetsOf(c, st, "install_etcd") = UpTo(3, st.database)
         /\ SendMode(c, "install_etcd") = "all"
         /\ TargetsOf(c, st, "configure_etcd") = UpTo(3, st.database)
         /\ SendMode(c, "configure_etcd") = "each"
         /\ TargetsOf(c, st, "configure_patroni") = st.database
         /\ SendMode(c, "configure_patroni") = "sequence"
         /\ TargetsOf(c, st, "init_ydb_cluster") = UpTo(1, st.database)
         /\ SendMode(c, "init_ydb_cluster") = "all"
         /\ TargetsOf(c, st, "start_ydb_database") = st.database
         /\ SendMode(c, "start_ydb_database") = "each"
         /\ TargetsOf(c, st, "configure_db") = IF NeedsPatroni(c) THEN <<>> ELSE st.database
         /\ SendMode(c, "configure_db") = IF NeedsPatroni(c) THEN "all"
                                          ELSE IF c.kind = "ydb" THEN "each" ELSE "sequence"
<1> USE DEF TargetsOf, SendMode, TaskOf, ToAll, ToEach, InSequence
<1>1. \A p \in {"network", "machines", "teardown"} :
        TargetsOf(c, st, p) = <<>> /\ SendMode(c, p) = "all"
  BY DEF Noop
<1>2. \A p \in {"install_db", "install_patroni", "install_pgbouncer", "configure_pgbouncer"} :
        TargetsOf(c, st, p) = st.database /\ SendMode(c, p) = "all"
  <2>1. TargetsOf(c, st, "install_db") = st.database /\ SendMode(c, "install_db") = "all"
    BY DEF InstallDB, PgInstall, MySQLInstall, PicoInstall, YDBInstall, Kinds
  <2>2. TargetsOf(c, st, "install_patroni") = st.database
        /\ SendMode(c, "install_patroni") = "all"
    BY DEF PatroniInstall
  <2>3. TargetsOf(c, st, "install_pgbouncer") = st.database
        /\ SendMode(c, "install_pgbouncer") = "all"
    BY DEF PgBouncerInstall
  <2>4. TargetsOf(c, st, "configure_pgbouncer") = st.database
        /\ SendMode(c, "configure_pgbouncer") = "all"
    BY DEF PgBouncerConfig
  <2> HIDE DEF TargetsOf, SendMode
  <2> QED BY <2>1, <2>2, <2>3, <2>4
<1>3. \A p \in {"install_proxy", "configure_proxy"} :
        TargetsOf(c, st, p) = st.proxy /\ SendMode(c, p) = "all"
  BY DEF ProxyInstall, ProxyConfig
<1>4. \A p \in {"install_stroppy", "run_stroppy"} :
        TargetsOf(c, st, p) = st.stroppy /\ SendMode(c, p) = "all"
  BY DEF StroppyInstall, StroppyRun
<1>5. \A p \in {"install_monitor", "configure_monitor"} :
        TargetsOf(c, st, p) = AllTargets(st) /\ SendMode(c, p) = "all"
  BY DEF MonitorInstall, MonitorConfig
<1>6. /\ TargetsOf(c, st, "install_etcd") = UpTo(3, st.database)
      /\ SendMode(c, "install_etcd") = "all"
      /\ TargetsOf(c, st, "configure_etcd") = UpTo(3, st.database)
      /\ SendMode(c, "configure_etcd") = "each"
  BY DEF EtcdInstall, EtcdConfig
<1>7. /\ TargetsOf(c, st, "configure_patroni") = st.database
      /\ SendMode(c, "configure_patroni") = "sequence"
      /\ TargetsOf(c, st, "init_ydb_cluster") = UpTo(1, st.database)
      /\ SendMode(c, "init_ydb_cluster") = "all"
      /\ TargetsOf(c, st, "start_ydb_database") = st.database
      /\ SendMode(c, "start_ydb_database") = "each"
  BY DEF PatroniConfig, YDBInit, YDBStartDB
<1>8. /\ TargetsOf(c, st, "configure_db") = IF NeedsPatroni(c) THEN <<>> ELSE st.database
      /\ SendMode(c, "configure_db") = IF NeedsPatroni(c) THEN "all"
                                       ELSE IF c.kind = "ydb" THEN "each" ELSE "sequence"
  BY DEF ConfigDB, IsNoop, Noop, PgConfig, MySQLConfig, PicoConfig, YDBConfig, Kinds
<1> HIDE DEF TargetsOf, SendMode
<1> QED BY <1>1, <1>2, <1>3, <1>4, <1>5, <1>6, <1>7, <1>8

LEMMA UpToPart ==
  ASSUME NEW E, NEW s \in Seq(E), NEW k \in Nat
  PROVE  /\ UpTo(k, s) \in Seq(E)
         /\ ToSet(UpTo(k, s)) \subseteq ToSet(s)
         /\ s # <<>> /\ k # 0 => s[1] \in ToSet(UpTo(k, s))
         /\ k = 1 => ToSet(UpTo(k, s)) \subseteq {s[1]}
<1> DEFINE n == IF Len(s) > k THEN k ELSE Len(s)
<1> DEFINE t == SubSeq(s, 1, n)
<1>1. Len(s) \in Nat /\ n \in 0 .. Len(s) /\ DOMAIN s = 1 .. Len(s)
  BY LenProperties
<1>a. \A i \in 1 .. n : s[i] \in E
  BY <1>1, ElementOfSeq
<1>2. t = [i \in 1 .. n |-> s[i]]
  <2> HIDE DEF n
  <2> QED BY <1>1
<1>3. t \in Seq(E) /\ ToSet(t) = {s[i] : i \in 1 .. n}
  <2> HIDE DEF n
  <2>1. t \in Seq(E)
    BY <1>1, <1>2, <1>a
  <2>2. DOMAIN t = 1 .. n
    BY <1>2
  <2> HIDE DEF t
  <2>3. ToSet(t) = {t[i] : i \in 1 .. n}
    BY <2>2 DEF ToSet
  <2> QED BY <1>2, <2>1, <2>3
<1>4. UpTo(k, s) = t
  BY DEF UpTo
<1>5. ToSet(t) \subseteq ToSet(s)
  BY <1>1, <1>3 DEF ToSet
<1>6. s # <<>> /\ k # 0 => s[1] \in ToSet(t)
  <2>1. s # <<>> => Len(s) # 0
    BY EmptySeq
  <2>2. s # <<>> /\ k # 0 => 1 \in 1 .. n
    BY <1>1, <2>1
  <2> QED BY <1>3, <2>2
<1>7. k = 1 => ToSet(t) \subseteq {s[1]}
  <2>1. k = 1 => \A i \in 1 .. n : i = 1
    BY <1>1
  <2> QED BY <1>3, <2>1
<1> QED BY <1>3, <1>4, <1>5, <1>6, <1>7

LEMMA PartsOfAll ==
  ASSUME NEW st \in RunStates, NEW all, all = AllTargets(st)
  PROVE  /\ all \in Seq(MachineNames)
         /\ \A s \in {st.database, st.monitor, st.proxy, st.stroppy} :
              s \in Seq(MachineNames) /\ ToSet(s) \subseteq ToSet(all)
<1> DEFINE a == st.database
<1> DEFINE b == st.monitor
<1> DEFINE c == st.proxy
<1> DEFINE d == st.stroppy
<1>1. /\ a \in Seq(MachineNames) /\ b \in Seq(MachineNames)
      /\ c \in Seq(MachineNames) /\ d \in Seq(MachineNames)
  BY DEF RunStates
<1>2. all = a \o b \o c \o d
  BY DEF AllTargets
<1> SUFFICES /\ all \in Seq(MachineNames)
             /\ ToSet(a) \subseteq ToSet(all) /\ ToSet(b) \subseteq ToSet(all)
             /\ ToSet(c) \subseteq ToSet(all) /\ ToSet(d) \subseteq ToSet(all)
  BY <1>1
<1> HIDE DEF a, b, c, d
<1>3. /\ all \in Seq(MachineNames)
      /\ Len(all) = Len(a) + Len(b) + Len(c) + Len(d)
      /\ \A i \in 1 .. Len(all) :
           all[i] = IF i <= Len(a) THEN a[i]
                    ELSE IF i <= Len(a) + Len(b) THEN b[i - Len(a)]
                    ELSE IF i <= Len(a) + Len(b) + Len(c) THEN c[i - Len(a) - Len(b)]
                    ELSE d[i - Len(a) - Len(b) - Len(c)]
  BY <1>1, <1>2, FourParts
<1>4. /\ Len(a) \in Nat /\ Len(b) \in Nat /\ Len(c) \in Nat /\ Len(d) \in Nat
      /\ DOMAIN a = 1 .. Len(a) /\ DOMAIN b = 1 .. Len(b) /\ DOMAIN c = 1 .. Len(c)
      /\ DOMAIN d = 1 .. Len(d) /\ DOMAIN all = 1 .. Len(all)
  BY <1>1, <1>3, LenProperties
<1>5. ASSUME NEW i \in 1 .. Len(a) PROVE a[i] \in ToSet(all)
  <2>1. i \in 1 .. Len(all) /\ i <= Len(a)
    BY <1>3, <1>4
  <2>2. all[i] = a[i]
    BY <1>3, <2>1
  <2> QED BY <1>4, <2>1, <2>2 DEF ToSet
<1>6. ASSUME NEW i \in 1 .. Len(b) PROVE b[i] \in ToSet(all)
  <2>0. PICK j \in Int : j = Len(a) + i
    BY <1>4
  <2>1. j \in 1 .. Len(all) /\ ~(j <= Len(a)) /\ j <= Len(a) + Len(b) /\ j - Len(a) = i
    BY <1>3, <1>4, <2>0
  <2>2. all[j] = b[i]
    BY <1>3, <2>1
  <2> QED BY <1>4, <2>1, <2>2 DEF ToSet
<1>7. ASSUME NEW i \in 1 .. Len(c) PROVE c[i] \in ToSet(all)
  <2>0. PICK j \in Int : j = Len(a) + Len(b) + i
    BY <1>4
  <2>1. /\ j \in 1 .. Len(all) /\ ~(j <= Len(a)) /\ ~(j <= Len(a) + Len(b))
        /\ j <= Len(a) + Len(b) + Len(c) /\ j - Len(a) - Len(b) = i
    BY <1>3, <1>4, <2>0
  <2>2. all[j] = c[i]
    BY <1>3, <2>1
  <2> QED BY <1>4, <2>1, <2>2 DEF ToSet
<1>8. ASSUME NEW i \in 1 .. Len(d) PROVE d[i] \in ToSet(all)
  <2>0. PICK j \in Int : j = Len(a) + Len(b) + Len(c) + i
    BY <1>4
  <2>1. /\ j \in 1 .. Len(all) /\ ~(j <= Len(a)) /\ ~(j <= Len(a) + Len(b))
        /\ ~(j <= Len(a) + Len(b) + Len(c)) /\ j - Len(a) - Len(b) - Len(c) = i
    BY <1>3, <1>4, <2>0
  <2>2. all[j] = d[i]
    BY <1>3, <2>1
  <2> QED BY <1>4, <2>1, <2>2 DEF ToSet
<1>9. ToSet(a) \subseteq ToSet(all) /\ ToSet(b) \subseteq ToSet(all)
  BY <1>4, <1>5, <1>6 DEF ToSet
<1>10. ToSet(c) \subseteq ToSet(all) /\ ToSet(d) \subseteq ToSet(all)
  BY <1>4, <1>7, <1>8 DEF ToSet
<1> QED BY <1>3, <1>9, <1>10

LEMMA SeqOfItself ==
  ASSUME NEW E, NEW s \in Seq(E), NEW T, ToSet(s) \subseteq T
  PROVE  s \in Seq(T)
<1>1. Len(s) \in Nat /\ DOMAIN s = 1 .. Len(s)
  BY LenProperties
<1>2. \A i \in 1 .. Len(s) : s[i] \in T
  BY <1>1 DEF ToSet
<1>3. s = [i \in 1 .. Len(s) |-> s[i]]
  OBVIOUS
<1> QED BY <1>1, <1>2, <1>3

LEMMA TargetsTyped ==
  ASSUME NEW c, c.kind \in Kinds, NEW st \in RunStates, NEW p \in AllPhases
  PROVE  /\ TargetsOf(c, st, p) \in Seq(MachineNames)
         /\ ToSet(TargetsOf(c, st, p)) \subseteq ToSet(AllTargets(st))
<1> DEFINE all == AllTargets(st)
<1> DEFINE Fits(s) == s \in Seq(MachineNames) /\ ToSet(s) \subseteq ToSet(all)
<1>1. Fits(all) /\ Fits(st.database) /\ Fits(st.proxy) /\ Fits(st.stroppy)
  BY PartsOfAll
<1>2. Fits(UpTo(3, st.database)) /\ Fits(UpTo(1, st.database))
  <2>1. PICK s : s = st.database
    OBVIOUS
  <2>2. s \in Seq(MachineNames) /\ ToSet(s) \subseteq ToSet(all)
    BY <1>1, <2>1
  <2>3. \A k \in Nat : UpTo(k, s) \in Seq(MachineNames) /\ ToSet(UpTo(k, s)) \subseteq ToSet(s)
    BY <2>2, UpToPart
  <2> QED BY <2>1, <2>2, <2>3
<1>3. Fits(<<>>)
  BY DEF ToSet
<1> SUFFICES Fits(TargetsOf(c, st, p))
  OBVIOUS
<1>4. TargetsOf(c, st, p) \in {all, st.database, st.proxy, st.stroppy, <<>>,
                               UpTo(3, st.database), UpTo(1, st.database)}
  BY Table DEF AllPhases, Installs
<1> HIDE DEF Fits, all
<1> QED BY <1>1, <1>2, <1>3, <1>4

LEMMA NoTargets ==
  ASSUME NEW c, c.kind \in Kinds, NEW p \in AllPhases
  PROVE  TargetsOf(c, NewState, p) = <<>>
<1>1. NewState \in RunStates
  BY RunStatesMade
<1>2. /\ NewState.database = <<>> /\ NewState.monitor = <<>> /\ NewState.proxy = <<>>
      /\ NewState.stroppy = <<>>
  BY DEF NewState
<1>3. AllTargets(NewState) = <<>>
  <2>1. <<>> \in Seq(MachineNames) /\ <<>> \o <<>> = <<>>
    OBVIOUS
  <2> QED BY <1>2, <2>1 DEF AllTargets
<1>4. /\ TargetsOf(c, NewState, p) \in Seq(MachineNames)
      /\ ToSet(TargetsOf(c, NewState, p)) \subseteq ToSet(<<>>)
  BY <1>1, <1>3, TargetsTyped
<1>5. PICK s : s = TargetsOf(c, NewState, p)
  OBVIOUS
<1>6. s \in Seq({})
  <2>1. ToSet(<<>>) = {}
    BY DEF ToSet
  <2> QED BY <1>4, <1>5, <2>1, SeqOfItself
<1>7. s = <<>>
  <2>1. Len(s) = 0
    BY <1>6, LenProperties, ElementOfSeq
  <2> QED BY <1>6, <2>1, EmptySeq
<1> QED BY <1>5, <1>7

(* What the rest needs to know of the plan.                                   *)
LEMMA Plans ==
  ASSUME NEW c \in Configs, NEW pl, pl = Built(c)
  PROVE  /\ c.kind \in Kinds
         /\ pl.phases = Phases(c) /\ pl.phases \subseteq AllPhases
         /\ pl.ready \in RunStates /\ pl.ready = Provisioned(c)
         /\ pl.machines = ToSet(AllTargets(pl.ready))
         /\ \A p \in pl.phases :
              /\ pl.deps[p] = DepsOf(c, p) /\ pl.deps[p] \subseteq pl.phases
              /\ pl.mode[p] = SendMode(c, p)
              /\ pl.before[p] = <<>>
              /\ pl.after[p] = TargetsOf(c, pl.ready, p)
              /\ pl.after[p] \in Seq(pl.machines)
              /\ ToSet(pl.after[p]) \subseteq pl.machines
<1>1. ValidConfig(c) /\ FillMachinesFromTopology(c) \in Seq([role : STRING, count : Nat])
  BY DeploymentAssumption
<1>2. c.kind \in Kinds
  BY <1>1 DEF ValidConfig
<1>3. /\ pl.phases = Phases(c)
      /\ pl.ready = Provisioned(c)
      /\ pl.machines = ToSet(AllTargets(pl.ready))
      /\ \A p \in Phases(c) :
           /\ pl.deps[p] = DepsOf(c, p)
           /\ pl.mode[p] = SendMode(c, p)
           /\ pl.before[p] = TargetsOf(c, NewState, p)
           /\ pl.after[p] = TargetsOf(c, pl.ready, p)
  BY DEF Built
<1>4. pl.ready \in RunStates
  BY <1>1, <1>3, RunStatesMade
<1>5. ASSUME NEW p \in Phases(c)
      PROVE  /\ DepsOf(c, p) \subseteq Phases(c)
             /\ TargetsOf(c, NewState, p) = <<>>
             /\ TargetsOf(c, pl.ready, p) \in Seq(pl.machines)
             /\ ToSet(TargetsOf(c, pl.ready, p)) \subseteq pl.machines
  <2>1. p \in AllPhases
    BY PhasesKnown
  <2>2. DepsOf(c, p) \subseteq Phases(c)
    BY DepsDescend
  <2>3. PICK st \in RunStates : st = pl.ready
    BY <1>4
  <2>4. PICK s : s = TargetsOf(c, st, p)
    OBVIOUS
  <2>5. s \in Seq(MachineNames) /\ ToSet(s) \subseteq pl.machines
    BY <1>2, <1>3, <2>1, <2>3, <2>4, TargetsTyped
  <2>6. s \in Seq(pl.machines)
    BY <2>5, SeqOfItself
  <2> QED BY <1>2, <2>1, <2>2, <2>3, <2>4, <2>5, <2>6, NoTargets
<1> QED BY <1>2, <1>3, <1>4, <1>5, PhasesKnown
--------------------------------------------------------------------------------
(* The inductive invariant.                                                   *)

Shape ==
  /\ cfg \in Configs
  /\ plan = Built(cfg)
  /\ status \in [plan.phases -> {"pending", "running", "done", "failed"}]
  /\ tries \in [plan.phases -> 0 .. MaxTries]
  /\ todo \in [plan.phases -> Seq(Machines)]
  /\ failing \subseteq In({"running"})
  /\ live \subseteq Commands
  /\ stale \subseteq Commands
  /\ waiting \subseteq live \cup stale
  /\ clusters \in Nat
  /\ mach \in [Machines -> MachineRecs(clusters)]
  /\ state \in {NewState, plan.ready}
  /\ known \in 0 .. clusters
  /\ faults \in 0 .. MaxFaults
  /\ mishaps \subseteq {"missing", "repeat", "fault", "orphaned", "swallowed", "underfoot"}
  /\ result \in {"running", "completed", "failed"}

(* The waves: a phase that runs or is done has its dependencies done, and     *)
(* the run has its machines from the machines phase on.                       *)
Waves ==
  /\ \A p \in In({"running", "done"}) \ {"teardown"} : plan.deps[p] \subseteq In({"done"})
  /\ status["teardown"] # "running"
  /\ result # "running" => In({"running"}) = {}
  /\ status["teardown"] = "done" => result # "running"
  /\ "machines" \in In({"done"}) => state = plan.ready
  /\ result = "running" /\ "machines" \notin In({"done"}) => state = NewState
  /\ \A p \in plan.phases : status[p] # "running" => tries[p] = 0
  /\ "configure_db" \in In({"done"}) => ~Panics(cfg, plan.ready, "configure_db")

(* A task that sends in sequence and has served no machine yet.               *)
Fresh(p) ==
  /\ plan.mode[p] = "sequence" /\ plan.after[p] # <<>>
  /\ todo[p] = Tail(plan.after[p])
  /\ {c \in live : c[1] = p} = {<<p, plan.after[p][1]>>}

(* The machines that the current execution of p's task has served: those that *)
(* it waits for no more, and of a sequence the first in any case.             *)
Served(p) ==
  IF status[p] = "done" THEN ToSet(plan.after[p])
  ELSE IF \/ status[p] # "running" \/ p \in failing \/ Panics(cfg, state, p)
          \/ Fresh(p)
    THEN {}
  ELSE {m \in ToSet(plan.after[p]) :
          \/ m \notin ToSet(todo[p]) /\ <<p, m>> \notin live
          \/ plan.mode[p] = "sequence" /\ m = plan.after[p][1]}

(* Commands go to machines of their phase, once the run has any; those that a *)
(* served machine has had are not with the agents.                            *)
Sent ==
  /\ \A c \in live : /\ status[c[1]] = "running"
                     /\ ~Panics(cfg, state, c[1])
                     /\ c[2] \in ToSet(plan.after[c[1]])
                     /\ plan.mode[c[1]] = "sequence" => c[1] \notin failing
  /\ \A c \in stale : c[2] \in ToSet(plan.after[c[1]]) \ Served(c[1])
  /\ state = NewState => live \cup stale = {}
  /\ \A p \in plan.phases :
       /\ ToSet(todo[p]) \subseteq ToSet(plan.after[p])
       /\ todo[p] # <<>> => /\ plan.mode[p] = "sequence" /\ status[p] = "running"
                            /\ p \notin failing /\ \E c \in live : c[1] = p

(* A machine whose command waits for the quorum has started its etcd.         *)
Waits ==
  \A c \in waiting : /\ c[1] = "configure_etcd"
                     /\ "etcd" \in mach[c[2]].up
                     /\ mach[c[2]].boot # "no"

(* A task that sends in sequence waits for one command at a time, and in a    *)
(* list without repetition for that of the first machine only at first.       *)
InTurn ==
  \A p \in In({"running"}) \ failing :
    plan.mode[p] = "sequence" =>
      /\ \A c, d \in live : c[1] = p /\ d[1] = p => c = d
      /\ \/ Fresh(p)
         \/ IsInjective(plan.after[p]) /\ plan.after[p] # <<>> =>
              plan.after[p][1] \notin ToSet(todo[p]) \cup {c[2] : c \in {d \in live : d[1] = p}}

Control == Shape /\ Waves /\ Sent /\ Waits /\ InTurn

First == plan.ready.database[1]

(* Group replication is founded anew whenever the first machine is            *)
(* configured: a list that names it twice leaves two clusters.                *)
Orderly == "group" \in cfg.features => IsInjective(plan.ready.database)

Founded(d) ==
  /\ mach[d].data # 0
  /\ Orderly => mach[d].data = mach[First].data

(* What a phase leaves on a machine it has served.                            *)
Effect(p, m) ==
  /\ Software(cfg, p) \subseteq mach[m].have
  /\ Services(cfg, p) \subseteq mach[m].up
  /\ p = "configure_patroni" => mach[m].data # 0 /\ mach[m].data = known
  /\ p = "configure_db" /\ cfg.kind # "ydb" => Founded(m)
  /\ p = "init_ydb_cluster" => \A d \in ToSet(plan.ready.database) : Founded(d)

Effects ==
  result = "running" /\ NoSwallowed =>
    \A p \in plan.phases : \A m \in Served(p) : Effect(p, m)

Booted ==
  result = "running" => \A m \in Served("install_monitor") : mach[m].boot = "ok"

(* The plan and the run state.                                                *)
AlwaysThere ==
  {"network", "machines", "install_db", "configure_db", "install_monitor",
   "configure_monitor", "install_stroppy", "run_stroppy", "teardown"}

LEMMA PlanIs ==
  ASSUME Shape
  PROVE  /\ cfg \in Configs /\ cfg.kind \in Kinds
         /\ plan.phases = Phases(cfg) /\ plan.phases \subseteq AllPhases
         /\ AlwaysThere \subseteq plan.phases
         /\ plan.ready \in RunStates /\ plan.ready = Provisioned(cfg)
         /\ Machines = ToSet(AllTargets(plan.ready))
         /\ \A p \in plan.phases :
              /\ plan.deps[p] = DepsOf(cfg, p) /\ plan.deps[p] \subseteq plan.phases
              /\ plan.mode[p] = SendMode(cfg, p)
              /\ plan.before[p] = <<>>
              /\ plan.after[p] = TargetsOf(cfg, plan.ready, p)
              /\ plan.after[p] \in Seq(Machines)
              /\ ToSet(plan.after[p]) \subseteq Machines
<1>1. cfg \in Configs /\ plan = Built(cfg)
  BY DEF Shape
<1>2. PICK c, pl : c = cfg /\ pl = plan
  OBVIOUS
<1>3. c \in Configs /\ pl = Built(c)
  BY <1>1, <1>2
<1>4. AlwaysThere \subseteq Phases(cfg)
  BY DEF AlwaysThere, Phases
<1> QED BY <1>2, <1>3, <1>4, Plans DEF Machines

LEMMA StateIs ==
  ASSUME Shape
  PROVE  /\ state \in RunStates
         /\ state = plan.ready =>
              Fleet = Machines /\ \A p \in plan.phases : Targets(p) = plan.after[p]
         /\ state = NewState => Fleet = {} /\ \A p \in plan.phases : Targets(p) = <<>>
<1>1. state \in {NewState, plan.ready}
  BY DEF Shape
<1>2. state \in RunStates
  BY <1>1, PlanIs, RunStatesMade
<1>3. ASSUME state = NewState
      PROVE  Fleet = {} /\ \A p \in plan.phases : Targets(p) = <<>>
  BY <1>3, PlanIs DEF Fleet, Targets
<1>4. ASSUME plan.ready = NewState
      PROVE  Machines = {} /\ \A p \in plan.phases : plan.after[p] = <<>>
  <2>1. AllTargets(NewState) = <<>>
    <3>1. <<>> \o <<>> = <<>>
      OBVIOUS
    <3> QED BY <3>1 DEF AllTargets, NewState
  <2>2. Machines = {}
    BY <1>4, <2>1, PlanIs DEF ToSet
  <2>3. ASSUME NEW p \in plan.phases PROVE plan.after[p] = <<>>
    <3>1. p \in AllPhases /\ cfg.kind \in Kinds /\ plan.after[p] = TargetsOf(cfg, NewState, p)
      BY <1>4, PlanIs
    <3> QED BY <3>1, NoTargets
  <2> QED BY <2>2, <2>3
<1>5. ASSUME state = plan.ready
      PROVE  Fleet = Machines /\ \A p \in plan.phases : Targets(p) = plan.after[p]
  <2>1. CASE state = NewState
    BY <1>3, <1>4, <1>5, <2>1
  <2>2. CASE state # NewState
    BY <2>2 DEF Fleet, Targets
  <2> QED BY <2>1, <2>2
<1> QED BY <1>2, <1>3, <1>5

LEMMA MachinesFirst ==
  ASSUME NEW c, NEW D,
         \A p \in (Phases(c) \cap D) \ {"teardown"} : DepsOf(c, p) \subseteq D,
         NEW q \in Phases(c) \ {"network", "machines", "teardown"}, DepsOf(c, q) \subseteq D
  PROVE  "machines" \in D
<1>1. ASSUME NEW p \in Installs, p \in Phases(c), p \in D \/ DepsOf(c, p) \subseteq D
      PROVE  "machines" \in D
  <2>1. p \notin {"network", "machines", "teardown"}
    BY DEF Installs
  <2>2. DepsOf(c, p) \subseteq D
    BY <1>1, <2>1
  <2>3. DepsOf(c, p) = {"machines"}
    BY DEF DepsOf, Installs
  <2> QED BY <2>2, <2>3
<1>2. "install_db" \in Phases(c) /\ "install_db" \in Installs
  BY DEF Phases, Installs
<1>3. CASE q \in Installs
  BY <1>1, <1>3
<1>4. ASSUME "configure_etcd" \in Phases(c),
             "configure_etcd" \in D \/ DepsOf(c, "configure_etcd") \subseteq D
      PROVE  "machines" \in D
  <2>1. DepsOf(c, "configure_etcd") = {"install_etcd"} /\ "install_etcd" \in Installs
    BY DEF DepsOf, DatabaseDeps, Installs
  <2>2. DepsOf(c, "configure_etcd") \subseteq D
    BY <1>4
  <2>3. "install_etcd" \in Phases(c)
    BY <1>4, <2>1, DepsDescend
  <2> QED BY <1>1, <2>1, <2>2, <2>3
<1>5. ASSUME "configure_patroni" \in Phases(c),
             "configure_patroni" \in D \/ DepsOf(c, "configure_patroni") \subseteq D
      PROVE  "machines" \in D
  <2>1. "install_db" \in DepsOf(c, "configure_patroni")
    BY DEF DepsOf, DatabaseDeps, ConfigDBDeps, Installs
  <2>2. DepsOf(c, "configure_patroni") \subseteq D
    BY <1>5
  <2> QED BY <1>1, <1>2, <2>1, <2>2
<1>6. ASSUME "configure_db" \in D \/ DepsOf(c, "configure_db") \subseteq D
      PROVE  "machines" \in D
  <2>0. "configure_db" \in Phases(c)
    BY DEF Phases
  <2>1. DepsOf(c, "configure_db") \subseteq D
    BY <1>6, <2>0
  <2>2. \/ "install_db" \in DepsOf(c, "configure_db")
        \/ NeedsPatroni(c) /\ "configure_patroni" \in DepsOf(c, "configure_db")
    BY DEF DepsOf, DatabaseDeps, ConfigDBDeps, Installs
  <2>3. NeedsPatroni(c) => "configure_patroni" \in Phases(c)
    BY DEF Phases
  <2> QED BY <1>1, <1>2, <1>5, <2>1, <2>2, <2>3
<1>7. CASE q = "init_ydb_cluster"
  <2>1. "configure_db" \in DepsOf(c, q)
    BY <1>7 DEF DepsOf, DatabaseDeps, Installs
  <2> QED BY <1>6, <2>1
<1>8. CASE q = "start_ydb_database"
  <2>1. "init_ydb_cluster" \in DepsOf(c, q) /\ "configure_db" \in DepsOf(c, "init_ydb_cluster")
    BY <1>8 DEF DepsOf, DatabaseDeps, Installs
  <2>2. "init_ydb_cluster" \in Phases(c)
    BY <2>1, DepsDescend
  <2> QED BY <1>6, <2>1, <2>2
<1>9. CASE q \in {"configure_pgbouncer", "configure_proxy", "configure_monitor", "run_stroppy"}
  <2>1. "configure_db" \in DepsOf(c, q)
    BY <1>9 DEF DepsOf, RunStroppyDeps, Installs
  <2> QED BY <1>6, <2>1
<1> QED BY <1>3, <1>4, <1>5, <1>6, <1>7, <1>8, <1>9, PhasesKnown DEF AllPhases

(* What a phase that may start finds: the machines of its task.               *)
LEMMA Ripe ==
  ASSUME Shape, Waves, result = "running",
         NEW p \in plan.phases \ {"teardown"}, plan.deps[p] \subseteq In({"done"})
  PROVE  /\ Targets(p) = plan.after[p]
         /\ ToSet(plan.after[p]) \subseteq Fleet
<1> DEFINE D == In({"done"})
<1>1. CASE p \in {"network", "machines"}
  <2>1. cfg.kind \in Kinds
    BY PlanIs
  <2>2. TargetsOf(cfg, plan.ready, p) = <<>>
    BY <1>1, <2>1, Table
  <2>3. plan.after[p] = <<>> /\ plan.before[p] = <<>>
    BY <2>2, PlanIs
  <2> QED BY <2>3 DEF Targets, ToSet
<1>2. CASE p \notin {"network", "machines"}
  <2>1. \A q \in (Phases(cfg) \cap D) \ {"teardown"} : DepsOf(cfg, q) \subseteq D
    BY PlanIs DEF Waves, In
  <2>2. DepsOf(cfg, p) \subseteq D /\ p \in Phases(cfg) \ {"network", "machines", "teardown"}
    BY <1>2, PlanIs
  <2>3. "machines" \in D
    <3> HIDE DEF D
    <3> QED BY <2>1, <2>2, MachinesFirst
  <2>4. state = plan.ready
    BY <2>3 DEF Waves
  <2> QED BY <2>4, StateIs, PlanIs
<1> QED BY <1>1, <1>2

(* The tasks that send in sequence.                                           *)
LEMMA InSequenceAre ==
  ASSUME Shape, NEW p \in plan.phases
  PROVE  /\ plan.mode[p] = "sequence" =>
              p \in {"configure_db", "configure_patroni"} /\ plan.after[p] = plan.ready.database
         /\ plan.mode[p] = "sequence" => ~FailsOutright(cfg, state, p)
         /\ p = "configure_etcd" => plan.mode[p] = "each"
<1>1. p \in AllPhases /\ cfg.kind \in Kinds /\ plan.mode[p] = SendMode(cfg, p)
  BY PlanIs
<1>2. plan.mode[p] = "sequence" =>
        p \in {"configure_db", "configure_patroni"}
        /\ TargetsOf(cfg, plan.ready, p) \in {plan.ready.database, <<>>}
        /\ (TargetsOf(cfg, plan.ready, p) # plan.ready.database =>
              p = "configure_db" /\ NeedsPatroni(cfg))
  <2>1. CASE p \in {"configure_db", "configure_patroni"}
    BY <1>1, <2>1, Table
  <2>2. CASE p \notin {"configure_db", "configure_patroni"}
    <3>1. SendMode(cfg, p) \in {"all", "each"}
      BY <1>1, <2>2, Table DEF AllPhases, Installs
    <3> QED BY <1>1, <3>1
  <2> QED BY <2>1, <2>2
<1>3. p = "configure_db" /\ NeedsPatroni(cfg) => plan.mode[p] = "all"
  BY <1>1, Table
<1>4. p = "configure_etcd" => plan.mode[p] = "each"
  BY <1>1, Table
<1> QED BY <1>2, <1>3, <1>4, PlanIs DEF FailsOutright

(* Tasks that begin to execute.                                               *)
Starts(L) ==
  /\ L \subseteq plan.phases
  /\ Execute(L)
  /\ UNCHANGED <<cfg, plan, state, stale, waiting>>
  /\ \A p \in L : /\ status'[p] = "running"
                  /\ Targets(p) = plan.after[p]
                  /\ ToSet(plan.after[p]) \subseteq Fleet
                  /\ \A c \in live : c[1] # p
                  /\ todo[p] = <<>>
  /\ \A p \in plan.phases \ L : status'[p] = status[p]

Awaited(p) == {c \in live : c[1] = p}

LEMMA TailSet ==
  ASSUME NEW E, NEW s \in Seq(E), s # <<>>
  PROVE  /\ s[1] \in E /\ s[1] \in ToSet(s) /\ Tail(s) \in Seq(E)
         /\ ToSet(s) = {s[1]} \cup ToSet(Tail(s))
         /\ IsInjective(s) => s[1] \notin ToSet(Tail(s))
<1>1. Len(s) \in Nat \ {0} /\ DOMAIN s = 1 .. Len(s)
  BY LenProperties, EmptySeq
<1>2. /\ Tail(s) \in Seq(E) /\ Len(Tail(s)) = Len(s) - 1
      /\ \A i \in 1 .. Len(Tail(s)) : Tail(s)[i] = s[i+1]
  BY HeadTailProperties
<1>3. DOMAIN Tail(s) = 1 .. Len(s) - 1
  BY <1>2, LenProperties
<1>4. ASSUME NEW i \in 1 .. Len(s) - 1
      PROVE  i + 1 \in 1 .. Len(s) /\ i + 1 # 1 /\ Tail(s)[i] = s[i+1]
  BY <1>1, <1>2
<1>5. ASSUME NEW i \in 1 .. Len(s), i # 1
      PROVE  i - 1 \in 1 .. Len(s) - 1 /\ Tail(s)[i-1] = s[i]
  <2>1. i - 1 \in 1 .. Len(s) - 1 /\ (i - 1) + 1 = i
    BY <1>1, <1>5
  <2> QED BY <1>2, <2>1
<1>6. ToSet(s) = {s[1]} \cup ToSet(Tail(s))
  <2>1. ToSet(s) \subseteq {s[1]} \cup ToSet(Tail(s))
    BY <1>1, <1>3, <1>5 DEF ToSet
  <2>2. ToSet(Tail(s)) \subseteq ToSet(s)
    BY <1>1, <1>3, <1>4 DEF ToSet
  <2>3. s[1] \in ToSet(s)
    BY <1>1 DEF ToSet
  <2> QED BY <2>1, <2>2, <2>3
<1>7. IsInjective(s) => s[1] \notin ToSet(Tail(s))
  BY <1>1, <1>3, <1>4 DEF ToSet, IsInjective
<1>8. s[1] \in E
  BY <1>1, ElementOfSeq
<1> QED BY <1>2, <1>6, <1>7, <1>8

LEMMA OthersKept ==
  ASSUME Shape, NEW L, Starts(L), NEW p \in plan.phases \ L
  PROVE  /\ todo'[p] = todo[p]
         /\ p \in failing' <=> p \in failing
         /\ Awaited(p)' = Awaited(p)
         /\ \A m : <<p, m>> \in live' <=> <<p, m>> \in live
<1>1. todo'[p] = todo[p] /\ (p \in failing' <=> p \in failing)
  BY DEF Starts, Execute
<1>2. \A c \in live' : c[1] = p => c \in live
  BY DEF Starts, Execute
<1>3. live \subseteq live'
  BY DEF Starts, Execute
<1>4. Awaited(p)' = Awaited(p)
  BY <1>2, <1>3 DEF Awaited
<1>5. \A m : <<p, m>> \in live' <=> <<p, m>> \in live
  BY <1>2, <1>3
<1> QED BY <1>1, <1>4, <1>5

LEMMA StartedIs ==
  ASSUME Shape, NEW L, Starts(L), NEW p \in L
  PROVE  /\ p \in failing' <=> FailsOutright(cfg, state, p)
         /\ Panics(cfg, state, p) \/ plan.after[p] = <<>> => todo'[p] = <<>> /\ Awaited(p)' = {}
         /\ (plan.mode[p] = "sequence" /\ ~Panics(cfg, state, p) /\ plan.after[p] # <<>>) =>
              todo'[p] = Tail(plan.after[p]) /\ Awaited(p)' = {<<p, plan.after[p][1]>>}
         /\ plan.mode[p] # "sequence" => todo'[p] = <<>>
         /\ (plan.mode[p] # "sequence" /\ ~Panics(cfg, state, p)) =>
              Awaited(p)' = {p} \X ToSet(plan.after[p])
         /\ \A c \in Awaited(p)' : c[2] \in ToSet(plan.after[p])
<1>0. p \in plan.phases /\ plan.after[p] \in Seq(Machines)
  BY PlanIs DEF Starts
<1>1. p \in failing' <=> FailsOutright(cfg, state, p)
  BY DEF Starts, Execute
<1>2. /\ Targets(p) = plan.after[p] /\ ToSet(plan.after[p]) \subseteq Fleet
      /\ \A c \in live : c[1] # p
      /\ todo[p] = <<>>
  BY DEF Starts
<1>3. PICK ts : ts = Sends(p)
  OBVIOUS
<1>4. ts = IF Panics(cfg, state, p) THEN <<>> ELSE plan.after[p]
  BY <1>2, <1>3 DEF Sends
<1>5. todo'[p] = IF plan.mode[p] = "sequence" /\ ts # <<>> THEN Tail(ts) ELSE <<>>
  BY <1>0, <1>2, <1>3 DEF Starts, Execute
<1>6. ASSUME NEW c
      PROVE  c \in Awaited(p)' <=>
               /\ c \in {p} \X Fleet
               /\ IF plan.mode[p] = "sequence" THEN ts # <<>> /\ c[2] = ts[1]
                                               ELSE c[2] \in ToSet(ts)
  <2>1. c \in live' <=> \/ c \in live
                        \/ /\ c \in L \X Fleet
                           /\ LET us == Sends(c[1])
                              IN  IF plan.mode[c[1]] = "sequence" THEN us # <<>> /\ c[2] = us[1]
                                                                  ELSE c[2] \in ToSet(us)
    BY DEF Starts, Execute
  <2>2. c \in Awaited(p)' <=> c \in live' /\ c[1] = p
    BY DEF Awaited
  <2> QED BY <1>2, <1>3, <2>1, <2>2
<1>7. ToSet(<<>>) = {}
  BY DEF ToSet
<1>8. plan.after[p] # <<>> => plan.after[p][1] \in ToSet(plan.after[p])
  <2>1. plan.after[p] # <<>> => 1 \in DOMAIN plan.after[p]
    BY <1>0, LenProperties, EmptySeq
  <2> QED BY <2>1 DEF ToSet
<1>9. Panics(cfg, state, p) \/ plan.after[p] = <<>> => todo'[p] = <<>> /\ Awaited(p)' = {}
  BY <1>4, <1>5, <1>6, <1>7
<1>10. ASSUME plan.mode[p] = "sequence", ~Panics(cfg, state, p), plan.after[p] # <<>>
       PROVE  todo'[p] = Tail(plan.after[p]) /\ Awaited(p)' = {<<p, plan.after[p][1]>>}
  <2>1. todo'[p] = Tail(plan.after[p])
    BY <1>4, <1>5, <1>10
  <2>2. \A c : c \in Awaited(p)' <=> c \in {p} \X Fleet /\ c[2] = plan.after[p][1]
    BY <1>4, <1>6, <1>10
  <2>3. plan.after[p][1] \in Fleet
    BY <1>2, <1>8, <1>10
  <2> QED BY <2>1, <2>2, <2>3
<1>11. plan.mode[p] # "sequence" => todo'[p] = <<>>
  BY <1>5
<1>12. ASSUME plan.mode[p] # "sequence", ~Panics(cfg, state, p)
       PROVE  Awaited(p)' = {p} \X ToSet(plan.after[p])
  <2>1. \A c : c \in Awaited(p)' <=> c \in {p} \X Fleet /\ c[2] \in ToSet(plan.after[p])
    BY <1>4, <1>6, <1>12
  <2> QED BY <1>2, <2>1
<1>13. \A c \in Awaited(p)' : c[2] \in ToSet(plan.after[p])
  BY <1>4, <1>6, <1>7, <1>8
<1> QED BY <1>1, <1>9, <1>10, <1>11, <1>12, <1>13

LEMMA StartedServed ==
  ASSUME Shape, NEW L, Starts(L)
  PROVE  /\ \A p \in L : Served(p)' = {}
         /\ \A p \in plan.phases \ L : Served(p)' = Served(p) /\ (Fresh(p)' <=> Fresh(p))
<1>0. plan' = plan /\ cfg' = cfg /\ state' = state /\ L \subseteq plan.phases
  BY DEF Starts
<1>1. ASSUME NEW p \in plan.phases \ L
      PROVE  Served(p)' = Served(p) /\ (Fresh(p)' <=> Fresh(p))
  <2>1. /\ todo'[p] = todo[p] /\ (p \in failing' <=> p \in failing) /\ Awaited(p)' = Awaited(p)
        /\ \A m : <<p, m>> \in live' <=> <<p, m>> \in live
    BY OthersKept
  <2>2. status'[p] = status[p]
    BY DEF Starts
  <2>3. Fresh(p)' <=> Fresh(p)
    BY <1>0, <2>1 DEF Fresh, Awaited
  <2> QED BY <1>0, <2>1, <2>2, <2>3 DEF Served
<1>2. ASSUME NEW p \in L PROVE Served(p)' = {}
  <2>1. status'[p] = "running"
    BY DEF Starts
  <2>2. CASE Panics(cfg, state, p)
    BY <1>0, <2>1, <2>2 DEF Served
  <2>3. CASE plan.after[p] = <<>>
    BY <1>0, <2>1, <2>3 DEF Served, ToSet
  <2>4. CASE plan.mode[p] = "sequence" /\ ~Panics(cfg, state, p) /\ plan.after[p] # <<>>
    <3>1. Fresh(p)'
      BY <1>0, <2>4, StartedIs DEF Fresh, Awaited
    <3> QED BY <2>1, <3>1 DEF Served
  <2>5. CASE plan.mode[p] # "sequence" /\ ~Panics(cfg, state, p)
    <3>1. \A m \in ToSet(plan.after[p]) : <<p, m>> \in live'
      BY <2>5, StartedIs DEF Awaited
    <3> QED BY <1>0, <2>1, <2>5, <3>1 DEF Served
  <2> QED BY <2>2, <2>3, <2>4, <2>5
<1> QED BY <1>1, <1>2

LEMMA StartedSent ==
  ASSUME Shape, Sent, NEW L, Starts(L)
  PROVE  Sent'
<1>0. /\ plan' = plan /\ cfg' = cfg /\ state' = state /\ stale' = stale /\ waiting' = waiting
      /\ L \subseteq plan.phases
  BY DEF Starts
<1>1. ASSUME NEW c \in live'
      PROVE  /\ status'[c[1]] = "running"
             /\ ~Panics(cfg, state, c[1])
             /\ c[2] \in ToSet(plan.after[c[1]])
             /\ plan.mode[c[1]] = "sequence" => c[1] \notin failing'
  <2>1. CASE c \in live /\ c[1] \notin L
    <3>1. c[1] \in plan.phases
      BY <2>1 DEF Shape, Commands
    <3>2. c[1] \in failing' <=> c[1] \in failing
      BY <2>1, <3>1, OthersKept
    <3> QED BY <2>1, <3>1, <3>2 DEF Sent, Starts
  <2>2. CASE c[1] \in L
    <3>1. PICK p \in L : p = c[1]
      BY <2>2
    <3>2. c \in Awaited(p)' /\ p \in plan.phases
      BY <1>0, <3>1 DEF Awaited
    <3>3. c[2] \in ToSet(plan.after[p]) /\ ~Panics(cfg, state, p)
      BY <3>2, StartedIs
    <3>4. status'[p] = "running"
      BY DEF Starts
    <3>5. plan.mode[p] = "sequence" => p \notin failing'
      BY <3>2, StartedIs, InSequenceAre
    <3> QED BY <3>1, <3>3, <3>4, <3>5
  <2>3. c \in live \/ c[1] \in L
    BY DEF Starts, Execute
  <2> QED BY <2>1, <2>2, <2>3
<1>2. ASSUME NEW c \in stale PROVE c[2] \in ToSet(plan.after[c[1]]) \ (Served(c[1])')
  <2>1. c[1] \in plan.phases
    BY DEF Shape, Commands
  <2>2. Served(c[1])' \subseteq Served(c[1])
    BY <2>1, StartedServed
  <2> QED BY <2>2 DEF Sent
<1>3. state = NewState => live' \cup stale = {}
  <2>1. state = NewState => live' = live
    BY StateIs DEF Starts, Execute
  <2> QED BY <2>1 DEF Sent
<1>4. ASSUME NEW p \in plan.phases, todo'[p] # <<>>
      PROVE  /\ plan.mode[p] = "sequence" /\ status'[p] = "running"
             /\ p \notin failing' /\ \E c \in live' : c[1] = p
             /\ ToSet(todo'[p]) \subseteq ToSet(plan.after[p])
  <2>1. CASE p \notin L
    <3>1. /\ todo[p] # <<>> /\ todo'[p] = todo[p] /\ (p \in failing' <=> p \in failing)
          /\ Awaited(p)' = Awaited(p)
      BY <1>4, <2>1, OthersKept
    <3>2. status'[p] = status[p]
      BY <2>1 DEF Starts
    <3>3. Awaited(p) # {}
      BY <3>1 DEF Sent, Awaited
    <3> QED BY <3>1, <3>2, <3>3 DEF Sent, Awaited
  <2>2. CASE p \in L
    <3>1. plan.mode[p] = "sequence" /\ ~Panics(cfg, state, p) /\ plan.after[p] # <<>>
      BY <1>4, <2>2, StartedIs
    <3>2. Awaited(p)' = {<<p, plan.after[p][1]>>}
      BY <2>2, <3>1, StartedIs
    <3>3. p \notin failing'
      BY <2>2, <3>1, StartedIs, InSequenceAre
    <3>4. todo'[p] = Tail(plan.after[p])
      BY <2>2, <3>1, StartedIs
    <3>5. ToSet(Tail(plan.after[p])) \subseteq ToSet(plan.after[p])
      <4>1. PICK s : s = plan.after[p]
        OBVIOUS
      <4>2. s \in Seq(Machines) /\ s # <<>>
        BY <3>1, <4>1, PlanIs
      <4>3. ToSet(Tail(s)) \subseteq ToSet(s)
        BY <4>2, TailSet
      <4> QED BY <4>1, <4>3
    <3> QED BY <2>2, <3>1, <3>2, <3>3, <3>4, <3>5 DEF Awaited, Starts
  <2> QED BY <2>1, <2>2
<1>5. \A p \in plan.phases : todo'[p] = <<>> => ToSet(todo'[p]) \subseteq ToSet(plan.after[p])
  BY DEF ToSet
<1> QED BY <1>0, <1>1, <1>2, <1>3, <1>4, <1>5 DEF Sent

LEMMA StartedInTurn ==
  ASSUME Shape, InTurn, NEW L, Starts(L),
         status' \in [plan.phases -> {"pending", "running", "done", "failed"}]
  PROVE  InTurn'
<1>0. plan' = plan /\ cfg' = cfg /\ state' = state /\ L \subseteq plan.phases
  BY DEF Starts
<1> SUFFICES ASSUME NEW p \in plan.phases, status'[p] = "running", p \notin failing',
                    plan.mode[p] = "sequence"
             PROVE  /\ \A c, d \in live' : c[1] = p /\ d[1] = p => c = d
                    /\ \/ Fresh(p)'
                       \/ IsInjective(plan.after[p]) /\ plan.after[p] # <<>> =>
                            plan.after[p][1]
                              \notin ToSet(todo'[p]) \cup {c[2] : c \in {d \in live' : d[1] = p}}
  BY <1>0 DEF InTurn, In
<1>1. CASE p \notin L
  <2>1. /\ todo'[p] = todo[p] /\ (p \in failing' <=> p \in failing) /\ Awaited(p)' = Awaited(p)
    BY <1>1, OthersKept
  <2>2. status'[p] = status[p] /\ (Fresh(p)' <=> Fresh(p))
    BY <1>1, StartedServed DEF Starts
  <2>3. /\ \A c, d \in live : c[1] = p /\ d[1] = p => c = d
        /\ \/ Fresh(p)
           \/ IsInjective(plan.after[p]) /\ plan.after[p] # <<>> =>
                plan.after[p][1]
                  \notin ToSet(todo[p]) \cup {c[2] : c \in {d \in live : d[1] = p}}
    BY <2>1, <2>2 DEF InTurn, In
  <2> QED BY <2>1, <2>2, <2>3 DEF Awaited
<1>2. CASE p \in L /\ (Panics(cfg, state, p) \/ plan.after[p] = <<>>)
  <2>1. todo'[p] = <<>> /\ Awaited(p)' = {}
    BY <1>2, StartedIs
  <2>2. {d \in live' : d[1] = p} = {}
    BY <2>1 DEF Awaited
  <2> QED BY <2>1, <2>2 DEF ToSet
<1>3. CASE p \in L /\ ~Panics(cfg, state, p) /\ plan.after[p] # <<>>
  <2>1. todo'[p] = Tail(plan.after[p]) /\ Awaited(p)' = {<<p, plan.after[p][1]>>}
    BY <1>3, StartedIs
  <2>2. Fresh(p)'
    BY <1>0, <1>3, <2>1 DEF Fresh, Awaited
  <2> QED BY <2>1, <2>2 DEF Awaited
<1> QED BY <1>1, <1>2, <1>3

(* Commands that are reported.                                                *)
Answers(c, err) ==
  /\ c \in live \cup stale
  /\ Reports(c, err)
  /\ UNCHANGED <<cfg, plan, state, status>>

LEMMA AnswersIs ==
  ASSUME Shape, Sent, NEW c, NEW err, Answers(c, err)
  PROVE  /\ c \in plan.phases \X Machines /\ c[1] \in plan.phases /\ c = <<c[1], c[2]>>
         /\ c \in stale => stale' = stale \ {c} /\ UNCHANGED <<live, todo, failing>>
         /\ c \notin stale =>
              /\ c \in live /\ status[c[1]] = "running" /\ ~Panics(cfg, state, c[1])
              /\ \A p \in plan.phases \ {c[1]} :
                   todo'[p] = todo[p] /\ (p \in failing' <=> p \in failing)
                   /\ Awaited(p)' = Awaited(p)
         /\ c \notin stale /\ err = "none" =>
              /\ stale' = stale /\ failing' = failing
              /\ todo[c[1]] = <<>> => live' = live \ {c} /\ todo'[c[1]] = <<>>
              /\ todo[c[1]] # <<>> =>
                   /\ live' = (live \ {c}) \cup {<<c[1], todo[c[1]][1]>>}
                   /\ todo'[c[1]] = Tail(todo[c[1]])
         /\ c \notin stale /\ err # "none" =>
              /\ live' \subseteq live \ {c}
              /\ plan.mode[c[1]] # "all" => live' = live \ {c}
              /\ stale \subseteq stale'
              /\ \A d \in stale' \ stale : d \in live /\ d[1] = c[1]
              /\ todo'[c[1]] = <<>>
              /\ failing' = failing \cup {c[1]}
<1>1. c \in plan.phases \X Machines
  BY DEF Answers, Shape, Commands
<1>2. c[1] \in plan.phases /\ c = <<c[1], c[2]>>
  BY <1>1
<1>3. c \in stale => stale' = stale \ {c} /\ UNCHANGED <<live, todo, failing>>
  BY DEF Answers, Reports
<1>4. todo \in [plan.phases -> Seq(Machines)]
  BY DEF Shape
<1>5. c \notin stale => c \in live /\ status[c[1]] = "running" /\ ~Panics(cfg, state, c[1])
  BY DEF Answers, Sent
<1>6. ASSUME c \notin stale, err = "none"
      PROVE  /\ stale' = stale /\ failing' = failing
             /\ todo[c[1]] = <<>> => live' = live \ {c} /\ todo'[c[1]] = <<>>
             /\ todo[c[1]] # <<>> =>
                   /\ live' = (live \ {c}) \cup {<<c[1], todo[c[1]][1]>>}
                   /\ todo'[c[1]] = Tail(todo[c[1]])
             /\ \A p \in plan.phases \ {c[1]} :
                  todo'[p] = todo[p] /\ (p \in failing' <=> p \in failing)
                  /\ Awaited(p)' = Awaited(p)
  <2>1. PICK p, rest : p = c[1] /\ rest = todo[c[1]]
    OBVIOUS
  <2>2. /\ live' = (live \ {c}) \cup (IF rest = <<>> THEN {} ELSE {<<p, rest[1]>>})
        /\ todo' = [todo EXCEPT ![p] = IF rest = <<>> THEN <<>> ELSE Tail(rest)]
        /\ stale' = stale /\ failing' = failing
    BY <1>6, <2>1 DEF Answers, Reports
  <2>3. todo'[p] = IF rest = <<>> THEN <<>> ELSE Tail(rest)
    BY <1>2, <1>4, <2>1, <2>2
  <2>4. ASSUME NEW q \in plan.phases \ {p}
        PROVE  todo'[q] = todo[q] /\ Awaited(q)' = Awaited(q)
    <3>1. todo'[q] = todo[q]
      BY <1>4, <2>2
    <3>2. \A d : d[1] = q => (d \in live' <=> d \in live)
      BY <2>1, <2>2
    <3> QED BY <3>1, <3>2 DEF Awaited
  <2> QED BY <2>1, <2>2, <2>3, <2>4
<1>7. ASSUME c \notin stale, err # "none"
      PROVE  /\ live' \subseteq live \ {c}
             /\ plan.mode[c[1]] # "all" => live' = live \ {c}
             /\ stale \subseteq stale'
             /\ \A d \in stale' \ stale : d \in live /\ d[1] = c[1]
             /\ todo'[c[1]] = <<>>
             /\ failing' = failing \cup {c[1]}
             /\ \A p \in plan.phases \ {c[1]} :
                  todo'[p] = todo[p] /\ (p \in failing' <=> p \in failing)
                  /\ Awaited(p)' = Awaited(p)
  <2>1. PICK given : given = IF plan.mode[c[1]] = "all"
                               THEN {d \in live : d[1] = c[1]} \ {c} ELSE {}
    OBVIOUS
  <2>2. /\ live' = (live \ {c}) \ given
        /\ \E queued \in SUBSET given : stale' = stale \cup queued
        /\ todo' = [todo EXCEPT ![c[1]] = <<>>]
        /\ failing' = failing \cup {c[1]}
    BY <1>7, <2>1 DEF Answers, Reports
  <2>3. todo'[c[1]] = <<>>
    BY <1>2, <1>4, <2>2
  <2>4. \A d \in given : d \in live /\ d[1] = c[1]
    BY <2>1
  <2>5. /\ live' \subseteq live \ {c} /\ stale \subseteq stale'
        /\ plan.mode[c[1]] # "all" => live' = live \ {c}
        /\ \A d \in stale' \ stale : d \in live /\ d[1] = c[1]
    BY <2>1, <2>2, <2>4
  <2>6. ASSUME NEW q \in plan.phases \ {c[1]}
        PROVE  todo'[q] = todo[q] /\ (q \in failing' <=> q \in failing)
               /\ Awaited(q)' = Awaited(q)
    <3>1. todo'[q] = todo[q] /\ (q \in failing' <=> q \in failing)
      BY <1>4, <2>2
    <3>2. \A d : d[1] = q => (d \in live' <=> d \in live)
      BY <2>2, <2>4
    <3> QED BY <3>1, <3>2 DEF Awaited
  <2> QED BY <2>2, <2>3, <2>5, <2>6
<1> QED BY <1>1, <1>2, <1>3, <1>5, <1>6, <1>7

(* A task that stands as it did has served the same machines.                 *)
LEMMA ServedKept ==
  ASSUME NEW p, UNCHANGED <<cfg, plan, state>>, status'[p] = status[p], todo'[p] = todo[p],
         p \in failing' <=> p \in failing, Awaited(p)' = Awaited(p)
  PROVE  Served(p)' = Served(p) /\ (Fresh(p)' <=> Fresh(p))
<1>1. Fresh(p)' <=> Fresh(p)
  BY DEF Fresh, Awaited
<1>2. \A m : <<p, m>> \in live' <=> <<p, m>> \in live
  <2>1. \A m : <<p, m>> \in live <=> <<p, m>> \in Awaited(p)
    BY DEF Awaited
  <2>2. \A m : <<p, m>> \in live' <=> <<p, m>> \in Awaited(p)'
    BY DEF Awaited
  <2> QED BY <2>1, <2>2
<1> QED BY <1>1, <1>2 DEF Served

(* The next of a list is out, the others are still to come.                   *)
LEMMA NextOut ==
  ASSUME Shape, Sent, NEW c, Answers(c, "none"), c \notin stale, NEW m
  PROVE  m \in ToSet(todo[c[1]]) <=> m \in ToSet(todo'[c[1]])
                                     \/ (todo[c[1]] # <<>> /\ m = todo[c[1]][1])
<1>1. PICK s : s = todo[c[1]]
  OBVIOUS
<1>2. s \in Seq(Machines)
  <2>1. c[1] \in plan.phases /\ todo \in [plan.phases -> Seq(Machines)]
    BY AnswersIs DEF Shape
  <2> QED BY <1>1, <2>1
<1>3. CASE s = <<>>
  <2>1. todo'[c[1]] = <<>>
    BY <1>1, <1>3, AnswersIs
  <2> QED BY <1>1, <1>3, <2>1
<1>4. CASE s # <<>>
  <2>1. todo'[c[1]] = Tail(s)
    BY <1>1, <1>4, AnswersIs
  <2>2. ToSet(s) = {s[1]} \cup ToSet(Tail(s))
    BY <1>2, <1>4, TailSet
  <2> QED BY <1>1, <1>4, <2>1, <2>2
<1> QED BY <1>3, <1>4

LEMMA AnswerServed ==
  ASSUME Shape, Sent, NEW c, NEW err, Answers(c, err)
  PROVE  /\ \A p \in plan.phases \ {c[1]} : Served(p)' = Served(p) /\ (Fresh(p)' <=> Fresh(p))
         /\ c \in stale => Served(c[1])' = Served(c[1]) /\ (Fresh(c[1])' <=> Fresh(c[1]))
         /\ c \notin stale /\ err = "none" => Served(c[1])' \subseteq Served(c[1]) \cup {c[2]}
         /\ c \notin stale /\ err # "none" => Served(c[1])' = {}
<1>0. /\ UNCHANGED <<cfg, plan, state, status>>
  BY DEF Answers
<1>1. ASSUME NEW p \in plan.phases \ {c[1]}
      PROVE  Served(p)' = Served(p) /\ (Fresh(p)' <=> Fresh(p))
  <2>1. /\ todo'[p] = todo[p] /\ (p \in failing' <=> p \in failing) /\ Awaited(p)' = Awaited(p)
    <3>1. CASE c \in stale
      BY <3>1, AnswersIs DEF Awaited
    <3>2. CASE c \notin stale
      BY <3>2, AnswersIs
    <3> QED BY <3>1, <3>2
  <2> QED BY <1>0, <2>1, ServedKept
<1>2. ASSUME c \in stale
      PROVE  Served(c[1])' = Served(c[1]) /\ (Fresh(c[1])' <=> Fresh(c[1]))
  <2>1. UNCHANGED <<live, todo, failing>>
    BY <1>2, AnswersIs
  <2>2. Awaited(c[1])' = Awaited(c[1])
    BY <2>1 DEF Awaited
  <2> QED BY <1>0, <2>1, <2>2, ServedKept
<1>3. ASSUME c \notin stale, err # "none" PROVE Served(c[1])' = {}
  <2>1. status'[c[1]] = "running" /\ c[1] \in failing'
    BY <1>0, <1>3, AnswersIs
  <2> QED BY <2>1 DEF Served
<1>4. ASSUME c \notin stale, err = "none", NEW m \in Served(c[1])', m # c[2]
      PROVE  m \in Served(c[1])
  <2>1. PICK p : p = c[1]
    OBVIOUS
  <2>2. /\ status[p] = "running" /\ c \in live /\ c = <<p, c[2]>> /\ p \in plan.phases
        /\ failing' = failing
    BY <1>4, <2>1, AnswersIs
  <2>3. /\ m \in ToSet(plan.after[p]) /\ p \notin failing /\ ~Panics(cfg, state, p)
        /\ \/ m \notin ToSet(todo'[p]) /\ <<p, m>> \notin live'
           \/ plan.mode[p] = "sequence" /\ m = plan.after[p][1]
    BY <1>0, <1>4, <2>1, <2>2 DEF Served
  <2>4. ASSUME m \notin ToSet(todo'[p]), <<p, m>> \notin live'
        PROVE  m \notin ToSet(todo[p]) /\ <<p, m>> \notin live
    <3>1. live \ {c} \subseteq live' /\ <<p, m>> # c
      BY <1>4, <2>1, <2>2, AnswersIs
    <3>2. todo[p] # <<>> => <<p, todo[p][1]>> \in live'
      BY <1>4, <2>1, AnswersIs
    <3>3. m \notin ToSet(todo[p])
      BY <1>4, <2>1, <2>4, <3>2, NextOut
    <3> QED BY <2>4, <3>1, <3>3
  <2>5. ~Fresh(p)
    <3> SUFFICES ASSUME Fresh(p) PROVE FALSE
      OBVIOUS
    <3>1. c[2] = plan.after[p][1] /\ todo[p] = Tail(plan.after[p]) /\ plan.after[p] # <<>>
      BY <2>1, <2>2 DEF Fresh
    <3>2. PICK s : s = plan.after[p]
      OBVIOUS
    <3>3. ToSet(s) = {s[1]} \cup ToSet(Tail(s))
      <4>1. s \in Seq(Machines) /\ s # <<>>
        BY <2>2, <3>1, <3>2, PlanIs
      <4> QED BY <4>1, TailSet
    <3>4. m \in ToSet(todo[p])
      BY <1>4, <2>3, <3>1, <3>2, <3>3
    <3>5. m \notin ToSet(todo'[p]) /\ <<p, m>> \notin live'
      BY <1>4, <2>3, <3>1
    <3> QED BY <2>4, <3>4, <3>5
  <2>6. m \in Served(p)
    BY <2>2, <2>3, <2>4, <2>5 DEF Served
  <2> QED BY <2>1, <2>6
<1> QED BY <1>1, <1>2, <1>3, <1>4

LEMMA AnswerSent ==
  ASSUME Shape, Sent, InTurn, NEW c, NEW err, Answers(c, err)
  PROVE  Sent'
<1>0. UNCHANGED <<cfg, plan, state, status>>
  BY DEF Answers
<1>1. ASSUME NEW d \in live'
      PROVE  /\ status[d[1]] = "running" /\ ~Panics(cfg, state, d[1])
             /\ d[2] \in ToSet(plan.after[d[1]])
             /\ plan.mode[d[1]] = "sequence" => d[1] \notin failing'
  <2>1. CASE c \in stale
    BY <2>1, AnswersIs DEF Sent
  <2>2. CASE c \notin stale /\ err = "none"
    <3>1. failing' = failing
      BY <2>2, AnswersIs
    <3>2. CASE d \in live
      BY <3>1, <3>2 DEF Sent
    <3>3. CASE d \notin live
      <4>1. PICK p, s : p = c[1] /\ s = todo[p]
        OBVIOUS
      <4>2. d = <<p, s[1]>> /\ s # <<>> /\ p \in plan.phases
        BY <2>2, <3>3, <4>1, AnswersIs
      <4>3. s \in Seq(Machines)
        BY <4>1, <4>2 DEF Shape
      <4>4. s[1] \in ToSet(s)
        BY <4>2, <4>3, TailSet
      <4>5. ToSet(s) \subseteq ToSet(plan.after[p])
        BY <4>1, <4>2 DEF Sent
      <4>6. c \in live
        BY <2>2, AnswersIs
      <4> QED BY <3>1, <4>1, <4>2, <4>4, <4>5, <4>6 DEF Sent
    <3> QED BY <3>2, <3>3
  <2>3. CASE c \notin stale /\ err # "none"
    <3>1. /\ c \in live /\ d \in live /\ d # c /\ failing' = failing \cup {c[1]}
          /\ c[1] \in plan.phases /\ status[c[1]] = "running"
      BY <2>3, AnswersIs
    <3>2. ASSUME plan.mode[d[1]] = "sequence", d[1] = c[1] PROVE FALSE
      <4>1. c[1] \in In({"running"}) \ failing
        BY <3>1, <3>2 DEF In, Sent
      <4> QED BY <3>1, <3>2, <4>1 DEF InTurn
    <3> QED BY <3>1, <3>2 DEF Sent
  <2> QED BY <2>1, <2>2, <2>3
<1>2. ASSUME NEW d \in stale' PROVE d[2] \in ToSet(plan.after[d[1]]) \ (Served(d[1])')
  <2>1. CASE c \in stale
    <3>1. d \in stale /\ d[1] \in plan.phases
      BY <2>1, AnswersIs DEF Shape, Commands
    <3>2. Served(d[1])' = Served(d[1])
      BY <2>1, <3>1, AnswerServed
    <3> QED BY <3>1, <3>2 DEF Sent
  <2>2. CASE c \notin stale /\ err = "none"
    <3>1. d \in stale /\ d \in plan.phases \X Machines /\ c = <<c[1], c[2]>>
      BY <2>2, AnswersIs DEF Shape, Commands
    <3>2. Served(d[1])' \subseteq Served(d[1]) \cup (IF d[1] = c[1] THEN {c[2]} ELSE {})
      BY <2>2, <3>1, AnswerServed
    <3>3. d[1] = c[1] => d[2] # c[2]
      BY <2>2, <3>1
    <3> QED BY <3>1, <3>2, <3>3 DEF Sent
  <2>3. CASE c \notin stale /\ err # "none"
    <3>1. CASE d[1] = c[1]
      <4>1. Served(d[1])' = {}
        BY <2>3, <3>1, AnswerServed
      <4>2. d \in live \/ d \in stale
        BY <2>3, AnswersIs
      <4> QED BY <4>1, <4>2 DEF Sent
    <3>2. CASE d[1] # c[1]
      <4>1. d \in stale /\ d[1] \in plan.phases
        BY <2>3, <3>2, AnswersIs DEF Shape, Commands
      <4>2. Served(d[1])' = Served(d[1])
        BY <3>2, <4>1, AnswerServed
      <4> QED BY <4>1, <4>2 DEF Sent
    <3> QED BY <3>1, <3>2
  <2> QED BY <2>1, <2>2, <2>3
<1>3. state # NewState
  BY DEF Answers, Sent
<1>4. ASSUME NEW p \in plan.phases
      PROVE  /\ ToSet(todo'[p]) \subseteq ToSet(plan.after[p])
             /\ todo'[p] # <<>> => /\ plan.mode[p] = "sequence" /\ status[p] = "running"
                                   /\ p \notin failing' /\ \E d \in live' : d[1] = p
  <2>0. ToSet(<<>>) = {}
    BY DEF ToSet
  <2>1. CASE c \in stale
    BY <2>1, AnswersIs DEF Sent
  <2>2. CASE c \notin stale /\ p # c[1]
    <3>1. todo'[p] = todo[p] /\ (p \in failing' <=> p \in failing) /\ Awaited(p)' = Awaited(p)
      BY <2>2, AnswersIs
    <3>2. (\E d \in live' : d[1] = p) <=> (\E d \in live : d[1] = p)
      <4>1. (\E d \in live' : d[1] = p) <=> Awaited(p)' # {}
        BY DEF Awaited
      <4>2. (\E d \in live : d[1] = p) <=> Awaited(p) # {}
        BY DEF Awaited
      <4> QED BY <3>1, <4>1, <4>2
    <3> QED BY <3>1, <3>2 DEF Sent
  <2>3. CASE c \notin stale /\ p = c[1] /\ err # "none"
    BY <2>0, <2>3, AnswersIs
  <2>4. CASE c \notin stale /\ p = c[1] /\ err = "none"
    <3>1. ToSet(todo'[p]) \subseteq ToSet(todo[p])
      BY <2>4, NextOut
    <3>2. ToSet(todo'[p]) \subseteq ToSet(plan.after[p])
      BY <3>1 DEF Sent
    <3>3. ASSUME todo'[p] # <<>>
          PROVE  /\ plan.mode[p] = "sequence" /\ status[p] = "running"
                 /\ p \notin failing' /\ \E d \in live' : d[1] = p
      <4>1. /\ todo[p] # <<>> /\ failing' = failing
            /\ live' = (live \ {c}) \cup {<<p, todo[p][1]>>}
        BY <2>4, <3>3, AnswersIs
      <4>2. \E d \in live' : d[1] = p
        <5>1. <<p, todo[p][1]>> \in live' /\ <<p, todo[p][1]>>[1] = p
          BY <4>1
        <5> QED BY <5>1
      <4>3. plan.mode[p] = "sequence" /\ status[p] = "running" /\ p \notin failing
        BY <4>1 DEF Sent
      <4> QED BY <4>1, <4>2, <4>3
    <3> QED BY <3>2, <3>3
  <2> QED BY <2>1, <2>2, <2>3, <2>4
<1> QED BY <1>0, <1>1, <1>2, <1>3, <1>4 DEF Sent

LEMMA AnswerInTurn ==
  ASSUME Shape, Sent, InTurn, NEW c, NEW err, Answers(c, err)
  PROVE  InTurn'
<1>0. UNCHANGED <<cfg, plan, state, status>>
  BY DEF Answers
<1> SUFFICES ASSUME NEW p \in plan.phases, status[p] = "running", p \notin failing',
                    plan.mode[p] = "sequence"
             PROVE  /\ \A d, e \in live' : d[1] = p /\ e[1] = p => d = e
                    /\ \/ Fresh(p)'
                       \/ IsInjective(plan.after[p]) /\ plan.after[p] # <<>> =>
                            plan.after[p][1]
                              \notin ToSet(todo'[p]) \cup {e[2] : e \in {d \in live' : d[1] = p}}
  BY <1>0 DEF InTurn, In
<1>1. CASE p # c[1] \/ c \in stale
  <2>1. /\ todo'[p] = todo[p] /\ (p \in failing' <=> p \in failing) /\ Awaited(p)' = Awaited(p)
    BY <1>1, AnswersIs DEF Awaited
  <2>2. Fresh(p)' <=> Fresh(p)
    BY <1>0, <2>1, ServedKept
  <2>3. /\ \A d, e \in live : d[1] = p /\ e[1] = p => d = e
        /\ \/ Fresh(p)
           \/ IsInjective(plan.after[p]) /\ plan.after[p] # <<>> =>
                plan.after[p][1]
                  \notin ToSet(todo[p]) \cup {e[2] : e \in {d \in live : d[1] = p}}
    BY <2>1 DEF InTurn, In
  <2> QED BY <2>1, <2>2, <2>3 DEF Awaited
<1>2. CASE p = c[1] /\ c \notin stale
  <2>1. err = "none"
    BY <1>2, AnswersIs
  <2>2. c \in live /\ failing' = failing /\ c = <<p, c[2]>>
    BY <1>2, <2>1, AnswersIs
  <2>3. /\ \A d, e \in live : d[1] = p /\ e[1] = p => d = e
        /\ \/ Fresh(p)
           \/ IsInjective(plan.after[p]) /\ plan.after[p] # <<>> =>
                plan.after[p][1]
                  \notin ToSet(todo[p]) \cup {e[2] : e \in {d \in live : d[1] = p}}
    BY <2>2 DEF InTurn, In
  <2>4. \A d \in live' : d[1] = p => todo[p] # <<>> /\ d = <<p, todo[p][1]>>
    BY <1>2, <2>1, <2>2, <2>3, AnswersIs
  <2>5. ToSet(todo'[p]) \cup {e[2] : e \in {d \in live' : d[1] = p}} \subseteq ToSet(todo[p])
    <3>1. \A m : m \in ToSet(todo'[p]) => m \in ToSet(todo[p])
      BY <1>2, <2>1, NextOut
    <3>2. todo[p] # <<>> => todo[p][1] \in ToSet(todo[p])
      BY <1>2, <2>1, NextOut
    <3> QED BY <2>4, <3>1, <3>2
  <2>6. ASSUME IsInjective(plan.after[p]), plan.after[p] # <<>>
        PROVE  plan.after[p][1] \notin ToSet(todo[p])
    <3>1. CASE Fresh(p)
      <4>1. PICK s : s = plan.after[p]
        OBVIOUS
      <4>2. s \in Seq(Machines) /\ s # <<>> /\ IsInjective(s)
        BY <2>6, <4>1, PlanIs
      <4>3. s[1] \notin ToSet(Tail(s))
        BY <4>2, TailSet
      <4> QED BY <3>1, <4>1, <4>3 DEF Fresh
    <3>2. CASE ~Fresh(p)
      BY <2>3, <2>6, <3>2
    <3> QED BY <3>1, <3>2
  <2> QED BY <2>4, <2>5, <2>6
<1> QED BY <1>1, <1>2

(* The run begins.                                                            *)
LEMMA ControlInit == Init => Control /\ Effects /\ Booted
<1> SUFFICES ASSUME Init PROVE Control /\ Effects /\ Booted
  OBVIOUS
<1>1. Shape
  <2>1. \A b \in Nat : Bare \in MachineRecs(b)
    BY DEF Bare, MachineRecs
  <2>2. mach \in [Machines -> MachineRecs(clusters)] /\ clusters \in Nat
    BY <2>1 DEF Init
  <2>3. todo \in [plan.phases -> Seq(Machines)]
    BY DEF Init
  <2>4. 0 \in 0 .. MaxTries /\ 0 \in 0 .. MaxFaults /\ 0 \in 0 .. 0
    BY DeploymentAssumption
  <2>5. tries \in [plan.phases -> 0 .. MaxTries] /\ faults \in 0 .. MaxFaults
        /\ known \in 0 .. clusters
    BY <2>4 DEF Init
  <2> QED BY <2>2, <2>3, <2>5 DEF Init, Shape
<1>2. \A st : "pending" \notin st => In(st) = {}
  BY DEF Init, In
<1>3. AlwaysThere \subseteq plan.phases
  BY <1>1, PlanIs
<1>4. /\ \A p \in plan.phases : status[p] = "pending" /\ tries[p] = 0 /\ todo[p] = <<>>
      /\ status["teardown"] = "pending"
  BY <1>3 DEF Init, AlwaysThere
<1>5. Waves
  <2>1. In({"running", "done"}) = {} /\ In({"done"}) = {} /\ In({"running"}) = {}
    BY <1>2
  <2>2. result = "running" /\ state = NewState
    BY DEF Init
  <2> QED BY <1>4, <2>1, <2>2 DEF Waves
<1>6. \A p \in plan.phases : Served(p) = {}
  BY <1>4 DEF Served
<1>7. Sent /\ Waits
  <2>1. live = {} /\ stale = {} /\ waiting = {} /\ ToSet(<<>>) = {}
    BY DEF Init, ToSet
  <2> QED BY <1>4, <2>1 DEF Sent, Waits
<1>8. InTurn
  BY <1>2 DEF InTurn
<1>9. Effects
  BY <1>6 DEF Effects
<1>10. Booted
  BY <1>3, <1>6 DEF Booted, AlwaysThere
<1> QED BY <1>1, <1>5, <1>7, <1>8, <1>9, <1>10 DEF Control

(* What starts was waiting for nothing but its dependencies.                  *)
LEMMA ReadyIs ==
  ASSUME Shape, Waves, Ready \ {"teardown"} # {}
  PROVE  /\ Ready \subseteq plan.phases \ {"teardown"}
         /\ \A p \in Ready : status[p] = "pending" /\ plan.deps[p] \subseteq In({"done"})
<1>1. /\ Ready \subseteq plan.phases
      /\ \A p \in Ready : status[p] = "pending" /\ plan.deps[p] \subseteq In({"done"})
  BY DEF Ready, In
<1>2. ASSUME "teardown" \in Ready PROVE FALSE
  <2> DEFINE D == In({"done"})
  <2>1. "run_stroppy" \in D
    <3>1. plan.deps["teardown"] = DepsOf(cfg, "teardown")
      BY <1>1, <1>2, PlanIs
    <3>2. DepsOf(cfg, "teardown") = {"run_stroppy"}
      BY DEF DepsOf, Installs
    <3> QED BY <1>1, <1>2, <3>1, <3>2
  <2>2. \A p \in (Phases(cfg) \cap D) \ {"teardown"} : DepsOf(cfg, p) \subseteq D
    BY PlanIs DEF Waves, In
  <2>3. Phases(cfg) \ {"teardown"} \subseteq D
    <3> HIDE DEF D
    <3> QED BY <2>1, <2>2, WorkloadLast
  <2>4. \A p \in Ready : p \notin D
    BY <1>1 DEF In
  <2> QED BY <1>1, <2>3, <2>4, PlanIs
<1> QED BY <1>1, <1>2

LEMMA ExecuteShape ==
  ASSUME Shape, NEW L, Starts(L)
  PROVE  /\ todo' \in [plan.phases -> Seq(Machines)]
         /\ live' \subseteq plan.phases \X Machines
         /\ live \subseteq live'
         /\ \A p \in failing' : p \in L \/ p \in failing
<1>0. L \subseteq plan.phases /\ Fleet \subseteq Machines
  BY DEF Starts, Fleet
<1>1. ASSUME NEW p \in plan.phases PROVE todo'[p] \in Seq(Machines)
  <2>1. CASE p \notin L
    BY <2>1, OthersKept DEF Shape
  <2>2. CASE p \in L
    <3>1. todo'[p] \in {<<>>, Tail(plan.after[p])}
      BY <2>2, StartedIs
    <3>2. PICK s : s = plan.after[p]
      OBVIOUS
    <3>3. s \in Seq(Machines)
      BY <3>2, PlanIs
    <3>4. s # <<>> => Tail(s) \in Seq(Machines)
      BY <3>3, TailSet
    <3>5. s = <<>> => todo'[p] = <<>>
      BY <2>2, <3>2, StartedIs
    <3>6. <<>> \in Seq(Machines)
      OBVIOUS
    <3>7. CASE s = <<>>
      BY <3>5, <3>6, <3>7
    <3>8. CASE s # <<>>
      BY <3>1, <3>2, <3>4, <3>6, <3>8, Zenon
    <3> QED BY <3>7, <3>8
  <2> QED BY <2>1, <2>2
<1>2. todo' = [p \in plan.phases |-> todo'[p]]
  BY DEF Starts, Execute
<1>3. live \subseteq live' /\ \A c \in live' : c \in live \/ c \in L \X Fleet
  BY DEF Starts, Execute
<1>4. live' \subseteq plan.phases \X Machines
  BY <1>0, <1>3 DEF Shape, Commands
<1>5. \A p \in failing' : p \in L \/ p \in failing
  BY DEF Starts, Execute
<1> QED BY <1>1, <1>2, <1>3, <1>4, <1>5

LEMMA StartWaveKeeps ==
  ASSUME Control, StartWave
  PROVE  Control' /\ Starts(Ready)
<1>0. Shape /\ Waves /\ Sent /\ Waits /\ InTurn
  BY DEF Control
<1>1. /\ result = "running" /\ In({"running"}) = {}
      /\ status' = [p \in plan.phases |-> IF p \in Ready THEN "running" ELSE status[p]]
      /\ Execute(Ready)
      /\ UNCHANGED <<cfg, plan, stale, waiting, machVars, state, faults, mishaps, result>>
  BY DEF StartWave
<1>u. UNCHANGED <<cfg, plan, stale, waiting, mach, known, clusters, state, faults, mishaps, result>>
  BY <1>1 DEF machVars
<1>2. /\ Ready \subseteq plan.phases \ {"teardown"}
      /\ \A p \in Ready : status[p] = "pending" /\ plan.deps[p] \subseteq In({"done"})
  BY <1>0, ReadyIs DEF StartWave
<1>3. Starts(Ready)
  <2>1. \A p \in Ready : Targets(p) = plan.after[p] /\ ToSet(plan.after[p]) \subseteq Fleet
    BY <1>0, <1>1, <1>2, Ripe
  <2>2. \A p \in Ready : \A c \in live : c[1] # p
    BY <1>0, <1>2 DEF Sent
  <2>3. \A p \in Ready : todo[p] = <<>>
    BY <1>0, <1>2 DEF Sent
  <2>4. \A p \in Ready : status'[p] = "running"
    BY <1>1, <1>2
  <2>5. \A p \in plan.phases \ Ready : status'[p] = status[p]
    BY <1>1
  <2> QED BY <1>1, <1>2, <1>u, <2>1, <2>2, <2>3, <2>4, <2>5 DEF Starts
<1>4. status' \in [plan.phases -> {"pending", "running", "done", "failed"}]
  BY <1>0, <1>1 DEF Shape
<1>5. failing = {}
  BY <1>0, <1>1 DEF Shape
<1>6. /\ tries' \in [plan.phases -> 0 .. MaxTries]
      /\ \A p \in plan.phases \ Ready : tries'[p] = tries[p]
  <2>1. tries' = [p \in plan.phases |-> IF p \in Ready THEN tries[p] + 1 ELSE tries[p]]
    BY <1>1 DEF Execute
  <2>2. \A p \in Ready : tries[p] = 0
    BY <1>0, <1>2 DEF Waves
  <2>3. 0 + 1 \in 0 .. MaxTries
    BY DeploymentAssumption
  <2>4. tries \in [plan.phases -> 0 .. MaxTries]
    BY <1>0 DEF Shape
  <2> QED BY <2>1, <2>2, <2>3, <2>4
<1>7. Shape'
  <2>1. failing' \subseteq In({"running"})'
    BY <1>0, <1>2, <1>3, <1>5, <1>u, ExecuteShape DEF In, Starts
  <2>2. /\ live' \subseteq Commands' /\ live \subseteq live'
        /\ todo' \in [plan.phases -> Seq(Machines)]
    BY <1>0, <1>3, <1>u, ExecuteShape DEF Commands, Machines
  <2> QED BY <1>0, <1>4, <1>6, <1>u, <2>1, <2>2 DEF Shape, Machines, Commands
<1>8. Waves'
  <2>0. AlwaysThere \subseteq plan.phases
    BY <1>0, PlanIs
  <2>1. In({"done"})' = In({"done"})
    BY <1>1, <1>2, <1>u DEF In
  <2>2. In({"running", "done"})' \subseteq In({"done"}) \cup Ready
    <3>1. In({"running", "done"}) = In({"done"})
      BY <1>1 DEF In
    <3> QED BY <1>1, <1>u, <3>1 DEF In
  <2>3. \A p \in In({"running", "done"})' \ {"teardown"} : plan.deps[p] \subseteq In({"done"})
    <3>1. In({"done"}) \subseteq In({"running", "done"})
      BY DEF In
    <3> QED BY <1>0, <1>2, <2>2, <3>1 DEF Waves
  <2>4. status'["teardown"] = status["teardown"]
    BY <1>1, <1>2, <2>0 DEF AlwaysThere
  <2>5. \A p \in plan.phases : status'[p] # "running" => tries'[p] = 0
    <3>1. \A p \in plan.phases : status'[p] # "running" => p \notin Ready /\ status'[p] = status[p]
      BY <1>1
    <3> QED BY <1>0, <1>6, <3>1 DEF Waves
  <2> QED BY <1>0, <1>1, <1>u, <2>1, <2>3, <2>4, <2>5 DEF Waves
<1>9. Sent'
  BY <1>0, <1>3, StartedSent
<1>10. Waits'
  BY <1>0, <1>u DEF Waits
<1>11. InTurn'
  BY <1>0, <1>3, <1>4, StartedInTurn
<1> QED BY <1>3, <1>7, <1>8, <1>9, <1>10, <1>11 DEF Control

LEMMA RetryKeeps ==
  ASSUME Control, NEW p \in plan.phases, Retry(p)
  PROVE  Control' /\ Starts({p})
<1>0. Shape /\ Waves /\ Sent /\ Waits /\ InTurn
  BY DEF Control
<1>1. /\ Returned(p) /\ p \in failing /\ tries[p] < MaxTries /\ Execute({p})
      /\ UNCHANGED <<cfg, plan, status, stale, waiting, mach, known, clusters, state, faults,
                     mishaps, result>>
  BY DEF Retry, machVars
<1>2. /\ status[p] = "running" /\ todo[p] = <<>> /\ \A c \in live : c[1] # p
  BY <1>1 DEF Returned
<1>3. result = "running" /\ p # "teardown" /\ plan.deps[p] \subseteq In({"done"})
  BY <1>0, <1>2 DEF Waves, Shape, In
<1>4. Starts({p})
  <2>1. Targets(p) = plan.after[p] /\ ToSet(plan.after[p]) \subseteq Fleet
    BY <1>0, <1>3, Ripe
  <2> QED BY <1>1, <1>2, <2>1 DEF Starts
<1>5. tries' \in [plan.phases -> 0 .. MaxTries] /\ \A q \in plan.phases \ {p} : tries'[q] = tries[q]
  <2>1. tries' = [q \in plan.phases |-> IF q \in {p} THEN tries[q] + 1 ELSE tries[q]]
    BY <1>1 DEF Execute
  <2>2. tries \in [plan.phases -> 0 .. MaxTries] /\ MaxTries \in Nat
    BY <1>0, DeploymentAssumption DEF Shape
  <2>3. tries[p] + 1 \in 0 .. MaxTries
    BY <1>1, <2>2
  <2> QED BY <2>1, <2>2, <2>3
<1>6. Shape'
  <2>1. failing' \subseteq In({"running"})'
    <3>1. \A q \in failing' : q = p \/ q \in failing
      BY <1>0, <1>4, ExecuteShape
    <3> QED BY <1>0, <1>1, <1>2, <3>1 DEF In, Shape
  <2>2. /\ live' \subseteq Commands' /\ live \subseteq live'
        /\ todo' \in [plan.phases -> Seq(Machines)]
    BY <1>0, <1>1, <1>4, ExecuteShape DEF Commands, Machines
  <2> QED BY <1>0, <1>1, <1>5, <2>1, <2>2 DEF Shape, Machines, Commands
<1>7. Waves'
  <2>1. \A st : In(st)' = In(st)
    BY <1>1 DEF In
  <2>2. \A q \in plan.phases : status[q] # "running" => tries'[q] = 0
    BY <1>0, <1>2, <1>5 DEF Waves
  <2> QED BY <1>0, <1>1, <2>1, <2>2 DEF Waves
<1>8. Sent'
  BY <1>0, <1>4, StartedSent
<1>9. Waits'
  BY <1>0, <1>1 DEF Waits
<1>10. InTurn'
  BY <1>0, <1>1, <1>4, StartedInTurn DEF Shape
<1> QED BY <1>4, <1>6, <1>7, <1>8, <1>9, <1>10 DEF Control

LEMMA SendsNothing ==
  ASSUME Shape, NEW p \in {"network", "machines", "teardown"}
  PROVE  p \in plan.phases /\ plan.after[p] = <<>>
<1>1. p \in plan.phases /\ cfg.kind \in Kinds
  BY PlanIs DEF AlwaysThere
<1>2. TargetsOf(cfg, plan.ready, p) = <<>>
  BY <1>1, Table
<1> QED BY <1>1, <1>2, PlanIs

(* No phase but the first two runs without machines.                          *)
LEMMA MachinesDone ==
  ASSUME Shape, Waves,
         NEW p \in plan.phases \ {"network", "machines", "teardown"},
         status[p] \in {"running", "done"}
  PROVE  status["machines"] = "done" /\ state = plan.ready
<1> DEFINE D == In({"done"})
<1>1. \A q \in (Phases(cfg) \cap D) \ {"teardown"} : DepsOf(cfg, q) \subseteq D
  BY PlanIs DEF Waves, In
<1>2. DepsOf(cfg, p) \subseteq D /\ p \in Phases(cfg) \ {"network", "machines", "teardown"}
  BY PlanIs DEF Waves, In
<1>3. "machines" \in D
  <2> HIDE DEF D
  <2> QED BY <1>1, <1>2, MachinesFirst
<1> QED BY <1>3 DEF In, Waves

LEMMA NoneServed ==
  ASSUME Shape, Waves, status["machines"] # "done", NEW p \in plan.phases
  PROVE  Served(p) = {}
<1>1. CASE p \in {"network", "machines", "teardown"}
  BY <1>1, SendsNothing DEF Served, ToSet
<1>2. CASE p \notin {"network", "machines", "teardown"}
  <2>1. status[p] \notin {"running", "done"}
    BY <1>2, MachinesDone
  <2> QED BY <2>1 DEF Served
<1> QED BY <1>1, <1>2

LEMMA FinishIs ==
  ASSUME Control, NEW p \in plan.phases, Finish(p)
  PROVE  /\ status[p] = "running" /\ p # "teardown" /\ result = "running"
         /\ p \notin failing /\ todo[p] = <<>> /\ Awaited(p) = {} /\ ~Panics(cfg, state, p)
         /\ status' = [status EXCEPT ![p] = "done"]
         /\ status'[p] = "done" /\ \A q \in plan.phases \ {p} : status'[q] = status[q]
         /\ tries' = [tries EXCEPT ![p] = 0] /\ failing' = failing \ {p}
         /\ p = "machines" =>
              /\ mach' = [m \in Machines |-> Bare] /\ state' = plan.ready
              /\ live = {} /\ stale = {} /\ waiting = {} /\ state = NewState
         /\ p # "machines" => mach' = mach /\ state' = state
         /\ UNCHANGED <<cfg, plan, todo, live, stale, waiting, known, clusters, faults, mishaps,
                        result>>
<1>0. Shape /\ Waves /\ Sent
  BY DEF Control
<1>1. /\ Returned(p) /\ p \notin failing /\ Ends(p, "done")
      /\ UNCHANGED <<cfg, plan, todo, live, stale, waiting, known, clusters, faults, mishaps,
                     result>>
      /\ p = "machines" => mach' = [m \in Machines |-> Bare] /\ state' = plan.ready
      /\ p # "machines" => mach' = mach /\ state' = state
  BY DEF Finish, cmdVars
<1>2. /\ status[p] = "running" /\ todo[p] = <<>> /\ Awaited(p) = {} /\ ~Panics(cfg, state, p)
      /\ status' = [status EXCEPT ![p] = "done"]
      /\ tries' = [tries EXCEPT ![p] = 0] /\ failing' = failing \ {p}
  BY <1>1 DEF Returned, Ends, Awaited
<1>3. status'[p] = "done" /\ \A q \in plan.phases \ {p} : status'[q] = status[q]
  BY <1>0, <1>2 DEF Shape
<1>4. p # "teardown" /\ result = "running"
  BY <1>0, <1>2 DEF Waves, Shape, In
<1>5. p = "machines" => live = {} /\ stale = {} /\ waiting = {} /\ state = NewState
  <2>1. p = "machines" => state = NewState
    BY <1>0, <1>2, <1>4 DEF Waves, In
  <2>2. state = NewState => live = {} /\ stale = {}
    BY <1>0 DEF Sent
  <2> QED BY <1>0, <2>1, <2>2 DEF Shape
<1> QED BY <1>1, <1>2, <1>3, <1>4, <1>5

LEMMA FinishShape ==
  ASSUME Control, NEW p \in plan.phases, Finish(p)
  PROVE  Shape' /\ Waves'
<1>0. Shape /\ Waves /\ Sent
  BY DEF Control
<1>u. /\ UNCHANGED <<cfg, plan, todo, live, stale, waiting, known, clusters, faults, mishaps,
                     result>>
      /\ status[p] = "running" /\ p # "teardown" /\ result = "running"
  BY FinishIs
<1>1. /\ status' \in [plan.phases -> {"pending", "running", "done", "failed"}]
      /\ tries' \in [plan.phases -> 0 .. MaxTries] /\ tries'[p] = 0
      /\ \A q \in plan.phases \ {p} : tries'[q] = tries[q]
  <2>1. 0 \in 0 .. MaxTries
    BY DeploymentAssumption
  <2>2. status' = [status EXCEPT ![p] = "done"] /\ tries' = [tries EXCEPT ![p] = 0]
    BY FinishIs
  <2>3. /\ status \in [plan.phases -> {"pending", "running", "done", "failed"}]
        /\ tries \in [plan.phases -> 0 .. MaxTries]
    BY <1>0 DEF Shape
  <2> QED BY <2>1, <2>2, <2>3
<1>2. \A q \in plan.phases \ {p} : status'[q] = status[q]
  BY FinishIs
<1>3. status'[p] = "done"
  BY FinishIs
<1>4. failing' \subseteq In({"running"})'
  BY <1>0, <1>2, <1>u, FinishIs DEF Shape, In
<1>5. mach' \in [Machines -> MachineRecs(clusters)]
  <2>1. \A b \in Nat : Bare \in MachineRecs(b)
    BY DEF Bare, MachineRecs
  <2>2. clusters \in Nat /\ mach \in [Machines -> MachineRecs(clusters)]
    BY <1>0 DEF Shape
  <2> QED BY <2>1, <2>2, FinishIs
<1>6. state' \in {NewState, plan.ready}
  BY <1>0, FinishIs DEF Shape
<1>7. Shape'
  BY <1>0, <1>1, <1>4, <1>5, <1>6, <1>u DEF Shape, Machines, Commands
<1>8. In({"done"})' = In({"done"}) \cup {p}
  BY <1>2, <1>3, <1>u DEF In
<1>9. In({"running", "done"})' = In({"running", "done"})
  BY <1>2, <1>3, <1>u DEF In
<1>10. \A q \in In({"running", "done"})' \ {"teardown"} : plan.deps[q] \subseteq In({"done"})'
  BY <1>0, <1>8, <1>9 DEF Waves
<1>11. "teardown" \in plan.phases /\ "machines" \in plan.phases
  BY <1>0, PlanIs DEF AlwaysThere
<1>12. status'["teardown"] = status["teardown"]
  BY <1>2, <1>11, <1>u
<1>13. /\ "machines" \in In({"done"})' => state' = plan.ready
       /\ "machines" \notin In({"done"})' => state' = NewState
  <2>1. CASE p = "machines"
    BY <1>8, <2>1, FinishIs
  <2>2. CASE p # "machines"
    BY <1>0, <1>8, <1>u, <2>2, FinishIs DEF Waves
  <2> QED BY <2>1, <2>2
<1>14. "configure_db" \in In({"done"})' => ~Panics(cfg, plan.ready, "configure_db")
  <2>1. CASE p = "configure_db"
    <3>1. state = plan.ready
      BY <1>0, <1>u, <2>1, MachinesDone
    <3> QED BY <2>1, <3>1, FinishIs
  <2>2. CASE p # "configure_db"
    BY <1>0, <1>8, <2>2 DEF Waves
  <2> QED BY <2>1, <2>2
<1>15. \A q \in plan.phases : status'[q] # "running" => tries'[q] = 0
  BY <1>0, <1>1, <1>2, <1>3 DEF Waves
<1> QED BY <1>0, <1>7, <1>10, <1>12, <1>13, <1>14, <1>15, <1>u DEF Waves

LEMMA FinishServed ==
  ASSUME Control, NEW p \in plan.phases, Finish(p), NEW q \in plan.phases
  PROVE  Served(q)' = Served(q)
<1>0. Shape /\ Waves /\ Sent
  BY DEF Control
<1>u. UNCHANGED <<cfg, plan, todo, live, stale, waiting>>
  BY FinishIs
<1>1. CASE p = "machines"
  <2>1. Served(q) = {}
    <3>1. status["machines"] # "done"
      BY <1>1, FinishIs
    <3> QED BY <1>0, <3>1, NoneServed
  <2>2. CASE q \in {"network", "machines", "teardown"}
    <3>1. plan'.after[q] = <<>> /\ ToSet(<<>>) = {}
      BY <1>0, <1>u, <2>2, SendsNothing DEF ToSet
    <3>2. Served(q)' = {}
      BY <3>1 DEF Served
    <3> QED BY <2>1, <3>2
  <2>3. CASE q \notin {"network", "machines", "teardown"}
    <3>1. status[q] \notin {"running", "done"}
      <4>1. status["machines"] # "done"
        BY <1>1, FinishIs
      <4> QED BY <1>0, <2>3, <4>1, MachinesDone
    <3>2. status'[q] = status[q]
      BY <1>1, <2>3, FinishIs
    <3> QED BY <2>1, <3>1, <3>2 DEF Served
  <2> QED BY <2>2, <2>3
<1>2. CASE p # "machines" /\ q # p
  <2>1. status'[q] = status[q] /\ todo'[q] = todo[q] /\ state' = state
        /\ (q \in failing' <=> q \in failing)
    BY <1>2, <1>u, FinishIs
  <2>2. Awaited(q)' = Awaited(q)
    BY <1>u DEF Awaited
  <2> QED BY <1>u, <2>1, <2>2, ServedKept
<1>3. CASE p # "machines" /\ q = p
  <2>1. Served(p)' = ToSet(plan.after[p])
    BY <1>u, FinishIs DEF Served
  <2>2. ~Fresh(p)
    <3>1. Awaited(p) = {}
      BY FinishIs
    <3> QED BY <3>1 DEF Fresh, Awaited
  <2>3. \A m : m \notin ToSet(todo[p]) /\ <<p, m>> \notin live
    <3>1. todo[p] = <<>> /\ Awaited(p) = {}
      BY FinishIs
    <3> QED BY <3>1 DEF Awaited, ToSet
  <2>4. status[p] = "running" /\ p \notin failing /\ ~Panics(cfg, state, p)
    BY FinishIs
  <2>5. Served(p) = ToSet(plan.after[p])
    BY <2>2, <2>3, <2>4 DEF Served
  <2> QED BY <1>3, <2>1, <2>5
<1> QED BY <1>1, <1>2, <1>3

LEMMA FinishKeeps ==
  ASSUME Control, NEW p \in plan.phases, Finish(p)
  PROVE  Control'
<1>0. Shape /\ Waves /\ Sent /\ Waits /\ InTurn
  BY DEF Control
<1>u. UNCHANGED <<cfg, plan, todo, live, stale, waiting>>
  BY FinishIs
<1>1. Shape' /\ Waves'
  BY FinishShape
<1>2. ASSUME NEW c \in live
      PROVE  /\ status'[c[1]] = "running" /\ ~Panics(cfg, state', c[1])
             /\ c[2] \in ToSet(plan.after[c[1]])
             /\ plan.mode[c[1]] = "sequence" => c[1] \notin failing'
  <2>1. c[1] # p /\ c[1] \in plan.phases
    BY <1>0, FinishIs DEF Awaited, Shape, Commands
  <2>2. p # "machines"
    BY FinishIs
  <2> QED BY <1>0, <2>1, <2>2, FinishIs DEF Sent
<1>3. ASSUME NEW c \in stale PROVE c[2] \in ToSet(plan.after[c[1]]) \ (Served(c[1])')
  <2>1. c[1] \in plan.phases
    BY <1>0 DEF Shape, Commands
  <2> QED BY <1>0, <2>1, FinishServed DEF Sent
<1>4. state' = NewState => live \cup stale = {}
  <2>1. CASE p = "machines"
    BY <2>1, FinishIs
  <2>2. CASE p # "machines"
    BY <1>0, <2>2, FinishIs DEF Sent
  <2> QED BY <2>1, <2>2
<1>5. ASSUME NEW q \in plan.phases
      PROVE  /\ ToSet(todo[q]) \subseteq ToSet(plan.after[q])
             /\ todo[q] # <<>> => /\ plan.mode[q] = "sequence" /\ status'[q] = "running"
                                  /\ q \notin failing' /\ \E c \in live : c[1] = q
  BY <1>0, FinishIs DEF Sent
<1>6. Sent'
  BY <1>2, <1>3, <1>4, <1>5, <1>u DEF Sent
<1>7. Waits'
  <2>1. CASE p = "machines"
    BY <1>u, <2>1, FinishIs DEF Waits
  <2>2. CASE p # "machines"
    BY <1>0, <1>u, <2>2, FinishIs DEF Waits
  <2> QED BY <2>1, <2>2
<1>8. InTurn'
  <2>1. \A q : Fresh(q)' <=> Fresh(q)
    BY <1>u DEF Fresh
  <2>2. In({"running"})' \ failing' \subseteq In({"running"}) \ failing
    BY <1>u, FinishIs DEF In
  <2> QED BY <1>0, <1>u, <2>1, <2>2 DEF InTurn
<1> QED BY <1>1, <1>6, <1>7, <1>8 DEF Control

LEMMA GiveUpKeeps ==
  ASSUME Control, NEW p \in plan.phases, GiveUp(p)
  PROVE  Control' /\ \A q \in plan.phases : Served(q)' = Served(q)
<1>0. Shape /\ Waves /\ Sent /\ Waits /\ InTurn
  BY DEF Control
<1>1. /\ Returned(p) /\ p \in failing
      /\ status' = [status EXCEPT ![p] = "failed"]
      /\ tries' = [tries EXCEPT ![p] = 0]
      /\ failing' = failing \ {p}
  BY DEF GiveUp, Ends
<1>u. UNCHANGED <<cfg, plan, todo, live, stale, waiting, mach, known, clusters, state, faults,
                  mishaps, result>>
  BY DEF GiveUp, cmdVars, machVars
<1>2. status[p] = "running" /\ todo[p] = <<>> /\ \A c \in live : c[1] # p
  BY <1>1 DEF Returned
<1>3. status'[p] = "failed" /\ \A q \in plan.phases \ {p} : status'[q] = status[q]
  BY <1>0, <1>1 DEF Shape
<1>4. p # "teardown" /\ "teardown" \in plan.phases /\ "machines" \in plan.phases
  BY <1>0, <1>2, PlanIs DEF Waves, AlwaysThere
<1>5. /\ status' \in [plan.phases -> {"pending", "running", "done", "failed"}]
      /\ tries' \in [plan.phases -> 0 .. MaxTries] /\ tries'[p] = 0
      /\ \A q \in plan.phases \ {p} : tries'[q] = tries[q]
  <2>1. 0 \in 0 .. MaxTries
    BY DeploymentAssumption
  <2> QED BY <1>0, <1>1, <2>1 DEF Shape
<1>6. Shape'
  <2>1. failing' \subseteq In({"running"})'
    BY <1>0, <1>1, <1>3, <1>u DEF Shape, In
  <2> QED BY <1>0, <1>5, <1>u, <2>1 DEF Shape, Machines, Commands
<1>7. Waves'
  <2>1. /\ In({"done"})' = In({"done"})
        /\ In({"running", "done"})' \subseteq In({"running", "done"})
        /\ In({"running"})' \subseteq In({"running"})
    BY <1>2, <1>3, <1>u DEF In
  <2>2. status'["teardown"] = status["teardown"]
    BY <1>3, <1>4
  <2>3. \A q \in plan.phases : status'[q] # "running" => tries'[q] = 0
    BY <1>0, <1>3, <1>5 DEF Waves
  <2> QED BY <1>0, <1>u, <2>1, <2>2, <2>3 DEF Waves
<1>8. ASSUME NEW q \in plan.phases PROVE Served(q)' = Served(q) /\ (Fresh(q)' <=> Fresh(q))
  <2>1. CASE q = p
    <3>1. Served(p) = {} /\ Served(p)' = {}
      BY <1>1, <1>2, <1>3 DEF Served
    <3> QED BY <1>u, <2>1, <3>1 DEF Fresh
  <2>2. CASE q # p
    <3>1. Awaited(q)' = Awaited(q)
      BY <1>u DEF Awaited
    <3> QED BY <1>1, <1>3, <1>u, <2>2, <3>1, ServedKept
  <2> QED BY <2>1, <2>2
<1>9. Sent'
  <2>1. ASSUME NEW c \in live
        PROVE  /\ status'[c[1]] = "running"
               /\ plan.mode[c[1]] = "sequence" => c[1] \notin failing'
    BY <1>0, <1>1, <1>2, <1>3 DEF Sent, Shape, Commands
  <2>2. ASSUME NEW c \in stale PROVE Served(c[1])' = Served(c[1])
    BY <1>0, <1>8 DEF Shape, Commands
  <2>3. \A q \in plan.phases : todo[q] # <<>> => status'[q] = status[q] /\ q \notin failing'
    BY <1>0, <1>1, <1>2, <1>3 DEF Sent
  <2> QED BY <1>0, <1>u, <2>1, <2>2, <2>3 DEF Sent
<1>10. Waits'
  BY <1>0, <1>u DEF Waits
<1>11. InTurn'
  <2>1. In({"running"})' \ failing' \subseteq In({"running"}) \ failing
    BY <1>1, <1>3, <1>u DEF In
  <2>2. \A q : Fresh(q)' <=> Fresh(q)
    BY <1>u DEF Fresh
  <2> QED BY <1>0, <1>u, <2>1, <2>2 DEF InTurn
<1> QED BY <1>6, <1>7, <1>8, <1>9, <1>10, <1>11 DEF Control

LEMMA TearDownKeeps ==
  ASSUME Control, TearDown
  PROVE  Control' /\ result' # "running"
<1>0. Shape /\ Waves /\ Sent /\ Waits /\ InTurn
  BY DEF Control
<1>1. /\ result = "running" /\ In({"running"}) = {}
      /\ status' = [status EXCEPT !["teardown"] = "done"]
      /\ mach' = [m \in Machines |-> Bare]
      /\ stale' = {} /\ waiting' = {}
      /\ result' \in {"failed", "completed"}
      /\ UNCHANGED <<cfg, plan, tries, todo, failing, live, state, known, clusters, faults,
                     mishaps>>
  BY DEF TearDown
<1>2. live = {} /\ failing = {} /\ \A p \in plan.phases : todo[p] = <<>>
  <2>1. live = {}
    BY <1>0, <1>1 DEF Sent, In, Shape, Commands
  <2> QED BY <1>0, <1>1, <2>1 DEF Sent, Shape
<1>3. "teardown" \in plan.phases /\ "machines" \in plan.phases /\ "configure_db" \in plan.phases
  BY <1>0, PlanIs DEF AlwaysThere
<1>4. /\ status'["teardown"] = "done"
      /\ \A p \in plan.phases \ {"teardown"} : status'[p] = status[p]
      /\ status' \in [plan.phases -> {"pending", "running", "done", "failed"}]
  BY <1>0, <1>1, <1>3 DEF Shape
<1>5. /\ In({"running"})' = {} /\ In({"done"})' = In({"done"}) \cup {"teardown"}
      /\ In({"running", "done"})' \ {"teardown"} \subseteq In({"running", "done"}) \ {"teardown"}
  BY <1>1, <1>3, <1>4 DEF In
<1>6. Shape'
  <2>1. \A b \in Nat : Bare \in MachineRecs(b)
    BY DEF Bare, MachineRecs
  <2>2. mach' \in [Machines -> MachineRecs(clusters)]
    BY <1>0, <1>1, <2>1 DEF Shape
  <2> QED BY <1>0, <1>1, <1>2, <1>4, <2>2 DEF Shape, Machines, Commands
<1>7. Waves'
  <2>1. \A p \in In({"running", "done"})' \ {"teardown"} : plan.deps[p] \subseteq In({"done"})'
    BY <1>0, <1>5 DEF Waves
  <2>2. \A p \in plan.phases : status'[p] # "running" => tries[p] = 0
    BY <1>0, <1>4 DEF Waves
  <2>3. "machines" \in In({"done"})' => "machines" \in In({"done"})
    BY <1>5
  <2>4. "configure_db" \in In({"done"})' => "configure_db" \in In({"done"})
    BY <1>5
  <2> QED BY <1>0, <1>1, <1>4, <1>5, <2>1, <2>2, <2>3, <2>4 DEF Waves
<1>8. Sent' /\ Waits'
  <2>1. ToSet(<<>>) = {}
    BY DEF ToSet
  <2> QED BY <1>1, <1>2, <2>1 DEF Sent, Waits
<1>9. InTurn'
  BY <1>5 DEF InTurn
<1> QED BY <1>1, <1>6, <1>7, <1>8, <1>9 DEF Control

(* A restart: what was done stays done but for the last save, and what the    *)
(* agents are at belongs to phases that are not done.                         *)
LEMMA ResumesKeeps ==
  ASSUME Control, result = "running", Resumes, faults' \in 0 .. MaxFaults
  PROVE  /\ Control' /\ mach' = mach /\ known' = known /\ mishaps' = mishaps
         /\ cfg' = cfg /\ plan' = plan
         /\ \A p \in plan.phases : Served(p)' \subseteq Served(p)
<1>0. Shape /\ Waves /\ Sent /\ Waits /\ InTurn
  BY DEF Control
<1>1. PICK lost \in SUBSET In({"done"}) :
        /\ \A p \in In({"running", "done"}) : plan.deps[p] \cap lost = {}
        /\ status' = [p \in plan.phases |->
                        IF status[p] = "done" /\ p \notin lost THEN "done" ELSE "pending"]
        /\ result' = IF "machines" \in In({"done"}) \ lost THEN result ELSE "failed"
  BY DEF Resumes
<1>2. PICK kept \in SUBSET (live \cup stale) : waiting \subseteq kept /\ stale' = kept
  BY DEF Resumes
<1>u. UNCHANGED <<cfg, plan, waiting, mach, known, clusters, mishaps>>
  BY DEF Resumes, machVars
<1>3. /\ live' = {} /\ failing' = {}
      /\ tries' = [p \in plan.phases |-> 0]
      /\ todo' = [p \in plan.phases |-> <<>>]
  BY DEF Resumes
<1>4. state' = state
  <2>1. state \in RunStates
    BY <1>0, StateIs
  <2>2. PICK st \in RunStates : st = state
    BY <2>1
  <2>3. ImportRunState(ExportRunState(st)) = st
    BY ImportExport
  <2>4. state' = ImportRunState(ExportRunState(state))
    BY DEF Resumes
  <2> QED BY <2>2, <2>3, <2>4
<1>5. /\ In({"running"})' = {} /\ In({"done"})' = In({"done"}) \ lost
      /\ In({"running", "done"})' = In({"done"}) \ lost
      /\ \A p \in plan.phases : status'[p] = "done" => status[p] = "done"
  BY <1>1, <1>u DEF In
<1>6. Shape'
  <2>1. /\ status' \in [plan.phases -> {"pending", "running", "done", "failed"}]
        /\ result' \in {"running", "completed", "failed"}
    BY <1>0, <1>1 DEF Shape
  <2>2. 0 \in 0 .. MaxTries /\ <<>> \in Seq(Machines)
    BY DeploymentAssumption
  <2>3. /\ tries' \in [plan.phases -> 0 .. MaxTries]
        /\ todo' \in [plan.phases -> Seq(Machines)]
    BY <1>3, <2>2
  <2>4. stale' \subseteq Commands /\ waiting \subseteq stale'
    BY <1>0, <1>2 DEF Shape
  <2> QED BY <1>0, <1>3, <1>4, <1>u, <2>1, <2>3, <2>4 DEF Shape, Machines, Commands
<1>7. Waves'
  <2>0. "teardown" \in plan.phases
    BY <1>0, PlanIs DEF AlwaysThere
  <2>1. ASSUME NEW p \in In({"running", "done"})' \ {"teardown"}
        PROVE  plan.deps[p] \subseteq In({"done"})'
    <3>1. p \in In({"running", "done"}) \ {"teardown"}
      BY <1>5 DEF In
    <3>2. plan.deps[p] \subseteq In({"done"}) /\ plan.deps[p] \cap lost = {}
      BY <1>0, <1>1, <3>1 DEF Waves
    <3> QED BY <1>5, <3>2
  <2>2. status'["teardown"] = "pending"
    BY <1>0, <1>1, <2>0 DEF Waves
  <2>3. "machines" \in In({"done"})' => state' = plan.ready
    BY <1>0, <1>4, <1>5 DEF Waves
  <2>4. result' = "running" => "machines" \in In({"done"})'
    BY <1>1, <1>5
  <2>5. "configure_db" \in In({"done"})' => ~Panics(cfg, plan.ready, "configure_db")
    BY <1>0, <1>5 DEF Waves
  <2>6. \A p \in plan.phases : tries'[p] = 0
    BY <1>3
  <2> QED BY <1>5, <1>u, <2>1, <2>2, <2>3, <2>4, <2>5, <2>6 DEF Waves
<1>8. ASSUME NEW p \in plan.phases
      PROVE  /\ Served(p)' \subseteq Served(p)
             /\ Served(p)' # {} => status[p] = "done"
  <2>1. CASE status'[p] = "done"
    BY <1>5, <1>u, <2>1 DEF Served
  <2>2. CASE status'[p] # "done"
    BY <1>1, <1>u, <2>2 DEF Served
  <2> QED BY <2>1, <2>2
<1>9. Sent'
  <2>1. ASSUME NEW c \in stale' PROVE c[2] \in ToSet(plan.after[c[1]]) \ (Served(c[1])')
    <3>1. c \in live \/ c \in stale
      BY <1>2
    <3>2. c[1] \in plan.phases /\ c[2] \in ToSet(plan.after[c[1]])
      BY <1>0, <3>1 DEF Sent, Shape, Commands
    <3>3. c \in stale => c[2] \notin Served(c[1])
      BY <1>0 DEF Sent
    <3>4. c \in live => status[c[1]] = "running"
      BY <1>0 DEF Sent
    <3> QED BY <1>8, <3>1, <3>2, <3>3, <3>4
  <2>2. state' = NewState => live' \cup stale' = {}
    BY <1>0, <1>2, <1>3, <1>4 DEF Sent
  <2>3. \A p \in plan.phases : todo'[p] = <<>> /\ ToSet(todo'[p]) = {}
    BY <1>3 DEF ToSet
  <2> QED BY <1>3, <1>u, <2>1, <2>2, <2>3 DEF Sent
<1>10. Waits'
  BY <1>0, <1>u DEF Waits
<1>11. InTurn'
  BY <1>5 DEF InTurn
<1> QED BY <1>6, <1>7, <1>8, <1>9, <1>10, <1>11, <1>u DEF Control

(* A command that is with its agent or on its way there.                      *)
LEMMA CommandIs ==
  ASSUME Control, NEW c \in live \cup stale
  PROVE  /\ c[1] \in plan.phases \cap WorkPhases /\ c[2] \in Machines
         /\ c = <<c[1], c[2]>>
         /\ c[2] \in ToSet(plan.after[c[1]])
         /\ status[c[1]] # "done"
         /\ state = plan.ready /\ Fleet = Machines
         /\ \A p \in plan.phases : Targets(p) = plan.after[p]
<1>0. Shape /\ Sent
  BY DEF Control
<1>1. c \in plan.phases \X Machines
  BY <1>0 DEF Shape, Commands
<1>2. c[2] \in ToSet(plan.after[c[1]])
  BY <1>0 DEF Sent
<1>3. c[1] \in WorkPhases
  <2>1. c[1] \notin {"network", "machines", "teardown"}
    BY <1>0, <1>2, SendsNothing DEF ToSet
  <2> QED BY <1>0, <1>1, <2>1, PlanIs DEF WorkPhases
<1>4. status[c[1]] # "done"
  <2>1. CASE c \in live
    BY <1>0, <2>1 DEF Sent
  <2>2. CASE c \in stale
    BY <1>0, <1>2, <2>2 DEF Sent, Served
  <2> QED BY <2>1, <2>2
<1>5. state = plan.ready
  BY <1>0 DEF Shape, Sent
<1> QED BY <1>0, <1>1, <1>2, <1>3, <1>4, <1>5, StateIs

LEMMA DatabasesAre ==
  ASSUME Shape, state = plan.ready
  PROVE  /\ Databases = ToSet(plan.ready.database) /\ Databases \subseteq Machines
         /\ plan.ready.database \in Seq(Machines)
         /\ Databases # {} <=> plan.ready.database # <<>>
         /\ Databases # {} => First \in Databases
<1>1. PICK st \in RunStates : st = plan.ready
  BY PlanIs
<1>2. st.database \in Seq(MachineNames) /\ ToSet(st.database) \subseteq ToSet(AllTargets(st))
  BY PartsOfAll
<1>3. Databases = ToSet(st.database) /\ Databases \subseteq Machines
  BY <1>1, <1>2, PlanIs DEF Databases
<1>4. PICK s : s = st.database
  OBVIOUS
<1>5. s \in Seq(Machines)
  BY <1>2, <1>3, <1>4, SeqOfItself
<1>6. s # <<>> => s[1] \in ToSet(s)
  BY <1>5, TailSet
<1>7. s = <<>> => ToSet(s) = {}
  BY DEF ToSet
<1> QED BY <1>1, <1>3, <1>4, <1>5, <1>6, <1>7 DEF First

LEMMA EnvIs ==
  ASSUME Shape, state = plan.ready, NEW m \in Machines, NEW strict \in BOOLEAN,
         NEW env, env = Env(m, strict)
  PROVE  /\ env \in Envs(clusters + 1)
         /\ env.first <=> Databases # {} /\ m = First
         /\ env.group <=> "group" \in cfg.features
         /\ env.peer = IF Databases # {} /\ Service(cfg.kind) \in mach[First].up
                         THEN mach[First].data ELSE 0
         /\ env.quorum <=> EtcdQuorum
         /\ env.nodes <=> \A d \in Databases : "ydbd" \in mach[d].up
         /\ env.known = known /\ env.fresh = clusters + 1
         /\ env.member <=> \E d \in Databases \ {m} : known # 0 /\ mach[d].data = known
<1>1. First = state.database[1]
  BY DEF First
<1>2. /\ env.first = IsFirst(state, m)
      /\ env.group = ("group" \in cfg.features)
      /\ env.peer = IF Databases # {} /\ Service(cfg.kind) \in mach[First].up
                      THEN mach[First].data ELSE 0
      /\ env.quorum = EtcdQuorum
      /\ env.nodes = \A d \in Databases : "ydbd" \in mach[d].up
      /\ env.known = known /\ env.fresh = clusters + 1
      /\ env.member = \E d \in Databases \ {m} : known # 0 /\ mach[d].data = known
      /\ env.strict = strict
      /\ env = [first |-> env.first, group |-> env.group, peer |-> env.peer,
                quorum |-> env.quorum, nodes |-> env.nodes, known |-> env.known,
                member |-> env.member, fresh |-> env.fresh, strict |-> env.strict]
  BY <1>1 DEF Env
<1>3. /\ env.first \in BOOLEAN /\ env.group \in BOOLEAN /\ env.quorum \in BOOLEAN
      /\ env.nodes \in BOOLEAN /\ env.member \in BOOLEAN /\ env.strict \in BOOLEAN
  <2>1. IsFirst(state, m) \in BOOLEAN
    BY DEF IsFirst
  <2>2. EtcdQuorum \in BOOLEAN
    BY DEF EtcdQuorum
  <2> QED BY <1>2, <2>1, <2>2
<1>4. clusters \in Nat /\ mach \in [Machines -> MachineRecs(clusters)] /\ known \in 0 .. clusters
  BY DEF Shape
<1>5. env.peer \in 0 .. clusters + 1
  <2>1. Databases # {} => First \in Machines
    BY DatabasesAre
  <2>2. \A n \in Machines : mach[n].data \in 0 .. clusters
    BY <1>4 DEF MachineRecs
  <2> QED BY <1>2, <1>4, <2>1, <2>2
<1>6. env.known \in 0 .. clusters + 1 /\ env.fresh \in 1 .. clusters + 1
  BY <1>2, <1>4
<1>7. env \in Envs(clusters + 1)
  BY <1>2, <1>3, <1>5, <1>6 DEF Envs
<1>8. env.first <=> Databases # {} /\ m = First
  BY <1>1, <1>2, DatabasesAre DEF IsFirst
<1> QED BY <1>2, <1>7, <1>8

LEMMA MoreClusters ==
  ASSUME NEW b \in Nat, NEW d \in Nat, b <= d
  PROVE  MachineRecs(b) \subseteq MachineRecs(d)
BY DEF MachineRecs

(* A script takes no software away, and stops the services of its own phase   *)
(* only.                                                                      *)
Leaves(p, machine, x) ==
  /\ machine.have \subseteq x.have
  /\ machine.up \ Services(cfg, p) \subseteq x.up

LEMMA WorkIs ==
  ASSUME Control, NEW c \in live \cup stale, NEW strict \in BOOLEAN, NEW bad \in Nat,
         NEW x, x = Work(c[1], c[2], bad, strict), NEW env, env = Env(c[2], strict),
         NEW machine, machine = mach[c[2]]
  PROVE  /\ x \in Outcomes(clusters + 1)
         /\ Leaves(c[1], machine, x)
         /\ c[1] \notin DataPhases => x.data = machine.data
         /\ (c[1] = "configure_db" /\ cfg.kind # "ydb" /\ env.first /\ ~env.group
             /\ machine.data # 0) => x.data = machine.data
         /\ x.err = "none" /\ "swallowed" \notin x.notes => Success(cfg, c[1], env, x)
         /\ x.err = "missing" => \/ ~(Uses(cfg, c[1]) \subseteq machine.have)
                                 \/ Alone(cfg, c[1], env)
                                 \/ c[1] = "configure_patroni" /\ ~env.quorum
                                 \/ c[1] = "init_ydb_cluster" /\ ~env.nodes
         /\ bad = 0 => x.err # "fault"
         /\ bad = 0 /\ "swallowed" \in x.notes => Alone(cfg, c[1], env)
         /\ c[1] = "configure_etcd" /\ x.err = "none" => "etcd" \in x.up
<1>0. Shape
  BY DEF Control
<1>1. c[1] \in WorkPhases /\ c[2] \in Machines /\ state = plan.ready /\ cfg.kind \in Kinds
  BY <1>0, CommandIs, PlanIs
<1>2. PICK b \in Nat : b = clusters + 1
  BY <1>0 DEF Shape
<1>p. PICK p \in WorkPhases : p = c[1]
  BY <1>1
<1>m. PICK m, cc : m = c[2] /\ cc = cfg
  OBVIOUS
<1>3. env \in Envs(b)
  BY <1>0, <1>1, <1>2, EnvIs
<1>4. machine \in MachineRecs(b)
  <2>1. clusters \in Nat /\ mach[c[2]] \in MachineRecs(clusters)
    BY <1>0, <1>1 DEF Shape
  <2>2. clusters <= b
    BY <1>2, <2>1
  <2> QED BY <1>2, <2>1, <2>2, MoreClusters
<1>5. x = Executed(Script(cc, p, m, env), machine, env, bad)
  BY <1>p, <1>m DEF Work
<1>6. cc.kind \in Kinds
  BY <1>1, <1>m
<1>7. Works(b, cc, p, machine, env, bad, x)
  BY ONLY <1>3, <1>4, <1>5, <1>6, b \in Nat, p \in WorkPhases, bad \in Nat, PhaseWork
<1>8. Leaves(c[1], machine, x)
  BY <1>p, <1>m, <1>7 DEF Leaves, Works
<1> QED BY <1>2, <1>p, <1>m, <1>7, <1>8 DEF Works

(* The effect of a script on the machines.                                    *)
LEMMA TakesIs ==
  ASSUME Control, NEW c \in live \cup stale, NEW x \in Outcomes(clusters + 1), Takes(c, x)
  PROVE  /\ clusters' \in Nat /\ clusters <= clusters'
         /\ x.data \in 0 .. clusters'
         /\ mach' \in [Machines -> MachineRecs(clusters')]
         /\ known' \in 0 .. clusters'
         /\ mishaps' \subseteq
              {"missing", "repeat", "fault", "orphaned", "swallowed", "underfoot"}
         /\ mishaps \cup x.notes \subseteq mishaps'
         /\ mishaps' \subseteq mishaps \cup x.notes \cup {"orphaned", x.err}
         /\ "missing" \in mishaps' => "missing" \in mishaps \/ (x.err = "missing" /\ c \notin stale)
         /\ mach'[c[2]].have = x.have /\ mach'[c[2]].up = x.up /\ mach'[c[2]].data = x.data
         /\ mach'[c[2]].boot = IF mach[c[2]].boot = "no" THEN "ok" ELSE mach[c[2]].boot
         /\ \A n \in Machines \ {c[2]} :
              /\ mach'[n].boot = mach[n].boot /\ mach'[n].have = mach[n].have
              /\ mach'[n].up = mach[n].up
              /\ mach'[n].data = IF c[1] = "init_ydb_cluster" /\ x.err = "none" /\ n \in Databases
                                   THEN x.data ELSE mach[n].data
         /\ known' = IF c[1] = "configure_patroni" /\ x.err = "none" THEN x.data ELSE known
<1>0. Shape
  BY DEF Control
<1>1. c[2] \in Machines
  BY CommandIs
<1>2. /\ x.have \in SUBSET Programs /\ x.up \in SUBSET Daemons /\ x.data \in 0 .. clusters + 1
      /\ x.err \in {"none", "missing", "repeat", "fault"}
      /\ x.notes \in SUBSET {"swallowed", "underfoot"}
  BY DEF Outcomes
<1>3. clusters \in Nat /\ mach \in [Machines -> MachineRecs(clusters)] /\ known \in 0 .. clusters
  BY <1>0 DEF Shape
<1>4. PICK m : m = c[2]
  OBVIOUS
<1>5. PICK new : new = [boot |-> IF mach[m].boot = "no" THEN "ok" ELSE mach[m].boot,
                        have |-> x.have, up |-> x.up, data |-> x.data]
  OBVIOUS
<1>6. PICK formed \in BOOLEAN : formed <=> (c[1] = "init_ydb_cluster" /\ x.err = "none")
  <2>1. (c[1] = "init_ydb_cluster" /\ x.err = "none") \in BOOLEAN
    OBVIOUS
  <2> QED BY <2>1
<1>7. /\ mach' = [n \in Machines |->
                    IF n = m THEN new
                    ELSE IF formed /\ n \in Databases THEN [mach[n] EXCEPT !.data = x.data]
                    ELSE mach[n]]
      /\ known' = IF c[1] = "configure_patroni" /\ x.err = "none" THEN x.data ELSE known
      /\ clusters' = IF x.data > clusters THEN x.data ELSE clusters
      /\ mishaps' = mishaps \cup x.notes
                    \cup (IF x.err = "none" THEN {}
                          ELSE IF c \in stale THEN {"orphaned"} ELSE {x.err})
  BY <1>4, <1>5, <1>6 DEF Takes
<1>8. clusters' \in Nat /\ clusters <= clusters' /\ x.data \in 0 .. clusters'
  BY <1>2, <1>3, <1>7
<1>9. known' \in 0 .. clusters'
  BY <1>3, <1>7, <1>8
<1>10. /\ mishaps \cup x.notes \subseteq mishaps'
       /\ mishaps' \subseteq mishaps \cup x.notes \cup {"orphaned", x.err}
       /\ "missing" \in mishaps' => "missing" \in mishaps \/ (x.err = "missing" /\ c \notin stale)
       /\ mishaps' \subseteq {"missing", "repeat", "fault", "orphaned", "swallowed", "underfoot"}
  BY <1>0, <1>2, <1>7 DEF Shape
<1>11. mach'[m] = new
  BY <1>1, <1>4, <1>7
<1>12. new \in MachineRecs(clusters')
  <2>1. mach[m].boot \in {"no", "ok", "failed"}
    BY <1>1, <1>3, <1>4 DEF MachineRecs
  <2> QED BY <1>2, <1>5, <1>8, <2>1 DEF MachineRecs
<1>13. ASSUME NEW n \in Machines \ {m}
       PROVE  /\ mach'[n] \in MachineRecs(clusters')
              /\ mach'[n].boot = mach[n].boot /\ mach'[n].have = mach[n].have
              /\ mach'[n].up = mach[n].up
              /\ mach'[n].data = IF formed /\ n \in Databases THEN x.data ELSE mach[n].data
  <2>1. PICK r : r = mach[n]
    OBVIOUS
  <2>2. r \in MachineRecs(clusters) /\ r \in MachineRecs(clusters')
    <3>1. r \in MachineRecs(clusters)
      BY <1>3, <2>1
    <3> QED BY <1>3, <1>8, <3>1, MoreClusters
  <2>3. mach'[n] = IF formed /\ n \in Databases THEN [r EXCEPT !.data = x.data] ELSE r
    BY <1>7, <2>1
  <2>4. PICK s : s = [r EXCEPT !.data = x.data]
    OBVIOUS
  <2>5. /\ s \in MachineRecs(clusters') /\ s.boot = r.boot /\ s.have = r.have /\ s.up = r.up
        /\ s.data = x.data
    BY <1>8, <2>2, <2>4 DEF MachineRecs
  <2> QED BY <2>1, <2>2, <2>3, <2>4, <2>5
<1>14. mach' \in [Machines -> MachineRecs(clusters')]
  <2>1. mach' = [n \in Machines |-> mach'[n]]
    BY <1>7
  <2>2. \A n \in Machines : mach'[n] \in MachineRecs(clusters')
    BY <1>11, <1>12, <1>13
  <2> QED BY <2>1, <2>2
<1> QED BY <1>4, <1>5, <1>6, <1>7, <1>8, <1>9, <1>10, <1>11, <1>13, <1>14

LEMMA AnswerShape ==
  ASSUME Shape, Sent, Waits, NEW c, NEW err, Answers(c, err)
  PROVE  /\ todo' \in [plan.phases -> Seq(Machines)]
         /\ live' \subseteq plan.phases \X Machines
         /\ stale' \subseteq plan.phases \X Machines
         /\ failing' \subseteq In({"running"})
         /\ waiting \ {c} \subseteq live' \cup stale'
<1>0. /\ live \subseteq plan.phases \X Machines /\ stale \subseteq plan.phases \X Machines
      /\ todo \in [plan.phases -> Seq(Machines)] /\ failing \subseteq In({"running"})
      /\ waiting \subseteq live \cup stale
  BY DEF Shape, Commands
<1>1. CASE c \in stale
  BY <1>0, <1>1, AnswersIs
<1>2. CASE c \notin stale
  <2>1. c \in live /\ c[1] \in plan.phases /\ status[c[1]] = "running"
    BY <1>2, AnswersIs
  <2>2. ASSUME NEW p \in plan.phases PROVE todo'[p] \in Seq(Machines)
    <3>1. CASE p # c[1]
      BY <1>0, <1>2, <3>1, AnswersIs
    <3>2. CASE p = c[1] /\ (err # "none" \/ todo[p] = <<>>)
      <4>1. todo'[p] = <<>>
        BY <1>2, <3>2, AnswersIs
      <4>2. <<>> \in Seq(Machines)
        OBVIOUS
      <4> QED BY <4>1, <4>2
    <3>3. CASE p = c[1] /\ err = "none" /\ todo[p] # <<>>
      <4>1. PICK s : s = todo[p]
        OBVIOUS
      <4>2. s \in Seq(Machines) /\ s # <<>>
        BY <1>0, <3>3, <4>1
      <4>3. Tail(s) \in Seq(Machines)
        BY <4>2, TailSet
      <4>4. todo'[p] = Tail(s)
        BY <1>2, <3>3, <4>1, AnswersIs
      <4> QED BY <4>3, <4>4
    <3> QED BY <3>1, <3>2, <3>3
  <2>3. todo' = [p \in plan.phases |-> todo'[p]]
    BY <1>0, <1>2 DEF Answers, Reports
  <2>4. live' \subseteq plan.phases \X Machines
    <3>1. CASE err # "none"
      BY <1>0, <1>2, <3>1, AnswersIs
    <3>2. CASE err = "none" /\ todo[c[1]] = <<>>
      BY <1>0, <1>2, <3>2, AnswersIs
    <3>3. CASE err = "none" /\ todo[c[1]] # <<>>
      <4>1. PICK s : s = todo[c[1]]
        OBVIOUS
      <4>2. s \in Seq(Machines) /\ s # <<>>
        BY <1>0, <2>1, <3>3, <4>1
      <4>3. s[1] \in Machines
        BY <4>2, TailSet
      <4>4. live' = (live \ {c}) \cup {<<c[1], s[1]>>}
        BY <1>2, <3>3, <4>1, AnswersIs
      <4> QED BY <1>0, <2>1, <4>3, <4>4
    <3> QED BY <3>1, <3>2, <3>3
  <2>5. stale' \subseteq plan.phases \X Machines /\ stale \subseteq stale'
    BY <1>0, <1>2, AnswersIs
  <2>6. failing' \subseteq In({"running"})
    BY <1>0, <1>2, <2>1, AnswersIs DEF In
  <2>7. ASSUME NEW w \in waiting \ {c} PROVE w \in live' \cup stale'
    <3>1. CASE w \in stale
      BY <2>5, <3>1
    <3>2. CASE w \in live
      <4>1. w[1] = "configure_etcd" /\ w[1] \in plan.phases
        BY <1>0, <3>2 DEF Waits
      <4>2. CASE w[1] # c[1]
        <5>1. Awaited(w[1])' = Awaited(w[1])
          BY <1>2, <4>1, <4>2, AnswersIs
        <5>2. w \in Awaited(w[1])
          BY <3>2 DEF Awaited
        <5>3. w \in Awaited(w[1])'
          BY <5>1, <5>2
        <5> QED BY <5>3 DEF Awaited
      <4>3. CASE w[1] = c[1]
        <5>1. plan.mode[c[1]] = "each"
          BY <4>1, <4>3, InSequenceAre
        <5>2. err # "none" => live' = live \ {c}
          BY <1>2, <5>1, AnswersIs
        <5>3. err = "none" => live \ {c} \subseteq live'
          BY <1>2, AnswersIs
        <5> QED BY <3>2, <5>2, <5>3
      <4> QED BY <4>2, <4>3
    <3> QED BY <1>0, <3>1, <3>2
  <2> QED BY <2>2, <2>3, <2>4, <2>5, <2>6, <2>7
<1> QED BY <1>1, <1>2

(* The part of the state that belongs to the agents.                          *)
AgentsTyped ==
  /\ clusters \in Nat
  /\ mach \in [Machines -> MachineRecs(clusters)]
  /\ known \in 0 .. clusters
  /\ faults \in 0 .. MaxFaults
  /\ mishaps \subseteq {"missing", "repeat", "fault", "orphaned", "swallowed", "underfoot"}

LEMMA AnswerKeeps ==
  ASSUME Control, NEW c, NEW err, Answers(c, err), UNCHANGED <<tries, result>>,
         AgentsTyped', Waits', waiting' \subseteq waiting \ {c}
  PROVE  Control'
<1>0. Shape /\ Waves /\ Sent /\ Waits /\ InTurn
  BY DEF Control
<1>1. UNCHANGED <<cfg, plan, state, status>>
  BY DEF Answers
<1>2. \A st : In(st)' = In(st)
  BY <1>1 DEF In
<1>3. Shape'
  BY <1>0, <1>1, <1>2, AnswerShape DEF Shape, AgentsTyped, Machines, Commands
<1>4. Waves'
  BY <1>0, <1>1, <1>2 DEF Waves
<1>5. Sent' /\ InTurn'
  BY <1>0, AnswerSent, AnswerInTurn
<1> QED BY <1>3, <1>4, <1>5 DEF Control

LEMMA MayFaultTyped ==
  ASSUME Shape, MayFault \/ UNCHANGED faults
  PROVE  faults' \in 0 .. MaxFaults
<1>1. faults \in 0 .. MaxFaults /\ MaxFaults \in Nat
  BY DeploymentAssumption DEF Shape
<1> QED BY <1>1 DEF MayFault

(* A report that changes nothing on the machines.                             *)
LEMMA QuietAnswer ==
  ASSUME Control, NEW c, NEW err, Answers(c, err),
         UNCHANGED <<tries, result, mach, known, clusters>>,
         MayFault \/ UNCHANGED faults, mishaps' \in {mishaps, mishaps \cup {"fault"}},
         waiting' \subseteq waiting \ {c}
  PROVE  Control'
<1>0. Shape /\ Waits
  BY DEF Control
<1>1. UNCHANGED <<cfg, plan, state, status>>
  BY DEF Answers
<1>2. Waits'
  BY <1>0 DEF Waits
<1>3. AgentsTyped'
  <2>1. mach' \in [Machines' -> MachineRecs(clusters')]
    BY <1>0, <1>1 DEF Shape, Machines
  <2> QED BY <1>0, <2>1, MayFaultTyped DEF Shape, AgentsTyped
<1> QED BY <1>2, <1>3, AnswerKeeps

LEMMA NotWaiting ==
  ASSUME Control, NEW c, CanTake(c)
  PROVE  waiting \subseteq waiting \ {c} /\ \A w \in waiting : w[2] # c[2]
BY DEF CanTake

LEMMA QuietActions ==
  ASSUME Control, NEW c \in live \cup stale,
         Refuse(c) \/ EtcdHealthy(c) \/ EtcdTimesOut(c) \/ SendFails(c)
  PROVE  Control'
<1>1. CASE Refuse(c)
  <2>1. /\ CanTake(c) /\ Reports(c, "fault")
        /\ UNCHANGED <<cfg, plan, status, tries, waiting, mach, known, clusters, state, faults,
                       mishaps, result>>
    BY <1>1 DEF Refuse, machVars
  <2>2. Answers(c, "fault") /\ waiting' \subseteq waiting \ {c}
    BY <2>1, NotWaiting DEF Answers
  <2> QED BY <2>1, <2>2, QuietAnswer
<1>2. CASE EtcdHealthy(c)
  <2>1. /\ waiting' = waiting \ {c} /\ Reports(c, "none")
        /\ UNCHANGED <<cfg, plan, status, tries, mach, known, clusters, state, faults,
                       mishaps, result>>
    BY <1>2 DEF EtcdHealthy, machVars
  <2>2. Answers(c, "none")
    BY <2>1 DEF Answers
  <2> QED BY <2>1, <2>2, QuietAnswer
<1>3. CASE EtcdTimesOut(c)
  <2>1. /\ waiting' = waiting \ {c} /\ Reports(c, "fault") /\ (MayFault \/ UNCHANGED faults)
        /\ mishaps' = mishaps \cup {"fault"}
        /\ UNCHANGED <<cfg, plan, status, tries, mach, known, clusters, state, result>>
    BY <1>3 DEF EtcdTimesOut, machVars
  <2>2. Answers(c, "fault")
    BY <2>1 DEF Answers
  <2> QED BY <2>1, <2>2, QuietAnswer
<1>4. CASE SendFails(c)
  <2>1. /\ Reports(c, "fault") /\ MayFault /\ mach[c[2]].boot = "no"
        /\ mishaps' = mishaps \cup {"fault"}
        /\ UNCHANGED <<cfg, plan, status, tries, waiting, mach, known, clusters, state, result>>
    BY <1>4 DEF SendFails, machVars
  <2>2. Answers(c, "fault")
    BY <2>1 DEF Answers
  <2>3. c \notin waiting
    BY <2>1 DEF Control, Waits
  <2> QED BY <2>1, <2>2, <2>3, QuietAnswer
<1> QED BY <1>1, <1>2, <1>3, <1>4

(* A machine whose bootstrap fails: nothing else about it changes.            *)
LEMMA BootstrapFailsIs ==
  ASSUME Control, NEW c \in live \cup stale, BootstrapFails(c)
  PROVE  /\ Control' /\ Answers(c, "fault") /\ mach[c[2]].boot = "no"
         /\ UNCHANGED <<known, clusters, result>> /\ mishaps' = mishaps \cup {"fault"}
         /\ \A n \in Machines : /\ mach'[n].have = mach[n].have /\ mach'[n].up = mach[n].up
                                /\ mach'[n].data = mach[n].data
                                /\ n # c[2] => mach'[n].boot = mach[n].boot
<1>0. Shape /\ Waits
  BY DEF Control
<1>1. /\ CanTake(c) /\ mach[c[2]].boot = "no" /\ MayFault
      /\ mach' = [mach EXCEPT ![c[2]].boot = "failed"]
      /\ mishaps' = mishaps \cup {"fault"}
      /\ Reports(c, "fault")
      /\ UNCHANGED <<cfg, plan, status, tries, waiting, known, clusters, state, result>>
  BY DEF BootstrapFails
<1>2. Answers(c, "fault")
  BY <1>1 DEF Answers
<1>3. c[2] \in Machines /\ mach \in [Machines -> MachineRecs(clusters)] /\ clusters \in Nat
  BY <1>0, CommandIs DEF Shape
<1>4. ASSUME NEW n \in Machines
      PROVE  /\ mach'[n] \in MachineRecs(clusters)
             /\ mach'[n].have = mach[n].have /\ mach'[n].up = mach[n].up
             /\ mach'[n].data = mach[n].data
             /\ n # c[2] => mach'[n].boot = mach[n].boot
             /\ mach'[n].boot = "no" => mach[n].boot = "no"
  <2>1. PICK r : r = mach[n]
    OBVIOUS
  <2>2. r \in MachineRecs(clusters)
    BY <1>3, <2>1
  <2>3. mach'[n] = IF n = c[2] THEN [r EXCEPT !.boot = "failed"] ELSE r
    BY <1>1, <1>3, <2>1
  <2> QED BY <2>1, <2>2, <2>3 DEF MachineRecs
<1>5. mach' \in [Machines -> MachineRecs(clusters)]
  <2>1. mach' = [n \in Machines |-> mach'[n]]
    BY <1>1, <1>3
  <2> QED BY <1>4, <2>1
<1>6. AgentsTyped'
  BY <1>0, <1>1, <1>5, MayFaultTyped DEF Shape, AgentsTyped, Machines
<1>7. Waits'
  <2>1. \A w \in waiting : w[2] \in Machines
    BY <1>0 DEF Shape, Commands
  <2> QED BY <1>0, <1>1, <1>4, <2>1 DEF Waits
<1>8. waiting' \subseteq waiting \ {c}
  BY <1>1, NotWaiting
<1> QED BY <1>1, <1>2, <1>4, <1>6, <1>7, <1>8, AnswerKeeps

(* A command that is executed.                                                *)
Performs(c, x, env, strict, bad) ==
  /\ strict \in BOOLEAN /\ bad \in Nat
  /\ x = Work(c[1], c[2], bad, strict)
  /\ env = Env(c[2], strict)
  /\ Takes(c, x)
  /\ mach[c[2]].boot # "failed"
  /\ CanTake(c)
  /\ faults' \in 0 .. MaxFaults
  /\ IF bad = 0 THEN UNCHANGED faults ELSE MayFault
  /\ UNCHANGED <<cfg, plan, status, tries, state, result>>
  /\ \/ /\ c[1] = "configure_etcd" /\ x.err = "none"
        /\ waiting' = waiting \cup {c} /\ UNCHANGED <<live, stale, todo, failing>>
     \/ Answers(c, x.err) /\ waiting' = waiting

LEMMA PerformIs ==
  ASSUME Control, NEW c \in live \cup stale, Perform(c)
  PROVE  \E x, env, strict, bad : Performs(c, x, env, strict, bad)
<1>0. Shape
  BY DEF Control
<1>1. PICK strict \in BOOLEAN : \E bad \in 0 .. Len(Script(cfg, c[1], c[2], Env(c[2], strict))) :
         /\ IF bad = 0 THEN UNCHANGED faults ELSE MayFault
         /\ \E x \in {Work(c[1], c[2], bad, strict)} :
              /\ Takes(c, x)
              /\ IF c[1] = "configure_etcd" /\ x.err = "none"
                   THEN waiting' = waiting \cup {c} /\ UNCHANGED <<live, stale, todo, failing>>
                   ELSE Reports(c, x.err) /\ UNCHANGED waiting
  BY DEF Perform
<1>2. PICK bad \in 0 .. Len(Script(cfg, c[1], c[2], Env(c[2], strict))) :
         /\ IF bad = 0 THEN UNCHANGED faults ELSE MayFault
         /\ \E x \in {Work(c[1], c[2], bad, strict)} :
              /\ Takes(c, x)
              /\ IF c[1] = "configure_etcd" /\ x.err = "none"
                   THEN waiting' = waiting \cup {c} /\ UNCHANGED <<live, stale, todo, failing>>
                   ELSE Reports(c, x.err) /\ UNCHANGED waiting
  BY <1>1
<1>3. bad \in Nat
  OBVIOUS
<1>4. PICK x : /\ x = Work(c[1], c[2], bad, strict) /\ Takes(c, x)
               /\ IF c[1] = "configure_etcd" /\ x.err = "none"
                    THEN waiting' = waiting \cup {c} /\ UNCHANGED <<live, stale, todo, failing>>
                    ELSE Reports(c, x.err) /\ UNCHANGED waiting
  BY <1>2
<1>5. faults' \in 0 .. MaxFaults
  BY <1>0, <1>2, MayFaultTyped
<1>6. /\ CanTake(c) /\ mach[c[2]].boot # "failed"
      /\ UNCHANGED <<cfg, plan, status, tries, state, result>>
  BY DEF Perform, Bootstrapped
<1>7. Performs(c, x, Env(c[2], strict), strict, bad)
  BY <1>2, <1>3, <1>4, <1>5, <1>6 DEF Performs, Answers
<1> QED BY <1>7

LEMMA PerformKeeps ==
  ASSUME Control, NEW c \in live \cup stale, NEW x, NEW env, NEW strict, NEW bad,
         Performs(c, x, env, strict, bad)
  PROVE  Control'
<1>0. Shape /\ Waves /\ Sent /\ Waits /\ InTurn
  BY DEF Control
<1>1. /\ strict \in BOOLEAN /\ bad \in Nat /\ Takes(c, x) /\ CanTake(c)
      /\ x = Work(c[1], c[2], bad, strict) /\ env = Env(c[2], strict)
      /\ UNCHANGED <<cfg, plan, status, tries, state, result>>
      /\ faults' \in 0 .. MaxFaults
  BY DEF Performs
<1>2. x \in Outcomes(clusters + 1) /\ (c[1] = "configure_etcd" /\ x.err = "none" => "etcd" \in x.up)
  BY <1>1, WorkIs
<1>3. AgentsTyped'
  BY <1>1, <1>2, TakesIs DEF AgentsTyped, Machines
<1>4. \A w \in waiting : w[2] \in Machines \ {c[2]}
  BY <1>0, <1>1, NotWaiting DEF Shape, Commands
<1>5. \A w \in waiting : mach'[w[2]].up = mach[w[2]].up /\ mach'[w[2]].boot = mach[w[2]].boot
  BY <1>1, <1>2, <1>4, TakesIs
<1>6. CASE Answers(c, x.err) /\ waiting' = waiting
  <2>1. Waits'
    BY <1>0, <1>5, <1>6 DEF Waits
  <2>2. waiting' \subseteq waiting \ {c}
    BY <1>1, <1>6, NotWaiting
  <2> QED BY <1>1, <1>3, <1>6, <2>1, <2>2, AnswerKeeps
<1>7. CASE /\ c[1] = "configure_etcd" /\ x.err = "none"
           /\ waiting' = waiting \cup {c} /\ UNCHANGED <<live, stale, todo, failing>>
  <2>1. Waits'
    <3>1. mach'[c[2]].up = x.up /\ mach'[c[2]].boot # "no"
      BY <1>1, <1>2, TakesIs
    <3> QED BY <1>0, <1>2, <1>5, <1>7, <3>1 DEF Waits
  <2>2. Shape'
    <3>1. \A st : In(st)' = In(st)
      BY <1>1 DEF In
    <3> QED BY <1>0, <1>1, <1>3, <1>7, <3>1 DEF Shape, AgentsTyped, Machines, Commands
  <2>3. Waves'
    BY <1>0, <1>1 DEF Waves, In
  <2>4. \A p : Served(p)' = Served(p) /\ (Fresh(p)' <=> Fresh(p))
    BY <1>1, <1>7, ServedKept DEF Awaited
  <2>5. Sent'
    BY <1>0, <1>1, <1>7, <2>4 DEF Sent
  <2>6. InTurn'
    BY <1>0, <1>1, <1>7, <2>4 DEF InTurn, In
  <2> QED BY <2>1, <2>2, <2>3, <2>5, <2>6 DEF Control
<1> QED BY <1>6, <1>7 DEF Performs

LEMMA ControlStep == Control /\ [Next]_vars => Control'
<1> SUFFICES ASSUME Control, [Next]_vars PROVE Control'
  OBVIOUS
<1>1. CASE StartWave
  BY <1>1, StartWaveKeeps
<1>2. ASSUME NEW p \in plan.phases, Finish(p) \/ Retry(p) \/ GiveUp(p) PROVE Control'
  BY <1>2, FinishKeeps, RetryKeeps, GiveUpKeeps
<1>3. CASE TearDown
  BY <1>3, TearDownKeeps
<1>4. ASSUME NEW c \in live \cup stale,
             Refuse(c) \/ EtcdHealthy(c) \/ EtcdTimesOut(c) \/ SendFails(c) \/ BootstrapFails(c)
             \/ Perform(c)
      PROVE  Control'
  <2>1. CASE Perform(c)
    <3>1. PICK x, env, strict, bad : Performs(c, x, env, strict, bad)
      BY <2>1, PerformIs
    <3> QED BY <3>1, PerformKeeps
  <2>2. CASE BootstrapFails(c)
    BY <2>2, BootstrapFailsIs
  <2>3. CASE Refuse(c) \/ EtcdHealthy(c) \/ EtcdTimesOut(c) \/ SendFails(c)
    BY <2>3, QuietActions
  <2> QED BY <1>4, <2>1, <2>2, <2>3
<1>5. CASE ServerPanics \/ ServerCrashes
  <2>1. result = "running"
    BY <1>5 DEF ServerPanics, ServerCrashes, Control, Waves
  <2>2. Resumes /\ faults' \in 0 .. MaxFaults
    BY <1>5, MayFaultTyped DEF ServerPanics, ServerCrashes, Control
  <2> QED BY <2>1, <2>2, ResumesKeeps
<1>6. CASE UNCHANGED vars
  <2>1. UNCHANGED <<cfg, plan, status, tries, todo, failing, live, stale, waiting, mach, known,
                    clusters, state, faults, mishaps, result>>
    BY <1>6 DEF vars, runVars, cmdVars, machVars
  <2>2. \A p : Served(p)' = Served(p) /\ (Fresh(p)' <=> Fresh(p))
    BY <2>1 DEF Served, Fresh
  <2>3. Shape' /\ Waves' /\ Waits'
    BY <2>1 DEF Control, Shape, Waves, Waits, In, Machines, Commands
  <2>4. Sent' /\ InTurn'
    BY <2>1, <2>2 DEF Control, Sent, InTurn, In
  <2> QED BY <2>3, <2>4 DEF Control
<1> QED BY <1>1, <1>2, <1>3, <1>4, <1>5, <1>6 DEF Next, Progress, Mishap, AtRest

(* What the phases do, and that they do not undo each other.                  *)
LEMMA ServedInAfter == ASSUME NEW p PROVE Served(p) \subseteq ToSet(plan.after[p])
BY DEF Served

LEMMA KindsApart ==
  ASSUME Shape
  PROVE  /\ "configure_patroni" \in plan.phases <=> NeedsPatroni(cfg)
         /\ NeedsPatroni(cfg) => cfg.kind = "postgres" /\ ToSet(plan.after["configure_db"]) = {}
         /\ "init_ydb_cluster" \in plan.phases => cfg.kind = "ydb" /\ NeedsYDBInit(cfg)
         /\ ~NeedsPatroni(cfg) => plan.after["configure_db"] = plan.ready.database
         /\ ~NeedsPatroni(cfg) /\ cfg.kind # "ydb" => plan.mode["configure_db"] = "sequence"
         /\ "init_ydb_cluster" \in plan.phases =>
              ToSet(plan.after["init_ydb_cluster"]) \subseteq {First}
<1>1. plan.phases = Phases(cfg) /\ "configure_db" \in plan.phases /\ cfg.kind \in Kinds
  BY PlanIs DEF AlwaysThere
<1>2. "configure_patroni" \in plan.phases <=> NeedsPatroni(cfg)
  BY <1>1 DEF Phases
<1>3. "init_ydb_cluster" \in plan.phases => NeedsYDBInit(cfg)
  BY <1>1 DEF Phases
<1>4. /\ plan.after["configure_db"] = IF NeedsPatroni(cfg) THEN <<>> ELSE plan.ready.database
      /\ plan.mode["configure_db"] = IF NeedsPatroni(cfg) THEN "all"
                                     ELSE IF cfg.kind = "ydb" THEN "each" ELSE "sequence"
  BY <1>1, PlanIs, Table
<1>5. ASSUME "init_ydb_cluster" \in plan.phases
      PROVE  ToSet(plan.after["init_ydb_cluster"]) \subseteq {First}
  <2>1. plan.after["init_ydb_cluster"] = UpTo(1, plan.ready.database)
    BY <1>1, <1>5, PlanIs, Table
  <2>2. PICK s : s = plan.ready.database
    OBVIOUS
  <2>3. s \in Seq(MachineNames)
    BY <2>2, PlanIs DEF RunStates
  <2>4. ToSet(UpTo(1, s)) \subseteq {s[1]}
    BY <2>3, UpToPart
  <2> QED BY <2>1, <2>2, <2>4 DEF First
<1>6. NeedsPatroni(cfg) => cfg.kind = "postgres"
  BY DEF NeedsPatroni
<1>7. NeedsYDBInit(cfg) => cfg.kind = "ydb"
  BY DEF NeedsYDBInit
<1> QED BY <1>2, <1>3, <1>4, <1>5, <1>6, <1>7 DEF ToSet

LEMMA ServicesApart ==
  ASSUME NEW c, c.kind \in Kinds, NEW p \in AllPhases, NEW q \in AllPhases, p # q,
         {p, q} # {"configure_db", "configure_patroni"}
  PROVE  Services(c, p) \cap Services(c, q) = {}
<1>1. \A r \in AllPhases :
        /\ r = "configure_db" => Services(c, r) = {Service(c.kind)}
        /\ r = "configure_etcd" => Services(c, r) = {"etcd"}
        /\ r = "configure_patroni" => Services(c, r) = {"patroni", "postgres"}
        /\ r = "configure_pgbouncer" => Services(c, r) = {"pgbouncer"}
        /\ r = "configure_proxy" => Services(c, r) = {ProxyService(c.kind)}
        /\ r = "configure_monitor" => Services(c, r) = {"node_exporter", "vmagent"}
        /\ r = "start_ydb_database" => Services(c, r) = {"ydbd-database"}
        /\ r \notin {"configure_db", "configure_etcd", "configure_patroni", "configure_pgbouncer",
                     "configure_proxy", "configure_monitor", "start_ydb_database"}
             => Services(c, r) = {}
  BY DEF Services
<1>2. Service(c.kind) \in {"postgres", "mysql", "picodata", "ydbd"}
  BY DEF Service, Kinds
<1>3. ProxyService(c.kind) \in {"proxysql", "haproxy"}
  BY DEF ProxyService
<1>4. ASSUME NEW r \in AllPhases, NEW s \in AllPhases, r = "configure_db", s # r,
             s # "configure_patroni"
      PROVE  Services(c, r) \cap Services(c, s) = {}
  BY <1>1, <1>2, <1>3, <1>4
<1>5. ASSUME NEW r \in AllPhases, NEW s \in AllPhases, r = "configure_proxy", s # r
      PROVE  Services(c, r) \cap Services(c, s) = {}
  BY <1>1, <1>2, <1>3, <1>5
<1>6. ASSUME p \notin {"configure_db", "configure_proxy"},
             q \notin {"configure_db", "configure_proxy"}
      PROVE  Services(c, p) \cap Services(c, q) = {}
  BY <1>1, <1>6
<1> QED BY <1>4, <1>5, <1>6

LEMMA PerformServed ==
  ASSUME Control, NEW c \in live \cup stale, NEW x, NEW env, NEW strict, NEW bad,
         Performs(c, x, env, strict, bad)
  PROVE  /\ \A q \in plan.phases \ {c[1]} : Served(q)' = Served(q)
         /\ Served(c[1])' \subseteq Served(c[1]) \cup {c[2]}
         /\ c[2] \in Served(c[1])' => x.err = "none"
<1>0. Shape /\ Sent
  BY DEF Control
<1>1. CASE UNCHANGED <<live, stale, todo, failing>> /\ x.err = "none"
  <2>1. UNCHANGED <<cfg, plan, status, state>>
    BY DEF Performs
  <2>2. \A q : Served(q)' = Served(q)
    BY <1>1, <2>1, ServedKept DEF Awaited
  <2> QED BY <1>1, <2>2
<1>2. CASE Answers(c, x.err)
  <2>1. CASE c \in stale
    <3>1. c[2] \notin Served(c[1])
      BY <1>0, <2>1 DEF Sent
    <3> QED BY <1>0, <1>2, <2>1, <3>1, AnswerServed
  <2>2. CASE c \notin stale
    BY <1>0, <1>2, <2>2, AnswerServed
  <2> QED BY <2>1, <2>2
<1> QED BY <1>1, <1>2 DEF Performs

(* The machines after the execution of a command, next to those before it.    *)
LEMMA PerformWorks ==
  ASSUME Control, NEW c \in live \cup stale, NEW x, NEW env, NEW strict, NEW bad,
         Performs(c, x, env, strict, bad)
  PROVE  /\ \A n \in Machines :
              /\ mach[n].have \subseteq mach'[n].have
              /\ n # c[2] => mach'[n].up = mach[n].up
              /\ mach[n].up \ Services(cfg, c[1]) \subseteq mach'[n].up
              /\ c[1] \notin DataPhases => mach'[n].data = mach[n].data
              /\ n # c[2] /\ c[1] # "init_ydb_cluster" => mach'[n].data = mach[n].data
         /\ "swallowed" \notin mishaps' =>
              "swallowed" \notin mishaps /\ "swallowed" \notin x.notes
         /\ "swallowed" \notin mishaps' /\ x.err = "none" => Success(cfg, c[1], env, x)
         /\ mach'[c[2]].have = x.have /\ mach'[c[2]].up = x.up /\ mach'[c[2]].data = x.data
         /\ known' = IF c[1] = "configure_patroni" /\ x.err = "none" THEN x.data ELSE known
         /\ (c[1] = "configure_db" /\ cfg.kind # "ydb" /\ env.first /\ ~env.group
             /\ mach[c[2]].data # 0) => x.data = mach[c[2]].data
         /\ c[1] = "init_ydb_cluster" /\ x.err = "none" =>
              \A n \in Databases : mach'[n].data = x.data
         /\ x.data \in Nat
<1>1. /\ strict \in BOOLEAN /\ bad \in Nat /\ Takes(c, x)
      /\ x = Work(c[1], c[2], bad, strict) /\ env = Env(c[2], strict)
  BY DEF Performs
<1>2. PICK machine : machine = mach[c[2]]
  OBVIOUS
<1>3. /\ x \in Outcomes(clusters + 1)
      /\ machine.have \subseteq x.have
      /\ machine.up \ Services(cfg, c[1]) \subseteq x.up
      /\ c[1] \notin DataPhases => x.data = machine.data
      /\ (c[1] = "configure_db" /\ cfg.kind # "ydb" /\ env.first /\ ~env.group
          /\ machine.data # 0) => x.data = machine.data
      /\ x.err = "none" /\ "swallowed" \notin x.notes => Success(cfg, c[1], env, x)
  <2>1. x \in Outcomes(clusters + 1)
    BY ONLY Control, c \in live \cup stale, <1>1, <1>2, WorkIs
  <2>2. Leaves(c[1], machine, x)
    BY ONLY Control, c \in live \cup stale, <1>1, <1>2, WorkIs
  <2>3. machine.have \subseteq x.have /\ machine.up \ Services(cfg, c[1]) \subseteq x.up
    BY <2>2 DEF Leaves
  <2>4. c[1] \notin DataPhases => x.data = machine.data
    BY ONLY Control, c \in live \cup stale, <1>1, <1>2, WorkIs
  <2>5. (c[1] = "configure_db" /\ cfg.kind # "ydb" /\ env.first /\ ~env.group
         /\ machine.data # 0) => x.data = machine.data
    BY ONLY Control, c \in live \cup stale, <1>1, <1>2, WorkIs
  <2>6. x.err = "none" /\ "swallowed" \notin x.notes => Success(cfg, c[1], env, x)
    BY ONLY Control, c \in live \cup stale, <1>1, <1>2, WorkIs
  <2> QED BY <2>1, <2>2, <2>3, <2>4, <2>5, <2>6
<1>4. /\ mishaps \cup x.notes \subseteq mishaps'
      /\ clusters' \in Nat /\ x.data \in 0 .. clusters'
      /\ mach'[c[2]].have = x.have /\ mach'[c[2]].up = x.up /\ mach'[c[2]].data = x.data
      /\ \A n \in Machines \ {c[2]} :
           /\ mach'[n].have = mach[n].have /\ mach'[n].up = mach[n].up
           /\ mach'[n].data = IF c[1] = "init_ydb_cluster" /\ x.err = "none" /\ n \in Databases
                                THEN x.data ELSE mach[n].data
      /\ known' = IF c[1] = "configure_patroni" /\ x.err = "none" THEN x.data ELSE known
  BY <1>1, <1>3, TakesIs
<1>5. \A n \in Machines :
        /\ mach[n].have \subseteq mach'[n].have
        /\ n # c[2] => mach'[n].up = mach[n].up
        /\ mach[n].up \ Services(cfg, c[1]) \subseteq mach'[n].up
        /\ c[1] \notin DataPhases => mach'[n].data = mach[n].data
        /\ n # c[2] /\ c[1] # "init_ydb_cluster" => mach'[n].data = mach[n].data
  BY <1>2, <1>3, <1>4 DEF DataPhases
<1>6. Databases \subseteq Machines
  <2>1. Shape /\ state = plan.ready
    BY CommandIs DEF Control
  <2> QED BY <2>1, DatabasesAre
<1> QED BY <1>2, <1>3, <1>4, <1>5, <1>6

LEMMA PerformEffects ==
  ASSUME Control, Effects, result = "running", NEW c \in live \cup stale, NEW x, NEW env,
         NEW strict, NEW bad, Performs(c, x, env, strict, bad), NoSwallowed',
         NEW q \in plan.phases, NEW n \in Served(q)'
  PROVE  Effect(q, n)'
<1>0. Shape /\ Waves /\ Sent /\ InTurn
  BY DEF Control
<1>u. UNCHANGED <<cfg, plan, status, state>>
  BY DEF Performs
<1>1. NoSwallowed /\ "swallowed" \notin mishaps' /\ "swallowed" \notin x.notes
  BY PerformWorks DEF NoSwallowed
<1>2. ~(q = c[1] /\ n = c[2]) => n \in Served(q) /\ Effect(q, n)
  <2>1. ~(q = c[1] /\ n = c[2]) => n \in Served(q)
    BY PerformServed
  <2> QED BY <1>1, <2>1 DEF Effects
<1>3. q = c[1] /\ n = c[2] => x.err = "none" /\ Success(cfg, c[1], env, x)
  BY <1>1, PerformServed, PerformWorks
<1>4. n \in ToSet(plan.after[q]) /\ n \in Machines
  <2>1. n \in ToSet(plan.after[q])
    <3>1. n \in ToSet(plan'.after[q])
      BY DEF Served
    <3> QED BY <1>u, <3>1
  <2> QED BY <1>0, <2>1, PlanIs
<1>5. /\ c[1] \in plan.phases /\ c[2] \in Machines /\ c[2] \in ToSet(plan.after[c[1]])
      /\ status[c[1]] # "done" /\ state = plan.ready
  BY CommandIs
<1>6. Software(cfg, q) \subseteq mach'[n].have
  <2>1. CASE q = c[1] /\ n = c[2]
    BY <1>3, <2>1, PerformWorks DEF Success
  <2>2. CASE ~(q = c[1] /\ n = c[2])
    BY <1>2, <1>4, <2>2, PerformWorks DEF Effect
  <2> QED BY <2>1, <2>2
<1>7. Services(cfg, q) \subseteq mach'[n].up
  <2>1. CASE q = c[1] /\ n = c[2]
    BY <1>3, <2>1, PerformWorks DEF Success
  <2>2. CASE n # c[2]
    BY <1>2, <1>4, <2>2, PerformWorks DEF Effect
  <2>3. CASE q # c[1]
    <3>1. {c[1], q} # {"configure_db", "configure_patroni"}
      BY <1>0, <1>4, <1>5, KindsApart
    <3>2. Services(cfg, c[1]) \cap Services(cfg, q) = {}
      BY <1>0, <1>5, <2>3, <3>1, ServicesApart, PlanIs
    <3>3. Services(cfg, q) \subseteq mach[n].up
      BY <1>2, <2>3 DEF Effect
    <3>4. mach[n].up \ Services(cfg, c[1]) \subseteq mach'[n].up
      BY <1>4, PerformWorks
    <3> QED BY <3>2, <3>3, <3>4
  <2> QED BY <2>1, <2>2, <2>3
<1>8. ASSUME q = "configure_patroni" PROVE mach'[n].data # 0 /\ mach'[n].data = known'
  <2>1. cfg.kind = "postgres" /\ "init_ydb_cluster" \notin plan.phases
        /\ ToSet(plan.after["configure_db"]) = {}
    BY <1>0, <1>8, KindsApart
  <2>2. c[1] \notin {"configure_db", "init_ydb_cluster"}
    BY <1>5, <2>1
  <2>3. CASE q = c[1] /\ n = c[2]
    <3>1. x.data = IF env.known = 0 THEN env.fresh ELSE env.known
      BY <1>3, <1>8, <2>3 DEF Success
    <3>2. env.fresh # 0
      <4>1. strict \in BOOLEAN /\ env = Env(c[2], strict) /\ clusters \in Nat
        BY <1>0 DEF Performs, Shape
      <4>2. env.fresh = clusters + 1
        BY <1>0, <1>5, <4>1, EnvIs
      <4> QED BY <4>1, <4>2
    <3> QED BY <1>3, <1>8, <2>3, <3>1, <3>2, PerformWorks
  <2>4. CASE ~(q = c[1] /\ n = c[2])
    <3>1. mach[n].data # 0 /\ mach[n].data = known
      BY <1>2, <1>8, <2>4 DEF Effect
    <3>2. mach'[n].data = mach[n].data
      BY <1>4, <1>8, <2>2, <2>4, PerformWorks DEF DataPhases
    <3>3. known' = known
      <4>1. CASE c[1] = "configure_patroni" /\ x.err = "none"
        <5>1. x.data = IF env.known = 0 THEN env.fresh ELSE env.known
          BY <1>1, <4>1, PerformWorks DEF Success
        <5>2. env.known = known
          <6>1. strict \in BOOLEAN /\ env = Env(c[2], strict)
            BY DEF Performs
          <6> QED BY <1>0, <1>5, <6>1, EnvIs
        <5> QED BY <3>1, <4>1, <5>1, <5>2, PerformWorks
      <4>2. CASE ~(c[1] = "configure_patroni" /\ x.err = "none")
        BY <4>2, PerformWorks
      <4> QED BY <4>1, <4>2
    <3> QED BY <3>1, <3>2, <3>3
  <2> QED BY <2>3, <2>4
<1>9. ASSUME q = "configure_db", cfg.kind # "ydb" PROVE Founded(n)'
  <2>1. ~NeedsPatroni(cfg) /\ plan.mode[q] = "sequence" /\ plan.after[q] = plan.ready.database
    BY <1>0, <1>4, <1>9, KindsApart
  <2>2. c[1] \notin {"configure_patroni", "init_ydb_cluster"}
    BY <1>0, <1>5, <1>9, <2>1, KindsApart
  <2>3. (Orderly' <=> Orderly) /\ First' = First
    BY <1>u DEF Orderly, First
  <2>4. First \in Machines /\ Databases # {} /\ First \in Databases /\ plan.after[q] # <<>>
        /\ First = plan.after[q][1]
    <3>1. Databases = ToSet(plan.ready.database)
      BY <1>0, <1>5, DatabasesAre
    <3>2. Databases # {}
      BY <1>4, <2>1, <3>1
    <3> QED BY <1>0, <1>5, <2>1, <3>2, DatabasesAre DEF First
  <2> SUFFICES mach'[n].data # 0 /\ (Orderly => mach'[n].data = mach'[First].data)
    BY <2>3 DEF Founded
  <2>5. CASE c[1] # "configure_db"
    <3>1. mach'[n].data = mach[n].data /\ mach'[First].data = mach[First].data
      BY <1>4, <2>2, <2>4, <2>5, PerformWorks DEF DataPhases
    <3>2. Founded(n)
      BY <1>2, <1>9, <2>5 DEF Effect
    <3> QED BY <3>1, <3>2 DEF Founded
  <2>6. /\ env.first <=> c[2] = First
        /\ env.group <=> "group" \in cfg.features
        /\ env.peer # 0 => env.peer = mach[First].data
    <3>1. strict \in BOOLEAN /\ env = Env(c[2], strict)
      BY DEF Performs
    <3> QED BY <1>0, <1>5, <2>4, <3>1, EnvIs
  <2>7. CASE c[1] = "configure_db" /\ c[2] # First
    <3>1. mach'[First].data = mach[First].data
      BY <2>4, <2>7, PerformWorks
    <3>2. CASE n = c[2]
      <4>1. x.data = env.peer /\ env.peer # 0
        BY <1>3, <1>9, <2>6, <2>7, <3>2 DEF Success
      <4>2. mach'[n].data = x.data
        BY <3>2, PerformWorks
      <4> QED BY <2>6, <3>1, <4>1, <4>2
    <3>3. CASE n # c[2]
      <4>1. Founded(n)
        BY <1>2, <1>9, <3>3 DEF Effect
      <4>2. mach'[n].data = mach[n].data
        BY <1>4, <2>7, <3>3, PerformWorks
      <4> QED BY <3>1, <4>1, <4>2 DEF Founded
    <3> QED BY <3>2, <3>3
  <2>8. CASE c[1] = "configure_db" /\ c[2] = First
    <3>1. CASE n = c[2]
      <4>1. x.data # 0
        BY <1>3, <1>9, <2>6, <2>8, <3>1 DEF Success
      <4> QED BY <2>8, <3>1, <4>1, PerformWorks
    <3>2. CASE n # c[2]
      <4>1. n \in Served(q) /\ Founded(n)
        BY <1>2, <1>9, <3>2 DEF Effect
      <4>2. mach'[n].data = mach[n].data
        BY <1>4, <2>8, <3>2, PerformWorks
      <4>3. ASSUME "group" \notin cfg.features PROVE mach'[First].data = mach[First].data
        <5>1. mach[First].data # 0
          BY <4>1, <4>3 DEF Founded, Orderly
        <5> QED BY <1>9, <2>6, <2>8, <4>3, <5>1, PerformWorks
      <4>4. ASSUME "group" \in cfg.features, Orderly PROVE FALSE
        <5>1. IsInjective(plan.after[q])
          BY <2>1, <4>4 DEF Orderly
        <5>2. /\ status[q] = "running" /\ q \notin failing /\ ~Fresh(q)
              /\ ~Panics(cfg, state, q)
          BY <1>5, <1>9, <2>8, <4>1 DEF Served
        <5>3. First \in Served(q)
          BY <1>4, <2>1, <2>4, <5>2, DatabasesAre, <1>0, <1>5 DEF Served
        <5>4. c \notin stale
          BY <1>0, <1>9, <2>8, <5>3 DEF Sent
        <5>5. c \in live
          BY <5>4
        <5>6. q \in In({"running"}) \ failing
          BY <5>2 DEF In
        <5>7. plan.after[q][1] \notin {d[2] : d \in {e \in live : e[1] = q}}
          BY <1>0, <2>1, <2>4, <5>1, <5>2, <5>6 DEF InTurn
        <5> QED BY <1>9, <2>4, <2>8, <5>5, <5>7
      <4> QED BY <4>1, <4>2, <4>3, <4>4 DEF Founded
    <3> QED BY <3>1, <3>2
  <2> QED BY <2>5, <2>7, <2>8
<1>10. ASSUME q = "init_ydb_cluster", NEW d \in ToSet(plan.ready.database)
       PROVE  Founded(d)'
  <2>1. cfg.kind = "ydb" /\ "configure_patroni" \notin plan.phases
        /\ ToSet(plan.after[q]) \subseteq {First}
    BY <1>0, <1>10, KindsApart DEF NeedsPatroni
  <2>2. /\ Databases = ToSet(plan.ready.database)
        /\ First \in Databases /\ Databases \subseteq Machines
    BY <1>0, <1>5, <1>10, DatabasesAre
  <2>3. (Orderly' <=> Orderly) /\ First' = First
    BY <1>u DEF Orderly, First
  <2> SUFFICES mach'[d].data # 0 /\ (Orderly => mach'[d].data = mach'[First].data)
    BY <2>3 DEF Founded
  <2>4. c[1] # "configure_db"
    <3>1. status[q] \in {"running", "done"}
      <4>1. status'[q] \in {"running", "done"}
        BY DEF Served
      <4> QED BY <1>u, <4>1
    <3>2. plan.deps[q] \subseteq In({"done"})
      BY <1>0, <1>10, <3>1 DEF Waves, In
    <3>3. plan.deps[q] = {"configure_db"}
      <4>1. DepsOf(cfg, "init_ydb_cluster") = {"configure_db"}
        BY DEF DepsOf, DatabaseDeps, Installs
      <4> QED BY <1>0, <1>10, <4>1, PlanIs
    <3> QED BY <1>5, <3>2, <3>3 DEF In
  <2>5. CASE c[1] = "init_ydb_cluster"
    <3>1. n = First /\ c[2] = First
      BY <1>4, <1>5, <1>10, <2>1, <2>5
    <3>2. x.err = "none" /\ x.data = env.fresh
      BY <1>3, <1>10, <2>5, <3>1 DEF Success
    <3>3. env.fresh # 0
      <4>1. strict \in BOOLEAN /\ env = Env(c[2], strict) /\ clusters \in Nat
        BY <1>0 DEF Performs, Shape
      <4>2. env.fresh = clusters + 1
        BY <1>0, <1>5, <4>1, EnvIs
      <4> QED BY <4>1, <4>2
    <3>4. \A e \in Databases : mach'[e].data = x.data
      BY <2>5, <3>2, PerformWorks
    <3> QED BY <2>2, <3>2, <3>3, <3>4
  <2>6. CASE c[1] # "init_ydb_cluster"
    <3>1. c[1] \notin DataPhases
      BY <1>5, <2>1, <2>4, <2>6 DEF DataPhases
    <3>2. mach'[d].data = mach[d].data /\ mach'[First].data = mach[First].data
      BY <2>2, <3>1, PerformWorks
    <3>3. Founded(d)
      BY <1>2, <1>10, <2>6 DEF Effect
    <3> QED BY <3>2, <3>3 DEF Founded
  <2> QED BY <2>5, <2>6
<1> QED BY <1>6, <1>7, <1>8, <1>9, <1>10, <1>u DEF Effect

--------------------------------------------------------------------------------
(* What the steps do to the effects of the phases.                            *)

Undisturbed ==
  /\ UNCHANGED <<cfg, plan, known>>
  /\ mishaps \subseteq mishaps'
  /\ \A n \in Machines : /\ mach'[n].have = mach[n].have /\ mach'[n].up = mach[n].up
                         /\ mach'[n].data = mach[n].data

Fewer == \A q \in plan.phases : Served(q)' \subseteq Served(q)

NoneLeft == plan' = plan /\ \A q \in plan.phases : Served(q)' = {}

(* A step with which the run ends, one that leaves the machines as they are   *)
(* and serves no more of them, or one of an agent.                            *)
LEMMA StepIs ==
  ASSUME Control, [Next]_vars
  PROVE  \/ result' # "running"
         \/ result = "running" /\ NoneLeft
         \/ result = "running" /\ Undisturbed /\ Fewer /\ mach' = mach
         \/ \E c \in live \cup stale :
              \/ BootstrapFails(c)
              \/ EtcdHealthy(c)
              \/ \E x, env, strict, bad : Performs(c, x, env, strict, bad)
<1>0. Shape /\ Waves /\ Sent /\ Waits
  BY DEF Control
<1>1. CASE StartWave
  <2>1. Starts(Ready) /\ result = "running"
        /\ UNCHANGED <<cfg, plan, mach, known, clusters, mishaps>>
    BY <1>1, StartWaveKeeps DEF StartWave, machVars
  <2>2. Fewer
    BY <1>0, <2>1, StartedServed DEF Fewer
  <2> QED BY <2>1, <2>2 DEF Undisturbed
<1>2. ASSUME NEW p \in plan.phases, Retry(p)
      PROVE  result' # "running" \/ (result = "running" /\ Undisturbed /\ Fewer /\ mach' = mach)
  <2>1. Starts({p}) /\ UNCHANGED <<cfg, plan, mach, known, clusters, mishaps, result>>
    BY <1>2, RetryKeeps DEF Retry, machVars
  <2>2. Fewer
    BY <1>0, <2>1, StartedServed DEF Fewer
  <2> QED BY <2>1, <2>2 DEF Undisturbed
<1>3. ASSUME NEW p \in plan.phases, Finish(p)
      PROVE  \/ result = "running" /\ NoneLeft
             \/ result = "running" /\ Undisturbed /\ Fewer /\ mach' = mach
  <2>1. \A q \in plan.phases : Served(q)' = Served(q)
    BY <1>3, FinishServed
  <2>2. CASE p = "machines"
    <3>1. status["machines"] # "done" /\ result = "running" /\ plan' = plan
      BY <1>3, <2>2, FinishIs
    <3>2. \A q \in plan.phases : Served(q) = {}
      BY <1>0, <3>1, NoneServed
    <3> QED BY <2>1, <3>1, <3>2 DEF NoneLeft
  <2>3. CASE p # "machines"
    <3>1. result = "running" /\ UNCHANGED <<cfg, plan, mach, known, mishaps>>
      BY <1>3, <2>3, FinishIs
    <3> QED BY <2>1, <3>1 DEF Undisturbed, Fewer
  <2> QED BY <2>2, <2>3
<1>4. ASSUME NEW p \in plan.phases, GiveUp(p)
      PROVE  result' # "running" \/ (result = "running" /\ Undisturbed /\ Fewer /\ mach' = mach)
  <2>1. \A q \in plan.phases : Served(q)' = Served(q)
    BY <1>4, GiveUpKeeps
  <2>2. UNCHANGED <<cfg, plan, mach, known, mishaps, result>>
    BY <1>4 DEF GiveUp, machVars
  <2> QED BY <2>1, <2>2 DEF Undisturbed, Fewer
<1>5. CASE TearDown
  BY <1>5, TearDownKeeps
<1>6. ASSUME NEW c \in live \cup stale, Refuse(c) \/ EtcdTimesOut(c) \/ SendFails(c)
      PROVE  result' # "running" \/ (result = "running" /\ Undisturbed /\ Fewer /\ mach' = mach)
  <2>1. Reports(c, "fault") /\ UNCHANGED <<cfg, plan, state, status, mach, known, result>>
        /\ mishaps \subseteq mishaps'
    <3>1. CASE Refuse(c)
      BY <3>1 DEF Refuse, machVars
    <3>2. CASE EtcdTimesOut(c)
      BY <3>2 DEF EtcdTimesOut, machVars
    <3>3. CASE SendFails(c)
      BY <3>3 DEF SendFails, machVars
    <3> QED BY <1>6, <3>1, <3>2, <3>3
  <2>2. Answers(c, "fault")
    BY <2>1 DEF Answers
  <2>3. c[1] \in plan.phases
    BY CommandIs
  <2>4. Fewer
    <3>1. \A q \in plan.phases \ {c[1]} : Served(q)' = Served(q)
      BY <1>0, <2>2, AnswerServed
    <3>2. Served(c[1])' \subseteq Served(c[1])
      BY <1>0, <2>2, AnswerServed
    <3> QED BY <3>1, <3>2 DEF Fewer
  <2> QED BY <2>1, <2>4 DEF Undisturbed
<1>7. ASSUME NEW c \in live \cup stale, Perform(c)
      PROVE  \E x, env, strict, bad : Performs(c, x, env, strict, bad)
  BY <1>7, PerformIs
<1>8. CASE ServerPanics \/ ServerCrashes
  <2>1. result = "running"
    BY <1>0, <1>8 DEF ServerPanics, ServerCrashes, Waves
  <2>2. Resumes /\ faults' \in 0 .. MaxFaults
    BY <1>0, <1>8, MayFaultTyped DEF ServerPanics, ServerCrashes
  <2> QED BY <2>1, <2>2, ResumesKeeps DEF Undisturbed, Fewer
<1>9. CASE UNCHANGED vars
  <2>1. UNCHANGED <<cfg, plan, status, tries, todo, failing, live, stale, waiting, mach, known,
                    clusters, state, faults, mishaps, result>>
    BY <1>9 DEF vars, runVars, cmdVars, machVars
  <2>2. \A p : Served(p)' = Served(p)
    BY <2>1 DEF Served, Fresh
  <2> QED BY <2>1, <2>2 DEF Undisturbed, Fewer
<1> QED BY <1>1, <1>2, <1>3, <1>4, <1>5, <1>6, <1>7, <1>8, <1>9
        DEF Next, Progress, Mishap, AtRest

LEMMA UndisturbedEffect ==
  ASSUME Shape, Undisturbed, NEW p \in plan.phases, NEW n \in ToSet(plan.after[p]), Effect(p, n)
  PROVE  Effect(p, n)'
<1>1. UNCHANGED <<cfg, plan, known>> /\ (Orderly' <=> Orderly) /\ First' = First
  BY DEF Undisturbed, Orderly, First
<1>2. n \in Machines
  BY PlanIs
<1>3. ASSUME NEW d \in ToSet(plan.ready.database), Founded(d) PROVE Founded(d)'
  <2>1. d \in Machines /\ First \in Machines
    <3>1. PICK st \in RunStates : st = plan.ready
      BY PlanIs
    <3>2. st.database \in Seq(MachineNames) /\ ToSet(st.database) \subseteq ToSet(AllTargets(st))
      BY <3>1, PartsOfAll
    <3>3. st.database # <<>>
      BY <1>3, <3>1 DEF ToSet
    <3>4. PICK s : s = st.database
      OBVIOUS
    <3>5. s[1] \in ToSet(s)
      BY <3>2, <3>3, <3>4, TailSet
    <3> QED BY <1>3, <3>1, <3>2, <3>4, <3>5, PlanIs DEF First
  <2> QED BY <1>1, <1>3, <2>1 DEF Founded, Undisturbed
<1>4. p = "configure_db" /\ cfg.kind # "ydb" => Founded(n)'
  <2>1. p = "configure_db" => n \in ToSet(plan.ready.database)
    BY KindsApart
  <2> QED BY <1>3, <2>1 DEF Effect
<1>5. p = "init_ydb_cluster" => \A d \in ToSet(plan.ready.database) : Founded(d)'
  BY <1>3 DEF Effect
<1> QED BY <1>1, <1>2, <1>4, <1>5 DEF Effect, Undisturbed

LEMMA EffectsStep == Control /\ Effects /\ [Next]_vars => Effects'
<1> SUFFICES ASSUME Control, Effects, [Next]_vars, result' = "running", NoSwallowed',
                    NEW q \in plan'.phases, NEW n \in Served(q)'
             PROVE  Effect(q, n)'
  BY DEF Effects
<1>0. Shape /\ Waves /\ Sent /\ Waits /\ Shape'
  BY ControlStep DEF Control
<1>1. CASE result = "running" /\ NoneLeft
  BY <1>1 DEF NoneLeft
<1>2. ASSUME result = "running", Undisturbed, q \in plan.phases, n \in Served(q)
      PROVE  Effect(q, n)'
  <2>1. Effect(q, n)
    BY <1>2 DEF Effects, NoSwallowed, Undisturbed
  <2> QED BY <1>0, <1>2, <2>1, UndisturbedEffect, ServedInAfter
<1>3. CASE result = "running" /\ Undisturbed /\ Fewer
  BY <1>2, <1>3 DEF Undisturbed, Fewer
<1>4. ASSUME NEW c \in live \cup stale, BootstrapFails(c) PROVE Effect(q, n)'
  <2>1. Answers(c, "fault") /\ result = "running" /\ Undisturbed
    BY <1>4, BootstrapFailsIs DEF Undisturbed, Answers
  <2>2. \A p \in plan.phases : Served(p)' \subseteq Served(p)
    BY <1>0, <2>1, AnswerServed
  <2> QED BY <1>2, <2>1, <2>2 DEF Undisturbed
<1>5. ASSUME NEW c \in live \cup stale, EtcdHealthy(c) PROVE Effect(q, n)'
  <2>1. Answers(c, "none") /\ c \in waiting /\ result = "running" /\ Undisturbed
    BY <1>5 DEF EtcdHealthy, machVars, Answers, Undisturbed
  <2>2. c[1] = "configure_etcd" /\ "etcd" \in mach[c[2]].up /\ c[1] \in plan.phases
        /\ c[2] \in ToSet(plan.after[c[1]])
    BY <1>0, <2>1, CommandIs DEF Waits
  <2>3. Effect(c[1], c[2])
    BY <2>2 DEF Effect, Software, Services
  <2>4. n \in Served(q) \/ (q = c[1] /\ n = c[2])
    BY <1>0, <2>1, AnswerServed DEF Undisturbed
  <2>5. Effect(c[1], c[2])'
    BY <1>0, <2>1, <2>2, <2>3, UndisturbedEffect
  <2> QED BY <1>2, <2>1, <2>4, <2>5 DEF Undisturbed
<1>6. ASSUME NEW c \in live \cup stale, NEW x, NEW env, NEW strict, NEW bad,
             Performs(c, x, env, strict, bad)
      PROVE  Effect(q, n)'
  <2>1. result = "running" /\ q \in plan.phases
    BY <1>6 DEF Performs
  <2> QED BY <1>6, <2>1, PerformEffects
<1> QED BY <1>1, <1>3, <1>4, <1>5, <1>6, StepIs

LEMMA BootedStep == Control /\ Booted /\ [Next]_vars => Booted'
<1> SUFFICES ASSUME Control, Booted, [Next]_vars, result' = "running",
                    NEW n \in Served("install_monitor")'
             PROVE  mach'[n].boot = "ok"
  BY DEF Booted
<1>0. Shape /\ Sent /\ Waits /\ "install_monitor" \in plan.phases
  BY PlanIs DEF Control, AlwaysThere
<1>1. CASE result = "running" /\ NoneLeft
  BY <1>0, <1>1 DEF NoneLeft
<1>2. CASE result = "running" /\ Fewer /\ mach' = mach
  BY <1>0, <1>2 DEF Fewer, Booted
<1>3. ASSUME NEW c \in live \cup stale, BootstrapFails(c) PROVE mach'[n].boot = "ok"
  <2>1. Answers(c, "fault") /\ result = "running" /\ mach[c[2]].boot = "no"
        /\ \A m \in Machines \ {c[2]} : mach'[m].boot = mach[m].boot
    BY <1>3, BootstrapFailsIs
  <2>2. n \in Served("install_monitor")
    BY <1>0, <2>1, AnswerServed
  <2>3. n \in Machines /\ mach[n].boot = "ok"
    BY <1>0, <2>1, <2>2, ServedInAfter, PlanIs DEF Booted
  <2> QED BY <2>1, <2>3
<1>4. ASSUME NEW c \in live \cup stale, EtcdHealthy(c) PROVE mach'[n].boot = "ok"
  <2>1. Answers(c, "none") /\ c \in waiting /\ result = "running" /\ mach' = mach
    BY <1>4 DEF EtcdHealthy, machVars, Answers
  <2>2. c[1] = "configure_etcd"
    BY <1>0, <2>1 DEF Waits
  <2>3. n \in Served("install_monitor")
    BY <1>0, <2>1, <2>2, AnswerServed
  <2> QED BY <2>1, <2>3 DEF Booted
<1>5. ASSUME NEW c \in live \cup stale, NEW x, NEW env, NEW strict, NEW bad,
             Performs(c, x, env, strict, bad)
      PROVE  mach'[n].boot = "ok"
  <2>1. result = "running" /\ mach[c[2]].boot # "failed" /\ c[2] \in Machines
    BY <1>5, CommandIs DEF Performs
  <2>2. n \in Served("install_monitor") \/ n = c[2]
    BY <1>0, <1>5, PerformServed
  <2>3. strict \in BOOLEAN /\ bad \in Nat /\ Takes(c, x) /\ x = Work(c[1], c[2], bad, strict)
        /\ env = Env(c[2], strict)
    BY <1>5 DEF Performs
  <2>4. x \in Outcomes(clusters + 1)
    BY <2>3, WorkIs
  <2>5. /\ mach'[c[2]].boot = IF mach[c[2]].boot = "no" THEN "ok" ELSE mach[c[2]].boot
        /\ \A m \in Machines \ {c[2]} : mach'[m].boot = mach[m].boot
    BY <2>3, <2>4, TakesIs
  <2>6. mach[c[2]].boot \in {"no", "ok", "failed"}
    BY <1>0, <2>1 DEF Shape, MachineRecs
  <2>7. CASE n = c[2]
    BY <2>1, <2>5, <2>6, <2>7
  <2>8. CASE n # c[2]
    <3>1. n \in Machines /\ mach[n].boot = "ok"
      BY <1>0, <2>1, <2>2, <2>8, ServedInAfter, PlanIs DEF Booted
    <3> QED BY <2>5, <2>8, <3>1
  <2> QED BY <2>7, <2>8
<1> QED BY <1>1, <1>2, <1>3, <1>4, <1>5, StepIs

LEMMA Invariant == Spec => [](Control /\ Effects /\ Booted)
<1>1. Control /\ Effects /\ Booted /\ [Next]_vars => (Control /\ Effects /\ Booted)'
  BY ControlStep, EffectsStep, BootedStep
<1> QED BY <1>1, ControlInit, PTL DEF Spec
--------------------------------------------------------------------------------
(* What follows from the invariant.                                           *)

(* While the workload runs, all phases before it are done.                    *)
LEMMA AllBefore ==
  ASSUME Shape, Waves, status["run_stroppy"] \in {"running", "done"},
         NEW p \in plan.phases \ {"run_stroppy", "teardown"}
  PROVE  status[p] = "done" /\ Served(p) = ToSet(plan.after[p])
<1> DEFINE D == In({"done"}) \cup {"run_stroppy"}
<1>1. "run_stroppy" \in plan.phases /\ plan.phases = Phases(cfg)
  BY PlanIs DEF AlwaysThere
<1>2. \A q \in (Phases(cfg) \cap D) \ {"teardown"} : DepsOf(cfg, q) \subseteq D
  BY <1>1, PlanIs DEF Waves, In
<1>3. "run_stroppy" \in D
  OBVIOUS
<1>4. Phases(cfg) \ {"teardown"} \subseteq D
  <2> HIDE DEF D
  <2> QED BY <1>2, <1>3, WorkloadLast
<1>5. status[p] = "done"
  BY <1>1, <1>4 DEF In
<1> QED BY <1>5 DEF Served

LEMMA DoneEffect ==
  ASSUME Effects, result = "running", NoSwallowed, NEW p \in plan.phases, status[p] = "done",
         NEW m \in ToSet(plan.after[p])
  PROVE  Effect(p, m)
BY DEF Effects, Served

(* A configuration whose list of machines has what its features ask for, or   *)
(* with which the database task panics.                                       *)
Complete(c) ==
  /\ TargetsOfRole(c, "database") # <<>> \/ Panics(c, Provisioned(c), "configure_db")
  /\ TargetsOfRole(c, "proxy") # <<>> /\ c.kind # "picodata" => NeedsProxy(c)
  /\ "group" \in c.features => IsInjective(TargetsOfRole(c, "database"))

LEMMA ReadyIsComplete ==
  ASSUME Shape, Waves, Complete(cfg), status["configure_db"] = "done"
  PROVE  /\ plan.ready.database # <<>> /\ Orderly
         /\ plan.ready.proxy # <<>> /\ cfg.kind # "picodata" => NeedsProxy(cfg)
         /\ plan.ready.endpoint = EndpointOf(cfg, plan.ready.database, plan.ready.proxy)
         /\ ~NeedsPatroni(cfg) => HasTopology(cfg)
<1>1. plan.ready = Provisioned(cfg) /\ "configure_db" \in plan.phases
  BY PlanIs DEF AlwaysThere
<1>2. /\ plan.ready.database = TargetsOfRole(cfg, "database")
      /\ plan.ready.proxy = TargetsOfRole(cfg, "proxy")
      /\ plan.ready.endpoint = EndpointOf(cfg, plan.ready.database, plan.ready.proxy)
  BY <1>1 DEF Provisioned
<1>3. ~Panics(cfg, plan.ready, "configure_db")
  BY <1>1 DEF Waves, In
<1>4. ~NeedsPatroni(cfg) => HasTopology(cfg)
  BY <1>3 DEF Panics, IsNoop
<1> QED BY <1>1, <1>2, <1>3, <1>4 DEF Complete, Orderly

(* Every database machine is in the one cluster that its phases form.         *)
LEMMA DatabaseServed ==
  ASSUME Control, Effects, result = "running", NoSwallowed, Complete(cfg),
         status["run_stroppy"] = "running", NEW d \in ToSet(plan.ready.database)
  PROVE  /\ Service(cfg.kind) \in mach[d].up
         /\ mach[d].data # 0 /\ mach[d].data = mach[First].data
<1>0. /\ Shape /\ Waves /\ cfg.kind \in Kinds
      /\ "configure_db" \in plan.phases
  BY PlanIs DEF Control, AlwaysThere
<1>1. status["configure_db"] = "done"
  BY <1>0, AllBefore
<1>2. Orderly /\ (~NeedsPatroni(cfg) => HasTopology(cfg))
  BY <1>0, <1>1, ReadyIsComplete
<1>3. First \in ToSet(plan.ready.database)
  <2>1. PICK s : s = plan.ready.database
    OBVIOUS
  <2>2. s \in Seq(MachineNames) /\ s # <<>>
    BY <1>0, <2>1, PlanIs DEF RunStates, ToSet
  <2> QED BY <2>1, <2>2, TailSet DEF First
<1>4. CASE NeedsPatroni(cfg)
  <2>1. "configure_patroni" \in plan.phases /\ cfg.kind = "postgres"
    BY <1>0, <1>4, KindsApart
  <2>2. plan.after["configure_patroni"] = plan.ready.database
    <3>1. TargetsOf(cfg, plan.ready, "configure_patroni") = plan.ready.database
      BY <1>0, Table
    <3> QED BY <1>0, <2>1, <3>1, PlanIs
  <2>3. \A e \in ToSet(plan.ready.database) : Effect("configure_patroni", e)
    BY <1>0, <2>1, <2>2, AllBefore, DoneEffect
  <2>4. \A e \in ToSet(plan.ready.database) :
          "postgres" \in mach[e].up /\ mach[e].data # 0 /\ mach[e].data = known
    BY <2>3 DEF Effect, Services
  <2> QED BY <1>3, <2>1, <2>4 DEF Service
<1>5. CASE ~NeedsPatroni(cfg)
  <2>1. plan.after["configure_db"] = plan.ready.database
    BY <1>0, <1>5, KindsApart
  <2>2. Effect("configure_db", d)
    BY <1>0, <1>1, <2>1, DoneEffect
  <2>3. Service(cfg.kind) \in mach[d].up
    BY <2>2 DEF Effect, Services
  <2>4. CASE cfg.kind # "ydb"
    BY <1>2, <2>2, <2>3, <2>4 DEF Effect, Founded
  <2>5. CASE cfg.kind = "ydb"
    <3>1. "init_ydb_cluster" \in plan.phases
      BY <1>0, <1>2, <1>5, <2>5, PlanIs DEF Phases, NeedsYDBInit
    <3>2. First \in ToSet(plan.after["init_ydb_cluster"])
      <4>1. plan.after["init_ydb_cluster"] = UpTo(1, plan.ready.database)
        BY <1>0, <3>1, PlanIs, Table
      <4>2. PICK s : s = plan.ready.database
        OBVIOUS
      <4>3. s \in Seq(MachineNames) /\ s # <<>>
        BY <1>0, <4>2, PlanIs DEF RunStates, ToSet
      <4>4. s[1] \in ToSet(UpTo(1, s))
        BY <4>3, UpToPart
      <4> QED BY <4>1, <4>2, <4>4 DEF First
    <3>3. Effect("init_ydb_cluster", First)
      BY <1>0, <3>1, <3>2, AllBefore, DoneEffect
    <3>4. Founded(d)
      BY <3>3 DEF Effect
    <3> QED BY <1>2, <2>3, <3>4 DEF Founded
  <2> QED BY <2>4, <2>5
<1> QED BY <1>4, <1>5

(* And the phases that follow have been there too.                            *)
LEMMA AroundServed ==
  ASSUME Control, Effects, result = "running", NoSwallowed,
         status["run_stroppy"] = "running"
  PROVE  /\ \A d \in ToSet(plan.ready.database) :
              /\ NeedsPgBouncer(cfg) => "pgbouncer" \in mach[d].up
              /\ NeedsPatroni(cfg) => "patroni" \in mach[d].up
              /\ NeedsYDBInit(cfg) => "ydbd-database" \in mach[d].up
         /\ NeedsProxy(cfg) =>
              \A m \in ToSet(plan.ready.proxy) : ProxyService(cfg.kind) \in mach[m].up
         /\ \A m \in Machines : {"node_exporter", "vmagent"} \subseteq mach[m].up
<1>0. Shape /\ Waves /\ cfg.kind \in Kinds /\ plan.phases = Phases(cfg)
  BY PlanIs DEF Control
<1>1. ASSUME NEW p \in plan.phases \ {"run_stroppy", "teardown"},
             NEW m \in ToSet(TargetsOf(cfg, plan.ready, p))
      PROVE  Services(cfg, p) \subseteq mach[m].up
  <2>1. status[p] = "done" /\ m \in ToSet(plan.after[p])
    BY <1>0, <1>1, AllBefore, PlanIs
  <2> QED BY <2>1, DoneEffect DEF Effect
<1>2. ASSUME NEW d \in ToSet(plan.ready.database)
      PROVE  /\ NeedsPgBouncer(cfg) => "pgbouncer" \in mach[d].up
             /\ NeedsPatroni(cfg) => "patroni" \in mach[d].up
             /\ NeedsYDBInit(cfg) => "ydbd-database" \in mach[d].up
  <2>1. ASSUME NeedsPgBouncer(cfg) PROVE "pgbouncer" \in mach[d].up
    <3>1. "configure_pgbouncer" \in plan.phases
      BY <1>0, <2>1 DEF Phases
    <3>2. Services(cfg, "configure_pgbouncer") \subseteq mach[d].up
      BY <1>0, <1>1, <1>2, <3>1, Table
    <3> QED BY <3>2 DEF Services
  <2>2. ASSUME NeedsPatroni(cfg) PROVE "patroni" \in mach[d].up
    <3>1. "configure_patroni" \in plan.phases
      BY <1>0, <2>2 DEF Phases
    <3>2. Services(cfg, "configure_patroni") \subseteq mach[d].up
      BY <1>0, <1>1, <1>2, <3>1, Table
    <3> QED BY <3>2 DEF Services
  <2>3. ASSUME NeedsYDBInit(cfg) PROVE "ydbd-database" \in mach[d].up
    <3>1. "start_ydb_database" \in plan.phases
      BY <1>0, <2>3 DEF Phases
    <3>2. Services(cfg, "start_ydb_database") \subseteq mach[d].up
      BY <1>0, <1>1, <1>2, <3>1, Table
    <3> QED BY <3>2 DEF Services
  <2> QED BY <2>1, <2>2, <2>3
<1>3. ASSUME NeedsProxy(cfg), NEW m \in ToSet(plan.ready.proxy)
      PROVE  ProxyService(cfg.kind) \in mach[m].up
  <2>1. "configure_proxy" \in plan.phases
    BY <1>0, <1>3 DEF Phases
  <2>2. Services(cfg, "configure_proxy") \subseteq mach[m].up
    BY <1>0, <1>1, <1>3, <2>1, Table
  <2> QED BY <2>2 DEF Services
<1>4. ASSUME NEW m \in Machines PROVE {"node_exporter", "vmagent"} \subseteq mach[m].up
  <2>1. "configure_monitor" \in plan.phases /\ m \in ToSet(AllTargets(plan.ready))
    BY <1>0, PlanIs DEF Phases
  <2>2. Services(cfg, "configure_monitor") \subseteq mach[m].up
    BY <1>0, <1>1, <2>1, Table
  <2> QED BY <2>2 DEF Services
<1> QED BY <1>2, <1>3, <1>4

LEMMA ReadyForWorkload ==
  ASSUME Control, Effects, Complete(cfg)
  PROVE  WorkloadOnReadyCluster
<1> SUFFICES ASSUME status["run_stroppy"] = "running", NoSwallowed PROVE ClusterReady
  BY DEF WorkloadOnReadyCluster
<1>0. Shape /\ Waves /\ cfg.kind \in Kinds
      /\ {"run_stroppy", "configure_db", "machines"} \subseteq plan.phases
  BY PlanIs DEF Control, AlwaysThere
<1>1. result = "running"
  BY <1>0 DEF Waves, In
<1>2. state = plan.ready /\ status["configure_db"] = "done"
  BY <1>0, MachinesDone, AllBefore
<1>3. Databases = ToSet(plan.ready.database) /\ Fleet \subseteq Machines
  BY <1>0, <1>2, DatabasesAre DEF Fleet
<1>4. /\ plan.ready.database # <<>>
      /\ plan.ready.proxy # <<>> /\ cfg.kind # "picodata" => NeedsProxy(cfg)
      /\ plan.ready.endpoint = EndpointOf(cfg, plan.ready.database, plan.ready.proxy)
  BY <1>0, <1>2, ReadyIsComplete
<1>5. state.endpoint.service \in mach[state.endpoint.host].up
  <2>1. CASE plan.ready.proxy # <<>> /\ cfg.kind # "picodata"
    <3>1. plan.ready.proxy[1] \in ToSet(plan.ready.proxy)
      <4>1. PICK s : s = plan.ready.proxy
        OBVIOUS
      <4>2. s \in Seq(MachineNames)
        BY <1>0, <4>1, PlanIs DEF RunStates
      <4> QED BY <2>1, <4>1, <4>2, TailSet
    <3>2. ProxyService(cfg.kind) \in mach[plan.ready.proxy[1]].up
      BY <1>1, <1>4, <2>1, <3>1, AroundServed
    <3> QED BY <1>2, <1>4, <2>1, <3>2 DEF EndpointOf
  <2>2. CASE ~(plan.ready.proxy # <<>> /\ cfg.kind # "picodata")
    <3>1. First \in ToSet(plan.ready.database)
      BY <1>0, <1>2, <1>3, <1>4, DatabasesAre
    <3>2. Service(cfg.kind) \in mach[First].up
      BY <1>1, <3>1, DatabaseServed
    <3> QED BY <1>2, <1>4, <2>2, <3>2 DEF EndpointOf, First
  <2> QED BY <2>1, <2>2
<1>6. ASSUME NEW d \in Databases
      PROVE  /\ Service(cfg.kind) \in mach[d].up
             /\ mach[d].data # 0
             /\ mach[d].data = mach[state.database[1]].data
             /\ NeedsPgBouncer(cfg) => "pgbouncer" \in mach[d].up
             /\ NeedsPatroni(cfg) => "patroni" \in mach[d].up
             /\ NeedsYDBInit(cfg) => "ydbd-database" \in mach[d].up
  <2>1. First = state.database[1] /\ d \in ToSet(plan.ready.database)
    BY <1>2, <1>3 DEF First
  <2> QED BY <1>1, <2>1, AroundServed, DatabaseServed
<1>7. \A m \in Fleet : {"node_exporter", "vmagent"} \subseteq mach[m].up
  BY <1>1, <1>3, AroundServed
<1> QED BY <1>5, <1>6, <1>7 DEF ClusterReady

LEMMA BootedInTheEnd == Control /\ Booted => BootstrapFailureFailsRun
<1> SUFFICES ASSUME Control, Booted, status["run_stroppy"] = "done", result = "running",
                    NEW m \in Fleet
             PROVE  mach[m].boot = "ok"
  BY DEF BootstrapFailureFailsRun
<1>1. Shape /\ Waves /\ cfg.kind \in Kinds /\ "install_monitor" \in plan.phases
  BY PlanIs DEF Control, AlwaysThere
<1>2. Served("install_monitor") = ToSet(plan.after["install_monitor"])
  BY <1>1, AllBefore
<1>3. plan.after["install_monitor"] = AllTargets(plan.ready)
  BY <1>1, PlanIs, Table
<1>4. m \in ToSet(AllTargets(plan.ready))
  BY <1>1, PlanIs DEF Fleet
<1> QED BY <1>2, <1>3, <1>4 DEF Booted

--------------------------------------------------------------------------------
(* No script that is waited for misses anything.                              *)

(* The software that the script of a phase uses on its machines is installed. *)
LEMMA NoneMissing ==
  ASSUME Control, Effects, result = "running", NoSwallowed,
         NEW p \in plan.phases \cap WorkPhases, status[p] = "running",
         NEW m \in ToSet(plan.after[p])
  PROVE  Uses(cfg, p) \subseteq mach[m].have
<1>0. Shape /\ Waves /\ cfg.kind \in Kinds /\ plan.phases = Phases(cfg)
      /\ plan.deps[p] = DepsOf(cfg, p) /\ DepsOf(cfg, p) \subseteq plan.phases
      /\ plan.after[p] = TargetsOf(cfg, plan.ready, p)
  BY PlanIs DEF Control
<1>1. \A q \in DepsOf(cfg, p) : status[q] = "done"
  BY <1>0 DEF Waves, In, WorkPhases
<1>2. ASSUME NEW q \in plan.phases, status[q] = "done",
             m \in ToSet(TargetsOf(cfg, plan.ready, q))
      PROVE  Software(cfg, q) \subseteq mach[m].have
  <2>1. m \in ToSet(plan.after[q])
    BY <1>0, <1>2, PlanIs
  <2> QED BY <1>2, <2>1, DoneEffect DEF Effect
<1>3. ASSUME "configure_db" \in plan.phases, status["configure_db"] \in {"running", "done"},
             ~NeedsPatroni(cfg)
      PROVE  "install_db" \in plan.phases /\ status["install_db"] = "done"
  <2>1. "install_db" \in DepsOf(cfg, "configure_db")
    BY <1>3 DEF DepsOf, DatabaseDeps, ConfigDBDeps, Installs
  <2> QED BY <1>0, <1>3, <2>1, PlanIs DEF Waves, In
<1>4. ASSUME "install_db" \in plan.phases, status["install_db"] = "done",
             m \in ToSet(plan.ready.database)
      PROVE  cfg.kind \in mach[m].have
  <2>1. Software(cfg, "install_db") \subseteq mach[m].have
    BY <1>0, <1>2, <1>4, Table
  <2> QED BY <2>1 DEF Software
<1>5. CASE p = "configure_db"
  <2>1. ~NeedsPatroni(cfg) /\ m \in ToSet(plan.ready.database)
    BY <1>0, <1>5, KindsApart
  <2> QED BY <1>3, <1>4, <1>5, <2>1 DEF Uses
<1>6. CASE p = "configure_etcd"
  <2>1. "install_etcd" \in DepsOf(cfg, p)
    BY <1>6 DEF DepsOf, DatabaseDeps, Installs
  <2>2. m \in ToSet(TargetsOf(cfg, plan.ready, "install_etcd"))
    BY <1>0, <1>6, Table
  <2>3. Software(cfg, "install_etcd") \subseteq mach[m].have
    BY <1>0, <1>1, <1>2, <2>1, <2>2
  <2> QED BY <1>6, <2>3 DEF Software, Uses
<1>7. CASE p = "configure_patroni"
  <2>1. {"install_patroni", "install_db"} \subseteq DepsOf(cfg, p) /\ cfg.kind = "postgres"
    BY <1>0, <1>7, KindsApart DEF DepsOf, DatabaseDeps, ConfigDBDeps, Installs
  <2>2. m \in ToSet(plan.ready.database)
    BY <1>0, <1>7, Table
  <2>3. m \in ToSet(TargetsOf(cfg, plan.ready, "install_patroni"))
    BY <1>0, <2>2, Table
  <2>4. Software(cfg, "install_patroni") \subseteq mach[m].have
    BY <1>0, <1>1, <1>2, <2>1, <2>3
  <2>5. "postgres" \in mach[m].have
    BY <1>0, <1>1, <1>4, <2>1, <2>2
  <2> QED BY <1>7, <2>4, <2>5 DEF Software, Uses
<1>8. CASE p = "configure_pgbouncer"
  <2>1. "install_pgbouncer" \in DepsOf(cfg, p)
    BY <1>8 DEF DepsOf, Installs
  <2>2. m \in ToSet(TargetsOf(cfg, plan.ready, "install_pgbouncer"))
    BY <1>0, <1>8, Table
  <2>3. Software(cfg, "install_pgbouncer") \subseteq mach[m].have
    BY <1>0, <1>1, <1>2, <2>1, <2>2
  <2> QED BY <1>8, <2>3 DEF Software, Uses
<1>9. CASE p = "configure_proxy"
  <2>1. "install_proxy" \in DepsOf(cfg, p)
    BY <1>9 DEF DepsOf, Installs
  <2>2. m \in ToSet(TargetsOf(cfg, plan.ready, "install_proxy"))
    BY <1>0, <1>9, Table
  <2>3. Software(cfg, "install_proxy") \subseteq mach[m].have
    BY <1>0, <1>1, <1>2, <2>1, <2>2
  <2> QED BY <1>9, <2>3 DEF Software, Uses
<1>10. CASE p = "configure_monitor"
  <2>1. "install_monitor" \in DepsOf(cfg, p)
    BY <1>10 DEF DepsOf, Installs
  <2>2. m \in ToSet(TargetsOf(cfg, plan.ready, "install_monitor"))
    BY <1>0, <1>10, Table
  <2>3. Software(cfg, "install_monitor") \subseteq mach[m].have
    BY <1>0, <1>1, <1>2, <2>1, <2>2
  <2> QED BY <1>10, <2>3 DEF Software, Uses
<1>11. CASE p = "run_stroppy"
  <2>1. "install_stroppy" \in DepsOf(cfg, p)
    BY <1>11 DEF DepsOf, Installs, RunStroppyDeps
  <2>2. m \in ToSet(TargetsOf(cfg, plan.ready, "install_stroppy"))
    BY <1>0, <1>11, Table
  <2>3. Software(cfg, "install_stroppy") \subseteq mach[m].have
    BY <1>0, <1>1, <1>2, <2>1, <2>2
  <2> QED BY <1>11, <2>3 DEF Software, Uses
<1>12. CASE p \in {"init_ydb_cluster", "start_ydb_database"}
  <2>1. NeedsYDBInit(cfg)
    BY <1>0, <1>12 DEF Phases
  <2>2. cfg.kind = "ydb" /\ ~NeedsPatroni(cfg)
    BY <2>1 DEF NeedsYDBInit, NeedsPatroni
  <2>3. "configure_db" \in plan.phases /\ status["configure_db"] = "done"
    <3>1. CASE p = "init_ydb_cluster"
      <4>1. "configure_db" \in DepsOf(cfg, p)
        BY <3>1 DEF DepsOf, DatabaseDeps, Installs
      <4> QED BY <1>0, <1>1, <4>1
    <3>2. CASE p = "start_ydb_database"
      <4>1. "init_ydb_cluster" \in DepsOf(cfg, p)
        BY <3>2 DEF DepsOf, DatabaseDeps, Installs
      <4>2. "init_ydb_cluster" \in plan.phases /\ status["init_ydb_cluster"] = "done"
        BY <1>0, <1>1, <4>1
      <4>3. "configure_db" \in DepsOf(cfg, "init_ydb_cluster")
        BY DEF DepsOf, DatabaseDeps, Installs
      <4> QED BY <1>0, <4>2, <4>3, PlanIs DEF Waves, In
    <3> QED BY <1>12, <3>1, <3>2
  <2>4. m \in ToSet(plan.ready.database)
    <3>1. p = "start_ydb_database" => plan.after[p] = plan.ready.database
      BY <1>0, Table
    <3>2. p = "init_ydb_cluster" => plan.after[p] = UpTo(1, plan.ready.database)
      BY <1>0, Table
    <3>3. PICK s : s = plan.ready.database
      OBVIOUS
    <3>4. s \in Seq(MachineNames)
      BY <1>0, <3>3, PlanIs DEF RunStates
    <3>5. ToSet(UpTo(1, s)) \subseteq ToSet(s)
      BY <3>4, UpToPart
    <3> QED BY <1>12, <3>1, <3>2, <3>3, <3>5
  <2>5. "ydb" \in mach[m].have
    BY <1>3, <1>4, <2>2, <2>3, <2>4
  <2> QED BY <1>12, <2>5 DEF Uses
<1>13. CASE p \in Installs
  BY <1>13 DEF Uses, Installs
<1> QED BY <1>5, <1>6, <1>7, <1>8, <1>9, <1>10, <1>11, <1>12, <1>13
        DEF WorkPhases, AllPhases, Installs

(* The first machine is a member by the time the others join it.              *)
LEMMA PeerThere ==
  ASSUME Control, Effects, result = "running", NoSwallowed,
         NEW c \in live, c[1] = "configure_db", cfg.kind # "ydb", c[2] # First
  PROVE  /\ First \in Databases
         /\ Service(cfg.kind) \in mach[First].up /\ mach[First].data # 0
<1>0. Shape /\ Sent
  BY DEF Control
<1>1. c[1] \in plan.phases /\ c[2] \in ToSet(plan.after[c[1]]) /\ state = plan.ready
  BY CommandIs
<1>2. plan.mode[c[1]] = "sequence" /\ plan.after[c[1]] = plan.ready.database
  BY <1>0, <1>1, KindsApart
<1>3. First \in Databases /\ First = plan.after[c[1]][1] /\ First \in ToSet(plan.after[c[1]])
  BY <1>0, <1>1, <1>2, DatabasesAre DEF First
<1>4. status[c[1]] = "running" /\ ~Panics(cfg, state, c[1]) /\ c[1] \notin failing
  BY <1>0, <1>2 DEF Sent
<1>5. ~Fresh(c[1])
  <2>1. c = <<c[1], c[2]>>
    BY CommandIs
  <2> QED BY <1>3, <2>1 DEF Fresh
<1>6. First \in Served(c[1])
  BY <1>2, <1>3, <1>4, <1>5 DEF Served
<1>7. Effect("configure_db", First)
  BY <1>1, <1>6 DEF Effects
<1> QED BY <1>3, <1>7 DEF Effect, Services, Founded

(* Etcd has its quorum once it runs on every machine that it was sent to.     *)
LEMMA AllVote ==
  ASSUME Control, state = plan.ready, "configure_etcd" \in plan.phases,
         plan.ready.database # <<>>,
         \A m \in ToSet(plan.after["configure_etcd"]) : "etcd" \in mach[m].up
  PROVE  EtcdQuorum
<1>0. Shape /\ cfg.kind \in Kinds /\ NeedsEtcd(cfg)
  BY PlanIs DEF Control, Phases
<1>1. PICK s : s = plan.ready.database
  OBVIOUS
<1>2. s \in Seq(MachineNames) /\ s # <<>>
  BY <1>0, <1>1, PlanIs DEF RunStates
<1>3. plan.after["configure_etcd"] = UpTo(3, s)
  BY <1>0, <1>1, PlanIs, Table
<1>4. EtcdHosts = ToSet(UpTo(3, s))
  BY <1>0, <1>3, StateIs DEF EtcdHosts
<1>5. {m \in EtcdHosts : "etcd" \in mach[m].up} = EtcdHosts
  BY <1>3, <1>4
<1>6. PICK t : t = UpTo(3, s)
  OBVIOUS
<1>7. t \in Seq(MachineNames) /\ s[1] \in ToSet(t)
  <2>1. PICK k \in Nat : k = 3
    OBVIOUS
  <2>e. PICK E : E = MachineNames
    OBVIOUS
  <2>2. s \in Seq(E) /\ s # <<>> /\ k # 0
    BY <1>2, <2>1, <2>e
  <2>3. UpTo(k, s) \in Seq(E)
    BY ONLY <2>2, UpToPart
  <2>4. s[1] \in ToSet(UpTo(k, s))
    BY ONLY <2>2, UpToPart
  <2> QED BY <1>6, <2>1, <2>e, <2>3, <2>4
<1>8. IsFiniteSet(ToSet(t))
  <2>1. Len(t) \in Nat /\ DOMAIN t = 1 .. Len(t)
    BY <1>7, LenProperties
  <2>2. IsFiniteSet(1 .. Len(t))
    BY <2>1, FS_Interval
  <2>3. t \in Surjection(1 .. Len(t), ToSet(t))
    BY <1>7, <2>1 DEF ToSet, Surjection
  <2> QED BY <2>2, <2>3, FS_Surjection
<1>9. Cardinality(ToSet(t)) \in Nat /\ Cardinality(ToSet(t)) # 0
  BY <1>7, <1>8, FS_CardinalityType, FS_EmptySet
<1>10. PICK n \in Nat : n = Cardinality(EtcdHosts) /\ n # 0
  BY <1>4, <1>6, <1>9
<1>11. 2 * n > n
  BY <1>10
<1> QED BY <1>5, <1>10, <1>11 DEF EtcdQuorum

(* So it is when Patroni looks for it.                                        *)
LEMMA QuorumThere ==
  ASSUME Control, Effects, result = "running", NoSwallowed, NeedsEtcd(cfg),
         NEW c \in live, c[1] = "configure_patroni"
  PROVE  EtcdQuorum
<1>0. Shape /\ Waves /\ Sent /\ cfg.kind \in Kinds /\ plan.phases = Phases(cfg)
  BY PlanIs DEF Control
<1>1. c[1] \in plan.phases /\ c[2] \in ToSet(plan.after[c[1]]) /\ state = plan.ready
  BY CommandIs
<1>2. "configure_etcd" \in plan.phases /\ status["configure_etcd"] = "done"
  <2>1. "configure_etcd" \in DepsOf(cfg, c[1]) /\ status[c[1]] = "running"
    BY <1>0 DEF DepsOf, DatabaseDeps, ConfigDBDeps, Installs, Sent
  <2> QED BY <1>0, <1>1, <2>1, PlanIs DEF Waves, In
<1>3. plan.ready.database # <<>>
  <2>1. plan.after[c[1]] = plan.ready.database
    BY <1>0, <1>1, PlanIs, Table
  <2> QED BY <1>1, <2>1 DEF ToSet
<1>4. \A m \in ToSet(plan.after["configure_etcd"]) : "etcd" \in mach[m].up
  <2>1. \A m \in ToSet(plan.after["configure_etcd"]) : Effect("configure_etcd", m)
    BY <1>2, DoneEffect
  <2> QED BY <2>1 DEF Effect, Services
<1> QED BY <1>1, <1>2, <1>3, <1>4, AllVote

LEMMA NeverAlone ==
  ASSUME Control, Effects, NoSwallowed, NEW c \in live, NEW strict \in BOOLEAN,
         NEW env, env = Env(c[2], strict)
  PROVE  ~Alone(cfg, c[1], env)
<1> SUFFICES ASSUME Alone(cfg, c[1], env) PROVE FALSE
  OBVIOUS
<1>0. /\ Shape /\ Waves /\ Sent /\ c \in live \cup stale
      /\ c[1] = "configure_db" /\ cfg.kind # "ydb" /\ ~env.first /\ env.peer = 0
  BY DEF Control, Alone
<1>1. /\ c[1] \in plan.phases \cap WorkPhases /\ c[2] \in Machines
      /\ c[2] \in ToSet(plan.after[c[1]]) /\ state = plan.ready
      /\ status[c[1]] = "running"
  BY <1>0, CommandIs DEF Sent
<1>2. result = "running"
  BY <1>0, <1>1 DEF Waves, In
<1>3. /\ env.first <=> Databases # {} /\ c[2] = First
      /\ env.peer = IF Databases # {} /\ Service(cfg.kind) \in mach[First].up
                      THEN mach[First].data ELSE 0
  BY <1>0, <1>1, EnvIs
<1>4. Databases # {}
  <2>1. plan.after[c[1]] = plan.ready.database
    BY <1>0, <1>1, KindsApart
  <2> QED BY <1>0, <1>1, <2>1, DatabasesAre
<1>5. c[2] # First
  BY <1>0, <1>3, <1>4
<1> QED BY <1>0, <1>1, <1>2, <1>3, <1>5, PeerThere

(* What the script of a command that is waited for turns to is there.         *)
LEMMA NeverMissing ==
  ASSUME Control, Effects, NoSwallowed, NeedsPatroni(cfg) => NeedsEtcd(cfg),
         NEW c \in live, NEW x, NEW env, NEW strict, NEW bad, Performs(c, x, env, strict, bad)
  PROVE  x.err # "missing"
<1> SUFFICES ASSUME x.err = "missing" PROVE FALSE
  OBVIOUS
<1>0. Shape /\ Waves /\ Sent /\ c \in live \cup stale
  BY DEF Control
<1>1. strict \in BOOLEAN /\ bad \in Nat /\ x = Work(c[1], c[2], bad, strict)
      /\ env = Env(c[2], strict)
  BY DEF Performs
<1>2. PICK machine : machine = mach[c[2]]
  OBVIOUS
<1>8. ~Alone(cfg, c[1], env)
  BY <1>1, NeverAlone
<1>3. \/ ~(Uses(cfg, c[1]) \subseteq machine.have)
      \/ c[1] = "configure_patroni" /\ ~env.quorum
      \/ c[1] = "init_ydb_cluster" /\ ~env.nodes
  BY ONLY Control, x.err = "missing", <1>0, <1>1, <1>2, <1>8, WorkIs
<1>4. /\ c[1] \in plan.phases \cap WorkPhases /\ c[2] \in Machines
      /\ c[2] \in ToSet(plan.after[c[1]]) /\ state = plan.ready
      /\ status[c[1]] = "running"
  BY <1>0, CommandIs DEF Sent
<1>5. result = "running"
  BY <1>0, <1>4 DEF Waves, In
<1>6. Uses(cfg, c[1]) \subseteq machine.have
  BY <1>2, <1>4, <1>5, NoneMissing
<1>7. /\ env.quorum <=> EtcdQuorum
      /\ env.nodes <=> \A d \in Databases : "ydbd" \in mach[d].up
  BY <1>0, <1>1, <1>4, EnvIs
<1>9. CASE c[1] = "configure_patroni" /\ ~env.quorum
  <2>1. NeedsEtcd(cfg)
    BY <1>0, <1>4, <1>9, KindsApart
  <2> QED BY <1>5, <1>7, <1>9, <2>1, QuorumThere
<1>10. CASE c[1] = "init_ydb_cluster" /\ ~env.nodes
  <2>1. /\ cfg.kind = "ydb" /\ ~NeedsPatroni(cfg) /\ Databases = ToSet(plan.ready.database)
        /\ "configure_db" \in plan.phases /\ plan.after["configure_db"] = plan.ready.database
    BY <1>0, <1>4, <1>10, KindsApart, DatabasesAre, PlanIs DEF AlwaysThere, NeedsPatroni
  <2>2. status["configure_db"] = "done"
    <3>1. "configure_db" \in DepsOf(cfg, c[1])
      BY <1>10 DEF DepsOf, DatabaseDeps, Installs
    <3> QED BY <1>0, <1>4, <3>1, PlanIs DEF Waves, In, WorkPhases
  <2>3. \A d \in Databases : Effect("configure_db", d)
    BY <1>5, <2>1, <2>2, DoneEffect
  <2>4. \A d \in Databases : "ydbd" \in mach[d].up
    BY <2>1, <2>3 DEF Effect, Services, Service
  <2> QED BY <1>7, <1>10, <2>4
<1> QED BY <1>3, <1>6, <1>9, <1>10

LEMMA MissingStep ==
  ASSUME NeedsPatroni(cfg) => NeedsEtcd(cfg)
  PROVE  Control /\ Effects /\ NothingMissing /\ [Next]_vars => NothingMissing'
<1> SUFFICES ASSUME Control, Effects, NothingMissing, [Next]_vars, NoSwallowed',
                    "missing" \in mishaps'
             PROVE  FALSE
  BY DEF NothingMissing
<1>1. NoSwallowed => "missing" \notin mishaps
  BY DEF NothingMissing
<1>2. ASSUME NEW c \in live \cup stale, Perform(c) PROVE FALSE
  <2>1. PICK x, env, strict, bad : Performs(c, x, env, strict, bad)
    BY <1>2, PerformIs
  <2>2. strict \in BOOLEAN /\ bad \in Nat /\ Takes(c, x) /\ x = Work(c[1], c[2], bad, strict)
    BY <2>1 DEF Performs
  <2>3. x \in Outcomes(clusters + 1)
    BY <2>2, WorkIs
  <2>4. /\ NoSwallowed
        /\ "missing" \in mishaps' => "missing" \in mishaps \/ (x.err = "missing" /\ c \notin stale)
    BY <2>2, <2>3, TakesIs DEF NoSwallowed
  <2>5. x.err = "missing" /\ c \in live
    BY <1>1, <2>4
  <2> QED BY <2>1, <2>4, <2>5, NeverMissing
<1>3. ASSUME mishaps' \in {mishaps, mishaps \cup {"fault"}} PROVE FALSE
  BY <1>1, <1>3 DEF NoSwallowed
<1>4. ASSUME NEW p \in plan.phases, Finish(p) \/ Retry(p) \/ GiveUp(p) PROVE mishaps' = mishaps
  BY <1>4 DEF Finish, Retry, GiveUp
<1>5. ASSUME NEW c \in live \cup stale,
             Refuse(c) \/ EtcdHealthy(c) \/ EtcdTimesOut(c) \/ SendFails(c) \/ BootstrapFails(c)
      PROVE  mishaps' \in {mishaps, mishaps \cup {"fault"}}
  BY <1>5 DEF Refuse, EtcdHealthy, EtcdTimesOut, SendFails, BootstrapFails
<1>6. CASE StartWave \/ TearDown \/ ServerPanics \/ ServerCrashes \/ UNCHANGED vars
  <2>1. mishaps' = mishaps
    BY <1>6 DEF StartWave, TearDown, ServerPanics, ServerCrashes, Resumes, vars
  <2> QED BY <1>3, <2>1
<1> QED BY <1>2, <1>3, <1>4, <1>5, <1>6 DEF Next, Progress, Mishap, AtRest

(* A run without faults.  A list of machines that names one twice has it      *)
(* configured twice; where that is an error, the configurations do not.       *)
NamedOnce(c) == IsInjective(Provisioned(c).database)

Fitted(c) ==
  /\ NeedsPatroni(c) => NeedsEtcd(c)
  /\ NeedsPatroni(c) \/ (c.kind = "mysql" /\ "group" \notin c.features) => NamedOnce(c)

Once(p) == plan.mode[p] = "sequence" => IsInjective(plan.after[p])

(* What a script minds on a machine shows that its phase has served it.       *)
Marked(u, p) ==
  \A m \in Machines : u \in mach[m].up => p \in plan.phases /\ m \in Served(p)

Traces ==
  /\ Marked("patroni", "configure_patroni")
  /\ Marked("pgbouncer", "configure_pgbouncer")
  /\ cfg.kind = "ydb" => Marked("ydbd", "configure_db")
  /\ cfg.kind = "mysql" /\ "group" \notin cfg.features =>
       \A m \in Machines : mach[m].data # 0 => m \in Served("configure_db")
  /\ cfg.kind = "ydb" =>
       \A m \in Machines : mach[m].data # 0 =>
          "init_ydb_cluster" \in plan.phases /\ First \in Served("init_ydb_cluster")
  /\ known # 0 => "configure_patroni" \in plan.phases /\ Served("configure_patroni") # {}

(* In a list without repetition a machine is not served twice.                *)
InLine ==
  \A p \in In({"running"}) \ failing :
    plan.mode[p] = "sequence" /\ IsInjective(plan.after[p]) =>
      IsInjective(todo[p]) /\ \A c \in live : c[1] = p => c[2] \notin ToSet(todo[p])

(* The tasks that may fail without a fault are those that find no machine.    *)
Lonely == {"init_ydb_cluster", "install_stroppy", "run_stroppy"}

Smooth ==
  /\ mishaps = {}
  /\ \A c \in stale : c[1] \in Installs
  /\ \A p \in failing : p \in Lonely /\ \A c \in live : c[1] # p
  /\ \A m \in Machines : mach[m].boot # "failed"
  /\ InLine
  /\ result = "running" => Traces

FirstPass == faults = 0 => Smooth

LEMMA OnceAre ==
  ASSUME Shape, Fitted(cfg)
  PROVE  /\ \A p \in {"configure_patroni", "configure_pgbouncer", "init_ydb_cluster"} :
              p \in plan.phases => Once(p)
         /\ cfg.kind = "ydb" \/ (cfg.kind = "mysql" /\ "group" \notin cfg.features) =>
              Once("configure_db")
<1>0. /\ cfg.kind \in Kinds /\ plan.ready.database = Provisioned(cfg).database
      /\ \A p \in plan.phases : plan.mode[p] = SendMode(cfg, p)
      /\ \A p \in plan.phases : plan.after[p] = TargetsOf(cfg, plan.ready, p)
      /\ "configure_db" \in plan.phases
  BY PlanIs DEF AlwaysThere
<1>1. ASSUME "configure_pgbouncer" \in plan.phases PROVE Once("configure_pgbouncer")
  BY <1>0, <1>1, Table DEF Once
<1>2. ASSUME "init_ydb_cluster" \in plan.phases PROVE Once("init_ydb_cluster")
  BY <1>0, <1>2, Table DEF Once
<1>3. ASSUME "configure_patroni" \in plan.phases PROVE Once("configure_patroni")
  <2>1. plan.after["configure_patroni"] = plan.ready.database
    BY <1>0, <1>3, Table
  <2>2. NeedsPatroni(cfg)
    BY <1>3, KindsApart
  <2> QED BY <1>0, <2>1, <2>2 DEF Once, Fitted, NamedOnce
<1>4. CASE cfg.kind = "ydb"
  <2>1. ~NeedsPatroni(cfg)
    BY <1>4 DEF NeedsPatroni
  <2>2. plan.mode["configure_db"] = "each"
    BY <1>0, <1>4, <2>1, Table
  <2> QED BY <1>1, <1>2, <1>3, <2>2 DEF Once
<1>5. CASE cfg.kind = "mysql" /\ "group" \notin cfg.features
  <2>1. ~NeedsPatroni(cfg)
    BY <1>5 DEF NeedsPatroni
  <2>2. plan.after["configure_db"] = plan.ready.database
    BY <2>1, KindsApart
  <2>3. IsInjective(plan.after["configure_db"])
    BY <1>0, <1>5, <2>2 DEF Fitted, NamedOnce
  <2> QED BY <1>1, <1>2, <1>3, <2>3 DEF Once
<1> QED BY <1>1, <1>2, <1>3, <1>4, <1>5

(* A machine that has its command has not been served.                        *)
LEMMA NotServed ==
  ASSUME Control, NEW c \in live, Once(c[1]), c[1] \notin failing
  PROVE  c[2] \notin Served(c[1])
<1>1. /\ c[1] \in plan.phases /\ c = <<c[1], c[2]>>
      /\ c[2] \in ToSet(plan.after[c[1]])
  BY CommandIs
<1>2. status[c[1]] = "running"
  BY DEF Control, Sent
<1>3. PICK p, m : p = c[1] /\ m = c[2]
  OBVIOUS
<1>4. p \in In({"running"}) \ failing /\ <<p, m>> \in live /\ plan.after[p] # <<>>
  BY <1>1, <1>2, <1>3 DEF In, ToSet
<1>5. plan.mode[p] = "sequence" =>
        \/ Fresh(p)
        \/ IsInjective(plan.after[p]) =>
             plan.after[p][1] \notin {d[2] : d \in {e \in live : e[1] = p}}
  BY <1>4 DEF Control, InTurn
<1>6. m \in {d[2] : d \in {e \in live : e[1] = p}}
  BY <1>3
<1>7. IsInjective(plan.after[p]) \/ plan.mode[p] # "sequence"
  BY <1>3 DEF Once
<1>8. m \notin Served(p)
  BY <1>2, <1>3, <1>4, <1>5, <1>6, <1>7 DEF Served
<1> QED BY <1>3, <1>8

LEMMA CleanWorkIs ==
  ASSUME Control, NEW c \in live \cup stale, NEW x, NEW env, NEW strict,
         Performs(c, x, env, strict, 0), ~Alone(cfg, c[1], env),
         NEW machine, machine = mach[c[2]]
  PROVE  Tidy(cfg, c[1], machine, env, x)
<1>0. Shape /\ x = Work(c[1], c[2], 0, strict) /\ env = Env(c[2], strict) /\ strict \in BOOLEAN
  BY DEF Control, Performs
<1>1. c[1] \in WorkPhases /\ c[2] \in Machines /\ state = plan.ready /\ cfg.kind \in Kinds
  BY <1>0, CommandIs, PlanIs
<1>2. PICK b \in Nat : b = clusters + 1
  BY <1>0 DEF Shape
<1>p. PICK p \in WorkPhases : p = c[1]
  BY <1>1
<1>m. PICK m, cc : m = c[2] /\ cc = cfg
  OBVIOUS
<1>3. env \in Envs(b)
  BY <1>0, <1>1, <1>2, EnvIs
<1>4. machine \in MachineRecs(b)
  <2>1. clusters \in Nat /\ mach[c[2]] \in MachineRecs(clusters)
    BY <1>0, <1>1 DEF Shape
  <2>2. clusters <= b
    BY <1>2, <2>1
  <2> QED BY <1>2, <2>1, <2>2, MoreClusters
<1>5. x = Executed(Script(cc, p, m, env), machine, env, 0)
  BY <1>0, <1>p, <1>m DEF Work
<1>6. cc.kind \in Kinds /\ ~Alone(cc, p, env)
  BY <1>1, <1>p, <1>m
<1>7. Tidy(cc, p, machine, env, x)
  BY ONLY <1>3, <1>4, <1>5, <1>6, b \in Nat, p \in WorkPhases, CleanWork
<1> QED BY <1>p, <1>m, <1>7

(* No script meets its own earlier work, and none clears what is in use.      *)
LEMMA NotAgain ==
  ASSUME Control, Effects, Smooth, Fitted(cfg), NEW c \in live, NEW strict \in BOOLEAN,
         NEW env, env = Env(c[2], strict), NEW machine, machine = mach[c[2]]
  PROVE  ~MetAgain(cfg, c[1], machine, env) /\ ~ClearedUnder(cfg, c[1], machine)
<1>0. Shape /\ Waves /\ Sent
  BY DEF Control
<1>1. /\ c[1] \in plan.phases /\ c[2] \in Machines /\ c[2] \in ToSet(plan.after[c[1]])
      /\ state = plan.ready
  BY CommandIs
<1>2. result = "running"
  <2>1. status[c[1]] = "running"
    BY <1>0 DEF Sent
  <2> QED BY <1>0, <1>1, <2>1 DEF Waves, In
<1>3. Traces /\ c[1] \notin failing /\ NoSwallowed
  BY <1>2 DEF Smooth, NoSwallowed
<1>4. Once(c[1]) => c[2] \notin Served(c[1])
  BY <1>3, NotServed
<1>5. env.group <=> "group" \in cfg.features
  BY <1>0, <1>1, EnvIs
<1>6. ASSUME c[1] = "configure_pgbouncer", "pgbouncer" \in machine.up PROVE FALSE
  BY <1>0, <1>1, <1>3, <1>4, <1>6, OnceAre DEF Traces, Marked
<1>7. ASSUME c[1] = "configure_db", cfg.kind = "mysql", ~env.group, machine.data # 0 PROVE FALSE
  BY <1>0, <1>1, <1>3, <1>4, <1>5, <1>7, OnceAre DEF Traces
<1>8. ASSUME c[1] = "configure_patroni", env.known # 0, ~env.member PROVE FALSE
  <2>1. env.known = known
        /\ (env.member <=> \E d \in Databases \ {c[2]} : known # 0 /\ mach[d].data = known)
    BY <1>0, <1>1, EnvIs
  <2>2. PICK d : d \in Served("configure_patroni")
    BY <1>3, <1>8, <2>1 DEF Traces
  <2>3. d # c[2]
    BY <1>0, <1>1, <1>4, <1>8, <2>2, OnceAre
  <2>4. mach[d].data = known
    BY <1>1, <1>2, <1>3, <1>8, <2>2 DEF Effects, Effect
  <2>5. plan.after["configure_patroni"] = plan.ready.database
    BY <1>0, <1>1, <1>8, PlanIs, Table
  <2>6. d \in Databases
    BY <1>0, <1>1, <2>2, <2>5, ServedInAfter, DatabasesAre
  <2> QED BY <1>8, <2>1, <2>3, <2>4, <2>6
<1>9. ASSUME c[1] = "init_ydb_cluster", machine.data # 0 PROVE FALSE
  <2>1. cfg.kind = "ydb" /\ c[2] = First
    BY <1>0, <1>1, <1>9, KindsApart
  <2>2. First \in Served("init_ydb_cluster")
    BY <1>1, <1>3, <1>9, <2>1 DEF Traces
  <2> QED BY <1>0, <1>1, <1>4, <1>9, <2>1, <2>2, OnceAre
<1>10. ~MetAgain(cfg, c[1], machine, env)
  BY <1>6, <1>7, <1>8, <1>9 DEF MetAgain
<1>11. ASSUME "patroni" \in machine.up PROVE c[1] # "configure_db" /\ c[1] # "configure_patroni"
  <2>1. "configure_patroni" \in plan.phases /\ c[2] \in Served("configure_patroni")
    BY <1>1, <1>3, <1>11 DEF Traces, Marked
  <2>2. c[1] # "configure_db"
    BY <1>0, <1>1, <2>1, KindsApart
  <2>3. c[1] # "configure_patroni"
    BY <1>0, <1>4, <2>1, OnceAre
  <2> QED BY <2>2, <2>3
<1>12. ASSUME c[1] = "configure_db", cfg.kind = "ydb", "ydbd" \in machine.up PROVE FALSE
  BY <1>0, <1>1, <1>3, <1>4, <1>12, OnceAre DEF Traces, Marked
<1>13. ~ClearedUnder(cfg, c[1], machine)
  BY <1>11, <1>12 DEF ClearedUnder
<1> QED BY <1>10, <1>13

LEMMA CleanPerform ==
  ASSUME Control, Effects, Smooth, Fitted(cfg), NEW c \in live \cup stale, NEW x, NEW env,
         NEW strict, Performs(c, x, env, strict, 0)
  PROVE  /\ x.err = "none" /\ x.notes = {} /\ mishaps' = {}
         /\ ~Alone(cfg, c[1], env)
<1>0. Shape /\ x = Work(c[1], c[2], 0, strict) /\ env = Env(c[2], strict) /\ strict \in BOOLEAN
      /\ Takes(c, x)
  BY DEF Control, Performs
<1>1. PICK machine : machine = mach[c[2]]
  OBVIOUS
<1>a. NoSwallowed
  BY DEF Smooth, NoSwallowed
<1>b. ~Alone(cfg, c[1], env)
  <2>1. c \in live => ~Alone(cfg, c[1], env)
    BY <1>0, <1>a, NeverAlone
  <2>2. c \in stale => c[1] # "configure_db"
    BY DEF Smooth, Installs
  <2> QED BY <2>1, <2>2 DEF Alone
<1>2. /\ "swallowed" \notin x.notes
      /\ x \in Outcomes(clusters + 1) /\ x.err # "fault"
      /\ x.err = "missing" => \/ ~(Uses(cfg, c[1]) \subseteq machine.have)
                              \/ c[1] = "configure_patroni"
                              \/ c[1] = "init_ydb_cluster"
  <2>1. PICK bad \in Nat : bad = 0
    OBVIOUS
  <2>2. x = Work(c[1], c[2], bad, strict) /\ env = Env(c[2], strict) /\ strict \in BOOLEAN
    BY <1>0, <2>1
  <2>3. /\ x \in Outcomes(clusters + 1)
        /\ bad = 0 => x.err # "fault"
        /\ bad = 0 /\ "swallowed" \in x.notes => Alone(cfg, c[1], env)
    BY ONLY Control, c \in live \cup stale, bad \in Nat, <1>1, <2>2, WorkIs
  <2>4. x.err = "missing" => \/ ~(Uses(cfg, c[1]) \subseteq machine.have)
                             \/ Alone(cfg, c[1], env)
                             \/ c[1] = "configure_patroni" /\ ~env.quorum
                             \/ c[1] = "init_ydb_cluster" /\ ~env.nodes
    BY ONLY Control, c \in live \cup stale, bad \in Nat, <1>1, <2>2, WorkIs
  <2> QED BY <1>b, <2>1, <2>3, <2>4
<1>3. /\ x.err = "repeat" => MetAgain(cfg, c[1], machine, env)
      /\ x.notes # {} => ClearedUnder(cfg, c[1], machine)
  BY <1>1, <1>b, CleanWorkIs DEF Tidy
<1>4. x.err # "missing" /\ ~MetAgain(cfg, c[1], machine, env)
      /\ ~ClearedUnder(cfg, c[1], machine)
  <2>1. CASE c \in live
    <3>1. NoSwallowed /\ (NeedsPatroni(cfg) => NeedsEtcd(cfg))
      BY <1>a DEF Fitted
    <3>2. x.err # "missing"
      BY <2>1, <3>1, NeverMissing
    <3>3. ~MetAgain(cfg, c[1], machine, env) /\ ~ClearedUnder(cfg, c[1], machine)
      BY <1>0, <1>1, <2>1, NotAgain
    <3> QED BY <3>2, <3>3
  <2>2. CASE c \in stale
    <3>1. c[1] \in Installs
      BY <2>2 DEF Smooth
    <3>2. c[1] \notin {"configure_db", "configure_patroni", "init_ydb_cluster",
                       "configure_pgbouncer"}
      BY <3>1 DEF Installs
    <3>3. Uses(cfg, c[1]) = {}
      BY <3>1 DEF Installs, Uses
    <3> QED BY <1>2, <3>2, <3>3 DEF MetAgain, ClearedUnder
  <2> QED BY <2>1, <2>2
<1>5. x.err = "none" /\ x.notes = {}
  BY <1>2, <1>3, <1>4 DEF Outcomes
<1>6. mishaps' = mishaps \cup x.notes
                    \cup (IF x.err = "none" THEN {}
                          ELSE IF c \in stale THEN {"orphaned"} ELSE {x.err})
  BY <1>0 DEF Takes
<1>7. mishaps = {}
  BY DEF Smooth
<1> QED BY <1>b, <1>5, <1>6, <1>7

LEMMA TailOnce ==
  ASSUME NEW E, NEW s \in Seq(E), s # <<>>, IsInjective(s)
  PROVE  IsInjective(Tail(s)) /\ s[1] \notin ToSet(Tail(s)) /\ ToSet(Tail(s)) \subseteq ToSet(s)
<1>1. Len(s) \in Nat \ {0} /\ DOMAIN s = 1 .. Len(s)
  BY LenProperties, EmptySeq
<1>2. /\ Tail(s) \in Seq(E) /\ Len(Tail(s)) = Len(s) - 1
      /\ \A i \in 1 .. Len(Tail(s)) : Tail(s)[i] = s[i+1]
  BY HeadTailProperties
<1>3. DOMAIN Tail(s) = 1 .. Len(s) - 1
  BY <1>2, LenProperties
<1>4. ASSUME NEW i \in DOMAIN Tail(s), NEW j \in DOMAIN Tail(s), Tail(s)[i] = Tail(s)[j]
      PROVE  i = j
  <2>1. i + 1 \in DOMAIN s /\ j + 1 \in DOMAIN s /\ s[i+1] = s[j+1]
    BY <1>1, <1>2, <1>3, <1>4
  <2>2. i + 1 = j + 1
    BY <2>1 DEF IsInjective
  <2> QED BY <1>1, <1>3, <2>2
<1> QED BY <1>4, TailSet DEF IsInjective

(* What the scripts mind comes from phases that have served the machine.      *)
Earned ==
  /\ \A m \in Machines :
       /\ "patroni" \in mach'[m].up =>
            \/ "patroni" \in mach[m].up
            \/ "configure_patroni" \in plan.phases /\ m \in Served("configure_patroni")'
       /\ "pgbouncer" \in mach'[m].up =>
            \/ "pgbouncer" \in mach[m].up
            \/ "configure_pgbouncer" \in plan.phases /\ m \in Served("configure_pgbouncer")'
       /\ cfg.kind = "ydb" /\ "ydbd" \in mach'[m].up =>
            "ydbd" \in mach[m].up \/ m \in Served("configure_db")'
       /\ cfg.kind = "mysql" /\ mach'[m].data # 0 =>
            mach[m].data # 0 \/ m \in Served("configure_db")' \/ "group" \in cfg.features
       /\ cfg.kind = "ydb" /\ mach'[m].data # 0 =>
            \/ mach[m].data # 0
            \/ "init_ydb_cluster" \in plan.phases /\ First \in Served("init_ydb_cluster")'
  /\ known' # 0 => \/ known # 0
                   \/ /\ "configure_patroni" \in plan.phases
                      /\ Served("configure_patroni")' # {}

More == \A p \in plan.phases : Once(p) => Served(p) \subseteq Served(p)'

LEMMA TracesKept ==
  ASSUME Shape, Fitted(cfg), Traces, UNCHANGED <<cfg, plan>>, More, Earned
  PROVE  Traces'
<1>1. /\ \A p \in {"configure_patroni", "configure_pgbouncer", "init_ydb_cluster"} :
           p \in plan.phases => Served(p) \subseteq Served(p)'
      /\ cfg.kind = "ydb" \/ (cfg.kind = "mysql" /\ "group" \notin cfg.features) =>
           Served("configure_db") \subseteq Served("configure_db")'
      /\ "configure_db" \in plan.phases
  BY OnceAre, PlanIs DEF More, AlwaysThere
<1>2. Marked("patroni", "configure_patroni")'
  BY <1>1 DEF Traces, Marked, Earned, Machines
<1>3. Marked("pgbouncer", "configure_pgbouncer")'
  BY <1>1 DEF Traces, Marked, Earned, Machines
<1>4. cfg.kind = "ydb" => Marked("ydbd", "configure_db")'
  BY <1>1 DEF Traces, Marked, Earned, Machines
<1>5. cfg.kind = "mysql" /\ "group" \notin cfg.features =>
        \A m \in Machines : mach'[m].data # 0 => m \in Served("configure_db")'
  BY <1>1 DEF Traces, Earned
<1>6. cfg.kind = "ydb" =>
        \A m \in Machines : mach'[m].data # 0 =>
          "init_ydb_cluster" \in plan.phases /\ First \in Served("init_ydb_cluster")'
  BY <1>1 DEF Traces, Earned
<1>7. known' # 0 => "configure_patroni" \in plan.phases /\ Served("configure_patroni")' # {}
  BY <1>1 DEF Traces, Earned
<1>8. First' = First /\ Machines' = Machines
  BY DEF First, Machines
<1> QED BY <1>2, <1>3, <1>4, <1>5, <1>6, <1>7, <1>8 DEF Traces

LEMMA QuietTraces ==
  ASSUME Shape, Fitted(cfg), Traces, UNCHANGED <<cfg, plan, mach, known>>, More
  PROVE  Traces'
BY TracesKept DEF Earned

(* The task of p has served one machine more.                                 *)
LEMMA AnsweredOnce ==
  ASSUME Control, InLine, NEW c, Answers(c, "none"), c \notin stale, c[1] \notin failing,
         Once(c[1])
  PROVE  /\ Served(c[1]) \subseteq Served(c[1])'
         /\ c[2] \in Served(c[1])'
<1>0. Shape /\ Sent /\ InTurn
  BY DEF Control
<1>1. PICK p, n, s : p = c[1] /\ n = c[2] /\ s = todo[c[1]]
  OBVIOUS
<1>2. /\ c = <<p, n>> /\ c \in live /\ p \in plan.phases
      /\ status[p] = "running" /\ ~Panics(cfg, state, p)
      /\ failing' = failing
      /\ s = <<>> => live' = live \ {c} /\ todo'[p] = <<>>
      /\ s # <<>> => live' = (live \ {c}) \cup {<<p, s[1]>>} /\ todo'[p] = Tail(s)
  BY <1>0, <1>1, AnswersIs
<1>3. UNCHANGED <<cfg, plan, state, status>>
  BY DEF Answers
<1>4. s \in Seq(Machines) /\ n \in ToSet(plan.after[p])
  BY <1>0, <1>1, <1>2 DEF Shape, Sent
<1>5. p \in In({"running"}) \ failing /\ (s # <<>> => plan.mode[p] = "sequence")
  BY <1>0, <1>1, <1>2 DEF In, Sent
<1>6. plan.mode[p] = "sequence" =>
        /\ IsInjective(plan.after[p]) /\ n \notin ToSet(s)
        /\ \A d \in live : d[1] = p => d = c
        /\ \/ Fresh(p)
           \/ plan.after[p] # <<>> => plan.after[p][1] \notin ToSet(s)
  BY <1>0, <1>1, <1>2, <1>5 DEF InLine, InTurn, Once
<1>7. s # <<>> => s[1] \in ToSet(s) /\ ToSet(Tail(s)) \subseteq ToSet(s)
  BY <1>4, TailSet
<1>8. ToSet(<<>>) = {}
  BY DEF ToSet
<1>9. ~Fresh(p)'
  <2> SUFFICES ASSUME Fresh(p)' PROVE FALSE
    OBVIOUS
  <2>1. PICK a : a = plan.after[p]
    OBVIOUS
  <2>2. /\ plan.mode[p] = "sequence" /\ a # <<>> /\ todo'[p] = Tail(a)
        /\ {d \in live' : d[1] = p} = {<<p, a[1]>>}
    BY <1>3, <2>1 DEF Fresh
  <2>3. <<p, a[1]>> \in live'
    BY <2>2
  <2>4. <<p, a[1]>> \in live => <<p, a[1]>> = c
    BY <1>6, <2>2
  <2>5. s # <<>> /\ <<p, a[1]>> = <<p, s[1]>>
    BY <1>2, <2>3, <2>4
  <2>6. a[1] \in ToSet(s)
    BY <1>7, <2>5
  <2>7. Fresh(p)
    BY <1>6, <2>1, <2>2, <2>6
  <2>8. s = Tail(a)
    BY <1>1, <2>1, <2>7 DEF Fresh
  <2>9. a \in Seq(Machines) /\ IsInjective(a)
    BY <1>0, <1>2, <1>6, <2>1, <2>2, PlanIs
  <2>10. a[1] \notin ToSet(Tail(a))
    BY <2>2, <2>9, TailSet
  <2> QED BY <2>6, <2>8, <2>10
<1>10. \A m : m \in Served(p)' <=>
         /\ m \in ToSet(plan.after[p])
         /\ \/ m \notin ToSet(todo'[p]) /\ <<p, m>> \notin live'
            \/ plan.mode[p] = "sequence" /\ m = plan.after[p][1]
  BY <1>2, <1>3, <1>5, <1>9 DEF Served
<1>11. \A m : m \in Served(p) =>
         /\ m \in ToSet(plan.after[p])
         /\ \/ m \notin ToSet(s) /\ <<p, m>> \notin live
            \/ plan.mode[p] = "sequence" /\ m = plan.after[p][1]
  BY <1>1, <1>2 DEF Served
<1>12. \A m : m \notin ToSet(s) /\ (<<p, m>> \notin live \/ m = n) =>
         m \notin ToSet(todo'[p]) /\ <<p, m>> \notin live'
  <2> SUFFICES ASSUME NEW m, m \notin ToSet(s), <<p, m>> \notin live \/ <<p, m>> = c
               PROVE  m \notin ToSet(todo'[p]) /\ <<p, m>> \notin live'
    BY <1>2
  <2>1. CASE s = <<>>
    BY <1>2, <1>8, <2>1
  <2>2. CASE s # <<>>
    <3>1. m # s[1] /\ m \notin ToSet(Tail(s))
      BY <1>7, <2>2
    <3>2. <<p, m>> # <<p, s[1]>>
      BY <3>1
    <3> QED BY <1>2, <2>2, <3>1, <3>2
  <2> QED BY <2>1, <2>2
<1>13. n \notin ToSet(s)
  BY <1>5, <1>6, <1>8
<1>14. Served(p) \subseteq Served(p)' /\ n \in Served(p)'
  BY <1>4, <1>10, <1>11, <1>12, <1>13
<1> QED BY <1>1, <1>14

LEMMA CleanAnswer ==
  ASSUME Control, InLine, NEW c, Answers(c, "none"), c \notin stale => c[1] \notin failing
  PROVE  /\ More
         /\ c \notin stale /\ Once(c[1]) => c[2] \in Served(c[1])'
<1>0. Shape /\ Sent
  BY DEF Control
<1>1. \A p \in plan.phases \ {c[1]} : Served(p)' = Served(p)
  BY <1>0, AnswerServed
<1>2. c \in stale => Served(c[1])' = Served(c[1])
  BY <1>0, AnswerServed
<1>3. c \notin stale /\ Once(c[1]) =>
        Served(c[1]) \subseteq Served(c[1])' /\ c[2] \in Served(c[1])'
  BY AnsweredOnce
<1> QED BY <1>1, <1>2, <1>3 DEF More

LEMMA AnswerInLine ==
  ASSUME Control, InLine, NEW c, Answers(c, "none")
  PROVE  InLine'
<1>0. Shape /\ Sent /\ InTurn
  BY DEF Control
<1>1. UNCHANGED <<cfg, plan, state, status>> /\ In({"running"})' = In({"running"})
  BY DEF Answers, In
<1>2. CASE c \in stale
  <2>1. UNCHANGED <<live, todo, failing>>
    BY <1>0, <1>2, AnswersIs
  <2> QED BY <1>1, <2>1 DEF InLine
<1>3. CASE c \notin stale
  <2> SUFFICES ASSUME NEW p \in In({"running"}) \ failing', plan.mode[p] = "sequence",
                      IsInjective(plan.after[p])
               PROVE  IsInjective(todo'[p])
                      /\ \A d \in live' : d[1] = p => d[2] \notin ToSet(todo'[p])
    BY <1>1 DEF InLine
  <2>1. failing' = failing /\ p \in plan.phases
    BY <1>0, <1>3, AnswersIs DEF In
  <2>2. IsInjective(todo[p]) /\ \A d \in live : d[1] = p => d[2] \notin ToSet(todo[p])
    BY <2>1 DEF InLine
  <2>3. CASE p # c[1]
    <3>1. todo'[p] = todo[p] /\ Awaited(p)' = Awaited(p)
      BY <1>0, <1>3, <2>1, <2>3, AnswersIs
    <3> QED BY <2>2, <3>1 DEF Awaited
  <2>4. CASE p = c[1]
    <3>1. PICK s : s = todo[p]
      OBVIOUS
    <3>2. /\ s = <<>> => todo'[p] = <<>>
          /\ s # <<>> => live' = (live \ {c}) \cup {<<p, s[1]>>} /\ todo'[p] = Tail(s)
      BY <1>0, <1>3, <2>4, <3>1, AnswersIs
    <3>3. CASE s = <<>>
      BY <3>2, <3>3 DEF IsInjective, ToSet
    <3>4. CASE s # <<>>
      <4>1. s \in Seq(Machines)
        BY <1>0, <2>1, <3>1 DEF Shape
      <4>2. IsInjective(Tail(s)) /\ s[1] \notin ToSet(Tail(s)) /\ ToSet(Tail(s)) \subseteq ToSet(s)
        BY <2>2, <3>1, <3>4, <4>1, TailOnce
      <4> QED BY <2>2, <3>1, <3>2, <3>4, <4>2
    <3> QED BY <3>3, <3>4
  <2> QED BY <2>3, <2>4
<1> QED BY <1>2, <1>3

(* Tasks that begin to execute.                                               *)
LEMMA CleanStarts ==
  ASSUME Control, Smooth, NEW L, Starts(L),
         status' \in [plan.phases -> {"pending", "running", "done", "failed"}],
         \A p \in L : status[p] = "pending" \/ p \in failing
  PROVE  /\ \A p \in failing' : p \in Lonely /\ \A c \in live' : c[1] # p
         /\ InLine'
         /\ More
<1>0. Shape /\ L \subseteq plan.phases /\ cfg' = cfg /\ plan' = plan /\ state' = state
  BY DEF Control, Starts
<1>1. ASSUME NEW p \in failing' PROVE p \in Lonely /\ \A c \in live' : c[1] # p
  <2>1. CASE p \in L
    <3>1. FailsOutright(cfg, state, p)
      BY <1>0, <1>1, <2>1, StartedIs
    <3>2. p \in Lonely /\ TargetsOf(cfg, state, p) = <<>>
      BY <3>1 DEF FailsOutright, Lonely
    <3>3. ToSet(plan.after[p]) = {}
      <4>1. CASE state = plan.ready
        BY <1>0, <2>1, <3>2, <4>1, PlanIs DEF ToSet
      <4>2. CASE state = NewState
        BY <1>0, <2>1, <4>2, StateIs DEF Starts
      <4> QED BY <1>0, <4>1, <4>2 DEF Shape
    <3>4. \A c \in Awaited(p)' : c[2] \in ToSet(plan.after[p])
      BY <1>0, <2>1, StartedIs
    <3> QED BY <3>2, <3>3, <3>4 DEF Awaited
  <2>2. CASE p \notin L
    <3>1. p \in failing /\ p \in plan.phases
      BY <1>0, <1>1, <2>2 DEF Starts, Execute, Shape, In
    <3>2. Awaited(p)' = Awaited(p)
      BY <1>0, <2>2, <3>1, OthersKept
    <3> QED BY <3>1, <3>2 DEF Smooth, Awaited
  <2> QED BY <2>1, <2>2
<1>2. ASSUME NEW p \in plan.phases, status'[p] = "running", p \notin failing',
             plan.mode[p] = "sequence", IsInjective(plan.after[p])
      PROVE  IsInjective(todo'[p])
             /\ \A c \in live' : c[1] = p => c[2] \notin ToSet(todo'[p])
  <2>1. CASE p \notin L
    <3>1. /\ todo'[p] = todo[p] /\ (p \in failing' <=> p \in failing)
          /\ Awaited(p)' = Awaited(p)
      BY <1>0, <2>1, OthersKept
    <3>2. status'[p] = status[p]
      BY <2>1 DEF Starts
    <3>3. IsInjective(todo[p]) /\ \A d \in live : d[1] = p => d[2] \notin ToSet(todo[p])
      BY <1>2, <3>1, <3>2 DEF Smooth, InLine, In
    <3> QED BY <3>1, <3>3 DEF Awaited
  <2>2. CASE p \in L /\ (Panics(cfg, state, p) \/ plan.after[p] = <<>>)
    <3>1. todo'[p] = <<>> /\ Awaited(p)' = {}
      BY <1>0, <2>2, StartedIs
    <3> QED BY <3>1 DEF Awaited, IsInjective
  <2>3. CASE p \in L /\ ~Panics(cfg, state, p) /\ plan.after[p] # <<>>
    <3>1. PICK s : s = plan.after[p]
      OBVIOUS
    <3>2. todo'[p] = Tail(s) /\ Awaited(p)' = {<<p, s[1]>>}
      BY <1>0, <1>2, <2>3, <3>1, StartedIs
    <3>3. s \in Seq(Machines) /\ s # <<>> /\ IsInjective(s)
      BY <1>0, <1>2, <2>3, <3>1, PlanIs
    <3>4. IsInjective(Tail(s)) /\ s[1] \notin ToSet(Tail(s))
      BY <3>3, TailOnce
    <3>5. \A c \in Awaited(p)' : c[2] = s[1]
      BY <3>2
    <3> QED BY <3>2, <3>4, <3>5 DEF Awaited
  <2> QED BY <2>1, <2>2, <2>3
<1>3. InLine'
  BY <1>0, <1>2 DEF InLine, In
<1>4. More
  <2>1. ASSUME NEW p \in L PROVE Served(p) = {}
    BY <2>1, <1>0 DEF Served, Shape, In
  <2>2. \A p \in plan.phases \ L : Served(p)' = Served(p)
    BY <1>0, StartedServed
  <2> QED BY <2>1, <2>2 DEF More
<1> QED BY <1>1, <1>3, <1>4

(* A report of success.                                                       *)
LEMMA AnswerSmooth ==
  ASSUME Control, Smooth, NEW c, Answers(c, "none")
  PROVE  /\ stale' \subseteq stale
         /\ \A p \in failing' : p \in Lonely /\ \A d \in live' : d[1] # p
         /\ InLine'
         /\ More
         /\ c \notin stale /\ Once(c[1]) => c[2] \in Served(c[1])'
<1>0. Shape /\ Sent /\ InLine
  BY DEF Control, Smooth
<1>1. c \notin stale => c \in live /\ c[1] \notin failing
  BY <1>0, AnswersIs DEF Smooth
<1>2. CASE c \in stale
  <2>1. stale' = stale \ {c} /\ UNCHANGED <<live, todo, failing>>
    BY <1>0, <1>2, AnswersIs
  <2> QED BY <1>0, <1>1, <1>2, <2>1, CleanAnswer, AnswerInLine DEF Smooth
<1>3. CASE c \notin stale
  <2>1. /\ stale' = stale /\ failing' = failing
        /\ todo[c[1]] = <<>> => live' = live \ {c}
        /\ todo[c[1]] # <<>> => live' = (live \ {c}) \cup {<<c[1], todo[c[1]][1]>>}
    BY <1>0, <1>3, AnswersIs
  <2>2. \A d \in live' : d \in live \/ d[1] = c[1]
    BY <2>1
  <2>3. \A p \in failing' : p \in Lonely /\ \A d \in live' : d[1] # p
    BY <1>1, <1>3, <2>1, <2>2 DEF Smooth
  <2> QED BY <1>0, <1>1, <1>3, <2>1, <2>3, CleanAnswer, AnswerInLine
<1> QED BY <1>2, <1>3

(* The services a script starts are those of its phase.                       *)
LEMMA StartedBy ==
  ASSUME NEW c, c.kind \in Kinds, NEW p
  PROVE  /\ "patroni" \in Services(c, p) => p = "configure_patroni"
         /\ "pgbouncer" \in Services(c, p) => p = "configure_pgbouncer"
         /\ "ydbd" \in Services(c, p) => p = "configure_db"
BY DEF Services, Service, ProxyService, Kinds

LEMMA CleanEarned ==
  ASSUME Control, Smooth, Fitted(cfg), NEW c \in live \cup stale, NEW x, NEW env,
         NEW strict, Performs(c, x, env, strict, 0), x.err = "none", ~Alone(cfg, c[1], env),
         c[1] \notin Installs \cup {"configure_etcd"} /\ Once(c[1]) => c[2] \in Served(c[1])'
  PROVE  Earned
<1>0. Shape /\ x = Work(c[1], c[2], 0, strict) /\ Takes(c, x) /\ strict \in BOOLEAN
      /\ UNCHANGED <<cfg, plan>>
  BY DEF Control, Performs
<1>1. /\ c[1] \in plan.phases /\ c[2] \in Machines /\ c[2] \in ToSet(plan.after[c[1]])
      /\ cfg.kind \in Kinds
  BY <1>0, CommandIs, PlanIs
<1>2. /\ \A n \in Machines : n # c[2] => mach'[n].up = mach[n].up
      /\ \A n \in Machines : c[1] \notin DataPhases => mach'[n].data = mach[n].data
      /\ \A n \in Machines : n # c[2] /\ c[1] # "init_ydb_cluster" => mach'[n].data = mach[n].data
      /\ mach'[c[2]].up = x.up /\ mach'[c[2]].data = x.data
      /\ known' = IF c[1] = "configure_patroni" THEN x.data ELSE known
  BY PerformWorks
<1>3. PICK machine : machine = mach[c[2]]
  OBVIOUS
<1>4. /\ x.up \subseteq machine.up \cup Services(cfg, c[1])
      /\ c[1] = "configure_db" /\ cfg.kind = "ydb" => x.data = 0
  BY <1>3, CleanWorkIs DEF Tidy
<1>5. ASSUME c[1] \in {"configure_patroni", "configure_pgbouncer", "init_ydb_cluster",
                       "configure_db"}, Once(c[1])
      PROVE  c[2] \in Served(c[1])'
  <2>1. c[1] \notin Installs \cup {"configure_etcd"}
    BY <1>5 DEF Installs
  <2> QED BY <1>5, <2>1
<1>6. /\ c[1] \in {"configure_patroni", "configure_pgbouncer", "init_ydb_cluster"} => Once(c[1])
      /\ c[1] = "configure_db"
         /\ (cfg.kind = "ydb" \/ (cfg.kind = "mysql" /\ "group" \notin cfg.features)) => Once(c[1])
  BY <1>0, <1>1, OnceAre
<1>7. ASSUME NEW m \in Machines, NEW u \in {"patroni", "pgbouncer", "ydbd"}, u \in mach'[m].up,
             u \notin mach[m].up
      PROVE  m = c[2] /\ u \in Services(cfg, c[1])
  BY <1>2, <1>3, <1>4, <1>7
<1>8. ASSUME NEW m \in Machines, "patroni" \in mach'[m].up, "patroni" \notin mach[m].up
      PROVE  "configure_patroni" \in plan.phases /\ m \in Served("configure_patroni")'
  <2>1. m = c[2] /\ c[1] = "configure_patroni"
    BY <1>1, <1>7, <1>8, StartedBy
  <2> QED BY <1>1, <1>5, <1>6, <2>1
<1>9. ASSUME NEW m \in Machines, "pgbouncer" \in mach'[m].up, "pgbouncer" \notin mach[m].up
      PROVE  "configure_pgbouncer" \in plan.phases /\ m \in Served("configure_pgbouncer")'
  <2>1. m = c[2] /\ c[1] = "configure_pgbouncer"
    BY <1>1, <1>7, <1>9, StartedBy
  <2> QED BY <1>1, <1>5, <1>6, <2>1
<1>10. ASSUME NEW m \in Machines, cfg.kind = "ydb", "ydbd" \in mach'[m].up,
              "ydbd" \notin mach[m].up
       PROVE  m \in Served("configure_db")'
  <2>1. m = c[2] /\ c[1] = "configure_db"
    BY <1>1, <1>7, <1>10, StartedBy
  <2> QED BY <1>5, <1>6, <1>10, <2>1
<1>11. cfg.kind = "mysql" => c[1] # "configure_patroni" /\ c[1] # "init_ydb_cluster"
  BY <1>0, <1>1, KindsApart
<1>12. cfg.kind = "ydb" => c[1] # "configure_patroni"
  BY <1>0, <1>1, KindsApart
<1>13. ASSUME NEW m \in Machines, cfg.kind = "mysql", mach'[m].data # 0, mach[m].data = 0,
              "group" \notin cfg.features
       PROVE  m \in Served("configure_db")'
  <2>1. c[1] = "configure_db"
    BY <1>2, <1>11, <1>13 DEF DataPhases
  <2>2. m = c[2]
    BY <1>2, <1>13, <2>1
  <2> QED BY <1>5, <1>6, <1>13, <2>1, <2>2
<1>14. ASSUME NEW m \in Machines, cfg.kind = "ydb", mach'[m].data # 0, mach[m].data = 0
       PROVE  "init_ydb_cluster" \in plan.phases /\ First \in Served("init_ydb_cluster")'
  <2>1. c[1] \in {"configure_db", "init_ydb_cluster"}
    BY <1>2, <1>12, <1>14 DEF DataPhases
  <2>2. c[1] # "configure_db"
    BY <1>2, <1>4, <1>14
  <2>3. c[1] = "init_ydb_cluster" /\ c[2] = First
    BY <1>0, <1>1, <2>1, <2>2, KindsApart
  <2> QED BY <1>1, <1>5, <1>6, <2>3
<1>15. ASSUME known' # 0, known = 0
       PROVE  "configure_patroni" \in plan.phases /\ Served("configure_patroni")' # {}
  <2>1. c[1] = "configure_patroni"
    BY <1>2, <1>15
  <2> QED BY <1>1, <1>5, <1>6, <2>1
<1> QED BY <1>8, <1>9, <1>10, <1>13, <1>14, <1>15 DEF Earned

LEMMA PerformSmooth ==
  ASSUME Control, Effects, Smooth, Fitted(cfg), NEW c \in live \cup stale, NEW x, NEW env,
         NEW strict, Performs(c, x, env, strict, 0)
  PROVE  Smooth'
<1>0. /\ Shape /\ Takes(c, x) /\ x = Work(c[1], c[2], 0, strict) /\ strict \in BOOLEAN
      /\ UNCHANGED <<cfg, plan, status, tries, state, result>>
      /\ \/ /\ c[1] = "configure_etcd" /\ x.err = "none"
            /\ waiting' = waiting \cup {c} /\ UNCHANGED <<live, stale, todo, failing>>
         \/ Answers(c, x.err) /\ waiting' = waiting
  BY DEF Control, Performs
<1>1. x.err = "none" /\ mishaps' = {} /\ ~Alone(cfg, c[1], env)
  BY <1>0, CleanPerform
<1>a. x \in Outcomes(clusters + 1)
  BY <1>0, WorkIs
<1>2. /\ stale' \subseteq stale
      /\ \A p \in failing' : p \in Lonely /\ \A d \in live' : d[1] # p
      /\ InLine' /\ More
      /\ c[1] \notin Installs \cup {"configure_etcd"} /\ Once(c[1]) => c[2] \in Served(c[1])'
  <2>1. CASE Answers(c, "none")
    <3>1. c \in stale => c[1] \in Installs
      BY DEF Smooth
    <3> QED BY <2>1, <3>1, AnswerSmooth
  <2>2. CASE c[1] = "configure_etcd" /\ UNCHANGED <<live, stale, todo, failing>>
    <3>1. InLine'
      BY <1>0, <2>2 DEF Smooth, InLine, In
    <3>2. More
      BY <1>0, <2>2, ServedKept DEF More, Awaited
    <3> QED BY <2>2, <3>1, <3>2 DEF Smooth
  <2> QED BY <1>0, <1>1, <2>1, <2>2
<1>3. Earned
  BY <1>1, <1>2, CleanEarned
<1>4. result' = "running" => Traces'
  BY <1>0, <1>2, <1>3, TracesKept DEF Smooth
<1>5. \A m \in Machines' : mach'[m].boot # "failed"
  <2>1. c[2] \in Machines /\ Machines' = Machines
    BY <1>0, CommandIs DEF Machines
  <2>2. /\ mach'[c[2]].boot = IF mach[c[2]].boot = "no" THEN "ok" ELSE mach[c[2]].boot
        /\ \A n \in Machines \ {c[2]} : mach'[n].boot = mach[n].boot
    BY <1>0, <1>a, TakesIs
  <2> QED BY <2>1, <2>2 DEF Smooth
<1>6. \A d \in stale' : d[1] \in Installs
  BY <1>2 DEF Smooth
<1> QED BY <1>1, <1>2, <1>4, <1>5, <1>6 DEF Smooth

(* Those that have started etcd are a quorum when no other is still to.       *)
LEMMA QuorumInTime ==
  ASSUME Control, Effects, Smooth, NEW c \in waiting,
         {d \in live \ waiting : d[1] = "configure_etcd"} = {}
  PROVE  EtcdQuorum
<1>0. Shape /\ Waves /\ Sent /\ Waits
  BY DEF Control
<1>1. c[1] = "configure_etcd" /\ c \in live
  <2>1. c[1] = "configure_etcd" /\ (c \in live \/ c \in stale)
    BY <1>0 DEF Shape, Waits
  <2>2. "configure_etcd" \notin Installs
    BY DEF Installs
  <2> QED BY <2>1, <2>2 DEF Smooth
<1>2. PICK p : p = "configure_etcd"
  OBVIOUS
<1>3. /\ p \in plan.phases /\ c[2] \in ToSet(plan.after[p]) /\ state = plan.ready
      /\ status[p] = "running" /\ ~Panics(cfg, state, p) /\ plan.mode[p] = "each"
      /\ plan.after[p] = TargetsOf(cfg, plan.ready, p) /\ cfg.kind \in Kinds
  BY <1>0, <1>1, <1>2, CommandIs, InSequenceAre, PlanIs DEF Sent
<1>4. result = "running" /\ NoSwallowed /\ p \notin failing /\ todo[p] = <<>> /\ ~Fresh(p)
  <2>1. p \notin Lonely
    BY <1>2 DEF Lonely
  <2> QED BY <1>0, <1>3, <2>1 DEF Waves, In, Smooth, NoSwallowed, Sent, Fresh
<1>5. ASSUME NEW m \in ToSet(plan.after[p]) PROVE "etcd" \in mach[m].up
  <2>1. CASE <<p, m>> \in live
    <3>1. <<p, m>> \in waiting
      BY <1>2, <2>1
    <3> QED BY <1>0, <3>1 DEF Waits
  <2>2. CASE <<p, m>> \notin live
    <3>1. m \in Served(p)
      BY <1>3, <1>4, <2>2 DEF Served, ToSet
    <3>2. Effect(p, m)
      BY <1>3, <1>4, <3>1 DEF Effects
    <3> QED BY <1>2, <3>2 DEF Effect, Services
  <2> QED BY <2>1, <2>2
<1>6. plan.ready.database # <<>>
  <2>1. PICK s : s = plan.ready.database
    OBVIOUS
  <2>2. plan.after[p] = UpTo(3, s)
    BY <1>2, <1>3, <2>1, Table
  <2>3. s \in Seq(Machines)
    BY <1>0, <1>3, <2>1, DatabasesAre
  <2>4. ToSet(UpTo(3, s)) \subseteq ToSet(s)
    BY <2>3, UpToPart
  <2>5. s = <<>> => ToSet(s) = {}
    BY DEF ToSet
  <2>6. c[2] \in ToSet(s)
    BY <1>3, <2>2, <2>4
  <2> QED BY <2>1, <2>5, <2>6
<1> QED BY <1>2, <1>3, <1>5, <1>6, AllVote

(* What follows configure_db has not begun before it is done.                 *)
LEMMA AfterConfigured ==
  ASSUME Shape, Waves, status["configure_db"] # "done",
         NEW q \in plan.phases \cap {"configure_pgbouncer", "configure_proxy",
                                     "configure_monitor", "run_stroppy", "init_ydb_cluster",
                                     "start_ydb_database"}
  PROVE  status[q] \notin {"running", "done"}
<1>1. \A p \in plan.phases \ {"teardown"} : status[p] \in {"running", "done"} =>
        DepsOf(cfg, p) \subseteq In({"done"})
  BY PlanIs DEF Waves, In
<1>2. "configure_db" \notin In({"done"})
  BY DEF In
<1>3. CASE q \in {"configure_pgbouncer", "configure_proxy", "configure_monitor", "run_stroppy",
                  "init_ydb_cluster"}
  <2>1. "configure_db" \in DepsOf(cfg, q)
    BY <1>3 DEF DepsOf, DatabaseDeps, RunStroppyDeps, Installs
  <2> QED BY <1>1, <1>2, <1>3, <2>1
<1>4. CASE q = "start_ydb_database"
  <2>1. DepsOf(cfg, q) = {"init_ydb_cluster"}
    BY <1>4 DEF DepsOf, DatabaseDeps, Installs
  <2>2. "configure_db" \in DepsOf(cfg, "init_ydb_cluster")
    BY DEF DepsOf, DatabaseDeps, Installs
  <2>3. "init_ydb_cluster" \in In({"done"}) => FALSE
    BY <1>1, <1>2, <2>2 DEF In
  <2> QED BY <1>1, <1>4, <2>1, <2>3
<1> QED BY <1>3, <1>4

(* A panic needs no fault: nothing but installations is then under way, and   *)
(* nothing that a script would mind is there.                                 *)
LEMMA PanicSmooth ==
  ASSUME Control, Smooth, ServerPanics
  PROVE  Smooth'
<1>0. Shape /\ Waves /\ Sent /\ result = "running"
  BY DEF Control, Waves, ServerPanics
<1>1. Resumes /\ faults' \in 0 .. MaxFaults
  BY <1>0 DEF ServerPanics, Shape
<1>2. /\ mach' = mach /\ known' = known /\ mishaps' = mishaps /\ UNCHANGED <<cfg, plan>>
      /\ live' = {} /\ failing' = {} /\ stale' \subseteq live \cup stale
  BY <1>0, <1>1, ResumesKeeps DEF Resumes
<1>3. In({"running"})' = {}
  BY <1>2 DEF Resumes, In, ServerPanics
<1>4. /\ status["configure_db"] = "running" /\ Panics(cfg, state, "configure_db")
      /\ "configure_db" \in plan.phases /\ ~NeedsPatroni(cfg)
  BY DEF ServerPanics, Panics, In, IsNoop
<1>5. "configure_patroni" \notin plan.phases
  BY <1>0, <1>4, KindsApart
<1>6. ASSUME NEW c \in live PROVE c[1] \in Installs
  <2>1. c[1] \in plan.phases \cap WorkPhases
    BY CommandIs
  <2>2. status[c[1]] = "running" /\ c[1] # "configure_db"
    BY <1>0, <1>4 DEF Sent
  <2>3. c[1] # "configure_etcd"
    <3> SUFFICES ASSUME c[1] = "configure_etcd" PROVE FALSE
      OBVIOUS
    <3>1. NeedsEtcd(cfg)
      BY <1>0, <2>1, PlanIs DEF Phases, Installs
    <3>2. "configure_etcd" \in DepsOf(cfg, "configure_db")
      BY <1>4, <3>1 DEF DepsOf, DatabaseDeps, ConfigDBDeps, Installs
    <3>3. plan.deps["configure_db"] \subseteq In({"done"})
      BY <1>0, <1>4 DEF Waves, In
    <3>4. plan.deps["configure_db"] = DepsOf(cfg, "configure_db")
      BY <1>0, <1>4, PlanIs
    <3> QED BY <2>2, <3>2, <3>3, <3>4 DEF In
  <2>4. c[1] \notin {"configure_pgbouncer", "configure_proxy", "configure_monitor",
                     "run_stroppy", "init_ydb_cluster", "start_ydb_database"}
    BY <1>0, <1>4, <2>1, <2>2, AfterConfigured
  <2> QED BY <1>5, <2>1, <2>2, <2>3, <2>4 DEF WorkPhases, AllPhases
<1>7. \A c \in stale' : c[1] \in Installs
  BY <1>2, <1>6 DEF Smooth
<1>8. /\ Served("configure_db") = {}
      /\ "configure_pgbouncer" \in plan.phases => Served("configure_pgbouncer") = {}
      /\ "init_ydb_cluster" \in plan.phases => Served("init_ydb_cluster") = {}
  <2>1. Served("configure_db") = {}
    BY <1>4 DEF Served
  <2>2. ASSUME NEW q \in plan.phases \cap {"configure_pgbouncer", "init_ydb_cluster"}
        PROVE  Served(q) = {}
    <3>1. status[q] \notin {"running", "done"}
      BY <1>0, <1>4, AfterConfigured
    <3> QED BY <3>1 DEF Served
  <2> QED BY <2>1, <2>2
<1>9. /\ \A m \in Machines : "patroni" \notin mach[m].up /\ "pgbouncer" \notin mach[m].up
      /\ cfg.kind = "ydb" => \A m \in Machines : "ydbd" \notin mach[m].up
      /\ cfg.kind = "mysql" /\ "group" \notin cfg.features =>
           \A m \in Machines : mach[m].data = 0
      /\ cfg.kind = "ydb" => \A m \in Machines : mach[m].data = 0
      /\ known = 0
  BY <1>0, <1>5, <1>8 DEF Smooth, Traces, Marked
<1>10. Traces'
  BY <1>2, <1>9 DEF Traces, Marked, Machines
<1>11. InLine'
  BY <1>3 DEF InLine
<1> QED BY <1>2, <1>7, <1>10, <1>11 DEF Smooth, Machines

LEMMA FinishSmooth ==
  ASSUME Control, Smooth, Fitted(cfg), NEW p \in plan.phases, Finish(p) \/ GiveUp(p)
  PROVE  Smooth'
<1>0. Shape
  BY DEF Control
<1>1. /\ UNCHANGED <<cfg, plan, todo, live, stale, known, mishaps, result>>
      /\ failing' = failing \ {p}
      /\ mach' = mach \/ mach' = [m \in Machines |-> Bare]
      /\ \A q \in plan.phases : status'[q] = "running" => status[q] = "running" /\ q # p
  <2>1. CASE Finish(p)
    <3>1. status'[p] = "done" /\ \A q \in plan.phases \ {p} : status'[q] = status[q]
      BY <2>1, FinishIs
    <3>2. mach' = mach \/ mach' = [m \in Machines |-> Bare]
      BY <2>1, FinishIs
    <3> QED BY <2>1, <3>1, <3>2, FinishIs
  <2>2. CASE GiveUp(p)
    <3>1. status' = [status EXCEPT ![p] = "failed"]
      BY <2>2 DEF GiveUp, Ends
    <3>2. status'[p] = "failed" /\ \A q \in plan.phases \ {p} : status'[q] = status[q]
      BY <1>0, <3>1 DEF Shape
    <3> QED BY <2>2, <3>2 DEF GiveUp, Ends, cmdVars, machVars
  <2> QED BY <2>1, <2>2
<1>2. \A q \in plan.phases : Served(q)' = Served(q)
  BY FinishServed, GiveUpKeeps
<1>3. More
  BY <1>2 DEF More
<1>4. Earned
  <2>1. CASE mach' = mach
    BY <1>1, <2>1 DEF Earned
  <2>2. CASE mach' = [m \in Machines |-> Bare]
    <3>1. \A m \in Machines : mach'[m].up = {} /\ mach'[m].data = 0
      BY <2>2 DEF Bare
    <3> QED BY <1>1, <3>1 DEF Earned
  <2> QED BY <1>1, <2>1, <2>2
<1>5. result' = "running" => Traces'
  BY <1>0, <1>1, <1>3, <1>4, TracesKept DEF Smooth
<1>6. \A m \in Machines' : mach'[m].boot # "failed"
  BY <1>1 DEF Smooth, Bare, Machines
<1>7. InLine'
  <2>1. In({"running"})' \ failing' \subseteq In({"running"}) \ failing
    BY <1>1 DEF In
  <2> QED BY <1>1, <2>1 DEF Smooth, InLine
<1> QED BY <1>1, <1>5, <1>6, <1>7 DEF Smooth

LEMMA StartsSmooth ==
  ASSUME Control, Smooth, Fitted(cfg), StartWave \/ \E p \in plan.phases : Retry(p)
  PROVE  Smooth'
<1>0. Shape /\ Waves
  BY DEF Control
<1>1. /\ UNCHANGED <<cfg, plan, stale, mach, known, mishaps, result>>
      /\ status' \in [plan.phases -> {"pending", "running", "done", "failed"}]
      /\ \E L : Starts(L) /\ \A p \in L : status[p] = "pending" \/ p \in failing
  <2>1. CASE StartWave
    <3>1. Starts(Ready) /\ Control'
      BY <2>1, StartWaveKeeps
    <3>2. \A p \in Ready : status[p] = "pending"
      BY DEF Ready, In
    <3>3. UNCHANGED <<cfg, plan, stale, mach, known, mishaps, result>>
      BY <2>1 DEF StartWave, machVars
    <3> QED BY <3>1, <3>2, <3>3 DEF Control, Shape
  <2>2. ASSUME NEW p \in plan.phases, Retry(p)
        PROVE  /\ UNCHANGED <<cfg, plan, status, stale, mach, known, mishaps, result>>
               /\ Starts({p}) /\ p \in failing
    BY <2>2, RetryKeeps DEF Retry, machVars
  <2>3. ASSUME NEW p \in plan.phases, Retry(p)
        PROVE  \E L : Starts(L) /\ \A q \in L : status[q] = "pending" \/ q \in failing
    <3>1. \A q \in {p} : status[q] = "pending" \/ q \in failing
      BY <2>2, <2>3
    <3> QED BY <2>2, <2>3, <3>1
  <2> QED BY <1>0, <2>1, <2>2, <2>3 DEF Shape
<1>2. /\ \A p \in failing' : p \in Lonely /\ \A c \in live' : c[1] # p
      /\ InLine'
      /\ More
  BY <1>1, CleanStarts
<1>3. result' = "running" => Traces'
  BY <1>0, <1>1, <1>2, QuietTraces DEF Smooth
<1> QED BY <1>1, <1>2, <1>3 DEF Smooth, Machines

LEMMA SmoothStep ==
  ASSUME Control, Effects, Smooth, Fitted(cfg), faults = 0, faults' = 0, [Next]_vars
  PROVE  Smooth'
<1>0. Shape
  BY DEF Control
<1>1. ~MayFault
  BY DEF MayFault
<1>2. CASE StartWave \/ \E p \in plan.phases : Retry(p)
  BY <1>2, StartsSmooth
<1>3. ASSUME NEW p \in plan.phases, Finish(p) \/ GiveUp(p) PROVE Smooth'
  BY <1>3, FinishSmooth
<1>4. CASE TearDown
  <2>1. /\ In({"running"}) = {} /\ stale' = {} /\ mach' = [m \in Machines |-> Bare]
        /\ status' = [status EXCEPT !["teardown"] = "done"]
        /\ UNCHANGED <<cfg, plan, failing, live, mishaps>>
    BY <1>4 DEF TearDown
  <2>2. result' # "running"
    BY <1>4, TearDownKeeps
  <2>3. In({"running"})' = {}
    BY <1>0, <2>1 DEF In, Shape
  <2>4. InLine'
    BY <2>3 DEF InLine
  <2>5. \A m \in Machines' : mach'[m].boot # "failed"
    BY <2>1 DEF Bare, Machines
  <2> QED BY <2>1, <2>2, <2>4, <2>5 DEF Smooth
<1>5. ASSUME NEW c \in live \cup stale, Refuse(c) PROVE FALSE
  <2>1. c[2] \in Machines
    BY CommandIs
  <2> QED BY <1>5, <2>1 DEF Refuse, Smooth
<1>6. ASSUME NEW c \in live \cup stale, Perform(c) PROVE Smooth'
  <2>1. PICK x, env, strict, bad : Performs(c, x, env, strict, bad)
    BY <1>6, PerformIs
  <2>2. bad = 0
    BY <1>1, <2>1 DEF Performs
  <2> QED BY <2>1, <2>2, PerformSmooth
<1>7. ASSUME NEW c \in live \cup stale, EtcdHealthy(c) PROVE Smooth'
  <2>1. Answers(c, "none") /\ UNCHANGED <<cfg, plan, mach, known, mishaps, result>>
    BY <1>7 DEF EtcdHealthy, Answers, machVars
  <2>2. /\ stale' \subseteq stale
        /\ \A p \in failing' : p \in Lonely /\ \A d \in live' : d[1] # p
        /\ InLine'
        /\ More
    BY <2>1, AnswerSmooth
  <2>3. result' = "running" => Traces'
    BY <1>0, <2>1, <2>2, QuietTraces DEF Smooth
  <2> QED BY <2>1, <2>2, <2>3 DEF Smooth, Machines
<1>8. ASSUME NEW c \in live \cup stale, EtcdTimesOut(c) PROVE FALSE
  <2>1. /\ c \in waiting /\ ~EtcdQuorum
        /\ IF {d \in live \ waiting : d[1] = "configure_etcd"} = {}
             THEN UNCHANGED faults ELSE MayFault
    BY <1>8 DEF EtcdTimesOut
  <2>2. {d \in live \ waiting : d[1] = "configure_etcd"} = {}
    BY <1>1, <2>1
  <2> QED BY <2>1, <2>2, QuorumInTime
<1>9. ASSUME NEW c \in live \cup stale, BootstrapFails(c) \/ SendFails(c) PROVE FALSE
  BY <1>1, <1>9 DEF BootstrapFails, SendFails
<1>10. CASE ServerPanics
  BY <1>10, PanicSmooth
<1>11. CASE ServerCrashes
  BY <1>1, <1>11 DEF ServerCrashes
<1>12. CASE UNCHANGED vars
  <2>1. UNCHANGED <<cfg, plan, status, tries, todo, failing, live, stale, waiting, mach, known,
                    clusters, state, faults, mishaps, result>>
    BY <1>12 DEF vars, runVars, cmdVars, machVars
  <2>2. \A p : Served(p)' = Served(p)
    BY <2>1 DEF Served, Fresh
  <2>3. Traces' <=> Traces
    BY <2>1, <2>2 DEF Traces, Marked, Machines, First
  <2>4. InLine'
    BY <2>1 DEF Smooth, InLine, In
  <2> QED BY <2>1, <2>3, <2>4 DEF Smooth, Machines
<1> QED BY <1>2, <1>3, <1>4, <1>5, <1>6, <1>7, <1>8, <1>9, <1>10, <1>11, <1>12
        DEF Next, Progress, Mishap, AtRest

(* Faults are only ever counted up.                                           *)
LEMMA FaultsCounted ==
  ASSUME Shape, [Next]_vars, faults' = 0
  PROVE  faults = 0
<1>1. faults \in Nat
  BY DeploymentAssumption DEF Shape
<1>2. ASSUME MayFault \/ UNCHANGED faults PROVE faults = 0
  BY <1>1, <1>2 DEF MayFault
<1>3. ASSUME NEW p \in plan.phases, Finish(p) \/ Retry(p) \/ GiveUp(p) PROVE UNCHANGED faults
  BY <1>3 DEF Finish, Retry, GiveUp
<1>4. ASSUME NEW c \in live \cup stale,
             Refuse(c) \/ EtcdHealthy(c) \/ EtcdTimesOut(c) \/ SendFails(c) \/ BootstrapFails(c)
             \/ Perform(c)
      PROVE  MayFault \/ UNCHANGED faults
  BY <1>4 DEF Refuse, EtcdHealthy, EtcdTimesOut, SendFails, BootstrapFails, Perform
<1>5. CASE StartWave \/ TearDown \/ ServerPanics \/ ServerCrashes \/ UNCHANGED vars
  BY <1>2, <1>5 DEF StartWave, TearDown, ServerPanics, ServerCrashes, vars
<1> QED BY <1>2, <1>3, <1>4, <1>5 DEF Next, Progress, Mishap, AtRest

--------------------------------------------------------------------------------
(* The theorems.                                                              *)

(* executor.go: whatever fails, is retried, given up or resumed, the statuses *)
(* and attempts of the phases, the commands under way and the machines stay   *)
(* within their types; commands go to machines of the run only.               *)
THEOREM DeploymentTyped == Spec => []TypeOK
<1>1. Control => TypeOK
  <2> SUFFICES ASSUME Shape PROVE TypeOK
    BY DEF Control
  <2>1. \A p \in plan.phases : ToSet(todo[p]) \subseteq Machines
    <3>1. ASSUME NEW p \in plan.phases PROVE ToSet(todo[p]) \subseteq Machines
      <4>1. PICK s : s = todo[p]
        OBVIOUS
      <4>2. s \in Seq(Machines)
        BY <4>1 DEF Shape
      <4> QED BY <4>1, <4>2 DEF ToSet
    <3> QED BY <3>1
  <2>2. failing \subseteq plan.phases
    BY DEF Shape, In
  <2>3. \A m \in Machines :
          mach[m].boot \in {"no", "ok", "failed"} /\ mach[m].data \in 0 .. clusters
    BY DEF Shape, MachineRecs
  <2> QED BY <2>1, <2>2, <2>3 DEF TypeOK, Shape
<1> QED BY <1>1, Invariant, PTL

(* executor.go: the bootstrap of an agent is tried once and its error kept:   *)
(* install_monitor has a command for every machine, so no workload ends well  *)
(* in a run that has a machine without its base packages.                     *)
THEOREM BootstrapFailureFailsRunHolds == Spec => []BootstrapFailureFailsRun
BY BootedInTheEnd, Invariant, PTL

(* builder.go: the dependencies of run_stroppy cover all that the workload    *)
(* connects to.  Whatever configurations are accepted, provided each lists    *)
(* the machines that its features ask for: while the workload runs, every     *)
(* database machine is a running member of one and the same cluster, with its *)
(* pooler and its proxy, and every machine is monitored.                      *)
THEOREM WorkloadOnReadyClusterHolds ==
  ASSUME \A c \in Configs : Complete(c)
  PROVE  Spec => []WorkloadOnReadyCluster
<1>1. Control /\ Effects => WorkloadOnReadyCluster
  <2> SUFFICES ASSUME Control, Effects PROVE WorkloadOnReadyCluster
    OBVIOUS
  <2>1. cfg \in Configs
    BY DEF Control, Shape
  <2> QED BY <2>1, ReadyForWorkload
<1> QED BY <1>1, Invariant, PTL

(* builder.go: the dependencies of a phase cover what its scripts rely on,    *)
(* for every configuration that gives Patroni its etcd, as all presets do.    *)
(* The installed software, the first machine that the others join, the quorum *)
(* of etcd and the storage nodes are there whenever a script that is waited   *)
(* for turns to them, unless an error before it was not reported.             *)
THEOREM NothingMissingHolds ==
  ASSUME \A c \in Configs : NeedsPatroni(c) => NeedsEtcd(c)
  PROVE  Spec => []NothingMissing
<1>1. Init => NothingMissing
  BY DEF Init, NothingMissing
<1>2. Control /\ Effects /\ NothingMissing /\ [Next]_vars => NothingMissing'
  <2>1. Control => cfg \in Configs
    BY DEF Control, Shape
  <2> QED BY <2>1, MissingStep
<1> QED BY <1>1, <1>2, Invariant, PTL DEF Spec

(* builder.go: "Patroni REPLACES the PG configure phase entirely", and so on. *)
(* Whatever configurations are accepted, provided they give Patroni its etcd  *)
(* and list no machine of Patroni or of MySQL replication twice: in a run     *)
(* without faults every script succeeds, and none starts what runs, joins     *)
(* what it has joined or clears the data of what runs, in whatever order the  *)
(* agents take their commands and even after a panic of the server.           *)
THEOREM FirstPassCleanHolds ==
  ASSUME \A c \in Configs : NeedsPatroni(c) => NeedsEtcd(c),
         \A c \in Configs : NeedsPatroni(c) \/ (c.kind = "mysql" /\ "group" \notin c.features) =>
           NamedOnce(c)
  PROVE  Spec => []FirstPassClean
<1>0. Control => Fitted(cfg) /\ Shape
  BY DEF Control, Shape, Fitted
<1>1. Init => FirstPass
  <2> SUFFICES ASSUME Init PROVE Smooth
    BY DEF FirstPass
  <2>1. /\ mishaps = {} /\ stale = {} /\ failing = {} /\ live = {} /\ known = 0
        /\ \A m \in Machines : mach[m] = Bare
        /\ status = [p \in plan.phases |-> "pending"]
    BY DEF Init
  <2>2. \A m \in Machines : mach[m].up = {} /\ mach[m].data = 0 /\ mach[m].boot = "no"
    BY <2>1 DEF Bare
  <2>3. Traces
    BY <2>1, <2>2 DEF Traces, Marked
  <2>4. InLine
    BY <2>1 DEF InLine, In
  <2> QED BY <2>1, <2>2, <2>3, <2>4 DEF Smooth
<1>2. Control /\ Effects /\ FirstPass /\ [Next]_vars => FirstPass'
  BY <1>0, SmoothStep, FaultsCounted DEF FirstPass
<1>3. FirstPass => FirstPassClean
  BY DEF FirstPass, Smooth, FirstPassClean
<1> QED BY <1>1, <1>2, <1>3, Invariant, PTL DEF Spec

(* builder.go (fillMachinesFromTopology): of a topology it makes at most one  *)
(* specification of database machines, Picodata's groups of instances apart,  *)
(* and the machines of one specification are numbered: the hypothesis         *)
(* NamedOnce excludes lists of machines written by hand only.                 *)
THEOREM TopologyNamesOnce ==
  ASSUME NEW c, c.machines = <<>>, c.kind # "picodata",
         FillMachinesFromTopology(c) \in Seq([role : STRING, count : Nat])
  PROVE  NamedOnce(c)
<1> DEFINE R == [role : STRING, count : Nat]
<1> DEFINE db == DatabaseSpecs(c)
<1> DEFINE px == IF NeedsProxy(c) THEN <<[role |-> "proxy", count |-> c.proxies]>> ELSE <<>>
<1> DEFINE run == <<[role |-> "stroppy", count |-> 1]>>
<1> DEFINE list == FillMachinesFromTopology(c)
<1> DEFINE mine == OfRole(list, "database")
<1> DEFINE seqs == [k \in DOMAIN mine |-> [i \in 1 .. mine[k].count |-> <<"database", i>>]]
<1>1. list = db \o px \o run
  BY DEF FillMachinesFromTopology
<1>2. db = <<>> \/ \E n : db = <<[role |-> "database", count |-> n]>>
  BY DEF DatabaseSpecs, DatabaseSpec
<1>3. list \in Seq(R)
  OBVIOUS
<1>4. Provisioned(c).database = FlattenSeq(seqs)
  BY DEF Provisioned, TargetsOfRole
<1> HIDE DEF db
<1>5. Len(list) \in Nat /\ (Together(list, "database", 0, 0)
                             \/ (Together(list, "database", 0, 1) /\ 1 <= Len(list)))
  <2>1. CASE db = <<>>
    BY <1>1, <2>1 DEF Together
  <2>2. CASE \E n : db = <<[role |-> "database", count |-> n]>>
    BY <1>1, <2>2 DEF Together
  <2> QED BY <1>2, <2>1, <2>2
<1> HIDE DEF list, R
<1>6. mine \in Seq(R) /\ Len(mine) \in {0, 1}
  <2>1. CASE Together(list, "database", 0, 0)
    <3>1. 0 \in 0 .. Len(list) /\ 0 \in 0 .. Len(list)
      BY <1>5
    <3>2. OfRole(list, "database") \in Seq(R) /\ Len(OfRole(list, "database")) = 0 - 0
      BY ONLY <1>3, <2>1, <3>1, SelectedPart
    <3> QED BY <3>2
  <2>2. CASE Together(list, "database", 0, 1) /\ 1 <= Len(list)
    <3>1. PICK lo \in 0 .. Len(list) : lo = 0
      BY <1>5
    <3>2. PICK hi \in lo .. Len(list) : hi = 1
      BY <1>5, <2>2, <3>1
    <3>3. Together(list, "database", lo, hi)
      BY <2>2, <3>1, <3>2
    <3>4. OfRole(list, "database") \in Seq(R) /\ Len(OfRole(list, "database")) = hi - lo
      BY ONLY <1>3, <3>3, SelectedPart
    <3> QED BY <3>1, <3>2, <3>4
  <2> QED BY <1>5, <2>1, <2>2
<1> HIDE DEF mine
<1>7. /\ DOMAIN mine = 1 .. Len(mine)
      /\ \A k \in 1 .. Len(mine) : mine[k].count \in Nat
  <2>1. \A k \in 1 .. Len(mine) : mine[k] \in R
    BY <1>6, ElementOfSeq
  <2> QED BY <1>6, <2>1, LenProperties DEF R
<1>8. CASE Len(mine) = 0
  <2>1. seqs = <<>>
    BY <1>7, <1>8
  <2>2. FlattenSeq(seqs) = <<>>
    BY <2>1 DEF FlattenSeq
  <2> QED BY <1>4, <2>2 DEF NamedOnce, IsInjective
<1>9. CASE Len(mine) = 1
  <2> DEFINE E == MachineNames
  <2>1. \A i \in Nat : <<"database", i>> \in E
    BY DEF MachineNames, Roles
  <2>2. seqs \in Seq(Seq(E)) /\ Len(seqs) = 1 /\ seqs # <<>>
        /\ seqs[1] = [i \in 1 .. mine[1].count |-> <<"database", i>>]
    BY <1>7, <1>9, <2>1
  <2> HIDE DEF seqs, E
  <2>3. PICK f : JoinedStepByStep(f, seqs, E) /\ FlattenSeq(seqs) = f[Len(seqs)]
    BY <2>2, Flattened
  <2>4. FlattenSeq(seqs) = seqs[1]
    BY <2>2, <2>3 DEF JoinedStepByStep
  <2> QED BY <1>4, <2>2, <2>4 DEF NamedOnce, IsInjective
<1> QED BY <1>6, <1>8, <1>9
================================================================================
