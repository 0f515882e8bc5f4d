-------------------------- MODULE CommandChannel_proofs --------------------------
(****************************************************************************)
(* Theorems about CommandChannel, for any machines, tasks, targets, tries,  *)
(* losses and restarts of the server.  The counter of commands is any       *)
(* natural number in the invariant of the safety properties, which need no  *)
(* bound; that it stays below MaxSeq, which the type invariant says, is     *)
(* counted at the end.                                                      *)
(****************************************************************************)
EXTENDS CommandChannel, FiniteSetTheorems, TLAPS

AnyCommand == [task : Tasks, agent : Agents, seq : Nat, boot : Nat]

Types ==
  /\ task \in [Tasks -> {"idle", "sending", "ok", "failed"}]
  /\ phase \in [Sends -> {"none", "start", "waiting", "enqueue", "await", "ok", "error"}]
  /\ cmd \in [Sends -> AnyCommand \cup {NoCommand}]
  /\ seq \in Nat
  /\ boot \in Nat
  /\ healthy \in [Agents -> {"absent", "open", "closed"}]
  /\ queue \in [Agents -> Seq(AnyCommand)]
  /\ results \subseteq Agents \X Nat
  /\ reports \subseteq [id : results, ok : BOOLEAN]
  /\ agent \in [Agents -> {"idle", "polling", "executing", "reporting"}]
  /\ cur \in [Agents -> AnyCommand \cup {NoCommand}]
  /\ verdict \in [Agents -> BOOLEAN]
  /\ ran \subseteq AnyCommand
  /\ completed \subseteq ran

(* Where commands are: with a Send, in a queue, with an agent, executed.    *)
Active(s) == phase[s] \in {"waiting", "enqueue", "await", "ok"}
Held(a) == agent[a] \in {"executing", "reporting"}
Queued(a) == {queue[a][i] : i \in 1 .. Len(queue[a])}

(* Each is addressed to where it is.                                        *)
Addressed ==
  /\ \A s \in Sends : Active(s) =>
       cmd[s] \in AnyCommand /\ cmd[s].task = s[1] /\ cmd[s].agent = s[2]
         /\ cmd[s].boot = boot
  /\ \A a \in Agents : \A c \in Queued(a) : c.agent = a /\ c.boot = boot
  /\ \A a \in Agents : Held(a) => cur[a] \in AnyCommand /\ cur[a].agent = a

Issued(c) ==
  \/ c \in ran
  \/ \E s \in Sends : Active(s) /\ c = cmd[s]
  \/ \E a \in Agents : c \in Queued(a) \/ (Held(a) /\ c = cur[a])

(* The counter and the server's number tell commands apart.                 *)
Counted ==
  /\ \A c \in AnyCommand : Issued(c) => c.boot <= boot /\ (c.boot = boot => c.seq <= seq)
  /\ \A c, d \in AnyCommand :
       Issued(c) /\ Issued(d) /\ c.boot = d.boot /\ c.seq = d.seq => c = d

(* An agent that has polled this server has nothing of an earlier one, and  *)
(* only for such agents are results awaited.                                *)
PolledHere ==
  /\ \A a \in Agents : Held(a) /\ healthy[a] = "closed" => cur[a].boot = boot
  /\ \A id \in results : healthy[id[1]] = "closed"

(* Good reports are about commands of this server that were completed.      *)
ReportsTrue ==
  /\ \A a \in Agents : agent[a] = "reporting" /\ verdict[a] => cur[a] \in completed
  /\ \A r \in reports : r.ok => \E c \in completed : ID(c) = r.id /\ c.boot = boot

(* A Send is on its way only in a call of its task.                         *)
Resting == \A s \in Sends : phase[s] # "none" => task[s[1]] = "sending"

OwnInv ==
  Types /\ Addressed /\ Counted /\ PolledHere /\ ReportsTrue /\ SuccessIsOwn
    /\ Resting /\ TaskDoneEverywhere

(* Try after try, the commands of a task for a machine reach it in order.   *)
Older(c, d) == c.boot < d.boot \/ (c.boot = d.boot /\ c.seq < d.seq)

Before(c, d) == c.task = d.task /\ c.agent = d.agent => Older(c, d)

QueueOrder ==
  \A a \in Agents : \A i, j \in 1 .. Len(queue[a]) :
    i < j => Before(queue[a][i], queue[a][j])

QueueNewer ==
  \A a \in Agents : \A d \in Queued(a) :
    /\ \A c \in ran : Before(c, d)
    /\ agent[a] = "executing" => Before(cur[a], d)

Unsent(s) == phase[s] \in {"waiting", "enqueue"}

SendNewer ==
  \A s \in Sends : Unsent(s) =>
    /\ \A c \in ran : Before(c, cmd[s])
    /\ \A a \in Agents : \A c \in Queued(a) : Before(c, cmd[s])
    /\ \A a \in Agents : agent[a] = "executing" => Before(cur[a], cmd[s])

InOrder == NoRepeatNoReorder /\ QueueOrder /\ QueueNewer /\ SendNewer
--------------------------------------------------------------------------------
(* Types.                                                                   *)

LEMMA SendParts == \A s \in Sends : s[1] \in Tasks /\ s[2] \in Agents
  BY DEF Sends

(* What a queue holds after a command is added or the first one taken.      *)
LEMMA Appended ==
  ASSUME NEW S, NEW q \in Seq(S), NEW c \in S
  PROVE  /\ Append(q, c) \in Seq(S)
         /\ Len(Append(q, c)) = Len(q) + 1
         /\ \A i \in 1 .. Len(q) : Append(q, c)[i] = q[i]
         /\ Append(q, c)[Len(q) + 1] = c
  OBVIOUS

LEMMA Taken ==
  ASSUME NEW S, NEW q \in Seq(S), q # <<>>
  PROVE  /\ Len(q) \in Nat \ {0}
         /\ Head(q) = q[1] /\ Head(q) \in S
         /\ Tail(q) \in Seq(S)
         /\ Len(Tail(q)) = Len(q) - 1
         /\ \A i \in 1 .. Len(Tail(q)) : Tail(q)[i] = q[i + 1] /\ i + 1 \in 1 .. Len(q)
  OBVIOUS

LEMMA CallTypes ==
  ASSUME Types, Addressed, NEW s \in Sends, CallStep(s)
  PROVE  Types'
<1> USE SendParts DEF Types, Addressed, Active, SendFails, agentVars, history
<1>1. CASE BeginSend(s)
  <2>1. [task |-> s[1], agent |-> s[2], seq |-> seq + 1, boot |-> boot] \in AnyCommand
    BY DEF AnyCommand
  <2>2. cmd' \in [Sends -> AnyCommand \cup {NoCommand}]
    BY <1>1, <2>1 DEF BeginSend
  <2>3. /\ phase' \in [Sends -> {"none", "start", "waiting", "enqueue", "await", "ok", "error"}]
        /\ healthy' \in [Agents -> {"absent", "open", "closed"}]
        /\ seq' \in Nat
    BY <1>1 DEF BeginSend
  <2> QED
    BY <1>1, <2>2, <2>3 DEF BeginSend
<1>2. CASE AgentReady(s)
  <2>1. cmd[s] \in AnyCommand
    BY <1>2 DEF AgentReady
  <2>2. ID(cmd[s]) \in Agents \X Nat
    BY <2>1 DEF ID, AnyCommand
  <2>3. results' \subseteq Agents \X Nat /\ reports' \subseteq [id : results', ok : BOOLEAN]
    BY <1>2, <2>2 DEF AgentReady
  <2>4. phase' \in [Sends -> {"none", "start", "waiting", "enqueue", "await", "ok", "error"}]
    BY <1>2 DEF AgentReady
  <2> QED
    BY <1>2, <2>3, <2>4 DEF AgentReady
<1>3. CASE AgentAbsent(s)
  BY <1>3 DEF AgentAbsent, tableVars
<1>4. CASE Enqueue(s)
  <2>1. queue' \in [Agents -> Seq(AnyCommand)]
    BY <1>4, Appended DEF Enqueue
  <2> QED
    BY <1>4, <2>1 DEF Enqueue
<1>5. CASE TakeReport(s)
  <2>1. results' \subseteq Agents \X Nat /\ reports' \subseteq [id : results', ok : BOOLEAN]
    BY <1>5 DEF TakeReport, Unregister
  <2>2. phase' \in [Sends -> {"none", "start", "waiting", "enqueue", "await", "ok", "error"}]
    BY <1>5 DEF TakeReport
  <2> QED
    BY <1>5, <2>1, <2>2 DEF TakeReport
<1>6. CASE AbortSend(s)
  BY <1>6 DEF AbortSend, Unregister
<1> QED
  BY <1>1, <1>2, <1>3, <1>4, <1>5, <1>6 DEF CallStep

LEMMA AgentTypes ==
  ASSUME Types, Addressed, NEW a \in Agents, AgentStep(a) \/ Fault(a)
  PROVE  Types'
<1> USE DEF Types, Addressed, Held, callVars, tableVars, agentVars, history, Lose
<1>1. CASE Register(a)
  BY <1>1 DEF Register
<1>2. CASE PollArrives(a)
  BY <1>2 DEF PollArrives
<1>3. CASE PollAnswers(a)
  BY <1>3, Taken DEF PollAnswers
<1>4. CASE PollTimesOut(a)
  BY <1>4 DEF PollTimesOut
<1>5. CASE Execute(a)
  BY <1>5 DEF Execute
<1>6. CASE SendReport(a)
  BY <1>6 DEF SendReport, DeliverReport
<1>7. CASE PollBreaks(a)
  BY <1>7 DEF PollBreaks
<1>8. CASE CommandSwallowed(a)
  BY <1>8, Taken DEF CommandSwallowed
<1>9. CASE DeadPollTimesOut(a)
  BY <1>9 DEF DeadPollTimesOut
<1>10. CASE ReportLost(a)
  BY <1>10 DEF ReportLost
<1>11. CASE AgentRestarts(a)
  BY <1>11 DEF AgentRestarts
<1> QED
  BY <1>1, <1>2, <1>3, <1>4, <1>5, <1>6, <1>7, <1>8, <1>9, <1>10, <1>11
     DEF AgentStep, Fault

LEMMA TaskTypes ==
  ASSUME Types,
         \/ \E t \in Tasks : StartSendAll(t) \/ EndSendAll(t)
         \/ CancelRun \/ RestartServer
  PROVE  Types'
<1> USE DEF Types, tableVars, agentVars, history
<1>1. ASSUME NEW t \in Tasks, StartSendAll(t) PROVE Types'
  BY <1>1 DEF StartSendAll
<1>2. ASSUME NEW t \in Tasks, EndSendAll(t) PROVE Types'
  BY <1>2 DEF EndSendAll
<1>3. CASE CancelRun
  BY <1>3 DEF CancelRun
<1>4. CASE RestartServer
  BY <1>4 DEF RestartServer
<1> QED
  BY <1>1, <1>2, <1>3, <1>4

--------------------------------------------------------------------------------
(* Where commands are.                                                      *)

(* How a step changes the queues.                                           *)
LEMMA QueueGrows ==
  ASSUME Types, Addressed, NEW s \in Sends, Enqueue(s)
  PROVE  \A a \in Agents : \A c \in Queued(a)' :
           c \in Queued(a) \/ (a = s[2] /\ c = cmd[s])
<1> USE SendParts DEF Types, Addressed, Active, Enqueue
<1>1. ASSUME NEW a \in Agents, a # s[2] PROVE Queued(a)' = Queued(a)
  BY <1>1 DEF Queued
<1>2. /\ Len(queue'[s[2]]) = Len(queue[s[2]]) + 1
      /\ \A i \in 1 .. Len(queue[s[2]]) : queue'[s[2]][i] = queue[s[2]][i]
      /\ queue'[s[2]][Len(queue[s[2]]) + 1] = cmd[s]
  BY Appended
<1>3. Len(queue[s[2]]) \in Nat
  OBVIOUS
<1>4. Queued(s[2])' \subseteq Queued(s[2]) \cup {cmd[s]}
  BY <1>2, <1>3 DEF Queued
<1> QED
  BY <1>1, <1>4

LEMMA QueueShrinks ==
  ASSUME Types, NEW a \in Agents, queue[a] # <<>>,
         queue' = [queue EXCEPT ![a] = Tail(@)]
  PROVE  /\ \A b \in Agents : Queued(b)' \subseteq Queued(b)
         /\ Head(queue[a]) \in Queued(a) /\ Head(queue[a]) \in AnyCommand
<1> USE DEF Types
<1>1. ASSUME NEW b \in Agents, b # a PROVE Queued(b)' = Queued(b)
  BY <1>1 DEF Queued
<1>2. Queued(a)' \subseteq Queued(a)
  BY Taken DEF Queued
<1>3. Head(queue[a]) \in Queued(a) /\ Head(queue[a]) \in AnyCommand
  BY Taken DEF Queued
<1> QED
  BY <1>1, <1>2, <1>3

LEMMA QueueStays ==
  ASSUME queue' = queue
  PROVE  \A a \in Agents : Queued(a)' = Queued(a)
  BY DEF Queued

LEMMA QueuesEmpty ==
  ASSUME RestartServer
  PROVE  \A a \in Agents : Queued(a)' = {}
  BY DEF RestartServer, Queued

LEMMA CallAddressed ==
  ASSUME Types, Addressed, NEW s \in Sends, CallStep(s)
  PROVE  Addressed'
<1> USE SendParts, QueueStays DEF Types, Addressed, Active, Held, agentVars, history, tableVars
<1>1. CASE BeginSend(s)
  <2>1. [task |-> s[1], agent |-> s[2], seq |-> seq + 1, boot |-> boot] \in AnyCommand
    BY DEF AnyCommand
  <2>2. \A u \in Sends : Active(u)' =>
          cmd'[u] \in AnyCommand /\ cmd'[u].task = u[1] /\ cmd'[u].agent = u[2]
            /\ cmd'[u].boot = boot'
    BY <1>1, <2>1 DEF BeginSend
  <2> QED
    BY <1>1, <2>2 DEF BeginSend
<1>2. CASE AgentReady(s)
  BY <1>2 DEF AgentReady
<1>3. CASE AgentAbsent(s)
  BY <1>3 DEF AgentAbsent, SendFails
<1>4. CASE Enqueue(s)
  <2>1. \A a \in Agents : \A c \in Queued(a)' : c.agent = a /\ c.boot = boot'
    <3> SUFFICES ASSUME NEW a \in Agents, NEW c \in Queued(a)'
                 PROVE  c.agent = a /\ c.boot = boot
      BY <1>4 DEF Enqueue
    <3>1. c \in Queued(a) \/ (a = s[2] /\ c = cmd[s])
      BY <1>4, QueueGrows
    <3>2. cmd[s].agent = s[2] /\ cmd[s].boot = boot
      BY <1>4 DEF Enqueue
    <3> QED
      BY <3>1, <3>2
  <2>2. \A u \in Sends : Active(u)' => Active(u) /\ cmd'[u] = cmd[u]
    BY <1>4 DEF Enqueue
  <2> QED
    BY <1>4, <2>1, <2>2 DEF Enqueue
<1>5. CASE TakeReport(s)
  BY <1>5 DEF TakeReport, Unregister, SendFails
<1>6. CASE AbortSend(s)
  BY <1>6 DEF AbortSend, Unregister, SendFails
<1> QED
  BY <1>1, <1>2, <1>3, <1>4, <1>5, <1>6 DEF CallStep

LEMMA AgentAddressed ==
  ASSUME Types, Addressed, NEW a \in Agents, AgentStep(a) \/ Fault(a)
  PROVE  Addressed'
<1> USE QueueStays DEF Types, Addressed, Active, Held, agentVars, history, tableVars,
        callVars, Lose
<1>1. CASE Register(a)
  BY <1>1 DEF Register
<1>2. CASE PollArrives(a)
  BY <1>2 DEF PollArrives
<1>3. CASE PollAnswers(a)
  <2>1. /\ Head(queue[a]) \in Queued(a) /\ Head(queue[a]) \in AnyCommand
        /\ \A b \in Agents : Queued(b)' \subseteq Queued(b)
    BY <1>3, QueueShrinks DEF PollAnswers
  <2>2. \A b \in Agents : Held(b)' => (Held(b) /\ cur'[b] = cur[b])
                                     \/ (b = a /\ cur'[b] = Head(queue[a]))
    BY <1>3 DEF PollAnswers
  <2>3. /\ boot' = boot
        /\ \A u \in Sends : Active(u)' => Active(u) /\ cmd'[u] = cmd[u]
    BY <1>3 DEF PollAnswers, Active
  <2> HIDE DEF Types, Held
  <2> QED
    BY <2>1, <2>2, <2>3
<1>4. CASE PollTimesOut(a)
  BY <1>4 DEF PollTimesOut
<1>5. CASE Execute(a)
  BY <1>5 DEF Execute
<1>6. CASE SendReport(a)
  BY <1>6 DEF SendReport, DeliverReport
<1>7. CASE PollBreaks(a)
  BY <1>7 DEF PollBreaks
<1>8. CASE CommandSwallowed(a)
  BY <1>8, QueueShrinks DEF CommandSwallowed
<1>9. CASE DeadPollTimesOut(a)
  BY <1>9 DEF DeadPollTimesOut
<1>10. CASE ReportLost(a)
  BY <1>10 DEF ReportLost
<1>11. CASE AgentRestarts(a)
  BY <1>11 DEF AgentRestarts
<1> QED
  BY <1>1, <1>2, <1>3, <1>4, <1>5, <1>6,
     <1>7, <1>8, <1>9, <1>10, <1>11 DEF AgentStep, Fault

LEMMA TaskAddressed ==
  ASSUME Types, Addressed,
         \/ \E t \in Tasks : StartSendAll(t) \/ EndSendAll(t)
         \/ CancelRun \/ RestartServer
  PROVE  Addressed'
<1> USE SendParts, QueueStays DEF Types, Addressed, Active, Held, agentVars, history, tableVars
<1>1. ASSUME NEW t \in Tasks, StartSendAll(t) PROVE Addressed'
  BY <1>1 DEF StartSendAll
<1>2. ASSUME NEW t \in Tasks, EndSendAll(t) PROVE Addressed'
  BY <1>2 DEF EndSendAll
<1>3. CASE CancelRun
  BY <1>3 DEF CancelRun
<1>4. CASE RestartServer
  BY <1>4, QueuesEmpty DEF RestartServer
<1> QED
  BY <1>1, <1>2, <1>3, <1>4

(* Only BeginSend makes a command; everything else moves or drops some.     *)
LEMMA NothingIssued ==
  ASSUME Types, Counted, \A c : Issued(c)' => Issued(c), boot' = boot, seq' = seq
  PROVE  Counted'
  BY DEF Counted

LEMMA CallIssues ==
  ASSUME Types, Addressed, NEW s \in Sends, CallStep(s), ~BeginSend(s)
  PROVE  \A c : Issued(c)' => Issued(c)
<1> USE SendParts, QueueStays DEF Types, Addressed, Active, Held, Issued, agentVars, history,
        tableVars
<1>2. CASE AgentReady(s)
  BY <1>2 DEF AgentReady
<1>3. CASE AgentAbsent(s)
  BY <1>3 DEF AgentAbsent, SendFails
<1>4. CASE Enqueue(s)
  <2>1. \A a \in Agents : \A c \in Queued(a)' : c \in Queued(a) \/ c = cmd[s]
    BY <1>4, QueueGrows
  <2>2. \A u \in Sends : Active(u)' => Active(u) /\ cmd'[u] = cmd[u]
    BY <1>4 DEF Enqueue
  <2>3. \A a \in Agents : Held(a)' => Held(a) /\ cur'[a] = cur[a]
    BY <1>4 DEF Enqueue
  <2>4. ran' = ran /\ Active(s)
    BY <1>4 DEF Enqueue
  <2> QED
    BY <2>1, <2>2, <2>3, <2>4
<1>5. CASE TakeReport(s)
  BY <1>5 DEF TakeReport, Unregister, SendFails
<1>6. CASE AbortSend(s)
  BY <1>6 DEF AbortSend, Unregister, SendFails
<1> QED
  BY <1>2, <1>3, <1>4, <1>5, <1>6 DEF CallStep

LEMMA AgentIssues ==
  ASSUME Types, Addressed, NEW a \in Agents, AgentStep(a) \/ Fault(a)
  PROVE  \A c : Issued(c)' => Issued(c)
<1> USE QueueStays DEF Types, Addressed, Active, Held, Issued, agentVars, history,
        tableVars, callVars, Lose
<1>1. CASE Register(a)
  BY <1>1 DEF Register
<1>2. CASE PollArrives(a)
  BY <1>2 DEF PollArrives
<1>3. CASE PollAnswers(a)
  <2>1. Head(queue[a]) \in Queued(a) /\ \A b \in Agents : Queued(b)' \subseteq Queued(b)
    BY <1>3, QueueShrinks DEF PollAnswers
  <2>2. \A b \in Agents : Held(b)' => (Held(b) /\ cur'[b] = cur[b]) \/ cur'[b] = Head(queue[a])
    BY <1>3 DEF PollAnswers
  <2>3. /\ ran' = ran
        /\ \A u \in Sends : Active(u)' => Active(u) /\ cmd'[u] = cmd[u]
    BY <1>3 DEF PollAnswers
  <2> HIDE DEF Types, Addressed, Active, Held
  <2> QED
    BY <2>1, <2>2, <2>3 DEF Issued
<1>4. CASE PollTimesOut(a)
  BY <1>4 DEF PollTimesOut
<1>5. CASE Execute(a)
  BY <1>5 DEF Execute
<1>6. CASE SendReport(a)
  BY <1>6 DEF SendReport, DeliverReport
<1>7. CASE PollBreaks(a)
  BY <1>7 DEF PollBreaks
<1>8. CASE CommandSwallowed(a)
  BY <1>8, QueueShrinks DEF CommandSwallowed
<1>9. CASE DeadPollTimesOut(a)
  BY <1>9 DEF DeadPollTimesOut
<1>10. CASE ReportLost(a)
  BY <1>10 DEF ReportLost
<1>11. CASE AgentRestarts(a)
  BY <1>11 DEF AgentRestarts
<1> QED
  BY <1>1, <1>2, <1>3, <1>4, <1>5, <1>6,
     <1>7, <1>8, <1>9, <1>10, <1>11 DEF AgentStep, Fault

LEMMA CallCounted ==
  ASSUME Types, Addressed, Counted, NEW s \in Sends, CallStep(s)
  PROVE  Counted'
<1>1. CASE BeginSend(s)
  <2> DEFINE new == [task |-> s[1], agent |-> s[2], seq |-> seq + 1, boot |-> boot]
  <2>1. \A c : Issued(c)' => Issued(c) \/ c = new
    BY <1>1, QueueStays DEF BeginSend, Issued, Active, Held, Types, agentVars, history
  <2>2. new.seq = seq + 1 /\ new.boot = boot /\ seq' = seq + 1 /\ boot' = boot
    BY <1>1 DEF BeginSend
  <2> HIDE DEF new
  <2>3. \A c \in AnyCommand : c.seq \in Nat /\ c.boot \in Nat
    BY DEF AnyCommand
  <2>4. \A c \in AnyCommand :
          Issued(c)' => c.boot <= boot /\ (c.boot = boot => c.seq <= seq + 1)
    BY <2>1, <2>2, <2>3 DEF Counted, Types
  <2>5. \A c, d \in AnyCommand :
          Issued(c)' /\ Issued(d)' /\ c.boot = d.boot /\ c.seq = d.seq => c = d
    <3> SUFFICES ASSUME NEW c \in AnyCommand, NEW d \in AnyCommand, Issued(c)', Issued(d)',
                        c.boot = d.boot, c.seq = d.seq
                 PROVE  c = d
      OBVIOUS
    <3>1. CASE c = new \/ d = new
      BY <2>1, <2>2, <2>3, <3>1 DEF Counted, Types
    <3>2. CASE c # new /\ d # new
      BY <2>1, <3>2 DEF Counted
    <3> QED
      BY <3>1, <3>2
  <2> QED
    BY <2>2, <2>4, <2>5 DEF Counted
<1>2. CASE ~BeginSend(s)
  <2>1. \A c : Issued(c)' => Issued(c)
    BY <1>2, CallIssues
  <2>2. boot' = boot /\ seq' = seq
    BY <1>2 DEF CallStep, AgentReady, AgentAbsent, Enqueue, TakeReport, AbortSend
  <2> QED
    BY <2>1, <2>2, NothingIssued
<1> QED
  BY <1>1, <1>2

LEMMA AgentCounted ==
  ASSUME Types, Addressed, Counted, NEW a \in Agents, AgentStep(a) \/ Fault(a)
  PROVE  Counted'
<1>1. \A c : Issued(c)' => Issued(c)
  BY AgentIssues
<1>2. boot' = boot /\ seq' = seq
  BY DEF AgentStep, Fault, Register, PollArrives, PollAnswers, PollTimesOut, Execute, SendReport,
     PollBreaks, CommandSwallowed, DeadPollTimesOut, ReportLost, AgentRestarts, callVars
<1> QED
  BY <1>1, <1>2, NothingIssued

LEMMA TaskIssues ==
  ASSUME Types,
         \/ \E t \in Tasks : StartSendAll(t) \/ EndSendAll(t)
         \/ CancelRun \/ RestartServer
  PROVE  \A c : Issued(c)' => Issued(c)
<1> USE QueueStays DEF Types, Active, Held, Issued, agentVars, history, tableVars
<1>1. ASSUME NEW t \in Tasks, StartSendAll(t) PROVE \A c : Issued(c)' => Issued(c)
  BY <1>1 DEF StartSendAll
<1>2. ASSUME NEW t \in Tasks, EndSendAll(t) PROVE \A c : Issued(c)' => Issued(c)
  BY <1>2 DEF EndSendAll
<1>3. CASE CancelRun
  BY <1>3 DEF CancelRun
<1>4. CASE RestartServer
  BY <1>4, QueuesEmpty DEF RestartServer
<1> QED
  BY <1>1, <1>2, <1>3, <1>4

LEMMA TaskCounted ==
  ASSUME Types, Counted,
         \/ \E t \in Tasks : StartSendAll(t) \/ EndSendAll(t)
         \/ CancelRun \/ RestartServer
  PROVE  Counted'
<1>1. \A c : Issued(c)' => Issued(c)
  BY TaskIssues
<1>2. CASE RestartServer
  <2>1. boot' = boot + 1 /\ boot \in Nat
    BY <1>2 DEF RestartServer, Types
  <2>2. \A c \in AnyCommand : c.boot \in Nat
    BY DEF AnyCommand
  <2> QED
    BY <1>1, <2>1, <2>2 DEF Counted
<1>3. CASE ~RestartServer
  <2>1. boot' = boot /\ seq' = seq
    BY <1>3 DEF StartSendAll, EndSendAll, CancelRun
  <2> QED
    BY <1>1, <2>1, NothingIssued
<1> QED
  BY <1>2, <1>3

--------------------------------------------------------------------------------
(* Whose success it is.                                                     *)

LEMMA CallPolled ==
  ASSUME Types, Addressed, PolledHere, NEW s \in Sends, CallStep(s)
  PROVE  PolledHere'
<1> USE SendParts DEF Types, Addressed, PolledHere, Active, Held, agentVars, history, tableVars
<1>1. CASE BeginSend(s)
  BY <1>1 DEF BeginSend
<1>2. CASE AgentReady(s)
  BY <1>2 DEF AgentReady, ID
<1>3. CASE AgentAbsent(s)
  BY <1>3 DEF AgentAbsent, SendFails
<1>4. CASE Enqueue(s)
  BY <1>4 DEF Enqueue
<1>5. CASE TakeReport(s)
  BY <1>5 DEF TakeReport, Unregister, SendFails
<1>6. CASE AbortSend(s)
  BY <1>6 DEF AbortSend, Unregister, SendFails
<1> QED
  BY <1>1, <1>2, <1>3, <1>4, <1>5, <1>6 DEF CallStep

LEMMA AgentPolled ==
  ASSUME Types, Addressed, PolledHere, NEW a \in Agents, AgentStep(a) \/ Fault(a)
  PROVE  PolledHere'
<1> USE DEF Types, Addressed, PolledHere, Held, agentVars, history, tableVars, callVars, Lose
<1>1. CASE Register(a)
  BY <1>1 DEF Register
<1>2. CASE PollArrives(a)
  BY <1>2 DEF PollArrives
<1>3. CASE PollAnswers(a)
  <2>1. Head(queue[a]).boot = boot
    BY <1>3, QueueShrinks DEF PollAnswers
  <2> QED
    BY <1>3, <2>1 DEF PollAnswers
<1>4. CASE PollTimesOut(a)
  BY <1>4 DEF PollTimesOut
<1>5. CASE Execute(a)
  BY <1>5 DEF Execute
<1>6. CASE SendReport(a)
  BY <1>6 DEF SendReport, DeliverReport
<1>7. CASE PollBreaks(a)
  BY <1>7 DEF PollBreaks
<1>8. CASE CommandSwallowed(a)
  BY <1>8 DEF CommandSwallowed
<1>9. CASE DeadPollTimesOut(a)
  BY <1>9 DEF DeadPollTimesOut
<1>10. CASE ReportLost(a)
  BY <1>10 DEF ReportLost
<1>11. CASE AgentRestarts(a)
  BY <1>11 DEF AgentRestarts
<1> QED
  BY <1>1, <1>2, <1>3, <1>4, <1>5, <1>6,
     <1>7, <1>8, <1>9, <1>10, <1>11 DEF AgentStep, Fault

LEMMA TaskPolled ==
  ASSUME Types, Addressed, PolledHere,
         \/ \E t \in Tasks : StartSendAll(t) \/ EndSendAll(t)
         \/ CancelRun \/ RestartServer
  PROVE  PolledHere'
<1> USE DEF Types, Addressed, PolledHere, Held, agentVars, history, tableVars, callVars, Lose
<1>1. ASSUME NEW t \in Tasks, StartSendAll(t) PROVE PolledHere'
  BY <1>1 DEF StartSendAll
<1>2. ASSUME NEW t \in Tasks, EndSendAll(t) PROVE PolledHere'
  BY <1>2 DEF EndSendAll
<1>3. CASE CancelRun
  BY <1>3 DEF CancelRun
<1>4. CASE RestartServer
  BY <1>4 DEF RestartServer
<1> QED
  BY <1>1, <1>2, <1>3, <1>4

LEMMA CallReports ==
  ASSUME Types, Addressed, PolledHere, ReportsTrue, NEW s \in Sends, CallStep(s)
  PROVE  ReportsTrue'
<1> USE SendParts DEF Types, Addressed, PolledHere, ReportsTrue, Active, Held, agentVars, history,
        tableVars, callVars, Lose
<1>1. CASE BeginSend(s)
  BY <1>1 DEF BeginSend
<1>2. CASE AgentReady(s)
  BY <1>2 DEF AgentReady
<1>3. CASE AgentAbsent(s)
  BY <1>3 DEF AgentAbsent, SendFails
<1>4. CASE Enqueue(s)
  BY <1>4 DEF Enqueue
<1>5. CASE TakeReport(s)
  BY <1>5 DEF TakeReport, Unregister, SendFails
<1>6. CASE AbortSend(s)
  BY <1>6 DEF AbortSend, Unregister, SendFails
<1> QED
  BY <1>1, <1>2, <1>3, <1>4, <1>5, <1>6 DEF CallStep

LEMMA AgentReports ==
  ASSUME Types, Addressed, PolledHere, ReportsTrue, NEW a \in Agents, AgentStep(a) \/ Fault(a)
  PROVE  ReportsTrue'
<1> USE SendParts DEF Types, Addressed, PolledHere, ReportsTrue, Active, Held, agentVars, history,
        tableVars, callVars, Lose
<1>1. CASE Register(a)
  BY <1>1 DEF Register
<1>2. CASE PollArrives(a)
  BY <1>2 DEF PollArrives
<1>3. CASE PollAnswers(a)
  BY <1>3 DEF PollAnswers
<1>4. CASE PollTimesOut(a)
  BY <1>4 DEF PollTimesOut
<1>5. CASE Execute(a)
  BY <1>5 DEF Execute
<1>6. CASE SendReport(a)
  <2>1. cur[a] \in AnyCommand /\ cur[a].agent = a /\ ID(cur[a])[1] = a
    BY <1>6 DEF SendReport, ID
  <2>2. ASSUME NEW r \in reports', r \notin reports, r.ok
        PROVE  cur[a] \in completed /\ ID(cur[a]) = r.id /\ cur[a].boot = boot
    <3>1. r = [id |-> ID(cur[a]), ok |-> verdict[a]] /\ ID(cur[a]) \in results
      BY <1>6, <2>2 DEF SendReport, DeliverReport
    <3>2. healthy[a] = "closed"
      BY <2>1, <3>1
    <3> QED
      BY <1>6, <2>2, <3>1, <3>2 DEF SendReport
  <2>3. completed' = completed /\ boot' = boot
    BY <1>6 DEF SendReport
  <2>4. \A r \in reports' : r.ok => \E c \in completed : ID(c) = r.id /\ c.boot = boot
    BY <2>2
  <2> QED
    BY <1>6, <2>3, <2>4 DEF SendReport
<1>7. CASE PollBreaks(a)
  BY <1>7 DEF PollBreaks
<1>8. CASE CommandSwallowed(a)
  BY <1>8 DEF CommandSwallowed
<1>9. CASE DeadPollTimesOut(a)
  BY <1>9 DEF DeadPollTimesOut
<1>10. CASE ReportLost(a)
  BY <1>10 DEF ReportLost
<1>11. CASE AgentRestarts(a)
  BY <1>11 DEF AgentRestarts
<1> QED
  BY <1>1, <1>2, <1>3, <1>4, <1>5, <1>6,
     <1>7, <1>8, <1>9, <1>10, <1>11 DEF AgentStep, Fault

LEMMA TaskReports ==
  ASSUME Types, Addressed, PolledHere, ReportsTrue,
         \/ \E t \in Tasks : StartSendAll(t) \/ EndSendAll(t)
         \/ CancelRun \/ RestartServer
  PROVE  ReportsTrue'
<1> USE SendParts DEF Types, Addressed, PolledHere, ReportsTrue, Active, Held, agentVars, history,
        tableVars, callVars, Lose
<1>1. ASSUME NEW t \in Tasks, StartSendAll(t) PROVE ReportsTrue'
  BY <1>1 DEF StartSendAll
<1>2. ASSUME NEW t \in Tasks, EndSendAll(t) PROVE ReportsTrue'
  BY <1>2 DEF EndSendAll
<1>3. CASE CancelRun
  BY <1>3 DEF CancelRun
<1>4. CASE RestartServer
  BY <1>4 DEF RestartServer
<1> QED
  BY <1>1, <1>2, <1>3, <1>4

(* A Send that takes a good report has had its own command completed.       *)
LEMMA ReportIsOwn ==
  ASSUME Types, Addressed, Counted, ReportsTrue, NEW s \in Sends, phase[s] = "await",
         NEW r \in reports, r.id = ID(cmd[s]), r.ok
  PROVE  cmd[s] \in completed
<1>1. PICK c \in completed : ID(c) = r.id /\ c.boot = boot
  BY DEF ReportsTrue
<1>2. cmd[s] \in AnyCommand /\ cmd[s].boot = boot /\ Issued(cmd[s])
  BY DEF Addressed, Active, Issued
<1>3. c \in AnyCommand /\ Issued(c)
  BY DEF Types, Issued
<1>4. c.seq = cmd[s].seq
  BY <1>1 DEF ID
<1> QED
  BY <1>1, <1>2, <1>3, <1>4 DEF Counted

LEMMA CallSuccess ==
  ASSUME Types, Addressed, Counted, ReportsTrue, SuccessIsOwn, NEW s \in Sends, CallStep(s)
  PROVE  SuccessIsOwn'
<1> USE DEF Types, SuccessIsOwn, agentVars, history, tableVars, callVars, Lose
<1>1. CASE BeginSend(s)
  BY <1>1 DEF BeginSend
<1>2. CASE AgentReady(s)
  BY <1>2 DEF AgentReady
<1>3. CASE AgentAbsent(s)
  BY <1>3 DEF AgentAbsent, SendFails
<1>4. CASE Enqueue(s)
  BY <1>4 DEF Enqueue
<1>5. CASE TakeReport(s)
  BY <1>5, ReportIsOwn DEF TakeReport, SendFails
<1>6. CASE AbortSend(s)
  BY <1>6 DEF AbortSend, Unregister, SendFails
<1> QED
  BY <1>1, <1>2, <1>3, <1>4, <1>5, <1>6 DEF CallStep

LEMMA AgentSuccess ==
  ASSUME Types, SuccessIsOwn, NEW a \in Agents, AgentStep(a) \/ Fault(a)
  PROVE  SuccessIsOwn'
<1> USE DEF Types, SuccessIsOwn, agentVars, history, tableVars, callVars, Lose
<1>1. CASE Register(a)
  BY <1>1 DEF Register
<1>2. CASE PollArrives(a)
  BY <1>2 DEF PollArrives
<1>3. CASE PollAnswers(a)
  BY <1>3 DEF PollAnswers
<1>4. CASE PollTimesOut(a)
  BY <1>4 DEF PollTimesOut
<1>5. CASE Execute(a)
  BY <1>5 DEF Execute
<1>6. CASE SendReport(a)
  BY <1>6 DEF SendReport
<1>7. CASE PollBreaks(a)
  BY <1>7 DEF PollBreaks
<1>8. CASE CommandSwallowed(a)
  BY <1>8 DEF CommandSwallowed
<1>9. CASE DeadPollTimesOut(a)
  BY <1>9 DEF DeadPollTimesOut
<1>10. CASE ReportLost(a)
  BY <1>10 DEF ReportLost
<1>11. CASE AgentRestarts(a)
  BY <1>11 DEF AgentRestarts
<1> QED
  BY <1>1, <1>2, <1>3, <1>4, <1>5, <1>6,
     <1>7, <1>8, <1>9, <1>10, <1>11 DEF AgentStep, Fault

LEMMA TaskSuccess ==
  ASSUME Types, SuccessIsOwn,
         \/ \E t \in Tasks : StartSendAll(t) \/ EndSendAll(t)
         \/ CancelRun \/ RestartServer
  PROVE  SuccessIsOwn'
<1> USE DEF Types, SuccessIsOwn, agentVars, history, tableVars, callVars, Lose
<1>1. ASSUME NEW t \in Tasks, StartSendAll(t) PROVE SuccessIsOwn'
  BY <1>1 DEF StartSendAll
<1>2. ASSUME NEW t \in Tasks, EndSendAll(t) PROVE SuccessIsOwn'
  BY <1>2 DEF EndSendAll
<1>3. CASE CancelRun
  BY <1>3 DEF CancelRun
<1>4. CASE RestartServer
  BY <1>4 DEF RestartServer
<1> QED
  BY <1>1, <1>2, <1>3, <1>4

LEMMA CompletedGrows ==
  ASSUME [Next]_vars
  PROVE  completed \subseteq completed'
  BY DEF Next, CallStep, AgentStep, Fault, StartSendAll, EndSendAll, BeginSend, AgentReady,
     AgentAbsent, Enqueue, TakeReport, AbortSend, CancelRun, RestartServer, Register,
     PollArrives, PollAnswers, PollTimesOut, Execute, SendReport, PollBreaks, CommandSwallowed,
     DeadPollTimesOut, ReportLost, AgentRestarts, vars, history

LEMMA TasksRest ==
  ASSUME Types, Resting, [Next]_vars
  PROVE  Resting'
<1> USE SendParts DEF Types, Resting
<1>1. ASSUME NEW s \in Sends, CallStep(s) PROVE Resting'
  BY <1>1 DEF CallStep, BeginSend, AgentReady, AgentAbsent, Enqueue, TakeReport, AbortSend,
     SendFails
<1>2. ASSUME NEW t \in Tasks, StartSendAll(t) \/ EndSendAll(t) PROVE Resting'
  BY <1>2 DEF StartSendAll, EndSendAll
<1>3. CASE CancelRun \/ RestartServer
  BY <1>3 DEF CancelRun, RestartServer
<1>4. ASSUME NEW a \in Agents, AgentStep(a) \/ Fault(a) PROVE UNCHANGED <<phase, task>>
  BY <1>4 DEF AgentStep, Fault, Register, PollArrives, PollAnswers, PollTimesOut, Execute,
     SendReport, PollBreaks, CommandSwallowed, DeadPollTimesOut, ReportLost, AgentRestarts,
     callVars
<1>5. CASE UNCHANGED vars
  BY <1>5 DEF vars, callVars
<1> QED
  BY <1>1, <1>2, <1>3, <1>4, <1>5 DEF Next

(* The commands of a task that is ok, or has just become so, stay.          *)
LEMMA TaskDoneKept ==
  ASSUME Types, Addressed, Resting, SuccessIsOwn, TaskDoneEverywhere, [Next]_vars
  PROVE  TaskDoneEverywhere'
<1>1. completed \subseteq completed'
  BY CompletedGrows
<1>a. \A t \in Tasks : \A a \in Targets[t] :
        /\ <<t, a>> \in Sends /\ <<t, a>> \in SendsOf(t)
        /\ task[t] = "ok" => phase[<<t, a>>] = "none"
  BY ChannelAssumption DEF Sends, SendsOf, Resting
<1>2. ASSUME NEW t \in Tasks, EndSendAll(t) PROVE TaskDoneEverywhere'
  <2>1. /\ cmd' = cmd
        /\ \A u \in Tasks : task'[u] = "ok" /\ task[u] # "ok" =>
             u = t /\ \A s \in SendsOf(t) : phase[s] = "ok"
    BY <1>2 DEF EndSendAll, Types
  <2>2. ASSUME task'[t] = "ok", task[t] # "ok", NEW a \in Targets[t]
        PROVE  /\ cmd[<<t, a>>] \in completed
               /\ cmd[<<t, a>>].task = t /\ cmd[<<t, a>>].agent = a
    <3>1. phase[<<t, a>>] = "ok"
      BY <1>a, <2>1, <2>2
    <3> QED
      BY <1>a, <3>1 DEF SuccessIsOwn, Addressed, Active
  <2> QED
    BY <1>1, <2>1, <2>2 DEF TaskDoneEverywhere
<1>3. CASE ~\E t \in Tasks : EndSendAll(t)
  <2>1. \A u \in Tasks : task'[u] = "ok" => task[u] = "ok"
    BY <1>3 DEF Types, Next, CallStep, AgentStep, Fault, StartSendAll, BeginSend, AgentReady,
       AgentAbsent, Enqueue, TakeReport, AbortSend, CancelRun, RestartServer, Register,
       PollArrives, PollAnswers, PollTimesOut, Execute, SendReport, PollBreaks,
       CommandSwallowed, DeadPollTimesOut, ReportLost, AgentRestarts, vars, callVars
  <2>2. ASSUME NEW u \in Tasks, task'[u] = "ok", NEW a \in Targets[u]
        PROVE  cmd'[<<u, a>>] = cmd[<<u, a>>]
    <3>1. phase[<<u, a>>] = "none"
      BY <1>a, <2>1, <2>2
    <3>2. ASSUME NEW s \in Sends, BeginSend(s) PROVE cmd'[<<u, a>>] = cmd[<<u, a>>]
      BY <1>a, <3>1, <3>2 DEF BeginSend, Types
    <3>3. CASE RestartServer
      BY <1>a, <2>2, <3>3 DEF RestartServer
    <3>4. CASE ~RestartServer /\ ~\E s \in Sends : BeginSend(s)
      BY <1>3, <3>4 DEF Next, CallStep, AgentStep, Fault, StartSendAll, AgentReady,
         AgentAbsent, Enqueue, TakeReport, AbortSend, CancelRun, Register, PollArrives,
         PollAnswers, PollTimesOut, Execute, SendReport, PollBreaks, CommandSwallowed,
         DeadPollTimesOut, ReportLost, AgentRestarts, vars, callVars
    <3> QED
      BY <3>2, <3>3, <3>4
  <2> QED
    BY <1>1, <2>1, <2>2 DEF TaskDoneEverywhere
<1> QED
  BY <1>2, <1>3

LEMMA InitOwn == Init => OwnInv
<1> SUFFICES ASSUME Init PROVE OwnInv
  OBVIOUS
<1>1. Types
  BY DEF Init, Types
<1>2. \A a \in Agents : Queued(a) = {}
  BY DEF Init, Queued
<1>3. Addressed /\ PolledHere /\ ReportsTrue /\ SuccessIsOwn /\ Resting /\ TaskDoneEverywhere
  BY <1>2 DEF Init, Addressed, PolledHere, ReportsTrue, SuccessIsOwn, Resting,
     TaskDoneEverywhere, Active, Held
<1>4. \A c : ~Issued(c)
  BY <1>2 DEF Init, Issued, Active, Held
<1>5. Counted
  BY <1>4 DEF Counted
<1> QED
  BY <1>1, <1>3, <1>5 DEF OwnInv

LEMMA StutterOwn == OwnInv /\ UNCHANGED vars => OwnInv'
<1> SUFFICES ASSUME OwnInv, UNCHANGED vars PROVE OwnInv'
  OBVIOUS
<1> USE QueueStays DEF OwnInv, vars, callVars, tableVars, agentVars, history
<1>1. Types'
  BY DEF Types
<1>2. Addressed'
  BY DEF Addressed, Active, Held
<1>3. \A c : Issued(c)' => Issued(c)
  BY DEF Issued, Active, Held
<1>4. Counted'
  BY <1>3, NothingIssued
<1>5. PolledHere' /\ ReportsTrue' /\ SuccessIsOwn' /\ Resting' /\ TaskDoneEverywhere'
  BY DEF PolledHere, ReportsTrue, SuccessIsOwn, Resting, TaskDoneEverywhere, Held
<1> QED
  BY <1>1, <1>2, <1>4, <1>5

LEMMA NextOwn == OwnInv /\ [Next]_vars => OwnInv'
<1> SUFFICES ASSUME OwnInv, [Next]_vars PROVE OwnInv'
  OBVIOUS
<1>1. Resting' /\ TaskDoneEverywhere'
  BY TasksRest, TaskDoneKept DEF OwnInv
<1>2. ASSUME NEW s \in Sends, CallStep(s) PROVE OwnInv'
  BY <1>1, <1>2, CallTypes, CallAddressed, CallCounted, CallPolled, CallReports, CallSuccess
     DEF OwnInv
<1>3. ASSUME NEW a \in Agents, AgentStep(a) \/ Fault(a) PROVE OwnInv'
  BY <1>1, <1>3, AgentTypes, AgentAddressed, AgentCounted, AgentPolled, AgentReports,
     AgentSuccess DEF OwnInv
<1>4. ASSUME \/ \E t \in Tasks : StartSendAll(t) \/ EndSendAll(t)
             \/ CancelRun \/ RestartServer
      PROVE  OwnInv'
  BY <1>1, <1>4, TaskTypes, TaskAddressed, TaskCounted, TaskPolled, TaskReports, TaskSuccess
     DEF OwnInv
<1> QED
  BY <1>2, <1>3, <1>4, StutterOwn DEF Next

LEMMA OwnInvHolds == Spec => []OwnInv
  BY InitOwn, NextOwn, PTL DEF Spec

(* Send (client_poll.go:55) "waits for the report from the agent": whatever *)
(* is aborted, retried, lost or restarted, a Send succeeds with its own     *)
(* command, although reports are matched by a counter that starts again.    *)
THEOREM SuccessIsOwnHolds == Spec => []SuccessIsOwn
<1>1. OwnInv => SuccessIsOwn
  BY DEF OwnInv
<1> QED
  BY OwnInvHolds, <1>1, PTL

(* SendAll (client_poll.go:105): a task is done only when every target has  *)
(* completed the command of the last try, whichever Sends the call has      *)
(* cancelled, retried or left with the agents before, and a task that the   *)
(* row of a recovered run has as done only when that was so before the      *)
(* restart.                                                                 *)
THEOREM TaskDoneEverywhereHolds == Spec => []TaskDoneEverywhere
<1>1. OwnInv => TaskDoneEverywhere
  BY DEF OwnInv
<1> QED
  BY OwnInvHolds, <1>1, PTL

--------------------------------------------------------------------------------
(* The order of the tries.                                                  *)

(* Steps that take commands away, or leave them.                            *)
LEMMA OrderStays ==
  ASSUME InOrder, QueueOrder', ran' = ran,
         \A a \in Agents : Queued(a)' \subseteq Queued(a),
         \A a \in Agents : agent'[a] = "executing" => agent[a] = "executing" /\ cur'[a] = cur[a],
         \A s \in Sends : Unsent(s)' => Unsent(s) /\ cmd'[s] = cmd[s]
  PROVE  InOrder'
<1>1. NoRepeatNoReorder'
  BY DEF InOrder, NoRepeatNoReorder
<1>2. QueueNewer'
  BY DEF InOrder, QueueNewer
<1>3. SendNewer'
  BY DEF InOrder, SendNewer
<1> QED
  BY <1>1, <1>2, <1>3 DEF InOrder

LEMMA QueueOrderStays == QueueOrder /\ queue' = queue => QueueOrder'
  BY DEF QueueOrder

LEMMA TailInOrder ==
  ASSUME Types, QueueOrder, NEW a \in Agents, queue[a] # <<>>,
         queue' = [queue EXCEPT ![a] = Tail(@)]
  PROVE  QueueOrder'
<1> SUFFICES ASSUME NEW b \in Agents, NEW i \in 1 .. Len(queue'[b]),
                    NEW j \in 1 .. Len(queue'[b]), i < j
             PROVE  Before(queue'[b][i], queue'[b][j])
  BY DEF QueueOrder
<1>1. CASE b # a
  BY <1>1 DEF Types, QueueOrder
<1>2. CASE b = a
  <2>1. queue'[a] = Tail(queue[a])
    BY DEF Types
  <2>2. /\ queue'[a][i] = queue[a][i + 1] /\ i + 1 \in 1 .. Len(queue[a])
        /\ queue'[a][j] = queue[a][j + 1] /\ j + 1 \in 1 .. Len(queue[a])
    BY <1>2, <2>1, Taken DEF Types
  <2>3. Before(queue[a][i + 1], queue[a][j + 1])
    BY <2>2 DEF QueueOrder
  <2> QED
    BY <1>2, <2>2, <2>3
<1> QED
  BY <1>1, <1>2

LEMMA BeginInOrder ==
  ASSUME OwnInv, InOrder, NEW s \in Sends, BeginSend(s)
  PROVE  InOrder'
<1>1. /\ ran' = ran /\ agent' = agent /\ cur' = cur /\ queue' = queue
      /\ cmd'[s].seq = seq + 1 /\ cmd'[s].boot = boot
      /\ \A u \in Sends : u # s => cmd'[u] = cmd[u] /\ (Unsent(u)' <=> Unsent(u))
  BY DEF BeginSend, OwnInv, Types, Unsent, agentVars, history
<1>2. \A c \in AnyCommand : Issued(c) => Before(c, cmd'[s])
  <2>1. \A c \in AnyCommand : c.boot \in Nat /\ c.seq \in Nat
    BY DEF AnyCommand
  <2> QED
    BY <1>1, <2>1 DEF OwnInv, Counted, Types, Before, Older
<1>3. NoRepeatNoReorder' /\ QueueOrder'
  BY <1>1, QueueOrderStays DEF InOrder, NoRepeatNoReorder
<1>4. QueueNewer'
  BY <1>1, QueueStays DEF InOrder, QueueNewer
<1>5. \A c \in ran : Before(c, cmd'[s])
  BY <1>2 DEF OwnInv, Types, Issued
<1>6. \A a \in Agents : \A c \in Queued(a) : Before(c, cmd'[s])
  <2> SUFFICES ASSUME NEW a \in Agents, NEW c \in Queued(a) PROVE Before(c, cmd'[s])
    OBVIOUS
  <2>1. c \in AnyCommand
    BY DEF OwnInv, Types, Queued
  <2> QED
    BY <1>2, <2>1 DEF Issued
<1>7. \A a \in Agents : agent[a] = "executing" => Before(cur[a], cmd'[s])
  BY <1>2 DEF OwnInv, Addressed, Held, Issued
<1>8. SendNewer'
  BY <1>1, <1>5, <1>6, <1>7, QueueStays DEF InOrder, SendNewer
<1> QED
  BY <1>3, <1>4, <1>8 DEF InOrder

LEMMA EnqueueInOrder ==
  ASSUME OwnInv, InOrder, NEW s \in Sends, Enqueue(s)
  PROVE  InOrder'
<1> DEFINE q == queue[s[2]]
<1>1. /\ ran' = ran /\ agent' = agent /\ cur' = cur /\ cmd' = cmd
      /\ Unsent(s) /\ ~Unsent(s)' /\ \A u \in Sends \ {s} : Unsent(u)' <=> Unsent(u)
      /\ cmd[s] \in AnyCommand /\ cmd[s].task = s[1] /\ cmd[s].agent = s[2]
      /\ s[2] \in Agents
  BY SendParts DEF Enqueue, OwnInv, Types, Addressed, Active, Unsent, agentVars, history
<1>2. \A a \in Agents : \A c \in Queued(a)' : c \in Queued(a) \/ (a = s[2] /\ c = cmd[s])
  BY QueueGrows DEF OwnInv
<1>3. NoRepeatNoReorder'
  BY <1>1 DEF InOrder, NoRepeatNoReorder
<1>4. QueueOrder'
  <2> SUFFICES ASSUME NEW b \in Agents, NEW i \in 1 .. Len(queue'[b]),
                      NEW j \in 1 .. Len(queue'[b]), i < j
               PROVE  Before(queue'[b][i], queue'[b][j])
    BY DEF QueueOrder
  <2>1. CASE b # s[2]
    BY <2>1 DEF Enqueue, OwnInv, Types, InOrder, QueueOrder
  <2>2. CASE b = s[2]
    <3>1. /\ q \in Seq(AnyCommand) /\ Len(q) \in Nat
          /\ queue'[b] = Append(q, cmd[s])
      BY <1>1, <2>2 DEF Enqueue, OwnInv, Types
    <3>2. /\ Len(queue'[b]) = Len(q) + 1
          /\ \A k \in 1 .. Len(q) : queue'[b][k] = q[k]
          /\ queue'[b][Len(q) + 1] = cmd[s]
      BY <1>1, <3>1, Appended
    <3>3. i \in 1 .. Len(q) /\ queue'[b][i] = q[i]
      BY <3>1, <3>2
    <3>4. CASE j = Len(q) + 1
      <4>1. q[i] \in Queued(b)
        BY <2>2, <3>3 DEF Queued
      <4> QED
        BY <1>1, <3>2, <3>3, <3>4, <4>1 DEF InOrder, SendNewer
    <3>5. CASE j # Len(q) + 1
      <4>1. j \in 1 .. Len(q) /\ queue'[b][j] = q[j]
        BY <3>1, <3>2, <3>5
      <4> QED
        BY <2>2, <3>3, <4>1 DEF InOrder, QueueOrder
    <3> QED
      BY <3>4, <3>5
  <2> QED
    BY <2>1, <2>2
<1>5. QueueNewer'
  BY <1>1, <1>2 DEF InOrder, QueueNewer, SendNewer
<1>6. ASSUME NEW u \in Sends, Unsent(u)', NEW a \in Agents, NEW c \in Queued(a)'
      PROVE  Before(c, cmd[u])
  <2>1. u # s /\ Unsent(u)
    BY <1>1, <1>6
  <2>2. CASE c = cmd[s]
    <3>1. cmd[u].task = u[1] /\ cmd[u].agent = u[2]
      BY <2>1 DEF OwnInv, Addressed, Active, Unsent
    <3>2. u[1] # s[1] \/ u[2] # s[2]
      BY <2>1 DEF Sends
    <3> QED
      BY <1>1, <2>2, <3>1, <3>2 DEF Before
  <2>3. CASE c # cmd[s]
    BY <1>2, <1>6, <2>1, <2>3 DEF InOrder, SendNewer
  <2> QED
    BY <2>2, <2>3
<1>7. SendNewer'
  BY <1>1, <1>6 DEF InOrder, SendNewer
<1> QED
  BY <1>3, <1>4, <1>5, <1>7 DEF InOrder

LEMMA AnswerInOrder ==
  ASSUME OwnInv, InOrder, NEW a \in Agents, PollAnswers(a)
  PROVE  InOrder'
<1> DEFINE h == Head(queue[a])
<1>1. /\ ran' = ran /\ cmd' = cmd /\ phase' = phase
      /\ queue[a] # <<>> /\ queue' = [queue EXCEPT ![a] = Tail(@)]
      /\ agent'[a] = "executing" /\ cur'[a] = h
      /\ \A b \in Agents \ {a} : agent'[b] = agent[b] /\ cur'[b] = cur[b]
  BY DEF PollAnswers, OwnInv, Types, callVars, history
<1>2. h \in Queued(a) /\ \A b \in Agents : Queued(b)' \subseteq Queued(b)
  BY <1>1, QueueShrinks DEF OwnInv
<1>3. QueueOrder'
  BY <1>1, TailInOrder DEF OwnInv, InOrder
<1>4. h.agent = a
  BY <1>2 DEF OwnInv, Addressed
<1>5. NoRepeatNoReorder'
  <2>1. \A c \in ran : Before(c, h)
    BY <1>2 DEF InOrder, QueueNewer
  <2> QED
    BY <1>1, <1>4, <2>1 DEF InOrder, NoRepeatNoReorder, Before, Older
<1>6. \A d \in Queued(a)' : Before(h, d)
  <2>1. \A d \in Queued(a)' : \E i \in 1 .. Len(queue[a]) : 1 < i /\ d = queue[a][i]
    BY <1>1, Taken DEF OwnInv, Types, Queued
  <2>2. h = queue[a][1] /\ 1 \in 1 .. Len(queue[a])
    BY <1>1, Taken DEF OwnInv, Types
  <2> QED
    BY <2>1, <2>2 DEF InOrder, QueueOrder
<1>7. QueueNewer'
  BY <1>1, <1>2, <1>6 DEF InOrder, QueueNewer
<1>8. SendNewer'
  BY <1>1, <1>2 DEF InOrder, SendNewer, Unsent
<1> QED
  BY <1>3, <1>5, <1>7, <1>8 DEF InOrder

LEMMA ExecuteInOrder ==
  ASSUME OwnInv, InOrder, NEW a \in Agents, Execute(a)
  PROVE  InOrder'
<1>1. /\ ran' = ran \cup {cur[a]} /\ cmd' = cmd /\ phase' = phase
      /\ queue' = queue /\ cur' = cur
      /\ agent[a] = "executing" /\ agent'[a] = "reporting"
      /\ \A b \in Agents \ {a} : agent'[b] = agent[b]
      /\ cur[a].agent = a
  BY DEF Execute, OwnInv, Types, Addressed, Held, callVars, tableVars
<1>2. NoRepeatNoReorder'
  BY <1>1 DEF InOrder, NoRepeatNoReorder
<1>3. QueueOrder'
  BY <1>1, QueueOrderStays DEF InOrder
<1>4. \A b \in Agents : \A d \in Queued(b) : Before(cur[a], d)
  <2>1. \A b \in Agents : \A d \in Queued(b) : d.agent = b
    BY DEF OwnInv, Addressed
  <2> QED
    BY <1>1, <2>1 DEF InOrder, QueueNewer, Before
<1>5. QueueNewer'
  BY <1>1, <1>4, QueueStays DEF InOrder, QueueNewer
<1>6. SendNewer'
  BY <1>1, QueueStays DEF InOrder, SendNewer, Unsent
<1> QED
  BY <1>2, <1>3, <1>5, <1>6 DEF InOrder

LEMMA NextInOrder == OwnInv /\ InOrder /\ [Next]_vars => InOrder'
<1> SUFFICES ASSUME OwnInv, InOrder, [Next]_vars PROVE InOrder'
  OBVIOUS
<1>1. ASSUME NEW s \in Sends, CallStep(s), ~BeginSend(s), ~Enqueue(s) PROVE InOrder'
  <2>1. /\ ran' = ran /\ agent' = agent /\ cur' = cur /\ cmd' = cmd /\ queue' = queue
        /\ \A u \in Sends : Unsent(u)' => Unsent(u)
    BY <1>1 DEF CallStep, AgentReady, AgentAbsent, TakeReport, AbortSend, SendFails, OwnInv,
       Types, Unsent, agentVars, tableVars, history
  <2> QED
    BY <2>1, OrderStays, QueueOrderStays, QueueStays DEF InOrder
<1>2. ASSUME NEW a \in Agents, AgentStep(a) \/ Fault(a), ~PollAnswers(a), ~Execute(a)
      PROVE  InOrder'
  <2>1. /\ ran' = ran /\ cur' = cur /\ cmd' = cmd /\ phase' = phase
        /\ \A b \in Agents : agent'[b] = "executing" => agent[b] = "executing"
    BY <1>2 DEF AgentStep, Fault, Register, PollArrives, PollTimesOut, SendReport, PollBreaks,
       CommandSwallowed, DeadPollTimesOut, ReportLost, AgentRestarts, OwnInv, Types, callVars,
       agentVars, history
  <2>2. CASE CommandSwallowed(a)
    <3>1. queue[a] # <<>> /\ queue' = [queue EXCEPT ![a] = Tail(@)]
      BY <2>2 DEF CommandSwallowed
    <3> QED
      BY <2>1, <3>1, OrderStays, TailInOrder, QueueShrinks DEF InOrder, OwnInv, Unsent
  <2>3. CASE ~CommandSwallowed(a)
    <3>1. queue' = queue
      BY <1>2, <2>3 DEF AgentStep, Fault, Register, PollArrives, PollTimesOut, SendReport,
         PollBreaks, DeadPollTimesOut, ReportLost, AgentRestarts, tableVars
    <3> QED
      BY <2>1, <3>1, OrderStays, QueueOrderStays, QueueStays DEF InOrder, Unsent
  <2> QED
    BY <2>2, <2>3
<1>3. ASSUME \/ \E t \in Tasks : StartSendAll(t) \/ EndSendAll(t)
             \/ CancelRun \/ UNCHANGED vars
      PROVE  InOrder'
  <2>1. /\ ran' = ran /\ agent' = agent /\ cur' = cur /\ cmd' = cmd /\ queue' = queue
        /\ \A u \in Sends : Unsent(u)' => Unsent(u)
    BY <1>3 DEF StartSendAll, EndSendAll, CancelRun, OwnInv, Types, Unsent, agentVars, tableVars,
       history, callVars, vars
  <2> QED
    BY <2>1, OrderStays, QueueOrderStays, QueueStays DEF InOrder
<1>4. CASE RestartServer
  <2>1. /\ ran' = ran /\ cur' = cur
        /\ \A b \in Agents : agent'[b] = "executing" => agent[b] = "executing"
        /\ \A u \in Sends : ~Unsent(u)'
    BY <1>4 DEF RestartServer, OwnInv, Types, Unsent, history
  <2>2. QueueOrder'
    BY <1>4 DEF RestartServer, QueueOrder
  <2> QED
    BY <1>4, <2>1, <2>2, OrderStays, QueuesEmpty
<1> QED
  BY <1>1, <1>2, <1>3, <1>4, BeginInOrder, EnqueueInOrder, AnswerInOrder, ExecuteInOrder
     DEF Next, CallStep, AgentStep

(* Poll and Send (client_poll.go:55, :147): stale commands of aborted calls *)
(* included, a machine is never given a command twice, nor an older try of  *)
(* a task after a newer one.                                                *)
THEOREM NoRepeatNoReorderHolds == Spec => []NoRepeatNoReorder
<1>1. Init => InOrder
  <2>1. ASSUME Init PROVE \A a \in Agents : Queued(a) = {}
    BY <2>1 DEF Init, Queued
  <2> QED
    BY <2>1 DEF Init, InOrder, NoRepeatNoReorder, QueueOrder, QueueNewer, SendNewer, Unsent
<1>2. OwnInv /\ InOrder /\ [Next]_vars => OwnInv' /\ InOrder'
  BY NextOwn, NextInOrder
<1>3. InOrder => NoRepeatNoReorder
  BY DEF InOrder
<1> QED
  BY InitOwn, <1>1, <1>2, <1>3, PTL DEF Spec
--------------------------------------------------------------------------------
(* The bounds of the type invariant.                                        *)

(* The commands that the tries of this server have issued, one for each try *)
(* and Send, unless the Send of the last try has yet to take its ID.        *)
Spent ==
  {u \in (1 .. MaxTries) \X Sends :
     /\ u[1] <= tries[u[2][1]]
     /\ u[1] = tries[u[2][1]] => phase[u[2]] # "start"}

(* A Send is on its way only in a try of its task.                          *)
TriesFit ==
  /\ tries \in [Tasks -> 0 .. MaxTries]
  /\ \A s \in Sends : phase[s] # "none" => task[s[1]] = "sending"
  /\ \A t \in Tasks : task[t] = "sending" => tries[t] > 0
  /\ seq <= Cardinality(Spent)

CommandsFit ==
  /\ cmd \in [Sends -> Command \cup {NoCommand}]
  /\ queue \in [Agents -> Seq(Command)]
  /\ \A a \in Agents : Len(queue[a]) <= QueueCap
  /\ results \subseteq {ID(c) : c \in Command}
  /\ cur \in [Agents -> Command \cup {NoCommand}]
  /\ ran \subseteq Command
  /\ boot <= MaxRestarts

(* A handler without a connection is a connection that was broken.          *)
LossesFit ==
  /\ losses \in 0 .. MaxLosses
  /\ dead \in [Agents -> Nat]
  /\ \A a \in Agents : dead[a] <= losses

FlagsFit == ctxDone \in BOOLEAN /\ stop \in [Tasks -> BOOLEAN]

Bounded == TriesFit /\ CommandsFit /\ LossesFit /\ FlagsFit

LEMMA SpentFinite ==
  /\ IsFiniteSet((1 .. MaxTries) \X Sends)
  /\ Cardinality((1 .. MaxTries) \X Sends) = MaxSeq
<1>1. IsFiniteSet(Tasks \X Agents)
  BY FS_Product, ChannelAssumption
<1>2. IsFiniteSet(Sends)
  BY <1>1, FS_Subset DEF Sends
<1>3. IsFiniteSet(1 .. MaxTries) /\ Cardinality(1 .. MaxTries) = MaxTries
  BY FS_Interval, ChannelAssumption
<1> QED
  BY <1>2, <1>3, FS_Product DEF MaxSeq

LEMMA SpentBounded ==
  /\ IsFiniteSet(Spent)
  /\ Cardinality(Spent) \in Nat
  /\ Cardinality(Spent) <= MaxSeq
  /\ MaxSeq \in Nat
<1>1. Spent \in SUBSET ((1 .. MaxTries) \X Sends)
  BY DEF Spent
<1> QED
  BY <1>1, SpentFinite, FS_Subset, FS_CardinalityType

(* A new ID is one more of those that can be spent.                         *)
LEMMA OneMoreSpent ==
  ASSUME Types, TriesFit, NEW s \in Sends, BeginSend(s)
  PROVE  /\ seq' <= Cardinality(Spent')
         /\ seq' \in 1 .. MaxSeq
<1> DEFINE u == <<tries[s[1]], s>>
<1>1. s[1] \in Tasks /\ tries[s[1]] \in 1 .. MaxTries
  BY SendParts DEF TriesFit, BeginSend
<1>2. u \in (1 .. MaxTries) \X Sends /\ u \notin Spent
  BY <1>1 DEF Spent, BeginSend
<1>3. Spent \cup {u} \subseteq Spent'
  <2>1. tries' = tries /\ \A v \in Sends : phase'[v] = "start" => phase[v] = "start" /\ v # s
    BY DEF BeginSend, Types
  <2> QED
    BY <1>1, <1>2, <2>1 DEF Spent
<1>4. IsFiniteSet(Spent') /\ Cardinality(Spent') \in Nat /\ Cardinality(Spent') <= MaxSeq
  <2>1. Spent' \in SUBSET ((1 .. MaxTries) \X Sends)
    BY DEF Spent
  <2> QED
    BY <2>1, SpentFinite, FS_Subset, FS_CardinalityType
<1>5. Cardinality(Spent \cup {u}) = Cardinality(Spent) + 1
  BY <1>2, SpentBounded, FS_AddElement
<1>6. Cardinality(Spent) + 1 <= Cardinality(Spent')
  BY <1>3, <1>4, <1>5, FS_Subset
<1>7. seq' = seq + 1 /\ seq \in Nat /\ seq <= Cardinality(Spent)
  BY DEF BeginSend, Types, TriesFit
<1> QED
  BY <1>4, <1>6, <1>7, SpentBounded

(* The other steps issue nothing, and leave what has been spent.            *)
LEMMA SpentStays ==
  ASSUME TriesFit, seq' = seq, Spent' = Spent
  PROVE  seq' <= Cardinality(Spent')
  BY DEF TriesFit

LEMMA CallTries ==
  ASSUME Types, Addressed, TriesFit, NEW s \in Sends, CallStep(s)
  PROVE  TriesFit'
<1>1. tries' = tries /\ task' = task
  BY DEF CallStep, BeginSend, AgentReady, AgentAbsent, Enqueue, TakeReport, AbortSend
<1>2. phase[s] # "none"
  BY DEF CallStep, BeginSend, AgentReady, AgentAbsent, Enqueue, TakeReport, AbortSend
<1>3. \A v \in Sends : v # s => phase'[v] = phase[v]
  BY DEF CallStep, BeginSend, AgentReady, AgentAbsent, Enqueue, TakeReport, AbortSend,
     SendFails, Types
<1>4. CASE BeginSend(s)
  BY <1>1, <1>2, <1>3, <1>4, OneMoreSpent DEF TriesFit
<1>5. CASE ~BeginSend(s)
  <2>1. seq' = seq /\ phase[s] # "start" /\ phase'[s] # "start"
    BY <1>5 DEF CallStep, AgentReady, AgentAbsent, Enqueue, TakeReport, AbortSend,
       SendFails, Types
  <2>2. \A v \in Sends : phase'[v] # "start" <=> phase[v] # "start"
    BY <1>3, <2>1
  <2>3. Spent' = Spent
    BY <1>1, <2>2 DEF Spent
  <2>4. seq' <= Cardinality(Spent')
    BY <2>1, <2>3, SpentStays
  <2> QED
    BY <1>1, <1>2, <1>3, <2>4 DEF TriesFit
<1> QED
  BY <1>4, <1>5

LEMMA TaskTries ==
  ASSUME Types, TriesFit,
         \/ \E t \in Tasks : StartSendAll(t) \/ EndSendAll(t)
         \/ CancelRun \/ RestartServer
  PROVE  TriesFit'
<1> USE SendParts
<1>1. ASSUME NEW t \in Tasks, StartSendAll(t) PROVE TriesFit'
  <2>1. /\ seq' = seq
        /\ tries' = [tries EXCEPT ![t] = tries[t] + 1]
        /\ task' = [task EXCEPT ![t] = "sending"]
        /\ tries[t] \in 0 .. MaxTries /\ tries[t] < MaxTries
        /\ \A v \in Sends : phase'[v] = IF v[1] = t THEN "start" ELSE phase[v]
        /\ \A v \in Sends : v[1] = t => phase[v] = "none"
    BY <1>1 DEF StartSendAll, TriesFit, Types
  <2>2. tries' \in [Tasks -> 0 .. MaxTries] /\ tries'[t] = tries[t] + 1
    BY <2>1, ChannelAssumption DEF TriesFit
  <2>3. Spent' = Spent
    <3>1. ASSUME NEW u \in (1 .. MaxTries) \X Sends
          PROVE  u \in Spent' <=> u \in Spent
      <4>1. CASE u[2][1] = t
        <5>1. u \in Spent <=> u[1] <= tries[t]
          BY <2>1, <4>1 DEF Spent
        <5>2. u \in Spent' <=> u[1] <= tries[t] + 1 /\ u[1] # tries[t] + 1
          BY <2>1, <2>2, <4>1 DEF Spent
        <5> QED
          BY <2>1, <5>1, <5>2, ChannelAssumption
      <4>2. CASE u[2][1] # t
        <5>1. phase'[u[2]] = phase[u[2]] /\ tries'[u[2][1]] = tries[u[2][1]]
          BY <2>1, <4>2 DEF TriesFit
        <5> QED
          BY <5>1 DEF Spent
      <4> QED
        BY <4>1, <4>2
    <3> QED
      BY <3>1 DEF Spent
  <2>4. seq' <= Cardinality(Spent')
    BY <2>1, <2>3, SpentStays
  <2>5. \A v \in Sends : phase'[v] # "none" => task'[v[1]] = "sending"
    BY <2>1 DEF TriesFit, Types
  <2>6. \A r \in Tasks : task'[r] = "sending" => tries'[r] > 0
    BY <2>1, <2>2 DEF TriesFit, Types
  <2> QED
    BY <2>2, <2>4, <2>5, <2>6 DEF TriesFit
<1>2. ASSUME NEW t \in Tasks, EndSendAll(t) PROVE TriesFit'
  <2>1. /\ seq' = seq /\ tries' = tries
        /\ \A v \in Sends : phase'[v] = IF v[1] = t THEN "none" ELSE phase[v]
        /\ \A v \in Sends : v[1] = t => phase[v] # "start"
        /\ \A r \in Tasks \ {t} : task'[r] = task[r]
        /\ task'[t] # "sending"
    BY <1>2 DEF EndSendAll, SendsOf, Types
  <2>2. Spent' = Spent
    BY <2>1 DEF Spent
  <2>3. seq' <= Cardinality(Spent')
    BY <2>1, <2>2, SpentStays
  <2> QED
    BY <2>1, <2>3 DEF TriesFit
<1>3. CASE CancelRun
  <2>1. seq' = seq /\ tries' = tries /\ phase' = phase
    BY <1>3 DEF CancelRun
  <2>2. \A r \in Tasks : task'[r] = "sending" <=> task[r] = "sending"
    BY <1>3 DEF CancelRun, Types
  <2>3. Spent' = Spent
    BY <2>1 DEF Spent
  <2>4. seq' <= Cardinality(Spent')
    BY <2>1, <2>3, SpentStays
  <2> QED
    BY <2>1, <2>2, <2>4 DEF TriesFit
<1>4. CASE RestartServer
  <2>1. /\ seq' = 0
        /\ \A v \in Sends : phase'[v] = "none"
        /\ \A r \in Tasks : task'[r] # "sending"
        /\ tries' \in [Tasks -> 0 .. MaxTries]
    BY <1>4, ChannelAssumption DEF RestartServer
  <2>2. Spent' \in SUBSET ((1 .. MaxTries) \X Sends)
    BY DEF Spent
  <2>3. Cardinality(Spent') \in Nat
    BY <2>2, SpentFinite, FS_Subset, FS_CardinalityType
  <2> QED
    BY <2>1, <2>3 DEF TriesFit
<1> QED
  BY <1>1, <1>2, <1>3, <1>4

LEMMA AgentTries ==
  ASSUME TriesFit, NEW a \in Agents, AgentStep(a) \/ Fault(a)
  PROVE  TriesFit'
<1>1. UNCHANGED callVars
  BY DEF AgentStep, Fault, Register, PollArrives, PollAnswers, PollTimesOut, Execute,
     SendReport, PollBreaks, CommandSwallowed, DeadPollTimesOut, ReportLost, AgentRestarts
<1>2. seq' = seq /\ tries' = tries /\ phase' = phase /\ task' = task
  BY <1>1 DEF callVars
<1>3. Spent' = Spent
  BY <1>2 DEF Spent
<1> QED
  BY <1>2, <1>3 DEF TriesFit

LEMMA NotACommand == NoCommand \notin AnyCommand
<1>1. DOMAIN NoCommand = {"task"}
  BY DEF NoCommand
<1>2. \A c \in AnyCommand : "agent" \in DOMAIN c
  BY DEF AnyCommand
<1> QED
  BY <1>1, <1>2

(* The commands themselves stay within the bounds.                          *)
LEMMA CallFits ==
  ASSUME Types, Addressed, TriesFit, CommandsFit, NEW s \in Sends, CallStep(s)
  PROVE  CommandsFit'
<1> USE SendParts DEF CommandsFit
<1>1. CASE BeginSend(s)
  <2>1. seq + 1 \in 1 .. MaxSeq
    BY <1>1, OneMoreSpent DEF BeginSend
  <2>2. [task |-> s[1], agent |-> s[2], seq |-> seq + 1, boot |-> boot] \in Command
    BY <2>1, ChannelAssumption DEF Command, Types
  <2>3. cmd' \in [Sends -> Command \cup {NoCommand}]
    BY <1>1, <2>2 DEF BeginSend
  <2> QED
    BY <1>1, <2>3 DEF BeginSend, agentVars, history
<1>2. CASE AgentReady(s)
  <2>1. cmd[s] \in AnyCommand
    BY <1>2 DEF AgentReady, Addressed, Active
  <2>2. cmd[s] \in Command
    BY <2>1, NotACommand
  <2>3. results' \subseteq {ID(c) : c \in Command}
    BY <1>2, <2>2 DEF AgentReady
  <2> QED
    BY <1>2, <2>3 DEF AgentReady, agentVars, history
<1>3. CASE AgentAbsent(s)
  BY <1>3 DEF AgentAbsent, tableVars, agentVars, history
<1>4. CASE Enqueue(s)
  <2>1. cmd[s] \in AnyCommand
    BY <1>4 DEF Enqueue, Addressed, Active
  <2>2. cmd[s] \in Command
    BY <2>1, NotACommand
  <2>3. queue' \in [Agents -> Seq(Command)]
    BY <1>4, <2>2, Appended DEF Enqueue
  <2>4. \A a \in Agents : Len(queue'[a]) <= QueueCap
    <3>1. Len(queue[s[2]]) < QueueCap /\ Len(queue[s[2]]) \in Nat
      BY <1>4 DEF Enqueue
    <3>2. Len(queue'[s[2]]) = Len(queue[s[2]]) + 1
      BY <1>4, <2>2, Appended DEF Enqueue
    <3>3. Len(queue'[s[2]]) <= QueueCap
      BY <3>1, <3>2, ChannelAssumption
    <3>4. \A a \in Agents : a # s[2] => queue'[a] = queue[a]
      BY <1>4 DEF Enqueue
    <3> QED
      BY <3>3, <3>4
  <2> QED
    BY <1>4, <2>3, <2>4 DEF Enqueue, agentVars, history
<1>5. CASE TakeReport(s)
  BY <1>5 DEF TakeReport, Unregister, agentVars, history
<1>6. CASE AbortSend(s)
  BY <1>6 DEF AbortSend, Unregister, agentVars, history
<1> QED
  BY <1>1, <1>2, <1>3, <1>4, <1>5, <1>6 DEF CallStep

(* A queue that loses its first command is no longer than it was.           *)
LEMMA QueueTaken ==
  ASSUME CommandsFit, NEW a \in Agents, queue[a] # <<>>,
         queue' = [queue EXCEPT ![a] = Tail(@)]
  PROVE  /\ queue' \in [Agents -> Seq(Command)]
         /\ \A b \in Agents : Len(queue'[b]) <= QueueCap
         /\ Head(queue[a]) \in Command
<1>1. queue[a] \in Seq(Command)
  BY DEF CommandsFit
<1>2. /\ Tail(queue[a]) \in Seq(Command)
      /\ Len(Tail(queue[a])) = Len(queue[a]) - 1
      /\ Len(queue[a]) \in Nat \ {0}
      /\ Head(queue[a]) \in Command
  BY <1>1, Taken
<1>3. Len(Tail(queue[a])) <= QueueCap
  BY <1>2, ChannelAssumption DEF CommandsFit
<1> QED
  BY <1>2, <1>3 DEF CommandsFit

LEMMA AgentFits ==
  ASSUME Types, Addressed, CommandsFit, NEW a \in Agents, AgentStep(a) \/ Fault(a)
  PROVE  CommandsFit'
<1>1. CASE PollAnswers(a)
  <2>1. queue[a] # <<>> /\ queue' = [queue EXCEPT ![a] = Tail(@)]
    BY <1>1 DEF PollAnswers
  <2>2. cur' = [cur EXCEPT ![a] = Head(queue[a])]
    BY <1>1 DEF PollAnswers
  <2> QED
    BY <1>1, <2>1, <2>2, QueueTaken DEF CommandsFit, PollAnswers, callVars, history
<1>2. CASE CommandSwallowed(a)
  <2>1. queue[a] # <<>> /\ queue' = [queue EXCEPT ![a] = Tail(@)]
    BY <1>2 DEF CommandSwallowed
  <2> QED
    BY <1>2, <2>1, QueueTaken DEF CommandsFit, CommandSwallowed, callVars, agentVars, history
<1>3. CASE Execute(a)
  <2>1. cur[a] \in AnyCommand
    BY <1>3 DEF Execute, Addressed, Held
  <2>2. cur[a] \in Command
    BY <2>1, NotACommand DEF CommandsFit
  <2> QED
    BY <1>3, <2>2 DEF CommandsFit, Execute, callVars, tableVars
<1>4. CASE ~PollAnswers(a) /\ ~CommandSwallowed(a) /\ ~Execute(a)
  BY <1>4 DEF AgentStep, Fault, Register, PollArrives, PollTimesOut, SendReport,
     PollBreaks, DeadPollTimesOut, ReportLost, AgentRestarts, CommandsFit,
     callVars, tableVars, agentVars, history
<1> QED
  BY <1>1, <1>2, <1>3, <1>4

LEMMA TaskFits ==
  ASSUME Types, CommandsFit,
         \/ \E t \in Tasks : StartSendAll(t) \/ EndSendAll(t)
         \/ CancelRun \/ RestartServer
  PROVE  CommandsFit'
<1>1. CASE RestartServer
  <2>1. \A a \in Agents : Len(queue'[a]) <= QueueCap
    BY <1>1, ChannelAssumption DEF RestartServer
  <2>2. boot' <= MaxRestarts
    BY <1>1, ChannelAssumption DEF RestartServer, Types
  <2> QED
    BY <1>1, <2>1, <2>2 DEF RestartServer, CommandsFit, history
<1> QED
  BY <1>1 DEF StartSendAll, EndSendAll, CancelRun, CommandsFit, tableVars, agentVars, history

(* No handler is without a connection but those whose connection broke.     *)
LEMMA NextLosses ==
  ASSUME LossesFit, Next
  PROVE  LossesFit'
<1> USE ChannelAssumption DEF LossesFit
<1>1. ASSUME NEW a \in Agents, AgentStep(a) \/ Fault(a) PROVE LossesFit'
  <2>1. CASE AgentStep(a)
    BY <2>1 DEF AgentStep, Register, PollArrives, PollAnswers, PollTimesOut, Execute,
       SendReport, tableVars, history
  <2>2. CASE PollBreaks(a)
    <3>1. losses < MaxLosses /\ losses' = losses + 1 /\ dead' = [dead EXCEPT ![a] = dead[a] + 1]
      BY <2>2 DEF PollBreaks, Lose
    <3> QED
      BY <3>1
  <2>3. CASE CommandSwallowed(a) \/ DeadPollTimesOut(a)
    <3>1. dead[a] > 0 /\ losses' = losses /\ dead' = [dead EXCEPT ![a] = dead[a] - 1]
      BY <2>3 DEF CommandSwallowed, DeadPollTimesOut, history
    <3> QED
      BY <3>1
  <2>4. CASE ReportLost(a) \/ AgentRestarts(a)
    BY <2>4 DEF ReportLost, AgentRestarts, Lose, tableVars
  <2> QED
    BY <1>1, <2>1, <2>2, <2>3, <2>4 DEF Fault
<1>2. CASE RestartServer
  BY <1>2 DEF RestartServer, history
<1>3. CASE \/ \E s \in Sends : CallStep(s)
           \/ \E t \in Tasks : StartSendAll(t) \/ EndSendAll(t)
           \/ CancelRun
  BY <1>3 DEF CallStep, BeginSend, AgentReady, AgentAbsent, Enqueue, TakeReport, AbortSend,
     StartSendAll, EndSendAll, CancelRun, tableVars, history
<1> QED
  BY <1>1, <1>2, <1>3 DEF Next

LEMMA NextFlags ==
  ASSUME Types, FlagsFit, Next
  PROVE  FlagsFit'
<1> USE SendParts DEF FlagsFit
<1>1. ASSUME NEW s \in Sends, CallStep(s) PROVE FlagsFit'
  BY <1>1 DEF CallStep, BeginSend, AgentReady, AgentAbsent, Enqueue, TakeReport, AbortSend,
     SendFails
<1>2. ASSUME NEW a \in Agents, AgentStep(a) \/ Fault(a) PROVE FlagsFit'
  BY <1>2 DEF AgentStep, Fault, Register, PollArrives, PollAnswers, PollTimesOut, Execute,
     SendReport, PollBreaks, CommandSwallowed, DeadPollTimesOut, ReportLost, AgentRestarts,
     callVars
<1>3. ASSUME NEW t \in Tasks, StartSendAll(t) \/ EndSendAll(t) PROVE FlagsFit'
  BY <1>3 DEF StartSendAll, EndSendAll
<1>4. CASE CancelRun \/ RestartServer
  <2>1. ctxDone' = TRUE \/ ctxDone' = FALSE
    BY <1>4 DEF CancelRun, RestartServer
  <2>2. stop' \in [Tasks -> BOOLEAN]
    <3>1. stop' = stop \/ stop' = [t \in Tasks |-> FALSE]
      BY <1>4 DEF CancelRun, RestartServer
    <3>2. [t \in Tasks |-> FALSE] \in [Tasks -> BOOLEAN]
      OBVIOUS
    <3> QED
      BY <3>1, <3>2
  <2> QED
    BY <2>1, <2>2
<1> QED
  BY <1>1, <1>2, <1>3, <1>4 DEF Next

LEMMA InitBounded == Init => Bounded
<1> SUFFICES ASSUME Init PROVE Bounded
  OBVIOUS
<1>1. TriesFit
  BY SpentBounded, ChannelAssumption DEF Init, TriesFit
<1>2. CommandsFit
  BY ChannelAssumption DEF Init, CommandsFit
<1>3. LossesFit
  BY ChannelAssumption DEF Init, LossesFit
<1>4. FlagsFit
  <2>1. stop = [t \in Tasks |-> FALSE] /\ ctxDone = FALSE
    BY DEF Init
  <2>2. [t \in Tasks |-> FALSE] \in [Tasks -> BOOLEAN]
    OBVIOUS
  <2> QED
    BY <2>1, <2>2 DEF FlagsFit
<1> QED
  BY <1>1, <1>2, <1>3, <1>4 DEF Bounded

LEMMA NextBounded == OwnInv /\ Bounded /\ [Next]_vars => Bounded'
<1> SUFFICES ASSUME OwnInv, Bounded, [Next]_vars PROVE Bounded'
  OBVIOUS
<1>1. CASE Next
  <2>1. TriesFit'
    BY <1>1, CallTries, AgentTries, TaskTries DEF Next, OwnInv, Bounded
  <2>2. CommandsFit'
    BY <1>1, CallFits, AgentFits, TaskFits DEF Next, OwnInv, Bounded
  <2> QED
    BY <1>1, <2>1, <2>2, NextLosses, NextFlags DEF OwnInv, Bounded
<1>2. CASE UNCHANGED vars
  <2> USE <1>2 DEF vars, callVars, tableVars, agentVars, history
  <2>1. Spent' = Spent
    BY DEF Spent
  <2>2. TriesFit'
    BY <2>1 DEF Bounded, TriesFit
  <2> QED
    BY <2>2 DEF Bounded, CommandsFit, LossesFit, FlagsFit
<1> QED
  BY <1>1, <1>2

(* client_poll.go: what is queued, awaited, delivered and executed is of    *)
(* its type and within its bound: no queue grows beyond its eight commands  *)
(* (getQueue), every report buffered is for a result channel that exists,   *)
(* and the counter stays below what the tries of one server can issue,      *)
(* whatever is aborted, retried or lost.                                    *)
THEOREM ChannelTyped == Spec => []TypeOK
<1>1. OwnInv /\ Bounded => TypeOK
  <2> SUFFICES ASSUME OwnInv, Bounded PROVE TypeOK
    OBVIOUS
  <2>1. seq \in 0 .. MaxSeq
    BY SpentBounded DEF OwnInv, Types, Bounded, TriesFit
  <2>2. \A a \in Agents :
          /\ Len(queue[a]) \in 0 .. QueueCap
          /\ \A i \in 1 .. Len(queue[a]) : queue[a][i] \in Command
    BY ChannelAssumption DEF Bounded, CommandsFit
  <2>3. dead \in [Agents -> 0 .. MaxLosses] /\ losses \in 0 .. MaxLosses
    BY ChannelAssumption DEF Bounded, LossesFit
  <2>4. boot \in 0 .. MaxRestarts
    BY ChannelAssumption DEF OwnInv, Types, Bounded, CommandsFit
  <2> QED
    BY <2>1, <2>2, <2>3, <2>4
    DEF TypeOK, OwnInv, Types, Bounded, TriesFit, CommandsFit, FlagsFit
<1> QED
  BY InitOwn, NextOwn, InitBounded, NextBounded, <1>1, PTL DEF Spec

================================================================================
