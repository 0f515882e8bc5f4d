----------------------------- MODULE CommandChannel -----------------------------
(******************************************************************************)
(* How the server makes agents work: internal/domain/agent/client_poll.go     *)
(* (PollClient: Send, SendAll, Poll, DeliverReport), the /api/agent handlers  *)
(* of the server and the poll loop of agent_server.go.                        *)
(*                                                                            *)
(* A task of the run calls SendAll, one Send per target in parallel.  A Send  *)
(* takes a fresh command ID, waits until the agent has polled, registers a    *)
(* result channel, puts the command into the agent's bounded queue and waits  *)
(* for the report.  The agent long-polls, executes one command at a time and  *)
(* posts the report once.  Nothing but the context ends the wait for it.      *)
(*                                                                            *)
(* The command ID is the target and a counter of the PollClient, which starts *)
(* again with the server; the field boot of a command tells the model which   *)
(* server issued it and is no part of the ID.                                 *)
(******************************************************************************)
EXTENDS Naturals, Sequences, FiniteSets

CONSTANTS
  Agents,       \* machine IDs
  Tasks,        \* nodes of the run that send commands
  Targets,      \* Targets[t]: the machines task t sends its command to
  QueueCap,     \* capacity of a machine's command queue (8 in getQueue)
  MaxTries,     \* executions of a task: RetryPolicy.MaxRetries + 1
  MaxRestarts,  \* bound of the model: restarts of the server
  MaxLosses     \* bound of the model: broken connections and agent restarts

ASSUME ChannelAssumption ==
  /\ IsFiniteSet(Agents)
  /\ IsFiniteSet(Tasks)
  /\ Targets \in [Tasks -> (SUBSET Agents) \ {{}}]
  /\ QueueCap \in Nat \ {0}
  /\ MaxTries \in Nat \ {0}
  /\ MaxRestarts \in Nat
  /\ MaxLosses \in Nat

Sends == {s \in Tasks \X Agents : s[2] \in Targets[s[1]]}

(* Bound of the model: what the tries of one server can issue.                *)
MaxSeq == MaxTries * Cardinality(Sends)

Command == [task : Tasks, agent : Agents, seq : 1 .. MaxSeq, boot : 0 .. MaxRestarts]

(* A slip in ID: the tries of a task share an ID.                             *)
IDPerTask(c) == <<c.agent, c.task>>

ID(c) == <<c.agent, c.seq>>

NoCommand == [task |-> "none"]

VARIABLES
  ctxDone,   \* the run's context is cancelled
  task,      \* what became of each task
  tries,     \* executions of each task
  stop,      \* the context SendAll derives for its Sends is cancelled
  phase,     \* where each Send is
  cmd,       \* the command of its last call
  seq,       \* PollClient.cmdSeq
  boot,      \* restarts of the server so far
  healthy,   \* PollClient.healthy: "absent", "open" or "closed"
  queue,     \* PollClient.queues
  results,   \* PollClient.results: the IDs with a result channel
  reports,   \* what is buffered in those channels
  dead,      \* each agent's Poll handlers whose connection is gone
  agent,     \* what each agent is doing
  cur,       \* the command it was given last
  verdict,   \* the status of its report
  ran,       \* commands that were executed
  completed, \* those that were executed with success
  losses     \* connections broken and agents restarted so far

callVars  == <<ctxDone, task, tries, stop, phase, cmd, seq, boot>>
tableVars == <<healthy, queue, results, reports, dead>>
agentVars == <<agent, cur, verdict>>
history   == <<ran, completed, losses>>
vars == <<callVars, tableVars, agentVars, history>>

TypeOK ==
  /\ ctxDone \in BOOLEAN
  /\ task \in [Tasks -> {"idle", "sending", "ok", "failed"}]
  /\ tries \in [Tasks -> 0 .. MaxTries]
  /\ stop \in [Tasks -> BOOLEAN]
  /\ phase \in [Sends -> {"none", "start", "waiting", "enqueue", "await",
                          "ok", "error"}]
  /\ cmd \in [Sends -> Command \cup {NoCommand}]
  /\ seq \in 0 .. MaxSeq
  /\ boot \in 0 .. MaxRestarts
  /\ healthy \in [Agents -> {"absent", "open", "closed"}]
  /\ \A a \in Agents :
       /\ Len(queue[a]) \in 0 .. QueueCap
       /\ \A i \in 1 .. Len(queue[a]) : queue[a][i] \in Command
  /\ results \subseteq {ID(c) : c \in Command}
  /\ reports \subseteq [id : results, ok : BOOLEAN]
  /\ dead \in [Agents -> 0 .. MaxLosses]
  /\ agent \in [Agents -> {"idle", "polling", "executing", "reporting"}]
  /\ cur \in [Agents -> Command \cup {NoCommand}]
  /\ verdict \in [Agents -> BOOLEAN]
  /\ ran \subseteq Command
  /\ completed \subseteq ran
  /\ losses \in 0 .. MaxLosses

Init ==
  /\ ctxDone = FALSE
  /\ task = [t \in Tasks |-> "idle"]
  /\ tries = [t \in Tasks |-> 0]
  /\ stop = [t \in Tasks |-> FALSE]
  /\ phase = [s \in Sends |-> "none"]
  /\ cmd = [s \in Sends |-> NoCommand]
  /\ seq = 0
  /\ boot = 0
  /\ healthy = [a \in Agents |-> "absent"]
  /\ queue = [a \in Agents |-> <<>>]
  /\ results = {}
  /\ reports = {}
  /\ dead = [a \in Agents |-> 0]
  /\ agent = [a \in Agents |-> "idle"]
  /\ cur = [a \in Agents |-> NoCommand]
  /\ verdict = [a \in Agents |-> FALSE]
  /\ ran = {}
  /\ completed = {}
  /\ losses = 0

--------------------------------------------------------------------------------
(* The server's side of a call.                                               *)

SendsOf(t) == {s \in Sends : s[1] = t}

(* The context a Send selects on.                                             *)
CallDone(s) == ctxDone \/ stop[s[1]]

(* A slip in Unregister: the result channels of the machine go.               *)
UnregisterMachine(s) ==
  /\ results' = {id \in results : id[1] # s[2]}
  /\ reports' = {r \in reports : r.id[1] # s[2]}

(* The deferred delete: the result channel goes, and what is in it.           *)
Unregister(s) ==
  /\ results' = results \ {ID(cmd[s])}
  /\ reports' = {r \in reports : r.id # ID(cmd[s])}

(* A Send of t returns an error: SendAll cancels the others.                  *)
SendFails(s) ==
  /\ phase' = [phase EXCEPT ![s] = "error"]
  /\ stop' = [stop EXCEPT ![s[1]] = TRUE]

(* The task executes: SendAll starts a goroutine per target.                  *)
StartSendAll(t) ==
  /\ task[t] = "idle"
  /\ tries[t] < MaxTries
  /\ task' = [task EXCEPT ![t] = "sending"]
  /\ tries' = [tries EXCEPT ![t] = @ + 1]
  /\ stop' = [stop EXCEPT ![t] = FALSE]
  /\ phase' = [s \in Sends |-> IF s[1] = t THEN "start" ELSE phase[s]]
  /\ UNCHANGED <<ctxDone, cmd, seq, boot, tableVars, agentVars, history>>

(* Send: the next command ID, and waitForAgent makes the healthy channel if   *)
(* there is none.                                                             *)
BeginSend(s) ==
  /\ phase[s] = "start"
  /\ seq' = seq + 1
  /\ cmd' = [cmd EXCEPT ![s] =
               [task |-> s[1], agent |-> s[2], seq |-> seq + 1, boot |-> boot]]
  /\ healthy' = [healthy EXCEPT ![s[2]] = IF @ = "absent" THEN "open" ELSE @]
  /\ phase' = [phase EXCEPT ![s] = "waiting"]
  /\ UNCHANGED <<ctxDone, task, tries, stop, boot, queue, results, reports,
                 dead, agentVars, history>>

(* A slip in AgentReady: the agent's poll is not waited for.                  *)
AgentAssumedReady(s) ==
  /\ phase[s] = "waiting"
  /\ results' = results \cup {ID(cmd[s])}
  /\ phase' = [phase EXCEPT ![s] = "enqueue"]
  /\ UNCHANGED <<ctxDone, task, tries, stop, cmd, seq, boot, healthy, queue,
                 reports, dead, agentVars, history>>

(* The agent has polled: register the result channel before the command is    *)
(* visible to anyone.                                                         *)
AgentReady(s) ==
  /\ phase[s] = "waiting"
  /\ healthy[s[2]] = "closed"
  /\ results' = results \cup {ID(cmd[s])}
  /\ phase' = [phase EXCEPT ![s] = "enqueue"]
  /\ UNCHANGED <<ctxDone, task, tries, stop, cmd, seq, boot, healthy, queue,
                 reports, dead, agentVars, history>>

(* No poll within 120 seconds.                                                *)
AgentAbsent(s) ==
  /\ phase[s] = "waiting"
  /\ healthy[s[2]] = "open"
  /\ SendFails(s)
  /\ UNCHANGED <<ctxDone, task, tries, cmd, seq, boot, tableVars, agentVars,
                 history>>

(* A slip in Enqueue: the queue has no bound.                                 *)
EnqueueUnbounded(s) ==
  /\ phase[s] = "enqueue"
  /\ queue' = [queue EXCEPT ![s[2]] = Append(@, cmd[s])]
  /\ phase' = [phase EXCEPT ![s] = "await"]
  /\ UNCHANGED <<ctxDone, task, tries, stop, cmd, seq, boot, healthy, results,
                 reports, dead, agentVars, history>>

Enqueue(s) ==
  /\ phase[s] = "enqueue"
  /\ Len(queue[s[2]]) < QueueCap
  /\ queue' = [queue EXCEPT ![s[2]] = Append(@, cmd[s])]
  /\ phase' = [phase EXCEPT ![s] = "await"]
  /\ UNCHANGED <<ctxDone, task, tries, stop, cmd, seq, boot, healthy, results,
                 reports, dead, agentVars, history>>

(* A report is in the result channel.                                         *)
TakeReport(s) ==
  /\ phase[s] = "await"
  /\ \E r \in reports :
       /\ r.id = ID(cmd[s])
       /\ \/ r.ok /\ phase' = [phase EXCEPT ![s] = "ok"] /\ UNCHANGED stop
          \/ ~r.ok /\ SendFails(s)
  /\ Unregister(s)
  /\ UNCHANGED <<ctxDone, task, tries, cmd, seq, boot, healthy, queue, dead,
                 agentVars, history>>

(* A slip in AbortSend: the wait for the report ignores the context.          *)
AbortSendUnlessAwaiting(s) ==
  /\ phase[s] \in {"waiting", "enqueue"}
  /\ CallDone(s)
  /\ SendFails(s)
  /\ Unregister(s)
  /\ UNCHANGED <<ctxDone, task, tries, cmd, seq, boot, healthy, queue, dead,
                 agentVars, history>>

(* Each wait of Send also selects on the context.  A command that is queued   *)
(* or executing stays where it is.                                            *)
AbortSend(s) ==
  /\ phase[s] \in {"waiting", "enqueue", "await"}
  /\ CallDone(s)
  /\ SendFails(s)
  /\ Unregister(s)
  /\ UNCHANGED <<ctxDone, task, tries, cmd, seq, boot, healthy, queue, dead,
                 agentVars, history>>

(* A slip in EndSendAll: one success is enough.                               *)
EndSendAllAny(t) ==
  /\ task[t] = "sending"
  /\ \A s \in SendsOf(t) : phase[s] \in {"ok", "error"}
  /\ task' = [task EXCEPT ![t] =
                IF \E s \in SendsOf(t) : phase[s] = "ok" THEN "ok"
                ELSE IF ctxDone \/ tries[t] = MaxTries THEN "failed" ELSE "idle"]
  /\ phase' = [s \in Sends |-> IF s[1] = t THEN "none" ELSE phase[s]]
  /\ UNCHANGED <<ctxDone, tries, stop, cmd, seq, boot, tableVars, agentVars,
                 history>>

(* wg.Wait: every Send of t has returned.  After an error the executor tries  *)
(* the task again, unless the context is done or the attempts are used up.    *)
EndSendAll(t) ==
  /\ task[t] = "sending"
  /\ \A s \in SendsOf(t) : phase[s] \in {"ok", "error"}
  /\ task' = [task EXCEPT ![t] =
                IF \A s \in SendsOf(t) : phase[s] = "ok" THEN "ok"
                ELSE IF ctxDone \/ tries[t] = MaxTries THEN "failed" ELSE "idle"]
  /\ phase' = [s \in Sends |-> IF s[1] = t THEN "none" ELSE phase[s]]
  /\ UNCHANGED <<ctxDone, tries, stop, cmd, seq, boot, tableVars, agentVars,
                 history>>

(* The user cancels the run; tasks that have not begun never do.              *)
CancelRun ==
  /\ ~ctxDone
  /\ ctxDone' = TRUE
  /\ task' = [t \in Tasks |-> IF task[t] = "idle" THEN "failed" ELSE task[t]]
  /\ UNCHANGED <<tries, stop, phase, cmd, seq, boot, tableVars, agentVars,
                 history>>

(* The server crashes and starts again: the PollClient is new, its counter    *)
(* too; the polls in progress break.  The recovered run executes again every  *)
(* task that its row does not have as done, perhaps one that was just done.   *)
(* Agents go on with what they were executing.  The commands of the others    *)
(* are kept for the properties: no Send is left to use them.                  *)
RestartServer ==
  /\ boot < MaxRestarts
  /\ boot' = boot + 1
  /\ ctxDone' = FALSE
  /\ \E saved \in SUBSET {t \in Tasks : task[t] = "ok"} :
       /\ task' = [t \in Tasks |-> IF t \in saved THEN "ok" ELSE "idle"]
       /\ cmd' = [s \in Sends |-> IF s[1] \in saved THEN cmd[s] ELSE NoCommand]
  /\ tries' = [t \in Tasks |-> 0]
  /\ stop' = [t \in Tasks |-> FALSE]
  /\ phase' = [s \in Sends |-> "none"]
  /\ seq' = 0
  /\ healthy' = [a \in Agents |-> "absent"]
  /\ queue' = [a \in Agents |-> <<>>]
  /\ results' = {}
  /\ reports' = {}
  /\ dead' = [a \in Agents |-> 0]
  /\ agent' = [a \in Agents |-> IF agent[a] = "polling" THEN "idle" ELSE agent[a]]
  /\ UNCHANGED <<cur, verdict, history>>

--------------------------------------------------------------------------------
(* The handlers the agent calls.                                              *)

(* agentRegister, called by an agent that has just started; here by any that  *)
(* has nothing to do, since it changes nothing once the agent is known.       *)
Register(a) ==
  /\ agent[a] = "idle"
  /\ healthy[a] = "absent"
  /\ healthy' = [healthy EXCEPT ![a] = "open"]
  /\ UNCHANGED <<callVars, queue, results, reports, dead, agentVars, history>>

(* The poll request arrives: the healthy channel, if it exists, is closed.    *)
PollArrives(a) ==
  /\ agent[a] = "idle"
  /\ agent' = [agent EXCEPT ![a] = "polling"]
  /\ healthy' = [healthy EXCEPT ![a] = IF @ = "open" THEN "closed" ELSE @]
  /\ UNCHANGED <<callVars, queue, results, reports, dead, cur, verdict, history>>

(* A slip in PollAnswers: the command stays in the queue.                     *)
PollPeeks(a) ==
  /\ agent[a] = "polling"
  /\ queue[a] # <<>>
  /\ cur' = [cur EXCEPT ![a] = Head(queue[a])]
  /\ agent' = [agent EXCEPT ![a] = "executing"]
  /\ UNCHANGED <<callVars, tableVars, verdict, history>>

(* The handler takes the next command and the agent receives it.              *)
PollAnswers(a) ==
  /\ agent[a] = "polling"
  /\ queue[a] # <<>>
  /\ queue' = [queue EXCEPT ![a] = Tail(@)]
  /\ cur' = [cur EXCEPT ![a] = Head(queue[a])]
  /\ agent' = [agent EXCEPT ![a] = "executing"]
  /\ UNCHANGED <<callVars, healthy, results, reports, dead, verdict, history>>

(* Sixty seconds without a command: 204, and the agent polls again.           *)
PollTimesOut(a) ==
  /\ agent[a] = "polling"
  /\ agent' = [agent EXCEPT ![a] = "idle"]
  /\ UNCHANGED <<callVars, tableVars, cur, verdict, history>>

(* Something is lost: a connection, or what an agent was doing.               *)
Lose ==
  /\ losses < MaxLosses
  /\ losses' = losses + 1

(* The connection of a poll breaks: the agent retries, the handler, which     *)
(* does not watch the request's context, stays.                               *)
PollBreaks(a) ==
  /\ Lose
  /\ agent[a] = "polling"
  /\ agent' = [agent EXCEPT ![a] = "idle"]
  /\ dead' = [dead EXCEPT ![a] = @ + 1]
  /\ UNCHANGED <<callVars, healthy, queue, results, reports, cur, verdict,
                 ran, completed>>

(* A handler without a connection takes a command that nobody receives ...    *)
CommandSwallowed(a) ==
  /\ dead[a] > 0
  /\ queue[a] # <<>>
  /\ queue' = [queue EXCEPT ![a] = Tail(@)]
  /\ dead' = [dead EXCEPT ![a] = @ - 1]
  /\ UNCHANGED <<callVars, healthy, results, reports, agentVars, history>>

(* ... or times out.                                                          *)
DeadPollTimesOut(a) ==
  /\ dead[a] > 0
  /\ dead' = [dead EXCEPT ![a] = @ - 1]
  /\ UNCHANGED <<callVars, healthy, queue, results, reports, agentVars, history>>

(* agentReport, DeliverReport: the report goes into the channel of its        *)
(* command ID, if that is registered and empty; else it is dropped.           *)
DeliverReport(a) ==
  LET id == ID(cur[a]) IN
    IF id \in results /\ \A r \in reports : r.id # id
      THEN reports' = reports \cup {[id |-> id, ok |-> verdict[a]]}
      ELSE UNCHANGED reports

--------------------------------------------------------------------------------
(* The agent's loop.                                                          *)

(* Executor.Run: the command has been executed, completed or failed.          *)
Execute(a) ==
  /\ agent[a] = "executing"
  /\ agent' = [agent EXCEPT ![a] = "reporting"]
  /\ ran' = ran \cup {cur[a]}
  /\ \E ok \in BOOLEAN :
       /\ verdict' = [verdict EXCEPT ![a] = ok]
       /\ completed' = IF ok THEN completed \cup {cur[a]} ELSE completed
  /\ UNCHANGED <<callVars, tableVars, cur, losses>>

SendReport(a) ==
  /\ agent[a] = "reporting"
  /\ DeliverReport(a)
  /\ agent' = [agent EXCEPT ![a] = "idle"]
  /\ UNCHANGED <<callVars, healthy, queue, results, dead, cur, verdict, history>>

(* The one attempt to send the report fails: it is logged, and the loop goes  *)
(* on.                                                                        *)
ReportLost(a) ==
  /\ Lose
  /\ agent[a] = "reporting"
  /\ agent' = [agent EXCEPT ![a] = "idle"]
  /\ UNCHANGED <<callVars, tableVars, cur, verdict, ran,
                 completed>>

(* The agent process restarts (systemd, Restart=on-failure) and forgets the   *)
(* command it was executing.                                                  *)
AgentRestarts(a) ==
  /\ Lose
  /\ agent[a] \in {"executing", "reporting"}
  /\ agent' = [agent EXCEPT ![a] = "idle"]
  /\ UNCHANGED <<callVars, tableVars, cur, verdict, ran,
                 completed>>

--------------------------------------------------------------------------------

CallStep(s) ==
  \/ BeginSend(s)
  \/ AgentReady(s)
  \/ AgentAbsent(s)
  \/ Enqueue(s)
  \/ TakeReport(s)
  \/ AbortSend(s)

AgentStep(a) ==
  \/ Register(a)
  \/ PollArrives(a)
  \/ PollAnswers(a)
  \/ PollTimesOut(a)
  \/ Execute(a)
  \/ SendReport(a)

Fault(a) ==
  \/ PollBreaks(a)
  \/ CommandSwallowed(a)
  \/ DeadPollTimesOut(a)
  \/ ReportLost(a)
  \/ AgentRestarts(a)

Next ==
  \/ \E t \in Tasks : StartSendAll(t) \/ EndSendAll(t)
  \/ \E s \in Sends : CallStep(s)
  \/ \E a \in Agents : AgentStep(a) \/ Fault(a)
  \/ CancelRun
  \/ RestartServer

Spec == Init /\ [][Next]_vars

(* The server's goroutines run; an agent that is idle polls, executes what it *)
(* is given and reports.  Between a command in the queue and the poll timer   *)
(* Go's select picks at random, which never favours the timer for ever.       *)
Fairness ==
  /\ \A t \in Tasks : WF_vars(StartSendAll(t)) /\ WF_vars(EndSendAll(t))
  /\ \A s \in Sends : WF_vars(CallStep(s))
  /\ \A a \in Agents :
       /\ WF_vars(PollArrives(a))
       /\ SF_vars(PollAnswers(a))
       /\ WF_vars(Execute(a))
       /\ WF_vars(SendReport(a))

FairSpec == Spec /\ Fairness

--------------------------------------------------------------------------------
(* Properties.                                                                *)

(* client_poll.go: Send "waits for the report from the agent": a Send that    *)
(* returns nil has had its own command executed with success by its target.   *)
SuccessIsOwn == \A s \in Sends : phase[s] = "ok" => cmd[s] \in completed

(* However calls are aborted and retried, connections break and the server    *)
(* restarts, an agent is never given a command twice, and never an older try  *)
(* of a task after a newer one.                                               *)
NoRepeatNoReorder ==
  \A a \in Agents : agent[a] = "executing" =>
    \A c \in ran :
      c.task = cur[a].task /\ c.agent = a =>
        \/ c.boot < cur[a].boot
        \/ c.boot = cur[a].boot /\ c.seq < cur[a].seq

(* A task is done only when every target has executed the command of the last *)
(* try with success, although the Sends of a call cancel one another and      *)
(* commands of earlier tries may have succeeded before or be queued still.    *)
TaskDoneEverywhere ==
  \A t \in Tasks : task[t] = "ok" =>
    \A a \in Targets[t] :
      LET c == cmd[<<t, a>>]
      IN  c \in completed /\ c.task = t /\ c.agent = a

(* While connections hold and no handler of a broken poll is left to swallow  *)
(* its command, a Send does not hang, whatever was lost before: the commands  *)
(* of aborted calls and the reports for them do not get in its way.           *)
SendReturns ==
  \A s \in Sends :
    phase[s] = "start" /\ losses = MaxLosses /\ dead[s[2]] = 0
      ~> phase[s] \in {"ok", "error", "none"}

(* Whatever was lost, cancelling the run ends every task that is waiting.     *)
CancelReleases ==
  \A t \in Tasks : ctxDone ~> (task[t] \in {"ok", "failed"} \/ ~ctxDone)
================================================================================
