--------------------------- MODULE RemoteCommands --------------------------
(***************************************************************************)
(* The remote cache-clean command, from the operator's form to the result  *)
(* in the timeline: the handlers and Store methods of internal/server, the *)
(* polling loop of internal/agent and the HTTP requests between them.      *)
(*                                                                         *)
(* The table agent_commands is one column per function (status, owner,     *)
(* created), indexed by id; "absent" means that there is no such row, and  *)
(* the other columns of an absent row are read by nobody.  SQLite runs one *)
(* write transaction at a time and a claim that lost the race is rolled    *)
(* back, so each statement or transaction is one step, and each handler is *)
(* as many steps as it has of those.  Wall-clock stamps are ticks of a     *)
(* coarse clock: two stamps in one tick may compare either way, as the     *)
(* RFC3339Nano texts the database orders by do within a second.            *)
(*                                                                         *)
(* Faults: requests and answers are lost or time out, a request the agent  *)
(* gave up on still reaches the server (late), agents and the server       *)
(* restart at any point.                                                   *)
(*                                                                         *)
(* A definition marked "variant" is the one below it with a defect such    *)
(* code could have; no specification uses it.  It serves to see that the   *)
(* properties notice the defect.                                           *)
(***************************************************************************)
EXTENDS Integers, FiniteSets

CONSTANTS Machines,     \* rows of table machines
          NoMachine,    \* owner column of an id not used yet
          Agents,       \* agent processes: a service, a console "run", ...
          MachineOf,    \* the machine whose token an agent process carries
          Operators,    \* browser tabs that send the cache-clean form
          Retention,    \* MONITOR_RETENTION_DAYS, in ticks
          MaxCommands,  \* bound: ids handed out
          MaxClock,     \* bound: ticks
          MaxLate       \* bound: abandoned polls in flight, per agent

ASSUME ConstantsAssumption ==
  /\ NoMachine \notin Machines
  /\ MachineOf \in [Agents -> Machines]
  /\ Retention \in Nat \ {0}
  /\ MaxCommands \in Nat
  /\ MaxClock \in Nat
  /\ MaxLate \in Nat

VARIABLES
  clock,      \* server wall clock, in ticks
  status,     \* agent_commands.status of each id
  owner,      \* agent_commands.machine_id
  created,    \* agent_commands.created_at
  lastId,     \* AUTOINCREMENT: highest id ever given
  draft,      \* handlers of the form that have stamped but not inserted yet
  eventDue,   \* handlers between their write and its addEvent
  events,     \* table events: what the timeline of a machine shows
  pc, job,    \* command loop of each agent, and the command it holds
  poll, reply,\* the poll request or its answer on the wire, per agent
  late,       \* polls still under way that their agent has given up on
  posts,      \* result POSTs in flight
  cleaner, cutoff,  \* the retention job and the cutoff it computed
  starts, outcome   \* history: what really happened on the machines

table  == <<status, owner, created, lastId>>
agents == <<pc, job, poll, reply, late>>
job_   == <<cleaner, cutoff>>
truth  == <<starts, outcome>>
vars   == <<clock, table, draft, eventDue, events, agents, posts, job_, truth>>

Ids       == 1..MaxCommands
NoCommand == 0                     \* AUTOINCREMENT ids start at 1
Outcomes  == {"succeeded", "failed"}
NoDraft   == 0                     \* the clock starts at 1

EventTypes == {"command_created", "command_result"}

Init ==
  /\ clock = 1
  /\ status = [i \in Ids |-> "absent"]
  /\ owner = [i \in Ids |-> NoMachine]
  /\ created = [i \in Ids |-> 0]
  /\ lastId = 0
  /\ draft = [o \in Operators |-> [m \in Machines |-> NoDraft]]
  /\ eventDue = {}
  /\ events = {}
  /\ pc = [a \in Agents |-> "idle"]
  /\ job = [a \in Agents |-> NoCommand]
  /\ poll = [a \in Agents |-> "none"]
  /\ reply = [a \in Agents |-> NoCommand]
  /\ late = [a \in Agents |-> 0]
  /\ posts = {}
  /\ cleaner = "idle"
  /\ cutoff = 0
  /\ starts = [i \in Ids |-> 0]
  /\ outcome = [i \in Ids |-> "none"]

Tick == /\ clock < MaxClock
        /\ clock' = clock + 1
        /\ UNCHANGED <<table, draft, eventDue, events, agents, posts, job_, truth>>

-----------------------------------------------------------------------------
(* The operator's request: handleCacheCleanCommand.                        *)

(* The handler has passed its checks and takes created_at from the clock.  *)
StampCommand(o, m) ==
  /\ draft[o][m] = NoDraft
  /\ draft' = [draft EXCEPT ![o][m] = clock]
  /\ UNCHANGED <<clock, table, eventDue, events, agents, posts, job_, truth>>

CreateCacheCleanCommand_Running(o, m) ==      \* variant: wrong initial status
  /\ draft[o][m] # NoDraft
  /\ lastId < MaxCommands
  /\ lastId' = lastId + 1
  /\ status' = [status EXCEPT ![lastId + 1] = "running"]
  /\ owner' = [owner EXCEPT ![lastId + 1] = m]
  /\ created' = [created EXCEPT ![lastId + 1] = draft[o][m]]
  /\ draft' = [draft EXCEPT ![o][m] = NoDraft]
  /\ UNCHANGED <<clock, eventDue, events, agents, posts, job_, truth>>

(* The INSERT, which may run after that of a request stamped later.        *)
CreateCacheCleanCommand(o, m) ==
  /\ draft[o][m] # NoDraft
  /\ lastId < MaxCommands
  /\ LET i == lastId + 1
     IN /\ lastId' = i
        /\ status' = [status EXCEPT ![i] = "pending"]
        /\ owner' = [owner EXCEPT ![i] = m]
        /\ created' = [created EXCEPT ![i] = draft[o][m]]
        /\ eventDue' = eventDue \cup {[cmd |-> i, type |-> "command_created"]}
  /\ draft' = [draft EXCEPT ![o][m] = NoDraft]
  /\ UNCHANGED <<clock, events, agents, posts, job_, truth>>

(* addEvent, a statement of its own after the write it reports.            *)
AddEvent(e) ==
  /\ e \in eventDue
  /\ eventDue' = eventDue \ {e}
  /\ events' = events \cup {e}
  /\ UNCHANGED <<clock, table, draft, agents, posts, job_, truth>>

(* It fails: busy database, or a caller that left and cancelled the        *)
(* request.  The row stays as written.                                     *)
AddEventFails(e) ==
  /\ e \in eventDue
  /\ eventDue' = eventDue \ {e}
  /\ UNCHANGED <<clock, table, draft, events, agents, posts, job_, truth>>

-----------------------------------------------------------------------------
(* The poll: Runner.runCommand, Client.PollCommand, handleAgentCommandPoll. *)

PendingOf_WithRunning(m) ==          \* variant: running commands are requeued
  {i \in Ids : status[i] \in {"pending", "running"} /\ owner[i] = m}

PendingOf_AnyMachine(m) ==           \* variant: machine_id is not compared
  {i \in Ids : status[i] = "pending"}

PendingOf(m) == {i \in Ids : status[i] = "pending" /\ owner[i] = m}

OldestPending_Newest(m) ==           \* variant: ORDER BY created_at DESC
  {i \in PendingOf(m) : \A j \in PendingOf(m) : created[i] >= created[j]}

OldestPending(m) ==
  {i \in PendingOf(m) : \A j \in PendingOf(m) : created[i] <= created[j]}

(* The claim transaction: i is the command it returns, NoCommand for nil.  *)
ClaimNextCommand(m, i) ==
  \/ /\ PendingOf(m) = {}
     /\ i = NoCommand
     /\ UNCHANGED status
  \/ /\ i \in OldestPending(m)
     /\ status' = [status EXCEPT ![i] = "running"]

StartPoll(a) ==
  /\ pc[a] = "idle"
  /\ pc' = [pc EXCEPT ![a] = "polling"]
  /\ poll' = [poll EXCEPT ![a] = "request"]
  /\ UNCHANGED <<clock, table, draft, eventDue, events, job, reply, late,
                 posts, job_, truth>>

HandlePoll(a) ==
  /\ poll[a] = "request"
  /\ \E i \in Ids \cup {NoCommand} :
        /\ ClaimNextCommand(MachineOf[a], i)
        /\ reply' = [reply EXCEPT ![a] = i]
  /\ poll' = [poll EXCEPT ![a] = "answer"]
  /\ UNCHANGED <<clock, owner, created, lastId, draft, eventDue, events,
                 pc, job, late, posts, job_, truth>>

(* The handler runs for a poll nobody waits for: its answer is lost.       *)
HandleLatePoll(a) ==
  /\ late[a] > 0
  /\ \E i \in Ids \cup {NoCommand} : ClaimNextCommand(MachineOf[a], i)
  /\ late' = [late EXCEPT ![a] = @ - 1]
  /\ UNCHANGED <<clock, owner, created, lastId, draft, eventDue, events,
                 pc, job, poll, reply, posts, job_, truth>>

(* A late poll never arrives, or its handler fails.                        *)
DropLatePoll(a) ==
  /\ late[a] > 0
  /\ late' = [late EXCEPT ![a] = @ - 1]
  /\ UNCHANGED <<clock, table, draft, eventDue, events, pc, job, poll, reply,
                 posts, job_, truth>>

(* What becomes of a request whose sender stops waiting for it.            *)
Abandon(a) ==
  /\ poll' = [poll EXCEPT ![a] = "none"]
  /\ reply' = [reply EXCEPT ![a] = NoCommand]
  /\ \/ UNCHANGED late
     \/ /\ poll[a] = "request"
        /\ late[a] < MaxLate
        /\ late' = [late EXCEPT ![a] = @ + 1]

PollFails_NoTimeout(a) ==            \* variant: the client waits for ever
  /\ pc[a] = "polling"
  /\ Abandon(a)
  /\ UNCHANGED <<clock, table, draft, eventDue, events, pc, job, posts, job_, truth>>

(* Timeout, broken connection, 401 or 500: runCommand returns the error    *)
(* and the loop waits for its next tick.                                   *)
PollFails(a) ==
  /\ pc[a] = "polling"
  /\ pc' = [pc EXCEPT ![a] = "idle"]
  /\ Abandon(a)
  /\ UNCHANGED <<clock, table, draft, eventDue, events, job, posts, job_, truth>>

(* The answer arrives: no command, or one that the agent begins to run.    *)
ReceiveAnswer(a) ==
  /\ pc[a] = "polling"
  /\ poll[a] = "answer"
  /\ poll' = [poll EXCEPT ![a] = "none"]
  /\ reply' = [reply EXCEPT ![a] = NoCommand]
  /\ \/ /\ reply[a] = NoCommand
        /\ pc' = [pc EXCEPT ![a] = "idle"]
        /\ UNCHANGED <<job, starts>>
     \/ /\ reply[a] # NoCommand
        /\ pc' = [pc EXCEPT ![a] = "executing"]
        /\ job' = [job EXCEPT ![a] = reply[a]]
        /\ starts' = [starts EXCEPT ![reply[a]] = @ + 1]
  /\ UNCHANGED <<clock, table, draft, eventDue, events, late, posts, job_, outcome>>

-----------------------------------------------------------------------------
(* Execution and result: executeRemoteCommand, Client.SendCommandResult,   *)
(* handleAgentCommandResult.                                               *)

FinishCommand_NotSent(a, s) ==       \* variant: the result is not sent
  /\ pc[a] = "executing"
  /\ pc' = [pc EXCEPT ![a] = "reporting"]
  /\ outcome' = [outcome EXCEPT ![job[a]] = s]
  /\ UNCHANGED <<clock, table, draft, eventDue, events, job, poll, reply, late,
                 posts, job_, starts>>

(* executeRemoteCommand returns s and the result POST is sent.             *)
FinishCommand(a, s) ==
  /\ pc[a] = "executing"
  /\ pc' = [pc EXCEPT ![a] = "reporting"]
  /\ outcome' = [outcome EXCEPT ![job[a]] = s]
  /\ posts' = posts \cup
                {[cmd |-> job[a], machine |-> MachineOf[a], status |-> s]}
  /\ UNCHANGED <<clock, table, draft, eventDue, events, job, poll, reply, late,
                 job_, starts>>

EndReport_RetryAsFailed(a) ==        \* variant: a failed report is sent again
  /\ pc[a] = "reporting"
  /\ pc' = [pc EXCEPT ![a] = "idle"]
  /\ job' = [job EXCEPT ![a] = NoCommand]
  /\ posts' = posts \cup
       {[cmd |-> job[a], machine |-> MachineOf[a], status |-> "failed"]}
  /\ UNCHANGED <<clock, table, draft, eventDue, events, poll, reply, late,
                 job_, truth>>

(* SendCommandResult returns, with or without an error: the loop does not  *)
(* look which, and never sends the result again.                           *)
EndReport(a) ==
  /\ pc[a] = "reporting"
  /\ pc' = [pc EXCEPT ![a] = "idle"]
  /\ job' = [job EXCEPT ![a] = NoCommand]
  /\ UNCHANGED <<clock, table, draft, eventDue, events, poll, reply, late,
                 posts, job_, truth>>

(* The POST is lost, is refused (401 after a rotation) or its UPDATE fails. *)
LosePost(p) ==
  /\ p \in posts
  /\ posts' = posts \ {p}
  /\ UNCHANGED <<clock, table, draft, eventDue, events, agents, job_, truth>>

(* The row the UPDATE of a result selects: by id and machine, whatever the *)
(* status it is in.                                                        *)
ResultTarget(p) == {i \in Ids : /\ i = p.cmd
                                /\ status[i] # "absent"
                                /\ owner[i] = p.machine}

(* The UPDATE sets status s; the event of each row reported is due.        *)
RecordResultAs(p, s, reported) ==
  /\ p \in posts
  /\ posts' = posts \ {p}
  /\ status' = [i \in Ids |-> IF i \in ResultTarget(p) THEN s ELSE status[i]]
  /\ eventDue' = eventDue \cup
                   {[cmd |-> i, type |-> "command_result"] : i \in reported}
  /\ UNCHANGED <<clock, owner, created, lastId, draft, events, agents, job_, truth>>

RecordCommandResult_AlwaysFailed(p) ==   \* variant: || for && in the status test
  RecordResultAs(p, "failed", ResultTarget(p))

RecordCommandResult_Raw(p) ==            \* variant: the status is not normalised
  RecordResultAs(p, "ok", ResultTarget(p))

RecordCommandResult_NoUpdate(p) ==       \* variant: event without the UPDATE
  RecordResultAs(p, "running", ResultTarget(p))

RecordCommandResult_NoEvent(p) ==        \* variant: no addEvent
  RecordResultAs(p, p.status, {})

(* No row: sql.ErrNoRows, answered 404.  One: its event is due.            *)
RecordCommandResult(p) == RecordResultAs(p, p.status, ResultTarget(p))

-----------------------------------------------------------------------------
(* The retention job: the two DELETEs of Cleanup that touch these tables.  *)
(* Each commits on its own; both use the cutoff computed at the start.  An *)
(* event is stamped no earlier than the command it is about, and how much  *)
(* later is left open: the first DELETE may remove any events of commands  *)
(* older than the cutoff.                                                  *)

CleanupStart ==
  /\ cleaner = "idle"
  /\ cleaner' = "events"
  /\ cutoff' = clock - Retention
  /\ UNCHANGED <<clock, table, draft, eventDue, events, agents, posts, truth>>

CleanupEvents ==
  /\ cleaner = "events"
  /\ cleaner' = "commands"
  /\ \E old \in SUBSET {e \in events : created[e.cmd] < cutoff} :
        events' = events \ old
  /\ UNCHANGED <<clock, table, draft, eventDue, agents, posts, cutoff, truth>>

CleanupCommands_AnyStatus ==             \* variant: unfinished rows go too
  /\ cleaner = "commands"
  /\ cleaner' = "idle"
  /\ status' = [i \in Ids |-> IF status[i] # "absent" /\ created[i] < cutoff
                              THEN "absent" ELSE status[i]]
  /\ cutoff' = 0
  /\ UNCHANGED <<clock, owner, created, lastId, draft, eventDue, events, agents,
                 posts, truth>>

CleanupCommands ==
  /\ cleaner = "commands"
  /\ cleaner' = "idle"
  /\ status' = [i \in Ids |-> IF status[i] \in Outcomes /\ created[i] < cutoff
                              THEN "absent" ELSE status[i]]
  /\ cutoff' = 0
  /\ UNCHANGED <<clock, owner, created, lastId, draft, eventDue, events, agents,
                 posts, truth>>

(* A DELETE fails and Cleanup returns: the rest waits for the next hour.   *)
CleanupFails ==
  /\ cleaner # "idle"
  /\ cleaner' = "idle"
  /\ cutoff' = 0
  /\ UNCHANGED <<clock, table, draft, eventDue, events, agents, posts, truth>>

-----------------------------------------------------------------------------
(* Restarts.                                                               *)

(* The agent forgets what it was doing; a request it sent lives on.        *)
AgentRestart(a) ==
  /\ pc[a] # "idle"
  /\ pc' = [pc EXCEPT ![a] = "idle"]
  /\ job' = [job EXCEPT ![a] = NoCommand]
  /\ Abandon(a)
  /\ UNCHANGED <<clock, table, draft, eventDue, events, posts, job_, truth>>

(* The database survives; handlers and the retention job do not.  What is  *)
(* on the wire may reach the new process or be lost (by the actions above). *)
ServerRestart ==
  /\ draft' = [o \in Operators |-> [m \in Machines |-> NoDraft]]
  /\ eventDue' = {}
  /\ cleaner' = "idle"
  /\ cutoff' = 0
  /\ UNCHANGED <<clock, table, events, agents, posts, truth>>

-----------------------------------------------------------------------------
AgentStep(a) == \/ StartPoll(a)
                \/ HandlePoll(a)
                \/ ReceiveAnswer(a)
                \/ \E s \in Outcomes : FinishCommand(a, s)
                \/ EndReport(a)

Calm == \/ Tick
        \/ \E o \in Operators, m \in Machines :
              StampCommand(o, m) \/ CreateCacheCleanCommand(o, m)
        \/ \E e \in eventDue : AddEvent(e)
        \/ \E a \in Agents : AgentStep(a)
        \/ \E p \in posts : RecordCommandResult(p)
        \/ CleanupStart \/ CleanupEvents \/ CleanupCommands

Fault == \/ \E e \in eventDue : AddEventFails(e)
         \/ \E a \in Agents : \/ PollFails(a)
                              \/ HandleLatePoll(a)
                              \/ DropLatePoll(a)
                              \/ AgentRestart(a)
         \/ \E p \in posts : LosePost(p)
         \/ CleanupFails
         \/ ServerRestart

Next == Calm \/ Fault

Spec == Init /\ [][Next]_vars

(* The command loop of a live agent never stops ticking, and a fair-lossy  *)
(* network does not fail every poll for ever.                              *)
AgentFairness(a) ==
  /\ WF_vars(StartPoll(a))
  /\ SF_vars(HandlePoll(a))
  /\ WF_vars(ReceiveAnswer(a))
  /\ WF_vars(\E s \in Outcomes : FinishCommand(a, s))
  /\ WF_vars(EndReport(a))

(* A request that reached the server is handled to its end. *)
ServerFairness ==
  /\ WF_vars(\E p \in posts : RecordCommandResult(p))
  /\ WF_vars(\E e \in eventDue : AddEvent(e))

FairSpec == Spec /\ ServerFairness /\ \A a \in Agents : AgentFairness(a)

-----------------------------------------------------------------------------
(* Properties.                                                             *)

Statuses == {"absent", "pending", "running"} \cup Outcomes

TableTypeOK ==
  /\ status \in [Ids -> Statuses]
  /\ owner \in [Ids -> Machines \cup {NoMachine}]
  /\ created \in [Ids -> Nat]
  /\ lastId \in 0..MaxCommands
  /\ draft \in [Operators -> [Machines -> Nat]]

TimelineTypeOK ==
  /\ eventDue \subseteq [cmd : Ids, type : EventTypes]
  /\ events \subseteq [cmd : Ids, type : EventTypes]

AgentTypeOK ==
  /\ pc \in [Agents -> {"idle", "polling", "executing", "reporting"}]
  /\ job \in [Agents -> Ids \cup {NoCommand}]
  /\ poll \in [Agents -> {"none", "request", "answer"}]
  /\ reply \in [Agents -> Ids \cup {NoCommand}]
  /\ late \in [Agents -> 0..MaxLate]

RunTypeOK ==
  /\ posts \subseteq [cmd : Ids, machine : Machines, status : Outcomes]
  /\ starts \in [Ids -> Nat]
  /\ outcome \in [Ids -> {"none"} \cup Outcomes]

TimeTypeOK ==
  /\ clock \in Nat \ {0}
  /\ cleaner \in {"idle", "events", "commands"}
  /\ cutoff \in Int

TypeOK == /\ TableTypeOK
          /\ TimelineTypeOK
          /\ AgentTypeOK
          /\ RunTypeOK
          /\ TimeTypeOK

(* No command is ever run twice, by two agent processes with one token, by *)
(* one process twice, or by one process after another restarted: the claim *)
(* (ClaimNextCommand) and the result (RecordCommandResult) never make a    *)
(* command that was given away available again.                            *)
AtMostOnce == \A i \in Ids : starts[i] <= 1

(* While an agent runs a command its row is there, running, and belongs to *)
(* the agent's machine: no other result, no purge and no other claim       *)
(* touches it.                                                             *)
ExecutingIsRunning ==
  \A a \in Agents : pc[a] = "executing" =>
     /\ job[a] \in Ids
     /\ status[job[a]] = "running"
     /\ owner[job[a]] = MachineOf[a]

(* A result that arrives finds its row, still running: RecordCommandResult *)
(* has no guard on the status it overwrites, and this is why none is       *)
(* needed; its 404 is never the fate of a genuine result.                  *)
ResultFindsRunning ==
  \A p \in posts : /\ status[p.cmd] = "running"
                   /\ owner[p.cmd] = p.machine

(* What the register shows as the outcome is what happened on the machine. *)
RecordedOutcome ==
  \A i \in Ids : status[i] \in Outcomes => /\ starts[i] = 1
                                           /\ outcome[i] = status[i]

(* First come, first served: of two commands of a machine, the one stored  *)
(* first and stamped in an earlier tick is given away first, by whichever  *)
(* process polls (ORDER BY created_at in ClaimNextCommand).                *)
OldestFirst ==
  \A i, j \in Ids :
     (/\ i < j /\ j <= lastId
      /\ owner[i] = owner[j]
      /\ created[i] < created[j]
      /\ status[j] # "pending") => status[i] # "pending"

(* The timeline never announces a result the register does not have: the   *)
(* event of a result follows its UPDATE, and a row that leaves the final   *)
(* states leaves by retention only.                                        *)
Closed(i) == i <= lastId /\ status[i] \in Outcomes \cup {"absent"}

EventTruth ==
  /\ \A e \in eventDue : e.type = "command_result" => Closed(e.cmd)
  /\ \A e \in events : e.type = "command_result" => Closed(e.cmd)

(* A step never reopens or rewrites a finished command: it stays as it is  *)
(* until retention deletes it, and an id that was deleted stays unused.    *)
FinalIsFinal ==
  [][\A i \in Ids :
       /\ status[i] \in Outcomes => status'[i] \in {status[i], "absent"}
       /\ status[i] = "absent" /\ i <= lastId => status'[i] = "absent"]_vars

(* Retention deletes only finished commands older than the retention time. *)
RetentionSafe ==
  [][\A i \in Ids :
       status[i] # "absent" /\ status'[i] = "absent" =>
          /\ status[i] \in Outcomes
          /\ created[i] + Retention < clock]_vars

(* The feature keeps the promise of CommandLedger.                         *)
Stage == [i \in Ids |-> IF i > lastId THEN "none"
                        ELSE IF status[i] = "absent" THEN "purged"
                        ELSE status[i]]

Ledger == INSTANCE CommandLedger WITH stage <- Stage

ImplementsLedger == Ledger!LedgerSpec

(* A stored command is eventually given to an agent, whatever the restarts *)
(* and the lost requests, as long as polls succeed now and then.           *)
EventuallyClaimed ==
  \A i \in Ids : status[i] = "pending" ~> status[i] # "pending"

(* An agent never stays in a poll, an execution or a report for ever.      *)
AgentReturns == \A a \in Agents : []<>(pc[a] = "idle")

(* Without faults every stored command reaches a final state (or is purged *)
(* after it did).                                                          *)
EventuallyFinal ==
  \A i \in Ids : status[i] = "pending" ~> status[i] \in Outcomes

(* Without faults the timeline shows the result of every finished command. *)
EventuallyInTimeline ==
  \A i \in Ids :
     status[i] \in Outcomes ~>
        \E e \in events : e.cmd = i /\ e.type = "command_result"

(* What TestActionPINCreatesAndCompletesCacheCommand expects of a claimed  *)
(* command: that it completes.                                             *)
RunningCompletes ==
  \A i \in Ids : status[i] = "running" ~> status[i] # "running"
=============================================================================
