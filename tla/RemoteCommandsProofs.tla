------------------------ MODULE RemoteCommandsProofs -----------------------
(***************************************************************************)
(* What RemoteCommands keeps for every set of machines, agents and         *)
(* operators and every value of the bounds.                                *)
(*                                                                         *)
(* The argument is one of custody.  A running command has at most one      *)
(* holder: an answer on the wire, an agent that runs it, or a result POST  *)
(* in flight.  starts and outcome tell the three stages apart, so only     *)
(* holders of one kind have to be compared (Custody below).  When a holder *)
(* is lost, nothing makes the command available again; this is why a run   *)
(* is never repeated, and why a lost command stays running for ever.       *)
(***************************************************************************)
EXTENDS RemoteCommands, TLAPS

(* TypeOK made inductive: an agent that executes holds a command.          *)
TypeInv == /\ TypeOK
           /\ \A a \in Agents : pc[a] = "executing" => job[a] \in Ids

(* Ids not given out yet and commands not claimed yet have not been run.   *)
Unstarted ==
  \A i \in Ids : /\ i > lastId => status[i] = "absent"
                 /\ i > lastId \/ status[i] = "pending" =>
                       starts[i] = 0 /\ outcome[i] = "none"

(* A poll is on the wire only while its agent waits for it.                *)
PollOpen ==
  \A a \in Agents : /\ poll[a] # "none" => pc[a] = "polling"
                    /\ reply[a] # NoCommand => poll[a] = "answer"

(* An answer on the wire that carries a command.                           *)
AnswerHolds ==
  \A a \in Agents : reply[a] # NoCommand =>
     /\ status[reply[a]] = "running"
     /\ owner[reply[a]] = MachineOf[a]
     /\ starts[reply[a]] = 0
     /\ outcome[reply[a]] = "none"

(* An agent that runs a command.                                           *)
AgentHolds ==
  \A a \in Agents : pc[a] = "executing" =>
     /\ status[job[a]] = "running"
     /\ owner[job[a]] = MachineOf[a]
     /\ starts[job[a]] = 1
     /\ outcome[job[a]] = "none"

(* A result POST in flight.                                                *)
PostHolds ==
  \A p \in posts : /\ status[p.cmd] = "running"
                   /\ owner[p.cmd] = p.machine
                   /\ starts[p.cmd] = 1
                   /\ outcome[p.cmd] = p.status

(* No two answers carry, and no two agents run, the same command.          *)
Exclusive ==
  \A a, b \in Agents : a # b =>
     /\ reply[a] # NoCommand => reply[a] # reply[b]
     /\ pc[a] = "executing" /\ pc[b] = "executing" => job[a] # job[b]

Custody == /\ Unstarted
           /\ PollOpen
           /\ AnswerHolds
           /\ AgentHolds
           /\ PostHolds
           /\ Exclusive
           /\ AtMostOnce
           /\ RecordedOutcome

(* The cutoff of a cleanup under way is not younger than the retention.    *)
CutoffOld == cleaner # "idle" => cutoff + Retention <= clock

-----------------------------------------------------------------------------
(* Every variable keeps its type, and an agent that executes holds a       *)
(* command (Runner.runCommand returns before it when there is none).       *)
THEOREM TypeCorrect == Spec => []TypeInv
<1> USE ConstantsAssumption DEF Statuses, Outcomes, EventTypes, NoCommand, NoDraft, Ids
<1>1. Init => TypeInv
  BY DEF Init, TypeInv, TypeOK, TableTypeOK, TimelineTypeOK, AgentTypeOK, RunTypeOK,
     TimeTypeOK
<1>2. TypeInv /\ [Next]_vars => TypeInv'
  <2> SUFFICES ASSUME TypeInv, [Next]_vars PROVE TypeInv'
    OBVIOUS
  <2>1. CASE Tick
    <3>1. TimeTypeOK'
      BY <2>1 DEF Tick, TypeInv, TypeOK, TimeTypeOK, table, agents, job_, truth
    <3>2. QED
      BY <2>1, <3>1 DEF Tick, TypeInv, TypeOK, TableTypeOK, TimelineTypeOK,
         AgentTypeOK, RunTypeOK,
         table, agents, job_, truth
  <2>2. ASSUME NEW o \in Operators, NEW m \in Machines, StampCommand(o, m)
        PROVE TypeInv'
    <3>1. TableTypeOK'
      BY <2>2 DEF StampCommand, TypeInv, TypeOK, TableTypeOK, TimeTypeOK, table,
         agents, job_, truth
    <3>2. QED
      BY <2>2, <3>1 DEF StampCommand, TypeInv, TypeOK, TimelineTypeOK, AgentTypeOK,
         RunTypeOK, TimeTypeOK,
         table, agents, job_, truth
  <2>3. ASSUME NEW o \in Operators, NEW m \in Machines,
               CreateCacheCleanCommand(o, m)
        PROVE TypeInv'
    <3>1. TableTypeOK'
      BY <2>3 DEF CreateCacheCleanCommand, TypeInv, TypeOK, TableTypeOK, table,
         agents, job_, truth
    <3>2. TimelineTypeOK'
      BY <2>3 DEF CreateCacheCleanCommand, TypeInv, TypeOK, TimelineTypeOK,
         TableTypeOK, table, agents, job_, truth
    <3>3. QED
      BY <2>3, <3>1, <3>2 DEF CreateCacheCleanCommand, TypeInv, TypeOK, AgentTypeOK,
         RunTypeOK, TimeTypeOK,
         table, agents, job_, truth
  <2>4. ASSUME NEW e \in eventDue, AddEvent(e)
        PROVE TypeInv'
    <3>1. TimelineTypeOK'
      BY <2>4 DEF AddEvent, TypeInv, TypeOK, TimelineTypeOK, table, agents, job_, truth
    <3>2. QED
      BY <2>4, <3>1 DEF AddEvent, TypeInv, TypeOK, TableTypeOK, AgentTypeOK,
         RunTypeOK, TimeTypeOK,
         table, agents, job_, truth
  <2>5. ASSUME NEW e \in eventDue, AddEventFails(e)
        PROVE TypeInv'
    <3>1. TimelineTypeOK'
      BY <2>5 DEF AddEventFails, TypeInv, TypeOK, TimelineTypeOK, table, agents, job_,
         truth
    <3>2. QED
      BY <2>5, <3>1 DEF AddEventFails, TypeInv, TypeOK, TableTypeOK, AgentTypeOK,
         RunTypeOK, TimeTypeOK,
         table, agents, job_, truth
  <2>6. ASSUME NEW a \in Agents, StartPoll(a)
        PROVE TypeInv'
    <3>1. AgentTypeOK'
      BY <2>6 DEF StartPoll, TypeInv, TypeOK, AgentTypeOK, table, agents, job_, truth
    <3>2. \A b \in Agents : pc'[b] = "executing" => job'[b] \in Ids
      BY <2>6 DEF StartPoll, TypeInv, TypeOK, AgentTypeOK
    <3>3. QED
      BY <2>6, <3>1, <3>2 DEF StartPoll, TypeInv, TypeOK, TableTypeOK, TimelineTypeOK,
         RunTypeOK, TimeTypeOK,
         table, agents, job_, truth
  <2>7. ASSUME NEW a \in Agents, HandlePoll(a)
        PROVE TypeInv'
    <3>1. TableTypeOK'
      BY <2>7 DEF HandlePoll, ClaimNextCommand, OldestPending, PendingOf, TypeInv,
         TypeOK, TableTypeOK, table, agents, job_, truth
    <3>2. AgentTypeOK'
      BY <2>7 DEF HandlePoll, ClaimNextCommand, OldestPending, PendingOf, TypeInv,
         TypeOK, AgentTypeOK, table, agents, job_, truth
    <3>3. \A b \in Agents : pc'[b] = "executing" => job'[b] \in Ids
      BY <2>7 DEF HandlePoll, ClaimNextCommand, OldestPending, PendingOf, TypeInv,
         TypeOK, AgentTypeOK
    <3>4. QED
      BY <2>7, <3>1, <3>2, <3>3 DEF HandlePoll, TypeInv, TypeOK, TimelineTypeOK,
         RunTypeOK, TimeTypeOK,
         table, agents, job_, truth
  <2>8. ASSUME NEW a \in Agents, HandleLatePoll(a)
        PROVE TypeInv'
    <3>1. TableTypeOK'
      BY <2>8 DEF HandleLatePoll, ClaimNextCommand, OldestPending, PendingOf, TypeInv,
         TypeOK, TableTypeOK, table, agents, job_, truth
    <3>2. AgentTypeOK'
      BY <2>8 DEF HandleLatePoll, ClaimNextCommand, OldestPending, PendingOf, TypeInv,
         TypeOK, AgentTypeOK, table, agents, job_, truth
    <3>3. \A b \in Agents : pc'[b] = "executing" => job'[b] \in Ids
      BY <2>8 DEF HandleLatePoll, ClaimNextCommand, OldestPending, PendingOf, TypeInv,
         TypeOK, AgentTypeOK
    <3>4. QED
      BY <2>8, <3>1, <3>2, <3>3 DEF HandleLatePoll, TypeInv, TypeOK, TimelineTypeOK,
         RunTypeOK, TimeTypeOK,
         table, agents, job_, truth
  <2>9. ASSUME NEW a \in Agents, DropLatePoll(a)
        PROVE TypeInv'
    <3>1. AgentTypeOK'
      BY <2>9 DEF DropLatePoll, TypeInv, TypeOK, AgentTypeOK, table, agents, job_, truth
    <3>2. \A b \in Agents : pc'[b] = "executing" => job'[b] \in Ids
      BY <2>9 DEF DropLatePoll, TypeInv, TypeOK, AgentTypeOK
    <3>3. QED
      BY <2>9, <3>1, <3>2 DEF DropLatePoll, TypeInv, TypeOK, TableTypeOK,
         TimelineTypeOK, RunTypeOK, TimeTypeOK,
         table, agents, job_, truth
  <2>10. ASSUME NEW a \in Agents, PollFails(a)
         PROVE TypeInv'
    <3>1. AgentTypeOK'
      BY <2>10 DEF PollFails, Abandon, TypeInv, TypeOK, AgentTypeOK, table, agents,
         job_, truth
    <3>2. \A b \in Agents : pc'[b] = "executing" => job'[b] \in Ids
      BY <2>10 DEF PollFails, Abandon, TypeInv, TypeOK, AgentTypeOK
    <3>3. QED
      BY <2>10, <3>1, <3>2 DEF PollFails, TypeInv, TypeOK, TableTypeOK,
         TimelineTypeOK, RunTypeOK, TimeTypeOK,
         table, agents, job_, truth
  <2>11. ASSUME NEW a \in Agents, ReceiveAnswer(a)
         PROVE TypeInv'
    <3>1. AgentTypeOK'
      BY <2>11 DEF ReceiveAnswer, TypeInv, TypeOK, AgentTypeOK, table, agents, job_,
         truth
    <3>2. RunTypeOK'
      BY <2>11 DEF ReceiveAnswer, TypeInv, TypeOK, RunTypeOK, table, agents, job_, truth
    <3>3. \A b \in Agents : pc'[b] = "executing" => job'[b] \in Ids
      BY <2>11 DEF ReceiveAnswer, TypeInv, TypeOK, AgentTypeOK
    <3>4. QED
      BY <2>11, <3>1, <3>2, <3>3 DEF ReceiveAnswer, TypeInv, TypeOK, TableTypeOK,
         TimelineTypeOK, TimeTypeOK,
         table, agents, job_, truth
  <2>12. ASSUME NEW a \in Agents, NEW s \in Outcomes, FinishCommand(a, s)
         PROVE TypeInv'
    <3>1. AgentTypeOK'
      BY <2>12 DEF FinishCommand, TypeInv, TypeOK, AgentTypeOK, table, agents, job_,
         truth
    <3>2. RunTypeOK'
      BY <2>12 DEF FinishCommand, TypeInv, TypeOK, RunTypeOK, table, agents, job_, truth
    <3>3. \A b \in Agents : pc'[b] = "executing" => job'[b] \in Ids
      BY <2>12 DEF FinishCommand, TypeInv, TypeOK, AgentTypeOK
    <3>4. QED
      BY <2>12, <3>1, <3>2, <3>3 DEF FinishCommand, TypeInv, TypeOK, TableTypeOK,
         TimelineTypeOK, TimeTypeOK,
         table, agents, job_, truth
  <2>13. ASSUME NEW a \in Agents, EndReport(a)
         PROVE TypeInv'
    <3>1. AgentTypeOK'
      BY <2>13 DEF EndReport, TypeInv, TypeOK, AgentTypeOK, table, agents, job_, truth
    <3>2. \A b \in Agents : pc'[b] = "executing" => job'[b] \in Ids
      BY <2>13 DEF EndReport, TypeInv, TypeOK, AgentTypeOK
    <3>3. QED
      BY <2>13, <3>1, <3>2 DEF EndReport, TypeInv, TypeOK, TableTypeOK,
         TimelineTypeOK, RunTypeOK, TimeTypeOK,
         table, agents, job_, truth
  <2>14. ASSUME NEW p \in posts, LosePost(p)
         PROVE TypeInv'
    <3>1. RunTypeOK'
      BY <2>14 DEF LosePost, TypeInv, TypeOK, RunTypeOK, table, agents, job_, truth
    <3>2. QED
      BY <2>14, <3>1 DEF LosePost, TypeInv, TypeOK, TableTypeOK, TimelineTypeOK,
         AgentTypeOK, TimeTypeOK,
         table, agents, job_, truth
  <2>15. ASSUME NEW p \in posts, RecordCommandResult(p)
         PROVE TypeInv'
    <3>1. TableTypeOK'
      BY <2>15 DEF RecordCommandResult, RecordResultAs, ResultTarget, TypeInv, TypeOK,
         TableTypeOK, RunTypeOK, table, agents, job_, truth
    <3>2. TimelineTypeOK'
      BY <2>15 DEF RecordCommandResult, RecordResultAs, ResultTarget, TypeInv, TypeOK,
         TimelineTypeOK, table, agents, job_, truth
    <3>3. RunTypeOK'
      BY <2>15 DEF RecordCommandResult, RecordResultAs, ResultTarget, TypeInv, TypeOK,
         RunTypeOK, table, agents, job_, truth
    <3>4. QED
      BY <2>15, <3>1, <3>2, <3>3 DEF RecordCommandResult, RecordResultAs, TypeInv,
         TypeOK, AgentTypeOK, TimeTypeOK,
         table, agents, job_, truth
  <2>16. CASE CleanupStart
    <3>1. TimeTypeOK'
      BY <2>16 DEF CleanupStart, TypeInv, TypeOK, TimeTypeOK, table, agents, job_, truth
    <3>2. QED
      BY <2>16, <3>1 DEF CleanupStart, TypeInv, TypeOK, TableTypeOK, TimelineTypeOK,
         AgentTypeOK, RunTypeOK,
         table, agents, job_, truth
  <2>17. CASE CleanupEvents
    <3>1. TimelineTypeOK'
      BY <2>17 DEF CleanupEvents, TypeInv, TypeOK, TimelineTypeOK, table, agents,
         job_, truth
    <3>2. TimeTypeOK'
      BY <2>17 DEF CleanupEvents, TypeInv, TypeOK, TimeTypeOK, table, agents, job_,
         truth
    <3>3. QED
      BY <2>17, <3>1, <3>2 DEF CleanupEvents, TypeInv, TypeOK, TableTypeOK,
         AgentTypeOK, RunTypeOK,
         table, agents, job_, truth
  <2>18. CASE CleanupCommands
    <3>1. TableTypeOK'
      BY <2>18 DEF CleanupCommands, TypeInv, TypeOK, TableTypeOK, table, agents, job_,
         truth
    <3>2. TimeTypeOK'
      BY <2>18 DEF CleanupCommands, TypeInv, TypeOK, TimeTypeOK, table, agents, job_,
         truth
    <3>3. QED
      BY <2>18, <3>1, <3>2 DEF CleanupCommands, TypeInv, TypeOK, TimelineTypeOK,
         AgentTypeOK, RunTypeOK,
         table, agents, job_, truth
  <2>19. CASE CleanupFails
    <3>1. TimeTypeOK'
      BY <2>19 DEF CleanupFails, TypeInv, TypeOK, TimeTypeOK, table, agents, job_, truth
    <3>2. QED
      BY <2>19, <3>1 DEF CleanupFails, TypeInv, TypeOK, TableTypeOK, TimelineTypeOK,
         AgentTypeOK, RunTypeOK,
         table, agents, job_, truth
  <2>20. ASSUME NEW a \in Agents, AgentRestart(a)
         PROVE TypeInv'
    <3>1. AgentTypeOK'
      BY <2>20 DEF AgentRestart, Abandon, TypeInv, TypeOK, AgentTypeOK, table, agents,
         job_, truth
    <3>2. \A b \in Agents : pc'[b] = "executing" => job'[b] \in Ids
      BY <2>20 DEF AgentRestart, Abandon, TypeInv, TypeOK, AgentTypeOK
    <3>3. QED
      BY <2>20, <3>1, <3>2 DEF AgentRestart, TypeInv, TypeOK, TableTypeOK,
         TimelineTypeOK, RunTypeOK, TimeTypeOK,
         table, agents, job_, truth
  <2>21. CASE ServerRestart
    <3>1. TableTypeOK'
      BY <2>21 DEF ServerRestart, TypeInv, TypeOK, TableTypeOK, table, agents, job_,
         truth
    <3>2. TimelineTypeOK'
      BY <2>21 DEF ServerRestart, TypeInv, TypeOK, TimelineTypeOK, table, agents,
         job_, truth
    <3>3. TimeTypeOK'
      BY <2>21 DEF ServerRestart, TypeInv, TypeOK, TimeTypeOK, table, agents, job_,
         truth
    <3>4. QED
      BY <2>21, <3>1, <3>2, <3>3 DEF ServerRestart, TypeInv, TypeOK, AgentTypeOK,
         RunTypeOK,
         table, agents, job_, truth
  <2>22. CASE UNCHANGED vars
    <3>1. QED
      BY <2>22, <2>22 DEF vars, TypeInv, TypeOK, TableTypeOK, TimelineTypeOK,
         AgentTypeOK, RunTypeOK, TimeTypeOK,
         table, agents, job_, truth
  <2>23. QED
    BY <2>1, <2>2, <2>3, <2>4, <2>5, <2>6, <2>7, <2>8, <2>9, <2>10, <2>11, <2>12,
       <2>13, <2>14, <2>15, <2>16, <2>17, <2>18, <2>19, <2>20, <2>21, <2>22
       DEF Next, Calm, Fault, AgentStep
<1>3. QED
  BY <1>1, <1>2, PTL DEF Spec

-----------------------------------------------------------------------------
(* A claim changes no row, or one pending row of the machine.              *)
LEMMA ClaimOne ==
  ASSUME NEW m, NEW k, ClaimNextCommand(m, k)
  PROVE  \/ k = NoCommand /\ UNCHANGED status
         \/ /\ k \in Ids /\ status[k] = "pending" /\ owner[k] = m
            /\ status' = [status EXCEPT ![k] = "running"]
BY DEF ClaimNextCommand, OldestPending, PendingOf

(* Nobody holds a pending row, and claiming it disturbs no holder.         *)
LEMMA ClaimKeepsHolders ==
  ASSUME TypeInv, Custody, NEW k \in Ids, status[k] = "pending",
         status' = [status EXCEPT ![k] = "running"],
         UNCHANGED <<owner, lastId, starts, outcome, posts>>
  PROVE  /\ Unstarted' /\ PostHolds' /\ RecordedOutcome' /\ AtMostOnce'
         /\ \A a \in Agents : reply[a] # NoCommand => reply[a] # k
         /\ \A a \in Agents : pc[a] = "executing" => job[a] # k
<1> USE DEF Custody, TypeInv, TypeOK, TableTypeOK, Ids
<1>1. \A j \in Ids : status'[j] = IF j = k THEN "running" ELSE status[j]
  OBVIOUS
<1>2. k <= lastId /\ k \in Nat /\ lastId \in Nat
  BY ConstantsAssumption DEF Unstarted
<1>3. Unstarted' /\ AtMostOnce'
  BY <1>1, <1>2 DEF Unstarted, AtMostOnce
<1>4. PostHolds' /\ RecordedOutcome'
  BY <1>1 DEF PostHolds, RecordedOutcome, RunTypeOK, Outcomes
<1>5. /\ \A a \in Agents : reply[a] # NoCommand => reply[a] # k
      /\ \A a \in Agents : pc[a] = "executing" => job[a] # k
  BY DEF AnswerHolds, AgentHolds
<1>6. QED
  BY <1>3, <1>4, <1>5

(* Custody is inductive, action by action.                                 *)
LEMMA CustodyStep ==
  ASSUME TypeInv, TypeInv', Custody, [Next]_vars
  PROVE  Custody'
<1> USE ConstantsAssumption DEF Custody, NoCommand, Ids, Outcomes, Statuses
<1>1. CASE Tick
  BY <1>1 DEF Tick, Unstarted, PollOpen, AnswerHolds, AgentHolds, PostHolds,
     Exclusive, AtMostOnce, RecordedOutcome,
     table, agents, job_, truth
<1>2. ASSUME NEW o \in Operators, NEW m \in Machines, StampCommand(o, m)
      PROVE Custody'
  BY <1>2 DEF StampCommand, Unstarted, PollOpen, AnswerHolds, AgentHolds, PostHolds,
     Exclusive, AtMostOnce, RecordedOutcome,
     table, agents, job_, truth
<1>3. ASSUME NEW o \in Operators, NEW m \in Machines,
               CreateCacheCleanCommand(o, m)
      PROVE Custody'
  <2>1. Unstarted'
    BY <1>3 DEF CreateCacheCleanCommand, Unstarted, AnswerHolds, AgentHolds,
       PostHolds, table, agents, job_, truth,
       TypeInv, TypeOK, TableTypeOK, AgentTypeOK, RunTypeOK
  <2>2. AnswerHolds'
    BY <1>3 DEF CreateCacheCleanCommand, AnswerHolds, Unstarted, PollOpen, table,
       agents, job_, truth,
       TypeInv, TypeOK, TableTypeOK, AgentTypeOK, RunTypeOK
  <2>3. AgentHolds'
    BY <1>3 DEF CreateCacheCleanCommand, AgentHolds, AnswerHolds, Unstarted, PollOpen,
       table, agents, job_, truth,
       TypeInv, TypeOK, TableTypeOK, AgentTypeOK, RunTypeOK
  <2>4. PostHolds'
    BY <1>3 DEF CreateCacheCleanCommand, PostHolds, AgentHolds, Unstarted, table,
       agents, job_, truth,
       TypeInv, TypeOK, TableTypeOK, AgentTypeOK, RunTypeOK
  <2>5. RecordedOutcome'
    BY <1>3 DEF CreateCacheCleanCommand, RecordedOutcome, AnswerHolds, AgentHolds,
       PostHolds, table, agents, job_, truth,
       TypeInv, TypeOK, TableTypeOK, AgentTypeOK, RunTypeOK
  <2>6. QED
    BY <1>3, <2>1, <2>2, <2>3, <2>4, <2>5 DEF CreateCacheCleanCommand, PollOpen,
       Exclusive, AtMostOnce,
       table, agents, job_, truth
<1>4. ASSUME NEW e \in eventDue, AddEvent(e) \/ AddEventFails(e)
      PROVE Custody'
  BY <1>4 DEF AddEvent, AddEventFails, Unstarted, PollOpen, AnswerHolds, AgentHolds,
     PostHolds, Exclusive, AtMostOnce, RecordedOutcome,
     table, agents, job_, truth
<1>5. ASSUME NEW a \in Agents, StartPoll(a)
      PROVE Custody'
  <2>1. PollOpen'
    BY <1>5 DEF StartPoll, PollOpen, table, agents, job_, truth,
       TypeInv, TypeOK, TableTypeOK, AgentTypeOK, RunTypeOK
  <2>2. AgentHolds'
    BY <1>5 DEF StartPoll, AgentHolds, AnswerHolds, Unstarted, PollOpen, table,
       agents, job_, truth,
       TypeInv, TypeOK, TableTypeOK, AgentTypeOK, RunTypeOK
  <2>3. Exclusive'
    BY <1>5 DEF StartPoll, Exclusive, PollOpen, AnswerHolds, AgentHolds, Unstarted,
       table, agents, job_, truth,
       TypeInv, TypeOK, TableTypeOK, AgentTypeOK, RunTypeOK
  <2>4. QED
    BY <1>5, <2>1, <2>2, <2>3 DEF StartPoll, Unstarted, AnswerHolds, PostHolds,
       AtMostOnce, RecordedOutcome,
       table, agents, job_, truth
<1>6. ASSUME NEW a \in Agents, HandlePoll(a)
      PROVE Custody'
  <2> USE DEF table, agents, job_, truth
  <2>1. PICK k \in Ids \cup {NoCommand} :
        /\ ClaimNextCommand(MachineOf[a], k)
        /\ reply' = [reply EXCEPT ![a] = k]
        /\ poll[a] = "request"
        /\ poll' = [poll EXCEPT ![a] = "answer"]
        /\ UNCHANGED <<owner, lastId, starts, outcome, posts, pc, job>>
    BY <1>6 DEF HandlePoll
  <2>2. CASE k = NoCommand /\ UNCHANGED status
    BY <2>1, <2>2 DEF Unstarted, PollOpen, AnswerHolds, AgentHolds, PostHolds,
       Exclusive,
       AtMostOnce, RecordedOutcome, TypeInv, TypeOK, AgentTypeOK
  <2>3. CASE /\ k \in Ids /\ status[k] = "pending" /\ owner[k] = MachineOf[a]
             /\ status' = [status EXCEPT ![k] = "running"]
    <3>1. /\ Unstarted' /\ PostHolds' /\ RecordedOutcome' /\ AtMostOnce'
          /\ \A b \in Agents : reply[b] # NoCommand => reply[b] # k
          /\ \A b \in Agents : pc[b] = "executing" => job[b] # k
      BY <2>1, <2>3, ClaimKeepsHolders
    <3>2. /\ \A j \in Ids : status'[j] = IF j = k THEN "running" ELSE status[j]
          /\ starts[k] = 0 /\ outcome[k] = "none"
      BY <2>3 DEF Unstarted, TypeInv, TypeOK, TableTypeOK
    <3>3. AnswerHolds' /\ PollOpen'
      BY <2>1, <2>3, <3>1, <3>2 DEF AnswerHolds, PollOpen, TypeInv, TypeOK, AgentTypeOK
    <3>4. AgentHolds'
      BY <2>1, <3>1, <3>2 DEF AgentHolds, TypeInv
    <3>5. Exclusive'
      BY <2>1, <3>1 DEF Exclusive, TypeInv, TypeOK, AgentTypeOK
    <3>6. QED
      BY <3>1, <3>3, <3>4, <3>5
  <2>4. QED
    BY <2>1, <2>2, <2>3, ClaimOne
<1>7. ASSUME NEW a \in Agents, HandleLatePoll(a)
      PROVE Custody'
  <2> USE DEF table, agents, job_, truth
  <2>1. PICK k \in Ids \cup {NoCommand} :
        /\ ClaimNextCommand(MachineOf[a], k)
        /\ UNCHANGED <<owner, lastId, starts, outcome, posts, pc, job, poll, reply>>
    BY <1>7 DEF HandleLatePoll
  <2>2. CASE k = NoCommand /\ UNCHANGED status
    BY <2>1, <2>2 DEF Unstarted, PollOpen, AnswerHolds, AgentHolds, PostHolds,
       Exclusive,
       AtMostOnce, RecordedOutcome, TypeInv, TypeOK, AgentTypeOK
  <2>3. CASE /\ k \in Ids /\ status[k] = "pending" /\ owner[k] = MachineOf[a]
             /\ status' = [status EXCEPT ![k] = "running"]
    <3>1. /\ Unstarted' /\ PostHolds' /\ RecordedOutcome' /\ AtMostOnce'
          /\ \A b \in Agents : reply[b] # NoCommand => reply[b] # k
          /\ \A b \in Agents : pc[b] = "executing" => job[b] # k
      BY <2>1, <2>3, ClaimKeepsHolders
    <3>2. /\ \A j \in Ids : status'[j] = IF j = k THEN "running" ELSE status[j]
          /\ starts[k] = 0 /\ outcome[k] = "none"
      BY <2>3 DEF Unstarted, TypeInv, TypeOK, TableTypeOK
    <3>3. AnswerHolds' /\ PollOpen'
      BY <2>1, <2>3, <3>1, <3>2 DEF AnswerHolds, PollOpen, TypeInv, TypeOK, AgentTypeOK
    <3>4. AgentHolds'
      BY <2>1, <3>1, <3>2 DEF AgentHolds, TypeInv
    <3>5. Exclusive'
      BY <2>1, <3>1 DEF Exclusive, TypeInv, TypeOK, AgentTypeOK
    <3>6. QED
      BY <3>1, <3>3, <3>4, <3>5
  <2>4. QED
    BY <2>1, <2>2, <2>3, ClaimOne
<1>8. ASSUME NEW a \in Agents, DropLatePoll(a)
      PROVE Custody'
  BY <1>8 DEF DropLatePoll, Unstarted, PollOpen, AnswerHolds, AgentHolds, PostHolds,
     Exclusive, AtMostOnce, RecordedOutcome,
     table, agents, job_, truth
<1>9. ASSUME NEW a \in Agents, PollFails(a)
      PROVE Custody'
  <2>1. PollOpen'
    BY <1>9 DEF PollFails, Abandon, PollOpen, table, agents, job_, truth,
       TypeInv, TypeOK, TableTypeOK, AgentTypeOK, RunTypeOK
  <2>2. AnswerHolds'
    BY <1>9 DEF PollFails, Abandon, AnswerHolds, Unstarted, PollOpen, table, agents,
       job_, truth,
       TypeInv, TypeOK, TableTypeOK, AgentTypeOK, RunTypeOK
  <2>3. AgentHolds'
    BY <1>9 DEF PollFails, Abandon, AgentHolds, AnswerHolds, Unstarted, PollOpen,
       table, agents, job_, truth,
       TypeInv, TypeOK, TableTypeOK, AgentTypeOK, RunTypeOK
  <2>4. Exclusive'
    BY <1>9 DEF PollFails, Abandon, Exclusive, PollOpen, AnswerHolds, AgentHolds,
       Unstarted, table, agents, job_, truth,
       TypeInv, TypeOK, TableTypeOK, AgentTypeOK, RunTypeOK
  <2>5. QED
    BY <1>9, <2>1, <2>2, <2>3, <2>4 DEF PollFails, Unstarted, PostHolds, AtMostOnce,
       RecordedOutcome,
       table, agents, job_, truth
<1>10. ASSUME NEW a \in Agents, ReceiveAnswer(a)
       PROVE Custody'
  <2> USE DEF table, agents, job_, truth
  <2>1. CASE reply[a] = NoCommand
    <3>1. /\ reply' = [reply EXCEPT ![a] = NoCommand]
          /\ poll' = [poll EXCEPT ![a] = "none"]
          /\ pc' = [pc EXCEPT ![a] = "idle"]
          /\ UNCHANGED <<status, owner, lastId, starts, outcome, posts, job>>
      BY <1>10, <2>1 DEF ReceiveAnswer
    <3>2. PollOpen' /\ AnswerHolds' /\ AgentHolds' /\ Exclusive'
      BY <3>1 DEF PollOpen, AnswerHolds, AgentHolds, Exclusive, TypeInv, TypeOK,
         AgentTypeOK
    <3>3. QED
      BY <3>1, <3>2 DEF Unstarted, PostHolds, AtMostOnce, RecordedOutcome
  <2>2. CASE reply[a] # NoCommand
    <3> DEFINE i == reply[a]
    <3>1. /\ reply' = [reply EXCEPT ![a] = NoCommand]
          /\ poll' = [poll EXCEPT ![a] = "none"]
          /\ pc' = [pc EXCEPT ![a] = "executing"]
          /\ job' = [job EXCEPT ![a] = i]
          /\ starts' = [starts EXCEPT ![i] = @ + 1]
          /\ UNCHANGED <<status, owner, lastId, outcome, posts>>
      BY <1>10, <2>2 DEF ReceiveAnswer
    <3>2. /\ i \in Ids
          /\ status[i] = "running" /\ owner[i] = MachineOf[a]
          /\ starts[i] = 0 /\ outcome[i] = "none"
      BY <2>2 DEF AnswerHolds, TypeInv, TypeOK, AgentTypeOK
    <3>3. /\ \A b \in Agents : b # a => reply[b] # i
          /\ \A b \in Agents : pc[b] = "executing" => job[b] # i
          /\ \A p \in posts : p.cmd # i
      BY <2>2, <3>2 DEF Exclusive, AgentHolds, PostHolds
    <3>4. /\ starts'[i] = 1
          /\ \A j \in Ids : j # i => starts'[j] = starts[j]
      BY <3>1, <3>2 DEF TypeInv, TypeOK, RunTypeOK
    <3> HIDE DEF i
    <3>5. Unstarted' /\ AtMostOnce' /\ RecordedOutcome'
      BY <3>1, <3>2, <3>4 DEF Unstarted, AtMostOnce, RecordedOutcome, TypeInv, TypeOK,
         TableTypeOK
    <3>6. PollOpen'
      BY <3>1 DEF PollOpen, TypeInv, TypeOK, AgentTypeOK
    <3>7. AnswerHolds'
      BY <3>1, <3>3, <3>4 DEF AnswerHolds, TypeInv, TypeOK, AgentTypeOK
    <3>8. AgentHolds'
      BY <3>1, <3>2, <3>3, <3>4 DEF AgentHolds, TypeInv, TypeOK, AgentTypeOK
    <3>9. PostHolds'
      BY <3>1, <3>3, <3>4 DEF PostHolds, TypeInv, TypeOK, RunTypeOK
    <3>10. Exclusive'
      BY <3>1, <3>3 DEF Exclusive, TypeInv, TypeOK, AgentTypeOK
    <3>11. QED
      BY <3>5, <3>6, <3>7, <3>8, <3>9, <3>10
  <2>3. QED
    BY <2>1, <2>2
<1>11. ASSUME NEW a \in Agents, NEW s \in Outcomes, FinishCommand(a, s)
       PROVE Custody'
  <2> USE DEF table, agents, job_, truth
  <2> DEFINE i == job[a]
             post == [cmd |-> i, machine |-> MachineOf[a], status |-> s]
  <2>1. /\ pc' = [pc EXCEPT ![a] = "reporting"]
        /\ outcome' = [outcome EXCEPT ![i] = s]
        /\ posts' = posts \cup {post}
        /\ UNCHANGED <<status, owner, lastId, starts, job, poll, reply>>
    BY <1>11 DEF FinishCommand
  <2>2. /\ pc[a] = "executing" /\ i \in Ids
        /\ status[i] = "running" /\ owner[i] = MachineOf[a]
        /\ starts[i] = 1 /\ outcome[i] = "none"
    BY <1>11 DEF FinishCommand, AgentHolds, TypeInv
  <2>3. /\ \A b \in Agents : reply[b] # NoCommand => reply[b] # i
        /\ \A b \in Agents : b # a /\ pc[b] = "executing" => job[b] # i
        /\ \A p \in posts : p.cmd # i
    <3>1. \A p \in posts : outcome[p.cmd] # "none"
      BY DEF PostHolds, TypeInv, TypeOK, RunTypeOK
    <3>2. QED
      BY <2>2, <3>1 DEF AnswerHolds, Exclusive
  <2>4. /\ outcome'[i] = s
        /\ \A j \in Ids : j # i => outcome'[j] = outcome[j]
    BY <2>1, <2>2 DEF TypeInv, TypeOK, RunTypeOK
  <2>5. Unstarted' /\ AtMostOnce' /\ RecordedOutcome'
    BY <2>1, <2>2, <2>4 DEF Unstarted, AtMostOnce, RecordedOutcome, TypeInv, TypeOK,
       TableTypeOK
  <2>6. PollOpen' /\ AnswerHolds'
    BY <2>1, <2>2, <2>3, <2>4 DEF PollOpen, AnswerHolds, TypeInv, TypeOK, AgentTypeOK
  <2>7. AgentHolds'
    BY <2>1, <2>2, <2>3, <2>4 DEF AgentHolds, TypeInv, TypeOK, AgentTypeOK
  <2>8. PostHolds'
    BY <2>1, <2>2, <2>3, <2>4 DEF PostHolds, TypeInv, TypeOK, RunTypeOK
  <2>9. Exclusive'
    BY <2>1 DEF Exclusive, TypeInv, TypeOK, AgentTypeOK
  <2>10. QED
    BY <2>5, <2>6, <2>7, <2>8, <2>9
<1>12. ASSUME NEW a \in Agents, EndReport(a)
       PROVE Custody'
  <2>1. PollOpen'
    BY <1>12 DEF EndReport, PollOpen, table, agents, job_, truth,
       TypeInv, TypeOK, TableTypeOK, AgentTypeOK, RunTypeOK
  <2>2. AgentHolds'
    BY <1>12 DEF EndReport, AgentHolds, AnswerHolds, Unstarted, PollOpen, table,
       agents, job_, truth,
       TypeInv, TypeOK, TableTypeOK, AgentTypeOK, RunTypeOK
  <2>3. Exclusive'
    BY <1>12 DEF EndReport, Exclusive, PollOpen, AnswerHolds, AgentHolds, Unstarted,
       table, agents, job_, truth,
       TypeInv, TypeOK, TableTypeOK, AgentTypeOK, RunTypeOK
  <2>4. QED
    BY <1>12, <2>1, <2>2, <2>3 DEF EndReport, Unstarted, AnswerHolds, PostHolds,
       AtMostOnce, RecordedOutcome,
       table, agents, job_, truth
<1>13. ASSUME NEW p \in posts, LosePost(p)
       PROVE Custody'
  <2>1. PostHolds'
    BY <1>13 DEF LosePost, PostHolds, AgentHolds, Unstarted, table, agents, job_, truth,
       TypeInv, TypeOK, TableTypeOK, AgentTypeOK, RunTypeOK
  <2>2. QED
    BY <1>13, <2>1 DEF LosePost, Unstarted, PollOpen, AnswerHolds, AgentHolds,
       Exclusive, AtMostOnce, RecordedOutcome,
       table, agents, job_, truth
<1>14. ASSUME NEW p \in posts, RecordCommandResult(p)
       PROVE Custody'
  <2> USE DEF table, agents, job_, truth
  <2> DEFINE i == p.cmd
  <2>1. /\ i \in Ids /\ p.machine \in Machines /\ p.status \in Outcomes
        /\ status[i] = "running" /\ owner[i] = p.machine
        /\ starts[i] = 1 /\ outcome[i] = p.status
    BY DEF PostHolds, TypeInv, TypeOK, RunTypeOK
  <2>2. /\ status' = [j \in Ids |-> IF j = i THEN p.status ELSE status[j]]
        /\ posts' = posts \ {p}
        /\ UNCHANGED <<owner, lastId, starts, outcome, pc, job, poll, reply>>
    BY <1>14, <2>1 DEF RecordCommandResult, RecordResultAs, ResultTarget
  <2>3. /\ \A b \in Agents : reply[b] # NoCommand => reply[b] # i
        /\ \A b \in Agents : pc[b] = "executing" => job[b] # i
    BY <2>1 DEF AnswerHolds, AgentHolds
  <2>4. \A q \in posts : q.cmd = i => q = p
    <3> SUFFICES ASSUME NEW q \in posts, q.cmd = i PROVE q = p
      OBVIOUS
    <3>1. q.machine = p.machine /\ q.status = p.status
      BY <2>1 DEF PostHolds
    <3>2. /\ p \in [cmd : Ids, machine : Machines, status : Outcomes]
          /\ q \in [cmd : Ids, machine : Machines, status : Outcomes]
      BY DEF TypeInv, TypeOK, RunTypeOK
    <3> HIDE DEF Outcomes, Ids
    <3>3. QED
      BY <3>1, <3>2
  <2>5. Unstarted' /\ RecordedOutcome' /\ AtMostOnce'
    BY <2>1, <2>2 DEF Unstarted, RecordedOutcome, AtMostOnce, TypeInv, TypeOK,
       TableTypeOK
  <2>6. PollOpen' /\ AnswerHolds' /\ Exclusive'
    BY <2>1, <2>2, <2>3 DEF PollOpen, AnswerHolds, Exclusive, TypeInv, TypeOK,
       AgentTypeOK
  <2>7. AgentHolds'
    BY <2>1, <2>2, <2>3 DEF AgentHolds, TypeInv
  <2>8. PostHolds'
    BY <2>1, <2>2, <2>4 DEF PostHolds, TypeInv, TypeOK, RunTypeOK
  <2>9. QED
    BY <2>5, <2>6, <2>7, <2>8
<1>15. CASE CleanupStart \/ CleanupEvents \/ CleanupFails
  BY <1>15 DEF CleanupStart, CleanupEvents, CleanupFails, Unstarted, PollOpen,
     AnswerHolds, AgentHolds, PostHolds, Exclusive, AtMostOnce, RecordedOutcome,
     table, agents, job_, truth
<1>16. CASE CleanupCommands
  <2>1. Unstarted'
    BY <1>16 DEF CleanupCommands, Unstarted, AnswerHolds, AgentHolds, PostHolds,
       table, agents, job_, truth,
       TypeInv, TypeOK, TableTypeOK, AgentTypeOK, RunTypeOK
  <2>2. AnswerHolds'
    BY <1>16 DEF CleanupCommands, AnswerHolds, Unstarted, PollOpen, table, agents,
       job_, truth,
       TypeInv, TypeOK, TableTypeOK, AgentTypeOK, RunTypeOK
  <2>3. AgentHolds'
    BY <1>16 DEF CleanupCommands, AgentHolds, AnswerHolds, Unstarted, PollOpen, table,
       agents, job_, truth,
       TypeInv, TypeOK, TableTypeOK, AgentTypeOK, RunTypeOK
  <2>4. PostHolds'
    BY <1>16 DEF CleanupCommands, PostHolds, AgentHolds, Unstarted, table, agents,
       job_, truth,
       TypeInv, TypeOK, TableTypeOK, AgentTypeOK, RunTypeOK
  <2>5. RecordedOutcome'
    BY <1>16 DEF CleanupCommands, RecordedOutcome, AnswerHolds, AgentHolds, PostHolds,
       table, agents, job_, truth,
       TypeInv, TypeOK, TableTypeOK, AgentTypeOK, RunTypeOK
  <2>6. QED
    BY <1>16, <2>1, <2>2, <2>3, <2>4, <2>5 DEF CleanupCommands, PollOpen, Exclusive,
       AtMostOnce,
       table, agents, job_, truth
<1>17. ASSUME NEW a \in Agents, AgentRestart(a)
       PROVE Custody'
  <2>1. PollOpen'
    BY <1>17 DEF AgentRestart, Abandon, PollOpen, table, agents, job_, truth,
       TypeInv, TypeOK, TableTypeOK, AgentTypeOK, RunTypeOK
  <2>2. AnswerHolds'
    BY <1>17 DEF AgentRestart, Abandon, AnswerHolds, Unstarted, PollOpen, table,
       agents, job_, truth,
       TypeInv, TypeOK, TableTypeOK, AgentTypeOK, RunTypeOK
  <2>3. AgentHolds'
    BY <1>17 DEF AgentRestart, Abandon, AgentHolds, AnswerHolds, Unstarted, PollOpen,
       table, agents, job_, truth,
       TypeInv, TypeOK, TableTypeOK, AgentTypeOK, RunTypeOK
  <2>4. Exclusive'
    BY <1>17 DEF AgentRestart, Abandon, Exclusive, PollOpen, AnswerHolds, AgentHolds,
       Unstarted, table, agents, job_, truth,
       TypeInv, TypeOK, TableTypeOK, AgentTypeOK, RunTypeOK
  <2>5. QED
    BY <1>17, <2>1, <2>2, <2>3, <2>4 DEF AgentRestart, Unstarted, PostHolds,
       AtMostOnce, RecordedOutcome,
       table, agents, job_, truth
<1>18. CASE ServerRestart
  BY <1>18 DEF ServerRestart, Unstarted, PollOpen, AnswerHolds, AgentHolds, PostHolds,
     Exclusive, AtMostOnce, RecordedOutcome,
     table, agents, job_, truth
<1>19. CASE UNCHANGED vars
  BY <1>19 DEF vars, Unstarted, PollOpen, AnswerHolds, AgentHolds, PostHolds,
     Exclusive, AtMostOnce, RecordedOutcome,
     table, agents, job_, truth
<1>20. QED
  BY <1>1, <1>2, <1>3, <1>4, <1>5, <1>6, <1>7, <1>8, <1>9, <1>10, <1>11, <1>12, <1>13,
     <1>14, <1>15, <1>16, <1>17, <1>18, <1>19
     DEF Next, Calm, Fault, AgentStep

(* Every behaviour keeps custody.                                          *)
THEOREM CustodyInvariant == Spec => []Custody
<1>1. Init => Custody
  BY ConstantsAssumption DEF Init, Custody, Unstarted, PollOpen, AnswerHolds,
     AgentHolds,
     PostHolds, Exclusive, AtMostOnce, RecordedOutcome, Ids, Outcomes
<1>2. TypeInv /\ TypeInv' /\ Custody /\ [Next]_vars => Custody'
  BY CustodyStep
<1>3. QED
  BY <1>1, <1>2, TypeCorrect, PTL DEF Spec

-----------------------------------------------------------------------------
(* Every table, the timeline and every agent keep the types the schema and *)
(* runner.go give them.                                                    *)
THEOREM CommandsTyped == Spec => []TypeOK
<1>1. TypeInv => TypeOK
  BY DEF TypeInv
<1>2. QED
  BY <1>1, TypeCorrect, PTL

(* A running command is run at most once, whoever polls and restarts.      *)
THEOREM RunAtMostOnce == Spec => []AtMostOnce
<1>1. Custody => AtMostOnce
  BY DEF Custody
<1>2. QED
  BY <1>1, CustodyInvariant, PTL

(* The row of a command under execution is running and its machine's own.  *)
THEOREM ExecutionHasItsRow == Spec => []ExecutingIsRunning
<1>1. TypeInv /\ Custody => ExecutingIsRunning
  BY DEF TypeInv, Custody, AgentHolds, ExecutingIsRunning
<1>2. QED
  BY <1>1, TypeCorrect, CustodyInvariant, PTL

(* A result in flight will find its row, running: the unguarded UPDATE of  *)
(* RecordCommandResult overwrites nothing but "running".                   *)
THEOREM ResultHasItsRow == Spec => []ResultFindsRunning
<1>1. Custody => ResultFindsRunning
  BY DEF Custody, PostHolds, ResultFindsRunning
<1>2. QED
  BY <1>1, CustodyInvariant, PTL

(* The outcome the register shows is the one the run had.                  *)
THEOREM OutcomeIsTrue == Spec => []RecordedOutcome
<1>1. Custody => RecordedOutcome
  BY DEF Custody
<1>2. QED
  BY <1>1, CustodyInvariant, PTL

-----------------------------------------------------------------------------
(* The only moves the status of a row can make in one step.                *)
Inserted(i)  == /\ i = lastId + 1
                /\ lastId' = i
                /\ status'[i] = "pending"
Claimed(i)   == /\ status[i] = "pending"
                /\ status'[i] = "running"
                /\ \A j \in Ids : status[j] = "pending" /\ owner[j] = owner[i]
                                     => created[i] <= created[j]
Completed(i) == /\ status[i] = "running"
                /\ status'[i] \in Outcomes
Purged(i)    == /\ status[i] \in Outcomes
                /\ status'[i] = "absent"
                /\ cleaner = "commands"
                /\ created[i] < cutoff

RowMoves(i) == \/ status'[i] = status[i]
               \/ Inserted(i)
               \/ Claimed(i)
               \/ Completed(i)
               \/ Purged(i)

RowsMove == /\ \A i \in Ids : RowMoves(i)
            /\ lastId' = lastId \/ lastId' = lastId + 1
            /\ \A i \in Ids : i <= lastId => /\ owner'[i] = owner[i]
                                             /\ created'[i] = created[i]

(* The claim, whoever makes it.                                            *)
LEMMA ClaimMoves ==
  ASSUME TypeInv, NEW m \in Machines, NEW k, ClaimNextCommand(m, k)
  PROVE  \A i \in Ids : status'[i] = status[i] \/ Claimed(i)
BY DEF ClaimNextCommand, OldestPending, PendingOf, Claimed, TypeInv, TypeOK,
   TableTypeOK, Ids

LEMMA RowsMoveStep ==
  ASSUME TypeInv, Custody, [Next]_vars
  PROVE  RowsMove
<1> USE ConstantsAssumption DEF RowsMove, RowMoves, table, agents, job_, truth
<1>1. CASE UNCHANGED <<status, owner, created, lastId>>
  BY <1>1
<1>2. ASSUME NEW o \in Operators, NEW m \in Machines,
             CreateCacheCleanCommand(o, m)
      PROVE  RowsMove
  BY <1>2 DEF CreateCacheCleanCommand, Inserted, TypeInv, TypeOK, TableTypeOK, Ids
<1>3. ASSUME NEW a \in Agents, HandlePoll(a) \/ HandleLatePoll(a)
      PROVE  RowsMove
  <2>1. MachineOf[a] \in Machines
    OBVIOUS
  <2>2. PICK k : ClaimNextCommand(MachineOf[a], k)
    BY <1>3 DEF HandlePoll, HandleLatePoll
  <2>3. UNCHANGED <<owner, created, lastId>>
    BY <1>3 DEF HandlePoll, HandleLatePoll
  <2>4. QED
    BY <2>1, <2>2, <2>3, ClaimMoves
<1>4. ASSUME NEW p \in posts, RecordCommandResult(p)
      PROVE  RowsMove
  BY <1>4 DEF RecordCommandResult, RecordResultAs, ResultTarget, Completed, Custody,
     PostHolds, TypeInv, TypeOK, RunTypeOK, TableTypeOK
<1>5. CASE CleanupCommands
  BY <1>5 DEF CleanupCommands, Purged, TypeInv, TypeOK, TableTypeOK
<1>6. QED
  BY <1>1, <1>2, <1>3, <1>4, <1>5 DEF Next, Calm, Fault, AgentStep, vars, Tick,
     StampCommand, AddEvent, AddEventFails, StartPoll, DropLatePoll, PollFails,
     ReceiveAnswer, FinishCommand, EndReport, LosePost, CleanupStart, CleanupEvents,
     CleanupFails, AgentRestart, ServerRestart

(* The only step that raises lastId inserts that row.                      *)
LEMMA InsertIsPending ==
  ASSUME TypeInv, [Next]_vars, lastId' = lastId + 1, lastId + 1 \in Ids
  PROVE  status'[lastId + 1] = "pending"
<1> USE DEF table, agents, job_, truth
<1>1. lastId' # lastId
  BY DEF TypeInv, TypeOK, TableTypeOK
<1>2. PICK o \in Operators, m \in Machines : CreateCacheCleanCommand(o, m)
  BY <1>1 DEF Next, Calm, Fault, AgentStep, vars, Tick, StampCommand, AddEvent,
     AddEventFails, StartPoll, HandlePoll, HandleLatePoll, DropLatePoll, PollFails,
     ReceiveAnswer, FinishCommand, EndReport, LosePost, RecordCommandResult,
     RecordResultAs, CleanupStart, CleanupEvents, CleanupCommands, CleanupFails,
     AgentRestart, ServerRestart
<1>3. QED
  BY <1>2 DEF CreateCacheCleanCommand, TypeInv, TypeOK, TableTypeOK

(* A finished command is never reopened or rewritten, and its id is never  *)
(* used again.                                                             *)
THEOREM FinishedForGood == Spec => FinalIsFinal
<1> DEFINE Kept == \A i \in Ids :
              /\ status[i] \in Outcomes => status'[i] \in {status[i], "absent"}
              /\ status[i] = "absent" /\ i <= lastId => status'[i] = "absent"
<1>1. TypeInv /\ Custody /\ [Next]_vars => [Kept]_vars
  <2> SUFFICES ASSUME TypeInv, Custody, [Next]_vars, NEW i \in Ids
               PROVE  /\ status[i] \in Outcomes => status'[i] \in {status[i], "absent"}
                      /\ status[i] = "absent" /\ i <= lastId => status'[i] = "absent"
    OBVIOUS
  <2>1. RowMoves(i)
    BY RowsMoveStep DEF RowsMove
  <2>2. Unstarted
    BY DEF Custody
  <2>3. QED
    BY <2>1, <2>2, ConstantsAssumption DEF RowMoves, Inserted, Claimed, Completed,
       Purged, Unstarted,
       Outcomes, Ids, TypeInv, TypeOK, TableTypeOK
<1>2. QED
  BY <1>1, TypeCorrect, CustodyInvariant, PTL DEF Spec, FinalIsFinal

(* First stored and first stamped is first given away.  The claim takes an *)
(* oldest pending row, an earlier id is a row already when a later one is  *)
(* claimed, and a row that is not pending never is again.                  *)
THEOREM FirstComeFirstServed == Spec => []OldestFirst
<1>1. Init => OldestFirst
  BY ConstantsAssumption DEF Init, OldestFirst, Ids
<1>2. TypeInv /\ TypeInv' /\ Custody /\ OldestFirst /\ [Next]_vars => OldestFirst'
  <2> SUFFICES ASSUME TypeInv, TypeInv', Custody, OldestFirst, [Next]_vars,
                      NEW i \in Ids, NEW j \in Ids,
                      i < j, j <= lastId', owner'[i] = owner'[j],
                      created'[i] < created'[j], status'[j] # "pending",
                      status'[i] = "pending"
               PROVE  FALSE
    BY DEF OldestFirst
  <2> USE ConstantsAssumption
  <2>1. RowsMove /\ Unstarted
    BY RowsMoveStep DEF Custody
  <2>2. i <= lastId /\ i \in Nat /\ j \in Nat /\ lastId \in Nat
    BY <2>1 DEF RowsMove, Ids, TypeInv, TypeOK, TableTypeOK
  <2>3. owner'[i] = owner[i] /\ created'[i] = created[i] /\ created[i] \in Nat
    BY <2>1, <2>2 DEF RowsMove, TypeInv, TypeOK, TableTypeOK
  <2>4. status[i] = "pending"
    BY <2>1, <2>2 DEF RowsMove, RowMoves, Inserted, Claimed, Completed, Purged, Outcomes
  <2>5. j <= lastId
    <3>1. CASE lastId' = lastId
      BY <3>1
    <3>2. CASE lastId' = lastId + 1
      <4>1. lastId + 1 \in Ids
        BY <3>2, <2>2 DEF TypeInv, TypeOK, TableTypeOK, Ids
      <4>2. status'[lastId + 1] = "pending"
        BY <3>2, <4>1, InsertIsPending
      <4>3. QED
        BY <4>2, <3>2, <2>2
    <3>3. QED
      BY <3>1, <3>2, <2>1 DEF RowsMove
  <2>6. owner'[j] = owner[j] /\ created'[j] = created[j] /\ created[j] \in Nat
    BY <2>1, <2>5 DEF RowsMove, TypeInv, TypeOK, TableTypeOK
  <2>7. status[j] = "pending"
    BY <2>2, <2>3, <2>4, <2>5, <2>6 DEF OldestFirst
  <2>8. Claimed(j)
    BY <2>1, <2>7, <2>5, <2>2 DEF RowsMove, RowMoves, Inserted, Completed, Purged,
       Outcomes
  <2>9. created[j] <= created[i]
    BY <2>8, <2>4, <2>3, <2>6 DEF Claimed
  <2>10. QED
    BY <2>9, <2>3, <2>6
<1>3. QED
  BY <1>1, <1>2, TypeCorrect, CustodyInvariant, PTL DEF Spec

(* The timeline announces no result the register does not have.            *)
THEOREM TimelineIsTrue == Spec => []EventTruth
<1> USE ConstantsAssumption
<1>1. Init => EventTruth
  BY DEF Init, EventTruth
<1>2. TypeInv /\ TypeInv' /\ Custody /\ EventTruth /\ [Next]_vars => EventTruth'
  <2> SUFFICES ASSUME TypeInv, TypeInv', Custody, EventTruth, [Next]_vars
               PROVE  EventTruth'
    OBVIOUS
  <2>1. \A i \in Ids : Closed(i) => Closed(i)'
    <3> SUFFICES ASSUME NEW i \in Ids, Closed(i) PROVE Closed(i)'
      OBVIOUS
    <3>1. RowMoves(i) /\ (lastId' = lastId \/ lastId' = lastId + 1)
      BY RowsMoveStep DEF RowsMove
    <3>2. QED
      BY <3>1 DEF Closed, RowMoves, Inserted, Claimed, Completed, Purged, Outcomes, Ids,
         TypeInv, TypeOK, TableTypeOK
  <2>2. /\ \A e \in eventDue' : e \in eventDue \/ e.type = "command_created"
                                  \/ Closed(e.cmd)'
        /\ \A e \in events' : e \in events \/ e \in eventDue
    <3> USE DEF table, agents, job_, truth
    <3>1. CASE UNCHANGED <<eventDue, events>>
      BY <3>1
    <3>2. ASSUME NEW o \in Operators, NEW m \in Machines,
                 CreateCacheCleanCommand(o, m)
          PROVE  <2>2!1 /\ <2>2!2
      BY <3>2 DEF CreateCacheCleanCommand
    <3>3. ASSUME NEW e \in eventDue, AddEvent(e) \/ AddEventFails(e)
          PROVE  <2>2!1 /\ <2>2!2
      BY <3>3 DEF AddEvent, AddEventFails
    <3>4. ASSUME NEW p \in posts, RecordCommandResult(p)
          PROVE  <2>2!1 /\ <2>2!2
      <4>1. /\ p.cmd \in Ids /\ p.status \in Outcomes /\ p.cmd <= lastId
            /\ status[p.cmd] = "running"
        BY DEF Custody, PostHolds, Unstarted, TypeInv, TypeOK, RunTypeOK, TableTypeOK,
           Ids
      <4>2. Closed(p.cmd)'
        BY <3>4, <4>1 DEF RecordCommandResult, RecordResultAs, ResultTarget, Closed,
           Custody,
           PostHolds, TypeInv, TypeOK, TableTypeOK
      <4>3. QED
        BY <3>4, <4>2 DEF RecordCommandResult, RecordResultAs, ResultTarget
    <3>5. CASE CleanupEvents
      BY <3>5 DEF CleanupEvents
    <3>6. CASE ServerRestart
      BY <3>6 DEF ServerRestart
    <3>7. QED
      BY <3>1, <3>2, <3>3, <3>4, <3>5, <3>6 DEF Next, Calm, Fault, AgentStep, vars,
         Tick,
         StampCommand, StartPoll, HandlePoll, HandleLatePoll, DropLatePoll, PollFails,
         ReceiveAnswer, FinishCommand, EndReport, LosePost, CleanupStart,
         CleanupCommands,
         CleanupFails, AgentRestart
  <2>3. \A e \in eventDue \cup events : e.cmd \in Ids
    BY DEF TypeInv, TypeOK, TimelineTypeOK
  <2>4. QED
    BY <2>1, <2>2, <2>3 DEF EventTruth
<1>3. QED
  BY <1>1, <1>2, TypeCorrect, CustodyInvariant, PTL DEF Spec

(* A cleanup never uses a cutoff younger than the retention time.          *)
LEMMA CutoffInvariant == Spec => []CutoffOld
<1> USE ConstantsAssumption DEF table, agents, job_, truth
<1>1. Init => CutoffOld
  BY DEF Init, CutoffOld
<1>2. TypeInv /\ CutoffOld /\ [Next]_vars => CutoffOld'
  <2> SUFFICES ASSUME TypeInv, CutoffOld, [Next]_vars PROVE CutoffOld'
    OBVIOUS
  <2>1. CASE UNCHANGED <<clock, cleaner, cutoff>>
    BY <2>1 DEF CutoffOld
  <2>2. CASE Tick
    BY <2>2 DEF Tick, CutoffOld, TypeInv, TypeOK, TimeTypeOK
  <2>3. CASE CleanupStart
    BY <2>3 DEF CleanupStart, CutoffOld, TypeInv, TypeOK, TimeTypeOK
  <2>4. CASE CleanupEvents
    BY <2>4 DEF CleanupEvents, CutoffOld
  <2>5. CASE CleanupCommands \/ CleanupFails \/ ServerRestart
    BY <2>5 DEF CleanupCommands, CleanupFails, ServerRestart, CutoffOld
  <2>6. QED
    BY <2>1, <2>2, <2>3, <2>4, <2>5 DEF Next, Calm, Fault, AgentStep, vars,
       StampCommand, CreateCacheCleanCommand, AddEvent, AddEventFails, StartPoll,
       HandlePoll, HandleLatePoll, DropLatePoll, PollFails, ReceiveAnswer,
       FinishCommand, EndReport, LosePost, RecordCommandResult, RecordResultAs,
       AgentRestart
<1>3. QED
  BY <1>1, <1>2, TypeCorrect, PTL DEF Spec

(* Retention deletes only finished commands, and only old ones: however    *)
(* long the DELETE waits after the cutoff was computed.                    *)
THEOREM RetentionIsSafe == Spec => RetentionSafe
<1>1. TypeInv /\ Custody /\ CutoffOld /\ [Next]_vars =>
        [\A i \in Ids : status[i] # "absent" /\ status'[i] = "absent" =>
            /\ status[i] \in Outcomes
            /\ created[i] + Retention < clock]_vars
  <2> SUFFICES ASSUME TypeInv, Custody, CutoffOld, [Next]_vars, NEW i \in Ids,
                      status[i] # "absent", status'[i] = "absent"
               PROVE  status[i] \in Outcomes /\ created[i] + Retention < clock
    OBVIOUS
  <2>1. RowMoves(i)
    BY RowsMoveStep DEF RowsMove
  <2>2. Purged(i)
    BY <2>1 DEF RowMoves, Inserted, Claimed, Completed, Outcomes
  <2>3. QED
    BY <2>2, ConstantsAssumption DEF Purged, CutoffOld, TypeInv, TypeOK, TableTypeOK,
       TimeTypeOK
<1>2. QED
  BY <1>1, TypeCorrect, CustodyInvariant, CutoffInvariant, PTL DEF Spec, RetentionSafe

-----------------------------------------------------------------------------
(* Every step of RemoteCommands is a step of CommandLedger or leaves what  *)
(* the ledger shows unchanged.                                             *)
LEMMA StepSimulates ==
  ASSUME TypeInv, TypeInv', Custody, [Next]_vars
  PROVE  [Ledger!LedgerNext]_(Ledger!lvars)
<1> USE ConstantsAssumption
<1> USE DEF table, agents, job_, truth
<1>0. /\ Unstarted
      /\ \A i \in Ids : status[i] = "running" => Stage[i] = "running"
      /\ \A i \in Ids : status[i] \in Outcomes => Stage[i] = status[i]
      /\ lastId \in Nat
  <2>1. Unstarted /\ lastId \in Nat
    BY DEF Custody, TypeInv, TypeOK, TableTypeOK
  <2>2. ASSUME NEW i \in Ids, status[i] # "absent"
        PROVE  Stage[i] = status[i]
    BY <2>1, <2>2 DEF Unstarted, Stage
  <2>3. QED
    BY <2>1, <2>2 DEF Outcomes
<1>1. CASE UNCHANGED <<status, lastId, starts, outcome>>
  BY <1>1 DEF Stage, Ledger!lvars
<1>2. ASSUME NEW o \in Operators, NEW m \in Machines,
             CreateCacheCleanCommand(o, m)
      PROVE  Ledger!LedgerNext
  <2> DEFINE i == lastId + 1
  <2>1. i \in Ids /\ i > lastId
    BY <1>2, <1>0 DEF CreateCacheCleanCommand, Ids
  <2>2. Stage[i] = "none"
    BY <2>1 DEF Stage
  <2>3. Stage' = [Stage EXCEPT ![i] = "pending"]
    <3>1. /\ lastId' = i
          /\ status' = [status EXCEPT ![i] = "pending"]
      BY <1>2 DEF CreateCacheCleanCommand
    <3>2. ASSUME NEW j \in Ids
          PROVE  Stage'[j] = IF j = i THEN "pending" ELSE Stage[j]
      BY <3>1, <2>1, <1>0 DEF Stage, Ids, TypeInv, TypeOK, TableTypeOK
    <3>3. QED
      BY <3>2 DEF Stage
  <2>4. Ledger!Request(i)
    BY <1>2, <2>2, <2>3 DEF CreateCacheCleanCommand, Ledger!Request
  <2>5. QED
    BY <2>1, <2>4 DEF Ledger!LedgerNext
<1>3. ASSUME NEW a \in Agents, HandlePoll(a) \/ HandleLatePoll(a)
      PROVE  [Ledger!LedgerNext]_(Ledger!lvars)
  <2>1. UNCHANGED <<lastId, starts, outcome>>
    BY <1>3 DEF HandlePoll, HandleLatePoll
  <2>2. PICK k : ClaimNextCommand(MachineOf[a], k)
    BY <1>3 DEF HandlePoll, HandleLatePoll
  <2>3. CASE UNCHANGED status
    BY <2>1, <2>3 DEF Stage, Ledger!lvars
  <2>4. CASE k \in Ids /\ status[k] = "pending" /\ status' = [status EXCEPT ![k] = "running"]
    <3>1. Stage[k] = "pending"
      BY <2>4, <1>0 DEF Stage, Unstarted, Ids
    <3>2. Stage' = [Stage EXCEPT ![k] = "running"]
      BY <2>1, <2>4, <1>0 DEF Stage, Unstarted, Ids, TypeInv, TypeOK, TableTypeOK
    <3>3. Ledger!Dispatch(k)
      BY <2>1, <3>1, <3>2 DEF Ledger!Dispatch
    <3>4. QED
      BY <2>4, <3>3 DEF Ledger!LedgerNext
  <2>5. QED
    BY <2>2, <2>3, <2>4 DEF ClaimNextCommand, OldestPending, PendingOf
<1>4. ASSUME NEW a \in Agents, ReceiveAnswer(a)
      PROVE  [Ledger!LedgerNext]_(Ledger!lvars)
  <2>1. UNCHANGED <<Stage, outcome>>
    BY <1>4 DEF ReceiveAnswer, Stage
  <2>2. CASE reply[a] = NoCommand
    BY <1>4, <2>1, <2>2 DEF ReceiveAnswer, Ledger!lvars
  <2>3. CASE reply[a] # NoCommand
    <3>1. /\ reply[a] \in Ids /\ starts[reply[a]] = 0
          /\ Stage[reply[a]] = "running"
      BY <2>3, <1>0 DEF Custody, AnswerHolds, TypeInv, TypeOK, AgentTypeOK
    <3>2. starts' = [starts EXCEPT ![reply[a]] = 1]
      BY <1>4, <2>3, <3>1 DEF ReceiveAnswer
    <3>3. Ledger!Begin(reply[a])
      BY <2>1, <3>1, <3>2 DEF Ledger!Begin
    <3>4. QED
      BY <3>1, <3>3 DEF Ledger!LedgerNext
  <2>4. QED
    BY <2>2, <2>3
<1>5. ASSUME NEW a \in Agents, NEW s \in Outcomes, FinishCommand(a, s)
      PROVE  Ledger!LedgerNext
  <2>1. /\ job[a] \in Ids /\ starts[job[a]] = 1 /\ outcome[job[a]] = "none"
        /\ Stage[job[a]] = "running"
    BY <1>5, <1>0 DEF FinishCommand, TypeInv, Custody, AgentHolds
  <2>2. Ledger!Finish(job[a], s)
    BY <1>5, <2>1 DEF FinishCommand, Ledger!Finish, Stage
  <2>3. QED
    BY <2>1, <2>2 DEF Ledger!LedgerNext, Ledger!Outcomes, Outcomes
<1>6. ASSUME NEW p \in posts, RecordCommandResult(p)
      PROVE  Ledger!LedgerNext
  <2> DEFINE i == p.cmd
  <2>1. /\ i \in Ids /\ p.status \in Outcomes /\ status[i] = "running"
        /\ owner[i] = p.machine /\ outcome[i] = p.status
    BY DEF Custody, PostHolds, TypeInv, TypeOK, RunTypeOK
  <2>2. /\ status' = [j \in Ids |-> IF j = i THEN p.status ELSE status[j]]
        /\ UNCHANGED <<lastId, starts, outcome>>
    BY <1>6, <2>1 DEF RecordCommandResult, RecordResultAs, ResultTarget
  <2>3. Stage' = [Stage EXCEPT ![i] = outcome[i]]
    BY <2>1, <2>2, <1>0 DEF Stage, Unstarted, Ids, Outcomes
  <2>4. Ledger!Record(i)
    BY <2>1, <2>2, <2>3, <1>0 DEF Ledger!Record, Ledger!Outcomes, Outcomes
  <2>5. QED
    BY <2>1, <2>4 DEF Ledger!LedgerNext
<1>7. CASE CleanupCommands
  <2> DEFINE S == {i \in Ids : status[i] \in Outcomes /\ created[i] < cutoff}
  <2>1. /\ status' = [i \in Ids |-> IF i \in S THEN "absent" ELSE status[i]]
        /\ UNCHANGED <<lastId, starts, outcome>>
    BY <1>7 DEF CleanupCommands
  <2>2. CASE S = {}
    <3>1. \A i \in Ids : status'[i] = status[i]
      BY <2>1, <2>2
    <3>2. Stage' = Stage
      BY <3>1, <2>1 DEF Stage
    <3>3. QED
      BY <3>2, <2>1 DEF Ledger!lvars
  <2>3. CASE S # {}
    <3>1. \A i \in S : Stage[i] \in Ledger!Outcomes
      BY <1>0 DEF Ledger!Outcomes, Outcomes
    <3>2. \A i \in S : i <= lastId
      BY <1>0 DEF Unstarted, Outcomes, Ids
    <3>3. Stage' = [i \in Ids |-> IF i \in S THEN "purged" ELSE Stage[i]]
      BY <2>1, <3>2, <1>0 DEF Stage, Ids
    <3>4. Ledger!Forget(S)
      BY <2>1, <2>3, <3>1, <3>3 DEF Ledger!Forget
    <3>5. QED
      BY <3>4 DEF Ledger!LedgerNext
  <2>4. QED
    BY <2>2, <2>3
<1>8. QED
  BY <1>1, <1>2, <1>3, <1>4, <1>5, <1>6, <1>7 DEF Next, Calm, Fault, AgentStep, vars,
     Tick, StampCommand, AddEvent, AddEventFails, StartPoll, DropLatePoll, PollFails,
     EndReport, LosePost, CleanupStart, CleanupEvents, CleanupFails, AgentRestart,
     ServerRestart

(* The detailed feature implements the ledger.                             *)
THEOREM Implementation == Spec => ImplementsLedger
<1>1. Init => Ledger!LedgerInit
  BY ConstantsAssumption DEF Init, Ledger!LedgerInit, Stage, Ids
<1>2. TypeInv /\ TypeInv' /\ Custody /\ [Next]_vars => [Ledger!LedgerNext]_(Ledger!lvars)
  BY StepSimulates
<1>3. QED
  BY <1>1, <1>2, TypeCorrect, CustodyInvariant, PTL
     DEF Spec, ImplementsLedger, Ledger!LedgerSpec

-----------------------------------------------------------------------------
(* Where the loop of an agent can go from where it is (runCommand).        *)
LEMMA LoopMoves ==
  ASSUME TypeInv, [Next]_vars, NEW a \in Agents
  PROVE  /\ pc[a] = "polling" => pc'[a] \in {"polling", "executing", "idle"}
         /\ pc[a] = "executing" => pc'[a] \in {"executing", "reporting", "idle"}
         /\ pc[a] = "reporting" => pc'[a] \in {"reporting", "idle"}
BY DEF Next, Calm, Fault, AgentStep, vars, table, agents, job_, truth, TypeInv, TypeOK,
   AgentTypeOK, Tick, StampCommand, CreateCacheCleanCommand, AddEvent, AddEventFails,
   StartPoll, HandlePoll, HandleLatePoll, DropLatePoll, PollFails, ReceiveAnswer,
   FinishCommand, EndReport, LosePost, RecordCommandResult, RecordResultAs,
   CleanupStart, CleanupEvents, CleanupCommands, CleanupFails, AgentRestart,
   ServerRestart

(* An agent that keeps moving keeps coming back to its ticker: the command *)
(* loop has no cycle of its own, so AgentReturns needs of the schedule     *)
(* only that no poll, execution or report lasts for ever.                  *)
THEOREM LoopComesBack ==
  ASSUME NEW a \in Agents
  PROVE  Spec /\ []<><<pc'[a] # pc[a]>>_pc => []<>(pc[a] = "idle")
<1> DEFINE idle == pc[a] = "idle"
           polling == pc[a] = "polling"
           executing == pc[a] = "executing"
           reporting == pc[a] = "reporting"
           moves == pc'[a] # pc[a]
<1>1. TypeInv => /\ idle \/ polling \/ executing \/ reporting
                 /\ ~(polling /\ executing) /\ ~(executing /\ reporting)
                 /\ ~(polling /\ reporting)
  BY DEF TypeInv, TypeOK, AgentTypeOK
<1>2. TypeInv /\ [Next]_vars =>
         /\ polling => polling' \/ executing' \/ idle'
         /\ executing => executing' \/ reporting' \/ idle'
         /\ reporting => reporting' \/ idle'
  BY LoopMoves
<1>3. moves => /\ ~(polling /\ polling')
               /\ ~(executing /\ executing')
               /\ ~(reporting /\ reporting')
  OBVIOUS
<1> HIDE DEF idle, polling, executing, reporting, moves
<1>4. Spec /\ []<><<moves>>_pc => []<>idle
  BY <1>1, <1>2, <1>3, TypeCorrect, PTL DEF Spec
<1>5. QED
  BY <1>4, PTL DEF idle, moves
=============================================================================
