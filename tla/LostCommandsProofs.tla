------------------------- MODULE LostCommandsProofs ------------------------
(***************************************************************************)
(* How a command gets lost, and that nothing brings it back.               *)
(*                                                                         *)
(* A running command is in the hands of one holder: an answer on the wire, *)
(* an agent that runs it or a result POST in flight.  The table does not   *)
(* say which, and no timeout or requeue looks for a row without one        *)
(* (ClaimNextCommand selects "pending" only), so a row whose holder is     *)
(* gone shows "running" for ever.                                          *)
(***************************************************************************)
EXTENDS RemoteCommandsProofs

(* Somebody will still do something about command i.                       *)
Carried(i)  == \E a \in Agents : reply[a] = i
Executed(i) == \E a \in Agents : pc[a] = "executing" /\ job[a] = i
Posted(i)   == \E p \in posts : p.cmd = i
Held(i)     == Carried(i) \/ Executed(i) \/ Posted(i)

(* The register shows the command as running, and nobody will finish it.   *)
Lost(i) == status[i] = "running" /\ ~Held(i)

(* The steps that take the last holder of command i away.                  *)
LossOf(i) ==
  \/ /\ \E a \in Agents : HandleLatePoll(a)
     /\ status[i] = "pending" /\ status'[i] # "pending"
  \/ \E a \in Agents : PollFails(a) /\ reply[a] = i
  \/ \E a \in Agents : /\ AgentRestart(a)
                       /\ reply[a] = i \/ (pc[a] = "executing" /\ job[a] = i)
  \/ \E p \in posts : LosePost(p) /\ p.cmd = i

-----------------------------------------------------------------------------
(* A row comes to be running by a claim only, and leaves that state by a   *)
(* result only.                                                            *)
LEMMA RunningMoves ==
  ASSUME TypeInv, Custody, [Next]_vars, NEW i \in Ids
  PROVE  /\ status[i] # "running" /\ status'[i] = "running" => status[i] = "pending"
         /\ status[i] = "running" /\ status'[i] # "running" => status'[i] \in Outcomes
<1>1. RowMoves(i)
  BY RowsMoveStep DEF RowsMove
<1>2. status[i] = "running" => ~Inserted(i)
  <2>1. lastId \in Nat
    BY ConstantsAssumption DEF TypeInv, TypeOK, TableTypeOK
  <2>2. i > lastId => status[i] = "absent"
    BY DEF Custody, Unstarted
  <2>3. QED
    BY <2>1, <2>2 DEF Inserted
<1>3. QED
  BY <1>1, <1>2 DEF RowMoves, Inserted, Claimed, Completed, Purged, Outcomes

(* A result closes the row it names, which is held by that POST.           *)
LEMMA ResultClosesPosted ==
  ASSUME TypeInv, Custody, NEW i \in Ids,
         NEW p \in posts, RecordCommandResult(p), status[i] = "running"
  PROVE  status'[i] # "running" <=> p.cmd = i
BY DEF RecordCommandResult, RecordResultAs, ResultTarget, Custody, PostHolds, Outcomes,
   TypeInv, TypeOK, RunTypeOK, TableTypeOK

(* Nobody takes up a running command that nobody holds.                    *)
LEMMA LostStep ==
  ASSUME TypeInv, Custody, [Next]_vars, NEW i \in Ids, Lost(i)
  PROVE  Lost(i)'
<1> USE ConstantsAssumption DEF table, agents, job_, truth
<1>0. /\ status[i] = "running" /\ i # NoCommand
      /\ \A a \in Agents : reply[a] # i /\ ~(pc[a] = "executing" /\ job[a] = i)
      /\ \A p \in posts : p.cmd # i
  BY DEF Lost, Held, Carried, Executed, Posted, Ids, NoCommand
<1>1. status'[i] = "running"
  <2>1. CASE status' = status
    BY <1>0, <2>1
  <2>2. ASSUME NEW o \in Operators, NEW m \in Machines, CreateCacheCleanCommand(o, m)
        PROVE  status'[i] = "running"
    <3>1. i # lastId + 1
      BY <1>0 DEF Custody, Unstarted, TypeInv, TypeOK, TableTypeOK, Ids
    <3>2. status \in [Ids -> Statuses]
      BY DEF TypeInv, TypeOK, TableTypeOK
    <3>3. QED
      BY <1>0, <2>2, <3>1, <3>2 DEF CreateCacheCleanCommand
  <2>3. ASSUME NEW a \in Agents, HandlePoll(a) \/ HandleLatePoll(a)
        PROVE  status'[i] = "running"
    BY <1>0, <2>3 DEF HandlePoll, HandleLatePoll, ClaimNextCommand, OldestPending,
       PendingOf, TypeInv, TypeOK, TableTypeOK
  <2>4. ASSUME NEW p \in posts, RecordCommandResult(p)
        PROVE  status'[i] = "running"
    BY <1>0, <2>4, ResultClosesPosted
  <2>5. CASE CleanupCommands
    BY <1>0, <2>5 DEF CleanupCommands, Outcomes
  <2>6. QED
    BY <2>1, <2>2, <2>3, <2>4, <2>5 DEF Next, Calm, Fault, AgentStep, vars, Tick,
       StampCommand, AddEvent, AddEventFails, StartPoll, DropLatePoll, PollFails,
       ReceiveAnswer, FinishCommand, EndReport, LosePost, CleanupStart, CleanupEvents,
       CleanupFails, AgentRestart, ServerRestart
<1>2. ASSUME NEW b \in Agents
      PROVE  reply'[b] # i /\ ~(pc'[b] = "executing" /\ job'[b] = i)
  <2> USE DEF TypeInv, TypeOK, AgentTypeOK
  <2>1. CASE UNCHANGED <<reply, pc, job>>
    BY <1>0, <2>1
  <2>2. ASSUME NEW a \in Agents, StartPoll(a) \/ FinishCommand(a, "succeeded")
                                 \/ FinishCommand(a, "failed") \/ EndReport(a)
        PROVE  <1>2!2
    BY <1>0, <2>2 DEF StartPoll, FinishCommand, EndReport
  <2>3. ASSUME NEW a \in Agents, HandlePoll(a) PROVE <1>2!2
    <3>1. PICK k : /\ ClaimNextCommand(MachineOf[a], k)
                   /\ reply' = [reply EXCEPT ![a] = k]
      BY <2>3 DEF HandlePoll
    <3>2. k # i
      BY <3>1, <1>0, ClaimOne
    <3>3. QED
      BY <1>0, <2>3, <3>1, <3>2 DEF HandlePoll
  <2>4. ASSUME NEW a \in Agents, PollFails(a) \/ AgentRestart(a) PROVE <1>2!2
    BY <1>0, <2>4 DEF PollFails, AgentRestart, Abandon
  <2>5. ASSUME NEW a \in Agents, ReceiveAnswer(a) PROVE <1>2!2
    BY <1>0, <2>5 DEF ReceiveAnswer
  <2>6. QED
    BY <2>1, <2>2, <2>3, <2>4, <2>5 DEF Next, Calm, Fault, AgentStep, vars, Outcomes,
       Tick, StampCommand, CreateCacheCleanCommand, AddEvent, AddEventFails,
       HandleLatePoll, DropLatePoll, LosePost, RecordCommandResult, RecordResultAs,
       CleanupStart, CleanupEvents, CleanupCommands, CleanupFails, ServerRestart
<1>3. ASSUME NEW p \in posts' PROVE p.cmd # i
  <2>1. CASE p \in posts
    BY <1>0, <2>1
  <2>2. ASSUME NEW a \in Agents, NEW s \in Outcomes, FinishCommand(a, s)
        PROVE  p.cmd # i
    BY <1>0, <2>2 DEF FinishCommand
  <2>3. QED
    BY <2>1, <2>2 DEF Next, Calm, Fault, AgentStep, vars, Tick, StampCommand,
       CreateCacheCleanCommand, AddEvent, AddEventFails, StartPoll, HandlePoll,
       HandleLatePoll, DropLatePoll, PollFails, ReceiveAnswer, EndReport, LosePost,
       RecordCommandResult, RecordResultAs, CleanupStart, CleanupEvents,
       CleanupCommands, CleanupFails, AgentRestart, ServerRestart
<1>4. QED
  BY <1>1, <1>2, <1>3 DEF Lost, Held, Carried, Executed, Posted

(* A lost command stays lost: the register shows it running for ever, and  *)
(* TLC's counterexample to RunningCompletes is not a matter of waiting     *)
(* longer.  (No timeout, requeue or cleanup in internal/server looks at    *)
(* running rows.)                                                          *)
THEOREM LostForGood ==
  ASSUME NEW i \in Ids
  PROVE  Spec => [](Lost(i) => [](status[i] = "running"))
<1>1. TypeInv /\ Custody /\ [Next]_vars => (Lost(i) => Lost(i)')
  BY LostStep
<1>2. Lost(i) => status[i] = "running"
  BY DEF Lost
<1>3. QED
  BY <1>1, <1>2, TypeCorrect, CustodyInvariant, PTL DEF Spec

(* So a behaviour that loses a command refutes what the test of the        *)
(* feature expects (TestActionPINCreatesAndCompletesCacheCommand), however *)
(* fair it is to the agents, the network and the server.                   *)
COROLLARY LostNeverCompletes ==
  ASSUME NEW i \in Ids
  PROVE  Spec /\ <>Lost(i) => ~RunningCompletes
<1>1. Spec => [](Lost(i) => [](status[i] = "running"))
  BY LostForGood
<1>2. Lost(i) => status[i] = "running"
  BY DEF Lost
<1>3. RunningCompletes => (status[i] = "running" ~> status[i] # "running")
  BY DEF RunningCompletes
<1>4. ~(status[i] # "running" /\ status[i] = "running")
  OBVIOUS
<1>5. QED
  BY <1>1, <1>2, <1>3, <1>4, PTL

-----------------------------------------------------------------------------
(* The steps of a calm system hand a command on and never drop it.         *)
LEMMA CalmHandsOn ==
  ASSUME TypeInv, Custody, NEW i \in Ids, [Calm]_vars,
         status[i] = "running" => Held(i)
  PROVE  status'[i] = "running" => Held(i)'
<1> USE ConstantsAssumption DEF table, agents, job_, truth
<1> SUFFICES ASSUME status'[i] = "running" PROVE Held(i)'
  OBVIOUS
<1>1. CASE UNCHANGED <<status, pc, job, reply, posts>>
  BY <1>1 DEF Held, Carried, Executed, Posted
<1>2. ASSUME NEW o \in Operators, NEW m \in Machines, CreateCacheCleanCommand(o, m)
      PROVE  Held(i)'
  <2>1. status[i] = "running" /\ UNCHANGED <<pc, job, reply, posts>>
    BY <1>2 DEF CreateCacheCleanCommand, TypeInv, TypeOK, TableTypeOK
  <2>2. QED
    BY <2>1 DEF Held, Carried, Executed, Posted
<1>3. ASSUME NEW a \in Agents, StartPoll(a) \/ EndReport(a) PROVE Held(i)'
  <2>1. /\ status[i] = "running" /\ UNCHANGED <<reply, posts>>
        /\ pc[a] # "executing"
        /\ \A b \in Agents : b # a => pc'[b] = pc[b] /\ job'[b] = job[b]
    BY <1>3 DEF StartPoll, EndReport, TypeInv, TypeOK, AgentTypeOK
  <2>2. QED
    BY <2>1 DEF Held, Carried, Executed, Posted
<1>4. ASSUME NEW a \in Agents, HandlePoll(a) PROVE Held(i)'
  <2>1. PICK k : /\ ClaimNextCommand(MachineOf[a], k)
                 /\ reply' = [reply EXCEPT ![a] = k]
    BY <1>4 DEF HandlePoll
  <2>2. reply[a] = NoCommand /\ UNCHANGED <<pc, job, posts>> /\ poll[a] = "request"
    BY <1>4 DEF HandlePoll, Custody, PollOpen
  <2>3. CASE status[i] = "running"
    <3>1. reply[a] # i
      BY <2>2 DEF NoCommand, Ids
    <3>2. Carried(i) => Carried(i)'
      BY <2>1, <3>1 DEF Carried, TypeInv, TypeOK, AgentTypeOK
    <3>3. QED
      BY <2>2, <2>3, <3>2 DEF Held, Executed, Posted
  <2>4. CASE status[i] # "running"
    <3>1. k = i
      BY <2>1, <2>4, ClaimOne DEF TypeInv, TypeOK, TableTypeOK
    <3>2. reply'[a] = i
      BY <2>1, <3>1 DEF TypeInv, TypeOK, AgentTypeOK
    <3>3. QED
      BY <3>2 DEF Held, Carried
  <2>5. QED
    BY <2>3, <2>4
<1>5. ASSUME NEW a \in Agents, ReceiveAnswer(a) PROVE Held(i)'
  <2>1. /\ status[i] = "running" /\ UNCHANGED posts
        /\ \A b \in Agents : b # a => /\ reply'[b] = reply[b]
                                      /\ pc'[b] = pc[b] /\ job'[b] = job[b]
        /\ reply[a] = i => pc'[a] = "executing" /\ job'[a] = i
        /\ pc[a] # "executing"
    BY <1>5 DEF ReceiveAnswer, TypeInv, TypeOK, AgentTypeOK, NoCommand, Ids
  <2>2. QED
    BY <2>1 DEF Held, Carried, Executed, Posted
<1>6. ASSUME NEW a \in Agents, NEW s \in Outcomes, FinishCommand(a, s) PROVE Held(i)'
  <2> DEFINE post == [cmd |-> job[a], machine |-> MachineOf[a], status |-> s]
  <2>1. /\ status[i] = "running" /\ UNCHANGED <<reply, job>>
        /\ \A b \in Agents : b # a => pc'[b] = pc[b]
        /\ posts' = posts \cup {post}
    BY <1>6 DEF FinishCommand, TypeInv, TypeOK, AgentTypeOK
  <2>2. job[a] = i => Posted(i)'
    <3>1. post \in posts' /\ post.cmd = job[a]
      BY <2>1
    <3>2. QED
      BY <3>1 DEF Posted
  <2>3. Posted(i) => Posted(i)'
    BY <2>1 DEF Posted
  <2>4. Executed(i) => job[a] = i \/ Executed(i)'
    BY <2>1 DEF Executed
  <2>5. Carried(i) => Carried(i)'
    BY <2>1 DEF Carried
  <2>6. QED
    BY <2>1, <2>2, <2>3, <2>4, <2>5 DEF Held
<1>7. ASSUME NEW p \in posts, RecordCommandResult(p) PROVE Held(i)'
  <2>1. /\ posts' = posts \ {p} /\ UNCHANGED <<pc, job, reply>>
        /\ status[i] = "running" /\ p.cmd # i
    BY <1>7 DEF RecordCommandResult, RecordResultAs, ResultTarget, Outcomes, Custody,
       PostHolds, TypeInv, TypeOK, RunTypeOK
  <2>2. QED
    BY <2>1 DEF Held, Carried, Executed, Posted
<1>8. CASE CleanupCommands
  <2>1. status[i] = "running" /\ UNCHANGED <<pc, job, reply, posts>>
    BY <1>8 DEF CleanupCommands
  <2>2. QED
    BY <2>1 DEF Held, Carried, Executed, Posted
<1>9. QED
  BY <1>1, <1>2, <1>3, <1>4, <1>5, <1>6, <1>7, <1>8 DEF Calm, AgentStep, vars, Tick,
     StampCommand, AddEvent, CleanupStart, CleanupEvents

(* Without faults no command is ever lost: whatever the interleaving of    *)
(* operators, agents with one token, results and retention, a running      *)
(* command is on its way to its result.                                    *)
THEOREM CalmLosesNothing ==
  ASSUME NEW i \in Ids
  PROVE  Init /\ [][Calm]_vars => []~Lost(i)
<1>1. Init => (status[i] = "running" => Held(i))
  BY DEF Init
<1>2. [Calm]_vars => [Next]_vars
  BY DEF Next
<1>3. TypeInv /\ Custody /\ (status[i] = "running" => Held(i)) /\ [Calm]_vars =>
        (status[i] = "running" => Held(i))'
  BY CalmHandsOn
<1>4. (status[i] = "running" => Held(i)) => ~Lost(i)
  BY DEF Lost
<1>5. QED
  BY <1>1, <1>2, <1>3, <1>4, TypeCorrect, CustodyInvariant, PTL DEF Spec

-----------------------------------------------------------------------------
(* What each fault takes away from command i.                              *)
LEMMA FaultTakes ==
  ASSUME TypeInv, Custody, NEW i \in Ids, Fault, ~Lost(i), Lost(i)'
  PROVE  LossOf(i)
<1> USE ConstantsAssumption DEF table, agents, job_, truth
<1>1. ASSUME UNCHANGED <<status, pc, job, reply, posts>> PROVE FALSE
  BY <1>1 DEF Lost, Held, Carried, Executed, Posted
<1>2. ASSUME NEW a \in Agents, HandleLatePoll(a) PROVE LossOf(i)
  <2>1. status[i] # "running" /\ status'[i] = "running"
    BY <1>2 DEF HandleLatePoll, Lost, Held, Carried, Executed, Posted
  <2>2. status[i] = "pending"
    BY <2>1, <1>2, RunningMoves DEF Next, Fault
  <2>3. QED
    BY <1>2, <2>1, <2>2 DEF LossOf
<1>3. ASSUME NEW a \in Agents, PollFails(a) PROVE LossOf(i)
  <2>1. /\ UNCHANGED <<status, job, posts>> /\ pc[a] = "polling"
        /\ \A b \in Agents : b # a => reply'[b] = reply[b] /\ pc'[b] = pc[b]
    BY <1>3 DEF PollFails, Abandon, TypeInv, TypeOK, AgentTypeOK
  <2>2. Executed(i) => Executed(i)'
    BY <2>1 DEF Executed
  <2>3. Posted(i) => Posted(i)'
    BY <2>1 DEF Posted
  <2>4. Carried(i) => reply[a] = i \/ Carried(i)'
    BY <2>1 DEF Carried
  <2>5. reply[a] = i
    BY <2>1, <2>2, <2>3, <2>4 DEF Lost, Held
  <2>6. QED
    BY <1>3, <2>5 DEF LossOf
<1>4. ASSUME NEW a \in Agents, AgentRestart(a) PROVE LossOf(i)
  <2>1. /\ UNCHANGED <<status, posts>>
        /\ \A b \in Agents : b # a => /\ reply'[b] = reply[b]
                                      /\ pc'[b] = pc[b] /\ job'[b] = job[b]
    BY <1>4 DEF AgentRestart, Abandon, TypeInv, TypeOK, AgentTypeOK
  <2>2. Executed(i) => (pc[a] = "executing" /\ job[a] = i) \/ Executed(i)'
    BY <2>1 DEF Executed
  <2>3. Posted(i) => Posted(i)'
    BY <2>1 DEF Posted
  <2>4. Carried(i) => reply[a] = i \/ Carried(i)'
    BY <2>1 DEF Carried
  <2>5. reply[a] = i \/ (pc[a] = "executing" /\ job[a] = i)
    BY <2>1, <2>2, <2>3, <2>4 DEF Lost, Held
  <2>6. QED
    BY <1>4, <2>5 DEF LossOf
<1>5. ASSUME NEW p \in posts, LosePost(p) PROVE LossOf(i)
  <2>1. UNCHANGED <<status, pc, job, reply>> /\ posts' = posts \ {p}
    BY <1>5 DEF LosePost
  <2>2. Carried(i) \/ Executed(i) => Held(i)'
    BY <2>1 DEF Held, Carried, Executed
  <2>3. Posted(i) => p.cmd = i \/ Posted(i)'
    BY <2>1 DEF Posted
  <2>4. p.cmd = i
    BY <2>1, <2>2, <2>3 DEF Lost, Held
  <2>5. QED
    BY <1>5, <2>4 DEF LossOf
<1>6. QED
  BY <1>1, <1>2, <1>3, <1>4, <1>5 DEF Fault, AddEventFails, DropLatePoll, CleanupFails,
     ServerRestart

(* The holder a fault takes away was the only one.                         *)
LEMMA FaultLoses ==
  ASSUME TypeInv, Custody, NEW i \in Ids, LossOf(i)
  PROVE  ~Lost(i) /\ Lost(i)'
<1> USE ConstantsAssumption DEF table, agents, job_, truth
<1>0. \A p, q \in posts : p.cmd = q.cmd => p = q
  <2> SUFFICES ASSUME NEW p \in posts, NEW q \in posts, p.cmd = q.cmd PROVE p = q
    OBVIOUS
  <2>1. q.machine = p.machine /\ q.status = p.status
    BY DEF Custody, PostHolds
  <2>2. /\ p \in [cmd : Ids, machine : Machines, status : Outcomes]
        /\ q \in [cmd : Ids, machine : Machines, status : Outcomes]
    BY DEF TypeInv, TypeOK, RunTypeOK
  <2>3. QED
    BY <2>1, <2>2
<1>1. ASSUME NEW a \in Agents, HandleLatePoll(a),
             status[i] = "pending", status'[i] # "pending"
      PROVE  ~Lost(i) /\ Lost(i)'
  <2>1. ~Held(i)
    BY <1>1 DEF Custody, AnswerHolds, AgentHolds, PostHolds, Held, Carried, Executed,
       Posted, Ids, NoCommand
  <2>2. status'[i] = "running" /\ UNCHANGED <<pc, job, reply, posts>>
    <3>1. PICK k : ClaimNextCommand(MachineOf[a], k)
      BY <1>1 DEF HandleLatePoll
    <3>2. status \in [Ids -> Statuses]
      BY DEF TypeInv, TypeOK, TableTypeOK
    <3>3. status'[i] = "running"
      BY <1>1, <3>1, <3>2, ClaimOne
    <3>4. QED
      BY <1>1, <3>3 DEF HandleLatePoll
  <2>3. QED
    BY <1>1, <2>1, <2>2 DEF Lost, Held, Carried, Executed, Posted
<1>2. ASSUME NEW a \in Agents, PollFails(a) \/ AgentRestart(a), reply[a] = i
      PROVE  ~Lost(i) /\ Lost(i)'
  <2>1. /\ status[i] = "running" /\ starts[i] = 0 /\ pc[a] = "polling" /\ i # NoCommand
    BY <1>2 DEF Custody, AnswerHolds, PollOpen, Ids, NoCommand
  <2>2. /\ \A b \in Agents : b # a => reply[b] # i
        /\ \A b \in Agents : ~(pc[b] = "executing" /\ job[b] = i)
        /\ \A p \in posts : p.cmd # i
    BY <1>2, <2>1 DEF Custody, Exclusive, AgentHolds, PostHolds
  <2>3. /\ UNCHANGED <<status, posts>> /\ reply'[a] = NoCommand /\ pc'[a] = "idle"
        /\ \A b \in Agents : b # a => /\ reply'[b] = reply[b]
                                      /\ pc'[b] = pc[b] /\ job'[b] = job[b]
    BY <1>2 DEF PollFails, AgentRestart, Abandon, TypeInv, TypeOK, AgentTypeOK
  <2>4. QED
    BY <1>2, <2>1, <2>2, <2>3 DEF Lost, Held, Carried, Executed, Posted
<1>3. ASSUME NEW a \in Agents, AgentRestart(a), pc[a] = "executing", job[a] = i
      PROVE  ~Lost(i) /\ Lost(i)'
  <2>1. /\ status[i] = "running" /\ starts[i] = 1 /\ outcome[i] = "none"
        /\ i # NoCommand
    BY <1>3 DEF Custody, AgentHolds, Ids, NoCommand
  <2>2. /\ \A b \in Agents : reply[b] # i
        /\ \A b \in Agents : b # a => ~(pc[b] = "executing" /\ job[b] = i)
        /\ \A p \in posts : p.cmd # i
    <3>1. \A p \in posts : p.cmd # i
      BY <2>1 DEF Custody, PostHolds, TypeInv, TypeOK, RunTypeOK, Outcomes
    <3>2. QED
      BY <1>3, <2>1, <3>1 DEF Custody, Exclusive, AnswerHolds
  <2>3. /\ UNCHANGED <<status, posts>> /\ reply'[a] = NoCommand /\ pc'[a] = "idle"
        /\ \A b \in Agents : b # a => /\ reply'[b] = reply[b]
                                      /\ pc'[b] = pc[b] /\ job'[b] = job[b]
    BY <1>3 DEF AgentRestart, Abandon, TypeInv, TypeOK, AgentTypeOK
  <2>4. QED
    BY <1>3, <2>1, <2>2, <2>3 DEF Lost, Held, Carried, Executed, Posted
<1>4. ASSUME NEW p \in posts, LosePost(p), p.cmd = i
      PROVE  ~Lost(i) /\ Lost(i)'
  <2>1. /\ status[i] = "running" /\ starts[i] = 1 /\ outcome[i] # "none"
        /\ i # NoCommand
    BY <1>4 DEF Custody, PostHolds, TypeInv, TypeOK, RunTypeOK, Outcomes, Ids, NoCommand
  <2>2. /\ \A b \in Agents : reply[b] # i
        /\ \A b \in Agents : ~(pc[b] = "executing" /\ job[b] = i)
    BY <2>1 DEF Custody, AnswerHolds, AgentHolds
  <2>3. /\ UNCHANGED <<status, pc, job, reply>>
        /\ \A q \in posts' : q.cmd # i
    BY <1>0, <1>4 DEF LosePost
  <2>4. QED
    BY <1>4, <2>1, <2>2, <2>3 DEF Lost, Held, Carried, Executed, Posted
<1>5. QED
  BY <1>1, <1>2, <1>3, <1>4 DEF LossOf

(* A command is lost by one of four faults and by nothing else: a poll     *)
(* that claims it after its agent stopped waiting, a poll whose answer     *)
(* does not arrive, a restart of the agent that has it, a result POST that *)
(* fails.  No race of two agents with one token and no cleanup loses one,  *)
(* and none of the four faults is harmless: the holder it takes away was   *)
(* the only one.                                                           *)
THEOREM LostByTheseFaults ==
  ASSUME NEW i \in Ids
  PROVE  Spec => [][LossOf(i) <=> ~Lost(i) /\ Lost(i)']_vars
<1>1. TypeInv /\ Custody /\ [Next]_vars => [LossOf(i) <=> ~Lost(i) /\ Lost(i)']_vars
  <2> SUFFICES ASSUME TypeInv, Custody, [Next]_vars, ~Lost(i), Lost(i)'
               PROVE  LossOf(i) \/ UNCHANGED vars
    BY FaultLoses
  <2>1. CASE [Calm]_vars
    <3>1. status[i] = "running" => Held(i)
      BY DEF Lost
    <3>2. QED
      BY <2>1, <3>1, CalmHandsOn DEF Lost
  <2>2. CASE Fault
    BY <2>2, FaultTakes
  <2>3. QED
    BY <2>1, <2>2 DEF Next
<1>2. QED
  BY <1>1, TypeCorrect, CustodyInvariant, PTL DEF Spec

=============================================================================
