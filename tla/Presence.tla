------------------------------ MODULE Presence ------------------------------
(***************************************************************************)
(* Whether a machine is shown as online: the report loops of its agent,    *)
(* last_seen_at on the server, and the event that a machine came back.     *)
(*                                                                         *)
(* Each loop collects, sends one report and waits for the answer, once at  *)
(* the start and then at the ticks of a time.Ticker.  Every report sets    *)
(* last_seen_at to the time the agent stamped it with, in whatever order   *)
(* the reports are handled: one that is late takes last_seen_at back.      *)
(* RecordHeartbeat reads the machine, writes it, and then writes an event  *)
(* if the machine was offline when it was read, or could not be read: the  *)
(* error is dropped.  A page shows a machine online whose last_seen_at is  *)
(* at most OfflineAfter old by the clock of the server, which is not that  *)
(* of the agent.                                                           *)
(*                                                                         *)
(* Time: now is the server's clock and advances by one in Tick, unless     *)
(* somebody would exceed the longest time its step takes.  The other       *)
(* actions take no time.                                                   *)
(*                                                                         *)
(* A definition marked "variant" is the one below it with a defect such    *)
(* code could have; no specification uses it.                              *)
(***************************************************************************)
EXTENDS Integers

CONSTANTS Loops,        \* the loops of an agent that send reports
          Heartbeat,    \* the one RecordHeartbeat handles
          Period,       \* HeartbeatEvery, MetricsEvery, ...
          Collect,      \* longest time of each loop to collect, up to the stamp
          Timeout,      \* RequestTimeout of the HTTP client
          Delay,        \* longest time from the stamp until the server is done
          Misses,       \* heartbeats lost in a row, at most
          Skews,        \* the agent's clock minus the server's
          OfflineAfter,
          Never,        \* no time: NULL, a ticker not made yet
          MaxLives,     \* bound: starts of the agent
          MaxTime       \* bound of now

(* The longest time between two heartbeats that get through, and from the  *)
(* start of an agent to the first one: Misses are lost, and the first      *)
(* request may take its whole Timeout before the ticker is made.           *)
Gap     == Timeout + (Misses + 1) * Period[Heartbeat] + Collect[Heartbeat]
FirstBy == Collect[Heartbeat] + Timeout + Misses * Period[Heartbeat] + Collect[Heartbeat]

ASSUME PresenceAssumption ==
  /\ Heartbeat \in Loops
  /\ Period \in [Loops -> Nat \ {0}]
  /\ Collect \in [Loops -> Nat] /\ Timeout \in Nat \ {0} /\ Delay \in Nat /\ Misses \in Nat
  /\ Skews \subseteq Int
  /\ OfflineAfter \in Nat
  /\ Never \notin Int
  /\ MaxLives \in Nat /\ MaxTime \in Nat

(* What makes the defaults work (30 s, 10 s and 2 min): a heartbeat is     *)
(* over before the next tick and handled before the next stamp, and the    *)
(* oldest last_seen_at, set by a report as late as can be, is young enough *)
(* by the slowest clock.                                                   *)
ASSUME MarginAssumption ==
  /\ Collect[Heartbeat] + Timeout =< Period[Heartbeat]
  /\ Delay < Period[Heartbeat] - Collect[Heartbeat]
  /\ \A s \in Skews : Gap + 2 * Delay - s =< OfflineAfter

VARIABLES now,
          skew,
          alive,        \* the agent process is running
          since,        \* when it started, or stopped, last
          life,         \* how often it has started
          pc,           \* where each loop stands
          began,        \* when it began to collect, or to wait
          nextTick,     \* when its ticker fires next
          due,          \* a tick is in the ticker's channel
          flight,       \* reports on the wire or being handled
          lastSeen,     \* machines.last_seen_at
          missed,       \* history: heartbeats lost in a row
          through,      \* history: stamp of the last one not lost, in this life
          announced     \* history: "online" events of those heartbeats of this
                        \* life whose read of the machine worked

agent   == <<alive, since, life>>
loops   == <<pc, began, nextTick, due>>
history == <<missed, through, announced>>
vars    == <<now, skew, agent, loops, flight, lastSeen, history>>

(* How far the server is with a report; the last three are RecordHeartbeat's. *)
Stages == {"sent", "present", "absent", "announcing"}

(* The stamp is by the server's clock here: the agent writes at + skew.    *)
(* misread is history: RecordHeartbeat could not read the machine.         *)
Report == [loop : Loops, life : Nat, at : Int, stage : Stages, misread : BOOLEAN]

Init ==
  /\ now = 0
  /\ skew \in Skews
  /\ alive = FALSE /\ since = 0 /\ life = 0
  /\ pc = [l \in Loops |-> "off"]
  /\ began = [l \in Loops |-> 0]
  /\ nextTick = [l \in Loops |-> Never]
  /\ due = [l \in Loops |-> FALSE]
  /\ flight = {}
  /\ lastSeen = Never
  /\ missed = 0 /\ through = Never /\ announced = 0

-----------------------------------------------------------------------------
(* The agent *)

Start ==
  /\ ~alive /\ life < MaxLives
  /\ alive' = TRUE /\ since' = now /\ life' = life + 1
  /\ pc' = [l \in Loops |-> "collecting"]
  /\ began' = [l \in Loops |-> now]
  /\ nextTick' = [l \in Loops |-> Never]
  /\ due' = [l \in Loops |-> FALSE]
  /\ missed' = 0 /\ through' = Never /\ announced' = 0
  /\ UNCHANGED <<now, skew, flight, lastSeen>>

(* Variant: one loop is not waited for and survives.                       *)
Stop_Survivor ==
  /\ alive
  /\ alive' = FALSE /\ since' = now
  /\ pc' = [l \in Loops |-> IF l = Heartbeat THEN pc[l] ELSE "off"]
  /\ UNCHANGED <<now, skew, life, began, nextTick, due, flight, lastSeen, history>>

(* It stops, or crashes; what it has sent may still be handled.            *)
Stop ==
  /\ alive
  /\ alive' = FALSE /\ since' = now
  /\ pc' = [l \in Loops |-> "off"]
  /\ UNCHANGED <<now, skew, life, began, nextTick, due, flight, lastSeen, history>>

(* A loop takes its tick.                                                  *)
Begin(l) ==
  /\ pc[l] = "idle" /\ due[l]
  /\ pc' = [pc EXCEPT ![l] = "collecting"]
  /\ began' = [began EXCEPT ![l] = now]
  /\ due' = [due EXCEPT ![l] = FALSE]
  /\ UNCHANGED <<now, skew, agent, nextTick, flight, lastSeen, history>>

(* The report is stamped and posted.                                       *)
Post(l) ==
  /\ pc[l] = "collecting"
  /\ pc' = [pc EXCEPT ![l] = "waiting"]
  /\ began' = [began EXCEPT ![l] = now]
  /\ UNCHANGED <<now, skew, agent, nextTick, due, lastSeen, announced>>

Send(l) ==
  /\ Post(l)
  /\ flight' = flight \cup {[loop |-> l, life |-> life, at |-> now, stage |-> "sent",
                             misread |-> FALSE]}
  /\ IF l = Heartbeat THEN missed' = 0 /\ through' = now
                      ELSE UNCHANGED <<missed, through>>

(* No report reaches the table: the network, the server or the UPDATE      *)
(* fails.  The loop does not send it again.                                *)
Lose(l) ==
  /\ Post(l)
  /\ IF l = Heartbeat THEN missed < Misses /\ missed' = missed + 1
                      ELSE UNCHANGED missed
  /\ UNCHANGED <<flight, through>>

(* Variant: a timer that runs from the end of the last request.            *)
Return_Drift(l) ==
  /\ pc[l] = "waiting"
  /\ pc' = [pc EXCEPT ![l] = "idle"]
  /\ nextTick' = [nextTick EXCEPT ![l] = now + Period[l]]
  /\ UNCHANGED <<now, skew, agent, began, due, flight, lastSeen, history>>

(* The answer, an error, or the Timeout.  The ticker is made after the     *)
(* first call.                                                             *)
Return(l) ==
  /\ pc[l] = "waiting"
  /\ pc' = [pc EXCEPT ![l] = "idle"]
  /\ nextTick' = [nextTick EXCEPT ![l] = IF @ = Never THEN now + Period[l] ELSE @]
  /\ UNCHANGED <<now, skew, agent, began, due, flight, lastSeen, history>>

-----------------------------------------------------------------------------
(* The server *)

Online == lastSeen # Never /\ now - lastSeen =< OfflineAfter

Advance(r, stage) == (flight \ {r}) \cup {[r EXCEPT !.stage = stage]}

Judge(r, ok, online) ==
  (flight \ {r}) \cup {[r EXCEPT !.stage = IF ok /\ online THEN "present" ELSE "absent",
                                !.misread = ~ok]}

(* Variant: offline is what has missed one heartbeat.                      *)
ReadMachine_HeartbeatEvery(r) ==
  /\ r.loop = Heartbeat /\ r.stage = "sent"
  /\ \E ok \in BOOLEAN :
       flight' = Judge(r, ok, lastSeen # Never /\ now - lastSeen =< Period[Heartbeat])
  /\ UNCHANGED <<now, skew, agent, loops, lastSeen, history>>

(* wasOffline.  The error of GetMachine is dropped: a failed read leaves   *)
(* the zero Machine, which was offline.                                    *)
ReadMachine(r) ==
  /\ r.loop = Heartbeat /\ r.stage = "sent"
  /\ \E ok \in BOOLEAN : flight' = Judge(r, ok, Online)
  /\ UNCHANGED <<now, skew, agent, loops, lastSeen, history>>

(* Variant: the time of the server.                                        *)
RecordHeartbeat_ServerTime(r) ==
  /\ r.stage \in {"present", "absent"}
  /\ lastSeen' = now
  /\ flight' = IF r.stage = "absent" THEN Advance(r, "announcing") ELSE flight \ {r}
  /\ UNCHANGED <<now, skew, agent, loops, history>>

(* Variant: only a machine that was online is updated.                     *)
RecordHeartbeat_EventOnly(r) ==
  /\ r.stage \in {"present", "absent"}
  /\ lastSeen' = IF r.stage = "present" THEN r.at + skew ELSE lastSeen
  /\ flight' = IF r.stage = "absent" THEN Advance(r, "announcing") ELSE flight \ {r}
  /\ UNCHANGED <<now, skew, agent, loops, history>>

(* The UPDATE of RecordHeartbeat.                                          *)
RecordHeartbeat(r) ==
  /\ r.stage \in {"present", "absent"}
  /\ lastSeen' = r.at + skew
  /\ flight' = IF r.stage = "absent" THEN Advance(r, "announcing") ELSE flight \ {r}
  /\ UNCHANGED <<now, skew, agent, loops, history>>

(* The event, a statement of its own; it may fail, and nobody notices.     *)
AddEvent(r) ==
  /\ r.stage = "announcing"
  /\ flight' = flight \ {r}
  /\ \/ announced' = announced
     \/ r.life = life /\ ~r.misread /\ announced' = announced + 1
  /\ UNCHANGED <<now, skew, agent, loops, lastSeen, missed, through>>

(* The UPDATE of every other report, in the transaction that stores it or  *)
(* after it.                                                               *)
RecordReport(r) ==
  /\ r.loop # Heartbeat
  /\ lastSeen' = r.at + skew
  /\ flight' = flight \ {r}
  /\ UNCHANGED <<now, skew, agent, loops, history>>

-----------------------------------------------------------------------------
(* A collection ends, a request is given up, a tick is taken at once.      *)
MayWait(l) ==
  /\ pc[l] = "collecting" => now < began[l] + Collect[l]
  /\ pc[l] = "waiting" => now < began[l] + Timeout
  /\ pc[l] = "idle" => ~due[l]

(* A ticker drops a tick that finds its channel full.                      *)
Tick ==
  /\ now < MaxTime
  /\ \A l \in Loops : MayWait(l)
  /\ \A r \in flight : now < r.at + Delay
  /\ now' = now + 1
  /\ due' = [l \in Loops |-> due[l] \/ nextTick[l] = now + 1]
  /\ nextTick' = [l \in Loops |->
                    IF nextTick[l] = now + 1 THEN nextTick[l] + Period[l] ELSE nextTick[l]]
  /\ UNCHANGED <<skew, agent, pc, began, flight, lastSeen, history>>

LoopStep(l) == Begin(l) \/ Send(l) \/ Lose(l) \/ Return(l)

Handle(r) == ReadMachine(r) \/ RecordHeartbeat(r) \/ AddEvent(r) \/ RecordReport(r)

Next ==
  \/ Start
  \/ Stop
  \/ \E l \in Loops : LoopStep(l)
  \/ \E r \in flight : Handle(r)
  \/ Tick

Spec == Init /\ [][Next]_vars

-----------------------------------------------------------------------------
(* Properties *)

(* Types; the loops run while the agent does and none survives it; the     *)
(* losses assumed are not exceeded.                                        *)
TypeOK ==
  /\ now \in Nat /\ skew \in Skews
  /\ alive \in BOOLEAN /\ since \in 0 .. now /\ life \in Nat
  /\ pc \in [Loops -> {"off", "collecting", "waiting", "idle"}]
  /\ \A l \in Loops : pc[l] = "off" <=> ~alive
  /\ began \in [Loops -> Int]
  /\ nextTick \in [Loops -> Int \cup {Never}]
  /\ due \in [Loops -> BOOLEAN]
  /\ flight \subseteq Report
  /\ lastSeen \in Int \cup {Never}
  /\ missed \in 0 .. Misses
  /\ through \in Int \cup {Never}
  /\ announced \in Nat

(* A machine whose agent has been running for long enough is shown online, *)
(* although reports overtake each other and last_seen_at goes back         *)
(* (the Online of ListMachines, last_seen_at of all five Record methods).  *)
AliveIsOnline == alive /\ now > since + FirstBy + Delay => Online

(* A machine whose agent has stopped is offline once OfflineAfter has gone *)
(* by on the agent's clock, whatever is handled late.                      *)
DeadIsOffline == ~alive /\ now > since + skew + OfflineAfter => ~Online

(* A start of the agent is announced once by heartbeats that can read the  *)
(* machine: of those a later one finds it online, although the reports of  *)
(* the other loops take last_seen_at back and heartbeats are lost in       *)
(* between (wasOffline of RecordHeartbeat).  A heartbeat whose read fails  *)
(* announces once more whatever the machine was.  That a heartbeat is      *)
(* handled before the next one is stamped is MarginAssumption: two that    *)
(* overlapped could both find the machine offline.                         *)
ReturnAnnouncedOnce == announced =< 1

(* The event "Maquina voltou a ficar online" is not written for a machine  *)
(* whose agent has been running for long, late reports or not, by a        *)
(* heartbeat that could read the machine; by one that could not it is.     *)
EventMeansReturn ==
  [][announced' > announced => ~alive \/ now =< since + FirstBy + Delay]_vars
============================================================================
