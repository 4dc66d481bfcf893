--------------------------- MODULE PresenceProofs ---------------------------
(***************************************************************************)
(* A machine is shown online exactly when it should be, for every setting  *)
(* of the periods, delays and clocks that leaves enough margin.            *)
(*                                                                         *)
(* The argument is a chain of heartbeats: the next one is stamped between  *)
(* NextFrom and NextBy, so that the last one is handled before it, and a   *)
(* report handled after a heartbeat is at most Delay older than it.        *)
(***************************************************************************)
EXTENDS Presence, TLAPS

(* The time m heartbeats take.                                             *)
Beats(m) == m * Period[Heartbeat]

Ticking == nextTick[Heartbeat] # Never

(* The tick that is or will be in the channel.                             *)
DueAt == IF due[Heartbeat] THEN nextTick[Heartbeat] - Period[Heartbeat] ELSE nextTick[Heartbeat]

(* When the next heartbeat is stamped, at the latest and at the earliest.  *)
NextBy ==
  IF pc[Heartbeat] = "collecting" THEN began[Heartbeat] + Collect[Heartbeat]
  ELSE IF Ticking THEN DueAt + Collect[Heartbeat]
  ELSE began[Heartbeat] + Timeout + Period[Heartbeat] + Collect[Heartbeat]

NextFrom ==
  IF pc[Heartbeat] = "collecting" THEN began[Heartbeat]
  ELSE IF Ticking THEN DueAt
  ELSE began[Heartbeat] + Period[Heartbeat]

(* Where the heartbeat's loop stands, and what its ticker shows then.      *)
LoopTiming == alive =>
  /\ pc[Heartbeat] = "collecting" =>
       began[Heartbeat] =< now /\ now =< began[Heartbeat] + Collect[Heartbeat] /\ ~due[Heartbeat]
  /\ pc[Heartbeat] = "waiting" =>
       began[Heartbeat] =< now /\ now =< began[Heartbeat] + Timeout
  /\ ~Ticking => /\ pc[Heartbeat] \in {"collecting", "waiting"} /\ ~due[Heartbeat]
                 /\ pc[Heartbeat] = "collecting" =>
                      began[Heartbeat] = since /\ through = Never /\ missed = 0
  /\ Ticking => /\ now < nextTick[Heartbeat]
                /\ due[Heartbeat] => now = DueAt
                /\ pc[Heartbeat] = "waiting" => began[Heartbeat] + Timeout =< DueAt
                /\ pc[Heartbeat] = "collecting" =>
                     began[Heartbeat] = nextTick[Heartbeat] - Period[Heartbeat]

(* The chain: lost heartbeats push the next one away by a period each.     *)
Chain == alive =>
  /\ through = Never =>
       IF missed = 0 THEN NextBy =< since + Collect[Heartbeat]
       ELSE NextBy =< since + Collect[Heartbeat] + Timeout + Beats(missed) + Collect[Heartbeat]
  /\ through # Never =>
       /\ NextBy =< through + Timeout + Beats(missed) + Period[Heartbeat] + Collect[Heartbeat]
       /\ through + Period[Heartbeat] - Collect[Heartbeat] =< NextFrom

(* A heartbeat of the present life.                                        *)
Current(r) == r.loop = Heartbeat /\ r.life = life

Pending(r) == Current(r) /\ r.stage # "announcing"

(* A heartbeat of this life that has read the machine, and as offline.     *)
Judged(r) == Current(r) /\ r.stage \in {"absent", "announcing"} /\ ~r.misread

(* No report is older than Delay; of this life's heartbeats only the last  *)
(* one is under way.                                                       *)
Flights ==
  /\ through # Never => through =< now
  /\ \A r \in flight : /\ r.at =< now /\ now =< r.at + Delay /\ r.life =< life
                       /\ r.at =< IF alive THEN now ELSE since
                       /\ r.loop # Heartbeat => r.stage = "sent"
                       /\ Current(r) => r.at = through
  /\ \A r1, r2 \in flight : Current(r1) /\ Current(r2) => r1 = r2

(* At most how old last_seen_at is.                                        *)
SeenSince(t) == lastSeen # Never /\ t + skew - Delay =< lastSeen

FirstHeartbeat ==
  /\ announced = 0
  /\ alive => through =< since + FirstBy

(* What the heartbeats have made of the table.                             *)
Seen ==
  /\ through = Never => announced = 0
  /\ through # Never => SeenSince(through) \/ \E r \in flight : Pending(r)
  /\ \A r \in flight : Pending(r) => SeenSince(through - Gap) \/ FirstHeartbeat
  /\ \A r \in flight : Judged(r) => FirstHeartbeat
  /\ announced =< 1

(* last_seen_at is not ahead of the agent's clock.                         *)
NotAhead == lastSeen # Never => lastSeen =< skew + (IF alive THEN now ELSE since)

IInv == TypeOK /\ LoopTiming /\ Chain /\ Flights /\ Seen /\ NotAhead

-----------------------------------------------------------------------------
(* The settings as numbers, without the product.                           *)
LEMMA Beat ==
  /\ Beats(0) = 0
  /\ \A m \in Nat : Beats(m) \in Nat /\ Beats(m + 1) = Beats(m) + Period[Heartbeat]
  /\ \A m \in Nat, n \in Nat : m =< n => Beats(m) =< Beats(n)
<1> DEFINE P == Period[Heartbeat]
<1>1. P \in Nat
  BY PresenceAssumption
<1> HIDE DEF P
<1>2. \A m \in Nat : m * P \in Nat /\ (m + 1) * P = m * P + P
  BY <1>1, SMT
<1>3. \A m \in Nat, n \in Nat : m =< n => m * P =< n * P
  BY <1>1, SMT
<1>4. 0 * P = 0
  BY <1>1, SMT
<1>5. QED
  BY <1>2, <1>3, <1>4 DEF Beats, P

LEMMA Settings ==
  /\ Period[Heartbeat] \in Nat \ {0} /\ Heartbeat \in Loops
  /\ Collect[Heartbeat] \in Nat /\ Timeout \in Nat \ {0} /\ Delay \in Nat /\ Misses \in Nat
  /\ OfflineAfter \in Nat /\ Skews \subseteq Int /\ Never \notin Int
  /\ Beats(Misses) \in Nat /\ Gap \in Nat /\ FirstBy \in Nat
  /\ Gap = Timeout + Beats(Misses) + Period[Heartbeat] + Collect[Heartbeat]
  /\ FirstBy = Collect[Heartbeat] + Timeout + Beats(Misses) + Collect[Heartbeat]
  /\ Collect[Heartbeat] + Timeout =< Period[Heartbeat]
  /\ Delay < Period[Heartbeat] - Collect[Heartbeat]
  /\ \A s \in Skews : Gap + 2 * Delay - s =< OfflineAfter
<1>1. /\ Beats(Misses) \in Nat
      /\ Gap = Timeout + Beats(Misses) + Period[Heartbeat] + Collect[Heartbeat]
      /\ FirstBy = Collect[Heartbeat] + Timeout + Beats(Misses) + Collect[Heartbeat]
  <2>1. Beats(Misses) \in Nat /\ Beats(Misses + 1) = Beats(Misses) + Period[Heartbeat]
    BY Beat, PresenceAssumption
  <2>2. Gap = Timeout + Beats(Misses + 1) + Collect[Heartbeat] /\ FirstBy = Collect[Heartbeat] + Timeout + Beats(Misses) + Collect[Heartbeat]
    BY DEF Gap, FirstBy, Beats
  <2>3. QED
    BY <2>1, <2>2, PresenceAssumption
<1>2. QED
  BY <1>1, PresenceAssumption, MarginAssumption

-----------------------------------------------------------------------------
(* Every step keeps the types.                                             *)
LEMMA TypesKept == TypeOK /\ [Next]_vars => TypeOK'
<1> SUFFICES ASSUME TypeOK, [Next]_vars PROVE TypeOK'
  OBVIOUS
<1> USE PresenceAssumption DEF TypeOK
<1>1. CASE Start
  BY <1>1 DEF Start
<1>2. CASE Stop
  <2>1. alive' = FALSE /\ \A l \in Loops : pc'[l] = "off"
    BY <1>2 DEF Stop
  <2>2. \A l \in Loops : pc'[l] = "off" <=> ~alive'
    BY <2>1, Zenon
  <2>3. now' \in Nat /\ since' \in 0 .. now'
    BY <1>2 DEF Stop
  <2>4. pc' \in [Loops -> {"off", "collecting", "waiting", "idle"}]
    BY <1>2 DEF Stop
  <2>5. UNCHANGED <<skew, life, began, nextTick, due, flight, lastSeen, missed, through, announced>>
    BY <1>2 DEF Stop, history
  <2>6. QED
    BY <2>1, <2>2, <2>3, <2>4, <2>5
<1>3. ASSUME NEW l \in Loops, Begin(l) PROVE TypeOK'
  BY <1>3 DEF Begin, agent, history
<1>4. ASSUME NEW l \in Loops, Send(l) PROVE TypeOK'
  <2>1. [loop |-> l, life |-> life, at |-> now, stage |-> "sent", misread |-> FALSE] \in Report
    BY DEF Report, Stages
  <2>2. flight' \subseteq Report
    BY <1>4, <2>1 DEF Send
  <2>3. /\ pc[l] = "collecting" /\ pc' = [pc EXCEPT ![l] = "waiting"]
        /\ began' = [began EXCEPT ![l] = now]
        /\ UNCHANGED <<now, skew, alive, since, life, nextTick, due, lastSeen, announced>>
    BY <1>4 DEF Send, Post, agent
  <2>4. missed' \in 0 .. Misses /\ through' \in Int \cup {Never}
    BY <1>4 DEF Send
  <2>5. QED
    BY <2>2, <2>3, <2>4
<1>5. ASSUME NEW l \in Loops, Lose(l) PROVE TypeOK'
  BY <1>5 DEF Lose, Post, agent
<1>6. ASSUME NEW l \in Loops, Return(l) PROVE TypeOK'
  BY <1>6 DEF Return, agent, history
<1>7. ASSUME NEW r \in flight, ReadMachine(r) PROVE TypeOK'
  BY <1>7 DEF ReadMachine, Judge, Report, Stages, agent, loops, history
<1>8. ASSUME NEW r \in flight, RecordHeartbeat(r) PROVE TypeOK'
  <2>1. r.at + skew \in Int
    BY DEF Report
  <2>2. flight' \subseteq Report
    BY <1>8 DEF RecordHeartbeat, Advance, Report, Stages
  <2>3. QED
    BY <1>8, <2>1, <2>2 DEF RecordHeartbeat, agent, loops, history
<1>9. ASSUME NEW r \in flight, AddEvent(r) PROVE TypeOK'
  BY <1>9 DEF AddEvent, agent, loops
<1>10. ASSUME NEW r \in flight, RecordReport(r) PROVE TypeOK'
  BY <1>10 DEF RecordReport, Report, agent, loops, history
<1>11. CASE Tick
  BY <1>11 DEF Tick, agent, history
<1>12. CASE UNCHANGED vars
  BY <1>12 DEF vars, agent, loops, history
<1>13. QED
  BY <1>1, <1>2, <1>3, <1>4, <1>5, <1>6, <1>7, <1>8, <1>9, <1>10, <1>11, <1>12
     DEF Next, LoopStep, Handle

-----------------------------------------------------------------------------
(* The heartbeat's loop as it is typed.                                    *)
LEMMA HeartbeatTypes ==
  ASSUME TypeOK
  PROVE  /\ now \in Nat /\ since \in Nat /\ since =< now /\ skew \in Int
         /\ pc[Heartbeat] \in {"off", "collecting", "waiting", "idle"}
         /\ pc[Heartbeat] = "off" => ~alive
         /\ began[Heartbeat] \in Int /\ nextTick[Heartbeat] \in Int \cup {Never}
         /\ Ticking => nextTick[Heartbeat] \in Int
         /\ due[Heartbeat] \in BOOLEAN
         /\ missed \in Nat /\ missed =< Misses
         /\ Beats(missed) \in Nat /\ Beats(missed) =< Beats(Misses)
         /\ through \in Int \cup {Never}
<1>1. missed \in Nat /\ missed =< Misses
  BY Settings DEF TypeOK
<1>2. Beats(missed) \in Nat /\ Beats(missed) =< Beats(Misses)
  BY <1>1, Settings, Beat
<1>3. now \in Nat /\ since \in Nat /\ since =< now /\ skew \in Int
  BY Settings DEF TypeOK
<1>4. /\ pc[Heartbeat] \in {"off", "collecting", "waiting", "idle"}
      /\ began[Heartbeat] \in Int /\ nextTick[Heartbeat] \in Int \cup {Never}
      /\ due[Heartbeat] \in BOOLEAN
      /\ through \in Int \cup {Never}
  BY Settings DEF TypeOK
<1>5. pc[Heartbeat] = "off" => ~alive
  BY Settings, Zenon DEF TypeOK
<1>6. QED
  BY <1>1, <1>2, <1>3, <1>4, <1>5 DEF Ticking

(* Steps of others leave the chain as it is.                               *)
LEMMA LoopUntouched ==
  ASSUME LoopTiming, Chain, UNCHANGED <<now, alive, since, missed, through>>,
         pc'[Heartbeat] = pc[Heartbeat], began'[Heartbeat] = began[Heartbeat],
         nextTick'[Heartbeat] = nextTick[Heartbeat], due'[Heartbeat] = due[Heartbeat]
  PROVE  LoopTiming' /\ Chain'
BY DEF LoopTiming, Chain, NextBy, NextFrom, DueAt, Ticking

LEMMA StartLoops ==
  ASSUME TypeOK, Start
  PROVE  LoopTiming' /\ Chain'
<1>1. /\ now' = now /\ since' = now /\ alive' /\ through' = Never /\ missed' = 0
      /\ pc'[Heartbeat] = "collecting" /\ began'[Heartbeat] = now
      /\ nextTick'[Heartbeat] = Never /\ due'[Heartbeat] = FALSE
  BY Settings DEF Start
<1>2. QED
  BY <1>1, Settings, HeartbeatTypes DEF LoopTiming, Chain, NextBy, NextFrom, DueAt, Ticking

LEMMA BeginLoops ==
  ASSUME TypeOK, LoopTiming, Chain, Begin(Heartbeat)
  PROVE  LoopTiming' /\ Chain'
<1>1. /\ pc[Heartbeat] = "idle" /\ due[Heartbeat]
      /\ pc'[Heartbeat] = "collecting" /\ began'[Heartbeat] = now /\ ~due'[Heartbeat]
      /\ UNCHANGED <<now, alive, since, missed, through, nextTick>>
  BY Settings DEF Begin, agent, history, TypeOK
<1>2. QED
  BY <1>1, Settings, HeartbeatTypes DEF LoopTiming, Chain, NextBy, NextFrom, DueAt, Ticking

LEMMA ReturnLoops ==
  ASSUME TypeOK, LoopTiming, Chain, Return(Heartbeat)
  PROVE  LoopTiming' /\ Chain'
<1>1. /\ pc[Heartbeat] = "waiting" /\ pc'[Heartbeat] = "idle"
      /\ nextTick'[Heartbeat] = IF nextTick[Heartbeat] = Never THEN now + Period[Heartbeat]
                                ELSE nextTick[Heartbeat]
      /\ UNCHANGED <<now, alive, since, missed, through, began, due>>
  BY Settings DEF Return, agent, history, TypeOK
<1>2. CASE Ticking
  BY <1>1, <1>2, Settings, HeartbeatTypes DEF LoopTiming, Chain, NextBy, NextFrom, DueAt, Ticking
<1>3. CASE ~Ticking
  <2>1. /\ nextTick'[Heartbeat] = now + Period[Heartbeat] /\ now + Period[Heartbeat] # Never
        /\ ~due'[Heartbeat] \/ ~alive
    BY <1>1, <1>3, Settings, HeartbeatTypes DEF LoopTiming, Ticking
  <2>2. LoopTiming'
    BY <1>1, <2>1, Settings, HeartbeatTypes DEF LoopTiming, DueAt, Ticking
  <2>3. alive => /\ NextBy' = now + Period[Heartbeat] + Collect[Heartbeat]
                 /\ NextFrom' = now + Period[Heartbeat]
                 /\ NextBy = began[Heartbeat] + Timeout + Period[Heartbeat] + Collect[Heartbeat]
                 /\ NextFrom = began[Heartbeat] + Period[Heartbeat]
                 /\ began[Heartbeat] =< now /\ now =< began[Heartbeat] + Timeout
    BY <1>1, <1>3, <2>1, Settings, HeartbeatTypes DEF LoopTiming, NextBy, NextFrom, DueAt, Ticking
  <2>4. Chain'
    BY <1>1, <2>3, Settings, HeartbeatTypes DEF Chain
  <2>5. QED
    BY <2>2, <2>4
<1>4. QED
  BY <1>2, <1>3

(* Before it is posted a heartbeat lies between the ends of the chain.     *)
LEMMA PostInTime ==
  ASSUME TypeOK, LoopTiming, Chain, alive, pc[Heartbeat] = "collecting"
  PROVE  /\ now =< NextBy /\ NextFrom =< now
         /\ ~Ticking => through = Never /\ missed = 0 /\ NextBy = since + Collect[Heartbeat]
         /\ Ticking => NextBy = nextTick[Heartbeat] - Period[Heartbeat] + Collect[Heartbeat]
BY Settings, HeartbeatTypes DEF LoopTiming, Chain, NextBy, NextFrom, Ticking

LEMMA PostLoops ==
  ASSUME TypeOK, LoopTiming, alive, Post(Heartbeat)
  PROVE  /\ LoopTiming'
         /\ pc[Heartbeat] = "collecting" /\ UNCHANGED <<now, alive, since>>
         /\ Ticking => /\ NextBy' = nextTick[Heartbeat] + Collect[Heartbeat]
                       /\ NextFrom' = nextTick[Heartbeat]
                       /\ nextTick[Heartbeat] =< now + Period[Heartbeat]
                       /\ now + Period[Heartbeat] - Collect[Heartbeat] =< nextTick[Heartbeat]
         /\ ~Ticking => /\ NextBy' = now + Timeout + Period[Heartbeat] + Collect[Heartbeat]
                        /\ NextFrom' = now + Period[Heartbeat]
<1>1. /\ pc[Heartbeat] = "collecting"
      /\ pc'[Heartbeat] = "waiting" /\ began'[Heartbeat] = now
      /\ UNCHANGED <<now, alive, since, nextTick, due>>
  BY Settings DEF Post, agent, TypeOK
<1>2. QED
  BY <1>1, Settings, HeartbeatTypes DEF LoopTiming, NextBy, NextFrom, DueAt, Ticking

LEMMA SendLoops ==
  ASSUME TypeOK, LoopTiming, Chain, alive, Send(Heartbeat)
  PROVE  LoopTiming' /\ Chain'
<1>1. Post(Heartbeat) /\ missed' = 0 /\ through' = now
  BY DEF Send
<1>2. now # Never /\ Beats(0) = 0
  BY Settings, HeartbeatTypes, Beat
<1>3. QED
  BY <1>1, <1>2, PostLoops, Settings, HeartbeatTypes DEF Chain

LEMMA LoseLoops ==
  ASSUME TypeOK, LoopTiming, Chain, alive, Lose(Heartbeat)
  PROVE  LoopTiming' /\ Chain'
<1>1. Post(Heartbeat) /\ missed' = missed + 1 /\ through' = through
  BY DEF Lose
<1>2. Beats(missed + 1) = Beats(missed) + Period[Heartbeat] /\ Beats(0) = 0 /\ missed + 1 # 0
  BY HeartbeatTypes, Beat
<1>3. pc[Heartbeat] = "collecting"
  BY <1>1 DEF Post
<1>4. Beats(missed') = Beats(missed) + Period[Heartbeat] /\ missed' # 0
  BY <1>1, <1>2
<1>5. UNCHANGED <<now, alive, since>>
  BY <1>1, PostLoops
<1>6. through = Never => NextBy' =< since + Collect[Heartbeat] + Timeout + Beats(missed') + Collect[Heartbeat]
  <2>1. CASE Ticking
    <3>1. through = Never => missed # 0 \/ NextBy =< since + Collect[Heartbeat]
      BY DEF Chain
    <3>2. NextBy' = NextBy + Period[Heartbeat]
      BY <1>1, <1>3, <2>1, PostLoops, PostInTime, Settings, HeartbeatTypes
    <3>3. NextBy \in Int
      BY <1>3, <2>1, PostInTime, Settings, HeartbeatTypes
    <3>4. QED
      BY <1>4, <3>1, <3>2, <3>3, Settings, HeartbeatTypes DEF Chain
  <2>2. CASE ~Ticking
    BY <1>1, <1>2, <1>3, <1>4, <2>2, PostLoops, PostInTime, Settings, HeartbeatTypes
  <2>3. QED
    BY <2>1, <2>2
<1>7. through # Never =>
        /\ NextBy' =< through + Timeout + Beats(missed') + Period[Heartbeat] + Collect[Heartbeat]
        /\ through + Period[Heartbeat] - Collect[Heartbeat] =< NextFrom'
  <2> SUFFICES ASSUME through # Never
               PROVE  /\ NextBy' =< through + Timeout + Beats(missed') + Period[Heartbeat] + Collect[Heartbeat]
                      /\ through + Period[Heartbeat] - Collect[Heartbeat] =< NextFrom'
    OBVIOUS
  <2>1. Ticking
    BY <1>3, PostInTime
  <2>2. /\ NextBy = nextTick[Heartbeat] - Period[Heartbeat] + Collect[Heartbeat]
        /\ NextFrom =< now /\ now =< NextBy
    BY <1>3, <2>1, PostInTime
  <2>3. NextFrom = began[Heartbeat]
    BY <1>3 DEF NextFrom
  <2>4. began[Heartbeat] = nextTick[Heartbeat] - Period[Heartbeat]
    BY <1>3, <2>1 DEF LoopTiming
  <2>5. /\ NextBy =< through + Timeout + Beats(missed) + Period[Heartbeat] + Collect[Heartbeat]
        /\ through + Period[Heartbeat] - Collect[Heartbeat] =< NextFrom
    BY DEF Chain
  <2>6. NextBy' = nextTick[Heartbeat] + Collect[Heartbeat] /\ NextFrom' = nextTick[Heartbeat]
    BY <1>1, <2>1, PostLoops
  <2>7. QED
    BY <1>4, <2>1, <2>2, <2>3, <2>4, <2>5, <2>6, Settings, HeartbeatTypes
<1>8. Chain'
  BY <1>1, <1>4, <1>5, <1>6, <1>7 DEF Chain
<1>9. QED
  BY <1>1, <1>8, PostLoops

LEMMA TickLoops ==
  ASSUME TypeOK, LoopTiming, Chain, Tick
  PROVE  LoopTiming' /\ Chain'
<1>1. /\ now' = now + 1 /\ MayWait(Heartbeat)
      /\ UNCHANGED <<alive, since, pc, began, missed, through>>
      /\ due'[Heartbeat] = (due[Heartbeat] \/ nextTick[Heartbeat] = now + 1)
      /\ nextTick'[Heartbeat] = IF nextTick[Heartbeat] = now + 1
                                THEN nextTick[Heartbeat] + Period[Heartbeat]
                                ELSE nextTick[Heartbeat]
  BY Settings DEF Tick, agent, history
<1> SUFFICES ASSUME alive PROVE LoopTiming' /\ Chain'
  BY <1>1 DEF LoopTiming, Chain
<1>2. ~due[Heartbeat]
  BY <1>1, Settings, HeartbeatTypes DEF LoopTiming, MayWait
<1>3. Ticking' <=> Ticking
  BY <1>1, Settings, HeartbeatTypes DEF Ticking
<1>4. Ticking => DueAt' = nextTick[Heartbeat] /\ DueAt = nextTick[Heartbeat]
  <2>1. DueAt = nextTick[Heartbeat]
    BY <1>2 DEF DueAt
  <2>2. CASE Ticking /\ nextTick[Heartbeat] = now + 1
    <3>1. due'[Heartbeat] /\ nextTick'[Heartbeat] = nextTick[Heartbeat] + Period[Heartbeat]
      BY <1>1, <2>2
    <3>2. QED
      BY <2>1, <2>2, <3>1, Settings, HeartbeatTypes DEF DueAt
  <2>3. CASE nextTick[Heartbeat] # now + 1
    <3>1. ~due'[Heartbeat] /\ nextTick'[Heartbeat] = nextTick[Heartbeat]
      BY <1>1, <1>2, <2>3
    <3>2. QED
      BY <2>1, <3>1 DEF DueAt
  <2>4. QED
    BY <2>2, <2>3
<1>5. NextBy' = NextBy /\ NextFrom' = NextFrom
  BY <1>1, <1>3, <1>4 DEF NextBy, NextFrom
<1>6. Chain'
  BY <1>1, <1>5 DEF Chain
<1>7. pc[Heartbeat] = "collecting" /\ Ticking => nextTick[Heartbeat] # now + 1
  BY <1>1, Settings, HeartbeatTypes DEF LoopTiming, MayWait
<1>8. LoopTiming'
  <2>1. CASE Ticking /\ nextTick[Heartbeat] = now + 1
    <3>1. /\ nextTick'[Heartbeat] = now + 1 + Period[Heartbeat] /\ DueAt' = now + 1
          /\ pc[Heartbeat] # "collecting"
      BY <1>1, <1>4, <1>7, <2>1
    <3>2. QED
      BY <1>1, <1>3, <2>1, <3>1, <1>2, <1>4, Settings, HeartbeatTypes DEF LoopTiming, MayWait
  <2>2. CASE Ticking /\ nextTick[Heartbeat] # now + 1
    BY <1>1, <1>2, <1>3, <1>4, <2>2, Settings, HeartbeatTypes DEF LoopTiming, MayWait
  <2>3. CASE ~Ticking
    <3>1. ~due'[Heartbeat]
      BY <1>1, <1>2, <2>3, Settings, HeartbeatTypes DEF Ticking
    <3>2. QED
      BY <1>1, <1>3, <2>3, <3>1, Settings, HeartbeatTypes DEF LoopTiming, MayWait
  <2>4. QED
    BY <2>1, <2>2, <2>3
<1>9. QED
  BY <1>6, <1>8

(* Every step keeps the timing of the heartbeat's loop and the chain.      *)
LEMMA LoopsKept ==
  ASSUME TypeOK, LoopTiming, Chain, [Next]_vars
  PROVE  LoopTiming' /\ Chain'
<1>1. CASE Start
  BY <1>1, StartLoops
<1>2. CASE Stop
  BY <1>2 DEF Stop, LoopTiming, Chain
<1>3. ASSUME NEW l \in Loops, LoopStep(l) PROVE LoopTiming' /\ Chain'
  <2>1. CASE l = Heartbeat
    <3>1. alive
      BY <1>3, <2>1, Settings DEF LoopStep, Begin, Send, Lose, Post, Return, TypeOK
    <3>2. QED
      BY <1>3, <2>1, <3>1, BeginLoops, SendLoops, LoseLoops, ReturnLoops DEF LoopStep
  <2>2. CASE l # Heartbeat
    <3>1. /\ UNCHANGED <<now, alive, since, missed, through>>
          /\ pc'[Heartbeat] = pc[Heartbeat] /\ began'[Heartbeat] = began[Heartbeat]
          /\ nextTick'[Heartbeat] = nextTick[Heartbeat] /\ due'[Heartbeat] = due[Heartbeat]
      BY <1>3, <2>2, Settings DEF LoopStep, Begin, Send, Lose, Post, Return, agent, history, TypeOK
    <3>2. QED
      BY <3>1, LoopUntouched
  <2>3. QED
    BY <2>1, <2>2
<1>4. ASSUME NEW r \in flight, Handle(r) PROVE LoopTiming' /\ Chain'
  <2>1. UNCHANGED <<now, alive, since, missed, through, pc, began, nextTick, due>>
    BY <1>4 DEF Handle, ReadMachine, RecordHeartbeat, AddEvent, RecordReport, agent, loops, history
  <2>2. QED
    BY <2>1, LoopUntouched
<1>5. CASE Tick
  BY <1>5, TickLoops
<1>6. CASE UNCHANGED vars
  BY <1>6, LoopUntouched DEF vars, agent, loops, history
<1>7. QED
  BY <1>1, <1>2, <1>3, <1>4, <1>5, <1>6 DEF Next

-----------------------------------------------------------------------------
(* When a heartbeat is stamped, none of this life is under way any more.   *)
LEMMA NoneInFlight ==
  ASSUME TypeOK, LoopTiming, Chain, Flights, alive, Post(Heartbeat)
  PROVE  \A r \in flight : ~Current(r)
<1> SUFFICES ASSUME NEW r \in flight, Current(r) PROVE FALSE
  OBVIOUS
<1>1. r.at = through /\ now =< r.at + Delay /\ r.at \in Int
  BY DEF Flights, TypeOK, Report
<1>2. through # Never
  BY <1>1, Settings
<1>3. pc[Heartbeat] = "collecting"
  BY DEF Post
<1>4. NextFrom =< now /\ NextFrom \in Int
  BY <1>3, PostInTime, Settings, HeartbeatTypes DEF NextFrom
<1>5. through + Period[Heartbeat] - Collect[Heartbeat] =< NextFrom
  BY <1>2 DEF Chain
<1>6. QED
  BY <1>1, <1>4, <1>5, Settings, HeartbeatTypes

(* A report that stays, or one that has moved to another stage.            *)
LEMMA HandledFlights ==
  ASSUME TypeOK, Flights, NEW r \in flight, Handle(r)
  PROVE  Flights' /\ UNCHANGED <<now, skew, alive, since, life, through, missed>>
<1>1. UNCHANGED <<now, skew, alive, since, life, through, missed>>
  BY DEF Handle, ReadMachine, RecordHeartbeat, AddEvent, RecordReport, agent, history
<1>2. \/ flight' = flight \ {r}
      \/ /\ r.loop = Heartbeat
         /\ \E st \in Stages, m \in BOOLEAN :
              flight' = (flight \ {r}) \cup {[r EXCEPT !.stage = st, !.misread = m]}
  <2>1. CASE ReadMachine(r)
    BY <2>1 DEF ReadMachine, Judge, Stages
  <2>2. ASSUME NEW st \in Stages, flight' = Advance(r, st)
        PROVE  flight' = (flight \ {r}) \cup {[r EXCEPT !.stage = st, !.misread = r.misread]}
    BY <2>2 DEF Advance, TypeOK, Report
  <2>3. r.misread \in BOOLEAN
    BY DEF TypeOK, Report
  <2>4. CASE RecordHeartbeat(r)
    BY <2>2, <2>3, <2>4 DEF RecordHeartbeat, Stages, Flights
  <2>5. CASE AddEvent(r) \/ RecordReport(r)
    BY <2>5 DEF AddEvent, RecordReport
  <2>6. QED
    BY <2>1, <2>4, <2>5 DEF Handle
<1>3. CASE flight' = flight \ {r}
  BY <1>1, <1>3 DEF Flights, Current
<1>4. ASSUME r.loop = Heartbeat, NEW st \in Stages, NEW m \in BOOLEAN,
             flight' = (flight \ {r}) \cup {[r EXCEPT !.stage = st, !.misread = m]}
      PROVE  Flights'
  <2> DEFINE q == [r EXCEPT !.stage = st, !.misread = m]
  <2>1. q.loop = r.loop /\ q.life = r.life /\ q.at = r.at
    BY DEF TypeOK, Report
  <2>2. \A x \in flight' : x = q \/ (x \in flight /\ x # r)
    BY <1>4
  <2> HIDE DEF q
  <2>3. \A x \in flight' : /\ x.at =< now' /\ now' =< x.at + Delay /\ x.life =< life'
                           /\ x.at =< IF alive' THEN now' ELSE since'
                           /\ x.loop # Heartbeat => x.stage = "sent"
                           /\ Current(x)' => x.at = through'
    BY <1>1, <1>4, <2>1, <2>2 DEF Flights, Current
  <2>4. \A r1, r2 \in flight' : Current(r1)' /\ Current(r2)' => r1 = r2
    BY <1>1, <1>4, <2>1, <2>2 DEF Flights, Current
  <2>5. through' # Never => through' =< now'
    BY <1>1 DEF Flights
  <2>6. QED
    BY <2>3, <2>4, <2>5 DEF Flights
<1>5. QED
  BY <1>1, <1>2, <1>3, <1>4

(* Every step keeps the bounds on what is under way.                       *)
LEMMA FlightsKept ==
  ASSUME TypeOK, LoopTiming, Chain, Flights, [Next]_vars
  PROVE  Flights'
<1>1. CASE Start
  <2>1. /\ now' = now /\ since' = now /\ alive' /\ life' = life + 1
        /\ flight' = flight /\ through' = Never
    BY <1>1 DEF Start
  <2>2. \A r \in flight : ~Current(r)' /\ r.at =< now /\ r.life =< life'
    BY <2>1 DEF Flights, Current, TypeOK, Report
  <2>3. QED
    BY <2>1, <2>2 DEF Flights
<1>2. CASE Stop
  <2>1. /\ alive' = FALSE /\ since' = now
        /\ UNCHANGED <<now, life, flight, through>>
    BY <1>2 DEF Stop, history
  <2>2. QED
    BY <2>1 DEF Flights, Current
<1>3. ASSUME NEW l \in Loops, Begin(l) \/ Lose(l) \/ Return(l) PROVE Flights'
  <2>1. UNCHANGED <<now, alive, since, life, flight, through>>
    BY <1>3 DEF Begin, Lose, Post, Return, agent, history
  <2>2. QED
    BY <2>1 DEF Flights, Current
<1>4. ASSUME NEW l \in Loops, Send(l) PROVE Flights'
  <2> DEFINE q == [loop |-> l, life |-> life, at |-> now, stage |-> "sent",
                  misread |-> FALSE]
  <2>1. /\ UNCHANGED <<now, alive, since, life>> /\ flight' = flight \cup {q}
        /\ through' = IF l = Heartbeat THEN now ELSE through
    BY <1>4 DEF Send, Post, agent
  <2>2. alive
    BY <1>4 DEF Send, Post, TypeOK
  <2>3. q.loop = l /\ q.life = life /\ q.at = now /\ q.stage = "sent"
    OBVIOUS
  <2> HIDE DEF q
  <2>4. l = Heartbeat => \A r \in flight : ~Current(r)
    BY <1>4, <2>2, NoneInFlight DEF Send
  <2>5. now \in Nat /\ life \in Nat /\ Delay \in Nat
    BY Settings DEF TypeOK
  <2>6. \A r \in flight' : /\ r.at =< now' /\ now' =< r.at + Delay /\ r.life =< life'
                           /\ r.at =< IF alive' THEN now' ELSE since'
                           /\ r.loop # Heartbeat => r.stage = "sent"
                           /\ Current(r)' => r.at = through'
    BY <2>1, <2>2, <2>3, <2>4, <2>5 DEF Flights, Current
  <2>7. \A r1, r2 \in flight' : Current(r1)' /\ Current(r2)' => r1 = r2
    BY <2>1, <2>3, <2>4 DEF Flights, Current
  <2>8. through' # Never => through' =< now'
    BY <2>1, <2>5 DEF Flights
  <2>9. QED
    BY <2>6, <2>7, <2>8 DEF Flights
<1>5. ASSUME NEW r \in flight, Handle(r) PROVE Flights'
  BY <1>5, HandledFlights
<1>6. CASE Tick
  <2>1. /\ now' = now + 1 /\ UNCHANGED <<alive, since, life, flight, through>>
        /\ \A r \in flight : now < r.at + Delay
    BY <1>6 DEF Tick, agent, history
  <2>2. \A r \in flight : r.at \in Int /\ now \in Nat /\ Delay \in Nat
    BY Settings DEF TypeOK, Report
  <2>3. through # Never => through =< now'
    BY <2>1, Settings, HeartbeatTypes DEF Flights
  <2>4. \A r \in flight : r.at =< now' /\ now' =< r.at + Delay
    BY <2>1, <2>2 DEF Flights
  <2>5. \A r \in flight : r.at =< IF alive THEN now' ELSE since
    BY <2>1, <2>4 DEF Flights
  <2>6. QED
    BY <2>1, <2>3, <2>4, <2>5 DEF Flights, Current
<1>7. CASE UNCHANGED vars
  BY <1>7 DEF vars, agent, history, Flights, Current
<1>8. QED
  BY <1>1, <1>2, <1>3, <1>4, <1>5, <1>6, <1>7 DEF Next, LoopStep

-----------------------------------------------------------------------------
(* A last_seen_at that is no older than the margins allow is young enough. *)
LEMMA FreshIsOnline ==
  ASSUME TypeOK, NEW t \in Int, SeenSince(t - Gap), now =< t + Delay
  PROVE  Online
<1>1. t - Gap + skew - Delay =< lastSeen /\ lastSeen \in Int
  BY DEF SeenSince, TypeOK
<1>2. Gap + 2 * Delay - skew =< OfflineAfter
  BY Settings DEF TypeOK
<1>3. now - lastSeen =< OfflineAfter
  BY <1>1, <1>2, Settings, HeartbeatTypes
<1>4. QED
  BY <1>1, <1>3, Settings DEF Online

(* Whatever report is handled, last_seen_at is then no older than Delay    *)
(* before the last heartbeat that gets through.                            *)
LEMMA HandledIsSeen ==
  ASSUME TypeOK, TypeOK', Flights, NEW r \in flight, lastSeen' = r.at + skew,
         UNCHANGED <<skew, through>>, through # Never
  PROVE  SeenSince(through)' /\ SeenSince(through - Gap)'
<1>1. /\ r.at \in Int /\ now =< r.at + Delay /\ through =< now
      /\ through \in Int /\ lastSeen' \in Int
  BY Settings, HeartbeatTypes DEF Flights, TypeOK, Report
<1>2. through + skew - Delay =< lastSeen' /\ through - Gap + skew - Delay =< lastSeen'
  BY <1>1, Settings, HeartbeatTypes
<1>3. QED
  BY <1>1, <1>2, Settings DEF SeenSince

(* A read that finds the machine absent is that of the first heartbeat.    *)
LEMMA ReadSeen ==
  ASSUME TypeOK, Flights, Seen, NEW r \in flight, ReadMachine(r)
  PROVE  Seen'
<1>1. /\ UNCHANGED <<lastSeen, skew, alive, since, life, through, announced>>
      /\ r.loop = Heartbeat /\ r.stage = "sent"
  BY DEF ReadMachine, agent, history
<1>2. PICK ok \in BOOLEAN : flight' = Judge(r, ok, Online)
  BY DEF ReadMachine
<1> DEFINE st == IF ok /\ Online THEN "present" ELSE "absent"
           q == [r EXCEPT !.stage = st, !.misread = ~ok]
<1>3. /\ q.loop = r.loop /\ q.life = r.life /\ q.at = r.at
      /\ q.stage = st /\ q.misread = ~ok /\ st # "announcing"
      /\ st = "absent" /\ ok => ~Online
  BY DEF TypeOK, Report
<1>4. /\ q \in flight' /\ \A x \in flight' : x = q \/ (x \in flight /\ x # r)
      /\ \A x \in flight : x # r => x \in flight'
  BY <1>2 DEF Judge
<1> HIDE DEF q, st
<1>5. /\ \A x : Current(x)' <=> Current(x)
      /\ \A x : Pending(x)' <=> Pending(x)
      /\ \A t : SeenSince(t)' <=> SeenSince(t')
      /\ \A x : Judged(x)' <=> Judged(x)
      /\ FirstHeartbeat' <=> FirstHeartbeat
  BY <1>1 DEF Current, Pending, Judged, SeenSince, FirstHeartbeat
<1>6. Current(q) <=> Current(r)
  BY <1>3 DEF Current
<1>7. Pending(q) <=> Pending(r)
  BY <1>1, <1>3, <1>6 DEF Pending
<1>8. Judged(q) => FirstHeartbeat
  <2> SUFFICES ASSUME Judged(q) PROVE FirstHeartbeat
    OBVIOUS
  <2>0. Current(r) /\ ~Online
    BY <1>3, <1>6 DEF Judged
  <2>1. r.at = through /\ through \in Int /\ now =< through + Delay
    BY <2>0 DEF Flights, TypeOK, Report
  <2>2. ~SeenSince(through - Gap)
    BY <2>0, <2>1, FreshIsOnline
  <2>3. Pending(r)
    BY <1>1, <2>0 DEF Pending
  <2>4. QED
    BY <2>2, <2>3 DEF Seen
<1>9. through' # Never => SeenSince(through)' \/ \E x \in flight' : Pending(x)'
  BY <1>1, <1>4, <1>7 DEF Seen, SeenSince, Pending, Current
<1>10. \A x \in flight' : Pending(x)' => SeenSince(through - Gap)' \/ FirstHeartbeat'
  BY <1>1, <1>4, <1>5, <1>7 DEF Seen, SeenSince
<1>11. \A x \in flight' : Judged(x)' => FirstHeartbeat'
  BY <1>4, <1>5, <1>8 DEF Seen
<1>12. QED
  BY <1>1, <1>9, <1>10, <1>11 DEF Seen

(* An UPDATE of last_seen_at makes it fresh, even one that takes it back.  *)
LEMMA WriteSeen ==
  ASSUME TypeOK, TypeOK', Flights, Seen, NEW r \in flight,
         RecordHeartbeat(r) \/ RecordReport(r)
  PROVE  Seen'
<1>1. /\ lastSeen' = r.at + skew
      /\ UNCHANGED <<skew, alive, since, life, through, announced>>
      /\ \/ flight' = flight \ {r}
         \/ r.stage = "absent" /\ flight' = Advance(r, "announcing")
  BY DEF RecordHeartbeat, RecordReport, agent, history
<1>2. /\ \A x : Current(x)' <=> Current(x)
      /\ FirstHeartbeat' <=> FirstHeartbeat
  BY <1>1 DEF Current, FirstHeartbeat
<1>3. \A x \in flight' : \/ x \in flight
                         \/ x.stage = "announcing" /\ (Judged(x) => Judged(r))
  <2>1. CASE flight' = flight \ {r}
    BY <2>1
  <2>2. CASE r.stage = "absent" /\ flight' = Advance(r, "announcing")
    BY <2>2 DEF Advance, TypeOK, Report, Current, Judged
  <2>3. QED
    BY <1>1, <2>1, <2>2
<1>4. through # Never => SeenSince(through)' /\ SeenSince(through - Gap)'
  BY <1>1, HandledIsSeen
<1>5. \A x \in flight' : Pending(x)' => SeenSince(through - Gap)'
  <2> SUFFICES ASSUME NEW x \in flight', Pending(x)' PROVE SeenSince(through - Gap)'
    OBVIOUS
  <2>1. x \in flight /\ Current(x)
    BY <1>2, <1>3 DEF Pending
  <2>2. x.at = through /\ x.at \in Int
    BY <2>1 DEF Flights, TypeOK, Report
  <2>3. QED
    BY <1>4, <2>2, Settings
<1>6. \A x \in flight' : Judged(x)' => FirstHeartbeat'
  BY <1>2, <1>3 DEF Seen, Judged
<1>7. QED
  BY <1>1, <1>4, <1>5, <1>6 DEF Seen

(* The event of the first heartbeat is the only one: no other is under way *)
(* that could find the machine absent.                                     *)
LEMMA EventSeen ==
  ASSUME TypeOK, Flights, Seen, NEW r \in flight, AddEvent(r)
  PROVE  Seen'
<1>1. /\ UNCHANGED <<lastSeen, skew, alive, since, life, through>>
      /\ flight' = flight \ {r} /\ r.stage = "announcing"
      /\ \/ announced' = announced
         \/ r.life = life /\ ~r.misread /\ announced' = announced + 1
      /\ r.loop = Heartbeat
  BY DEF AddEvent, agent, Flights
<1>2. /\ \A x : Current(x)' <=> Current(x)
      /\ \A x : Pending(x)' <=> Pending(x)
      /\ \A x : Judged(x)' <=> Judged(x)
      /\ SeenSince(through)' <=> SeenSince(through)
      /\ SeenSince(through - Gap)' <=> SeenSince(through - Gap)
  BY <1>1 DEF Current, Pending, Judged, SeenSince
<1>3. ~Pending(r)
  BY <1>1 DEF Pending
<1>4. through' # Never => SeenSince(through)' \/ \E x \in flight' : Pending(x)'
  BY <1>1, <1>2, <1>3 DEF Seen
<1>5. CASE announced' = announced
  BY <1>1, <1>2, <1>4, <1>5 DEF Seen, FirstHeartbeat
<1>6. CASE announced' # announced
  <2>1. announced' = announced + 1 /\ Current(r) /\ Judged(r)
    BY <1>1, <1>6 DEF Current, Judged
  <2>2. \A x \in flight' : ~Current(x)
    BY <1>1, <2>1 DEF Flights
  <2>3. through # Never
    BY <2>1, Settings DEF Flights, TypeOK, Report
  <2>4. announced' =< 1
    BY <1>1, <2>1 DEF Seen, FirstHeartbeat
  <2>5. QED
    BY <1>1, <1>2, <1>4, <2>2, <2>3, <2>4 DEF Seen, Pending, Judged
<1>7. QED
  BY <1>5, <1>6

(* A heartbeat that is sent finds last_seen_at fresh, or is the first.     *)
LEMMA SendSeen ==
  ASSUME TypeOK, LoopTiming, Chain, Flights, Seen, NEW l \in Loops, Send(l)
  PROVE  Seen'
<1> DEFINE q == [loop |-> l, life |-> life, at |-> now, stage |-> "sent",
                misread |-> FALSE]
<1>1. /\ UNCHANGED <<now, skew, alive, since, life, lastSeen, announced>>
      /\ flight' = flight \cup {q}
      /\ through' = IF l = Heartbeat THEN now ELSE through
      /\ pc[l] = "collecting"
  BY DEF Send, Post, agent
<1>2. q.loop = l /\ q.life = life /\ q.stage = "sent"
  OBVIOUS
<1> HIDE DEF q
<1>3. \A x : /\ Current(x)' <=> Current(x)
             /\ Pending(x)' <=> Pending(x)
             /\ Judged(x)' <=> Judged(x)
  BY <1>1 DEF Current, Pending, Judged
<1>4. CASE l # Heartbeat
  <2>1. ~Current(q) /\ ~Pending(q) /\ ~Judged(q)
    BY <1>2, <1>4 DEF Current, Pending, Judged
  <2>2. through' = through
    BY <1>1, <1>4
  <2>3. /\ SeenSince(through)' <=> SeenSince(through)
        /\ SeenSince(through - Gap)' <=> SeenSince(through - Gap)
        /\ FirstHeartbeat' <=> FirstHeartbeat
    BY <1>1, <2>2 DEF SeenSince, FirstHeartbeat
  <2>4. QED
    BY <1>1, <1>3, <2>1, <2>2, <2>3 DEF Seen
<1>5. CASE l = Heartbeat
  <2>1. alive
    BY <1>1 DEF TypeOK
  <2>2. \A x \in flight : ~Current(x)
    BY <1>5, <2>1, NoneInFlight DEF Send
  <2>3. Current(q) /\ Pending(q)
    BY <1>2, <1>5 DEF Current, Pending
  <2>4. now =< NextBy /\ NextBy \in Int
    BY <1>1, <1>5, <2>1, PostInTime, Settings, HeartbeatTypes DEF NextBy
  <2>5. through # Never => SeenSince(through - Gap)'
    <3> SUFFICES ASSUME through # Never PROVE SeenSince(through - Gap)'
      OBVIOUS
    <3>1. SeenSince(through)
      BY <2>2 DEF Seen, Pending
    <3>2. now =< through + Gap
      BY <2>1, <2>4, Settings, HeartbeatTypes DEF Chain
    <3>3. through' = now /\ now - Gap + skew - Delay =< through + skew - Delay
      BY <1>1, <1>5, <3>2, Settings, HeartbeatTypes
    <3>4. lastSeen # Never /\ through + skew - Delay =< lastSeen /\ lastSeen \in Int
      BY <3>1 DEF SeenSince, TypeOK
    <3>5. now - Gap + skew - Delay =< lastSeen
      BY <3>3, <3>4, Settings, HeartbeatTypes
    <3>6. QED
      BY <1>1, <3>3, <3>4, <3>5 DEF SeenSince
  <2>6. through = Never => FirstHeartbeat'
    <3> SUFFICES ASSUME through = Never PROVE FirstHeartbeat'
      OBVIOUS
    <3>1. now =< since + FirstBy
      BY <2>1, <2>4, Settings, HeartbeatTypes DEF Chain
    <3>2. announced = 0
      BY DEF Seen
    <3>3. QED
      BY <1>1, <1>5, <3>1, <3>2 DEF FirstHeartbeat
  <2>7. \A x \in flight' : Pending(x)' => SeenSince(through - Gap)' \/ FirstHeartbeat'
    BY <2>5, <2>6
  <2>8. \E x \in flight' : Pending(x)'
    BY <1>1, <1>3, <2>3
  <2>9. \A x \in flight' : ~Judged(x)'
    BY <1>1, <1>2, <1>3, <2>2 DEF Judged
  <2>10. through' # Never
    BY <1>1, <1>5, Settings, HeartbeatTypes
  <2>11. QED
    BY <1>1, <2>7, <2>8, <2>9, <2>10 DEF Seen
<1>6. QED
  BY <1>4, <1>5

(* Every step keeps what the heartbeats have made of the table.            *)
LEMMA SeenKept ==
  ASSUME TypeOK, TypeOK', LoopTiming, Chain, Flights, Seen, [Next]_vars
  PROVE  Seen'
<1>1. CASE Start
  <2>1. /\ life' = life + 1 /\ flight' = flight /\ through' = Never /\ announced' = 0
    BY <1>1 DEF Start
  <2>2. \A r \in flight : ~Current(r)'
    BY <2>1 DEF Flights, Current, TypeOK, Report
  <2>3. QED
    BY <2>1, <2>2 DEF Seen, Pending, Judged
<1>2. CASE Stop
  BY <1>2 DEF Stop, history, Seen, SeenSince, FirstHeartbeat, Current, Pending, Judged
<1>3. ASSUME UNCHANGED <<skew, alive, since, life, flight, lastSeen, through, announced>>
      PROVE  Seen'
  BY <1>3 DEF Seen, SeenSince, FirstHeartbeat, Current, Pending, Judged
<1>4. ASSUME NEW l \in Loops, Begin(l) \/ Lose(l) \/ Return(l) PROVE Seen'
  BY <1>3, <1>4 DEF Begin, Lose, Post, Return, agent, history
<1>5. ASSUME NEW l \in Loops, Send(l) PROVE Seen'
  BY <1>5, SendSeen
<1>6. ASSUME NEW r \in flight, Handle(r) PROVE Seen'
  BY <1>6, ReadSeen, WriteSeen, EventSeen DEF Handle
<1>7. CASE Tick
  BY <1>3, <1>7 DEF Tick, agent, history
<1>8. CASE UNCHANGED vars
  BY <1>3, <1>8 DEF vars, agent, history
<1>9. QED
  BY <1>1, <1>2, <1>4, <1>5, <1>6, <1>7, <1>8 DEF Next, LoopStep

(* No report says it was collected after the agent stopped.                *)
LEMMA NotAheadKept ==
  ASSUME TypeOK, TypeOK', Flights, NotAhead, [Next]_vars
  PROVE  NotAhead'
<1>1. now \in Nat /\ since \in Nat /\ since =< now /\ skew \in Int /\ lastSeen \in Int \cup {Never}
  BY HeartbeatTypes DEF TypeOK
<1>2. ASSUME UNCHANGED <<now, skew, alive, since, lastSeen>> PROVE NotAhead'
  BY <1>2 DEF NotAhead
<1>3. CASE Start
  BY <1>1, <1>3, Settings DEF Start, NotAhead
<1>4. CASE Stop
  BY <1>1, <1>4, Settings DEF Stop, NotAhead
<1>5. ASSUME NEW l \in Loops, LoopStep(l) PROVE NotAhead'
  BY <1>2, <1>5 DEF LoopStep, Begin, Send, Lose, Post, Return, agent
<1>6. ASSUME NEW r \in flight, ReadMachine(r) \/ AddEvent(r) PROVE NotAhead'
  BY <1>2, <1>6 DEF ReadMachine, AddEvent, agent
<1>7. ASSUME NEW r \in flight, RecordHeartbeat(r) \/ RecordReport(r) PROVE NotAhead'
  <2>1. lastSeen' = r.at + skew /\ UNCHANGED <<now, skew, alive, since>>
    BY <1>7 DEF RecordHeartbeat, RecordReport, agent
  <2>2. r.at \in Int /\ r.at =< IF alive THEN now ELSE since
    BY DEF Flights, TypeOK, Report
  <2>3. QED
    BY <1>1, <2>1, <2>2 DEF NotAhead
<1>8. CASE Tick
  BY <1>1, <1>8, Settings DEF Tick, agent, NotAhead
<1>9. CASE UNCHANGED vars
  BY <1>2, <1>9 DEF vars, agent
<1>10. QED
  BY <1>3, <1>4, <1>5, <1>6, <1>7, <1>8, <1>9 DEF Next, Handle

-----------------------------------------------------------------------------
(* At the start nobody has reported and nothing is under way.              *)
LEMMA PresenceInit == Init => IInv
<1> SUFFICES ASSUME Init PROVE IInv
  OBVIOUS
<1>1. TypeOK
  <2>1. /\ now = 0 /\ since = 0 /\ life = 0 /\ missed = 0 /\ announced = 0 /\ alive = FALSE
        /\ through = Never /\ lastSeen = Never /\ flight = {} /\ skew \in Skews
        /\ pc = [l \in Loops |-> "off"] /\ began = [l \in Loops |-> 0]
        /\ nextTick = [l \in Loops |-> Never] /\ due = [l \in Loops |-> FALSE]
    BY DEF Init
  <2>2. \A l \in Loops : pc[l] = "off" <=> ~alive
    BY <2>1
  <2>3. /\ now \in Nat /\ since \in 0 .. now /\ life \in Nat /\ missed \in 0 .. Misses
        /\ announced \in Nat
    BY <2>1, Settings
  <2>4. alive \in BOOLEAN /\ flight \subseteq Report
    BY <2>1
  <2>5. /\ pc \in [Loops -> {"off", "collecting", "waiting", "idle"}]
        /\ began \in [Loops -> Int] /\ nextTick \in [Loops -> Int \cup {Never}]
        /\ due \in [Loops -> BOOLEAN]
    BY <2>1
  <2>6. QED
    BY <2>1, <2>2, <2>3, <2>4, <2>5 DEF TypeOK
<1>2. LoopTiming /\ Chain
  BY DEF Init, LoopTiming, Chain
<1>3. Flights /\ Seen /\ NotAhead
  BY DEF Init, Flights, Seen, NotAhead
<1>4. QED
  BY <1>1, <1>2, <1>3 DEF IInv

(* The chain of heartbeats, and what it makes of last_seen_at, hold in     *)
(* every reachable state.                                                  *)
THEOREM PresenceInvariant == Spec => []IInv
<1>1. IInv /\ [Next]_vars => IInv'
  BY TypesKept, LoopsKept, FlightsKept, SeenKept, NotAheadKept DEF IInv
<1>2. QED
  BY PresenceInit, <1>1, PTL DEF Spec

(* Every variable keeps its type, and no loop survives the agent.          *)
THEOREM PresenceTyped == Spec => []TypeOK
<1>1. IInv => TypeOK
  BY DEF IInv
<1>2. QED
  BY <1>1, PresenceInvariant, PTL

(* An agent that has run for long enough is online: the next heartbeat is  *)
(* due, or the last one is still under way, and in both cases last_seen_at *)
(* is within the margin.                                                   *)
LEMMA AliveOnline == IInv => AliveIsOnline
<1> SUFFICES ASSUME IInv, alive, now > since + FirstBy + Delay PROVE Online
  BY DEF AliveIsOnline
<1>1. TypeOK /\ LoopTiming /\ Chain /\ Flights /\ Seen
  BY DEF IInv
<1>2. now =< NextBy /\ NextBy \in Int
  BY <1>1, Settings, HeartbeatTypes DEF LoopTiming, NextBy, DueAt, Ticking
<1>3. through # Never /\ through \in Int /\ through =< now
  BY <1>1, <1>2, Settings, HeartbeatTypes DEF Chain, Flights
<1>4. now =< through + Gap
  BY <1>1, <1>2, <1>3, Settings, HeartbeatTypes DEF Chain
<1>5. CASE SeenSince(through)
  <2>1. SeenSince((through + Gap) - Gap) /\ now =< through + Gap + Delay
    BY <1>1, <1>3, <1>4, <1>5, Settings, HeartbeatTypes DEF SeenSince
  <2>2. QED
    BY <1>1, <1>3, <2>1, FreshIsOnline, Settings
<1>6. CASE \E r \in flight : Pending(r)
  <2>1. PICK r \in flight : Pending(r)
    BY <1>6
  <2>2. now =< through + Delay
    BY <1>1, <2>1 DEF Flights, Pending
  <2>3. ~FirstHeartbeat
    BY <2>2, <1>1, <1>3, Settings, HeartbeatTypes DEF FirstHeartbeat
  <2>4. SeenSince(through - Gap)
    BY <1>1, <2>1, <2>3 DEF Seen
  <2>5. QED
    BY <1>1, <1>3, <2>2, <2>4, FreshIsOnline
<1>7. QED
  BY <1>1, <1>3, <1>5, <1>6 DEF Seen

(* A machine whose agent has been running for long enough is shown online, *)
(* whatever reports overtake each other, as long as at most Misses         *)
(* heartbeats in a row are lost.                                           *)
THEOREM AliveStaysOnline == Spec => []AliveIsOnline
BY AliveOnline, PresenceInvariant, PTL

(* A machine whose agent has stopped goes offline in time.                 *)
THEOREM DeadGoesOffline == Spec => []DeadIsOffline
<1>1. IInv => DeadIsOffline
  <2> SUFFICES ASSUME IInv, ~alive, now > since + skew + OfflineAfter, Online PROVE FALSE
    BY DEF DeadIsOffline
  <2>1. /\ now \in Nat /\ since \in Nat /\ skew \in Int /\ OfflineAfter \in Nat
        /\ lastSeen \in Int /\ now - lastSeen =< OfflineAfter
    BY Settings, HeartbeatTypes DEF IInv, TypeOK, Online
  <2>2. lastSeen =< skew + since
    BY <2>1, Settings DEF IInv, NotAhead
  <2>3. QED
    BY <2>1, <2>2
<1>2. QED
  BY <1>1, PresenceInvariant, PTL

(* A start of the agent is announced at most once by heartbeats that can   *)
(* read the machine, whatever number of other reads fail.                  *)
THEOREM AnnouncedOnce == Spec => []ReturnAnnouncedOnce
<1>1. IInv => ReturnAnnouncedOnce
  BY DEF IInv, Seen, ReturnAnnouncedOnce
<1>2. QED
  BY <1>1, PresenceInvariant, PTL

(* Such an announcement follows a start of the agent within a bounded time. *)
THEOREM AnnouncementIsTrue == Spec => EventMeansReturn
<1>1. IInv /\ [Next]_vars =>
        [announced' > announced => ~alive \/ now =< since + FirstBy + Delay]_vars
  <2> SUFFICES ASSUME IInv, Next, announced' > announced, alive
               PROVE  now =< since + FirstBy + Delay
    OBVIOUS
  <2>1. announced \in Nat /\ TypeOK
    BY DEF IInv, TypeOK
  <2>2. PICK r \in flight : AddEvent(r)
    BY <2>1 DEF Next, Start, Stop, LoopStep, Begin, Send, Lose, Post, Return, Tick, Handle,
                ReadMachine, RecordHeartbeat, RecordReport, history
  <2>3. r.life = life /\ r.stage = "announcing" /\ ~r.misread
    BY <2>1, <2>2 DEF AddEvent
  <2>4. Current(r)
    BY <2>3 DEF IInv, Flights, Current
  <2>5. FirstHeartbeat
    BY <2>3, <2>4 DEF IInv, Seen, Judged
  <2>6. r.at = through /\ now =< r.at + Delay /\ r.at \in Int
    BY <2>4 DEF IInv, Flights, TypeOK, Report
  <2>7. QED
    BY <2>1, <2>5, <2>6, Settings, HeartbeatTypes DEF FirstHeartbeat
<1>2. QED
  BY <1>1, PresenceInvariant, PTL DEF Spec, EventMeansReturn

=============================================================================
