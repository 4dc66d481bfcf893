-------------------------- MODULE DeviceInventory --------------------------
(***************************************************************************)
(* The peripherals of one machine: what is plugged in, what the agent      *)
(* collects and posts (collectDevices, Runner.sendDevices), and what the   *)
(* server makes of it (Store.RecordDevices).                               *)
(*                                                                         *)
(* A collection is one query for each category, one after another under    *)
(* one timeout: the hardware may change between them, so that a report     *)
(* tells of several moments.                                               *)
(*                                                                         *)
(* A row of device_states is one value: "absent" when there is none, "off" *)
(* when connected = 0 (its status is then 'Desconectado'), else the status *)
(* of a connected device.  RecordDevices is one transaction, hence one     *)
(* step; one that fails changes nothing, like a lost report.  That it also *)
(* refreshes last_seen_at concerns presence and is left out here.          *)
(*                                                                         *)
(* Two pieces of hardware may share a key: identical disks without serial  *)
(* number are both identified by their model.                              *)
(*                                                                         *)
(* A definition marked "variant" is the one below it with a defect such    *)
(* code could have; no specification uses it.  It serves to see that the   *)
(* properties notice the defect.                                           *)
(***************************************************************************)
EXTENDS Integers, FiniteSets, Sequences

CONSTANTS Hardware,     \* pieces of hardware
          Keys,         \* (category, identifier) pairs
          Categories,   \* USB, Impressora, Armazenamento
          KeyOf,        \* the key the agent derives for a piece of hardware
          CategoryOf,   \* the category of a key
          HealthOf,     \* the status texts each piece of hardware can report
          Nameless,     \* hardware without a name: listed, but not reported
          Queries,      \* the categories in the order they are asked for
          MaxChanges,   \* bound: changes of the hardware
          MaxInFlight   \* bound: reports under way at once

Statuses == UNION {HealthOf[d] : d \in Hardware}

ASSUME InventoryAssumption ==
  /\ KeyOf \in [Hardware -> Keys]
  /\ CategoryOf \in [Keys -> Categories]
  /\ {"absent", "off"} \cap Statuses = {}
  /\ Queries \in Seq(Categories)
  /\ \A i, j \in 1..Len(Queries) : Queries[i] = Queries[j] => i = j
  /\ MaxChanges \in Nat
  /\ MaxInFlight \in Nat \ {0}

VARIABLES plugged,      \* hardware that is there now
          health,       \* the status each piece would report
          changes,      \* how often the hardware changed
          agent,        \* device loop: "collecting" or "posting"
          next,         \* the query to come; with the first the loop is at rest
          draft,        \* what the collection has gathered so far
          inflight,     \* reports under way, some of them given up by the agent
          row,          \* table device_states
          news,         \* device_events inserted by the last report applied
          basis         \* history: what each category held when the last report
                        \* applied that covers it was collected

hardware == <<plugged, health, changes>>
loop     == <<agent, next, draft>>
store    == <<row, news, basis>>
vars     == <<hardware, loop, inflight, store>>

Reports == [cats : SUBSET Categories, seen : SUBSET (Keys \X Statuses)]
Blank   == [cats |-> {}, seen |-> {}]

(* What the query of category c prints now, and what of it is reported.    *)
Listed(c) == {d \in plugged : CategoryOf[KeyOf[d]] = c}

View(c) == {<<KeyOf[d], health[d]>> : d \in Listed(c) \ Nameless}

Init == /\ plugged \in SUBSET Hardware
        /\ health \in {h \in [Hardware -> Statuses] : \A d \in Hardware : h[d] \in HealthOf[d]}
        /\ changes = 0
        /\ agent = "collecting"
        /\ next = 1
        /\ draft = Blank
        /\ inflight = {}
        /\ row = [k \in Keys |-> "absent"]
        /\ news = {}
        /\ basis = [c \in Categories |-> {}]

-----------------------------------------------------------------------------
(* The world.                                                              *)

(* Bounds how often the hardware changes. *)
Change == changes < MaxChanges /\ changes' = changes + 1

Plug(d) == /\ Change
           /\ d \notin plugged
           /\ plugged' = plugged \cup {d}
           /\ UNCHANGED <<health, loop, inflight, store>>

Unplug(d) == /\ Change
             /\ d \in plugged
             /\ plugged' = plugged \ {d}
             /\ UNCHANGED <<health, loop, inflight, store>>

ChangeStatus(d, s) == /\ Change
                      /\ health[d] # s
                      /\ health' = [health EXCEPT ![d] = s]
                      /\ UNCHANGED <<plugged, loop, inflight, store>>

-----------------------------------------------------------------------------
(* The agent.                                                              *)

(* One query of collectDevices.  A category is collected unless its query  *)
(* fails (for good once the 20 s are over), and unless nothing is listed:  *)
(* ConvertTo-Json prints nothing for an empty list, and collectPowerShell  *)
(* takes that for a failure.                                               *)
Query(c, ok) ==
  /\ agent = "collecting"
  /\ next <= Len(Queries)
  /\ c = Queries[next]
  /\ next' = next + 1
  /\ draft' = IF ok /\ Listed(c) # {}
                THEN [cats |-> draft.cats \cup {c}, seen |-> draft.seen \cup View(c)]
                ELSE draft
  /\ UNCHANGED <<hardware, agent, inflight, store>>

(* All queries are done: what they gathered is sent, even if it is nothing. *)
PostDevices ==
  /\ agent = "collecting"
  /\ next > Len(Queries)
  /\ Cardinality(inflight) < MaxInFlight
  /\ agent' = "posting"
  /\ next' = 1
  /\ inflight' = inflight \cup {draft}
  /\ draft' = Blank
  /\ UNCHANGED <<hardware, store>>

EndPost_Stops == /\ agent = "posting"          \* variant: the loop ends
                 /\ agent' = "stopped"
                 /\ UNCHANGED <<hardware, next, draft, inflight, store>>

(* The POST returned, failed or timed out (or the agent restarted): the    *)
(* loop waits for its next tick, the report may still be under way.        *)
EndPost == /\ agent = "posting"
           /\ agent' = "collecting"
           /\ UNCHANGED <<hardware, next, draft, inflight, store>>

(* A report is lost or refused (or the agent ended before it was sent).    *)
LoseReport(r) == /\ r \in inflight
                 /\ inflight' = inflight \ {r}
                 /\ UNCHANGED <<hardware, loop, store>>

-----------------------------------------------------------------------------
(* The server: RecordDevices.                                              *)

Connected(k) == row[k] \in Statuses

Reported(r) == {x[1] : x \in r.seen}

StatusesOf(r, k) == {x[2] : x \in {y \in r.seen : y[1] = k}}

Stale_AnyCategory(r) ==              \* variant: categories are not told apart
  {k \in Keys : Connected(k) /\ k \notin Reported(r)}

Stale_Never(r) == {}                 \* variant: the second loop is missing

(* Rows the second loop marks as disconnected: those of the categories of  *)
(* the report that are connected and were not seen.                        *)
Stale(r) == {k \in Keys : /\ CategoryOf[k] \in r.cats
                          /\ Connected(k)
                          /\ k \notin Reported(r)}

NewsOf_Repeated(r) ==                \* variant: "connected" for what is seen again
  {<<k, "connected">> : k \in Reported(r)}
  \cup {<<k, "disconnected">> : k \in Stale(r)}

NewsOf_Silent(r) ==                  \* variant: stale rows change without event
  {<<k, "connected">> : k \in {j \in Reported(r) : ~Connected(j)}}

(* The device_events of the report.  A key seen with two statuses changes  *)
(* at least once on the way from one to the other.                         *)
NewsOf(r) ==
  {<<k, "connected">> : k \in {j \in Reported(r) : ~Connected(j)}}
  \cup {<<k, "changed">> : k \in {j \in Reported(r) :
            \/ \E s, t \in StatusesOf(r, j) : s # t
            \/ Connected(j) /\ row[j] \notin StatusesOf(r, j)}}
  \cup {<<k, "disconnected">> : k \in Stale(r)}

(* A key seen twice keeps the status of whichever came last.               *)
RecordDevices(r) ==
  /\ r \in inflight
  /\ inflight' = inflight \ {r}
  /\ \E last \in [Reported(r) -> Statuses] :
        /\ \A k \in Reported(r) : last[k] \in StatusesOf(r, k)
        /\ row' = [k \in Keys |-> IF k \in Reported(r) THEN last[k]
                                  ELSE IF k \in Stale(r) THEN "off"
                                  ELSE row[k]]
  /\ news' = NewsOf(r)
  /\ basis' = [c \in Categories |->
                 IF c \in r.cats THEN {x \in r.seen : CategoryOf[x[1]] = c}
                 ELSE basis[c]]
  /\ UNCHANGED <<hardware, loop>>

-----------------------------------------------------------------------------
Next == \/ \E d \in Hardware : \/ Plug(d)
                               \/ Unplug(d)
                               \/ \E s \in HealthOf[d] : ChangeStatus(d, s)
        \/ \E c \in Categories, ok \in BOOLEAN : Query(c, ok)
        \/ PostDevices
        \/ EndPost
        \/ \E r \in inflight : LoseReport(r) \/ RecordDevices(r)

Spec == Init /\ [][Next]_vars

(* The device loop keeps ticking, the query of a category does not fail    *)
(* for ever, and of the reports that cover a category some arrive.         *)
FairSpec == /\ Spec
            /\ \A c \in Categories : SF_vars(Query(c, TRUE))
            /\ WF_vars(PostDevices)
            /\ WF_vars(EndPost)
            /\ SF_vars(\E r \in inflight : RecordDevices(r))
            /\ \A c \in Categories :
                 SF_vars(\E r \in inflight : c \in r.cats /\ RecordDevices(r))

-----------------------------------------------------------------------------
(* Properties.                                                             *)

TypeOK == /\ plugged \subseteq Hardware
          /\ health \in [Hardware -> Statuses]
          /\ changes \in 0..MaxChanges
          /\ agent \in {"collecting", "posting"}
          /\ next \in 1..(Len(Queries) + 1)
          /\ draft \in Reports
          /\ inflight \subseteq Reports
          /\ row \in [Keys -> Statuses \cup {"absent", "off"}]
          /\ news \subseteq Keys \X {"connected", "changed", "disconnected"}
          /\ basis \in [Categories -> SUBSET (Keys \X Statuses)]

ConnectedIn(c) == {k \in Keys : CategoryOf[k] = c /\ Connected(k)}

(* The connected rows of category c are exactly the pairs of V, one status *)
(* for each key.                                                           *)
Shows(c, V) == /\ ConnectedIn(c) = {x[1] : x \in V}
               /\ \A k \in ConnectedIn(c) : <<k, row[k]>> \in V

(* Each category shows what was really there when the last report that     *)
(* covers it asked for it: reports that fail for other categories, lost   *)
(* ones and keys seen twice neither hide a device nor invent one (the two  *)
(* loops of RecordDevices).                                                *)
InventoryIsBasis == \A c \in Categories : Shows(c, basis[c])

(* A report tells in device_events exactly what it changes in              *)
(* device_states: every connection and disconnection, and no other, and    *)
(* something of every row that changes.                                    *)
NewsMatchesTable ==
  [][<<row, news>>' # <<row, news>> =>
       \A k \in Keys :
          /\ <<k, "connected">> \in news' <=> ~Connected(k) /\ Connected(k)'
          /\ <<k, "disconnected">> \in news' <=> Connected(k) /\ ~Connected(k)'
          /\ row'[k] # row[k] => \E x \in news' : x[1] = k]_vars

(* What a report says of category c. *)
Told(r, c) == {x \in r.seen : CategoryOf[x[1]] = c}

Snapshot(r) == [c \in r.cats |-> Told(r, c)]

(* The categories that can be reported although nothing of them is. *)
Emptiable == {CategoryOf[KeyOf[d]] : d \in Nameless \cap Hardware}

World == [c \in Categories |-> View(c)]
Taken == {Snapshot(r) : r \in inflight}
Shown == [c \in Categories |-> {<<k, row[k]>> : k \in ConnectedIn(c)}]

Register == INSTANCE SnapshotRegister WITH
              Pairs <- Keys \X Statuses, world <- World, seen <- Snapshot(draft),
              taken <- Taken, shown <- Shown

(* The inventory keeps the promise of SnapshotRegister: what a report says *)
(* of a category was so at one moment, whatever changed between its        *)
(* queries; it is applied as a whole, to the categories it covers and no   *)
(* other, however late (collectDevices, RecordDevices).                    *)
ImplementsRegister == Register!RegisterSpec

Agrees(c) == Shows(c, View(c))

(* Once the hardware rests, each category of which something is listed     *)
(* shows what is there, although a collection mixes old and new and late   *)
(* reports may arrive after newer ones: the next report repairs what they  *)
(* spoil.                                                                  *)
Converges == <>[](\A c \in Categories : Listed(c) # {} => Agrees(c))

(* Once the hardware rests the timeline does too, unless two devices of    *)
(* one key report different statuses (then every report logs a change).    *)
Ambiguous == \E d, e \in plugged \ Nameless : KeyOf[d] = KeyOf[e] /\ health[d] # health[e]

EventuallyQuiet == <>[](Ambiguous \/ news = {})

(* app_test.go:104 "expected missing USB to be marked disconnected": every *)
(* category ends up showing what is there, the empty ones included.        *)
UnpluggedDisappears == <>[](\A c \in Categories : Agrees(c))
=============================================================================
