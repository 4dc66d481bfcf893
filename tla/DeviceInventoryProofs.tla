----------------------- MODULE DeviceInventoryProofs -----------------------
(***************************************************************************)
(* What DeviceInventory keeps for every set of hardware, keys, categories  *)
(* and statuses and every value of the bounds.                             *)
(*                                                                         *)
(* InventoryIsBasis needs one more fact to be inductive: a report names    *)
(* the category of everything it saw (Covered), so that the second loop of *)
(* RecordDevices compares with the rows the first one wrote.  That a       *)
(* report tells of each category what one query saw needs another: no      *)
(* category is asked for twice in a collection (AskedOnce).                *)
(***************************************************************************)
EXTENDS DeviceInventory, TLAPS

(* A report covers the category of each device it mentions.                *)
Covered == \A r \in inflight \cup {draft} : \A x \in r.seen : CategoryOf[x[1]] \in r.cats

(* What is still to be asked has not been answered in this collection.     *)
AskedOnce == \A i \in next..Len(Queries) : Queries[i] \notin draft.cats

IInv == TypeOK /\ Covered /\ AskedOnce /\ InventoryIsBasis

-----------------------------------------------------------------------------
(* What the agent sees has the type of a report, in the category asked for *)
(* (collectPowerShell sets Category itself).                               *)
LEMMA ViewTyped ==
  ASSUME TypeOK, NEW c \in Categories
  PROVE  /\ View(c) \subseteq Keys \X Statuses
         /\ \A x \in View(c) : CategoryOf[x[1]] = c
BY InventoryAssumption DEF View, Listed, TypeOK

(* The report that a successful query leaves, and the old one if it fails. *)
LEMMA QueryDraft ==
  ASSUME TypeOK, AskedOnce, NEW c \in Categories, NEW ok \in BOOLEAN, Query(c, ok)
  PROVE  \/ draft' = draft
         \/ /\ c \notin draft.cats
            /\ Listed(c) # {}
            /\ draft'.cats = draft.cats \cup {c}
            /\ draft'.seen = draft.seen \cup View(c)
            /\ draft' \in Reports
<1>1. next \in next..Len(Queries) /\ c = Queries[next]
  BY InventoryAssumption DEF Query, TypeOK
<1>2. c \notin draft.cats
  BY <1>1 DEF AskedOnce
<1> DEFINE new == [cats |-> draft.cats \cup {c}, seen |-> draft.seen \cup View(c)]
<1>3. draft' = draft \/ (Listed(c) # {} /\ draft' = new)
  BY DEF Query
<1>4. new.cats = draft.cats \cup {c} /\ new.seen = draft.seen \cup View(c)
  OBVIOUS
<1>5. new \in Reports
  BY ViewTyped DEF TypeOK, Reports
<1> HIDE DEF new
<1>6. QED
  BY <1>2, <1>3, <1>4, <1>5

(* A query keeps the type, and the report covers what it saw.              *)
LEMMA QueryStep ==
  ASSUME TypeOK, Covered, AskedOnce,
         NEW c \in Categories, NEW ok \in BOOLEAN, Query(c, ok)
  PROVE  TypeOK' /\ Covered' /\ AskedOnce'
<1>1. /\ next' = next + 1 /\ next <= Len(Queries) /\ c = Queries[next]
      /\ UNCHANGED <<plugged, health, changes, agent, inflight, row, news, basis>>
  BY DEF Query, hardware, store
<1>2. Len(Queries) \in Nat /\ next \in 1..(Len(Queries) + 1)
  BY InventoryAssumption DEF TypeOK
<1>3. draft' \in Reports
  BY QueryDraft DEF TypeOK
<1>4. TypeOK'
  BY <1>1, <1>2, <1>3 DEF TypeOK
<1>5. \A x \in draft'.seen : CategoryOf[x[1]] \in draft'.cats
  BY QueryDraft, ViewTyped DEF Covered
<1>6. Covered'
  BY <1>1, <1>5 DEF Covered
<1>7. ASSUME NEW i \in next'..Len(Queries) PROVE Queries[i] \notin draft'.cats
  <2>1. i \in next..Len(Queries) /\ i # next /\ i \in 1..Len(Queries) /\ next \in 1..Len(Queries)
    BY <1>1, <1>2
  <2>2. Queries[i] \notin draft.cats /\ Queries[i] # c
    BY <1>1, <2>1, InventoryAssumption DEF AskedOnce
  <2>3. QED
    BY <2>2, QueryDraft
<1>8. QED
  BY <1>4, <1>6, <1>7 DEF AskedOnce

(* Posting keeps the type, and the next collection starts from nothing.    *)
LEMMA PostStep ==
  ASSUME TypeOK, Covered, AskedOnce, PostDevices
  PROVE  TypeOK' /\ Covered' /\ AskedOnce'
<1>1. /\ agent' = "posting" /\ next' = 1
      /\ inflight' = inflight \cup {draft} /\ draft' = Blank
      /\ UNCHANGED <<plugged, health, changes, row, news, basis>>
  BY DEF PostDevices, hardware, store
<1>2. Blank \in Reports /\ Blank.cats = {} /\ Blank.seen = {}
  BY DEF Blank, Reports
<1>3. Len(Queries) \in Nat
  BY InventoryAssumption
<1>4. TypeOK'
  BY <1>1, <1>2, <1>3 DEF TypeOK
<1>5. Covered'
  BY <1>1, <1>2 DEF Covered
<1>6. AskedOnce'
  BY <1>1, <1>2 DEF AskedOnce
<1>7. QED
  BY <1>4, <1>5, <1>6

(* The table stays one row for each key.                                   *)
LEMMA RecordFunction ==
  ASSUME TypeOK, NEW r \in inflight, RecordDevices(r)
  PROVE  row' \in [Keys -> Statuses \cup {"absent", "off"}]
BY DEF RecordDevices, TypeOK

(* What one report does to one row: the two loops of RecordDevices.        *)
LEMMA RecordRow ==
  ASSUME TypeOK, NEW r \in inflight, RecordDevices(r), NEW k \in Keys
  PROVE  /\ row' \in [Keys -> Statuses \cup {"absent", "off"}]
         /\ k \in Reported(r) => row'[k] \in StatusesOf(r, k)
         /\ k \in Stale(r) => k \notin Reported(r) /\ row'[k] = "off"
         /\ k \notin Reported(r) /\ k \notin Stale(r) => row'[k] = row[k]
<1>1. row' \in [Keys -> Statuses \cup {"absent", "off"}]
  BY RecordFunction
<1>2. PICK last \in [Reported(r) -> Statuses] :
        /\ \A j \in Reported(r) : last[j] \in StatusesOf(r, j)
        /\ row' = [j \in Keys |-> IF j \in Reported(r) THEN last[j]
                                  ELSE IF j \in Stale(r) THEN "off"
                                  ELSE row[j]]
  BY DEF RecordDevices
<1>3. k \in Stale(r) => k \notin Reported(r)
  BY DEF Stale
<1>4. QED
  BY <1>1, <1>2, <1>3

(* The statuses of a report are those of connected devices.                *)
LEMMA StatusesTyped ==
  ASSUME TypeOK, NEW r \in inflight, NEW k \in Keys
  PROVE  /\ StatusesOf(r, k) \subseteq Statuses
         /\ \A s : s \in StatusesOf(r, k) <=> <<k, s>> \in r.seen
         /\ k \in Reported(r) <=> \E s \in Statuses : <<k, s>> \in r.seen
<1>1. r.seen \subseteq Keys \X Statuses
  BY DEF TypeOK, Reports
<1>2. \A x \in r.seen : x = <<x[1], x[2]>> /\ x[1] \in Keys /\ x[2] \in Statuses
  BY <1>1
<1>3. \A s : s \in StatusesOf(r, k) <=> <<k, s>> \in r.seen
  <2>1. TAKE s
  <2>2. s \in StatusesOf(r, k) => <<k, s>> \in r.seen
    BY <1>2 DEF StatusesOf
  <2>3. <<k, s>> \in r.seen => s \in StatusesOf(r, k)
    <3>1. <<k, s>>[1] = k /\ <<k, s>>[2] = s
      OBVIOUS
    <3>2. QED
      BY <3>1, Zenon DEF StatusesOf
  <2>4. QED
    BY <2>2, <2>3
<1>4. StatusesOf(r, k) \subseteq Statuses
  BY <1>2 DEF StatusesOf
<1>5. k \in Reported(r) => \E s \in Statuses : <<k, s>> \in r.seen
  BY <1>2 DEF Reported
<1>6. (\E s \in Statuses : <<k, s>> \in r.seen) => k \in Reported(r)
  BY DEF Reported
<1>7. QED
  BY <1>3, <1>4, <1>5, <1>6

-----------------------------------------------------------------------------
(* Each part of the state keeps its type, whatever the reports say.        *)
LEMMA RecordTyped ==
  ASSUME TypeOK, Covered, AskedOnce, NEW r \in inflight, RecordDevices(r)
  PROVE  TypeOK' /\ Covered' /\ AskedOnce'
<1>1. r \in Reports /\ r.seen \subseteq Keys \X Statuses
  BY DEF TypeOK, Reports
<1>2. row' \in [Keys -> Statuses \cup {"absent", "off"}]
  BY RecordFunction
<1>3. news' \subseteq Keys \X {"connected", "changed", "disconnected"}
  <2>1. Reported(r) \subseteq Keys /\ Stale(r) \subseteq Keys
    BY <1>1 DEF Reported, Stale
  <2>2. QED
    BY <2>1 DEF RecordDevices, NewsOf
<1>4. basis' \in [Categories -> SUBSET (Keys \X Statuses)]
  BY <1>1 DEF RecordDevices, TypeOK
<1>5. inflight' \subseteq inflight /\ UNCHANGED <<plugged, health, changes, agent, next, draft>>
  BY DEF RecordDevices, hardware, loop
<1>6. TypeOK'
  BY <1>2, <1>3, <1>4, <1>5 DEF TypeOK
<1>7. Covered'
  BY <1>5 DEF Covered
<1>8. AskedOnce'
  BY <1>5 DEF AskedOnce
<1>9. QED
  BY <1>6, <1>7, <1>8

(* A category the report covers shows the report.                          *)
LEMMA RecordShows ==
  ASSUME TypeOK, Covered, NEW r \in inflight, RecordDevices(r),
         NEW c \in Categories, c \in r.cats
  PROVE  Shows(c, basis[c])'
<1>1. basis'[c] = {x \in r.seen : CategoryOf[x[1]] = c}
  BY DEF RecordDevices
<1>2. r.seen \subseteq Keys \X Statuses
  BY DEF TypeOK, Reports
<1>3. ASSUME NEW k \in Keys, CategoryOf[k] = c, k \in Reported(r)
      PROVE  row'[k] \in Statuses /\ <<k, row'[k]>> \in basis'[c]
  BY <1>1, <1>3, RecordRow, StatusesTyped
<1>4. ASSUME NEW k \in Keys, CategoryOf[k] = c, k \notin Reported(r)
      PROVE  row'[k] \notin Statuses /\ \A x \in basis'[c] : x[1] # k
  <2>1. CASE k \in Stale(r)
    BY <1>1, <1>4, <2>1, RecordRow, InventoryAssumption DEF Reported
  <2>2. CASE k \notin Stale(r)
    BY <1>1, <1>4, <2>2, RecordRow DEF Reported, Stale, Connected
  <2>3. QED
    BY <2>1, <2>2
<1>5. \A x \in basis'[c] : x[1] \in Keys /\ CategoryOf[x[1]] = c
  BY <1>1, <1>2
<1>6. ConnectedIn(c)' = {k \in Keys : CategoryOf[k] = c /\ row'[k] \in Statuses}
  BY DEF ConnectedIn, Connected
<1>7. \A k \in ConnectedIn(c)' : <<k, row'[k]>> \in basis'[c]
  BY <1>3, <1>4, <1>6
<1>8. ConnectedIn(c)' = {x[1] : x \in basis'[c]}
  <2>1. ASSUME NEW k \in ConnectedIn(c)'
        PROVE  \E x \in basis'[c] : x[1] = k
    <3>1. <<k, row'[k]>> \in basis'[c] /\ <<k, row'[k]>>[1] = k
      BY <1>7, <2>1
    <3>2. QED
      BY <3>1
  <2>2. ASSUME NEW x \in basis'[c]
        PROVE  x[1] \in ConnectedIn(c)'
    <3>1. x[1] \in Keys /\ CategoryOf[x[1]] = c
      BY <1>5, <2>2
    <3>2. x[1] \in Reported(r)
      BY <1>4, <2>2, <3>1
    <3>3. QED
      BY <1>3, <1>6, <3>1, <3>2
  <2>3. QED
    BY <2>1, <2>2
<1>9. QED
  BY <1>7, <1>8 DEF Shows

(* A category it does not cover keeps its rows.                            *)
LEMMA RecordSpares ==
  ASSUME TypeOK, Covered, InventoryIsBasis, NEW r \in inflight, RecordDevices(r),
         NEW c \in Categories, c \notin r.cats
  PROVE  Shows(c, basis[c])'
<1>1. basis'[c] = basis[c]
  BY DEF RecordDevices
<1>2. ASSUME NEW k \in Keys, CategoryOf[k] = c
      PROVE  row'[k] = row[k]
  <2>1. k \notin Reported(r)
    BY <1>2 DEF Covered, Reported
  <2>2. k \notin Stale(r)
    BY <1>2 DEF Stale
  <2>3. QED
    BY <2>1, <2>2, RecordRow
<1>3. ConnectedIn(c)' = ConnectedIn(c)
  BY <1>2 DEF ConnectedIn, Connected
<1>4. \A k \in ConnectedIn(c) : k \in Keys /\ CategoryOf[k] = c
  BY DEF ConnectedIn
<1>5. Shows(c, basis[c])
  BY DEF InventoryIsBasis
<1>6. QED
  BY <1>1, <1>2, <1>3, <1>4, <1>5 DEF Shows

-----------------------------------------------------------------------------
(* An empty inventory shows that no report has come.                       *)
LEMMA InventoryInit == Init => IInv
<1> SUFFICES ASSUME Init PROVE IInv
  OBVIOUS
<1>1. TypeOK
  BY InventoryAssumption DEF Init, TypeOK, Blank, Reports
<1>2. Covered /\ AskedOnce
  BY DEF Init, Covered, AskedOnce, Blank
<1>3. \A c \in Categories : ConnectedIn(c) = {} /\ basis[c] = {}
  BY InventoryAssumption DEF Init, ConnectedIn, Connected
<1>4. InventoryIsBasis
  BY <1>3 DEF InventoryIsBasis, Shows
<1>5. QED
  BY <1>1, <1>2, <1>4 DEF IInv

(* Only RecordDevices touches the tables; the other steps keep the types.  *)
LEMMA InventoryStep == IInv /\ [Next]_vars => IInv'
<1> SUFFICES ASSUME IInv, [Next]_vars PROVE IInv'
  OBVIOUS
<1> USE DEF IInv
<1>1. CASE UNCHANGED store
  <2>1. InventoryIsBasis'
    BY <1>1 DEF InventoryIsBasis, Shows, ConnectedIn, Connected, store
  <2> DEFINE kept == TypeOK' /\ Covered' /\ AskedOnce'
  <2>2. ASSUME NEW d \in Hardware, Plug(d) PROVE kept
    BY <2>2, InventoryAssumption
       DEF Plug, Change, loop, store, TypeOK, Covered, AskedOnce
  <2>3. ASSUME NEW d \in Hardware, Unplug(d) PROVE kept
    BY <2>3, InventoryAssumption
       DEF Unplug, Change, loop, store, TypeOK, Covered, AskedOnce
  <2>4. ASSUME NEW d \in Hardware, NEW s \in HealthOf[d], ChangeStatus(d, s)
        PROVE  kept
    <3>1. s \in Statuses
      BY DEF Statuses
    <3>2. QED
      BY <2>4, <3>1, InventoryAssumption
       DEF ChangeStatus, Change, loop, store, TypeOK, Covered, AskedOnce
  <2>5. ASSUME NEW c \in Categories, NEW ok \in BOOLEAN, Query(c, ok)
        PROVE  kept
    BY <2>5, QueryStep
  <2>6. ASSUME PostDevices PROVE kept
    BY <2>6, PostStep
  <2>7. ASSUME EndPost PROVE kept
    BY <2>7 DEF EndPost, TypeOK, Covered, AskedOnce, hardware, store
  <2>8. ASSUME NEW r \in inflight, LoseReport(r) PROVE kept
    BY <2>8 DEF LoseReport, TypeOK, Covered, AskedOnce, hardware, loop, store
  <2>9. ASSUME NEW r \in inflight, RecordDevices(r) PROVE kept
    BY <2>9, RecordTyped
  <2>10. ASSUME UNCHANGED vars PROVE kept
    BY <2>10 DEF vars, TypeOK, Covered, AskedOnce, hardware, loop, store
  <2>11. QED
    BY <2>1, <2>2, <2>3, <2>4, <2>5, <2>6, <2>7, <2>8, <2>9, <2>10 DEF Next
<1>2. ASSUME NEW r \in inflight, RecordDevices(r) PROVE IInv'
  <2>1. TypeOK' /\ Covered' /\ AskedOnce'
    BY <1>2, RecordTyped
  <2>2. \A c \in Categories : Shows(c, basis[c])'
    BY <1>2, RecordShows, RecordSpares
  <2>3. QED
    BY <2>1, <2>2 DEF InventoryIsBasis
<1>3. UNCHANGED store \/ \E r \in inflight : RecordDevices(r)
  BY DEF Next, vars, Plug, Unplug, ChangeStatus, Query, PostDevices, EndPost, LoseReport
<1>4. QED
  BY <1>1, <1>2, <1>3

(* The inventory is always that of the last reports (the two loops of      *)
(* RecordDevices).                                                         *)
THEOREM InventoryInvariant == Spec => []IInv
<1>1. QED
  BY InventoryInit, InventoryStep, PTL DEF Spec

(* The agent and the server never leave their types.                       *)
THEOREM InventoryTyped == Spec => []TypeOK
<1>1. IInv => TypeOK
  BY DEF IInv
<1>2. QED
  BY <1>1, InventoryInvariant, PTL

(* Each category of device_states shows what was there when the last       *)
(* report that covers it was collected, for any hardware, any number of    *)
(* reports under way, lost or late, and any shared keys.                   *)
THEOREM InventoryTrue == Spec => []InventoryIsBasis
<1>1. IInv => InventoryIsBasis
  BY DEF IInv
<1>2. QED
  BY <1>1, InventoryInvariant, PTL

-----------------------------------------------------------------------------
(* The events of a report are those of the rows it changes, one by one.    *)
LEMMA RecordNews ==
  ASSUME TypeOK, NEW r \in inflight, RecordDevices(r), NEW k \in Keys
  PROVE  /\ <<k, "connected">> \in news' <=> ~Connected(k) /\ Connected(k)'
         /\ <<k, "disconnected">> \in news' <=> Connected(k) /\ ~Connected(k)'
         /\ row'[k] # row[k] => \E x \in news' : x[1] = k
<1>1. Connected(k)' <=> row'[k] \in Statuses
  BY DEF Connected
<1>2. news' = NewsOf(r)
  BY DEF RecordDevices
<1>3. \A e : <<k, e>> \in NewsOf(r) <=>
         \/ e = "connected" /\ k \in Reported(r) /\ ~Connected(k)
         \/ /\ e = "changed" /\ k \in Reported(r)
            /\ \/ \E s, t \in StatusesOf(r, k) : s # t
               \/ Connected(k) /\ row[k] \notin StatusesOf(r, k)
         \/ e = "disconnected" /\ k \in Stale(r)
  BY DEF NewsOf
<1>4. k \in Stale(r) => Connected(k) /\ k \notin Reported(r)
  BY DEF Stale
<1>5. ~("off" \in Statuses)
  BY InventoryAssumption
<1>6. CASE k \in Reported(r)
  <2>1. row'[k] \in StatusesOf(r, k) /\ row'[k] \in Statuses
    BY <1>6, RecordRow, StatusesTyped
  <2>2. Connected(k)' /\ k \notin Stale(r)
    BY <1>1, <1>4, <1>6, <2>1
  <2>3. ASSUME Connected(k), row'[k] # row[k] PROVE <<k, "changed">> \in news'
    BY <1>2, <1>3, <1>6, <2>1, <2>3
  <2>4. row'[k] # row[k] => <<k, "connected">> \in news' \/ <<k, "changed">> \in news'
    BY <1>2, <1>3, <1>6, <2>3
  <2>5. row'[k] # row[k] => \E x \in news' : x[1] = k
    BY <2>4
  <2>6. <<k, "connected">> \in news' <=> ~Connected(k)
    BY <1>2, <1>3, <1>6
  <2>7. <<k, "disconnected">> \notin news'
    BY <1>2, <1>3, <2>2
  <2>8. QED
    BY <2>2, <2>5, <2>6, <2>7
<1>7. CASE k \in Stale(r)
  <2>1. row'[k] = "off" /\ Connected(k) /\ k \notin Reported(r)
    BY <1>4, <1>7, RecordRow
  <2>2. ~(Connected(k)')
    BY <1>1, <1>5, <2>1
  <2>3. <<k, "disconnected">> \in news' /\ <<k, "connected">> \notin news'
    BY <1>2, <1>3, <1>7, <2>1
  <2>4. \E x \in news' : x[1] = k
    BY <2>3
  <2>5. QED
    BY <2>1, <2>2, <2>3, <2>4
<1>8. CASE k \notin Reported(r) /\ k \notin Stale(r)
  <2>1. row'[k] = row[k]
    BY <1>8, RecordRow
  <2>2. Connected(k)' <=> Connected(k)
    BY <1>1, <2>1 DEF Connected
  <2>3. <<k, "disconnected">> \notin news' /\ <<k, "connected">> \notin news'
    BY <1>2, <1>3, <1>8
  <2>4. QED
    BY <2>1, <2>2, <2>3
<1>9. QED
  BY <1>6, <1>7, <1>8

(* Whatever the reports say and however late they come, device_events      *)
(* tells each connection and disconnection of device_states and no other.  *)
THEOREM TimelineMatchesInventory == Spec => NewsMatchesTable
<1>1. IInv => TypeOK
  BY DEF IInv
<1>2. ASSUME TypeOK, [Next]_vars, <<row, news>>' # <<row, news>>
      PROVE  \E r \in inflight : RecordDevices(r)
  BY <1>2 DEF Next, vars, store, Plug, Unplug, ChangeStatus, Query, PostDevices, EndPost,
     LoseReport
<1>3. TypeOK /\ [Next]_vars =>
        [<<row, news>>' # <<row, news>> =>
           \A k \in Keys :
              /\ <<k, "connected">> \in news' <=> ~Connected(k) /\ Connected(k)'
              /\ <<k, "disconnected">> \in news' <=> Connected(k) /\ ~Connected(k)'
              /\ row'[k] # row[k] => \E x \in news' : x[1] = k]_vars
  <2> SUFFICES ASSUME TypeOK, [Next]_vars, <<row, news>>' # <<row, news>>
               PROVE  \A k \in Keys :
              /\ <<k, "connected">> \in news' <=> ~Connected(k) /\ Connected(k)'
              /\ <<k, "disconnected">> \in news' <=> Connected(k) /\ ~Connected(k)'
              /\ row'[k] # row[k] => \E x \in news' : x[1] = k
    OBVIOUS
  <2>1. PICK r \in inflight : RecordDevices(r)
    BY <1>2
  <2>2. QED
    BY <2>1, RecordNews
<1>4. QED
  BY <1>1, <1>3, InventoryInvariant, PTL DEF Spec, NewsMatchesTable

-----------------------------------------------------------------------------
(* The reports under way that tell of category c what is not so any more,  *)
(* and whether the collection at hand will be one of them.                 *)
Outdated(c) == {r \in inflight : c \in r.cats /\ Told(r, c) # View(c)}

DraftOutdated(c) == c \in draft.cats /\ Told(draft, c) # View(c)

(* A report holds a device of each category it covers, unless a nameless   *)
(* device of that category may be all that was listed.                     *)
Filled == \A r \in inflight \cup {draft} : \A c \in r.cats :
             c \notin Emptiable => Told(r, c) # {}

(* A nameless device is the only one that is listed and not reported.      *)
LEMMA ListedIsViewed ==
  ASSUME TypeOK, NEW c \in Categories, Listed(c) # {}
  PROVE  View(c) # {} \/ c \in Emptiable
<1>1. PICK d \in plugged : d \in Hardware /\ CategoryOf[KeyOf[d]] = c
  BY DEF Listed, TypeOK
<1>2. CASE d \in Nameless
  BY <1>1, <1>2 DEF Emptiable
<1>3. CASE d \notin Nameless
  <2>1. d \in Listed(c) \ Nameless
    BY <1>1, <1>3 DEF Listed
  <2>2. <<KeyOf[d], health[d]>> \in View(c)
    BY <2>1 DEF View
  <2>3. QED
    BY <2>2
<1>4. QED
  BY <1>2, <1>3

(* A query that changes the draft tells of its category what is there, and *)
(* leaves what the draft tells of the others.                              *)
LEMMA QueryTells ==
  ASSUME TypeOK, Covered, AskedOnce,
         NEW c \in Categories, NEW ok \in BOOLEAN, Query(c, ok), draft' # draft
  PROVE  /\ c \notin draft.cats /\ draft'.cats = draft.cats \cup {c}
         /\ Told(draft', c) = View(c)
         /\ View(c) # {} \/ c \in Emptiable
         /\ \A b \in draft.cats : Told(draft', b) = Told(draft, b)
<1>1. /\ c \notin draft.cats /\ Listed(c) # {}
      /\ draft'.cats = draft.cats \cup {c}
      /\ draft'.seen = draft.seen \cup View(c)
  BY QueryDraft
<1>2. \A x \in draft.seen : CategoryOf[x[1]] \in draft.cats
  BY DEF Covered
<1>3. \A x \in View(c) : CategoryOf[x[1]] = c
  BY ViewTyped
<1>4. \A x : x \in Told(draft', c) <=> x \in View(c)
  BY <1>1, <1>2, <1>3 DEF Told
<1>5. ASSUME NEW b \in draft.cats PROVE Told(draft', b) = Told(draft, b)
  BY <1>1, <1>3 DEF Told
<1>6. View(c) # {} \/ c \in Emptiable
  BY <1>1, ListedIsViewed
<1>7. QED
  BY <1>1, <1>4, <1>5, <1>6

(* Only a query changes the draft of a collection that goes on, and only   *)
(* the end of a collection adds a report, which is its draft.              *)
LEMMA OnlyQueryDrafts ==
  ASSUME [Next]_vars
  PROVE  \/ draft' = draft \/ draft' = Blank
         \/ \E c \in Categories, ok \in BOOLEAN : Query(c, ok)
BY DEF Next, vars, loop, Plug, Unplug, ChangeStatus, PostDevices, EndPost, LoseReport,
   RecordDevices

LEMMA OnlyPostAdds ==
  ASSUME [Next]_vars
  PROVE  inflight' \subseteq inflight \cup {draft}
BY DEF Next, vars, Plug, Unplug, ChangeStatus, Query, PostDevices, EndPost, LoseReport,
   RecordDevices

(* No report covers a category it tells nothing of, but for one that can   *)
(* hold nameless devices.                                                  *)
LEMMA FilledInvariant == Spec => []Filled
<1>1. Init => Filled
  BY DEF Init, Filled, Blank
<1>2. IInv /\ Filled /\ [Next]_vars => Filled'
  <2> SUFFICES ASSUME IInv, Filled, [Next]_vars, NEW r \in (inflight \cup {draft})',
                      NEW c \in r.cats, c \notin Emptiable
               PROVE  Told(r, c) # {}
    BY DEF Filled, Told, Emptiable
  <2> USE DEF IInv
  <2>1. CASE r \in inflight \cup {draft}
    BY <2>1 DEF Filled
  <2>2. CASE r \notin inflight \cup {draft}
    <3>1. r = draft' /\ draft' # draft
      BY <2>2, OnlyPostAdds
    <3>2. r # Blank
      BY DEF Blank
    <3>3. PICK b \in Categories, ok \in BOOLEAN : Query(b, ok)
      BY <3>1, <3>2, OnlyQueryDrafts
    <3>4. CASE c = b
      BY <3>1, <3>3, <3>4, QueryTells
    <3>5. CASE c # b
      <4>1. c \in draft.cats /\ Told(r, c) = Told(draft, c)
        BY <3>1, <3>3, <3>5, QueryTells
      <4>2. QED
        BY <4>1 DEF Filled
    <3>6. QED
      BY <3>4, <3>5
  <2>3. QED
    BY <2>1, <2>2
<1>3. QED
  BY <1>1, <1>2, InventoryInvariant, PTL DEF Spec

(* Only RecordDevices touches the inventory.                               *)
LEMMA OnlyRecordStores ==
  ASSUME [Next]_vars
  PROVE  UNCHANGED store \/ \E r \in inflight : RecordDevices(r)
BY DEF Next, vars, Plug, Unplug, ChangeStatus, Query, PostDevices, EndPost, LoseReport

(* A category without nameless devices that shows a device never shows     *)
(* none again: a report that could empty it does not cover it (the empty   *)
(* list that collectPowerShell takes for a failure).                       *)
LEMMA NeverEmptiedStep ==
  ASSUME TypeOK, Covered, InventoryIsBasis, Filled, [Next]_vars,
         NEW c \in Categories, c \notin Emptiable, ConnectedIn(c) # {}
  PROVE  ConnectedIn(c)' # {}
<1>1. CASE UNCHANGED store
  BY <1>1 DEF store, ConnectedIn, Connected
<1>2. ASSUME NEW r \in inflight, RecordDevices(r), c \in r.cats
      PROVE  ConnectedIn(c)' # {}
  <2>1. basis'[c] # {}
    BY <1>2 DEF RecordDevices, Filled, Told
  <2>2. Shows(c, basis[c])'
    BY <1>2, RecordShows
  <2>3. QED
    BY <2>1, <2>2 DEF Shows
<1>3. ASSUME NEW r \in inflight, RecordDevices(r), c \notin r.cats
      PROVE  ConnectedIn(c)' # {}
  <2>1. basis'[c] = basis[c]
    BY <1>3 DEF RecordDevices
  <2>2. Shows(c, basis[c])'
    BY <1>3, RecordSpares
  <2>3. Shows(c, basis[c])
    BY DEF InventoryIsBasis
  <2>4. QED
    BY <2>1, <2>2, <2>3 DEF Shows
<1>4. QED
  BY <1>1, <1>2, <1>3, OnlyRecordStores

(* Once a device of a category was shown some device of it always is,      *)
(* whatever is unplugged: TLC's counterexample to UnpluggedDisappears is   *)
(* not a late repair but the end of the story.  The disks are such a       *)
(* category: a disk without a model is called "Disco".                     *)
THEOREM NeverEmptied ==
  ASSUME NEW b \in Categories, b \notin Emptiable
  PROVE  Spec => [](ConnectedIn(b) # {} => [](ConnectedIn(b) # {}))
<1>1. IInv /\ Filled /\ [Next]_vars => (ConnectedIn(b) # {} => (ConnectedIn(b) # {})')
  BY NeverEmptiedStep DEF IInv
<1>2. QED
  BY <1>1, InventoryInvariant, FilledInvariant, PTL DEF Spec

(* So a behaviour in which the last device of a category is unplugged for  *)
(* good after it was shown refutes what app_test.go expects of the         *)
(* inventory, under any fairness.                                          *)
COROLLARY LastDeviceStays ==
  ASSUME NEW b \in Categories, b \notin Emptiable
  PROVE  Spec /\ <>(ConnectedIn(b) # {} /\ [](View(b) = {})) => ~UnpluggedDisappears
<1>1. Spec => [](ConnectedIn(b) # {} => [](ConnectedIn(b) # {}))
  BY NeverEmptied
<1>2. View(b) = {} /\ ConnectedIn(b) # {} => ~(\A c \in Categories : Agrees(c))
  BY DEF Agrees, Shows
<1> DEFINE shown == ConnectedIn(b) # {}
           gone == View(b) = {}
           right == \A c \in Categories : Agrees(c)
<1>3. Spec => [](shown => []shown)
  BY <1>1, PTL
<1>4. gone /\ shown => ~right
  BY <1>2
<1> HIDE DEF shown, gone, right
<1>5. Spec /\ <>(shown /\ []gone) => ~<>[]right
  BY <1>3, <1>4, PTL
<1>6. QED
  BY <1>5, PTL DEF shown, gone, right, UnpluggedDisappears

-----------------------------------------------------------------------------
(* A report that is applied leaves category c, if it covers it, with what  *)
(* it tells of c, and as it was if it does not.                            *)
LEMMA RecordedCategory ==
  ASSUME TypeOK, Covered, InventoryIsBasis, NEW c \in Categories,
         NEW r \in inflight, RecordDevices(r)
  PROVE  /\ c \in r.cats => Shows(c, Told(r, c))'
         /\ c \notin r.cats => \A k \in Keys : CategoryOf[k] = c => row'[k] = row[k]
         /\ View(c)' = View(c)
<1>1. ASSUME c \in r.cats PROVE Shows(c, Told(r, c))'
  <2>1. basis'[c] = Told(r, c)
    BY <1>1 DEF RecordDevices, Told
  <2>2. Shows(c, basis[c])'
    BY <1>1, RecordShows
  <2>3. QED
    BY <2>1, <2>2 DEF Shows, Told
<1>2. ASSUME c \notin r.cats, NEW k \in Keys, CategoryOf[k] = c
      PROVE  row'[k] = row[k]
  BY <1>2, RecordRow DEF Covered, Reported, Stale
<1>3. View(c)' = View(c)
  BY DEF RecordDevices, hardware, View, Listed
<1>4. QED
  BY <1>1, <1>2, <1>3

(* The rows of category c alone tell what it shows.                        *)
LEMMA AgreesByRows ==
  ASSUME NEW c \in Categories, View(c)' = View(c),
         \A k \in Keys : CategoryOf[k] = c => row'[k] = row[k]
  PROVE  Agrees(c)' <=> Agrees(c)
<1>1. ConnectedIn(c)' = ConnectedIn(c)
  BY DEF ConnectedIn, Connected
<1>2. \A k \in ConnectedIn(c) : row'[k] = row[k]
  BY DEF ConnectedIn
<1>3. QED
  BY <1>1, <1>2 DEF Agrees, Shows

(* What a step that leaves the hardware alone does to category c: only a   *)
(* report that asked before the hardware changed makes it wrong again,     *)
(* each such report does so once, and no new ones appear but the one that  *)
(* was being collected.  This is why the next good report repairs the      *)
(* inventory for good once the late ones are gone.                         *)
Spoils(c) == \E r \in Outdated(c) : RecordDevices(r) /\ r \notin Outdated(c)'

(* Late reports do not multiply while the hardware rests.                  *)
LEMMA OutdatedShrinks ==
  ASSUME TypeOK, Covered, AskedOnce, [Next]_vars, UNCHANGED hardware, NEW c \in Categories
  PROVE  /\ DraftOutdated(c)' => DraftOutdated(c)
         /\ ~DraftOutdated(c) => Outdated(c)' \subseteq Outdated(c)
<1>1. View(c)' = View(c)
  BY DEF hardware, View, Listed
<1>2. ASSUME DraftOutdated(c)' PROVE DraftOutdated(c)
  <2>1. c \in draft'.cats /\ Told(draft', c) # View(c)
    BY <1>1, <1>2 DEF DraftOutdated, Told
  <2>2. CASE draft' = draft
    BY <2>1, <2>2 DEF DraftOutdated
  <2>3. ASSUME draft' # draft, NEW b \in Categories, NEW ok \in BOOLEAN, Query(b, ok)
        PROVE  DraftOutdated(c)
    <3>1. c # b
      BY <2>1, <2>3, QueryTells
    <3>2. c \in draft.cats /\ Told(draft', c) = Told(draft, c)
      BY <2>1, <2>3, <3>1, QueryTells
    <3>3. QED
      BY <2>1, <3>2 DEF DraftOutdated
  <2>4. draft' # Blank
    BY <2>1 DEF Blank
  <2>5. QED
    BY <2>2, <2>3, <2>4, OnlyQueryDrafts
<1>3. ASSUME ~DraftOutdated(c), NEW r \in Outdated(c)' PROVE r \in Outdated(c)
  <2>1. r \in inflight' /\ c \in r.cats /\ Told(r, c) # View(c)
    BY <1>1, <1>3 DEF Outdated, Told
  <2>2. r # draft
    BY <1>3, <2>1 DEF DraftOutdated
  <2>3. QED
    BY <2>1, <2>2, OnlyPostAdds DEF Outdated
<1>4. QED
  BY <1>2, <1>3

(* The safety part of Converges: with the hardware at rest, a category     *)
(* that agrees with it is only spoiled by a report that asked for it       *)
(* before the last change; such reports only become fewer once the         *)
(* collection of the moment of that change is posted.                      *)
THEOREM OnlyLateReportsSpoil ==
  ASSUME NEW c \in Categories
  PROVE  Spec => [][UNCHANGED hardware =>
                      /\ DraftOutdated(c)' => DraftOutdated(c)
                      /\ ~DraftOutdated(c) => Outdated(c)' \subseteq Outdated(c)
                      /\ Agrees(c) /\ ~Agrees(c)' => Spoils(c)]_vars
<1>1. IInv /\ [Next]_vars => [UNCHANGED hardware =>
                      /\ DraftOutdated(c)' => DraftOutdated(c)
                      /\ ~DraftOutdated(c) => Outdated(c)' \subseteq Outdated(c)
                      /\ Agrees(c) /\ ~Agrees(c)' => Spoils(c)]_vars
  <2> SUFFICES ASSUME IInv, [Next]_vars, UNCHANGED hardware
               PROVE  /\ DraftOutdated(c)' => DraftOutdated(c)
                      /\ ~DraftOutdated(c) => Outdated(c)' \subseteq Outdated(c)
                      /\ Agrees(c) /\ ~Agrees(c)' => Spoils(c)
    OBVIOUS
  <2> USE DEF IInv
  <2>1. /\ DraftOutdated(c)' => DraftOutdated(c)
        /\ ~DraftOutdated(c) => Outdated(c)' \subseteq Outdated(c)
    BY OutdatedShrinks
  <2>2. ASSUME Agrees(c), ~Agrees(c)' PROVE Spoils(c)
    <3>1. View(c)' = View(c)
      BY DEF hardware, View, Listed
    <3>2. ~UNCHANGED store
      BY <2>2, <3>1, AgreesByRows DEF store
    <3>3. PICK r \in inflight : RecordDevices(r)
      BY <3>2, OnlyRecordStores
    <3>4. c \in r.cats
      BY <2>2, <3>1, <3>3, RecordedCategory, AgreesByRows
    <3>5. Shows(c, Told(r, c))'
      BY <3>3, <3>4, RecordedCategory
    <3>6. Told(r, c) # View(c)
      BY <2>2, <3>1, <3>5 DEF Agrees, Shows, Told
    <3>7. r \notin inflight'
      BY <3>3 DEF RecordDevices
    <3>8. QED
      BY <3>3, <3>4, <3>6, <3>7 DEF Spoils, Outdated
  <2>3. QED
    BY <2>1, <2>2
<1>2. QED
  BY <1>1, InventoryInvariant, PTL DEF Spec

(* The report that covers category c and is up to date when it is applied. *)
Refreshes(c) == \E r \in inflight : /\ c \in r.cats
                                    /\ r \notin Outdated(c)
                                    /\ RecordDevices(r)

(* An up-to-date report repairs every category it covers, whatever earlier *)
(* or late reports made of it.                                             *)
THEOREM FreshReportRepairs ==
  ASSUME NEW c \in Categories
  PROVE  Spec => [][Refreshes(c) => Agrees(c)']_vars
<1>1. IInv /\ [Next]_vars => [Refreshes(c) => Agrees(c)']_vars
  <2> SUFFICES ASSUME IInv, NEW r \in inflight, c \in r.cats, r \notin Outdated(c),
                      RecordDevices(r)
               PROVE  Agrees(c)'
    BY DEF Refreshes
  <2>1. Told(r, c) = View(c)
    BY DEF Outdated
  <2>2. Shows(c, Told(r, c))' /\ View(c)' = View(c)
    BY RecordedCategory DEF IInv
  <2>3. QED
    BY <2>1, <2>2 DEF Agrees, Shows, Told
<1>2. QED
  BY <1>1, InventoryInvariant, PTL DEF Spec

(* What is left of Converges for the schedule to provide: once the         *)
(* hardware rests, if the late reports are gone at some time, the one that *)
(* was being collected included, and reports that cover the category keep  *)
(* being applied, it ends up right for good.                               *)
THEOREM RestedCategoryConverges ==
  ASSUME NEW c \in Categories
  PROVE  /\ Spec
         /\ <>[][FALSE]_hardware
         /\ []<>(Outdated(c) = {} /\ ~DraftOutdated(c))
         /\ []<><<\E r \in inflight : c \in r.cats /\ RecordDevices(r)>>_vars
         => <>[]Agrees(c)
<1> DEFINE clear == Outdated(c) = {} /\ ~DraftOutdated(c)
           right == Agrees(c)
           rest == UNCHANGED hardware
           covers == \E r \in inflight : c \in r.cats /\ RecordDevices(r)
<1>1. IInv /\ [Next]_vars /\ rest /\ clear => clear'
  BY OutdatedShrinks DEF IInv
<1>2. IInv /\ [Next]_vars /\ rest /\ clear /\ right => right'
  <2> SUFFICES ASSUME IInv, [Next]_vars, rest, clear, right PROVE right'
    OBVIOUS
  <2>1. View(c)' = View(c)
    BY DEF hardware, View, Listed
  <2>2. CASE UNCHANGED store
    BY <2>1, <2>2, AgreesByRows DEF store
  <2>3. ASSUME NEW r \in inflight, RecordDevices(r), c \in r.cats PROVE right'
    <3>1. Told(r, c) = View(c) /\ Shows(c, Told(r, c))'
      BY <2>3, RecordedCategory DEF Outdated, IInv
    <3>2. QED
      BY <2>1, <3>1 DEF Agrees, Shows, Told
  <2>4. ASSUME NEW r \in inflight, RecordDevices(r), c \notin r.cats PROVE right'
    BY <2>1, <2>4, RecordedCategory, AgreesByRows DEF IInv
  <2>5. QED
    BY <2>2, <2>3, <2>4, OnlyRecordStores
<1>3. IInv /\ covers /\ clear => right'
  <2> SUFFICES ASSUME IInv, clear, NEW r \in inflight, c \in r.cats, RecordDevices(r)
               PROVE  right'
    OBVIOUS
  <2>1. Told(r, c) = View(c) /\ Shows(c, Told(r, c))' /\ View(c)' = View(c)
    BY RecordedCategory DEF Outdated, IInv
  <2>2. QED
    BY <2>1 DEF Agrees, Shows, Told
<1>4. [FALSE]_hardware => rest
  OBVIOUS
<1> HIDE DEF clear, right, covers
<1>5. Spec /\ <>[][FALSE]_hardware /\ []<>clear /\ []<><<covers>>_vars => <>[]right
  BY <1>1, <1>2, <1>3, InventoryInvariant, PTL DEF Spec
<1>6. QED
  BY <1>5, PTL DEF clear, right, covers

-----------------------------------------------------------------------------
(* A report that tells nothing new: all it covers is up to date and shown. *)
Redundant(r) == \A c \in r.cats : r \notin Outdated(c) /\ Agrees(c)

(* What a redundant report says of a key is what its row shows.            *)
LEMMA RedundantRow ==
  ASSUME TypeOK, Covered, NEW r \in inflight, Redundant(r), ~Ambiguous,
         NEW k \in Keys
  PROVE  /\ k \in Reported(r) => Connected(k) /\ StatusesOf(r, k) = {row[k]}
         /\ k \notin Stale(r)
<1> DEFINE c == CategoryOf[k]
<1>0. c \in Categories
  BY InventoryAssumption
<1>1. ASSUME c \in r.cats
      PROVE  /\ Told(r, c) = View(c)
             /\ ConnectedIn(c) = {x[1] : x \in View(c)}
             /\ \A j \in ConnectedIn(c) : <<j, row[j]>> \in View(c)
  BY <1>1 DEF Redundant, Outdated, Agrees, Shows
<1>2. ASSUME NEW s, <<k, s>> \in r.seen
      PROVE  c \in r.cats /\ <<k, s>> \in View(c)
  <2>1. CategoryOf[<<k, s>>[1]] = c
    OBVIOUS
  <2>2. c \in r.cats /\ <<k, s>> \in Told(r, c)
    BY <1>2, <2>1 DEF Covered, Told
  <2>3. QED
    BY <1>1, <2>2
<1>3. ASSUME NEW s, NEW t, <<k, s>> \in View(c), <<k, t>> \in View(c)
      PROVE  s = t
  <2>1. PICK d \in plugged \ Nameless : <<k, s>> = <<KeyOf[d], health[d]>>
    BY <1>3 DEF View, Listed
  <2>2. PICK e \in plugged \ Nameless : <<k, t>> = <<KeyOf[e], health[e]>>
    BY <1>3 DEF View, Listed
  <2>3. QED
    BY <2>1, <2>2 DEF Ambiguous
<1>4. ASSUME k \in Reported(r)
      PROVE  Connected(k) /\ StatusesOf(r, k) = {row[k]}
  <2>1. PICK s \in Statuses : <<k, s>> \in r.seen
    BY <1>4, StatusesTyped
  <2>2. c \in r.cats /\ <<k, s>> \in View(c)
    BY <1>2, <2>1
  <2>3. k \in ConnectedIn(c) /\ <<k, row[k]>> \in View(c)
    <3>1. <<k, s>>[1] = k
      OBVIOUS
    <3>2. k \in {x[1] : x \in View(c)}
      BY <2>2, <3>1
    <3>3. QED
      BY <1>1, <2>2, <3>2
  <2>4. \A t : t \in StatusesOf(r, k) => t = row[k]
    BY <1>2, <1>3, <2>3, StatusesTyped
  <2>5. s \in StatusesOf(r, k)
    BY <2>1, StatusesTyped
  <2>6. QED
    BY <2>3, <2>4, <2>5 DEF ConnectedIn
<1>5. ASSUME k \in Stale(r) PROVE FALSE
  <2>1. c \in r.cats /\ k \in ConnectedIn(c) /\ k \notin Reported(r)
    BY <1>5 DEF Stale, ConnectedIn
  <2>2. <<k, row[k]>> \in r.seen
    BY <1>1, <2>1 DEF Told
  <2>3. <<k, row[k]>>[1] = k
    OBVIOUS
  <2>4. QED
    BY <2>1, <2>2, <2>3 DEF Reported
<1>6. QED
  BY <1>4, <1>5

(* The safety part of EventuallyQuiet: while no two devices of one key     *)
(* report different statuses, a report that tells what is shown already    *)
(* changes no status and inserts no event (RecordDevices compares before   *)
(* it writes).                                                             *)
THEOREM RedundantReportIsSilent ==
  Spec => [][\A r \in inflight :
               ~Ambiguous /\ Redundant(r) /\ RecordDevices(r) =>
                  news' = {} /\ row' = row]_vars
<1>1. IInv /\ [Next]_vars =>
        [\A r \in inflight : ~Ambiguous /\ Redundant(r) /\ RecordDevices(r) =>
                  news' = {} /\ row' = row]_vars
  <2> SUFFICES ASSUME IInv, NEW r \in inflight, ~Ambiguous, Redundant(r), RecordDevices(r)
               PROVE  news' = {} /\ row' = row
    OBVIOUS
  <2>1. \A k \in Keys : /\ k \in Reported(r) => /\ Connected(k)
                                                /\ StatusesOf(r, k) = {row[k]}
                        /\ k \notin Stale(r)
    BY RedundantRow DEF IInv
  <2>2. Reported(r) \subseteq Keys /\ Stale(r) = {}
    BY <2>1 DEF Reported, Stale, IInv, TypeOK, Reports
  <2>3. news' = NewsOf(r)
    BY DEF RecordDevices
  <2>4. NewsOf(r) = {}
    BY <2>1, <2>2 DEF NewsOf
  <2>5. \A k \in Keys : row'[k] = row[k]
    BY <2>1, <2>2, RecordRow DEF IInv
  <2>6. row' \in [Keys -> Statuses \cup {"absent", "off"}] /\ row \in [Keys -> Statuses \cup {"absent", "off"}]
    BY RecordFunction DEF IInv, TypeOK
  <2>7. QED
    BY <2>3, <2>4, <2>5, <2>6
<1>2. QED
  BY <1>1, InventoryInvariant, PTL DEF Spec

-----------------------------------------------------------------------------
(* Two reports under way with one snapshot are one report.                 *)
LEMMA SnapshotIsReport ==
  ASSUME TypeOK, Covered, NEW q \in inflight, NEW r \in inflight,
         Snapshot(q) = Snapshot(r)
  PROVE  q = r
<1>1. q \in Reports /\ r \in Reports
  BY DEF TypeOK
<1>2. q.cats = r.cats
  <2>1. DOMAIN Snapshot(q) = q.cats /\ DOMAIN Snapshot(r) = r.cats
    BY DEF Snapshot
  <2>2. QED
    BY <2>1
<1>3. \A c \in r.cats : Told(q, c) = Told(r, c)
  BY <1>2 DEF Snapshot
<1>4. \A x : x \in q.seen <=> x \in r.seen
  BY <1>2, <1>3 DEF Covered, Told
<1>5. QED
  BY <1>1, <1>2, <1>4 DEF Reports

(* Taking a report from the wire takes its snapshot from the register's.   *)
LEMMA SnapshotLeaves ==
  ASSUME TypeOK, Covered, NEW r \in inflight, inflight' = inflight \ {r}
  PROVE  Snapshot(r) \in Taken /\ Taken' = Taken \ {Snapshot(r)}
<1>1. \A q : Snapshot(q)' = Snapshot(q)
  BY DEF Snapshot, Told
<1>2. \A q \in inflight : q # r => Snapshot(q) # Snapshot(r)
  BY SnapshotIsReport
<1>3. Taken' = {Snapshot(q) : q \in inflight \ {r}}
  BY <1>1 DEF Taken
<1>4. QED
  BY <1>2, <1>3 DEF Taken

(* What there is and what is shown are contents of registers.              *)
LEMMA WorldTyped ==
  ASSUME TypeOK
  PROVE  /\ World \in [Categories -> SUBSET (Keys \X Statuses)]
         /\ Shown \in [Categories -> SUBSET (Keys \X Statuses)]
<1>1. World \in [Categories -> SUBSET (Keys \X Statuses)]
  BY ViewTyped DEF World
<1>2. \A c \in Categories : \A k \in ConnectedIn(c) : k \in Keys /\ row[k] \in Statuses
  BY DEF ConnectedIn, Connected
<1>3. QED
  BY <1>1, <1>2 DEF Shown

(* So they are in the next state, when its types are right.                *)
LEMMA WorldTypedNext ==
  TypeOK' => /\ World' \in [Categories -> SUBSET (Keys \X Statuses)]
             /\ Shown' \in [Categories -> SUBSET (Keys \X Statuses)]
<1>1. TypeOK => /\ World \in [Categories -> SUBSET (Keys \X Statuses)]
                /\ Shown \in [Categories -> SUBSET (Keys \X Statuses)]
  BY WorldTyped
<1>2. (TypeOK => /\ World \in [Categories -> SUBSET (Keys \X Statuses)]
                 /\ Shown \in [Categories -> SUBSET (Keys \X Statuses)])'
  BY <1>1, PTL
<1>3. QED
  BY <1>2

(* Changing hardware changes only what there is.                           *)
LEMMA ChangeSimulates ==
  ASSUME TypeOK', UNCHANGED <<loop, inflight, store>>
  PROVE  Register!Change
<1>1. World' \in [Categories -> SUBSET (Keys \X Statuses)]
  BY WorldTypedNext
<1>2. Taken' = Taken
  BY DEF Taken, Snapshot, Told
<1>3. Shown' = Shown /\ Snapshot(draft)' = Snapshot(draft)
  BY DEF Shown, ConnectedIn, Connected, store, Snapshot, Told, loop
<1>4. QED
  BY <1>1, <1>2, <1>3 DEF Register!Change

(* A query that answers looks at its category, one that fails does nothing. *)
LEMMA QuerySimulates ==
  ASSUME TypeOK, Covered, AskedOnce,
         NEW c \in Categories, NEW ok \in BOOLEAN, Query(c, ok)
  PROVE  Register!Look(c) \/ UNCHANGED Register!rvars
<1>1. UNCHANGED <<hardware, inflight, store>>
  BY DEF Query
<1>2. World' = World /\ Taken' = Taken /\ Shown' = Shown
  BY <1>1 DEF World, View, Listed, hardware, Taken, Snapshot, Told, Shown, ConnectedIn,
     Connected, store
<1>3. \A r : DOMAIN Snapshot(r) = r.cats /\ \A b \in r.cats : Snapshot(r)[b] = Told(r, b)
  BY DEF Snapshot
<1>4. Snapshot(draft)' = Snapshot(draft')
  BY DEF Snapshot, Told
<1>5. CASE draft' = draft
  BY <1>2, <1>4, <1>5 DEF Register!rvars
<1>6. CASE draft' # draft
  <2>1. /\ c \notin draft.cats /\ draft'.cats = draft.cats \cup {c}
        /\ Told(draft', c) = View(c)
        /\ View(c) # {} \/ c \in Emptiable
        /\ \A b \in draft.cats : Told(draft', b) = Told(draft, b)
    BY <1>6, QueryTells
  <2>2. World[c] = View(c)
    BY DEF World
  <2>3. Snapshot(draft') = [b \in DOMAIN Snapshot(draft) \cup {c} |->
                              IF b = c THEN World[c] ELSE Snapshot(draft)[b]]
    <3>1. \A b \in draft'.cats :
             Told(draft', b) = IF b = c THEN World[c] ELSE Snapshot(draft)[b]
      BY <1>3, <2>1, <2>2
    <3>2. Snapshot(draft') = [b \in draft'.cats |->
                                IF b = c THEN World[c] ELSE Snapshot(draft)[b]]
      BY <3>1 DEF Snapshot
    <3>3. QED
      BY <1>3, <2>1, <3>2
  <2>4. QED
    BY <1>2, <1>3, <1>4, <2>1, <2>2, <2>3 DEF Register!Look
<1>7. QED
  BY <1>5, <1>6

(* Posting makes the draft a snapshot that may be put.                     *)
LEMMA PostSimulates ==
  ASSUME PostDevices
  PROVE  Register!Take
<1>1. inflight' = inflight \cup {draft} /\ draft' = Blank /\ UNCHANGED <<hardware, store>>
  BY DEF PostDevices
<1>2. \A q : Snapshot(q)' = Snapshot(q)
  BY DEF Snapshot, Told
<1>3. Taken' = Taken \cup {Snapshot(draft)}
  BY <1>1, <1>2 DEF Taken
<1>4. Snapshot(draft)' = Register!Nothing
  BY <1>1 DEF Snapshot, Told, Blank, Register!Nothing
<1>5. World' = World /\ Shown' = Shown
  BY <1>1 DEF World, View, Listed, hardware, Shown, ConnectedIn, Connected, store
<1>6. QED
  BY <1>3, <1>4, <1>5 DEF Register!Take

(* The register of a category the report covers takes one status for each  *)
(* key of the snapshot.                                                    *)
LEMMA ShowsIsOnePerKey ==
  ASSUME NEW c \in Categories, NEW V,
         ConnectedIn(c)' = {x[1] : x \in V},
         \A k \in ConnectedIn(c)' : <<k, row'[k]>> \in V
  PROVE  Shown'[c] \in Register!OnePerKey(V)
<1> DEFINE K == ConnectedIn(c)'
           W == {<<k, row'[k]>> : k \in K}
<1>1. Shown'[c] = W
  BY DEF Shown
<1>2. W \subseteq V
  OBVIOUS
<1>3. {x[1] : x \in W} = K
  <2>1. \A x \in W : x[1] \in K
    OBVIOUS
  <2>2. ASSUME NEW k \in K PROVE \E x \in W : x[1] = k
    <3>1. <<k, row'[k]>> \in W /\ <<k, row'[k]>>[1] = k
      OBVIOUS
    <3>2. QED
      BY <3>1
  <2>3. QED
    BY <2>1, <2>2
<1>4. \A x, y \in W : x[1] = y[1] => x = y
  OBVIOUS
<1>5. {x[1] : x \in W} = {x[1] : x \in V}
  BY <1>3
<1> HIDE DEF W
<1>6. W \in Register!OnePerKey(V)
  BY <1>2, <1>4, <1>5 DEF Register!OnePerKey
<1>7. QED
  BY <1>1, <1>6

(* RecordDevices puts the snapshot of its report.                          *)
LEMMA RecordSimulates ==
  ASSUME TypeOK, TypeOK', Covered, InventoryIsBasis,
         NEW r \in inflight, RecordDevices(r)
  PROVE  Register!Put(Snapshot(r))
<1>1. Taken' = Taken \ {Snapshot(r)}
  BY SnapshotLeaves DEF RecordDevices
<1>2. World' = World /\ Snapshot(draft)' = Snapshot(draft)
  BY DEF RecordDevices, World, View, Listed, hardware, Snapshot, Told, loop
<1>3. DOMAIN Snapshot(r) = r.cats /\ \A c \in r.cats : Snapshot(r)[c] = Told(r, c)
  BY DEF Snapshot
<1>4. ASSUME NEW c \in Categories, c \in r.cats
      PROVE  Shown'[c] \in Register!OnePerKey(Snapshot(r)[c])
  <2>1. Shows(c, Told(r, c))'
    BY <1>4, RecordedCategory
  <2>2. /\ ConnectedIn(c)' = {x[1] : x \in Told(r, c)}
        /\ \A k \in ConnectedIn(c)' : <<k, row'[k]>> \in Told(r, c)
    BY <2>1 DEF Shows, Told
  <2>3. QED
    BY <1>3, <1>4, <2>2, ShowsIsOnePerKey
<1>5. ASSUME NEW c \in Categories, c \notin r.cats
      PROVE  Shown'[c] = Shown[c]
  <2>1. \A k \in Keys : CategoryOf[k] = c => row'[k] = row[k]
    BY <1>5, RecordedCategory
  <2>2. ConnectedIn(c)' = ConnectedIn(c)
    BY <2>1 DEF ConnectedIn, Connected
  <2>3. \A k \in ConnectedIn(c) : row'[k] = row[k]
    BY <2>1 DEF ConnectedIn
  <2>4. QED
    BY <2>2, <2>3 DEF Shown
<1>6. Shown' \in [Categories -> SUBSET (Keys \X Statuses)]
  BY WorldTypedNext
<1>7. QED
  BY <1>1, <1>2, <1>3, <1>4, <1>5, <1>6 DEF Register!Put

(* The device inventory implements the register of snapshots, for any      *)
(* hardware that changes between any two queries and any number of reports *)
(* under way, lost or late.                                                *)
THEOREM InventoryIsRegister == Spec => ImplementsRegister
<1>1. Init => Register!RegisterInit
  <2> SUFFICES ASSUME Init PROVE Register!RegisterInit
    OBVIOUS
  <2>1. TypeOK
    BY InventoryInit DEF IInv
  <2>2. World \in [Categories -> SUBSET (Keys \X Statuses)]
    BY <2>1, WorldTyped
  <2>3. Taken = {} /\ Snapshot(draft) = Register!Nothing
    BY DEF Init, Taken, Snapshot, Blank, Register!Nothing
  <2>4. \A c \in Categories : ConnectedIn(c) = {}
    BY InventoryAssumption DEF Init, ConnectedIn, Connected
  <2>5. Shown = [c \in Categories |-> {}]
    BY <2>4 DEF Shown
  <2>6. QED
    BY <2>2, <2>3, <2>5 DEF Register!RegisterInit
<1>2. IInv /\ IInv' /\ [Next]_vars => [Register!RegisterNext]_(Register!rvars)
  <2> SUFFICES ASSUME IInv, IInv', [Next]_vars
               PROVE  [Register!RegisterNext]_(Register!rvars)
    OBVIOUS
  <2> USE DEF IInv
  <2>1. CASE UNCHANGED vars \/ EndPost
    <3>1. UNCHANGED <<plugged, health, draft, inflight, row>>
      BY <2>1 DEF vars, EndPost, hardware, loop, store
    <3>2. UNCHANGED <<World, Snapshot(draft), Taken, Shown>>
      BY <3>1 DEF World, View, Listed, Taken, Snapshot, Told, Shown, ConnectedIn, Connected
    <3>3. QED
      BY <3>2 DEF Register!rvars
  <2>2. ASSUME NEW d \in Hardware,
               Plug(d) \/ Unplug(d) \/ \E s \in HealthOf[d] : ChangeStatus(d, s)
        PROVE  Register!RegisterNext
    <3>1. UNCHANGED <<loop, inflight, store>>
      BY <2>2 DEF Plug, Unplug, ChangeStatus
    <3>2. QED
      BY <3>1, ChangeSimulates DEF Register!RegisterNext
  <2>3. ASSUME NEW c \in Categories, NEW ok \in BOOLEAN, Query(c, ok)
        PROVE  Register!RegisterNext \/ UNCHANGED Register!rvars
    BY <2>3, QuerySimulates DEF Register!RegisterNext
  <2>4. ASSUME PostDevices PROVE Register!RegisterNext
    BY <2>4, PostSimulates DEF Register!RegisterNext
  <2>5. ASSUME NEW r \in inflight, LoseReport(r)
        PROVE  Register!RegisterNext
    <3>1. Snapshot(r) \in Taken /\ Taken' = Taken \ {Snapshot(r)}
      BY <2>5, SnapshotLeaves DEF LoseReport
    <3>2. World' = World /\ Shown' = Shown /\ Snapshot(draft)' = Snapshot(draft)
      BY <2>5 DEF LoseReport, World, View, Listed, hardware, Shown, ConnectedIn, Connected,
         store, Snapshot, Told, loop
    <3>3. Register!Drop(Snapshot(r))
      BY <3>1, <3>2 DEF Register!Drop
    <3>4. QED
      BY <3>1, <3>3 DEF Register!RegisterNext
  <2>6. ASSUME NEW r \in inflight, RecordDevices(r)
        PROVE  Register!RegisterNext
    <3>1. Snapshot(r) \in Taken
      BY DEF Taken
    <3>2. Register!Put(Snapshot(r))
      BY <2>6, RecordSimulates
    <3>3. QED
      BY <3>1, <3>2 DEF Register!RegisterNext
  <2>7. QED
    BY <2>1, <2>2, <2>3, <2>4, <2>5, <2>6 DEF Next
<1>3. QED
  BY <1>1, <1>2, InventoryInvariant, PTL
     DEF Spec, ImplementsRegister, Register!RegisterSpec
=============================================================================
