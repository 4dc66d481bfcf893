-------------------------- MODULE StorePoolProofs --------------------------
(***************************************************************************)
(* The accounts of the connection pool, for every limit and any number of  *)
(* pages and reports, and why fewer pages than connections cannot block    *)
(* one another.                                                            *)
(*                                                                         *)
(* PoolExact becomes inductive with Shape: what a user holds follows from  *)
(* what it is doing.                                                       *)
(***************************************************************************)
EXTENDS StorePool, FiniteSetTheorems, TLAPS

(* What each user holds and counts, by what it does.                       *)
Shape ==
  /\ \A u \in Users : conn[u] # NoConn <=> at[u] \in {"rows", "asking", "disks", "writing"}
  /\ \A p \in Pages : diskConn[p] # NoConn <=> at[p] = "disks"
  /\ \A p \in Pages : at[p] \in {"asking", "disks"} => left[p] > 0
  /\ \A p \in Pages : at[p] # "away" => todo[p] > 0
  /\ \A p \in Pages : at[p] # "writing"
  /\ \A u \in Users \ Pages : at[u] \in {"away", "waiting", "writing"}

IInv == TypeOK /\ Shape /\ PoolExact

-----------------------------------------------------------------------------
(* Users of one kind are not users of another.                             *)
LEMMA Kinds == /\ Pages \subseteq Users /\ Reports \subseteq Users /\ Cleaner \in Users
               /\ \A u \in Reports \cup {Cleaner} : u \in Users \ Pages
BY PoolAssumption DEF Users

(* A connection taken by a query that holds none yet.                      *)
LEMMA TakeForQuery ==
  ASSUME IInv, NEW u \in Users, NEW c \in Conns, at[u] = "waiting", Take(c),
         conn' = [conn EXCEPT ![u] = c], UNCHANGED diskConn,
         at'[u] # "away", \A v \in Users \ {u} : at'[v] = at[v]
  PROVE  /\ PoolExact'
         /\ opened' \subseteq Conns /\ free' \subseteq opened' /\ configured' \subseteq opened'
         /\ conn' \in [Users -> Conns \cup {NoConn}]
<1> USE PoolAssumption, Kinds DEF IInv, TypeOK, Shape, Take
<1>1. c \notin opened \ free
  OBVIOUS
<1>2. \A v \in Users : ~Holds(v, c)
  BY <1>1 DEF PoolExact
<1>3. \A v \in Users, d \in Conns : Holds(v, d)' <=> Holds(v, d) \/ (v = u /\ d = c)
  BY DEF Holds
<1>4. \A d \in opened' : d \in free' \/ \E v \in Users : Holds(v, d)'
  BY <1>3 DEF PoolExact
<1>5. \A v \in Users, d \in Conns : Holds(v, d)' =>
        d \in opened' \ free' /\ at'[v] # "away"
             /\ \A w \in Users : Holds(w, d)' => w = v
  BY <1>2, <1>3 DEF PoolExact
<1>6. \A p \in Pages : conn'[p] # NoConn => conn'[p] # diskConn'[p]
  BY DEF PoolExact
<1>7. PoolExact'
  BY <1>4, <1>5, <1>6 DEF PoolExact
<1>8. QED
  BY <1>7

(* A user that gives back all it holds and goes away, or waits again.      *)
LEMMA GiveBack ==
  ASSUME IInv, NEW u \in Users, UNCHANGED <<opened, configured>>,
         free' = free \cup {c \in Conns : Holds(u, c)},
         conn' = [conn EXCEPT ![u] = NoConn],
         diskConn' \in [Pages -> Conns \cup {NoConn}],
         u \in Pages => diskConn'[u] = NoConn,
         \A p \in Pages \ {u} : diskConn'[p] = diskConn[p],
         \A v \in Users \ {u} : at'[v] = at[v]
  PROVE  /\ PoolExact'
         /\ free' \subseteq opened'
         /\ conn' \in [Users -> Conns \cup {NoConn}]
<1> USE PoolAssumption, Kinds DEF IInv, TypeOK, Shape
<1>1. \A c \in Conns : ~Holds(u, c)'
  BY DEF Holds
<1>2. \A v \in Users \ {u}, c \in Conns : Holds(v, c)' <=> Holds(v, c)
  BY DEF Holds
<1>3. \A c \in Conns : c \in free' <=> c \in free \/ Holds(u, c)
  OBVIOUS
<1>4. \A c \in opened' : c \in free' \/ \E v \in Users : Holds(v, c)'
  BY <1>2, <1>3 DEF PoolExact
<1>5. \A v \in Users, c \in Conns : Holds(v, c)' =>
        c \in opened' \ free' /\ at'[v] # "away"
             /\ \A w \in Users : Holds(w, c)' => w = v
  BY <1>1, <1>2, <1>3 DEF PoolExact
<1>6. \A p \in Pages : conn'[p] # NoConn => conn'[p] # diskConn'[p]
  BY DEF PoolExact
<1>7. PoolExact'
  BY <1>4, <1>5, <1>6 DEF PoolExact
<1>8. free' \subseteq opened'
  BY <1>3 DEF PoolExact
<1>9. QED
  BY <1>7, <1>8

(* Reports and the retention job hold one connection, and Leave returns it. *)
LEMMA LeaveStep ==
  ASSUME IInv, NEW u \in Reports \cup {Cleaner}, Leave(u)
  PROVE  /\ PoolExact' /\ Shape'
         /\ free' \subseteq opened' /\ configured' \subseteq opened' /\ opened' \subseteq Conns
         /\ conn' \in [Users -> Conns \cup {NoConn}]
         /\ at' \in [Users -> {"away", "waiting", "rows", "asking", "disks", "writing"}]
<1> USE PoolAssumption, Kinds
<1>1. free' = free \cup {c \in Conns : Holds(u, c)}
  BY DEF Leave, Release, Holds, IInv, TypeOK
<1>2. /\ UNCHANGED <<opened, configured, diskConn, todo, left>>
      /\ conn' = [conn EXCEPT ![u] = NoConn]
      /\ at' = [at EXCEPT ![u] = "away"]
  BY DEF Leave, Release, pages
<1>3. PoolExact' /\ free' \subseteq opened' /\ conn' \in [Users -> Conns \cup {NoConn}]
  BY <1>1, <1>2, GiveBack DEF IInv, TypeOK
<1>4. Shape'
  BY <1>2 DEF IInv, TypeOK, Shape
<1>5. QED
  BY <1>2, <1>3, <1>4 DEF IInv, TypeOK

(* A step that changes neither the pool nor who holds what.                *)
LEMMA PoolKept ==
  ASSUME IInv, UNCHANGED <<pool, conn, diskConn>>,
         \A u \in Users : at[u] # "away" => at'[u] # "away"
  PROVE  PoolExact'
BY DEF IInv, PoolExact, Holds, pool

-----------------------------------------------------------------------------
(* OpenStore leaves one idle connection and nobody at work.                *)
LEMMA PoolInit == Init => IInv
<1> SUFFICES ASSUME Init PROVE IInv
  OBVIOUS
<1> USE PoolAssumption, Kinds DEF Init
<1>1. TypeOK
  BY DEF TypeOK
<1>2. Shape
  BY DEF Shape
<1>3. PoolExact
  BY DEF PoolExact, Holds
<1>4. QED
  BY <1>1, <1>2, <1>3 DEF IInv

(* Each step of a page keeps the accounts.                                 *)
LEMMA PagesKeep ==
  ASSUME IInv, NEW p \in Pages, OpenPage(p) \/ PageStep(p) \/ LeavePage(p)
  PROVE  IInv'
<1> USE PoolAssumption, Kinds
<1>1. CASE OpenPage(p)
  <2>1. PoolExact'
    BY <1>1, PoolKept DEF OpenPage, IInv, TypeOK, Shape
  <2>2. TypeOK' /\ Shape'
    BY <1>1 DEF OpenPage, IInv, TypeOK, Shape, pool, data
  <2>3. QED
    BY <2>1, <2>2 DEF IInv
<1>2. CASE StartQuery(p)
  <2>1. PICK c \in Conns : Take(c) /\ conn' = [conn EXCEPT ![p] = c]
    BY <1>2 DEF StartQuery
  <2>2. /\ PoolExact'
        /\ opened' \subseteq Conns /\ free' \subseteq opened' /\ configured' \subseteq opened'
        /\ conn' \in [Users -> Conns \cup {NoConn}]
    BY <1>2, <2>1, TakeForQuery DEF StartQuery, IInv, TypeOK
  <2>3. TypeOK'
    BY <1>2, <2>2 DEF StartQuery, IInv, TypeOK, data
  <2>4. Shape'
    BY <1>2, <2>1 DEF StartQuery, IInv, TypeOK, Shape
  <2>5. QED
    BY <2>2, <2>3, <2>4 DEF IInv
<1>3. CASE AskDisks(p)
  <2>1. PoolExact'
    BY <1>3, PoolKept DEF AskDisks, IInv, TypeOK, Shape
  <2>2. TypeOK' /\ Shape'
    BY <1>3 DEF AskDisks, IInv, TypeOK, Shape, pool, data, pages
  <2>3. QED
    BY <2>1, <2>2 DEF IInv
<1>4. CASE ReadDisks(p)
  <2>1. PICK c \in Conns : Take(c) /\ diskConn' = [diskConn EXCEPT ![p] = c]
    BY <1>4 DEF ReadDisks
  <2>2. at[p] = "asking" /\ at' = [at EXCEPT ![p] = "disks"] /\ UNCHANGED conn
    BY <1>4 DEF ReadDisks
  <2>3. c \notin opened \ free
    BY <2>1 DEF Take
  <2>4. \A v \in Users : ~Holds(v, c)
    BY <2>3 DEF IInv, PoolExact
  <2>5. \A v \in Users, d \in Conns : Holds(v, d)' <=> Holds(v, d) \/ (v = p /\ d = c)
    BY <2>1, <2>2 DEF Holds, IInv, TypeOK, Shape
  <2>6. \A d \in opened' : d \in free' \/ \E v \in Users : Holds(v, d)'
    BY <2>1, <2>5 DEF IInv, TypeOK, PoolExact, Take
  <2>7. \A v \in Users, d \in Conns : Holds(v, d)' =>
          d \in opened' \ free' /\ at'[v] # "away"
               /\ \A w \in Users : Holds(w, d)' => w = v
    BY <2>1, <2>2, <2>4, <2>5 DEF IInv, TypeOK, PoolExact, Take
  <2>8. \A q \in Pages : conn'[q] # NoConn => conn'[q] # diskConn'[q]
    BY <2>1, <2>2, <2>4 DEF IInv, TypeOK, PoolExact, Holds
  <2>9. PoolExact'
    BY <2>6, <2>7, <2>8 DEF PoolExact
  <2>10. TypeOK'
    BY <1>4, <2>1 DEF ReadDisks, IInv, TypeOK, Take, data, pages
  <2>11. Shape'
    BY <1>4, <2>1 DEF ReadDisks, IInv, TypeOK, Shape, pages
  <2>12. QED
    BY <2>9, <2>10, <2>11 DEF IInv
<1>5. CASE EndDisks(p)
  <2>1. /\ at[p] = "disks" /\ at' = [at EXCEPT ![p] = "rows"] /\ UNCHANGED conn
        /\ diskConn' = [diskConn EXCEPT ![p] = NoConn]
        /\ free' = free \cup {diskConn[p]} /\ UNCHANGED <<opened, configured>>
        /\ diskConn[p] \in Conns
    BY <1>5 DEF EndDisks, Release, IInv, TypeOK, Shape
  <2>2. Holds(p, diskConn[p]) /\ conn[p] # diskConn[p] /\ conn[p] # NoConn
    BY <2>1 DEF Holds, IInv, PoolExact, Shape
  <2>3. \A v \in Users, d \in Conns :
          Holds(v, d)' <=> Holds(v, d) /\ ~(v = p /\ d = diskConn[p])
    BY <2>1, <2>2 DEF Holds, IInv, TypeOK
  <2>4. \A d \in opened' : d \in free' \/ \E v \in Users : Holds(v, d)'
    BY <2>1, <2>3 DEF IInv, TypeOK, PoolExact
  <2>5. \A v \in Users, d \in Conns : Holds(v, d)' =>
          d \in opened' \ free' /\ at'[v] # "away"
               /\ \A w \in Users : Holds(w, d)' => w = v
    BY <2>1, <2>2, <2>3 DEF IInv, TypeOK, PoolExact
  <2>6. PoolExact'
    BY <2>1, <2>4, <2>5 DEF IInv, TypeOK, PoolExact
  <2>7. TypeOK'
    <3>1. free' \subseteq opened'
      BY <2>1, <2>2 DEF IInv, PoolExact, TypeOK
    <3>2. left' \in [Pages -> 0..MaxRows]
      BY <1>5 DEF EndDisks, IInv, TypeOK, Shape
    <3>3. QED
      BY <1>5, <2>1, <3>1, <3>2 DEF EndDisks, IInv, TypeOK, data
  <2>8. Shape'
    BY <1>5, <2>1 DEF EndDisks, IInv, TypeOK, Shape
  <2>9. QED
    BY <2>6, <2>7, <2>8 DEF IInv
<1>6. CASE EndQuery(p)
  <2>1. /\ at[p] = "rows" /\ conn' = [conn EXCEPT ![p] = NoConn]
        /\ at' = [at EXCEPT ![p] = IF todo[p] = 1 THEN "away" ELSE "waiting"]
        /\ todo' = [todo EXCEPT ![p] = @ - 1]
        /\ UNCHANGED <<diskConn, left, opened, configured, data>>
    BY <1>6 DEF EndQuery, Release
  <2>2. diskConn[p] = NoConn /\ todo[p] > 0
    BY <2>1 DEF IInv, Shape
  <2>3. free' = free \cup {c \in Conns : Holds(p, c)}
    BY <1>6, <2>2 DEF EndQuery, Release, Holds, IInv, TypeOK
  <2>4. PoolExact' /\ free' \subseteq opened' /\ conn' \in [Users -> Conns \cup {NoConn}]
    BY <2>1, <2>2, <2>3, GiveBack DEF IInv, TypeOK
  <2>5. todo' \in [Pages -> 0..MaxQueries]
    BY <2>1, <2>2 DEF IInv, TypeOK
  <2>6. TypeOK'
    BY <2>1, <2>4, <2>5 DEF IInv, TypeOK, data
  <2>7. Shape'
    BY <2>1, <2>2 DEF IInv, TypeOK, Shape
  <2>8. QED
    BY <2>4, <2>6, <2>7 DEF IInv
<1>7. CASE LeavePage(p)
  <2>1. /\ conn' = [conn EXCEPT ![p] = NoConn]
        /\ diskConn' = [diskConn EXCEPT ![p] = NoConn]
        /\ at' = [at EXCEPT ![p] = "away"]
        /\ todo' = [todo EXCEPT ![p] = 0] /\ left' = [left EXCEPT ![p] = 0]
        /\ UNCHANGED <<opened, configured, data>>
    BY <1>7 DEF LeavePage, Release
  <2>2. free' = free \cup {c \in Conns : Holds(p, c)}
    BY <1>7 DEF LeavePage, Release, Holds, IInv, TypeOK
  <2>3. PoolExact' /\ free' \subseteq opened' /\ conn' \in [Users -> Conns \cup {NoConn}]
    BY <2>1, <2>2, GiveBack DEF IInv, TypeOK
  <2>4. TypeOK'
    BY <2>1, <2>3 DEF IInv, TypeOK, data
  <2>5. Shape'
    BY <2>1 DEF IInv, TypeOK, Shape
  <2>6. QED
    BY <2>3, <2>4, <2>5 DEF IInv
<1>8. QED
  BY <1>1, <1>2, <1>3, <1>4, <1>5, <1>6, <1>7 DEF PageStep

(* Each step of a report or of the retention job keeps the accounts.       *)
LEMMA WorkersKeep ==
  ASSUME IInv, NEW u \in Reports \cup {Cleaner},
         \/ Ask(u) \/ Begin(u) \/ GiveUp(u)
         \/ u \in Reports /\ \E m \in Metrics : RecordMetrics(u, m)
         \/ u = Cleaner /\ CleanupMetrics
  PROVE  IInv'
<1> USE PoolAssumption, Kinds
<1>1. CASE Ask(u)
  <2>1. PoolExact'
    BY <1>1, PoolKept DEF Ask, IInv, TypeOK
  <2>2. TypeOK' /\ Shape'
    BY <1>1 DEF Ask, IInv, TypeOK, Shape, pool, data, pages
  <2>3. QED
    BY <2>1, <2>2 DEF IInv
<1>2. CASE Begin(u)
  <2>1. PICK c \in Conns : Take(c) /\ conn' = [conn EXCEPT ![u] = c]
    BY <1>2 DEF Begin
  <2>2. /\ PoolExact'
        /\ opened' \subseteq Conns /\ free' \subseteq opened' /\ configured' \subseteq opened'
        /\ conn' \in [Users -> Conns \cup {NoConn}]
    BY <1>2, <2>1, TakeForQuery DEF Begin, IInv, TypeOK
  <2>3. TypeOK'
    BY <1>2, <2>2 DEF Begin, IInv, TypeOK, data, pages
  <2>4. Shape'
    BY <1>2, <2>1 DEF Begin, IInv, TypeOK, Shape, pages
  <2>5. QED
    BY <2>2, <2>3, <2>4 DEF IInv
<1>3. CASE GiveUp(u)
  BY <1>3, LeaveStep DEF GiveUp, Leave, IInv, TypeOK, data, pages
<1>4. ASSUME NEW m \in Metrics, RecordMetrics(u, m) PROVE IInv'
  BY <1>4, LeaveStep DEF RecordMetrics, Leave, IInv, TypeOK, pages
<1>5. CASE u = Cleaner /\ CleanupMetrics
  <2>1. Leave(u)
    BY <1>5 DEF CleanupMetrics
  <2>2. metrics' \subseteq Metrics /\ disks' \subseteq Metrics /\ old' \subseteq Metrics
    BY <1>5 DEF CleanupMetrics, IInv, TypeOK
  <2>3. QED
    BY <2>1, <2>2, LeaveStep DEF Leave, IInv, TypeOK, pages
<1>6. QED
  BY <1>1, <1>2, <1>3, <1>4, <1>5

(* No step of anybody disturbs the accounts.                               *)
LEMMA PoolStep == IInv /\ [Next]_vars => IInv'
<1> SUFFICES ASSUME IInv, [Next]_vars PROVE IInv'
  OBVIOUS
<1>1. ASSUME NEW m \in Metrics, Age(m) PROVE IInv'
  <2>1. PoolExact'
    BY <1>1, PoolKept DEF Age
  <2>2. TypeOK' /\ Shape'
    BY <1>1 DEF Age, IInv, TypeOK, Shape, pool, pages
  <2>3. QED
    BY <2>1, <2>2 DEF IInv
<1>2. CASE ServerRestart
  <2>1. PICK c \in Conns : Fresh(c)
    BY <1>2 DEF ServerRestart
  <2>2. TypeOK'
    BY <1>2, <2>1, PoolAssumption, Kinds DEF ServerRestart, Fresh, IInv, TypeOK, data
  <2>3. Shape'
    BY <2>1, PoolAssumption, Kinds DEF Fresh, Shape
  <2>4. PoolExact'
    BY <2>1, PoolAssumption, Kinds DEF Fresh, PoolExact, Holds
  <2>5. QED
    BY <2>2, <2>3, <2>4 DEF IInv
<1>3. CASE UNCHANGED vars
  <2>1. PoolExact'
    BY <1>3, PoolKept DEF vars
  <2>2. TypeOK' /\ Shape'
    BY <1>3 DEF vars, IInv, TypeOK, Shape, pool, pages, data
  <2>3. QED
    BY <2>1, <2>2 DEF IInv
<1>4. QED
  BY <1>1, <1>2, <1>3, PagesKeep, WorkersKeep DEF Next

(* What each user holds follows from what it does, and the accounts of the *)
(* pool balance (the queries of the Store and database/sql).               *)
THEOREM PoolInvariant == Spec => []IInv
<1>1. QED
  BY PoolInit, PoolStep, PTL DEF Spec

(* Connections, users and tables keep their types (store.go:24).           *)
THEOREM PoolTyped == Spec => []TypeOK
<1>1. IInv => TypeOK
  BY DEF IInv
<1>2. QED
  BY <1>1, PoolInvariant, PTL

(* Every connection the process opened is idle or in the hands of exactly  *)
(* one user, whatever fails and whoever leaves (each query of the Store    *)
(* closes its rows on every path).                                         *)
THEOREM PoolAccounts == Spec => [](TypeOK /\ PoolExact)
<1>1. IInv => TypeOK /\ PoolExact
  BY DEF IInv
<1>2. QED
  BY <1>1, PoolInvariant, PTL

(* Fewer page requests than MaxOpenConns never hold all the connections    *)
(* while each of them waits for one more.                                  *)
THEOREM FewPagesNeverBlock ==
  ASSUME Cardinality(Pages) < Cardinality(Conns)
  PROVE  Spec => []NoCircularWait
<1>1. IInv => NoCircularWait
  <2> SUFFICES ASSUME IInv, ~NoCircularWait PROVE FALSE
    OBVIOUS
  <2> DEFINE holder == [c \in Conns |-> CHOOSE p \in Pages : conn[p] = c]
  <2>1. ASSUME NEW c \in Conns PROVE \E p \in Pages : conn[p] = c
    <3>1. PICK u \in Users : Holds(u, c) /\ at[u] = "asking"
      BY DEF NoCircularWait, Usable, IInv, PoolExact
    <3>2. u \in Pages /\ diskConn[u] = NoConn
      BY <3>1, PoolAssumption DEF IInv, Shape
    <3>3. QED
      BY <3>1, <3>2, PoolAssumption DEF Holds
  <2>2. \A c \in Conns : holder[c] \in Pages /\ conn[holder[c]] = c
    BY <2>1
  <2>3. holder \in [Conns -> Pages]
    BY <2>2
  <2> HIDE DEF holder
  <2>4. \E c, d \in Conns : c # d /\ holder[c] = holder[d]
    BY <2>3, PoolAssumption, FS_PigeonHole
  <2>5. QED
    BY <2>2, <2>4
<1>2. QED
  BY <1>1, PoolInvariant, PTL

-----------------------------------------------------------------------------
(* Every connection is held by a page that waits for one more.             *)
Blocked == ~NoCircularWait

(* Somebody gives up: the browser goes away, or the process ends.          *)
Leaves == ServerRestart \/ \E p \in Pages : LeavePage(p)

(* Then nobody has a connection to work with and there is none to take.    *)
LEMMA BlockedMeans ==
  ASSUME IInv, Blocked
  PROVE  /\ \A c \in Conns : ~Take(c)
         /\ \A u \in Users : at[u] \in {"away", "waiting", "asking"}
<1>1. \A c \in Conns : ~Usable(c)
  BY DEF Blocked, NoCircularWait
<1>2. \A c \in Conns : ~Take(c)
  BY <1>1 DEF Usable, Take
<1>3. ASSUME NEW u \in Users, at[u] \in {"rows", "disks", "writing"} PROVE FALSE
  <2>1. conn[u] \in Conns
    BY <1>3 DEF IInv, Shape, TypeOK
  <2>2. QED
    BY <1>1, <1>3, <2>1 DEF Usable, Holds
<1>4. QED
  BY <1>2, <1>3 DEF IInv, TypeOK

(* Steps that move no connection and no asking page keep the knot tied.    *)
LEMMA KnotKept ==
  ASSUME IInv, Blocked, UNCHANGED <<opened, free, conn, diskConn>>,
         \A u \in Users : at[u] = "asking" => at'[u] = "asking"
  PROVE  Blocked'
<1>1. \A u \in Users, c \in Conns : Holds(u, c)' <=> Holds(u, c)
  BY DEF Holds
<1>2. \A u \in Users, c \in Conns : Holds(u, c) => at[u] = "asking"
  BY DEF Blocked, NoCircularWait, Usable
<1>3. QED
  BY <1>1, <1>2 DEF Blocked, NoCircularWait, Usable

(* No step but a leave loosens the knot or moves a page caught in it.      *)
LEMMA BlockedStep ==
  ASSUME IInv, Blocked, [Next]_vars, ~Leaves
  PROVE  /\ Blocked'
         /\ \A u \in Users : at[u] = "asking" => at'[u] = "asking"
<1> USE PoolAssumption, Kinds
<1> SUFFICES /\ UNCHANGED <<opened, free, conn, diskConn>>
             /\ \A u \in Users : at[u] = "asking" => at'[u] = "asking"
  BY KnotKept
<1>0. /\ \A c \in Conns : ~Take(c)
      /\ \A u \in Users : at[u] \in {"away", "waiting", "asking"}
  BY BlockedMeans
<1> DEFINE Still == /\ UNCHANGED <<opened, free, conn, diskConn>>
                    /\ \A u \in Users : at[u] = "asking" => at'[u] = "asking"
<1>1. ASSUME NEW p \in Pages, OpenPage(p) PROVE Still
  BY <1>1 DEF OpenPage, IInv, TypeOK, pool
<1>2. ASSUME NEW p \in Pages, PageStep(p) PROVE Still
  BY <1>0, <1>2 DEF PageStep, StartQuery, AskDisks, ReadDisks, EndDisks, EndQuery
<1>3. ASSUME NEW u \in Reports \cup {Cleaner}, Ask(u) \/ Begin(u) PROVE Still
  BY <1>0, <1>3 DEF Ask, Begin, IInv, TypeOK, pool
<1>4. ASSUME NEW u \in Reports \cup {Cleaner}, GiveUp(u) PROVE Still
  <2>1. at[u] = "waiting" /\ conn[u] = NoConn
    BY <1>0, <1>4 DEF GiveUp, IInv, Shape
  <2>2. /\ UNCHANGED <<opened, diskConn>>
        /\ free' = free \cup ({conn[u]} \ {NoConn})
        /\ conn' = [conn EXCEPT ![u] = NoConn]
        /\ at' = [at EXCEPT ![u] = "away"]
    BY <1>4 DEF GiveUp, Leave, Release
  <2>3. free' = free /\ conn' = conn
    BY <2>1, <2>2 DEF IInv, TypeOK
  <2>4. QED
    BY <2>1, <2>2, <2>3 DEF IInv, TypeOK
<1>5. ASSUME NEW r \in Reports, NEW m \in Metrics, RecordMetrics(r, m) PROVE Still
  BY <1>0, <1>5 DEF RecordMetrics
<1>6. CASE CleanupMetrics
  BY <1>0, <1>6 DEF CleanupMetrics
<1>7. ASSUME NEW m \in Metrics, Age(m) PROVE Still
  BY <1>7 DEF Age, pool
<1>8. CASE UNCHANGED vars
  BY <1>8 DEF vars, pool
<1>9. QED
  BY <1>1, <1>2, <1>3, <1>4, <1>5, <1>6, <1>7, <1>8 DEF Next, Leaves

(* Pages that hold every connection stay so until a browser leaves or the  *)
(* server is restarted: database/sql has no timeout of its own, and the    *)
(* handlers set none.                                                      *)
THEOREM BlockedUntilLeave ==
  Spec => [][Blocked /\ ~Blocked' => Leaves]_vars
<1>1. IInv /\ [Next]_vars => [Blocked /\ ~Blocked' => Leaves]_vars
  BY BlockedStep
<1>2. QED
  BY <1>1, PoolInvariant, PTL DEF Spec

(* So a page caught in it while everybody waits is never answered: TLC's   *)
(* counterexample with as many pages as connections (store.go:33) needs no *)
(* unfair schedule.                                                        *)
THEOREM BlockedNeverAnswered ==
  ASSUME NEW p \in Pages
  PROVE  Spec /\ <>(Blocked /\ at[p] = "asking" /\ [][~Leaves]_vars) => ~PageAnswered
<1> DEFINE stuck == Blocked /\ at[p] = "asking"
           out == at[p] = "away"
           busy == at[p] # "away"
           leaves == Leaves
<1>1. IInv /\ [Next]_vars /\ stuck /\ [~leaves]_vars => stuck'
  <2> SUFFICES ASSUME IInv, [Next]_vars, stuck, [~leaves]_vars PROVE stuck'
    OBVIOUS
  <2>1. CASE ~leaves
    BY <2>1, BlockedStep, Kinds
  <2>2. CASE UNCHANGED vars
    <3>1. Blocked'
      BY <2>2, KnotKept DEF vars, pool
    <3>2. QED
      BY <2>2, <3>1 DEF vars
  <2>3. QED
    BY <2>1, <2>2
<1>2. stuck => busy /\ ~out
  OBVIOUS
<1>3. PageAnswered => (busy ~> out)
  BY DEF PageAnswered
<1> HIDE DEF stuck, out, busy, leaves
<1>4. Spec /\ <>(stuck /\ [][~leaves]_vars) => ~(busy ~> out)
  BY <1>1, <1>2, PoolInvariant, PTL DEF Spec
<1>5. Spec /\ <>(stuck /\ [][~leaves]_vars) => ~PageAnswered
  BY <1>3, <1>4, PTL
<1>6. QED
  BY <1>5, PTL DEF stuck, leaves

-----------------------------------------------------------------------------
(* Disks whose metric is gone.                                             *)
Orphans == disks \ metrics

(* A disk row refers to an id that was given to a metric once and will not *)
(* be given again (AUTOINCREMENT, store.go:95).                            *)
DisksWereMetrics == disks \subseteq metrics \cup old

(* What a step does to the tables.                                         *)
LEMMA DataMoves ==
  ASSUME [Next]_vars
  PROVE  \/ UNCHANGED data
         \/ \E r \in Reports, m \in Metrics : RecordMetrics(r, m)
         \/ CleanupMetrics
         \/ \E m \in Metrics : Age(m)
BY DEF Next, PageStep, vars, OpenPage, StartQuery, AskDisks, ReadDisks, EndDisks,
   EndQuery, LeavePage, Ask, Begin, GiveUp, ServerRestart

(* Ids of disks are those of metrics, present or past.                     *)
LEMMA DisksInvariant == Spec => []DisksWereMetrics
<1>1. Init => DisksWereMetrics
  BY DEF Init, DisksWereMetrics
<1>2. DisksWereMetrics /\ [Next]_vars => DisksWereMetrics'
  BY DataMoves DEF DisksWereMetrics, data, RecordMetrics, CleanupMetrics, Age
<1>3. QED
  BY <1>1, <1>2, PTL DEF Spec

(* An orphaned disk row is never removed, nor adopted by a later metric:   *)
(* the cascade that should have removed it was its only chance, and the    *)
(* table grows by every one missed.                                        *)
THEOREM OrphansStay ==
  ASSUME NEW m \in Metrics
  PROVE  Spec => [](m \in Orphans => [](m \in Orphans))
<1>1. DisksWereMetrics /\ [Next]_vars => (m \in Orphans => (m \in Orphans)')
  BY DataMoves DEF DisksWereMetrics, Orphans, data, RecordMetrics, CleanupMetrics, Age
<1>2. QED
  BY <1>1, DisksInvariant, PTL DEF Spec

(* A DELETE of the retention job that removes metrics which have disks, on *)
(* a connection that was opened after configure had run (store.go:54).     *)
CleansUnconfigured == /\ CleanupMetrics
                      /\ conn[Cleaner] \in opened \ configured
                      /\ disks \cap metrics \cap old # {}

(* Orphans come from that step, always, and from no other: RecordMetrics   *)
(* (one transaction), a rollback and a restart leave none.                 *)
THEOREM OrphansComeFromCleanup ==
  Spec => [][~(Orphans' \subseteq Orphans) <=> CleansUnconfigured]_vars
<1>1. IInv /\ [Next]_vars => [~(Orphans' \subseteq Orphans) <=> CleansUnconfigured]_vars
  <2> SUFFICES ASSUME IInv, [Next]_vars
               PROVE  ~(Orphans' \subseteq Orphans) <=> CleansUnconfigured
    OBVIOUS
  <2>1. CASE CleanupMetrics
    <3>1. conn[Cleaner] \in Conns
      BY <2>1, Kinds DEF CleanupMetrics, IInv, Shape, TypeOK
    <3>2. conn[Cleaner] \in opened
      BY <3>1, Kinds DEF IInv, PoolExact, Holds
    <3>3. CASE conn[Cleaner] \in configured
      BY <2>1, <3>3 DEF CleanupMetrics, Orphans, CleansUnconfigured
    <3>4. CASE conn[Cleaner] \notin configured
      <4>1. metrics' = metrics \ old /\ disks' = disks
        BY <2>1, <3>4 DEF CleanupMetrics
      <4>2. ~(Orphans' \subseteq Orphans) <=> disks \cap metrics \cap old # {}
        BY <4>1 DEF Orphans
      <4>3. QED
        BY <2>1, <3>2, <3>4, <4>2 DEF CleansUnconfigured
    <3>5. QED
      BY <3>3, <3>4
  <2>2. CASE ~CleanupMetrics
    BY <2>2, DataMoves DEF Orphans, data, RecordMetrics, Age, CleansUnconfigured
  <2>3. QED
    BY <2>1, <2>2
<1>2. QED
  BY <1>1, PoolInvariant, PTL DEF Spec
=============================================================================
