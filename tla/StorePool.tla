----------------------------- MODULE StorePool -----------------------------
(***************************************************************************)
(* The connections of the Store and those who share them: page requests,   *)
(* reports of the agents and the retention job.                            *)
(*                                                                         *)
(* OpenStore allows MaxOpenConns connections and configures one: the       *)
(* PRAGMAs of configure run on the only connection there is then, and      *)
(* foreign_keys is a setting of a connection, off in a new one.  Every     *)
(* query takes a connection for as long as its rows are open.  ListMachines *)
(* asks for the disks of a machine while its own rows are open, and so     *)
(* needs a second connection; no other query does.                         *)
(*                                                                         *)
(* A page request is a few queries, one after another, each of which wants *)
(* the disks of some number of machines: 0 unless it is that of            *)
(* ListMachines.  A report holds a connection for one transaction; of the  *)
(* retention job only the DELETE of metric_snapshots is here.              *)
(*                                                                         *)
(* A definition marked "variant" is the one below it with a defect such    *)
(* code could have; no specification uses it.  It serves to see that the   *)
(* properties notice the defect.                                           *)
(***************************************************************************)
EXTENDS Integers, FiniteSets

CONSTANTS Conns,        \* MaxOpenConns connections
          NoConn,
          Pages,        \* page requests served at once
          Reports,      \* reports of agents handled at once
          Cleaner,      \* the retention job
          Metrics,      \* ids of metric_snapshots
          MaxQueries,   \* bound: queries of a page
          MaxRows       \* bound: machines with a metric

ASSUME PoolAssumption ==
  /\ IsFiniteSet(Conns) /\ Conns # {}
  /\ NoConn \notin Conns
  /\ IsFiniteSet(Pages)
  /\ Pages \cap Reports = {}
  /\ Cleaner \notin Pages \cup Reports
  /\ MaxQueries \in Nat \ {0}
  /\ MaxRows \in Nat

Users == Pages \cup Reports \cup {Cleaner}

VARIABLES opened,       \* connections opened since the process started
          free,         \* the idle ones: freeConn of sql.DB
          configured,   \* those whose foreign_keys is on
          at,           \* what each user does
          conn,         \* the connection its query holds
          diskConn,     \* the one a page's query for disks holds
          todo,         \* queries a page has still to make
          left,         \* machines whose disks its open rows still ask for
          metrics,      \* ids in metric_snapshots
          disks,        \* ids that disk_snapshots refers to
          old           \* ids older than the retention time

pool  == <<opened, free, configured>>
pages == <<todo, left>>
data  == <<metrics, disks, old>>
vars  == <<pool, at, conn, diskConn, pages, data>>

(* OpenStore, with nobody at work.  The tables survive a restart.          *)
Fresh(c) == /\ opened' = {c}
            /\ free' = {c}
            /\ configured' = {c}
            /\ at' = [u \in Users |-> "away"]
            /\ conn' = [u \in Users |-> NoConn]
            /\ diskConn' = [u \in Pages |-> NoConn]
            /\ todo' = [p \in Pages |-> 0]
            /\ left' = [p \in Pages |-> 0]

Init == /\ \E c \in Conns : opened = {c} /\ free = {c} /\ configured = {c}
        /\ at = [u \in Users |-> "away"]
        /\ conn = [u \in Users |-> NoConn]
        /\ diskConn = [u \in Pages |-> NoConn]
        /\ todo = [p \in Pages |-> 0]
        /\ left = [p \in Pages |-> 0]
        /\ metrics = {}
        /\ disks = {}
        /\ old = {}

ServerRestart == (\E c \in Conns : Fresh(c)) /\ UNCHANGED data

-----------------------------------------------------------------------------
Take_Uncounted(c) ==                \* variant: an opened connection is not counted
  /\ \/ c \in free
     \/ free = {} /\ c \in Conns \ opened
  /\ free' = free \ {c}
  /\ UNCHANGED <<opened, configured>>

(* sql.DB: an idle connection if there is one, else a new one within the   *)
(* limit, else the request waits.                                          *)
Take(c) == /\ \/ c \in free
              \/ free = {} /\ c \in Conns \ opened
           /\ free' = free \ {c}
           /\ opened' = opened \cup {c}
           /\ UNCHANGED configured

Release(cs) == /\ free' = free \cup (cs \ {NoConn})
               /\ UNCHANGED <<opened, configured>>

-----------------------------------------------------------------------------
(* Pages.                                                                  *)

OpenPage(p) == /\ at[p] = "away"
               /\ at' = [at EXCEPT ![p] = "waiting"]
               /\ \E n \in 1..MaxQueries : todo' = [todo EXCEPT ![p] = n]
               /\ UNCHANGED <<pool, conn, diskConn, left, data>>

StartQuery(p) == /\ at[p] = "waiting"
                 /\ \E c \in Conns : Take(c) /\ conn' = [conn EXCEPT ![p] = c]
                 /\ at' = [at EXCEPT ![p] = "rows"]
                 /\ \E n \in 0..MaxRows : left' = [left EXCEPT ![p] = n]
                 /\ UNCHANGED <<diskConn, todo, data>>

(* A row with a metric: listDisksForMetric, with the rows still open.      *)
AskDisks(p) == /\ at[p] = "rows"
               /\ left[p] > 0
               /\ at' = [at EXCEPT ![p] = "asking"]
               /\ UNCHANGED <<pool, conn, diskConn, pages, data>>

ReadDisks(p) == /\ at[p] = "asking"
                /\ \E c \in Conns : Take(c) /\ diskConn' = [diskConn EXCEPT ![p] = c]
                /\ at' = [at EXCEPT ![p] = "disks"]
                /\ UNCHANGED <<conn, pages, data>>

EndDisks_NotClosed(p) ==            \* variant: rows.Close is missing
  /\ at[p] = "disks"
  /\ diskConn' = [diskConn EXCEPT ![p] = NoConn]
  /\ at' = [at EXCEPT ![p] = "rows"]
  /\ left' = [left EXCEPT ![p] = @ - 1]
  /\ UNCHANGED <<pool, conn, todo, data>>

EndDisks(p) == /\ at[p] = "disks"
               /\ Release({diskConn[p]})
               /\ diskConn' = [diskConn EXCEPT ![p] = NoConn]
               /\ at' = [at EXCEPT ![p] = "rows"]
               /\ left' = [left EXCEPT ![p] = @ - 1]
               /\ UNCHANGED <<conn, todo, data>>

EndQuery_NotClosed(p) ==            \* variant: the rows are never closed
  /\ at[p] = "rows"
  /\ left[p] = 0
  /\ conn' = [conn EXCEPT ![p] = NoConn]
  /\ todo' = [todo EXCEPT ![p] = @ - 1]
  /\ at' = [at EXCEPT ![p] = IF todo[p] = 1 THEN "away" ELSE "waiting"]
  /\ UNCHANGED <<pool, diskConn, left, data>>

(* The last row closes the rows; after its last query the page is sent.    *)
EndQuery(p) == /\ at[p] = "rows"
               /\ left[p] = 0
               /\ Release({conn[p]})
               /\ conn' = [conn EXCEPT ![p] = NoConn]
               /\ todo' = [todo EXCEPT ![p] = @ - 1]
               /\ at' = [at EXCEPT ![p] = IF todo[p] = 1 THEN "away" ELSE "waiting"]
               /\ UNCHANGED <<diskConn, left, data>>

(* The browser goes away: its context ends each query and each wait.       *)
LeavePage(p) == /\ at[p] # "away"
                /\ Release({conn[p], diskConn[p]})
                /\ at' = [at EXCEPT ![p] = "away"]
                /\ conn' = [conn EXCEPT ![p] = NoConn]
                /\ diskConn' = [diskConn EXCEPT ![p] = NoConn]
                /\ todo' = [todo EXCEPT ![p] = 0]
                /\ left' = [left EXCEPT ![p] = 0]
                /\ UNCHANGED data

-----------------------------------------------------------------------------
(* Reports of agents and the retention job: one connection each.           *)

Ask(u) == /\ at[u] = "away"
          /\ at' = [at EXCEPT ![u] = "waiting"]
          /\ UNCHANGED <<pool, conn, diskConn, pages, data>>

Begin(u) == /\ at[u] = "waiting"
            /\ \E c \in Conns : Take(c) /\ conn' = [conn EXCEPT ![u] = c]
            /\ at' = [at EXCEPT ![u] = "writing"]
            /\ UNCHANGED <<diskConn, pages, data>>

Leave(u) == /\ Release({conn[u]})
            /\ conn' = [conn EXCEPT ![u] = NoConn]
            /\ at' = [at EXCEPT ![u] = "away"]
            /\ UNCHANGED <<diskConn, pages>>

(* RecordMetrics commits: a metric and its disks, in one transaction.      *)
RecordMetrics(r, m) == /\ at[r] = "writing"
                       /\ m \notin metrics \cup old
                       /\ metrics' = metrics \cup {m}
                       /\ disks' = disks \cup {m}
                       /\ UNCHANGED old
                       /\ Leave(r)

(* The write fails or the caller goes away: the transaction is rolled back. *)
GiveUp(u) == at[u] # "away" /\ Leave(u) /\ UNCHANGED data

(* DELETE FROM metric_snapshots: the disks follow by ON DELETE CASCADE, on *)
(* a connection that has foreign_keys on.                                  *)
CleanupMetrics ==
  /\ at[Cleaner] = "writing"
  /\ metrics' = metrics \ old
  /\ disks' = IF conn[Cleaner] \in configured
              THEN disks \ (metrics \cap old) ELSE disks
  /\ UNCHANGED old
  /\ Leave(Cleaner)

Age(m) == /\ m \in metrics \ old
          /\ old' = old \cup {m}
          /\ UNCHANGED <<pool, at, conn, diskConn, pages, metrics, disks>>

-----------------------------------------------------------------------------
PageStep(p) == \/ StartQuery(p)
               \/ AskDisks(p)
               \/ ReadDisks(p)
               \/ EndDisks(p)
               \/ EndQuery(p)

Next == \/ \E p \in Pages : OpenPage(p) \/ PageStep(p) \/ LeavePage(p)
        \/ \E u \in Reports \cup {Cleaner} : Ask(u) \/ Begin(u) \/ GiveUp(u)
        \/ \E r \in Reports, m \in Metrics : RecordMetrics(r, m)
        \/ CleanupMetrics
        \/ \E m \in Metrics : Age(m)
        \/ ServerRestart

Spec == Init /\ [][Next]_vars

(* A write ends, well or not. *)
EndWrite(u) == /\ at[u] = "writing"
               /\ \/ GiveUp(u)
                  \/ u \in Reports /\ \E m \in Metrics : RecordMetrics(u, m)
                  \/ u = Cleaner /\ CleanupMetrics

(* Go runs every handler, and of the connections that come free some go to *)
(* each request that keeps waiting (connRequests of sql.DB).               *)
FairSpec ==
  /\ Spec
  /\ \A p \in Pages : /\ SF_vars(StartQuery(p))
                      /\ SF_vars(ReadDisks(p))
                      /\ WF_vars(AskDisks(p))
                      /\ WF_vars(EndDisks(p))
                      /\ WF_vars(EndQuery(p))
  /\ \A u \in Reports \cup {Cleaner} : WF_vars(EndWrite(u))

-----------------------------------------------------------------------------
(* Properties.                                                             *)

TypeOK ==
  /\ opened \subseteq Conns
  /\ free \subseteq opened
  /\ configured \subseteq opened
  /\ at \in [Users -> {"away", "waiting", "rows", "asking", "disks", "writing"}]
  /\ conn \in [Users -> Conns \cup {NoConn}]
  /\ diskConn \in [Pages -> Conns \cup {NoConn}]
  /\ todo \in [Pages -> 0..MaxQueries]
  /\ left \in [Pages -> 0..MaxRows]
  /\ metrics \subseteq Metrics
  /\ disks \subseteq Metrics
  /\ old \subseteq Metrics

(* Every open connection is idle or in the hands of one user, once: no     *)
(* query shares it and no path out of a handler, be it an error or a       *)
(* browser that leaves between two rows, forgets to give it back.          *)
Holds(u, c) == conn[u] = c \/ (u \in Pages /\ diskConn[u] = c)

PoolExact ==
  /\ \A c \in opened : c \in free \/ \E u \in Users : Holds(u, c)
  /\ \A u \in Users, c \in Conns : Holds(u, c) =>
        /\ c \in opened \ free
        /\ at[u] # "away"
        /\ \A v \in Users : Holds(v, c) => v = u
  /\ \A p \in Pages : conn[p] # NoConn => conn[p] # diskConn[p]

(* A connection nobody holds, or whose user goes on without another one.   *)
Usable(c) == \/ c \in free
             \/ c \notin opened
             \/ \E u \in Users : Holds(u, c) /\ at[u] # "asking"

(* With fewer pages than connections the queries of ListMachines never     *)
(* hold all of them while they wait for one more (store.go:898): among     *)
(* them, what no path has leaked included, one can still be used.          *)
NoCircularWait == \E c \in Conns : Usable(c)

(* Then every page request comes to its end.                               *)
PageAnswered == \A p \in Pages : at[p] # "away" ~> at[p] = "away"

(* Every disk belongs to a metric: disk_snapshots.metric_id REFERENCES     *)
(* metric_snapshots(id) ON DELETE CASCADE (store.go:112).                  *)
NoOrphanDisks == disks \subseteq metrics
=============================================================================
