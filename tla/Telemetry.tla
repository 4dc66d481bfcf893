----------------------------- MODULE Telemetry -----------------------------
(***************************************************************************)
(* What the agent measures, what the store keeps of it and what a browser  *)
(* shows: metrics with their disks, temperatures with their readings, the  *)
(* hardware; their retention; the queries of a page; the live view, which  *)
(* asks again every five seconds; and the alarm of a full disk.            *)
(*                                                                         *)
(* The three kinds of report have one shape.  A report has a head (a row   *)
(* of metric_snapshots, temperature_reports or hardware_inventory) and,    *)
(* unless it is bare, parts (rows of disk_snapshots or                     *)
(* temperature_snapshots), which a page reads by a query of their own,     *)
(* keyed by the head.  No statement touches two kinds, so that a behaviour *)
(* follows the one in "kind", of one machine.                              *)
(*                                                                         *)
(* Reports are numbered in the order of their collection.  A stamp is the  *)
(* agent's clock at that moment, in nanoseconds, hence no two are the      *)
(* same; a clock that is set back gives a smaller one to a later report.   *)
(* Retention goes by the server's clock, and is the set "old" here.        *)
(*                                                                         *)
(* Percentages are whole numbers.  Left out: last_seen_at (Presence), the  *)
(* history of 60 metrics, and two of the three thresholds, which are like  *)
(* the third.                                                              *)
(*                                                                         *)
(* A definition marked "variant" is the one below it with a defect such    *)
(* code could have; no specification uses it.  It serves to see that the   *)
(* properties notice the defect.                                           *)
(***************************************************************************)
EXTENDS Integers

CONSTANTS Requests,     \* requests a browser may have under way
          NoAnswer,     \* what a browser shows that has no page open
          MaxReports,   \* bound: reports collected
          MaxStamp,     \* bound: different stamps
          UsedPercent,  \* the fullest disk of each report, as it was sent
          FormValues    \* what operators type into the settings form

Reports == 1..MaxReports
NoReport == 0
Stamps  == 1..MaxStamp
Kinds   == {"metrics", "temperatures", "hardware"}

ASSUME TelemetryAssumption ==
  /\ MaxReports \in Nat /\ MaxStamp \in Nat
  /\ UsedPercent \in [Reports -> Int]
  /\ FormValues \subseteq Int

VARIABLES kind,         \* the kind of report this behaviour is about
          at,           \* stamp of each report, 0 before its collection
          bare,         \* reports collected without parts: no disk, no sensor
          flight,       \* reports posted and not yet recorded
          heads,        \* reports whose head is in the database
          parts,        \* reports whose parts are
          old,          \* recorded reports the retention time has passed for
          limit,        \* storage_percent of alert_settings, 0 without a row
          request,      \* what each request of the browser has read
          shown,        \* the answer the browser shows
          overtaken     \* requests since whose start another was shown (history)

tables  == <<flight, heads, parts, old>>
browser == <<request, shown, overtaken>>
vars    == <<kind, at, bare, tables, limit, browser>>

NoRow  == 0
NoRequest == [step |-> "none", limit |-> NoRow, head |-> NoReport,
              parts |-> {}, alarm |-> FALSE]

Init == /\ kind \in Kinds
        /\ at = [n \in Reports |-> 0]
        /\ bare = {}
        /\ flight = {}
        /\ heads = {}
        /\ parts = {}
        /\ old = {}
        /\ limit = NoRow
        /\ request = [q \in Requests |-> NoRequest]
        /\ shown = NoAnswer
        /\ overtaken = [q \in Requests |-> FALSE]

-----------------------------------------------------------------------------
(* The agent.                                                              *)

(* The next report is collected, at whatever its clock says, and posted.   *)
Collect(n, s, without) == /\ at[n] = 0
                          /\ \A m \in Reports : m < n => at[m] # 0
                          /\ \A m \in Reports : at[m] # s
                          /\ at' = [at EXCEPT ![n] = s]
                          /\ bare' = IF without THEN bare \cup {n} ELSE bare
                          /\ flight' = flight \cup {n}
                          /\ UNCHANGED <<kind, heads, parts, old, limit, browser>>

(* A query of the disks or of the sensors that fails finds none; hardware  *)
(* is one row, whose memory modules are a text in it.                      *)
CollectMetrics(n, s) ==
  kind = "metrics" /\ \E without \in BOOLEAN : Collect(n, s, without)

CollectTemperatures(n, s) ==
  kind = "temperatures" /\ \E without \in BOOLEAN : Collect(n, s, without)

CollectHardware(n, s) == kind = "hardware" /\ Collect(n, s, TRUE)

(* The report fails on its way or in the transaction: it is not sent again. *)
Lose(n) == /\ n \in flight
           /\ flight' = flight \ {n}
           /\ UNCHANGED <<kind, at, bare, heads, parts, old, limit, browser>>

-----------------------------------------------------------------------------
(* The store.                                                              *)

Arrives(n) == n \in flight /\ flight' = flight \ {n}

(* A metric and its disks are written by one transaction.                  *)
RecordMetrics(n) == /\ kind = "metrics"
                    /\ Arrives(n)
                    /\ heads' = heads \cup {n}
                    /\ parts' = parts \cup ({n} \ bare)
                    /\ UNCHANGED <<kind, at, bare, old, limit, browser>>

(* So are a temperature report and its readings.  The report overwrites    *)
(* the machine's row, whatever its stamp: a late one takes it back.        *)
RecordTemperatures(n) == /\ kind = "temperatures"
                         /\ Arrives(n)
                         /\ heads' = {n}
                         /\ parts' = parts \cup ({n} \ bare)
                         /\ UNCHANGED <<kind, at, bare, old, limit, browser>>

(* And so does a hardware report.                                          *)
RecordHardware(n) == /\ kind = "hardware"
                     /\ Arrives(n)
                     /\ heads' = {n}
                     /\ UNCHANGED <<kind, at, bare, parts, old, limit, browser>>

Age(n) == /\ n \in (heads \cup parts) \ old
          /\ old' = old \cup {n}
          /\ UNCHANGED <<kind, at, bare, flight, heads, parts, limit, browser>>

(* DELETE FROM metric_snapshots.  The disks follow or not (StorePool).     *)
CleanupMetrics == /\ kind = "metrics"
                  /\ heads' = heads \ old
                  /\ parts' \in {parts, parts \ (heads \cap old)}
                  /\ UNCHANGED <<kind, at, bare, flight, old, limit, browser>>

(* DELETE FROM temperature_snapshots.  No statement ever deletes a row of  *)
(* temperature_reports or hardware_inventory.                              *)
CleanupTemperatures == /\ kind = "temperatures"
                       /\ parts' = parts \ old
                       /\ UNCHANGED <<kind, at, bare, flight, heads, old, limit, browser>>

-----------------------------------------------------------------------------
(* The alarm.                                                              *)

DefaultLimit == 90

normalizeThreshold_Uncapped(value) ==    \* variant: no upper bound
  IF value <= 0 THEN DefaultLimit ELSE value

normalizeThreshold(value) == IF value <= 0 THEN DefaultLimit
                             ELSE IF value > 100 THEN 100
                             ELSE value

clampPercent(value) == IF value < 0 THEN 0
                       ELSE IF value > 100 THEN 100
                       ELSE value

(* handleSaveAlertSettings: parseFormPercent normalises, and so does       *)
(* SaveAlertSettings.  A text that is no number counts as the default,     *)
(* which 0 gives too; NaN passes both and fails at the NOT NULL column.    *)
(* The settings concern metrics only.                                      *)
SaveAlertSettings(value) ==
  /\ kind = "metrics"
  /\ limit' = normalizeThreshold(normalizeThreshold(value))
  /\ UNCHANGED <<kind, at, bare, tables, browser>>

(* What AlertSettings returns. *)
AlertSettings == IF limit = NoRow THEN DefaultLimit ELSE normalizeThreshold(limit)

StorageAlert_Above(disks, threshold) ==    \* variant: > for >=
  \E n \in disks : clampPercent(UsedPercent[n]) > threshold

(* buildAlerts, of the disks read.                                         *)
StorageAlert(disks, threshold) ==
  \E n \in disks : clampPercent(UsedPercent[n]) >= threshold

-----------------------------------------------------------------------------
(* A page: one request, a few queries, an answer.                          *)

Last_Unordered(rows) == rows        \* variant: no ORDER BY

(* ORDER BY collected_at DESC LIMIT 1.                                     *)
Last(rows) == {n \in rows : \A m \in rows : at[m] <= at[n]}

HeadRead_Cached(h) ==               \* variant: a cached answer
  IF shown # NoAnswer THEN h = shown.head
  ELSE IF heads = {} THEN h = NoReport ELSE h \in Last(heads)

(* The head that ListMachines, temperatureStatus or hardwareInventory finds. *)
HeadRead(h) == IF heads = {} THEN h = NoReport ELSE h \in Last(heads)

PartsRead_OfMachine(h) ==           \* variant: whatever parts the machine has
  IF h = NoReport THEN {} ELSE parts

(* The disks of listDisksForMetric, by metric id; the readings of the      *)
(* second query of temperatureStatus, by collected_at.                     *)
PartsRead(h) == parts \cap {h}

Begin(q) == /\ request[q].step = "none"
            /\ request' = [request EXCEPT ![q].step = "sent"]
            /\ overtaken' = [overtaken EXCEPT ![q] = FALSE]
            /\ UNCHANGED <<kind, at, bare, tables, limit, shown>>

(* A page is opened, or loaded again, with no other request under way.     *)
Load(q) == /\ shown = NoAnswer
           /\ \A r \in Requests : request[r].step = "none"
           /\ Begin(q)

(* setInterval calls load, whether or not the former request is answered.  *)
Poll(q) == /\ shown # NoAnswer
           /\ Begin(q)

ReadSettings(q) ==
  /\ request[q].step = "sent"
  /\ request' = [request EXCEPT ![q].step = "settings", ![q].limit = AlertSettings]
  /\ UNCHANGED <<kind, at, bare, tables, limit, shown, overtaken>>

ReadHead(q) ==
  /\ request[q].step = "settings"
  /\ \E h \in Reports \cup {NoReport} :
        /\ HeadRead(h)
        /\ request' = [request EXCEPT ![q].step = "head", ![q].head = h]
  /\ UNCHANGED <<kind, at, bare, tables, limit, shown, overtaken>>

ReadParts(q) ==
  /\ request[q].step = "head"
  /\ LET read == PartsRead(request[q].head)
     IN request' = [request EXCEPT
                      ![q].step = "answer",
                      ![q].parts = read,
                      ![q].alarm = kind = "metrics"
                                   /\ StorageAlert(read, request[q].limit)]
  /\ UNCHANGED <<kind, at, bare, tables, limit, shown, overtaken>>

Answer(q) == [head |-> request[q].head, parts |-> request[q].parts,
              alarm |-> request[q].alarm]

(* The answer arrives and the page is rendered from it, all of it.         *)
Render(q) ==
  /\ request[q].step = "answer"
  /\ shown' = Answer(q)
  /\ request' = [request EXCEPT ![q] = NoRequest]
  /\ overtaken' = [r \in Requests |-> request[r].step # "none" /\ r # q]
  /\ UNCHANGED <<kind, at, bare, tables, limit>>

(* An error of any kind: a poll is ignored, a page is not opened.          *)
Fail(q) == /\ request[q].step # "none"
           /\ request' = [request EXCEPT ![q] = NoRequest]
           /\ overtaken' = [overtaken EXCEPT ![q] = FALSE]
           /\ UNCHANGED <<kind, at, bare, tables, limit, shown>>

(* The user leaves the page, and its requests with it.                     *)
Close == /\ shown # NoAnswer
         /\ shown' = NoAnswer
         /\ request' = [q \in Requests |-> NoRequest]
         /\ overtaken' = [q \in Requests |-> FALSE]
         /\ UNCHANGED <<kind, at, bare, tables, limit>>

-----------------------------------------------------------------------------
Next == \/ \E n \in Reports : \/ \E s \in Stamps : \/ CollectMetrics(n, s)
                                                   \/ CollectTemperatures(n, s)
                                                   \/ CollectHardware(n, s)
                              \/ Lose(n)
                              \/ RecordMetrics(n)
                              \/ RecordTemperatures(n)
                              \/ RecordHardware(n)
                              \/ Age(n)
        \/ CleanupMetrics
        \/ CleanupTemperatures
        \/ \E value \in FormValues : SaveAlertSettings(value)
        \/ \E q \in Requests : \/ Load(q) \/ Poll(q)
                               \/ ReadSettings(q) \/ ReadHead(q) \/ ReadParts(q)
                               \/ Render(q)
                               \/ Fail(q)
        \/ Close

Spec == Init /\ [][Next]_vars

-----------------------------------------------------------------------------
(* Properties.                                                             *)

Answers == [head : Reports \cup {NoReport}, parts : SUBSET Reports, alarm : BOOLEAN]

Readings == [step : {"none", "sent", "settings", "head", "answer"}, limit : 0..100,
             head : Reports \cup {NoReport}, parts : SUBSET Reports, alarm : BOOLEAN]

TypeOK ==
  /\ kind \in Kinds
  /\ at \in [Reports -> Stamps \cup {0}]
  /\ bare \subseteq Reports
  /\ flight \subseteq Reports
  /\ heads \subseteq Reports
  /\ parts \subseteq Reports
  /\ old \subseteq Reports
  /\ limit \in 0..100
  /\ request \in [Requests -> Readings]
  /\ shown \in Answers \cup {NoAnswer}
  /\ overtaken \in [Requests -> BOOLEAN]

(* The head and the parts of an answer belong together though two queries  *)
(* read them (store.go:898, store.go:1079) and reports and retention come  *)
(* in between: no page has the disks or readings of another report, and it *)
(* lacks those of its own only if their retention time has passed.         *)
Whole(answer) ==
  IF answer.head \in Reports \ bare
  THEN \/ answer.parts = {answer.head}
       \/ answer.parts = {} /\ answer.head \in old
  ELSE answer.parts = {}

PageWhole ==
  /\ \A q \in Requests : request[q].step = "answer" => Whole(Answer(q))
  /\ shown # NoAnswer => Whole(shown)

(* Whatever operators save, a full disk that is shown is alarmed and an    *)
(* empty one is not: the stored threshold stays within 1..100              *)
(* (normalizeThreshold) and the percentage within 0..100 (clampPercent).   *)
AlarmAtEnds ==
  kind = "metrics" /\ shown # NoAnswer =>
     \A n \in shown.parts : /\ UsedPercent[n] >= 100 => shown.alarm
                            /\ UsedPercent[n] <= 0 => ~shown.alarm

(* The metric on the page gives way to one collected earlier only if the   *)
(* clock was set back in between, if its retention time has passed, or if  *)
(* the answer had been asked for before the page showed it: setInterval    *)
(* does not wait (app.js:427).  Late and lost reports do not matter.       *)
Backwards == /\ kind = "metrics"
             /\ shown # NoAnswer
             /\ shown' # NoAnswer
             /\ shown'.head < shown.head

Excused == \/ shown.head \in old
           \/ shown'.head # NoReport /\ at[shown'.head] > at[shown.head]
           \/ \E q \in Requests : overtaken[q] /\ request'[q].step = "none"

LiveForward == [][Backwards => Excused]_vars

(* The page does not stay behind: while answers keep arriving it comes to   *)
(* show what the database holds, and stays there once the last report is   *)
(* in, whatever answers were lost, late or out of order (no-store, and     *)
(* every answer rendered whole).                                           *)
UpToDate ==
  shown # NoAnswer =>
     /\ IF heads = {} THEN shown.head = NoReport
        ELSE shown.head \in heads /\ \A n \in heads : at[n] <= at[shown.head]
     /\ shown.parts = parts \cap {shown.head}

Answered == \E q \in Requests : Render(q)

LiveCatchesUp == []<><<Answered>>_vars => <>[]UpToDate
=============================================================================
