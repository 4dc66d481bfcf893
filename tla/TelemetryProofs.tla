--------------------------- MODULE TelemetryProofs -------------------------
(***************************************************************************)
(* For any number of reports, requests and stamps: a page is whole, its    *)
(* alarm is right at both ends, and the live view does not go back.        *)
(***************************************************************************)
EXTENDS Telemetry, TLAPS

(* What is in the database or on its way has been collected; no two stamps *)
(* are the same; hardware has no parts.                                    *)
Collected ==
  /\ \A n \in heads \cup parts \cup flight \cup bare : at[n] # 0
  /\ \A m, n \in Reports : m # n /\ at[m] # 0 => at[m] # at[n]
  /\ kind = "hardware" => flight \subseteq bare

(* A head lacks its parts only if it came without or they were purged.     *)
Complete(n) == at[n] # 0 /\ n \in bare \cup parts \cup old

Kept == /\ \A n \in heads : Complete(n)
        /\ parts \cap bare = {}

(* The alarm of an answer.                                                 *)
Right(answer) == \A n \in answer.parts : /\ UsedPercent[n] >= 100 => answer.alarm
                                         /\ UsedPercent[n] <= 0 => ~answer.alarm

(* A metric that was read stays in the database until it is old.           *)
Seen(h) == h = NoReport \/ h \in heads \cup old

(* What a request has read so far.                                         *)
HasHead(q) == request[q].step \in {"head", "answer"}

RequestInv(q) ==
  /\ request[q].step \in {"settings", "head", "answer"} => request[q].limit \in 1..100
  /\ HasHead(q) /\ request[q].head # NoReport => Complete(request[q].head)
  /\ HasHead(q) /\ kind = "metrics" => Seen(request[q].head)
  /\ request[q].step = "answer" => Whole(Answer(q)) /\ (kind = "metrics" => Right(Answer(q)))

(* What the page shows.                                                    *)
ShownInv ==
  shown # NoAnswer =>
     /\ shown.head # NoReport => at[shown.head] # 0
     /\ Whole(shown)
     /\ kind = "metrics" => Right(shown) /\ Seen(shown.head)

(* A request that read its head while the page showed what it shows now    *)
(* found nothing staler.                                                   *)
NotStaler(h) == \/ shown.head \in old \cup {NoReport}
                \/ h # NoReport /\ at[h] >= at[shown.head]

OrderInv(q) ==
  kind = "metrics" /\ shown # NoAnswer /\ HasHead(q) /\ ~overtaken[q] =>
     NotStaler(request[q].head)

PagesInv == ShownInv /\ \A q \in Requests : RequestInv(q) /\ OrderInv(q)

DataInv == TypeOK /\ Collected /\ Kept
IInv == DataInv /\ PagesInv

-----------------------------------------------------------------------------
(* Whatever is saved or read, a threshold lies within 1..100.              *)
LEMMA Thresholds ==
  /\ \A v \in Int : normalizeThreshold(v) \in 1..100
  /\ limit \in 0..100 => AlertSettings \in 1..100
BY DEF normalizeThreshold, AlertSettings, DefaultLimit, NoRow

(* So is the one that is stored.                                           *)
LEMMA SavedLimit == ASSUME NEW value \in FormValues, SaveAlertSettings(value)
                    PROVE  limit' \in 0..100
<1>1. value \in Int
  BY TelemetryAssumption
<1>2. PICK v \in 1..100 : v = normalizeThreshold(value)
  BY <1>1, Thresholds
<1>3. PICK w \in 1..100 : w = normalizeThreshold(v)
  BY Thresholds
<1>4. limit' = w
  BY <1>2, <1>3 DEF SaveAlertSettings
<1>5. QED
  BY <1>4

(* A threshold within 1..100 alarms the one disk of a page if it is full   *)
(* and not if it is empty.                                                 *)
LEMMA AlarmEnds ==
  ASSUME NEW n \in Reports, NEW l \in 1..100
  PROVE  /\ UsedPercent[n] >= 100 => StorageAlert({n}, l)
         /\ UsedPercent[n] <= 0 => ~StorageAlert({n}, l)
BY TelemetryAssumption DEF StorageAlert, clampPercent

(* A request that has not begun is one.                                    *)
LEMMA Idle == NoRequest \in Readings /\ NoRequest.step = "none"
BY DEF NoRequest, Readings, NoRow, NoReport

(* Nothing is collected, read or saved at first.                           *)
LEMMA InitInv == Init => IInv
<1> SUFFICES ASSUME Init PROVE IInv
  OBVIOUS
<1>1. TypeOK
  BY Idle, TelemetryAssumption DEF Init, TypeOK, Kinds, NoRow, Answers, Reports, Stamps
<1>2. \A q \in Requests : request[q].step = "none"
  BY Idle DEF Init
<1>3. Collected /\ Kept
  BY DEF Init, Collected, Kept
<1>4. PagesInv
  BY <1>2 DEF Init, PagesInv, ShownInv, RequestInv, OrderInv, HasHead
<1>5. QED
  BY <1>1, <1>3, <1>4 DEF IInv, DataInv

(* The other requests are not touched.                                     *)
Sets(q, n) == /\ request' \in [Requests -> Readings]
              /\ request'[q] = n
              /\ \A r \in Requests \ {q} : request'[r] = request[r]

(* A request that is replaced by another of the type.                     *)
LEMMA Assigned ==
  ASSUME TypeOK, NEW q \in Requests, NEW n \in Readings, request' = [request EXCEPT ![q] = n]
  PROVE  Sets(q, n)
BY DEF TypeOK, Sets

(* A request is sent.                                                      *)
LEMMA BeginSets == ASSUME TypeOK, NEW q \in Requests, Begin(q)
                   PROVE  \E n \in Readings : Sets(q, n) /\ n.step = "sent"
<1> PICK r \in Readings : r = request[q]
  BY DEF TypeOK
<1> DEFINE n == [r EXCEPT !.step = "sent"]
<1>1. n \in Readings /\ n.step = "sent"
  BY DEF Readings
<1>2. request' = [request EXCEPT ![q] = n]
  BY DEF Begin
<1>3. QED
  BY <1>1, <1>2, Assigned

(* It reads a threshold within the range.                                  *)
LEMMA SettingsSets == ASSUME TypeOK, NEW q \in Requests, ReadSettings(q)
                      PROVE  \E n \in Readings : /\ Sets(q, n)
                                                 /\ n.step = "settings"
                                                 /\ n.limit \in 1..100
<1> PICK r \in Readings : r = request[q]
  BY DEF TypeOK
<1>1. PICK l \in 0..100 : l = AlertSettings /\ l \in 1..100
  BY Thresholds DEF TypeOK
<1> DEFINE n == [r EXCEPT !.step = "settings", !.limit = l]
<1>2. n \in Readings /\ n.step = "settings" /\ n.limit = l
  BY DEF Readings
<1>3. request' = [request EXCEPT ![q] = n]
  BY <1>1 DEF ReadSettings
<1>4. QED
  BY <1>1, <1>2, <1>3, Assigned

(* It reads a head.                                                        *)
LEMMA HeadSets == ASSUME TypeOK, NEW q \in Requests, ReadHead(q)
                  PROVE  \E n \in Readings : /\ Sets(q, n)
                                             /\ n.step = "head"
                                             /\ HeadRead(n.head)
                                             /\ n.limit = request[q].limit
<1>1. PICK h \in Reports \cup {NoReport} :
        /\ HeadRead(h)
        /\ request' = [request EXCEPT ![q].step = "head", ![q].head = h]
  BY DEF ReadHead
<1> PICK r \in Readings : r = request[q]
  BY DEF TypeOK
<1> DEFINE n == [r EXCEPT !.step = "head", !.head = h]
<1>2. n \in Readings /\ n.step = "head" /\ n.head = h /\ n.limit = r.limit
  BY DEF Readings
<1>3. request' = [request EXCEPT ![q] = n]
  BY <1>1
<1>4. QED
  BY <1>1, <1>2, <1>3, Assigned

(* It reads parts and computes the alarm.                                  *)
LEMMA PartsSets ==
  ASSUME TypeOK, NEW q \in Requests, ReadParts(q)
  PROVE  \E n \in Readings :
            /\ Sets(q, n)
            /\ n.step = "answer" /\ n.head = request[q].head
            /\ n.parts = PartsRead(n.head)
            /\ n.alarm = (kind = "metrics" /\ StorageAlert(n.parts, request[q].limit))
            /\ n.limit = request[q].limit
<1> PICK r \in Readings : r = request[q]
  BY DEF TypeOK
<1>1. PICK s \in SUBSET Reports : s = PartsRead(r.head)
  BY DEF TypeOK, PartsRead
<1>2. PICK a \in BOOLEAN : a = (kind = "metrics" /\ StorageAlert(s, r.limit))
  OBVIOUS
<1> DEFINE n == [r EXCEPT !.step = "answer", !.parts = s, !.alarm = a]
<1>3. n \in Readings /\ n.step = "answer" /\ n.parts = s /\ n.alarm = a /\ n.head = r.head
        /\ n.limit = r.limit
  BY DEF Readings
<1>4. request' = [request EXCEPT ![q] = n]
  BY <1>1, <1>2 DEF ReadParts
<1>5. Sets(q, n)
  BY <1>3, <1>4, Assigned
<1>6. n.parts = PartsRead(n.head)
  BY <1>1, <1>3
<1>7. n.alarm = (kind = "metrics" /\ StorageAlert(n.parts, request[q].limit))
  BY <1>2, <1>3
<1>8. QED
  BY <1>3, <1>5, <1>6, <1>7

(* It is over.                                                            *)
LEMMA FailSets == ASSUME TypeOK, NEW q \in Requests,
                         request' = [request EXCEPT ![q] = NoRequest]
                  PROVE  Sets(q, NoRequest)
BY Idle, Assigned

-----------------------------------------------------------------------------
(* Types are kept.                                                         *)
LEMMA TypeStep == TypeOK /\ [Next]_vars => TypeOK'
<1> SUFFICES ASSUME TypeOK, [Next]_vars PROVE TypeOK'
  OBVIOUS
<1> USE TelemetryAssumption DEF TypeOK, Answers, Reports, NoReport, Stamps, Kinds, NoRow, NoRequest, vars, tables, browser
<1>1. ASSUME NEW n \in Reports, NEW s \in Stamps, CollectMetrics(n,s) PROVE TypeOK'
  BY <1>1 DEF CollectMetrics, Collect
<1>2. ASSUME NEW n \in Reports, NEW s \in Stamps, CollectTemperatures(n,s) PROVE TypeOK'
  BY <1>2 DEF CollectTemperatures, Collect
<1>3. ASSUME NEW n \in Reports, NEW s \in Stamps, CollectHardware(n,s) PROVE TypeOK'
  BY <1>3 DEF CollectHardware, Collect
<1>4. ASSUME NEW n \in Reports, Lose(n) PROVE TypeOK'
  BY <1>4 DEF Lose
<1>5. ASSUME NEW n \in Reports, RecordMetrics(n) PROVE TypeOK'
  BY <1>5 DEF RecordMetrics, Arrives
<1>6. ASSUME NEW n \in Reports, RecordTemperatures(n) PROVE TypeOK'
  BY <1>6 DEF RecordTemperatures, Arrives
<1>7. ASSUME NEW n \in Reports, RecordHardware(n) PROVE TypeOK'
  BY <1>7 DEF RecordHardware, Arrives
<1>8. ASSUME NEW n \in Reports, Age(n) PROVE TypeOK'
  BY <1>8 DEF Age
<1>9. CASE CleanupMetrics
  BY <1>9 DEF CleanupMetrics
<1>10. CASE CleanupTemperatures
  BY <1>10 DEF CleanupTemperatures
<1>11. ASSUME NEW value \in FormValues, SaveAlertSettings(value) PROVE TypeOK'
  BY <1>11, SavedLimit DEF SaveAlertSettings
<1>12. ASSUME NEW q \in Requests, Load(q) PROVE TypeOK'
  BY <1>12, BeginSets DEF Load, Begin, Sets
<1>13. ASSUME NEW q \in Requests, Poll(q) PROVE TypeOK'
  BY <1>13, BeginSets DEF Poll, Begin, Sets
<1>14. ASSUME NEW q \in Requests, ReadSettings(q) PROVE TypeOK'
  BY <1>14, SettingsSets DEF ReadSettings, Sets
<1>15. ASSUME NEW q \in Requests, ReadHead(q) PROVE TypeOK'
  BY <1>15, HeadSets DEF ReadHead, Sets
<1>16. ASSUME NEW q \in Requests, ReadParts(q) PROVE TypeOK'
  BY <1>16, PartsSets DEF ReadParts, Sets
<1>17. ASSUME NEW q \in Requests, Render(q) PROVE TypeOK'
  BY <1>17, FailSets DEF Render, Sets, Answer, Readings
<1>18. ASSUME NEW q \in Requests, Fail(q) PROVE TypeOK'
  BY <1>18, FailSets DEF Fail, Sets
<1>19. CASE Close
  BY <1>19, Idle DEF Close
<1>20. CASE UNCHANGED vars
  BY <1>20
<1>21. QED
  BY <1>1, <1>2, <1>3, <1>4, <1>5, <1>6, <1>7, <1>8, <1>9, <1>10, <1>11,
     <1>12, <1>13, <1>14, <1>15, <1>16, <1>17, <1>18, <1>19, <1>20 DEF
     Next

(* No step loses parts that are not old.                                   *)
LEMMA DataStep == DataInv /\ [Next]_vars => Collected' /\ Kept'
<1> SUFFICES ASSUME DataInv, [Next]_vars PROVE Collected' /\ Kept'
  OBVIOUS
<1> USE TelemetryAssumption DEF DataInv, TypeOK, Collected, Kept, Complete, Reports, NoReport, Stamps, Kinds, NoRow, NoRequest, vars, tables, browser
<1>1. ASSUME NEW n \in Reports, NEW s \in Stamps, CollectMetrics(n,s) PROVE Collected' /\ Kept'
  BY <1>1 DEF CollectMetrics, Collect
<1>2. ASSUME NEW n \in Reports, NEW s \in Stamps, CollectTemperatures(n,s) PROVE Collected' /\ Kept'
  BY <1>2 DEF CollectTemperatures, Collect
<1>3. ASSUME NEW n \in Reports, NEW s \in Stamps, CollectHardware(n,s) PROVE Collected' /\ Kept'
  BY <1>3 DEF CollectHardware, Collect
<1>4. ASSUME NEW n \in Reports, Lose(n) PROVE Collected' /\ Kept'
  BY <1>4 DEF Lose
<1>5. ASSUME NEW n \in Reports, RecordMetrics(n) PROVE Collected' /\ Kept'
  BY <1>5 DEF RecordMetrics, Arrives
<1>6. ASSUME NEW n \in Reports, RecordTemperatures(n) PROVE Collected' /\ Kept'
  BY <1>6 DEF RecordTemperatures, Arrives
<1>7. ASSUME NEW n \in Reports, RecordHardware(n) PROVE Collected' /\ Kept'
  BY <1>7 DEF RecordHardware, Arrives
<1>8. ASSUME NEW n \in Reports, Age(n) PROVE Collected' /\ Kept'
  BY <1>8 DEF Age
<1>9. CASE CleanupMetrics
  BY <1>9 DEF CleanupMetrics
<1>10. CASE CleanupTemperatures
  BY <1>10 DEF CleanupTemperatures
<1>11. ASSUME NEW value \in FormValues, SaveAlertSettings(value) PROVE Collected' /\ Kept'
  BY <1>11 DEF SaveAlertSettings
<1>12. ASSUME NEW q \in Requests, Load(q) PROVE Collected' /\ Kept'
  BY <1>12 DEF Load, Begin
<1>13. ASSUME NEW q \in Requests, Poll(q) PROVE Collected' /\ Kept'
  BY <1>13 DEF Poll, Begin
<1>14. ASSUME NEW q \in Requests, ReadSettings(q) PROVE Collected' /\ Kept'
  BY <1>14 DEF ReadSettings
<1>15. ASSUME NEW q \in Requests, ReadHead(q) PROVE Collected' /\ Kept'
  BY <1>15 DEF ReadHead
<1>16. ASSUME NEW q \in Requests, ReadParts(q) PROVE Collected' /\ Kept'
  BY <1>16 DEF ReadParts
<1>17. ASSUME NEW q \in Requests, Render(q) PROVE Collected' /\ Kept'
  BY <1>17 DEF Render, Answer
<1>18. ASSUME NEW q \in Requests, Fail(q) PROVE Collected' /\ Kept'
  BY <1>18 DEF Fail
<1>19. CASE Close
  BY <1>19 DEF Close
<1>20. CASE UNCHANGED vars
  BY <1>20
<1>21. QED
  BY <1>1, <1>2, <1>3, <1>4, <1>5, <1>6, <1>7, <1>8, <1>9, <1>10, <1>11,
     <1>12, <1>13, <1>14, <1>15, <1>16, <1>17, <1>18, <1>19, <1>20 DEF
     Next

(* What is collected keeps its stamp, what was complete stays so, and no   *)
(* metric is deleted that is not old.                                      *)
Grows ==
  /\ kind' = kind
  /\ old \subseteq old'
  /\ \A n \in Reports : at[n] # 0 => at'[n] = at[n] /\ (n \in bare' <=> n \in bare)
  /\ \A n \in Reports : Complete(n) => Complete(n)'
  /\ kind = "metrics" => heads \cup old \subseteq heads' \cup old'

(* Every step keeps what Grows says.                                       *)
LEMMA GrowStep == DataInv /\ [Next]_vars => Grows
<1> SUFFICES ASSUME DataInv, [Next]_vars PROVE Grows
  OBVIOUS
<1> USE DEF DataInv, TypeOK, Collected, Grows, Complete, vars, tables, browser
<1>1. ASSUME NEW n \in Reports, NEW s \in Stamps, CollectMetrics(n,s) PROVE Grows
  BY <1>1 DEF CollectMetrics, Collect
<1>2. ASSUME NEW n \in Reports, NEW s \in Stamps, CollectTemperatures(n,s) PROVE Grows
  BY <1>2 DEF CollectTemperatures, Collect
<1>3. ASSUME NEW n \in Reports, NEW s \in Stamps, CollectHardware(n,s) PROVE Grows
  BY <1>3 DEF CollectHardware, Collect
<1>4. ASSUME NEW n \in Reports, Lose(n) PROVE Grows
  BY <1>4 DEF Lose
<1>5. ASSUME NEW n \in Reports, RecordMetrics(n) PROVE Grows
  BY <1>5 DEF RecordMetrics, Arrives
<1>6. ASSUME NEW n \in Reports, RecordTemperatures(n) PROVE Grows
  BY <1>6 DEF RecordTemperatures, Arrives
<1>7. ASSUME NEW n \in Reports, RecordHardware(n) PROVE Grows
  BY <1>7 DEF RecordHardware, Arrives
<1>8. ASSUME NEW n \in Reports, Age(n) PROVE Grows
  BY <1>8 DEF Age
<1>9. CASE CleanupMetrics
  BY <1>9 DEF CleanupMetrics
<1>10. CASE CleanupTemperatures
  BY <1>10 DEF CleanupTemperatures
<1>11. ASSUME NEW value \in FormValues, SaveAlertSettings(value) PROVE Grows
  BY <1>11 DEF SaveAlertSettings
<1>12. ASSUME NEW q \in Requests, Load(q) PROVE Grows
  BY <1>12 DEF Load, Begin
<1>13. ASSUME NEW q \in Requests, Poll(q) PROVE Grows
  BY <1>13 DEF Poll, Begin
<1>14. ASSUME NEW q \in Requests, ReadSettings(q) PROVE Grows
  BY <1>14 DEF ReadSettings
<1>15. ASSUME NEW q \in Requests, ReadHead(q) PROVE Grows
  BY <1>15 DEF ReadHead
<1>16. ASSUME NEW q \in Requests, ReadParts(q) PROVE Grows
  BY <1>16 DEF ReadParts
<1>17. ASSUME NEW q \in Requests, Render(q) PROVE Grows
  BY <1>17 DEF Render, Answer
<1>18. ASSUME NEW q \in Requests, Fail(q) PROVE Grows
  BY <1>18 DEF Fail
<1>19. CASE Close
  BY <1>19 DEF Close
<1>20. CASE UNCHANGED vars
  BY <1>20
<1>21. QED
  BY <1>1, <1>2, <1>3, <1>4, <1>5, <1>6, <1>7, <1>8, <1>9, <1>10, <1>11,
     <1>12, <1>13, <1>14, <1>15, <1>16, <1>17, <1>18, <1>19, <1>20 DEF
     Next

(* A step concerns the browser in one of seven ways, or not at all.        *)
LEMMA Ways ==
  ASSUME [Next]_vars
  PROVE  \/ UNCHANGED browser
         \/ \E q \in Requests : \/ Begin(q) /\ UNCHANGED shown
                                \/ ReadSettings(q) \/ ReadHead(q) \/ ReadParts(q)
                                \/ Render(q) \/ Fail(q)
         \/ Close
BY DEF Next, vars, CollectMetrics, CollectTemperatures, CollectHardware, Collect, Lose,
   RecordMetrics, RecordTemperatures, RecordHardware, Age, CleanupMetrics,
   CleanupTemperatures, SaveAlertSettings, Load, Poll, Begin

-----------------------------------------------------------------------------
(* A whole answer stays one, since what was collected is not changed.      *)
LEMMA StillWhole ==
  ASSUME DataInv, Grows, NEW a \in Answers, Whole(a), a.head # NoReport => at[a.head] # 0
  PROVE  Whole(a)'
<1>1. a.head \in Reports => at[a.head] # 0
  BY DEF Reports, NoReport
<1>2. a.head \in Reports => (a.head \in bare' <=> a.head \in bare)
  BY <1>1 DEF Grows
<1>3. a.head \in old => a.head \in old'
  BY DEF Grows
<1>4. QED
  BY <1>2, <1>3 DEF Whole

(* So does what a request has read, if no step of its own is taken.        *)
LEMMA Untouched ==
  ASSUME IInv, [Next]_vars, NEW q \in Requests, request'[q] = request[q]
  PROVE  RequestInv(q)'
<1>1. Grows /\ DataInv
  BY GrowStep DEF IInv
<1>2. request[q] \in Readings /\ Answer(q) \in Answers /\ Answer(q)' = Answer(q)
  BY <1>1 DEF DataInv, TypeOK, Readings, Answers, Answer
<1>3. RequestInv(q)
  BY DEF IInv, PagesInv
<1>4. HasHead(q)' = HasHead(q)
  BY DEF HasHead
<1>5. HasHead(q) /\ request[q].head # NoReport => Complete(request[q].head)'
  BY <1>1, <1>2, <1>3 DEF RequestInv, Grows, Readings
<1>6. HasHead(q) /\ kind = "metrics" => Seen(request[q].head)'
  BY <1>1, <1>3 DEF RequestInv, Grows, Seen
<1>7. request[q].step = "answer" => Whole(Answer(q))'
  BY <1>1, <1>2, <1>3, StillWhole DEF RequestInv, Answer, HasHead, Complete
<1>8. request[q].step = "answer" /\ kind = "metrics" => Right(Answer(q))'
  BY <1>2, <1>3 DEF RequestInv, Right
<1>9. kind' = kind
  BY <1>1 DEF Grows
<1>10. QED
  BY <1>3, <1>4, <1>5, <1>6, <1>7, <1>8, <1>9 DEF RequestInv

(* So does the page.                                                       *)
LEMMA PageStays == ASSUME IInv, [Next]_vars, shown' = shown PROVE ShownInv'
<1> SUFFICES ASSUME shown # NoAnswer
             PROVE  /\ shown.head # NoReport => at'[shown.head] # 0
                    /\ Whole(shown)'
                    /\ kind' = "metrics" => Right(shown) /\ Seen(shown.head)'
  BY DEF ShownInv, Right
<1>1. Grows /\ DataInv /\ ShownInv
  BY GrowStep DEF IInv, PagesInv
<1>2. shown \in Answers
  BY <1>1 DEF DataInv, TypeOK
<1>3. shown.head # NoReport => at'[shown.head] # 0
  BY <1>1, <1>2 DEF ShownInv, Grows, Answers
<1>4. Whole(shown)'
  BY <1>1, <1>2, StillWhole DEF ShownInv
<1>5. kind' = "metrics" => Right(shown) /\ Seen(shown.head)'
  BY <1>1 DEF ShownInv, Grows, Seen
<1>6. QED
  BY <1>3, <1>4, <1>5

(* And their order.                                                        *)
LEMMA OrderStays ==
  ASSUME IInv, [Next]_vars, NEW q \in Requests,
         request'[q] = request[q], shown' = shown, overtaken'[q] = overtaken[q]
  PROVE  OrderInv(q)'
<1> SUFFICES ASSUME kind' = "metrics", shown # NoAnswer, HasHead(q), ~overtaken[q]
             PROVE  NotStaler(request[q].head)'
  BY DEF OrderInv, HasHead, NotStaler
<1>1. Grows /\ DataInv /\ ShownInv /\ RequestInv(q) /\ OrderInv(q)
  BY GrowStep DEF IInv, PagesInv
<1>2. NotStaler(request[q].head)
  BY <1>1 DEF OrderInv, Grows
<1>3. shown.head \in Reports \cup {NoReport} /\ request[q].head \in Reports \cup {NoReport}
  BY <1>1 DEF DataInv, TypeOK, Answers, Readings
<1>4. shown.head \in Reports => at'[shown.head] = at[shown.head]
  BY <1>1 DEF ShownInv, Grows, Reports, NoReport
<1>5. request[q].head \in Reports => at'[request[q].head] = at[request[q].head]
  BY <1>1 DEF RequestInv, Complete, Grows, Reports, NoReport
<1>6. QED
  BY <1>1, <1>2, <1>3, <1>4, <1>5 DEF NotStaler, Grows

-----------------------------------------------------------------------------
(* The three queries of a page: the head is the best there is ...          *)
LEMMA HeadStep ==
  ASSUME IInv, [Next]_vars, NEW q \in Requests, ReadHead(q)
  PROVE  RequestInv(q)' /\ OrderInv(q)'
<1>1. TypeOK /\ DataInv /\ ShownInv /\ RequestInv(q)
  BY DEF IInv, DataInv, PagesInv
<1>2. PICK n \in Readings : /\ Sets(q, n)
                            /\ n.step = "head"
                            /\ HeadRead(n.head)
                            /\ n.limit = request[q].limit
  BY <1>1, HeadSets
<1>3. UNCHANGED <<kind, at, bare, tables, limit, shown, overtaken>>
  BY DEF ReadHead
<1>4. \/ n.head = NoReport /\ heads = {}
      \/ n.head \in heads /\ \A m \in heads : at[m] <= at[n.head]
  BY <1>2 DEF HeadRead, Last
<1>5. request[q].step = "settings"
  BY DEF ReadHead
<1>6. RequestInv(q)'
  <2>1. n.head # NoReport => Complete(n.head)'
    BY <1>1, <1>3, <1>4 DEF DataInv, Kept, Complete, tables
  <2>2. Seen(n.head)'
    BY <1>3, <1>4 DEF Seen, tables
  <2>3. n.limit \in 1..100
    BY <1>1, <1>2, <1>5 DEF RequestInv
  <2>4. QED
    BY <1>2, <2>1, <2>2, <2>3 DEF RequestInv, Sets, HasHead
<1>7. OrderInv(q)'
  <2> SUFFICES ASSUME kind = "metrics", shown # NoAnswer, shown.head \notin old \cup {NoReport}
               PROVE  n.head # NoReport /\ at[n.head] >= at[shown.head]
    BY <1>2, <1>3 DEF OrderInv, NotStaler, Sets, tables
  <2>1. shown.head \in heads
    BY <1>1 DEF ShownInv, Seen
  <2>2. n.head \in heads /\ at[shown.head] <= at[n.head]
    BY <1>4, <2>1
  <2>3. n.head \in Reports /\ shown.head \in Reports
    BY <1>1, <2>1, <2>2 DEF TypeOK
  <2>4. at[n.head] \in Int /\ at[shown.head] \in Int
    BY <1>1, <2>3, TelemetryAssumption DEF TypeOK, Stamps
  <2>5. QED
    BY <2>2, <2>3, <2>4 DEF Reports, NoReport
<1>8. QED
  BY <1>6, <1>7

(* ... and the parts are its own.                                          *)
LEMMA PartsStep ==
  ASSUME IInv, [Next]_vars, NEW q \in Requests, ReadParts(q)
  PROVE  RequestInv(q)' /\ OrderInv(q)'
<1>1. TypeOK /\ DataInv /\ RequestInv(q) /\ OrderInv(q)
  BY DEF IInv, DataInv, PagesInv
<1>2. PICK n \in Readings :
            /\ Sets(q, n)
            /\ n.step = "answer" /\ n.head = request[q].head
            /\ n.parts = PartsRead(n.head)
            /\ n.alarm = (kind = "metrics" /\ StorageAlert(n.parts, request[q].limit))
            /\ n.limit = request[q].limit
  BY <1>1, PartsSets
<1>3. UNCHANGED <<kind, at, bare, tables, limit, shown, overtaken>>
  BY DEF ReadParts
<1>4. request[q].step = "head" /\ HasHead(q)
  BY DEF ReadParts, HasHead
<1>5. n.head \in Reports \cup {NoReport} /\ n.parts = parts \cap {n.head}
  BY <1>2 DEF Readings, PartsRead
<1>6. n.head # NoReport => Complete(n.head)
  BY <1>1, <1>2, <1>4 DEF RequestInv
<1>7. Answer(q)' = [head |-> n.head, parts |-> n.parts, alarm |-> n.alarm]
  BY <1>2 DEF Sets, Answer
<1>8. Whole(Answer(q))'
  <2>1. n.head \in Reports \ bare => n.parts = {n.head} \/ (n.parts = {} /\ n.head \in old)
    BY <1>5, <1>6 DEF Complete, NoReport, Reports
  <2>2. n.head \notin Reports \ bare => n.parts = {}
    BY <1>1, <1>5 DEF DataInv, Kept, TypeOK
  <2>3. bare' = bare /\ old' = old
    BY <1>3 DEF tables
  <2>4. QED
    BY <1>7, <2>1, <2>2, <2>3 DEF Whole
<1>9. kind = "metrics" => Right(Answer(q))'
  <2> SUFFICES ASSUME kind = "metrics", NEW m \in n.parts
               PROVE  /\ UsedPercent[m] >= 100 => n.alarm
                      /\ UsedPercent[m] <= 0 => ~n.alarm
    BY <1>7 DEF Right
  <2>1. n.parts = {m} /\ m \in Reports
    BY <1>1, <1>5 DEF TypeOK
  <2>2. request[q].limit \in 1..100
    BY <1>1, <1>4 DEF RequestInv
  <2>3. n.alarm <=> StorageAlert({m}, request[q].limit)
    BY <1>2, <2>1
  <2>4. QED
    BY <2>1, <2>2, <2>3, AlarmEnds
<1>10. n.limit \in 1..100 /\ (kind = "metrics" => Seen(n.head))
  BY <1>1, <1>2, <1>4 DEF RequestInv
<1>11. RequestInv(q)'
  BY <1>2, <1>3, <1>6, <1>8, <1>9, <1>10 DEF RequestInv, Sets, HasHead, Complete, Seen, tables
<1>12. OrderInv(q)'
  BY <1>1, <1>2, <1>3, <1>4 DEF OrderInv, Sets, HasHead, NotStaler, tables
<1>13. QED
  BY <1>11, <1>12

(* Every step keeps what is known of the requests and of the page.         *)
LEMMA PagesStep == ASSUME IInv, [Next]_vars PROVE PagesInv'
<1> USE DEF PagesInv
<1>1. TypeOK /\ DataInv /\ Grows
  BY GrowStep DEF IInv, DataInv
<1>2. CASE UNCHANGED browser
  BY <1>2, Untouched, PageStays, OrderStays DEF browser
<1>3. ASSUME NEW q \in Requests, Begin(q), UNCHANGED shown PROVE PagesInv'
  <2>1. PICK n \in Readings : Sets(q, n) /\ n.step = "sent"
    BY <1>1, <1>3, BeginSets
  <2>2. RequestInv(q)' /\ OrderInv(q)'
    BY <2>1 DEF RequestInv, OrderInv, Sets, HasHead
  <2>3. \A r \in Requests \ {q} : request'[r] = request[r] /\ overtaken'[r] = overtaken[r]
    BY <1>1, <1>3, <2>1 DEF Begin, Sets, TypeOK
  <2>4. QED
    BY <1>3, <2>2, <2>3, Untouched, PageStays, OrderStays
<1>4. ASSUME NEW q \in Requests, ReadSettings(q) PROVE PagesInv'
  <2>1. PICK n \in Readings : Sets(q, n) /\ n.step = "settings" /\ n.limit \in 1..100
    BY <1>1, <1>4, SettingsSets
  <2>2. RequestInv(q)' /\ OrderInv(q)'
    BY <2>1 DEF RequestInv, OrderInv, Sets, HasHead
  <2>3. shown' = shown /\ \A r \in Requests \ {q} :
           request'[r] = request[r] /\ overtaken'[r] = overtaken[r]
    BY <1>4, <2>1 DEF ReadSettings, Sets
  <2>4. QED
    BY <2>2, <2>3, Untouched, PageStays, OrderStays
<1>5. ASSUME NEW q \in Requests, ReadHead(q) PROVE PagesInv'
  <2>1. shown' = shown /\ \A r \in Requests \ {q} :
           request'[r] = request[r] /\ overtaken'[r] = overtaken[r]
    BY <1>1, <1>5, HeadSets DEF ReadHead, Sets
  <2>2. QED
    BY <1>5, <2>1, HeadStep, Untouched, PageStays, OrderStays
<1>6. ASSUME NEW q \in Requests, ReadParts(q) PROVE PagesInv'
  <2>1. shown' = shown /\ \A r \in Requests \ {q} :
           request'[r] = request[r] /\ overtaken'[r] = overtaken[r]
    BY <1>1, <1>6, PartsSets DEF ReadParts, Sets
  <2>2. QED
    BY <1>6, <2>1, PartsStep, Untouched, PageStays, OrderStays
<1>7. ASSUME NEW q \in Requests, Render(q) PROVE PagesInv'
  <2>1. Sets(q, NoRequest)
    BY <1>1, <1>7, FailSets DEF Render
  <2>2. /\ shown' = Answer(q)
        /\ UNCHANGED <<kind, at, bare, tables, limit>>
        /\ overtaken' = [r \in Requests |-> request[r].step # "none" /\ r # q]
        /\ request[q].step = "answer"
    BY <1>7 DEF Render
  <2>3. RequestInv(q) /\ HasHead(q)
    BY <2>2 DEF IInv, HasHead
  <2>4. RequestInv(q)' /\ OrderInv(q)'
    BY <2>1, Idle DEF RequestInv, OrderInv, Sets, HasHead
  <2>5. \A r \in Requests \ {q} : RequestInv(r)'
    BY <2>1, Untouched DEF Sets
  <2>6. \A r \in Requests \ {q} : OrderInv(r)'
    BY <2>1, <2>2 DEF OrderInv, Sets, HasHead
  <2>7. shown'.head = request[q].head
    BY <2>2 DEF Answer
  <2>8. ShownInv'
    BY <2>2, <2>3, <2>7 DEF ShownInv, RequestInv, Complete, Seen, Whole, Right, tables
  <2>9. QED
    BY <2>4, <2>5, <2>6, <2>8
<1>8. ASSUME NEW q \in Requests, Fail(q) PROVE PagesInv'
  <2>1. Sets(q, NoRequest)
    BY <1>1, <1>8, FailSets DEF Fail
  <2>2. RequestInv(q)' /\ OrderInv(q)'
    BY <2>1, Idle DEF RequestInv, OrderInv, Sets, HasHead
  <2>3. shown' = shown /\ \A r \in Requests \ {q} :
           request'[r] = request[r] /\ overtaken'[r] = overtaken[r]
    BY <1>1, <1>8, <2>1 DEF Fail, Sets, TypeOK
  <2>4. QED
    BY <2>2, <2>3, Untouched, PageStays, OrderStays
<1>9. CASE Close
  <2>1. shown' = NoAnswer /\ \A q \in Requests : request'[q] = NoRequest
    BY <1>9 DEF Close
  <2>2. QED
    BY <2>1, Idle DEF RequestInv, OrderInv, HasHead, ShownInv
<1>10. QED
  BY <1>2, <1>3, <1>4, <1>5, <1>6, <1>7, <1>8, <1>9, Ways

-----------------------------------------------------------------------------
(* The invariant holds in every reachable state.                           *)
THEOREM TelemetryInvariant == Spec => []IInv
<1>1. Init => IInv
  BY InitInv
<1>2. IInv /\ [Next]_vars => IInv'
  BY TypeStep, DataStep, PagesStep DEF IInv, DataInv
<1>3. QED
  BY <1>1, <1>2, PTL DEF Spec

(* Every variable keeps its type: the threshold stays within 0..100.       *)
THEOREM TelemetryTyped == Spec => []TypeOK
<1>1. IInv => TypeOK
  BY DEF IInv, DataInv
<1>2. QED
  BY <1>1, TelemetryInvariant, PTL

(* The two queries of a page always give a head with its own parts.        *)
THEOREM PagesAreWhole == Spec => []PageWhole
<1>1. IInv => PageWhole
  BY DEF IInv, PagesInv, RequestInv, ShownInv, PageWhole
<1>2. QED
  BY <1>1, TelemetryInvariant, PTL

(* Whatever is saved, a full disk that is shown is alarmed and an empty    *)
(* one is not.                                                             *)
THEOREM AlarmIsRight == Spec => []AlarmAtEnds
<1>1. IInv => AlarmAtEnds
  BY DEF IInv, PagesInv, ShownInv, AlarmAtEnds, Right
<1>2. QED
  BY <1>1, TelemetryInvariant, PTL

(* A page goes back to an earlier metric only if the clock was set back,   *)
(* the metric is old, or the answer was overtaken by another.              *)
THEOREM LiveGoesForward == Spec => LiveForward
<1>1. IInv /\ [Next]_vars => [Backwards => Excused]_vars
  <2> SUFFICES ASSUME IInv, [Next]_vars, Backwards, ~Excused
               PROVE  FALSE
    OBVIOUS
  <2>1. TypeOK /\ Collected /\ ShownInv
    BY DEF IInv, DataInv, PagesInv
  <2>2. shown \in Answers /\ kind = "metrics" /\ shown # NoAnswer
    BY <2>1 DEF Backwards, TypeOK
  <2>3. shown' # shown /\ shown' # NoAnswer
    BY <2>2 DEF Backwards, Answers, Reports, NoReport
  <2>4. PICK q \in Requests : Render(q)
    BY <2>3, Ways DEF browser, ReadSettings, ReadHead, ReadParts, Fail, Close
  <2>5. RequestInv(q) /\ OrderInv(q) /\ HasHead(q) /\ request[q].head = shown'.head
    BY <2>4 DEF IInv, PagesInv, Render, HasHead, Answer
  <2>6. request'[q].step = "none"
    BY <2>1, <2>4, FailSets, Idle DEF Render, Sets
  <2>7. ~overtaken[q]
    BY <2>6 DEF Excused
  <2>8. NotStaler(request[q].head)
    BY <2>2, <2>5, <2>7 DEF OrderInv
  <2>9. shown.head \in Reports
    BY <2>1, <2>2, <2>5 DEF Backwards, TypeOK, Answers, Readings, Reports, NoReport
  <2>10. shown'.head \in Reports /\ at[shown'.head] >= at[shown.head]
    BY <2>1, <2>5, <2>8, <2>9 DEF NotStaler, Excused, TypeOK, Readings, Reports, NoReport
  <2>11. at[shown'.head] # at[shown.head]
    BY <2>1, <2>9, <2>10 DEF Collected, ShownInv, Backwards, Reports, NoReport
  <2>12. at[shown'.head] \in Int /\ at[shown.head] \in Int
    BY <2>1, <2>9, <2>10, TelemetryAssumption DEF TypeOK, Stamps
  <2>13. QED
    BY <2>5, <2>10, <2>11, <2>12 DEF Excused, Reports, NoReport
<1>2. QED
  BY <1>1, TelemetryInvariant, PTL DEF Spec, LiveForward

-----------------------------------------------------------------------------
(* How the page catches up.  An answer is current when the queries would    *)
(* give it now; a request is behind when it has read what they would not.  *)
Current(answer) == HeadRead(answer.head) /\ answer.parts = PartsRead(answer.head)

Behind(q) == \/ HasHead(q) /\ ~HeadRead(request[q].head)
             \/ request[q].step = "answer" /\ ~Current(Answer(q))

ShowsBehind == \E q \in Requests : Behind(q) /\ Render(q)

ShowsCurrent == \E q \in Requests : ~Behind(q) /\ Render(q)

(* What the queries read of a page.                                        *)
Stored == <<heads, parts>>

(* The page is up to date when what it shows is current.                   *)
LEMMA UpToDateMeans == UpToDate <=> (shown # NoAnswer => Current(shown))
BY DEF UpToDate, Current, HeadRead, Last, PartsRead

(* So it is after a step.                                                  *)
LEMMA UpToDateNext == UpToDate' <=> (shown' # NoAnswer => Current(shown)')
<1>1. (UpToDate <=> (shown # NoAnswer => Current(shown)))'
  BY UpToDateMeans, PTL
<1>2. QED
  BY <1>1

(* A report that is collected changes the stamp of no other.               *)
LEMMA CurrentStays ==
  ASSUME DataInv, Grows, UNCHANGED Stored
  PROVE  /\ \A h : HeadRead(h)' <=> HeadRead(h)
         /\ \A a : HeadRead(a.head)' /\ a.parts = PartsRead(a.head)' <=> Current(a)
<1>1. heads' = heads /\ parts' = parts
  BY DEF Stored
<1>2. \A n \in heads : at'[n] = at[n]
  BY DEF DataInv, TypeOK, Collected, Grows
<1>3. QED
  BY <1>1, <1>2 DEF Current, HeadRead, Last, PartsRead

(* A page that is shown by an answer that is not behind is up to date.     *)
LEMMA CurrentRepairs ==
  ASSUME IInv, [Next]_vars, UNCHANGED Stored, ShowsCurrent
  PROVE  UpToDate'
<1>1. DataInv /\ Grows
  BY GrowStep DEF IInv
<1>2. PICK q \in Requests : ~Behind(q) /\ Render(q)
  BY DEF ShowsCurrent
<1>3. Current(Answer(q)) /\ shown' = Answer(q)
  BY <1>2 DEF Behind, Render
<1>4. Current(shown)'
  BY <1>1, <1>3, CurrentStays DEF Current
<1>5. QED
  BY <1>4, UpToDateNext

(* A page that is up to date stays so unless the tables change or an       *)
(* answer is shown that was read before they did.                          *)
LEMMA UpToDateStays ==
  ASSUME IInv, [Next]_vars, UpToDate, UNCHANGED Stored, ~ShowsBehind
  PROVE  UpToDate'
<1>1. DataInv /\ Grows
  BY GrowStep DEF IInv
<1>2. CASE shown' = shown
  <2>1. shown # NoAnswer => Current(shown)
    BY UpToDateMeans
  <2>2. shown # NoAnswer => Current(shown)'
    BY <1>1, <1>2, <2>1, CurrentStays DEF Current
  <2>3. QED
    BY <1>2, <2>2, UpToDateNext
<1>3. CASE shown' = NoAnswer
  BY <1>3, UpToDateNext
<1>4. CASE shown' # shown /\ shown' # NoAnswer
  <2>1. \E q \in Requests : Render(q)
    BY <1>4, Ways DEF browser, ReadSettings, ReadHead, ReadParts, Fail, Close
  <2>2. ShowsCurrent
    BY <2>1 DEF ShowsBehind, ShowsCurrent
  <2>3. QED
    BY <2>2, CurrentRepairs
<1>5. QED
  BY <1>2, <1>3, <1>4

(* The safety half of LiveCatchesUp: a page that shows what the database   *)
(* holds gets out of date only when a report or retention changes that, or *)
(* by an answer that was read before such a change.  Nothing else, neither *)
(* an answer out of turn, nor a lost one, nor a poll, takes it back.       *)
THEOREM OnlyOldAnswersSpoil ==
  Spec => [][UpToDate /\ ~UpToDate' => ShowsBehind \/ Stored' # Stored]_vars
<1>1. IInv /\ [Next]_vars => [UpToDate /\ ~UpToDate' => ShowsBehind \/ Stored' # Stored]_vars
  BY UpToDateStays
<1>2. QED
  BY <1>1, TelemetryInvariant, PTL DEF Spec

(* LiveCatchesUp with what fairness and the finite number of reports and   *)
(* requests would give as hypotheses: once the tables rest and the answers *)
(* read before that are done with, one answer more brings the page up to   *)
(* date for good.                                                          *)
THEOREM RestedPageCatchesUp ==
  Spec /\ <>[][UNCHANGED Stored /\ ~ShowsBehind]_vars /\ []<><<Answered>>_vars
    => <>[]UpToDate
<1> DEFINE Calm == UNCHANGED Stored /\ ~ShowsBehind
<1>1. IInv /\ [Next]_vars /\ [Calm]_vars /\ UpToDate => UpToDate'
  <2> SUFFICES ASSUME IInv, [Next]_vars, [Calm]_vars, UpToDate PROVE UpToDate'
    OBVIOUS
  <2>1. CASE Calm
    BY <2>1, UpToDateStays
  <2>2. CASE UNCHANGED vars
    BY <2>2, UpToDateMeans, UpToDateNext
    DEF vars, tables, browser, Current, HeadRead, Last, PartsRead
  <2>3. QED
    BY <2>1, <2>2
<1>2. IInv /\ [Next]_vars /\ [Calm]_vars /\ <<Answered>>_vars => UpToDate'
  BY CurrentRepairs DEF Answered, ShowsBehind, ShowsCurrent
<1>3. QED
  BY <1>1, <1>2, TelemetryInvariant, PTL DEF Spec
============================================================================
