# Verification of monitoramento-infobh

TLA+ models of the monitoring server (`src/internal/server`) and of its agent
(`src/internal/agent`, `src/cmd/agent`), the TLC runs that check them and the TLAPS proofs
about them. Line numbers below are those of the repository's files.

## 1. The system

A server (one Go process, one SQLite database) shows the state of customers' machines. On
each machine an agent runs six loops; each collects something and POSTs it, or polls for a
command. Operators use a browser.

| Component | State it keeps | Operations | Talks to |
|---|---|---|---|
| Remote commands | `agent_commands`, `events` | form (`handleCacheCleanCommand`), poll/claim, execution, result, retention | operator, agent loop, retention job |
| Device inventory | `device_states`, `device_events` | `collectDevices`, `RecordDevices` | agent loop, timeline |
| Store | pool of 4 connections, PRAGMAs, the schema and its cascades | every query and transaction, `Cleanup` | everything in the server |
| Presence | `machines.last_seen_at`, "online" events | `RecordHeartbeat`, the UPDATE at the end of every other report, `Online` of a page | agent loops, pages |
| Telemetry | `metric_snapshots`, `disk_snapshots`, `temperature_*`, `hardware_inventory` | `RecordMetrics`, `RecordTemperatures`, `RecordHardware`, `ListMachines`, `MachineDetail` | agent loops, pages, retention |
| Alerts | `alert_settings` | `buildAlerts`, `alertLevel`, `normalizeThreshold` | pages |
| Enrollment | `clients`, `machines.token_hash` | `CreateClient`, `CreateMachine`, `RotateMachineToken`, `AuthenticateAgent` | operator, every agent request |
| Agent runner | loops, tickers, context | `Run`, `Once`, `loop`, `Start`, `Stop` | collector, HTTP client |
| Agent configuration and service | `agent.json`, the Windows service | `install`, `reinstall`, `control`, `LoadConfig`, `SaveConfig` | service manager |
| Live view | one page in a browser | poll every 5 s, reload every 60 s | page handlers |

What is hard here: two agent processes may carry one token; a request the agent gave up on
(10 s) may still be handled; each loop sends once and never retries; the server answers a
claim after committing it; events are written by a second statement whose error is dropped;
retention is several DELETEs; settings of a SQLite connection belong to one connection of a
pool; and a page needs two connections at once; it is put together from several queries; so
is a report of the devices, while the hardware may change; the live view asks again without waiting; a rotated token reaches its machine by way of an
operator, a file and a service; and `reinstall` is six steps any of which may fail.
`PROJECT.json` lists these hazards one by
one, at their lines, with the properties that cover them.

What makes each component correct:

* commands: each runs at most once, on its own machine, its recorded outcome is the true one,
  it ends for good, and it does end;
* inventory: what is shown is what was seen, category by category, and the timeline tells it;
* store: connections are not shared, leaked or waited for in a circle; no row outlives its parent;
* presence: a live agent is online, a dead one is not, and coming back is logged once;
* telemetry: a page shows the newest collection, whole; alerts: no setting silences a full disk;
* enrollment: a rotated token soon does nothing, and the new one gets to work; runner: no loop
  stops another; service: success means that the new token runs, and what a failed reinstall
  leaves can be repaired by another;
* live view: the page does not go back in time without need, and catches up.

## 2. Modules

| Module | What it is |
|---|---|
| `CommandLedger` | abstract specification: what the command feature promises, without agents, network, clock or database |
| `RemoteCommands` | the handlers, Store methods, agent loop and network of the command feature |
| `RemoteCommandsProofs` | theorems about it, and that it implements `CommandLedger` |
| `LostCommandsProofs` | theorems about commands that nobody carries any more |
| `SnapshotRegister` | abstract specification: a register per category, and snapshots taken category by category and put whole; without rows and events |
| `DeviceInventory`, `DeviceInventoryProofs` | collection, reports and `RecordDevices`; theorems, and that it implements `SnapshotRegister` |
| `StorePool`, `StorePoolProofs` | the connection pool and its users; theorems |
| `Presence`, `PresenceProofs` | the report loops, `last_seen_at`, the online event, over time; theorems |
| `Telemetry`, `TelemetryProofs` | reports with parts, their retention, the queries of a page, the alarm, the live view; theorems |
| `Deployment`, `DeploymentProofs` | tokens, authentication, the program's commands, its file and its service; theorems |
| `MC*` | instances for TLC: model values, token and key assignments, symmetry |

### RemoteCommands

`agent_commands` is three functions of the id (`status`, `owner`, `created`) and `lastId`
(AUTOINCREMENT); `events` is the timeline. Per agent process: `pc` and `job` (where
`Runner.runCommand` stands and with which command), `poll` and `reply` (the poll or its
answer on the wire), `late` (polls the agent gave up on and the server may still handle).
`posts` are results under way. `starts` and `outcome` are history: what really happened on
the machines. One action is one statement or transaction, as SQLite runs them; a handler
that writes twice is two actions with `eventDue` in between, and a restart between them
loses the second. `StampCommand`/`CreateCacheCleanCommand` are separate because the stamp is
taken before the INSERT. A claim that fails (busy database, broken connection) changes
nothing and is a `PollFails`. Three fields of a command are not there: type (there is one),
texts, and the two later stamps, which nothing reads but the page.

### DeviceInventory

`plugged` and `health` are the hardware, `inflight` the reports under way, `row` the table
`device_states` (absent, off, or the status of a connected device), `news` the events of the
last report applied, `basis` (history) what each category held when the last report that
covers it asked for it. A collection is one `Query` for each category, in the order of
`collectDevices`: `next` is the one to come and `draft` what the others have found. The hardware
may change between two of them, so that a report mixes moments. A category is collected when its
query works **and** lists something: `collectPowerShell` takes empty output for a failure. What
is listed without a name (`Nameless`) is dropped after that, so that its category (one of
`Emptiable`) can be reported with nothing in it. The one timeout of 20 s is that any query,
and so all that are left, may fail. `PostDevices` sends what there is.

`RecordDevices` is the whole transaction, both loops. Two devices may share a key (disks
without serial number); the row keeps either status. `RecordDevices` also sets
`last_seen_at`, which is in `Presence`. `SnapshotRegister` is what it promises: a snapshot has
of each category what there was at one moment (`Look`), of two categories perhaps at two; it is
put in the registers of its categories and no others, all of it or nothing, in whatever order
the snapshots arrive. The mapping forgets `row` but for the pairs (key, status) it shows, and
keeps neither `news` nor `basis`.

### StorePool

Users (pages, reports, the retention job) take connections from `free` or open new ones up
to the limit, and wait otherwise; `configured` are those with `foreign_keys` on. A page makes
queries one after another; `ListMachines` asks for disks with its rows open and so holds one
connection and wants a second. A browser may leave at any point. Metrics and disks are ids,
enough for the cascade of `Cleanup`. database/sql itself is external: which idle connection
it picks and which waiter it serves is left open.

### Presence

One machine. `pc`, `began`, `nextTick` and `due` are the report loops of `Runner.loop` and
their tickers: a tick waits in a channel of one, and the ticker is made after the first call.
`flight` are the reports on the wire or in a handler, with the time of their stamp; a
heartbeat goes through the three statements of `RecordHeartbeat`, so that other reports come
in between. The read among them may fail, and its error is dropped (`store.go:355`): the
machine then counts as offline, and the heartbeat announces it whatever it was. `misread`
remembers that, and `announced` counts the announcements of the other heartbeats, about which
alone something can be promised. `lastSeen` is `last_seen_at`: the stamp by the agent's clock, `skew` away from the
server's. A report that fails anywhere is lost when it is posted (`Lose`), which nobody can
tell from a later failure. Time is explicit: `Tick` advances the clock unless somebody would
exceed the longest time its step takes (`Collect`, `Timeout`, `Delay`). Left out: the other
tables a report writes, and the other columns of the heartbeat.

### Telemetry

One machine and one kind of report per behaviour (`kind`): metrics with disks, temperatures
with readings, hardware without parts. `heads` and `parts` are the reports whose rows are in
the tables, so that a report is its number and `at` its stamp; `bare` are those collected
without parts (a query that fails, no sensor). `RecordMetrics` adds a head,
`RecordTemperatures` and `RecordHardware` overwrite the only one, whatever its stamp.
Retention is `Age` and the two cleanups; whether the disks follow their metric is left open,
since it depends on the connection (StorePool). A request of the browser goes through
`ReadSettings`, `ReadHead` and `ReadParts`, each a query with the tables of its moment, and
ends with `Render` or `Fail`; any number may be under way, since `Poll` waits for none.
`overtaken` is history: the requests since whose start another answer was shown. The disks of
a report count by the fullest of them, in whole percent; CPU and RAM have the same threshold
code. That a late temperature or hardware report takes the page back is what the code does,
and `LiveForward` is stated for metrics only.

### Deployment

One machine. On the server `valid` is the token whose hash the row has, `pending` the tokens
of rotations that have not reached their UPDATE, `known` those a page has shown to somebody,
`admitted` those of requests between `AuthenticateAgent` and their write. On the machine
`config` is the file (absent, torn, or with a token), `service` and `main` what the service
manager knows, `state` and `token` the processes, `tool` the step `install` or `reinstall` is
at, with its argument and how the last one ended. The service manager and the library are
external: a service has one process, a removed one goes when it stops, `stop` waits.
`StopTimesOut` is the 15 s of `program.Stop`: the service counts as stopped, the process is
still there. Faults (`MaxFaults`) are a step that fails, a crash and a reboot, at any moment.

Definitions marked "variant" in the modules are defective forms of the definition below
them, used to see that each property notices a plausible bug.

## 3. Runs

| Run | Expect | Question |
|---|---|---|
| `commands_shared` | pass | two processes with one token and every fault: at most once, custody, true outcomes, implements the ledger |
| `commands_time` | pass | stamps, order, timeline and retention over time |
| `commands_fair` | pass | two machines, faults that may also never happen, fairness: every command is claimed, no loop gets stuck; without a fault every command completes and shows in the timeline |
| `presence` | pass | online when the agent is well, offline when it is gone, announced once by heartbeats that can read |
| `commands_stuck` | violation | a claimed command completes |
| `devices` | pass | the inventory is the last report and implements the register; events match; both settle |
| `devices_unplug` | violation | what was unplugged is shown as disconnected |
| `telemetry` | pass | pages are whole, the alarm is right, the live view does not go back and catches up |
| `deployment` | pass | success is true, one process works, a rotated token dies, reinstall heals |
| `store_pool` | pass | accounts of the pool; fewer pages than connections never block |
| `store_orphans` | violation | no disk outlives its metric |
| `store_deadlock` | violation | every page is answered |

**Bounds.** `commands_shared`: two processes, two commands, one abandoned poll each — enough
for a claim that races with a late one and for an execution that overlaps the next claim;
the clock stands still, so stamps do not matter and nothing is purged there: that a purge is
the ledger's `Forget` is left to the theorem `Implementation`, and that it spares what is not
over to `RetentionSafe` of the next run. `commands_time`: one process, two
commands, three ticks with a retention of one: a command can be stored late, finish, grow
old and be purged while another is pending or running. `OldestFirst` compares commands one
of which was stored first and stamped first; that a command stamped earlier may be stored later
(`store.go:696`) happens in the code, and the property leaves it aside. `commands_fair`: two machines with an
agent each; a behaviour decides at its start whether it has faults, any number of them, and
then one command (`FaultyCommands`), or none, and then two commands. It has no retention and no
shared token, which the other two runs have. Processes are interchangeable where symmetry is used (safety runs only).
`devices`: a stick, a USB device without a name and two identical disks; one change of the
hardware, between any two queries, and two reports under way: a report collected before the
change, wholly or in part, may be applied after one collected later. `store_pool`: three connections stand
for four, with two pages; `store_deadlock` has as many pages as connections. A page makes one
query there, since a second one begins where the first began. `presence`: units of 10 s and
the program's defaults (30 s, 60 s, 10 s, 2 min), one heartbeat in a row lost, clocks 20 s
slow or 10 s fast; 16 units are enough to go offline and come back. The slow clock is the
last one the margin allows: there a machine that is well is seen 120 s old. `telemetry`: two
reports, two stamps in either order, two requests that overtake one another, one report with
a full disk and one with an empty one, a threshold typed above 100 (what is typed below 1 is
covered by the theorem only). `deployment`: two
processes, two tokens, two faults: a rotation during a reinstall, a reinstall that breaks off
twice. Two rotations at once need a third token, which is too long for a run of five minutes;
the theorems cover it, the two liveness properties were seen with one rotation only. The theorems of
section 4 hold for every value of these bounds.

`CHECK_DEADLOCK FALSE` where the bounded inputs run out: once the ids, reports or tokens are
used up, and the clock has reached its bound, a system may have nothing left to do.

**Fairness.** An agent loop keeps ticking (`time.NewTicker`), so its own steps are weakly
fair. That a poll reaches the server is strongly fair: it fails any number of times, but not
for ever. A request that reached the server is handled (weak). An agent is not assumed to
stay up, nor a result to arrive. For devices: the query of
each category works now and again (strong), the collection goes on and a POST ends (weak), and of
the reports that cover a category some arrive (strong). For the pool: each of the requests that keep
waiting gets some of the connections that come free (`connRequests` of database/sql); a
browser is not assumed to leave. `Deployment`: handlers and processes end what they do (a
request has a timeout, Stop has one), a command of the program goes on unless it fails, and
an operator who has seen the valid token reinstalls now and again, some time while the
service is neither starting nor stopping; a file that is whole again and again is some time
read whole. `Telemetry` has none: that answers keep
arriving is the premise of `LiveCatchesUp`, not an assumption about the network. `Presence` needs no fairness: its bounds are part of `Tick`.

**Disagreements found** (each a run that TLC must refute):

1. `commands_stuck` — a claim whose answer is lost, or an agent that restarts, or a result
   that fails once leaves the command `running` for ever (`store.go:734`, `runner.go:104`),
   while `app_test.go:323` expects a claimed command to complete.
2. `devices_unplug` — the last device of a category stays connected for ever, unless one
   without a name is still listed there (`devices_windows.go:47`), while `app_test.go:104` expects it to be marked disconnected,
   from a payload the agent never sends.
3. `store_orphans` — `PRAGMA foreign_keys = ON` reaches one connection of the pool
   (`store.go:60`), so `ON DELETE CASCADE` (`store.go:112`) works or not by chance.
4. `store_deadlock` — `listDisksForMetric` inside the open rows of `ListMachines`
   (`store.go:898`) and four connections (`store.go:33`): four pages at once block the server.

## 4. Proofs

All for every value of the constants, from the named assumptions of the modules
(`ConstantsAssumption`, `InventoryAssumption`, `PoolAssumption`, `PresenceAssumption`,
`MarginAssumption`, `TelemetryAssumption`, `DeploymentAssumption`), which TLC evaluates in the
runs.

**RemoteCommandsProofs.** The argument is custody. A running command has at most one holder:
an answer on the wire, an agent that runs it, or a result under way. `Custody` says what the
row and the history look like for each kind of holder, and that two holders of one kind never
hold the same command; holders of different kinds are told apart by `starts` and `outcome`.
`AtMostOnce` alone is not inductive: a step from an arbitrary state with two answers for one
command would break it. From `Custody` follow `RunAtMostOnce`, `ExecutionHasItsRow`,
`ResultHasItsRow` (the UPDATE without a guard on the status needs none), `OutcomeIsTrue`,
`FinishedForGood`, `TimelineIsTrue`, and the refinement `Implementation`: each step is a
ledger step or a stutter. `FirstComeFirstServed` needs only the claim's minimum and that
stamps do not change; `RetentionIsSafe` needs that the cutoff of a cleanup under way is old.
`LoopComesBack` takes the agent's loop apart: from poll, execution or report it moves on only
towards idle, so that an agent which keeps moving keeps returning; only that it does keep
moving is left to the schedule (`AgentReturns`).

**LostCommandsProofs.** The first disagreement, for every value of the constants. A running
command is `Carried` by an answer, an agent or a result; `Lost` is one that nothing carries.
No step makes a carrier for it again, since only a claim does and a claim takes pending
commands: `LostForGood`, and so a behaviour with one lost command refutes `RunningCompletes`
whatever its fairness (`LostNeverCompletes`). The causes are complete: `LostByTheseFaults` lists the
steps by which a command is lost (a poll the agent has given up on claims it, or its carrier
is lost or restarted before the result is recorded),
and without them none ever is (`CalmLosesNothing`), which is the safety half of `CalmCompletes`.

**DeviceInventoryProofs.** `InventoryIsBasis` is inductive together with `Covered`: a report
or a draft names the category of everything it saw, so that the second loop of `RecordDevices`
compares like with like. A category in the report ends up showing the report (`RecordShows`),
another one keeps its rows (`RecordSpares`). `RecordNews` gives the events. `InventoryIsRegister`
is the refinement, step by step: hardware changes are `Change`, a query that finds something is
`Look`, the others are stutters, `PostDevices` is `Take`, a lost report `Drop`, `RecordDevices`
is `Put`. A query extends the draft by its category only because no category is asked for twice
in a collection (`AskedOnce`); so what a report says of a category is of one moment.

`NeverEmptied` needs that every report has something of each category it names (`Filled`), which
holds for the categories without nameless devices; `LastDeviceStays` follows: the second
disagreement, for any hardware. What can be proved of the two liveness properties is split off.
`OnlyLateReportsSpoil`: a category that agrees with the hardware stops doing so only by a change
of the hardware or by a report that asked for it before one; and there are no more such reports
to come than the one whose collection the change met (`DraftOutdated`).
`FreshReportRepairs`: any other report of the category makes it agree. `RestedCategoryConverges`
puts them together under premises in place of fairness. `RedundantReportIsSilent`: a
report of what is shown already writes no event, unless a key is ambiguous.

**StorePoolProofs.** `Shape` ties what a user holds to what it is doing; with it the accounts
`PoolExact` are inductive. `FewPagesNeverBlock` is then a pigeonhole: if every connection
were held by a page that waits for another, there would be as many pages as connections.
When there are, `Blocked` can come about, and ends only when a browser leaves or the server is
restarted (`BlockedUntilLeave`): until then a page that asks is not answered, whatever
database/sql does (`BlockedNeverAnswered`, the fourth disagreement). `OrphansStay` and
`OrphansComeFromCleanup` are the third one: disks without metric are never deleted again,
and arise from exactly one step, a cleanup on a connection on which `foreign_keys` is off; for
the other direction the disks of a metric must have been stored with it (`DisksWereMetrics`).

**PresenceProofs.** `MarginAssumption` says what the defaults must leave: a request is over
before the next tick, a heartbeat is handled before the next stamp, and `OfflineAfter` is at
least `Gap + 2 * Delay` minus the skew. `Gap` is `Timeout + (Misses + 1) * Period + Collect`;
the delay counts twice, because a report that is late by `Delay` may take `last_seen_at` back
after the last heartbeat and the next one may be late too. The argument is a chain
(`LoopTiming`, `Chain`): the next heartbeat is stamped between `NextFrom` and `NextBy`. So the
last one is handled before it (`Flights`), and `last_seen_at` is no older than `Delay` before
a heartbeat that was handled, or `Gap + Delay` before one under way (`Seen`). From this follow
`AliveStaysOnline`, and that only the first heartbeat of an agent can find its machine
offline, if it can read it: `AnnouncedOnce`, `AnnouncementIsTrue`. Both speak of the heartbeats
whose read works (`Judged`): one whose read fails announces a return that was none, which the
model does and the theorems do not call right; they say that such a heartbeat brings about no
other false announcement. They rest on `MarginAssumption` too: two heartbeats of one agent
under way together could both find the machine offline and both announce it.
`DeadGoesOffline` follows from `NotAhead`. That a return is announced at all is no property of this code: a report of
another loop that is handled first takes the event away.

**TelemetryProofs.** `PageWhole` needs the tables: a head in the database lacks its parts only
if it came without or is old (`Kept`), because one transaction writes both and retention takes
only what is old. A request that has read its head carries that fact along (`RequestInv`), as
does the page (`ShownInv`). `AlarmIsRight` needs that every threshold read is within 1..100
(`Thresholds`), whatever was typed and whenever it was saved. For `LiveGoesForward` an order is
kept (`OrderInv`): a request that has read its head and was not overtaken has found nothing
staler than what is shown, or that is old. A step that renders such a request does not go
back; without `overtaken` no invariant would hold, for the code does go back then.
Of `LiveCatchesUp` the safety half is proved, `OnlyOldAnswersSpoil`: a page that is up to date
stops being so only when the tables change, or by an answer read before such a change
(`Behind`). `RestedPageCatchesUp` is the rest under premises: the tables rest, the answers
that are behind are done with, and answers are shown again and again. That the premises come true is what TLC sees in
a run where reports and requests are finite; the proof would need induction over their number.

**DeploymentProofs.** `SetupTruth` is not inductive. A process that does anything but leave is
the service's (`Attached`); a command that has written the file finds its token there at the
steps that follow (`Written`); and after a success no command is at work (`Settled`), so nobody
writes the file until the next one, which takes the success back. `OneWorks` follows from
`Attached` alone; it speaks of processes that are not on their way out, for one that outlives its
Stop does overlap the next. Both hold for any number of tokens, rotations at once, processes and faults.
A second invariant says where tokens come from (`Origin`): what file, processes and commands
have was shown to an operator, and a token that awaits its UPDATE was not. From it follows
`UnseenLocksOut`: after a rotation whose page was lost no request is admitted until another
rotation is seen. `RevokedForGood` and `RevokedIsSilent` are the safety half of `RevokedSoon`:
a replaced token never becomes valid again, with any number of rotations at once, and once
its requests have ended there are no others.

**What is only model-checked.** The liveness properties `EventuallyClaimed`, `AgentReturns`,
`CalmCompletes`, `CalmInTimeline`, `Converges`, `EventuallyQuiet`, `PageAnswered` (where it
holds), `LiveCatchesUp`, `RevokedSoon` and `RotationHeals`. All but one rest on fairness, which
is stated with ENABLED, and the prover has no rule for it; `LiveCatchesUp` rests on there being
finitely many reports, an induction over data. The theorems named above as their safety half
say, for every value of the constants, what may undo progress and what makes it; what is left to TLC is
that the schedule provides it. The violations of the four disagreements are found by TLC; that
they are permanent, and from which steps they come, is proved.

## 5. What remains

Nothing that is modelled waits for another module. To be proved: in `Presence`, that the return
of an agent is announced under the conditions under which the code does announce it (its
heartbeat is the first report to be handled, and the read works); in `Deployment`, the safety
half of `RotationHeals`: what `reinstall` needs of the state it finds. To be modelled, in this order: the
other two thresholds and the level of an alert (`alertLevel`), which are of the same shape; the
history of 60 metrics, with the order of stamps inside one second; SQLite's write lock and
`busy_timeout` in `StorePool`, as far as the code's use of them can be told from the repository.

## 6. Not modelled

* Rendering, templates, formatting and wording (layout); the downloads; JSON decoding.
* The action PIN: a comparison with a setting, without state.
* Which files `cleanSafeCache` removes: its outcome is an input of `RemoteCommands`.
* The contents of a report: values are carried, and nothing but the thresholds looks at them.
* Clients (`CreateClient`): plain rows; flags and environment of the server.
* Time texts: `parseAgentTime` and the text order of RFC3339Nano are the library's. Where the
  order of stamps matters the models leave it open within one tick or let the clock be set back.
* SQLite's locks: a statement that SQLite refuses is, in every module, one that fails.
* External, modelled from their use: database/sql, the Windows service manager and the service
  library, the browser, the network, the hardware.
