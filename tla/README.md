# TLA+ models of iag-mes

`iag-mes` is the manufacturing execution service of a plant: a Go server over one
PostgreSQL database, which tells other services what changed through Kafka and
learns from Kafka what production did. This directory holds TLA+ models of the
parts of it whose correctness depends on the order of events, the TLC runs that
check them on small instances, and the proofs that carry the most important of
those properties to instances of every size.

Run one with `tlc -config MCDowntime.cfg MCDowntime`, prove one with
`tlapm DowntimeProofs.tla`. `PROJECT.json` has, for every definition that stands
for code, the lines it stands for, and the hazards the properties are aimed at.

## 1. The system

Several identical server processes share one database. Handlers run concurrently,
in and across processes; there is no in-memory state two requests share, so the
database is the shared state and a statement or a transaction is the atomic step.
The isolation level is PostgreSQL's default, read committed: a value read by one
statement may be stale by the next unless the row was locked.

| Component | State it keeps | Operations | Talks to | What is hard about it |
|---|---|---|---|---|
| Downtime log (`store/cmms.go`, `migrations/013`) | one row per stop: scheduled, open, closed, cancelled; start and end | create (now, afterwards, planned), start, cancel, end, delete | sets `mes_assets.status`; writes the outbox in the same transaction; raises an alert | stops of one machine overlap; registry edits write back a stale status |
| Shutdown planner (`store/shutdown.go`) | headers in the plant's `attrs`; the code on stops and work orders | create, update, agree, start, finish, cancel, set jobs | downtime log, work orders, schedules, notices | no transaction: a request is many statements over a header it read first |
| Work orders (`store/cmms.go`, `gaps_cmms.go`, `maintenance_phase2.go`) | status, and a bag of attributes: checklist, signatures, approval, failure code | create, PATCH, start, complete, decide, record, sign off, delete | stops, fault reports, schedules, commissioning | read, merge and write the whole row, unlocked, sometimes twice over |
| Installation (`store/installation.go`) | lifecycle on the machine; handover on its commissioning job | raise the job, sign the handover, put in service | work orders, registry | signatures are about tests that can change under them |
| Event outbox (`outbox/outbox.go`, `events/bus.go`) | `mes_event_outbox`: attempts, available_at, dispatched_at | publish inside or after a transaction, claim, send, mark | every writer; Kafka | leases, crashes between send and mark, lost answers, backoff arithmetic |
| Fault reports (`maintenance_phase2.go`, `maintenance_notify.go`) | an alert of kind fault report, linked to a stop and an order | report, convert, reject, complete | downtime log, work orders, notices | three transactions per report; two supervisors |
| Preventive maintenance (`gaps_cmms.go`, `pm_edits.go`, `jobs/`) | schedule, last done, next due | sync job, edit, advance after completion | work orders, shutdowns | check-then-create; the advisory lock covers only some of the callers |
| Consumer and projections (`consumer/consumer.go`, `production_kpis.go`, `production_shifts.go`) | consumer offsets; upserted rows | consume, project, raise KPI alerts | Kafka, alerts | a failed message is passed over by its successor; redelivery |
| Plants, sections, registry (`plants.go`, `register_delete.go`) | the machine tree | create, patch, move, guarded delete | every table that names a machine | checks of references race new references |
| Schedule blocks (`scheduling.go`) | rows | single statement each | order deletion | none |
| Migrations (`migrate/`) | applied versions | apply in order under a lock | the schema | runs once |
| KPIs, reliability, forecast, energy, reports (`performance.go`, `forecast.go`, `gaps_analytics.go`, `jobs/`) | derived rows | recompute | reads everything | arithmetic only |
| Integrations (`integrations/`, `clients/`) | one upsert each | pull from other services | HTTP | I/O |
| Start-up, authentication, audit, configuration | wiring | - | - | I/O |
| `third_party/platform-go` | vendored | - | - | not this program |

What makes each component correct:

* *Downtime log*: a machine is down while a stop of it is happening and comes back
  once every stop that took it down was ended; each stop's messages tell its
  life, one start and then ends, and nothing of a plan.
* *Shutdown planner*: a machine is in one shutdown at a time; a header goes only
  forward; the header never runs ahead of the stops, even if a request dies
  half-way; between undisturbed requests the log shows the plan; a work order
  is tagged only with a shutdown that concerns it. Nothing keeps two requests apart,
  so the code keeps each of these only while requests that concern it do not overlap.
* *Work orders and handover*: nothing that waits for approval or was refused is in
  progress; the handover parties are three people who signed for passed tests; a
  completed order has what completion asks for.
* *Outbox*: only committed changes are told; nothing is forgotten that was not told;
  everything stored is told in the end.
* *Fault reports*: a report's stop and order are its own; one order per report, none
  for a rejected one; a report is resolved when its order is completed; the stop
  it opened is ended with it; one open report per machine and sensor rule.
* *Preventive maintenance*: the sync job raises no second order for a schedule; fixed
  dates keep their calendar; the service after one that was done lies ahead; a
  completion moves its schedule on; a schedule that is due gets an order.
* *Consumer*: restarts and rebalances repeat messages and skip none; a breach has one
  alert; the figures and batches end at the last message about them or at what a person
  or a check wrote, a plant's shifts at the list published last; every message gets to a
  handler.
* *Registry*: a machine's factory is its floor's, whatever moves it, unless a request
  names another (which the code lets it); production's last word on a machine is
  true; a completed installation raises one commissioning job; no order names a
  machine that was deleted (the code does not keep this one: finding 3).

## 2. The models

### `Downtime` - the downtime log and the machines' status

`stop[s]` is a row of `mes_downtime_events` (`over`: it has an `ended_at`),
`status[a]` is `mes_assets.status`, `published[s]` the outbox messages of a stop in
commit order, `patch[p]` a registry edit in flight. Each operation of `cmms.go` runs
in one transaction that locks the row, or is one UPDATE, and is one action:
`CreateOpen`, `CreateHistorical` and `CreateScheduled` are the three outcomes of
`CreateDowntimeEvent`; `StartDowntimeEvent`, `CancelDowntimeEvent`,
`EndDowntimeEvent` and `DeleteDowntimeEvent` keep their names. `PatchAsset` is two
actions, because it reads the whole row in one statement and writes it back in
another. What the model keeps of the code's oddities: a stop written up afterwards
is stored open and announces its start; a closed stop can be ended again;
ending one stop sets the machine idle although another may be open; a retired
machine that stops is down and then idle.

### `Shutdown` - the planner, over `Downtime`

`Shutdown` EXTENDS `Downtime` and takes its actions as they are. `header[c]` is the
record kept under `attrs.shutdowns`, `booking[s]` the code and the window a
planned stop carries, `job[j]` a work order's tag, `req[o]` a request in flight.
A request begins with its reads and checks as one step (`CreateShutdown`,
`UpdateShutdown`, `AgreeShutdown`, `StartShutdown`, `FinishShutdown`,
`CancelShutdown`, `SetShutdownJobs`), which also fixes the order of the statements
it is going to make (`rest`); each statement is then a step of its own
(`SaveShutdown`, `MoveStops`, `ListStops`, `WorkStop`, `PlanStop`, `ListJobs`,
`ReadJob`, `WriteJob`). `Interrupt` ends a request anywhere: a failed or refused
statement, a client that went away, a restart. Meanwhile anyone may start, end,
cancel or delete a stop of the shutdown on its own (`OtherStop`) and complete or
edit the work orders.

The code takes no lock and compares nothing when it saves, so planners race. Two history
variables say for which shutdowns a promise is made: `broken`, those a request of
which ended early, and `met`, the pairs of codes whose requests were in each other's way:
both were in flight and were about one shutdown, or each chose machines (a creation or an
update), and so looked for them in headers the other had yet to save. A shutdown is
`Alone` if it never met itself. Two shutdowns that met may share a machine, and a
shutdown that met itself may go backwards; for all others the promises hold while
everything else goes on.

### `WorkOrders` - one order and its signatures

`order` is the row; `req[r]` a request between its reads and its write.
`PatchWorkOrder` is split as in the code: read, merge and gate in one step, write
the row whole in another. `RecordChecklist`, `Signoff`, `SignHandover` and
`DecideApproval` have read the row *before* they call it and pass down whole keys
built from what they saw: they take a third step (`ReadOrder`).
`CompleteWorkOrder` checks the row and then sets only the status. No operation
touches two orders, so one is modelled. `steps` is how many entries the checklist has and
`tests` the results, which the code keeps apart from it, by the number of the step: a
PATCH may replace the checklist, at any time and also of an order that was accepted or
completed, and results of steps that are not listed do not count. `settled` (history) is
how many steps were listed when the order was last accepted or completed: the promises
about tests speak of those. `overlapped` (history): two requests have been in flight at
the same time.

### `FaultReports` - from a report to a resolved one, over `Downtime`

`FaultReports` EXTENDS `Downtime`. `report[f]` is an alert of kind fault report
(`rule`: a sensor rule raised it; `stop` and `order`: the links in its attributes),
`opened[s]` the report a stop was opened for (`fault_report_id` in its attributes),
`order[w]` a work order and the report it came from, `req[r]` a request with the
statements it has left. A request
begins with what it reads first: `CreateFaultReport`, `ConvertFaultReport`,
`RejectFaultReport`, `CompleteWorkOrder` (whose own transaction commits at that
point) and `EvaluateConditionRules`, one raise of the rule job. Every write after
that is a transaction of its own in the code and a step here: `OpenStop`
(`CreateOpen` of the log), `LinkStop`, `RaiseOrder`, `PointReport`, `ReadReport`,
`EndStop` (`EndDowntimeEvent`), `CloseReport`, `RaiseByRule`. `Interrupt` ends
a request between any two of them. Meanwhile alerts are acknowledged and resolved
without a question (`AckAlert`, `ResolveAlert`), orders are PATCHed and deleted,
and the stops of reports are ended and deleted on their own (`OtherStop`).
Whether an order may be completed is the matter of `WorkOrders`; here it always may.

Some promises hold only for reports left in peace, and two history variables say
which: `disturbed`, the reports two requests about which overlapped or one of which
was cut short or could not end its stop, and `reopened`, those set back to an open
status after they were dealt with, which the code never refuses.
`LinksAreItsOwn` needs neither.

### `PMSchedules` - schedules, the job that serves them, and their completions

`sched[s]` is a row of `mes_pm_schedules` (next due, last done, status), `template[s]`
the interval it follows by days, fixed dates or hours, `meter[s]` the latest reading and
the one at the last service, `order[n]` the work orders raised for schedules, by number, `lock`
the holder of the advisory lock. A run of `SyncPreventiveMaintenance` (`job[r]`) is the
statements it makes: `TryLock`, `SyncPMScheduleStatuses`, `ListPMSchedules` (read once,
decided on for the whole run), then per schedule `CheckOpen`, `SyncNumber`, `SyncInsert`,
then `ListMeterStatus`, `MarkScheduleOverdue` and the same for what is due by hours, and
`Unlock`. `Crash` ends the process anywhere, and with its session the lock. Meanwhile,
and without the lock: `SetShutdownJobs` brings a schedule's job forward (`plan[p]`),
`CompleteWorkOrder` commits and its `AdvanceRead` and `AdvanceWrite` move the schedule on
later (`done[c]`), people PATCH orders, schedules and templates (`PatchPMTemplate`), read
meters and delete schedules, and the days go by (`Tick`). A reading that lands between
`AdvanceRead` and `AdvanceWrite` counts for the next service already. A number is the highest there is plus one, read in one
statement and used in another: an INSERT whose number was taken meanwhile is refused,
and the run goes on with the next schedule. Three history variables: `given`, the dates
people gave a schedule; `reckoned`, those it had, or was about to get, when its template
was edited, from which a new interval is counted; `disturbed`, schedules whose completions
overlapped or were cut short.

### `Ingest` - a partition, its consumers, and the tables it fills

`log` is the partition and `end` what is published of it; `committed` is the offset of
the consumer group, `owner` the process it is assigned to, `reader[c]` where the loop of
`Consumer.Run` is in each process. `FetchMessage`, `HandleMessage`, `CommitMessages` are
the loop; `RaiseProductionBreach` looks for an alert and `CreateAlert` creates it in a
second call. A handler may fail before or after its write took effect; the loop then
goes on to the next message, as the code does. `Crash`, `Start` and `Assign` are the
processes and the group: a message in the hands of the last owner stays there, is
applied late, and its offset is stored late, which may take the group past messages the
new owner has yet to reach. The consumer is not the only writer: `ValidateBatchRef` upserts
a batch, and `ReadAsset`/`WriteAsset` are the two statements of a PATCH of the machine, which
writes back the figure it read, or one it was given (`edits` holds what is about to be
written). Four history variables say where no promise about the tables is made: `failed`,
`overlapped`, `jumped`, and `crossed`, that a figure was applied between the two statements
of a PATCH. The tables hold offsets in place of figures, and `ByHand` for what no message
wrote: `row[k]` is the message a batch, a period's figure or a plant's shift list was
last written from, `oee` the one the machine shows, `alerts[k]` how many alerts a breach
has. The group
protocol itself is modelled from how the code uses it and is marked external.

### `Registry` - the machine tree, and the work that puts a machine into service

`plants` and `sections` say which rows are there, `asset[m]` is the machine's row (its
floor, the copy of its floor's factory, its service state), `order[o]` the work orders,
which name their machine by tag and declare no reference, `told[m]` the floor production
was last told. A request is the statements it has left (`req[r].pc`), and every statement is
a step: `CreateSection`/`InsertSection`, `DeletePlant`/`DropRoster`/`DeletePlantRow`,
`DeleteSection`/`DeleteSectionRow`, `CreateAsset`, `PatchAsset`/`WriteAsset` (the row is
read and written back whole; either may name a factory of its own, which is not compared
with the floor's), `DeleteAsset`/`CountHistory`/`DeleteAssetRow` under the lock of
the row (`Unlocked`), and after each change of a machine `ReadBack` and `PublishAsset`,
whose failure is only logged. A new installation marks its machine
(`MarkInstallationStarted`), and a completed one merges the state, tells production, looks
for an open commissioning job and raises one (`AfterInstallationWork`,
`MergeAssetAttrs`, `OpenWorkOrderOfType`, `RaiseCommissioning`). `Interrupt` ends a
request anywhere. Three history variables say for which machines the promises are made:
`raced`, those two requests about which overlapped, `untold`, those an announcement
about which failed or was never made, and `named`, those a request named a factory for
that is not their floor's.

### `Delivery` and `Outbox` - what is told, and how

`Delivery` is the promise: changes are committed, then told, then settled, and
telling twice is invisible. `Outbox` is the implementation: `stored`, `dispatched`,
`attempts` and `wait` are the columns of `mes_event_outbox` (`wait` is
what is left until `available_at`), `relay[p]` is what the goroutine of a
server process holds: the rows it claimed, with the attempts it claimed them
with, and the answer of Kafka not yet recorded. The claim is one UPDATE
(`ClaimBatch`), the send and each mark are their own steps, and between any two of
them the process may end (`Stop`), calls or their answers may get lost (`Outage`), the lease may run
out (`Tick`) and another relay may take the row. `BackoffFor` is computed in
signed words of `Width` bits, as the code does in 64, in ticks of which `Second` make one
unit of the clock: the product overflows before it is compared with the maximum, to a
negative delay or a positive one by turns, and in the end to zero.
`NothingInvented` is the refinement `Outbox => Delivery`.

### What the models assume

* The attributes a client sends in a PATCH do not name keys the workflow owns (approval,
  signatures, handover, checklist results, shutdown tag), and stops or orders are not
  tagged with a shutdown by hand. The checklist itself, which a PATCH carries in a field
  of its own, is in the model.
* The reads a shutdown request makes before its first write are one step. One
  factory is modelled: codes and windows never cross one.
* A work order is born `open` in every model. The creation path accepts any status; that
  is listed as a hazard.
* In `FaultReports` the number of an order is never given twice. In `PMSchedules` and
  `Registry` numbers are given as the code gives them, and in `PMSchedules` orders are
  not deleted.
* In `PMSchedules` the statements of `CreateWorkOrderFromPM` after the number is read are
  one step, and the clock counts whole days. An order that is in progress counts as open.
  A template several schedules share is edited for each of them in turn; no property
  relates two schedules. Meter readings come in the order of their dates.
* `Ingest` has one partition: the group assigns partitions one by one, and no projection
  spans two keys of different partitions except `oee`, which one machine's figures share.
  A figure whose definition MES does not have is like any other. Plants are not deleted.
* In `Registry` a floor stays in its factory.
* An event is identified with the id of its row. Alerts that are enqueued on
  another connection inside an open transaction are not in the model. The poll
  interval of the relay is any delay: a claim may come at any time. `attempts`
  saturates at `Width`, from where the delay is zero whatever they are.

## 3. The runs

| Run | Instance | Distinct states | Shows |
|---|---|---|---|
| `downtime` (`MCDowntime.cfg`) | 2 machines, 3 stops, 1 registry edit, 3 messages a stop | 394,160 | the log tells each stop's life, and the machines follow it |
| `shutdown` (`MCShutdown.cfg`) | 1 planner, 4 requests, 2 machines, 2 stop rows, 2 days | 1,448,138 | header and log agree through cut-short requests and stops touched on their own |
| `shutdown_planners` (`MCShutdownPlanners.cfg`) | 2 planners at once, 3 requests, 2 codes of one day, 2 machines, 1 stop row, 1 work order and 1 edit of it | 1,546,078 | what racing planners leave standing: one shutdown per machine, headers that go forward, tags that follow the shutdown |
| `workorders` (`MCWorkOrders.cfg`) | 3 people, a checklist of up to 2 steps, 2 requests at a time | 707,888 | who may sign, start and complete an order |
| `faults` (`MCFaultReports.cfg`) | 2 reports, 2 orders, 1 stop, 1 machine, 2 requests at a time, 4 in all | 1,958,845 | links never cross, one order per report, and what is closed lets its machine go |
| `report_patched` (`ReportPatched.cfg`) | 1 report, 1 order, 2 requests | | finding 1 |
| `outbox` (`MCOutbox.cfg`) | 2 relays, 2 rows, one of which Kafka never takes, 5-bit words, 5 ticks a second | 329,030 | the refinement of `Delivery`, and liveness |
| `pm` (`MCPMSchedules.cfg`) | 1 schedule, 3 templates and their edits, 2 runs of the job, 1 planner, 2 completions, 3 days, 3 order numbers, 2 requests | 248,465 | one order per schedule, dates on their calendar, and an order for whatever is due |
| `ingest` (`MCIngest.cfg`) | 2 consumers, 3 messages, 3 logs, 2 events that interfere | 211,154 | what is repeated, what is never skipped, where the tables end, and liveness |
| `message_passed_over` (`MessagePassedOver.cfg`) | the same with 1 event | | finding 2 |
| `registry` (`MCRegistry.cfg`) | 2 factories with a floor each, 1 machine, either factory named, 3 order numbers, 2 requests at a time, 3 in all | 639,883 | the machine's factory, production's last word, one commissioning job |
| `asset_orphaned` (`AssetOrphaned.cfg`) | the same with 2 requests | | finding 3 |

### Bounds, and why they are enough

* `Downtime`: two machines, so that a step on one can be seen to leave the other alone;
  three stops, so that two of one machine overlap while a third is on the
  other or follows them; three messages a stop, a start and two ends,
  because a closed stop can be ended again. The proofs drop all of these bounds.
* `Shutdown`: two stop rows for two machines cover planning a stop, removing its machine and
  planning the other; two days make two windows that do not overlap, and
  `MaxSuffix` = 1 one code for each. Four requests are a create and three changes of
  it, or two shutdowns with a change each. For the races, `shutdown_planners` has two
  planners and two codes of one day, so that two requests may be about one shutdown or
  choose the same machine for two; the third request is a change of what the two left, or
  of a shutdown that was there before them. Larger instances with two planners were run
  once and found no error: two machines, one stop and the windows {1}, {2} and {1, 2}
  (1,049,411 states); two machines, two stops and two days (4,161,713 states); one machine,
  two stops, the windows {1, 2} and {2} and four requests (1,610,459 states). The machines
  start idle, in `shutdown` also retired; no rule looks at more. The proofs drop all of
  these bounds.
* `WorkOrders`: three people are the smallest number a handover can be complete with;
  two requests at a time, because the unlocked window is between two; two steps, so
  that a PATCH adds one to a list that was accepted with one, or takes one away.
  Requests are counted: at most `MaxRequests` (6) when they come one after the other,
  enough to pass a test, sign three times, complete and then reopen or list another step,
  and at most `MaxRaced` (3) once two have overlapped. `AcceptedHasPassed` and
  `CompletedStaysChecked` speak only of orders no two requests of which ever
  overlapped: with overlap both fail (section 5).
* `FaultReports`: two reports on one machine, so that one report's triage can meet the
  other's stop, order or rule; one stop row, because no property here counts
  stops; three messages, so that a stop can be ended again; two orders, enough for
  a report to be converted twice. Four requests of several statements are a report,
  its triage, the completion and one that races any of them; statements that stand alone
  are not counted. `PATCH` moves an order only to completed: the other statuses
  differ in nothing the report sees.
* `Outbox`: `Lease` 1 lets a lease run out while the batch is in flight; `Width` 5, `Second`
  5 and `MaxBackoff` 2 make delays that grow to the cap, then a negative one (due at
  once), a positive one again, and then zero, as 64 bits, nanoseconds and five minutes do in
  the code. `BatchFits` (`MCOutbox`) assumes that
  the rows Kafka will never take are fewer than a batch: they come first by id, are due
  at once after the overflow, and a whole batch of them would starve every later row.
  With two rows and `Limit` 2 a batch holds every row there is; a batch that leaves rows
  out is covered by the proofs of the refinement, not by the run.
* `PMSchedules`: one schedule of three templates, fixed calendars of two or three days, or
  ten running hours without an interval (so that `DefaultDays` is used); with two calendars
  an edit of the template can change the interval a row was reckoned by. The levels 9 and
  10 are "due soon" and "due". Two runs are what the lock is for; a planner and two
  completions are what it does not cover. Three days go past a date in either direction.
  Crashes, PATCHes, edits of schedules and templates, readings, completions and plans share
  `MaxRequests`, two, so any
  two of them meet in one behaviour. `MaxNum` is three orders, as
  many as two requests can lead to.
* `Ingest`: three messages are an old value, a new one and something after or in between;
  the three logs are a figure corrected before a batch, a breach published twice around a
  figure, and two shift lists out of order. What interferes is counted together: crashes,
  rebalances, failed calls, PATCHes of the machine and checks of batches share `MaxEvents`,
  two, for instance a rebalance and a failed handler, or a crash and a PATCH; commits that
  fail are not counted. Three events (1,401,417 states, safety only) find nothing else.
* `Registry`: two factories with a floor each, so that a move changes the factory and a
  request can name the other one; one
  machine, whose tag can be used again; two requests at a time, three in all: an
  installation is raised, completed and completed again, or a move, an edit and a delete
  race. Statements that stand alone (`CreatePlant`, `Reopen`, `DeleteWorkOrder`) are not
  counted.

Deadlock is checked for the outbox, which never stops: servers and Kafka come and
go. The other models stop when their rows and requests, their clock or their log are used up.

### Fairness

Three components promise that something happens.

* *Outbox.* `Run` loops until its context ends: while its process lives it claims when
  rows are due, sends what it claimed and records every answer (weak fairness of each,
  per relay), and the clock goes on (`Tick`). Everything else is the premise of
  `RowsAreTold`: from some point on Kafka and the database do what they are asked and
  say so, and the servers stay up (`Calm`). The premise includes the answers: a row Kafka
  has, but whose answer or mark is lost every time, comes due again after each lease and
  takes its place in every batch, like a row Kafka never takes; while that goes on it can
  keep a later row waiting.
* *Sync job.* `runPMSyncLoop` of the server calls the job every hour in every process
  (and `mes-jobs` may call it besides): weak fairness of the steps of each run, of which
  beginning the next is one. `DueIsRaised` needs nothing of anybody's requests, and no
  end of crashes other than that a behaviour has finitely many (`MaxRequests`); a schedule
  that is deleted or moved to a later date before its order is raised needs none.
* *Consumer.* While a process lives it runs its loop (weak fairness of `Run` per
  consumer), and the coordinator assigns a partition whose owner is gone to a process
  that is up (weak fairness of an `Assign` of a vacant partition). Nobody is obliged to
  publish or to start a process: `MessagesAreHandled` has the premise that, from some
  point on, some process is always up.

## 4. What is proved

* `DowntimeProofs`: `LogIsTold` (types and `MessagesFollowLifecycle`) and
  `MachinesFollowTheLog` (`LiveStopMeansDown` and `MachinesComeBack`), for any sets of
  machines, stops and edits. The inductive invariant adds `PlannedIsNotOver`: a
  stop that has not happened carries no end, without which starting one could
  leave it open and over at once. A step of one stop touches one machine, and
  `OtherMachinesKeep` carries the promises about all the others.
* `WorkOrdersProofs`: `RowsStayGood` (types, `HandoverSignersDiffer`, `StartedWasApproved`,
  and `DecidedByAnother`, that nobody decides on what they raised) for any people,
  checklists and number of overlapping
  requests. They survive races that lose updates, because each is a property of
  a row and every row that is written is one that was read with whole keys
  replaced: it is enough that each key a request carries is good wherever it is
  merged (`GoodPatch`), and that a row on its way is good (`GoodRow`). The gate is
  what makes the status and the approval of different requests compatible.
  `OneAtATimeStaysChecked` (`AcceptedHasPassed`, `CompletedStaysChecked`) relates keys of
  a row to each other, which lost updates break; so its invariant (`AloneInv`) speaks of
  orders no two requests of which have overlapped. There the request in flight carries
  keys that fit the row as it is (`FitPatch`), because nobody else writes the row before
  it does. A PATCH may change the list under an accepted or completed order, so the
  invariant is about the order as it was settled (`AsSettled`): the results of the steps
  listed then stay, whatever is listed later.
* `ShutdownProofs`, for any number of planners racing each other: `PlannersKeepTheLog`,
  every step of the planner is a step of the downtime log or leaves it alone; with it
  `ShutMachinesComeBack` carries the theorems of the log over. What a request works
  through are always rows of the log (`ListsInv`). `ShutdownsStayTyped` (the types), for
  which a new code has to be one of its day's (`LeastSuffix`).
  Nothing serialises planners, so no theorem assumes that anything does: each promise
  names the shutdowns it is made for by what met (`met`, `broken`), for any machines,
  windows, stops, jobs and edits:
  * `HeadersKeepTheirWord` (`NoDoubleBooking`, `StopsFollowHeader`, `HeaderForward`),
    with requests cut short anywhere. A request has a course of statements (`Course`),
    and the one it is at tells what it has written. For a shutdown that is `Alone` the
    header its request read is still there until it saves, and it clashes with that of no
    other shutdown it never met, because any request that could choose the same machines
    in the meantime has met it (`Matches`, `NoClash`). What the request listed is all there is to start, to end or to cancel,
    since nobody but a request about the shutdown plans a stop of it, and one that is
    running has none left that could still open (`WorksThrough`).
  * `LogShowsIt` (`LogShowsThePlan`), for shutdowns that are `Resting`: none of their
    requests overlapped or was cut short, and none is under way:
    after each statement, which machines still have a stop they should lose or no stop yet
    (`Changes`), and which stops have moved to the new window (`Replanned`).
  * `JobsFollowIt` (`JobsFollowShutdown`): which jobs a request still owes to let go
    (`Follows`), and that a job is put in with the row of one of the shutdown's machines
    (`Adds`). A completion or an edit of a job only takes it out of what is promised
    (`TagsStay`).
* `FaultReportsProofs`: `LinksBelong` (the types and `LinksAreItsOwn`), for any reports,
  orders, stops and number of overlapping requests. The owner of a stop or
  an order is written once, when the row is born, and never changes (`Kept`); so what a
  request read or created before still belongs to its report when it links it
  or ends it (`Sound`, the part of the invariant about requests on their way).
  `ReportsKeepTheLog`: every step of a report is a step of the downtime log, or
  leaves it alone, so a behaviour of the composition is one of `DowntimeSpec`; and
  with it `ReportedMachinesComeBack` carries the theorems of the log over.
  `ReportsLetGo` (`ClosedReportsLetGo`), `ReportsAreTriagedOnce` (`TriagedOnce`,
  `FinishedWorkResolves`) and `OneReportRaised` (`OneReportPerRule`) are about reports that
  no failed or overlapping request disturbed, and that nobody reopened where the property
  says so. The one request in flight about such a report is at a statement of its
  task and the report is as that statement expects it: the only stop of the report is the
  one it links or the one the request holds (`Quiet`), it has no order before a request
  raises one, and one after (`Once`). For the rule: while a run is between its look and
  its insert, no such report of the rule is open on that machine (`RuleInv`).
* `OutboxProofs`: `RelayIsGrounded`, the inductive invariant (marked rows are on the topic,
  the topic holds only stored rows, stored rows are committed, batches hold stored
  rows, a good answer means a copy in Kafka), and `OutboxImplementsDelivery`, that
  every step of the outbox is a step or a stutter of `Delivery`, for any events,
  relays, leases and word width.
* `PMSchedulesProofs`, for any schedules, templates, processes, planners and completions:
  `SchedulesTyped` (types, and `Referenced`: the foreign key keeps the schedule of an
  order or a completion in place); `JobRaisesOnce` (`SyncRaisesOnce`): whoever holds the
  lock is the only run that is not idle (`LockHeld`), so between the look for an open
  order and the INSERT there is no open order of the schedule that the job raised and
  nobody reopened (`Fresh`, `Quiet`), and hence never two (`Alone`);
  `FixedDatesKept` (`CalendarKept`) and `NextServiceAhead` (`ServedAhead`): what a
  completion has computed and not written yet is on the calendar and ahead of the date it
  will write (`Prepared`), whatever was written in between. They rest on what
  `NextDueAfter` computes, which is proved from division with remainder (`NextAhead`,
  `NextOnCalendar`). When a template is edited the dates of its schedules, and those
  about to be written to them, are where the new calendar starts (`TemplateDates`). `CompletionAdvances` (`ServedIsAdvanced`): a completion moves one
  schedule on, and unless that schedule counts as disturbed no other completion does
  (`OneCompletes`); so its row knows of a service no older than any completed order's, or
  the completion is still about to say so (`Recorded`).
* `IngestProofs`, for any logs, consumers and faults: `NoneSkipped` (`NothingSkipped`): what a
  process has passed was handled or failed, in every process at once (`Passed`), so the
  offset it commits, however late, is no further than that; `OneAlert` (`RaisedOnce`): a
  message in hand is in the hands of one process unless its key counts as overlapped
  (`Hands`), and between the look and the creation there is no alert (`Raising`);
  `ListsAreNewest` (`NewestShifts`); `TablesCatchUp` (`SettledIsCurrent`): every message up
  to the group's offset, and every one the owner has worked through, is shown by its row or
  overtaken there by a later one or by hand (`Shown`, `Applied`), because a message is
  applied out of its turn only by a process that came late, and the group is ahead of its
  owner only where a late commit took it (`Places`). Until a figure crosses a PATCH, what a
  PATCH is about to write is what the machine shows, or was entered by hand.
* `RegistryProofs`, for any factories, floors, machines, orders and overlapping requests:
  `TreeKeepsStanding` (types, `TreeStands`, `PlantFollowsSection`): a row about to be
  written back, however stale, agrees with itself unless a request named a factory for
  that machine (`WritesFollow`), and the foreign keys refuse it when its floor is gone. `RaisesOnce` (`OneCommissioningRaised`) and
  `LastWordIsTrue` (`ToldTheTruth`): a machine that does not count as raced is the
  matter of one request at a time (`Alone`); so a request about to raise a job has found
  none open and none is opened since (`Looked`), and where production does not know a
  machine's floor yet, that one request is still about to say it (`Announced`).

The proofs use the named assumptions of the modules (`MaxMessagesAssumption`,
`MaxRequestsAssumption`, `WindowAssumption`, `WorkOrdersAssumption`,
`FaultReportsAssumption`, `EventAssumption`, `DelayAssumption`, `PMAssumption`,
`IngestAssumption`, `RegistryAssumption`) and nothing else.

Every safety invariant the runs check is stated by a theorem, and so is `HeaderForward`.
Only model-checked: the liveness properties `RowsAreTold`, `DueIsRaised` and
`MessagesAreHandled`, which are beyond the prover; and that the runs marked as findings
reach what they report.

## 5. Findings

1. `report_patched`: a PATCH that completes the order of a report passes the same checks as
   `/complete` and then puts installed machines in service, but leaves the report
   under investigation and its stop open (`gaps_cmms.go:105`), although "completing
   the order resolves it" (`maintenance_phase2.go:214`).
2. `message_passed_over`: a message whose handler failed is left uncommitted "so it is retried
   after a restart" (`consumer.go:64`), but the loop goes on, and the commit of the next
   message of the partition stores an offset past it: nobody is given it again.
3. `asset_orphaned`: `DeleteAsset` locks the machine's row "so a concurrent write cannot attach
   history between the count below and the DELETE" (`plants.go:657`). A work order names
   its machine by a bare tag, and its INSERT takes no lock on that row: the order can come in
   between, and outlives the machine it names.

Seen while modelling, with no run of their own:

* `saveShutdown` writes the header its request read (`shutdown.go:98`): of two planners at
  once the later undoes the transition of the earlier, although a header goes only
  forward (`shutdown.go:14`). `HeaderForward` excepts the shutdowns two requests about
  which overlapped; without the exception `shutdown_planners` shows the way back.
* A request looks for its machines in the other headers and saves its own in another
  statement (`shutdown.go:285`): two that choose at once can both take one machine.
  `NoDoubleBooking` excepts pairs that met in that way.
* A PATCH of an accepted or completed order may replace its checklist and list steps nobody
  has marked (`gaps_cmms.go:61-66`), although results can no longer be recorded because
  the checklist of a finished order is closed (`maintenance_phase2.go:407`).
  `AcceptedHasPassed` and `CompletedStaysChecked` therefore speak of the steps listed
  when the order was accepted or completed.
* A PATCH of a machine writes back the figure it read (`plants.go:497`, `542`): a rollup
  applied in between is undone until the next one.
* `CompleteWorkOrder` checks a row it does not lock (`cmms.go:131`): a test that fails in
  between leaves a completed commissioning job with a failed test.
* "The technician who did the work cannot also check it" is compared only when the
  supervisor signs (`maintenance_phase2.go:531`): after a reopening the checker can sign as
  the technician.
* `createFaultReport` gives its stop no start; what reaches the INSERT is the zero time and
  not NULL, and `COALESCE($5,NOW())` keeps it (`cmms.go:260`, `maintenance_phase2.go:56-58`).
* `afterInstallationWork` is "safe to run twice" while the commissioning job is open; run again
  after that job was closed it raises a second one (`installation.go:431`).
* Shutdown planning raises a schedule's order without the job's lock (`shutdown.go:506`) and
  can raise a second one.
* `DeletePlant` drops the roster in a statement of its own before the delete that may be
  refused (`register_delete.go:142-151`).
* A PATCH that names `plant_id`, or a creation that names both ids, can give a machine a
  factory that is not its floor's (`plants.go:523`, `453`, `569`); `PlantFollowsSection` excepts
  the machines this was ever done to.
* `MarkInstallationStarted` sets a machine that is in service back to "installing" when an
  installation order is raised for it (`installation.go:394-401`).

## 6. Not modelled

What could be added:

* Orders born in another status than open.
* The alerts that the log enqueues on a second connection inside an open transaction, and
  with them the pool of connections every transaction may be waiting for.
* `UpdateShutdown` failing between its save and the planning of an added machine's stop,
  with the promise a retry would have to keep.

Left out for good: KPI, reliability, forecast and energy arithmetic (read-only over
tables, no state that interacts), integrations and clients (HTTP and one
upsert each), authentication, audit, configuration and start-up (wiring), schedule
blocks (single statements), migrations (run once, in order, under a lock) and the
vendored library. Each promises nothing about an order of events; what can be wrong with
them is arithmetic or I/O, which tests reach.
