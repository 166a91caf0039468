------------------------------ MODULE PMSchedules ------------------------------
(***************************************************************************)
(* Preventive maintenance schedules and the orders raised for them         *)
(* (internal/jobs/preventive_maintenance.go, internal/store/gaps_cmms.go,  *)
(* pm_edits.go).  A sync job, run by several processes under one advisory  *)
(* lock, raises an order when a schedule is due by date or by running      *)
(* hours.  Planning a shutdown raises one early, without the lock.         *)
(* Completing an order moves its schedule on after the order's own         *)
(* transaction has committed.  The clock counts days.                      *)
(***************************************************************************)
EXTENDS Integers, FiniteSets

CONSTANTS
    Schedules, Runners, Planners, Completers,
    Templates,      \* interval_days, fixed_dates and interval_hours (0: none)
    Levels,         \* running hours a reading may show
    FirstDue, DueDates,  \* dates a schedule is created with, and moved to
    Lead,           \* the sync raises an order this long before the date
    DefaultDays,    \* the interval of a template that has none
    Never, NoRow, NoOrder, NoOne,
    MaxClock, MaxNum, MaxRequests

ASSUME PMAssumption ==
    /\ Templates \subseteq [days : Int, fixed : BOOLEAN, hours : Nat]
    /\ DefaultDays \in Nat \ {0} /\ Levels \subseteq Nat
    /\ FirstDue \subseteq Int /\ DueDates \subseteq Int
    /\ Lead \in Nat
    /\ MaxClock \in Nat /\ MaxNum \in Nat /\ MaxRequests \in Nat
    /\ Never \notin Int /\ NoOne \notin Runners
    /\ NoOrder = [status |-> "none"] /\ NoRow = [status |-> "none"]

VARIABLES
    clock,
    template,   \* mes_pm_templates: the one of each schedule
    sched,      \* mes_pm_schedules
    meter,      \* running hours of its machine: the latest reading and the one at the last service
    order,      \* the orders in mes_work_orders with a pm_schedule_id, by number
    lock,       \* holder of the advisory lock
    job,        \* a run of SyncPreventiveMaintenance
    plan,       \* SetShutdownJobs at one of its schedules
    done,       \* CompleteWorkOrder, from its commit to the schedule's update
    requests,
    given,      \* history: the due dates people gave a schedule
    reckoned,   \* history: those it had, or was about to get, when its template was edited
    disturbed   \* history: schedules whose completions overlapped or were cut short

people == <<requests, given, disturbed>>
vars == <<template, reckoned, clock, sched, meter, order, lock, job, plan, done, people>>

Nums == 1 .. MaxNum
Row == [due : Int, last : Int \cup {Never}, status : {"scheduled", "overdue"}]
Order == [sch : Schedules, status : {"open", "completed", "cancelled"},
          by : {"sync", "plan"}, reopened : BOOLEAN, at : Int \cup {Never}]

Run == [pc : {"idle", "flip", "list", "loop", "number", "insert"}, phase : {"dates", "hours"},
        status : [Schedules -> {"none", "scheduled", "overdue"}],
        todo : SUBSET Schedules, mark : SUBSET Schedules, cur : SUBSET Schedules, num : Nat]
Planning == [pc : {"idle", "number", "insert"}, sch : SUBSET Schedules, num : Nat]
Completion == [pc : {"idle", "read", "write"}, sch : SUBSET Schedules,
               last : Int \cup {Never}, due : Int, hours : Nat]

Live(o) == o.status = "open"
OrdersOf(s) == {n \in Nums : order[n] # NoOrder /\ order[n].sch = s}
HasOpenWorkOrder(s) == \E n \in OrdersOf(s) : Live(order[n])
IsRow(s) == sched[s] # NoRow

\* A slip: the interval of the template as it is, zero included.
IntervalAsGiven(t) == t.days

Interval(t) == IF t.days <= 0 THEN DefaultDays ELSE t.days

\* A slip: fixed dates counted from the day the job was done.
NextFromDone(prev, t, now) == now + t.days

\* When a schedule due on prev is next due, its job done on the day now.
NextDueAfter(prev, t, now) ==
    IF ~t.fixed THEN now + Interval(t)
    ELSE prev + Interval(t) * (IF now < prev THEN 1 ELSE (now - prev) \div Interval(t) + 1)

\* Below the reading at the service the meter was reset, and counts from there.
Used(s) == IF meter[s].now < meter[s].base THEN meter[s].now ELSE meter[s].now - meter[s].base

MeterState(s) ==
    IF Used(s) >= template[s].hours THEN "due"
    ELSE IF 10 * Used(s) >= 9 * template[s].hours THEN "due_soon" ELSE "ok"

MeterDue(S, states) == {s \in S : template[s].hours > 0 /\ MeterState(s) \in states}

NoJob == [pc |-> "idle", phase |-> "dates", status |-> [s \in Schedules |-> "none"],
          todo |-> {}, mark |-> {}, cur |-> {}, num |-> 0]
NoPlan == [pc |-> "idle", sch |-> {}, num |-> 0]
NoDone == [pc |-> "idle", sch |-> {}, last |-> Never, due |-> 0, hours |-> 0]

PMInit ==
    /\ clock = 0
    /\ template \in [Schedules -> Templates]
    /\ sched \in [Schedules -> [due : FirstDue, last : {Never}, status : {"scheduled"}]]
    /\ meter = [s \in Schedules |-> [now |-> 0, base |-> 0]]
    /\ order = [n \in Nums |-> NoOrder]
    /\ lock = NoOne
    /\ job = [r \in Runners |-> NoJob]
    /\ plan = [p \in Planners |-> NoPlan]
    /\ done = [c \in Completers |-> NoDone]
    /\ requests = 0
    /\ given = [s \in Schedules |-> {sched[s].due}]
    /\ reckoned = [s \in Schedules |-> {}]
    /\ disturbed = {}

Request == requests < MaxRequests /\ requests' = requests + 1

--------------------------------------------------------------------------------
(* Raising an order: read the highest number, insert under the next one.     *)

NextWorkOrderNum(num) ==
    /\ num > 1 => order[num - 1] # NoOrder
    /\ \A n \in Nums : n >= num => order[n] = NoOrder

\* The INSERT is refused when the number was taken meanwhile or the schedule is gone.
CreateWorkOrderFromPM(num, s, by) ==
    order' = IF num \in Nums /\ order[num] = NoOrder /\ IsRow(s)
             THEN [order EXCEPT ![num] = [sch |-> s, status |-> "open", by |-> by,
                                          reopened |-> FALSE, at |-> Never]]
             ELSE order

--------------------------------------------------------------------------------
(* The sync job.                                                             *)

SetJob(r, j) == job' = [job EXCEPT ![r] = j]
Reached(r, pc) == job[r].pc = pc

\* A slip: the answer of pg_try_advisory_lock is not looked at.
RunAnyway(r) ==
    /\ Reached(r, "idle")
    /\ lock' = r
    /\ SetJob(r, [NoJob EXCEPT !.pc = "flip"])
    /\ UNCHANGED <<template, reckoned, clock, sched, meter, order, plan, done, people>>

\* pg_try_advisory_lock: a run that finds it taken does nothing.
TryLock(r) ==
    /\ Reached(r, "idle") /\ lock = NoOne
    /\ lock' = r
    /\ SetJob(r, [NoJob EXCEPT !.pc = "flip"])
    /\ UNCHANGED <<template, reckoned, clock, sched, meter, order, plan, done, people>>

SyncPMScheduleStatuses(r) ==
    /\ Reached(r, "flip")
    /\ sched' = [s \in Schedules |->
                    IF IsRow(s) /\ sched[s].status = "scheduled" /\ sched[s].due < clock
                    THEN [sched[s] EXCEPT !.status = "overdue"] ELSE sched[s]]
    /\ SetJob(r, [job[r] EXCEPT !.pc = "list"])
    /\ UNCHANGED <<template, reckoned, clock, meter, order, lock, plan, done, people>>

\* The rows are read once; what is due is decided from them for the whole run.
ListPMSchedules(r) ==
    /\ Reached(r, "list")
    /\ SetJob(r, [job[r] EXCEPT !.pc = "loop",
                    !.status = [s \in Schedules |-> sched[s].status],
                    !.todo = {s \in Schedules : /\ IsRow(s)
                                                /\ \/ sched[s].due <= clock + Lead
                                                   \/ sched[s].status = "overdue"}])
    /\ UNCHANGED <<template, reckoned, clock, sched, meter, order, lock, plan, done, people>>

\* Running hours are read afterwards, from the rows as they are by then.
ListMeterStatus(r) ==
    /\ Reached(r, "loop") /\ job[r].phase = "dates" /\ job[r].todo = {}
    /\ LET listed == {s \in Schedules : IsRow(s) /\ job[r].status[s] # "none"} IN
       SetJob(r, [job[r] EXCEPT !.phase = "hours",
                    !.todo = MeterDue(listed, {"due", "due_soon"}),
                    !.mark = {s \in MeterDue(listed, {"due"}) : job[r].status[s] = "scheduled"}])
    /\ UNCHANGED <<template, reckoned, clock, sched, meter, order, lock, plan, done, people>>

MarkScheduleOverdue(r, s) ==
    /\ Reached(r, "loop") /\ job[r].cur = {} /\ s \in job[r].mark
    /\ sched' = IF sched[s].status = "scheduled"
                THEN [sched EXCEPT ![s].status = "overdue"] ELSE sched
    /\ SetJob(r, [job[r] EXCEPT !.cur = {s}, !.mark = @ \ {s}])
    /\ UNCHANGED <<template, reckoned, clock, meter, order, lock, plan, done, people>>

CheckOpen(r, s) ==
    /\ Reached(r, "loop")
    /\ s \in (IF job[r].cur = {} THEN job[r].todo \ job[r].mark ELSE job[r].cur)
    /\ SetJob(r, IF HasOpenWorkOrder(s)
                 THEN [job[r] EXCEPT !.todo = @ \ {s}, !.cur = {}]
                 ELSE [job[r] EXCEPT !.cur = {s}, !.pc = "number"])
    /\ UNCHANGED <<template, reckoned, clock, sched, meter, order, lock, plan, done, people>>

SyncNumber(r) ==
    /\ Reached(r, "number")
    /\ \E num \in 1 .. MaxNum + 1 :
          /\ NextWorkOrderNum(num)
          /\ SetJob(r, [job[r] EXCEPT !.pc = "insert", !.num = num])
    /\ UNCHANGED <<template, reckoned, clock, sched, meter, order, lock, plan, done, people>>

\* Refused or not, the run goes on with the next schedule.
SyncInsert(r) ==
    /\ Reached(r, "insert")
    /\ \E s \in job[r].cur :
          /\ CreateWorkOrderFromPM(job[r].num, s, "sync")
          /\ SetJob(r, [job[r] EXCEPT !.pc = "loop", !.todo = @ \ {s}, !.cur = {}, !.num = 0])
    /\ UNCHANGED <<template, reckoned, clock, sched, meter, lock, plan, done, people>>

\* A slip: the pooled connection goes back with the lock still on its session.
KeepLock(r) ==
    /\ Reached(r, "loop") /\ job[r].phase = "hours" /\ job[r].todo = {}
    /\ SetJob(r, NoJob)
    /\ UNCHANGED <<template, reckoned, clock, sched, meter, order, lock, plan, done, people>>

Unlock(r) ==
    /\ Reached(r, "loop") /\ job[r].phase = "hours" /\ job[r].todo = {}
    /\ lock' = NoOne
    /\ SetJob(r, NoJob)
    /\ UNCHANGED <<template, reckoned, clock, sched, meter, order, plan, done, people>>

\* The process ends, and the lock with its session.
Crash(r) ==
    /\ ~Reached(r, "idle") /\ Request
    /\ lock' = NoOne
    /\ SetJob(r, NoJob)
    /\ UNCHANGED <<template, reckoned, clock, sched, meter, order, plan, done, given, disturbed>>

SyncStep(r) ==
    \/ TryLock(r) \/ SyncPMScheduleStatuses(r) \/ ListPMSchedules(r) \/ ListMeterStatus(r)
    \/ (\E s \in Schedules : MarkScheduleOverdue(r, s) \/ CheckOpen(r, s))
    \/ SyncNumber(r) \/ SyncInsert(r) \/ Unlock(r)

--------------------------------------------------------------------------------
(* Planning a shutdown: the schedule's open order is used, or one is raised. *)

SetShutdownJobs(p, s) ==
    /\ plan[p] = NoPlan /\ IsRow(s) /\ Request
    /\ plan' = [plan EXCEPT ![p] =
                  IF HasOpenWorkOrder(s) THEN NoPlan ELSE [pc |-> "number", sch |-> {s}, num |-> 0]]
    /\ UNCHANGED <<template, reckoned, clock, sched, meter, order, lock, job, done, given, disturbed>>

PlanNumber(p) ==
    /\ plan[p].pc = "number"
    /\ \E num \in 1 .. MaxNum + 1 :
          /\ NextWorkOrderNum(num)
          /\ plan' = [plan EXCEPT ![p].pc = "insert", ![p].num = num]
    /\ UNCHANGED <<template, reckoned, clock, sched, meter, order, lock, job, done, people>>

PlanInsert(p) ==
    /\ plan[p].pc = "insert"
    /\ \E s \in plan[p].sch : CreateWorkOrderFromPM(plan[p].num, s, "plan")
    /\ plan' = [plan EXCEPT ![p] = NoPlan]
    /\ UNCHANGED <<template, reckoned, clock, sched, meter, lock, job, done, people>>

--------------------------------------------------------------------------------
(* Completion, and the schedule after it.                                    *)

Completing(s) == {c \in Completers : s \in done[c].sch}

\* The checks of /complete do not ask whether the order is already completed.
CompleteWorkOrder(c, n) ==
    /\ done[c] = NoDone /\ order[n] # NoOrder /\ Request
    /\ order' = [order EXCEPT ![n].status = "completed", ![n].at = clock]
    /\ done' = [done EXCEPT ![c] = [NoDone EXCEPT !.pc = "read", !.sch = {order[n].sch}]]
    /\ disturbed' = disturbed \cup {s \in {order[n].sch} : Completing(s) # {}}
    /\ UNCHANGED <<template, reckoned, clock, sched, meter, lock, job, plan, given>>

AdvanceRead(c) ==
    /\ done[c].pc = "read"
    /\ \E s \in done[c].sch :
         done' = [done EXCEPT ![c] =
                    [pc |-> "write", sch |-> {s}, last |-> clock, hours |-> meter[s].now,
                     due |-> NextDueAfter(sched[s].due, template[s], clock)]]
    /\ UNCHANGED <<template, reckoned, clock, sched, meter, order, lock, job, plan, people>>

\* A slip: a one-off job's status for a schedule that comes round again.
AdvanceCompletes(c) ==
    /\ done[c].pc = "write"
    /\ sched' = [s \in Schedules |->
                    IF s \in done[c].sch
                    THEN [due |-> done[c].due, last |-> done[c].last, status |-> "completed"]
                    ELSE sched[s]]
    /\ done' = [done EXCEPT ![c] = NoDone]
    /\ UNCHANGED <<template, reckoned, clock, meter, order, lock, job, plan, people>>

\* A slip: only the next date is written.
AdvanceKeepsLast(c) ==
    /\ done[c].pc = "write"
    /\ sched' = [s \in Schedules |->
                    IF s \in done[c].sch
                    THEN [sched[s] EXCEPT !.due = done[c].due, !.status = "scheduled"]
                    ELSE sched[s]]
    /\ done' = [done EXCEPT ![c] = NoDone]
    /\ UNCHANGED <<template, reckoned, clock, meter, order, lock, job, plan, people>>

\* The hours count from the latest reading at last_done_at, the moment the row was read:
\* one that came in since then counts already.
AdvanceWrite(c) ==
    /\ done[c].pc = "write"
    /\ \E s \in done[c].sch :
         /\ sched' = [sched EXCEPT ![s] = [due |-> done[c].due, last |-> done[c].last,
                                           status |-> "scheduled"]]
         /\ meter' = [meter EXCEPT ![s].base = done[c].hours]
    /\ done' = [done EXCEPT ![c] = NoDone]
    /\ UNCHANGED <<template, reckoned, clock, order, lock, job, plan, people>>

\* The request dies after the order's commit: nothing will move the schedule.
Interrupt(c) ==
    /\ done[c] # NoDone
    /\ disturbed' = disturbed \cup done[c].sch
    /\ done' = [done EXCEPT ![c] = NoDone]
    /\ UNCHANGED <<template, reckoned, clock, sched, meter, order, lock, job, plan, requests, given>>

--------------------------------------------------------------------------------
(* People, meters and the calendar.                                          *)

\* PATCH sets any status, and moves no schedule when it completes the order.
PatchWorkOrder(n, status) ==
    /\ order[n] # NoOrder /\ order[n].status # status /\ Request
    /\ order' = [order EXCEPT ![n].status = status,
                              ![n].reopened = @ \/ (status = "open" /\ ~Live(order[n]))]
    /\ UNCHANGED <<template, reckoned, clock, sched, meter, lock, job, plan, done, given, disturbed>>

\* Status follows the date.
PatchPMSchedule(s, due) ==
    /\ IsRow(s) /\ Request
    /\ sched' = [sched EXCEPT ![s].due = due,
                              ![s].status = IF due < clock THEN "overdue" ELSE "scheduled"]
    /\ given' = [given EXCEPT ![s] = @ \cup {due}]
    /\ UNCHANGED <<template, reckoned, clock, meter, order, lock, job, plan, done, disturbed>>

\* Any of a template's fields; the handler takes no interval below one day.  The row is
\* read and written back whole: what a slower edit restores is an edit like any other.
PatchPMTemplate(s, t) ==
    /\ IsRow(s) /\ t # template[s] /\ (t.days > 0 \/ t.days = template[s].days) /\ Request
    /\ template' = [template EXCEPT ![s] = t]
    /\ reckoned' = [reckoned EXCEPT ![s] =
                       @ \cup {sched[s].due} \cup {done[c].due : c \in {c \in Completing(s) : done[c].pc = "write"}}]
    /\ UNCHANGED <<clock, sched, meter, order, lock, job, plan, done, given, disturbed>>

\* Orders refer to their schedule by a foreign key.
DeletePMSchedule(s) ==
    /\ IsRow(s) /\ OrdersOf(s) = {} /\ Request
    /\ sched' = [sched EXCEPT ![s] = NoRow]
    /\ UNCHANGED <<template, reckoned, clock, meter, order, lock, job, plan, done, given, disturbed>>

\* A reading below the last one is a replaced meter and needs the reset flag.
RecordMeterReading(s, hours, reset) ==
    /\ IsRow(s) /\ hours # meter[s].now /\ (hours >= meter[s].now \/ reset) /\ Request
    /\ meter' = [meter EXCEPT ![s].now = hours]
    /\ UNCHANGED <<template, reckoned, clock, sched, order, lock, job, plan, done, given, disturbed>>

Tick ==
    /\ clock < MaxClock /\ clock' = clock + 1
    /\ UNCHANGED <<template, reckoned, sched, meter, order, lock, job, plan, done, people>>

PMNext ==
    \/ \E r \in Runners : SyncStep(r) \/ Crash(r)
    \/ \E p \in Planners : \/ \E s \in Schedules : SetShutdownJobs(p, s)
                           \/ PlanNumber(p) \/ PlanInsert(p)
    \/ \E c \in Completers : \/ \E n \in Nums : CompleteWorkOrder(c, n)
                             \/ AdvanceRead(c) \/ AdvanceWrite(c) \/ Interrupt(c)
    \/ \E n \in Nums, st \in {"open", "completed", "cancelled"} : PatchWorkOrder(n, st)
    \/ \E s \in Schedules : \/ \E due \in DueDates : PatchPMSchedule(s, due)
                            \/ \E h \in Levels, reset \in BOOLEAN : RecordMeterReading(s, h, reset)
                            \/ \E t \in Templates : PatchPMTemplate(s, t)
                            \/ DeletePMSchedule(s)
    \/ Tick

PMSpec == PMInit /\ [][PMNext]_vars

\* runPMSyncLoop: the job comes round every hour in every process, and goes on to its
\* end.  Nothing is assumed of anybody's requests.
PMFairness == \A r \in Runners : WF_vars(SyncStep(r))
PMFairSpec == PMSpec /\ PMFairness

--------------------------------------------------------------------------------
(* Properties.                                                               *)

PMTypeOK ==
    /\ clock \in Int
    /\ template \in [Schedules -> Templates]
    /\ sched \in [Schedules -> Row \cup {NoRow}]
    /\ meter \in [Schedules -> [now : Nat, base : Nat]]
    /\ order \in [Nums -> Order \cup {NoOrder}]
    /\ lock \in Runners \cup {NoOne}
    /\ job \in [Runners -> Run]
    /\ plan \in [Planners -> Planning]
    /\ done \in [Completers -> Completion]
    /\ requests \in Nat
    /\ given \in [Schedules -> SUBSET Int]
    /\ reckoned \in [Schedules -> SUBSET Int]
    /\ disturbed \subseteq Schedules

\* The sync job raises no second order for a schedule (preventive_maintenance.go:18):
\* of two open orders of one schedule, at least one came from shutdown planning or had
\* been closed and was opened again.
SyncRaisesOnce ==
    \A m, n \in Nums :
        /\ m # n /\ order[m] # NoOrder /\ order[n] # NoOrder
        /\ Live(order[m]) /\ Live(order[n]) /\ order[m].sch = order[n].sch
        => \E k \in {m, n} : order[k].by = "plan" \/ order[k].reopened

\* A schedule with fixed dates keeps its calendar (gaps_cmms.go:263): its date is always
\* a whole number of intervals after a date somebody gave it, whoever completes what when;
\* and when the template is edited, after one its calendar had by then.
CalendarKept ==
    \A s \in Schedules :
        IsRow(s) /\ template[s].fixed
        => \E d \in given[s] \cup reckoned[s] : (sched[s].due - d) % Interval(template[s]) = 0

\* The service after one that was done is ahead of it, unless somebody set another date
\* (handlers/pm_edits.go:27).
ServedAhead ==
    \A s \in Schedules :
        IsRow(s) /\ sched[s].last # Never => sched[s].due > sched[s].last \/ sched[s].due \in given[s]

\* Once the completion of an order is over, its schedule knows of a service no older
\* than that (cmms.go:161), unless completions overlapped or one was cut short.
ServedIsAdvanced ==
    \A n \in Nums :
        /\ order[n] # NoOrder /\ order[n].at # Never
        /\ order[n].sch \notin disturbed /\ Completing(order[n].sch) = {}
        => sched[order[n].sch].last # Never /\ sched[order[n].sch].last >= order[n].at

Due(s) == IsRow(s) /\ sched[s].due <= clock

\* A schedule that is due gets an order, whatever numbers collide and whichever
\* process dies in the middle of a run (preventive_maintenance.go:15).
DueIsRaised == \A s \in Schedules : Due(s) ~> (HasOpenWorkOrder(s) \/ ~Due(s))

================================================================================
