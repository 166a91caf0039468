--------------------------- MODULE PMSchedulesProofs ---------------------------
(***************************************************************************)
(* Proofs about PMSchedules, for any schedules, templates, runners,        *)
(* planners and completions.                                               *)
(***************************************************************************)
EXTENDS PMSchedules, TLAPS

USE PMAssumption

--------------------------------------------------------------------------------
(* Types.                                                                    *)

LEMMA IntervalPositive ==
    ASSUME NEW t \in Templates PROVE Interval(t) \in Nat \ {0}
BY DEF Interval

LEMMA NextDueType ==
    ASSUME NEW t \in Templates, NEW prev \in Int, NEW now \in Int
    PROVE  NextDueAfter(prev, t, now) \in Int
<1>1. Interval(t) \in Nat \ {0}
  BY IntervalPositive
<1>2. (now - prev) \div Interval(t) \in Int
  BY <1>1
<1> QED BY <1>1, <1>2 DEF NextDueAfter

\* An order refers to a schedule that is there, and so does the end of its completion.
Referenced ==
    /\ \A n \in Nums : order[n] # NoOrder => IsRow(order[n].sch)
    /\ \A c \in Completers : \A s \in done[c].sch : OrdersOf(s) # {}

Typed == PMTypeOK /\ Referenced

LEMMA NoneIsTyped == NoJob \in Run /\ NoPlan \in Planning /\ NoDone \in Completion
BY DEF NoJob, NoPlan, NoDone, Run, Planning, Completion

LEMMA TypeInit == PMInit => Typed
<1> SUFFICES ASSUME PMInit PROVE Typed
  OBVIOUS
<1>1. PMTypeOK
  <2>1. sched \in [Schedules -> Row \cup {NoRow}]
    BY DEF PMInit, Row
  <2>2. given \in [Schedules -> SUBSET Int] /\ reckoned \in [Schedules -> SUBSET Int]
    BY DEF PMInit
  <2>3. /\ job \in [Runners -> Run] /\ plan \in [Planners -> Planning]
        /\ done \in [Completers -> Completion]
    BY NoneIsTyped DEF PMInit
  <2> QED BY <2>1, <2>2, <2>3 DEF PMInit, PMTypeOK
<1>2. Referenced
  BY DEF PMInit, Referenced, NoDone
<1> QED BY <1>1, <1>2 DEF Typed

LEMMA NewRun ==
    ASSUME PMTypeOK, NEW r \in Runners, NEW j \in Run, SetJob(r, j)
    PROVE  job' \in [Runners -> Run]
BY DEF PMTypeOK, SetJob

LEMMA NewOrder ==
    ASSUME PMTypeOK, NEW num, NEW s \in Schedules, NEW by \in {"sync", "plan"},
           CreateWorkOrderFromPM(num, s, by)
    PROVE  order' \in [Nums -> Order \cup {NoOrder}]
<1> DEFINE o == [sch |-> s, status |-> "open", by |-> by, reopened |-> FALSE, at |-> Never]
<1>1. o \in Order
  BY DEF Order
<1>2. order' = order \/ (num \in Nums /\ order' = [order EXCEPT ![num] = o])
  BY DEF CreateWorkOrderFromPM
<1> HIDE DEF o
<1> QED BY <1>1, <1>2 DEF PMTypeOK

\* What a step of the job leaves of the types: a record of its own, and the rest.
LEMMA SyncTypes ==
    ASSUME PMTypeOK, NEW r \in Runners, SyncStep(r) \/ Crash(r)
    PROVE  PMTypeOK'
<1>0. job[r] \in Run /\ MaxNum \in Nat
  BY DEF PMTypeOK
<1>1. CASE TryLock(r)
  <2>1. [NoJob EXCEPT !.pc = "flip"] \in Run
    BY NoneIsTyped DEF Run
  <2>2. job' \in [Runners -> Run]
    BY <1>1, <2>1, NewRun DEF TryLock
  <2> QED BY <1>1, <2>2 DEF TryLock, PMTypeOK, people
<1>2. CASE SyncPMScheduleStatuses(r)
  <2>1. [job[r] EXCEPT !.pc = "list"] \in Run
    BY <1>0 DEF Run
  <2>2. job' \in [Runners -> Run]
    BY <1>2, <2>1, NewRun DEF SyncPMScheduleStatuses
  <2>3. sched' \in [Schedules -> Row \cup {NoRow}]
    BY <1>2 DEF SyncPMScheduleStatuses, PMTypeOK, Row, IsRow
  <2> QED BY <1>2, <2>2, <2>3 DEF SyncPMScheduleStatuses, PMTypeOK, people
<1>3. CASE ListPMSchedules(r)
  <2> DEFINE due == {s \in Schedules : /\ IsRow(s)
                                       /\ \/ sched[s].due <= clock + Lead
                                          \/ sched[s].status = "overdue"}
  <2>1. \A s \in Schedules : sched[s].status \in {"none", "scheduled", "overdue"}
    BY DEF PMTypeOK, Row
  <2>2. [job[r] EXCEPT !.pc = "loop", !.status = [s \in Schedules |-> sched[s].status],
                       !.todo = due] \in Run
    BY <1>0, <2>1 DEF Run
  <2>3. job' \in [Runners -> Run]
    BY <1>3, <2>2, NewRun DEF ListPMSchedules
  <2> QED BY <1>3, <2>3 DEF ListPMSchedules, PMTypeOK, people
<1>4. CASE ListMeterStatus(r)
  <2> DEFINE listed == {s \in Schedules : IsRow(s) /\ job[r].status[s] # "none"}
             mark == {s \in MeterDue(listed, {"due"}) : job[r].status[s] = "scheduled"}
  <2>1. MeterDue(listed, {"due", "due_soon"}) \subseteq Schedules /\ mark \subseteq Schedules
    BY DEF MeterDue
  <2>2. [job[r] EXCEPT !.phase = "hours", !.todo = MeterDue(listed, {"due", "due_soon"}),
                       !.mark = mark] \in Run
    BY <1>0, <2>1 DEF Run
  <2>3. job' \in [Runners -> Run]
    BY <1>4, <2>2, NewRun DEF ListMeterStatus
  <2> QED BY <1>4, <2>3 DEF ListMeterStatus, PMTypeOK, people
<1>5. ASSUME NEW s \in Schedules, MarkScheduleOverdue(r, s) PROVE PMTypeOK'
  <2>1. [job[r] EXCEPT !.cur = {s}, !.mark = @ \ {s}] \in Run
    BY <1>0 DEF Run
  <2>2. job' \in [Runners -> Run]
    BY <1>5, <2>1, NewRun DEF MarkScheduleOverdue
  <2>6. sched[s].status = "scheduled" => sched[s] \in Row
    BY DEF PMTypeOK
  <2>7. \A row \in Row : [row EXCEPT !.status = "overdue"] \in Row
    BY DEF Row
  <2>4. sched[s].status = "scheduled" => [sched[s] EXCEPT !.status = "overdue"] \in Row
    BY <2>6, <2>7
  <2>5. sched \in [Schedules -> Row \cup {NoRow}]
    BY DEF PMTypeOK
  <2>3. sched' \in [Schedules -> Row \cup {NoRow}]
    BY <1>5, <2>4, <2>5 DEF MarkScheduleOverdue
  <2> QED BY <1>5, <2>2, <2>3 DEF MarkScheduleOverdue, PMTypeOK, people
<1>6. ASSUME NEW s \in Schedules, CheckOpen(r, s) PROVE PMTypeOK'
  <2>1. /\ [job[r] EXCEPT !.todo = @ \ {s}, !.cur = {}] \in Run
        /\ [job[r] EXCEPT !.cur = {s}, !.pc = "number"] \in Run
    BY <1>0 DEF Run
  <2>2. job' \in [Runners -> Run]
    BY <1>6, <2>1, NewRun DEF CheckOpen
  <2> QED BY <1>6, <2>2 DEF CheckOpen, PMTypeOK, people
<1>7. CASE SyncNumber(r)
  <2>1. PICK num \in 1 .. MaxNum + 1 : SetJob(r, [job[r] EXCEPT !.pc = "insert", !.num = num])
    BY <1>7 DEF SyncNumber
  <2>4. num \in Nat
    BY <1>0, <2>1
  <2>2. [job[r] EXCEPT !.pc = "insert", !.num = num] \in Run
    BY <1>0, <2>4 DEF Run
  <2>3. job' \in [Runners -> Run]
    BY <2>1, <2>2, NewRun
  <2> QED BY <1>7, <2>3 DEF SyncNumber, PMTypeOK, people
<1>8. CASE SyncInsert(r)
  <2>1. PICK s \in job[r].cur :
          /\ CreateWorkOrderFromPM(job[r].num, s, "sync")
          /\ SetJob(r, [job[r] EXCEPT !.pc = "loop", !.todo = @ \ {s}, !.cur = {}, !.num = 0])
    BY <1>8 DEF SyncInsert
  <2>2. s \in Schedules
    BY <1>0 DEF Run
  <2>3. [job[r] EXCEPT !.pc = "loop", !.todo = @ \ {s}, !.cur = {}, !.num = 0] \in Run
    BY <1>0 DEF Run
  <2>4. job' \in [Runners -> Run]
    BY <2>1, <2>3, NewRun
  <2>5. order' \in [Nums -> Order \cup {NoOrder}]
    BY <2>1, <2>2, NewOrder
  <2> QED BY <1>8, <2>4, <2>5 DEF SyncInsert, PMTypeOK, people
<1>9. CASE Unlock(r)
  <2>1. job' \in [Runners -> Run]
    BY <1>9, NoneIsTyped, NewRun DEF Unlock
  <2> QED BY <1>9, <2>1 DEF Unlock, PMTypeOK, people
<1>10. CASE Crash(r)
  <2>1. job' \in [Runners -> Run]
    BY <1>10, NoneIsTyped, NewRun DEF Crash
  <2> QED BY <1>10, <2>1 DEF Crash, Request, PMTypeOK, people
<1> QED
  BY <1>1, <1>2, <1>3, <1>4, <1>5, <1>6, <1>7, <1>8, <1>9, <1>10 DEF SyncStep

LEMMA RequestTypes ==
    ASSUME PMTypeOK, NEW p \in Planners,
           \/ \E s \in Schedules : SetShutdownJobs(p, s)
           \/ PlanNumber(p) \/ PlanInsert(p)
    PROVE  PMTypeOK'
<1>0. plan[p] \in Planning /\ MaxNum \in Nat
  BY DEF PMTypeOK
<1>1. ASSUME NEW s \in Schedules, SetShutdownJobs(p, s) PROVE PMTypeOK'
  <2>1. [pc |-> "number", sch |-> {s}, num |-> 0] \in Planning
    BY DEF Planning
  <2>2. plan' \in [Planners -> Planning]
    BY <1>1, <2>1, NoneIsTyped DEF SetShutdownJobs, PMTypeOK
  <2> QED BY <1>1, <2>2 DEF SetShutdownJobs, Request, PMTypeOK
<1>2. CASE PlanNumber(p)
  <2>1. PICK num \in 1 .. MaxNum + 1 :
          plan' = [plan EXCEPT ![p].pc = "insert", ![p].num = num]
    BY <1>2 DEF PlanNumber
  <2>2. num \in Nat
    BY <1>0, <2>1
  <2>3. plan' \in [Planners -> Planning]
    BY <1>0, <2>1, <2>2 DEF PMTypeOK, Planning
  <2> QED BY <1>2, <2>3 DEF PlanNumber, PMTypeOK, people
<1>3. CASE PlanInsert(p)
  <2>1. PICK s \in plan[p].sch : CreateWorkOrderFromPM(plan[p].num, s, "plan")
    BY <1>3 DEF PlanInsert
  <2>2. s \in Schedules
    BY <1>0 DEF Planning
  <2>3. order' \in [Nums -> Order \cup {NoOrder}]
    BY <2>1, <2>2, NewOrder
  <2>4. plan' \in [Planners -> Planning]
    BY <1>3, NoneIsTyped DEF PlanInsert, PMTypeOK
  <2> QED BY <1>3, <2>3, <2>4 DEF PlanInsert, PMTypeOK, people
<1> QED
  BY <1>1, <1>2, <1>3

LEMMA CompletionTypes ==
    ASSUME Typed, NEW c \in Completers,
           \/ \E n \in Nums : CompleteWorkOrder(c, n)
           \/ AdvanceRead(c) \/ AdvanceWrite(c) \/ Interrupt(c)
    PROVE  PMTypeOK'
<1>0. /\ PMTypeOK /\ done[c] \in Completion
      /\ \A s \in done[c].sch : s \in Schedules /\ sched[s] \in Row
  <2>1. PMTypeOK /\ done[c] \in Completion
    BY DEF Typed, PMTypeOK
  <2>2. ASSUME NEW s \in done[c].sch PROVE s \in Schedules /\ sched[s] \in Row
    <3>1. s \in Schedules
      BY <2>1 DEF Completion
    <3>2. IsRow(s)
      BY <3>1 DEF Typed, Referenced, OrdersOf
    <3> QED BY <2>1, <3>1, <3>2 DEF PMTypeOK, IsRow
  <2> QED BY <2>1, <2>2
<1>1. ASSUME NEW n \in Nums, CompleteWorkOrder(c, n) PROVE PMTypeOK'
  <2>1. order[n] \in Order
    BY <1>0, <1>1 DEF CompleteWorkOrder, PMTypeOK
  <2>2. order[n].sch \in Schedules /\ [NoDone EXCEPT !.pc = "read", !.sch = {order[n].sch}] \in Completion
    BY <2>1, NoneIsTyped DEF Completion, Order
  <2>3. done' \in [Completers -> Completion]
    BY <1>0, <1>1, <2>2 DEF CompleteWorkOrder, PMTypeOK
  <2>4. order' \in [Nums -> Order \cup {NoOrder}]
    BY <1>0, <1>1, <2>1 DEF CompleteWorkOrder, PMTypeOK, Order
  <2>5. disturbed' \subseteq Schedules
    BY <1>0, <1>1, <2>2 DEF CompleteWorkOrder, PMTypeOK
  <2>6. PMTypeOK
    BY <1>0
  <2>7. /\ requests' \in Nat /\ template' = template /\ clock' = clock /\ sched' = sched
        /\ meter' = meter /\ lock' = lock /\ job' = job /\ plan' = plan /\ given' = given
        /\ reckoned' = reckoned
    <3>1. requests \in Nat /\ Request
      BY <1>0, <1>1 DEF CompleteWorkOrder, PMTypeOK
    <3>2. requests' \in Nat
      BY <3>1 DEF Request
    <3> QED BY <1>1, <3>2 DEF CompleteWorkOrder
  <2> QED BY <2>3, <2>4, <2>5, <2>6, <2>7 DEF PMTypeOK
<1>2. CASE AdvanceRead(c)
  <2>1. PICK s \in done[c].sch :
          done' = [done EXCEPT ![c] = [pc |-> "write", sch |-> {s}, last |-> clock, hours |-> meter[s].now,
                                       due |-> NextDueAfter(sched[s].due, template[s], clock)]]
    BY <1>2 DEF AdvanceRead
  <2>2. /\ s \in Schedules /\ clock \in Int /\ meter[s].now \in Nat
        /\ NextDueAfter(sched[s].due, template[s], clock) \in Int
    BY <1>0, <2>1, NextDueType DEF PMTypeOK, Row
  <2>3. done' \in [Completers -> Completion]
    BY <1>0, <2>1, <2>2 DEF PMTypeOK, Completion
  <2> QED BY <1>0, <1>2, <2>3 DEF AdvanceRead, PMTypeOK, people
<1>3. CASE AdvanceWrite(c)
  <2>1. PICK s \in done[c].sch :
          /\ sched' = [sched EXCEPT ![s] = [due |-> done[c].due, last |-> done[c].last,
                                            status |-> "scheduled"]]
          /\ meter' = [meter EXCEPT ![s].base = done[c].hours]
    BY <1>3 DEF AdvanceWrite
  <2>2. [due |-> done[c].due, last |-> done[c].last, status |-> "scheduled"] \in Row
    BY <1>0 DEF Completion, Row
  <2>3. sched' \in [Schedules -> Row \cup {NoRow}]
    BY <1>0, <2>1, <2>2 DEF PMTypeOK
  <2>5. meter' \in [Schedules -> [now : Nat, base : Nat]]
    BY <1>0, <2>1 DEF PMTypeOK, Completion
  <2>4. done' \in [Completers -> Completion]
    BY <1>0, <1>3, NoneIsTyped DEF AdvanceWrite, PMTypeOK
  <2> QED BY <1>0, <1>3, <2>3, <2>4, <2>5 DEF AdvanceWrite, PMTypeOK, people
<1>4. CASE Interrupt(c)
  <2>1. done' \in [Completers -> Completion]
    BY <1>0, <1>4, NoneIsTyped DEF Interrupt, PMTypeOK
  <2>2. disturbed' \subseteq Schedules
    BY <1>0, <1>4 DEF Interrupt, PMTypeOK
  <2> QED BY <1>0, <1>4, <2>1, <2>2 DEF Interrupt, PMTypeOK
<1> QED
  BY <1>1, <1>2, <1>3, <1>4

\* What anyone may do to an order, a schedule or a meter, and the clock.
Others ==
    \/ \E n \in Nums, st \in {"open", "completed", "cancelled"} : PatchWorkOrder(n, st)
    \/ \E s \in Schedules : \/ \E due \in DueDates : PatchPMSchedule(s, due)
                            \/ \E h \in Levels, reset \in BOOLEAN : RecordMeterReading(s, h, reset)
                            \/ \E t \in Templates : PatchPMTemplate(s, t)
                            \/ DeletePMSchedule(s)
    \/ Tick

LEMMA OtherTypes == ASSUME PMTypeOK, Others PROVE PMTypeOK'
<1>1. ASSUME NEW n \in Nums, NEW st \in {"open", "completed", "cancelled"}, PatchWorkOrder(n, st)
      PROVE  PMTypeOK'
  <2>1. order[n] \in Order
    BY <1>1 DEF PatchWorkOrder, PMTypeOK
  <2>2. order' \in [Nums -> Order \cup {NoOrder}]
    BY <1>1, <2>1 DEF PatchWorkOrder, PMTypeOK, Order
  <2> QED BY <1>1, <2>2 DEF PatchWorkOrder, Request, PMTypeOK
<1>2. ASSUME NEW s \in Schedules, NEW due \in DueDates, PatchPMSchedule(s, due) PROVE PMTypeOK'
  <2>1. sched[s] \in Row /\ due \in Int
    BY <1>2 DEF PatchPMSchedule, IsRow, PMTypeOK
  <2>2. sched' \in [Schedules -> Row \cup {NoRow}]
    BY <1>2, <2>1 DEF PatchPMSchedule, PMTypeOK, Row
  <2>3. given' \in [Schedules -> SUBSET Int]
    BY <1>2, <2>1 DEF PatchPMSchedule, PMTypeOK
  <2> QED BY <1>2, <2>2, <2>3 DEF PatchPMSchedule, Request, PMTypeOK
<1>3. ASSUME NEW s \in Schedules, NEW h \in Levels, NEW reset \in BOOLEAN,
             RecordMeterReading(s, h, reset)
      PROVE  PMTypeOK'
  <2>2. h \in Nat /\ meter' \in [Schedules -> [now : Nat, base : Nat]]
    BY <1>3 DEF RecordMeterReading, PMTypeOK
  <2> QED BY <1>3, <2>2 DEF RecordMeterReading, Request, PMTypeOK
<1>6. ASSUME NEW s \in Schedules, NEW t \in Templates, PatchPMTemplate(s, t) PROVE PMTypeOK'
  <2>1. template' \in [Schedules -> Templates] /\ sched[s].due \in Int
    BY <1>6 DEF PatchPMTemplate, IsRow, PMTypeOK, Row
  <2>2. {done[c].due : c \in {c \in Completing(s) : done[c].pc = "write"}} \subseteq Int
    BY DEF PMTypeOK, Completion, Completing
  <2>3. reckoned' \in [Schedules -> SUBSET Int]
    BY <1>6, <2>1, <2>2 DEF PatchPMTemplate, PMTypeOK
  <2> QED BY <1>6, <2>1, <2>3 DEF PatchPMTemplate, Request, PMTypeOK
<1>4. ASSUME NEW s \in Schedules, DeletePMSchedule(s) PROVE PMTypeOK'
  BY <1>4 DEF DeletePMSchedule, Request, PMTypeOK
<1>5. CASE Tick
  BY <1>5 DEF Tick, PMTypeOK, people
<1> QED
  BY <1>1, <1>2, <1>3, <1>4, <1>5, <1>6 DEF Others

--------------------------------------------------------------------------------
(* Orders stay, with their schedule, and so does a schedule that has one.    *)

OrdersStay ==
    \A n \in Nums : order[n] # NoOrder => order'[n] # NoOrder /\ order'[n].sch = order[n].sch

RowsStay == \A s \in Schedules : IsRow(s) /\ OrdersOf(s) # {} => IsRow(s)'

LEMMA Distinct == (\A x \in Row : x # NoRow) /\ (\A x \in Order : x # NoOrder)
BY DEF Row, Order

LEMMA NewOrderStays ==
    ASSUME PMTypeOK, NEW num, NEW s \in Schedules, NEW by \in {"sync", "plan"},
           CreateWorkOrderFromPM(num, s, by)
    PROVE  /\ OrdersStay
           /\ \A n \in Nums : order[n] = NoOrder /\ order'[n] # NoOrder =>
                /\ order'[n].sch = s /\ sched[s] # NoRow
BY DEF CreateWorkOrderFromPM, OrdersStay, PMTypeOK, IsRow

LEMMA ReferencedStays ==
    ASSUME Typed, OrdersStay, RowsStay,
           \A n \in Nums : order[n] = NoOrder /\ order'[n] # NoOrder => sched'[order'[n].sch] # NoRow,
           \A c \in Completers : \A s \in done'[c].sch : s \in done[c].sch \/ OrdersOf(s)' # {}
    PROVE  Referenced'
<1>1. ASSUME NEW n \in Nums, order'[n] # NoOrder PROVE sched'[order'[n].sch] # NoRow
  <2>1. CASE order[n] = NoOrder
    BY <1>1, <2>1
  <2>2. CASE order[n] # NoOrder
    <3>1. order[n].sch \in Schedules /\ n \in OrdersOf(order[n].sch)
      BY <2>2 DEF Typed, PMTypeOK, Order, OrdersOf
    <3>2. sched[order[n].sch] # NoRow
      BY <2>2 DEF Typed, Referenced, IsRow
    <3>3. sched'[order[n].sch] # NoRow
      BY <3>1, <3>2 DEF RowsStay, IsRow
    <3>4. order'[n].sch = order[n].sch
      BY <2>2 DEF OrdersStay
    <3> QED BY <3>3, <3>4
  <2> QED BY <2>1, <2>2
<1>2. ASSUME NEW s, OrdersOf(s) # {} PROVE OrdersOf(s)' # {}
  BY <1>2 DEF OrdersStay, OrdersOf
<1>3. ASSUME NEW c \in Completers, NEW s \in done'[c].sch PROVE OrdersOf(s)' # {}
  BY <1>2, <1>3 DEF Typed, Referenced
<1> QED
  BY <1>1, <1>3 DEF Referenced, IsRow

LEMMA SyncReferenced ==
    ASSUME Typed, NEW r \in Runners, SyncStep(r) \/ Crash(r)
    PROVE  Referenced'
<1>0. PMTypeOK
  BY DEF Typed
<1>1. done' = done
  BY DEF SyncStep, Crash, TryLock, SyncPMScheduleStatuses, ListPMSchedules, ListMeterStatus,
         MarkScheduleOverdue, CheckOpen, SyncNumber, SyncInsert, Unlock
<1>2. \A s \in Schedules : IsRow(s) => IsRow(s)'
  <2>1. CASE SyncPMScheduleStatuses(r)
    BY <1>0, <2>1, Distinct DEF SyncPMScheduleStatuses, IsRow, PMTypeOK, Row
  <2>2. CASE \E s \in Schedules : MarkScheduleOverdue(r, s)
    BY <1>0, <2>2, Distinct DEF MarkScheduleOverdue, IsRow, PMTypeOK, Row
  <2>3. CASE ~SyncPMScheduleStatuses(r) /\ ~\E s \in Schedules : MarkScheduleOverdue(r, s)
    BY <2>3 DEF SyncStep, Crash, TryLock, ListPMSchedules, ListMeterStatus, CheckOpen, SyncNumber,
                SyncInsert, Unlock, IsRow
  <2> QED BY <2>1, <2>2, <2>3
<1>3. CASE order' = order
  BY <1>1, <1>2, <1>3, ReferencedStays DEF OrdersStay, RowsStay
<1>4. CASE SyncInsert(r)
  <2>1. PICK s \in job[r].cur : CreateWorkOrderFromPM(job[r].num, s, "sync")
    BY <1>4 DEF SyncInsert
  <2>2. s \in Schedules
    BY <1>0 DEF PMTypeOK, Run
  <2>3. sched' = sched
    BY <1>4 DEF SyncInsert
  <2>4. /\ OrdersStay
        /\ \A n \in Nums : order[n] = NoOrder /\ order'[n] # NoOrder => sched'[order'[n].sch] # NoRow
    <3>1. OrdersStay /\ \A n \in Nums : order[n] = NoOrder /\ order'[n] # NoOrder =>
                          order'[n].sch = s /\ sched[s] # NoRow
      BY <1>0, <2>1, <2>2, NewOrderStays
    <3> QED BY <3>1, <2>3
  <2> QED BY <1>1, <1>2, <2>4, ReferencedStays DEF RowsStay
<1> QED
  BY <1>3, <1>4 DEF SyncStep, Crash, TryLock, SyncPMScheduleStatuses, ListPMSchedules,
         ListMeterStatus, MarkScheduleOverdue, CheckOpen, SyncNumber, Unlock

LEMMA RequestReferenced ==
    ASSUME Typed, NEW p \in Planners,
           \/ \E s \in Schedules : SetShutdownJobs(p, s)
           \/ PlanNumber(p) \/ PlanInsert(p)
    PROVE  Referenced'
<1>0. PMTypeOK /\ done' = done /\ sched' = sched
  BY DEF Typed, SetShutdownJobs, PlanNumber, PlanInsert
<1>1. CASE order' = order
  BY <1>0, <1>1, ReferencedStays DEF OrdersStay, RowsStay, IsRow
<1>2. CASE PlanInsert(p)
  <2>1. PICK s \in plan[p].sch : CreateWorkOrderFromPM(plan[p].num, s, "plan")
    BY <1>2 DEF PlanInsert
  <2>2. s \in Schedules
    BY <1>0 DEF PMTypeOK, Planning
  <2>3. /\ OrdersStay
        /\ \A n \in Nums : order[n] = NoOrder /\ order'[n] # NoOrder => sched'[order'[n].sch] # NoRow
    <3>1. OrdersStay /\ \A n \in Nums : order[n] = NoOrder /\ order'[n] # NoOrder =>
                          order'[n].sch = s /\ sched[s] # NoRow
      BY <1>0, <2>1, <2>2, NewOrderStays
    <3> QED BY <3>1, <1>0
  <2> QED BY <1>0, <2>3, ReferencedStays DEF RowsStay, IsRow
<1> QED
  BY <1>1, <1>2 DEF SetShutdownJobs, PlanNumber

LEMMA CompletionReferenced ==
    ASSUME Typed, NEW c \in Completers,
           \/ \E n \in Nums : CompleteWorkOrder(c, n)
           \/ AdvanceRead(c) \/ AdvanceWrite(c) \/ Interrupt(c)
    PROVE  Referenced'
<1>0. PMTypeOK
  BY DEF Typed
<1>1. ASSUME NEW n \in Nums, CompleteWorkOrder(c, n) PROVE Referenced'
  <2>1. order[n] \in Order /\ sched' = sched
    BY <1>0, <1>1 DEF CompleteWorkOrder, PMTypeOK
  <2>2. OrdersStay /\ \A k \in Nums : order[k] = NoOrder => order'[k] = NoOrder
    BY <1>0, <1>1, <2>1, Distinct DEF CompleteWorkOrder, OrdersStay, PMTypeOK, Order
  <2>3. \A s \in {order[n].sch} : OrdersOf(s)' # {}
    BY <1>1, <2>2 DEF CompleteWorkOrder, OrdersStay, OrdersOf
  <2>4. \A d \in Completers : \A s \in done'[d].sch : s \in done[d].sch \/ OrdersOf(s)' # {}
    BY <1>0, <1>1, <2>3 DEF CompleteWorkOrder, PMTypeOK, NoDone
  <2> QED BY <2>1, <2>2, <2>4, ReferencedStays DEF RowsStay, IsRow
<1>2. CASE AdvanceRead(c)
  <2>1. \A d \in Completers : \A s \in done'[d].sch : s \in done[d].sch
    BY <1>0, <1>2 DEF AdvanceRead, PMTypeOK
  <2> QED BY <1>2, <2>1, ReferencedStays DEF AdvanceRead, RowsStay, IsRow, OrdersStay
<1>3. CASE AdvanceWrite(c)
  <2>1. \A d \in Completers : \A s \in done'[d].sch : s \in done[d].sch
    BY <1>0, <1>3 DEF AdvanceWrite, PMTypeOK, NoDone
  <2>2. RowsStay
    BY <1>0, <1>3 DEF AdvanceWrite, RowsStay, IsRow, PMTypeOK
  <2> QED BY <1>3, <2>1, <2>2, ReferencedStays DEF AdvanceWrite, OrdersStay
<1>4. CASE Interrupt(c)
  <2>1. \A d \in Completers : \A s \in done'[d].sch : s \in done[d].sch
    BY <1>0, <1>4 DEF Interrupt, PMTypeOK, NoDone
  <2> QED BY <1>4, <2>1, ReferencedStays DEF Interrupt, OrdersStay, RowsStay, IsRow
<1> QED
  BY <1>1, <1>2, <1>3, <1>4

LEMMA OtherReferenced == ASSUME Typed, Others PROVE Referenced'
<1>0. PMTypeOK
  BY DEF Typed
<1>1. ASSUME NEW n \in Nums, NEW st \in {"open", "completed", "cancelled"}, PatchWorkOrder(n, st)
      PROVE  Referenced'
  <2>1. order[n] \in Order
    BY <1>0, <1>1 DEF PatchWorkOrder, PMTypeOK
  <2>2. OrdersStay /\ \A k \in Nums : order[k] = NoOrder => order'[k] = NoOrder
    BY <1>0, <1>1, <2>1, Distinct DEF PatchWorkOrder, OrdersStay, PMTypeOK, Order
  <2> QED BY <1>1, <2>2, ReferencedStays DEF PatchWorkOrder, RowsStay, IsRow
<1>2. ASSUME NEW s \in Schedules, NEW due \in DueDates, PatchPMSchedule(s, due) PROVE Referenced'
  <2>3. sched[s] \in Row /\ due \in Int
    BY <1>0, <1>2 DEF PatchPMSchedule, IsRow, PMTypeOK
  <2>4. [sched[s] EXCEPT !.due = due, !.status = IF due < clock THEN "overdue" ELSE "scheduled"] \in Row
    BY <2>3 DEF Row
  <2>5. sched'[s] \in Row /\ \A x \in Schedules \ {s} : sched'[x] = sched[x]
    BY <1>0, <1>2, <2>4 DEF PatchPMSchedule, PMTypeOK
  <2>1. RowsStay
    BY <2>5, Distinct DEF RowsStay, IsRow
  <2> QED BY <1>2, <2>1, ReferencedStays DEF PatchPMSchedule, OrdersStay
<1>3. ASSUME NEW s \in Schedules, NEW h \in Levels, NEW reset \in BOOLEAN,
             RecordMeterReading(s, h, reset)
      PROVE  Referenced'
  BY <1>3, ReferencedStays DEF RecordMeterReading, OrdersStay, RowsStay, IsRow
<1>6. ASSUME NEW s \in Schedules, NEW t \in Templates, PatchPMTemplate(s, t) PROVE Referenced'
  BY <1>6, ReferencedStays DEF PatchPMTemplate, OrdersStay, RowsStay, IsRow
<1>4. ASSUME NEW s \in Schedules, DeletePMSchedule(s) PROVE Referenced'
  BY <1>0, <1>4, ReferencedStays DEF DeletePMSchedule, OrdersStay, RowsStay, IsRow, PMTypeOK
<1>5. CASE Tick
  BY <1>5, ReferencedStays DEF Tick, OrdersStay, RowsStay, IsRow, people
<1> QED
  BY <1>1, <1>2, <1>3, <1>4, <1>5, <1>6 DEF Others

LEMMA Cases ==
    ASSUME [PMNext]_vars
    PROVE  \/ \E r \in Runners : SyncStep(r) \/ Crash(r)
           \/ \E p \in Planners : \/ \E s \in Schedules : SetShutdownJobs(p, s)
                                  \/ PlanNumber(p) \/ PlanInsert(p)
           \/ \E c \in Completers : \/ \E n \in Nums : CompleteWorkOrder(c, n)
                                    \/ AdvanceRead(c) \/ AdvanceWrite(c) \/ Interrupt(c)
           \/ Others
           \/ UNCHANGED vars
BY DEF PMNext, Others

LEMMA TypedStep == Typed /\ [PMNext]_vars => Typed'
<1> SUFFICES ASSUME Typed, [PMNext]_vars PROVE Typed'
  OBVIOUS
<1>1. CASE UNCHANGED vars
  BY <1>1 DEF vars, people, Typed, Referenced, PMTypeOK, IsRow, OrdersOf
<1>2. (PMTypeOK' /\ Referenced') \/ UNCHANGED vars
  BY Cases, SyncTypes, RequestTypes, CompletionTypes, OtherTypes, SyncReferenced,
     RequestReferenced, CompletionReferenced, OtherReferenced DEF Typed
<1> QED
  BY <1>1, <1>2 DEF Typed

\* The types, and that no completion and no order refers to a schedule that is gone.
THEOREM SchedulesTyped == PMSpec => [](PMTypeOK /\ Referenced)
<1>1. PMSpec => []Typed
  BY TypeInit, TypedStep, PTL DEF PMSpec
<1> QED BY <1>1, PTL DEF Typed

--------------------------------------------------------------------------------
(* One order per schedule from the sync job.                                 *)

\* An open order the job raised and nobody reopened.
Fresh(n) == /\ order[n] # NoOrder /\ Live(order[n])
            /\ order[n].by # "plan" /\ ~order[n].reopened

\* Only the holder of the lock runs.
LockHeld == \A r \in Runners : job[r].pc # "idle" => lock = r

\* Between its look and its insert the job's schedule has no such order.
Quiet ==
    \A r \in Runners : job[r].pc \in {"number", "insert"} =>
        \A s \in job[r].cur : \A n \in Nums : Fresh(n) => order[n].sch # s

Alone == \A m, n \in Nums : Fresh(m) /\ Fresh(n) /\ order[m].sch = order[n].sch => m = n

Once == LockHeld /\ Quiet /\ Alone

NoneFresher == \A n \in Nums : Fresh(n)' => Fresh(n) /\ order'[n].sch = order[n].sch

LEMMA OnceStays ==
    ASSUME Once, NoneFresher, job' = job, lock' = lock PROVE Once'
BY DEF Once, NoneFresher, LockHeld, Quiet, Alone

\* A step of one runner, which holds the lock or takes it.
LEMMA OnceRun ==
    ASSUME Typed, Once, NoneFresher, NEW r \in Runners, NEW j \in Run, SetJob(r, j),
           \/ lock' = lock /\ job[r].pc # "idle"
           \/ lock = NoOne /\ lock' = r
           \/ job[r].pc # "idle" /\ j.pc = "idle",
           j.pc \in {"number", "insert"} => \A s \in j.cur : \A n \in Nums : Fresh(n) => order[n].sch # s
    PROVE  Once'
<1>1. job'[r] = j /\ \A q \in Runners \ {r} : job'[q] = job[q]
  BY DEF SetJob, Typed, PMTypeOK
<1>2. \A q \in Runners \ {r} : job[q].pc = "idle" \/ (lock' = lock /\ job[r].pc # "idle")
  BY DEF Once, LockHeld
<1>3. \A q \in Runners \ {r} : job'[q].pc = "idle"
  BY <1>1, <1>2 DEF Once, LockHeld
<1>4. LockHeld'
  BY <1>1, <1>3 DEF Once, LockHeld
<1>5. Quiet'
  BY <1>1, <1>3 DEF Quiet, NoneFresher
<1>6. Alone'
  BY DEF Once, Alone, NoneFresher
<1> QED BY <1>4, <1>5, <1>6 DEF Once

LEMMA SameOrders == ASSUME order' = order PROVE NoneFresher
BY DEF NoneFresher, Fresh

LEMMA SyncOnce ==
    ASSUME Typed, Once, NEW r \in Runners, SyncStep(r) \/ Crash(r) PROVE Once'
<1>0. PMTypeOK /\ job[r] \in Run
  BY DEF Typed, PMTypeOK
<1>1. CASE TryLock(r)
  <2>1. [NoJob EXCEPT !.pc = "flip"] \in Run /\ [NoJob EXCEPT !.pc = "flip"].pc = "flip"
    BY NoneIsTyped DEF Run, NoJob
  <2> QED BY <1>1, <2>1, SameOrders, OnceRun DEF TryLock
<1>2. CASE SyncPMScheduleStatuses(r)
  <2> DEFINE j == [job[r] EXCEPT !.pc = "list"]
  <2>1. j \in Run /\ j.pc = "list"
    BY <1>0 DEF Run
  <2>2. SetJob(r, j) /\ lock' = lock /\ order' = order /\ job[r].pc # "idle"
    BY <1>2 DEF SyncPMScheduleStatuses, Reached
  <2> HIDE DEF j
  <2> QED BY <2>1, <2>2, SameOrders, OnceRun
<1>3. CASE ListPMSchedules(r)
  <2> DEFINE due == {s \in Schedules : /\ IsRow(s)
                                       /\ \/ sched[s].due <= clock + Lead
                                          \/ sched[s].status = "overdue"}
             j == [job[r] EXCEPT !.pc = "loop", !.status = [s \in Schedules |-> sched[s].status],
                                 !.todo = due]
  <2>0. \A s \in Schedules : sched[s].status \in {"none", "scheduled", "overdue"}
    BY <1>0 DEF PMTypeOK, Row
  <2>1. j \in Run /\ j.pc = "loop"
    BY <1>0, <2>0 DEF Run
  <2>2. SetJob(r, j) /\ lock' = lock /\ order' = order /\ job[r].pc # "idle"
    BY <1>3 DEF ListPMSchedules, Reached
  <2> HIDE DEF j
  <2> QED BY <2>1, <2>2, SameOrders, OnceRun
<1>4. CASE ListMeterStatus(r)
  <2> DEFINE listed == {s \in Schedules : IsRow(s) /\ job[r].status[s] # "none"}
             mark == {s \in MeterDue(listed, {"due"}) : job[r].status[s] = "scheduled"}
             j == [job[r] EXCEPT !.phase = "hours", !.todo = MeterDue(listed, {"due", "due_soon"}),
                                 !.mark = mark]
  <2>0. MeterDue(listed, {"due", "due_soon"}) \subseteq Schedules /\ mark \subseteq Schedules
    BY DEF MeterDue
  <2>1. j \in Run /\ j.pc = job[r].pc
    BY <1>0, <2>0 DEF Run
  <2>2. SetJob(r, j) /\ lock' = lock /\ order' = order /\ job[r].pc = "loop"
    BY <1>4 DEF ListMeterStatus, Reached
  <2> HIDE DEF j
  <2> QED BY <2>1, <2>2, SameOrders, OnceRun
<1>5. ASSUME NEW s \in Schedules, MarkScheduleOverdue(r, s) PROVE Once'
  <2> DEFINE j == [job[r] EXCEPT !.cur = {s}, !.mark = @ \ {s}]
  <2>1. j \in Run /\ j.pc = job[r].pc
    BY <1>0 DEF Run
  <2>2. SetJob(r, j) /\ lock' = lock /\ order' = order /\ job[r].pc = "loop"
    BY <1>5 DEF MarkScheduleOverdue, Reached
  <2> HIDE DEF j
  <2> QED BY <2>1, <2>2, SameOrders, OnceRun
<1>6. ASSUME NEW s \in Schedules, CheckOpen(r, s) PROVE Once'
  <2>0. lock' = lock /\ order' = order /\ job[r].pc = "loop"
    BY <1>6 DEF CheckOpen, Reached
  <2>1. CASE HasOpenWorkOrder(s)
    <3> DEFINE j == [job[r] EXCEPT !.todo = @ \ {s}, !.cur = {}]
    <3>1. j \in Run /\ j.pc = job[r].pc
      BY <1>0 DEF Run
    <3>2. SetJob(r, j)
      BY <1>6, <2>1 DEF CheckOpen
    <3> HIDE DEF j
    <3> QED BY <2>0, <3>1, <3>2, SameOrders, OnceRun
  <2>2. CASE ~HasOpenWorkOrder(s)
    <3> DEFINE j == [job[r] EXCEPT !.cur = {s}, !.pc = "number"]
    <3>1. j \in Run /\ j.cur = {s}
      BY <1>0 DEF Run
    <3>2. SetJob(r, j)
      BY <1>6, <2>2 DEF CheckOpen
    <3>3. \A n \in Nums : Fresh(n) => order[n].sch # s
      BY <2>2 DEF HasOpenWorkOrder, OrdersOf, Fresh
    <3> HIDE DEF j
    <3> QED BY <2>0, <3>1, <3>2, <3>3, SameOrders, OnceRun
  <2> QED BY <2>1, <2>2
<1>7. CASE SyncNumber(r)
  <2>0. PICK num \in 1 .. MaxNum + 1 : SetJob(r, [job[r] EXCEPT !.pc = "insert", !.num = num])
    BY <1>7 DEF SyncNumber
  <2> DEFINE j == [job[r] EXCEPT !.pc = "insert", !.num = num]
  <2>3. num \in Nat
    BY <1>0, <2>0 DEF PMTypeOK
  <2>1. j \in Run /\ j.cur = job[r].cur
    BY <1>0, <2>3 DEF Run
  <2>2. SetJob(r, j) /\ lock' = lock /\ order' = order /\ job[r].pc = "number"
    BY <1>7, <2>0 DEF SyncNumber, Reached
  <2>4. \A s \in j.cur : \A n \in Nums : Fresh(n) => order[n].sch # s
    BY <2>1, <2>2 DEF Once, Quiet
  <2> HIDE DEF j
  <2> QED BY <2>1, <2>2, <2>4, SameOrders, OnceRun
<1>8. CASE SyncInsert(r)
  <2>1. PICK s \in job[r].cur :
          /\ CreateWorkOrderFromPM(job[r].num, s, "sync")
          /\ SetJob(r, [job[r] EXCEPT !.pc = "loop", !.todo = @ \ {s}, !.cur = {}, !.num = 0])
    BY <1>8 DEF SyncInsert
  <2> DEFINE j == [job[r] EXCEPT !.pc = "loop", !.todo = @ \ {s}, !.cur = {}, !.num = 0]
             num == job[r].num
             o == [sch |-> s, status |-> "open", by |-> "sync", reopened |-> FALSE, at |-> Never]
  <2>2. s \in Schedules /\ j.pc = "loop"
    BY <1>0 DEF Run
  <2>3. lock = r /\ lock' = lock /\ \A n \in Nums : Fresh(n) => order[n].sch # s
    BY <1>8, <2>1 DEF SyncInsert, Reached, Once, LockHeld, Quiet
  <2>4. \A q \in Runners : job'[q].pc \notin {"number", "insert"} /\ (job'[q].pc # "idle" => q = r)
    BY <1>0, <2>1, <2>2, <2>3 DEF SetJob, PMTypeOK, Once, LockHeld
  <2>5. \A n \in Nums : Fresh(n)' => (Fresh(n) /\ order'[n].sch = order[n].sch) \/ (n = num /\ order'[n].sch = s)
    <3>1. CASE order' = order
      BY <3>1 DEF Fresh
    <3>2. CASE num \in Nums /\ order' = [order EXCEPT ![num] = o]
      <4>1. order'[num].sch = s /\ \A n \in Nums \ {num} : order'[n] = order[n]
        BY <1>0, <3>2 DEF PMTypeOK
      <4> QED BY <4>1 DEF Fresh
    <3> QED BY <2>1, <3>1, <3>2 DEF CreateWorkOrderFromPM
  <2>6. Alone'
    BY <2>3, <2>5 DEF Once, Alone
  <2>7. LockHeld' /\ Quiet'
    BY <2>3, <2>4 DEF LockHeld, Quiet
  <2> QED BY <2>6, <2>7 DEF Once
<1>9. CASE Unlock(r)
  <2>1. NoJob.pc = "idle"
    BY DEF NoJob
  <2> QED BY <1>9, <2>1, NoneIsTyped, SameOrders, OnceRun DEF Unlock, Reached
<1>10. CASE Crash(r)
  <2>1. NoJob.pc = "idle"
    BY DEF NoJob
  <2> QED BY <1>10, <2>1, NoneIsTyped, SameOrders, OnceRun DEF Crash, Reached
<1> QED
  BY <1>1, <1>2, <1>3, <1>4, <1>5, <1>6, <1>7, <1>8, <1>9, <1>10 DEF SyncStep

LEMMA RequestOnce ==
    ASSUME Typed, Once, NEW p \in Planners,
           \/ \E s \in Schedules : SetShutdownJobs(p, s)
           \/ PlanNumber(p) \/ PlanInsert(p)
    PROVE  Once'
<1>0. PMTypeOK /\ job' = job /\ lock' = lock
  BY DEF Typed, SetShutdownJobs, PlanNumber, PlanInsert
<1>1. NoneFresher
  <2>1. CASE PlanInsert(p)
    <3>1. PICK s \in plan[p].sch : CreateWorkOrderFromPM(plan[p].num, s, "plan")
      BY <2>1 DEF PlanInsert
    <3> DEFINE num == plan[p].num
               o == [sch |-> s, status |-> "open", by |-> "plan", reopened |-> FALSE, at |-> Never]
    <3>2. CASE num \in Nums /\ order' = [order EXCEPT ![num] = o]
      <4>1. order'[num].by = "plan" /\ \A n \in Nums \ {num} : order'[n] = order[n]
        BY <1>0, <3>2 DEF PMTypeOK
      <4> QED BY <4>1 DEF Fresh, NoneFresher
    <3> QED BY <3>1, <3>2, SameOrders DEF CreateWorkOrderFromPM
  <2> QED BY <2>1, SameOrders DEF SetShutdownJobs, PlanNumber
<1> QED BY <1>0, <1>1, OnceStays

LEMMA CompletionOnce ==
    ASSUME Typed, Once, NEW c \in Completers,
           \/ \E n \in Nums : CompleteWorkOrder(c, n)
           \/ AdvanceRead(c) \/ AdvanceWrite(c) \/ Interrupt(c)
    PROVE  Once'
<1>0. PMTypeOK /\ job' = job /\ lock' = lock
  BY DEF Typed, CompleteWorkOrder, AdvanceRead, AdvanceWrite, Interrupt
<1>1. NoneFresher
  <2>1. ASSUME NEW n \in Nums, CompleteWorkOrder(c, n) PROVE NoneFresher
    <3>1. order[n] \in Order
      BY <1>0, <2>1 DEF CompleteWorkOrder, PMTypeOK
    <3>2. order'[n].status = "completed" /\ \A k \in Nums \ {n} : order'[k] = order[k]
      BY <1>0, <2>1, <3>1 DEF CompleteWorkOrder, PMTypeOK, Order
    <3> QED BY <3>2 DEF NoneFresher, Fresh, Live
  <2> QED BY <2>1, SameOrders DEF AdvanceRead, AdvanceWrite, Interrupt
<1> QED BY <1>0, <1>1, OnceStays

LEMMA OtherOnce == ASSUME Typed, Once, Others PROVE Once'
<1>0. PMTypeOK /\ job' = job /\ lock' = lock
  BY DEF Typed, Others, PatchWorkOrder, PatchPMSchedule, PatchPMTemplate, RecordMeterReading,
         DeletePMSchedule, Tick
<1>1. NoneFresher
  <2>1. ASSUME NEW n \in Nums, NEW st \in {"open", "completed", "cancelled"}, PatchWorkOrder(n, st)
        PROVE  NoneFresher
    <3>1. order[n] \in Order
      BY <1>0, <2>1 DEF PatchWorkOrder, PMTypeOK
    <3>2. /\ order'[n].status = st /\ order'[n].reopened = (order[n].reopened \/ (st = "open" /\ ~Live(order[n])))
          /\ order'[n].by = order[n].by /\ order'[n].sch = order[n].sch
          /\ \A k \in Nums \ {n} : order'[k] = order[k]
      BY <1>0, <2>1, <3>1 DEF PatchWorkOrder, PMTypeOK, Order
    <3>3. order[n] # NoOrder
      BY <2>1 DEF PatchWorkOrder
    <3> QED BY <3>2, <3>3 DEF NoneFresher, Fresh, Live
  <2> QED BY <2>1, SameOrders DEF Others, PatchPMSchedule, PatchPMTemplate, RecordMeterReading,
         DeletePMSchedule, Tick
<1> QED BY <1>0, <1>1, OnceStays

LEMMA OnceStep == Typed /\ Once /\ [PMNext]_vars => Once'
<1> SUFFICES ASSUME Typed, Once, [PMNext]_vars PROVE Once'
  OBVIOUS
<1>1. CASE UNCHANGED vars
  BY <1>1, SameOrders, OnceStays DEF vars
<1> QED
  BY <1>1, Cases, SyncOnce, RequestOnce, CompletionOnce, OtherOnce

LEMMA OnceInit == PMInit => Once
BY DEF PMInit, Once, LockHeld, Quiet, Alone, Fresh, NoJob

LEMMA AloneIsOnce == ASSUME PMTypeOK, Once PROVE SyncRaisesOnce
BY DEF Once, Alone, Fresh, SyncRaisesOnce

\* The sync job raises no second order for a schedule, in whatever number of processes
\* it runs and wherever one of them dies.
THEOREM JobRaisesOnce == PMSpec => []SyncRaisesOnce
<1>1. PMSpec => [](Typed /\ Once)
  BY TypeInit, TypedStep, OnceInit, OnceStep, PTL DEF PMSpec
<1>2. Typed /\ Once => SyncRaisesOnce
  BY AloneIsOnce DEF Typed
<1> QED BY <1>1, <1>2, PTL

--------------------------------------------------------------------------------
(* The dates of a schedule.                                                  *)

LEMMA Multiples ==
    ASSUME NEW I \in Nat \ {0}, NEW x \in Int, NEW k \in Int, x % I = 0
    PROVE  (x + I * k) % I = 0
<1>1. x = I * (x \div I)
  <2>1. x = I * (x \div I) + (x % I)
    OBVIOUS
  <2> QED BY <2>1
<1>2. \A q \in Int : (I * q) % I = 0
  OBVIOUS
<1> DEFINE q == x \div I
<1>3. q \in Int
  OBVIOUS
<1>4. x + I * k = I * (q + k) /\ q + k \in Int
  BY <1>1, <1>3
<1> HIDE DEF q
<1> QED BY <1>2, <1>4

\* The date after a service is ahead of it, and on the calendar of a fixed schedule.
LEMMA NextAhead ==
    ASSUME NEW t \in Templates, NEW prev \in Int, NEW now \in Int
    PROVE  NextDueAfter(prev, t, now) > now
<1> DEFINE I == Interval(t)
<1>1. I \in Nat \ {0}
  BY IntervalPositive
<1>2. CASE ~t.fixed
  BY <1>1, <1>2 DEF NextDueAfter
<1>3. CASE t.fixed /\ now < prev
  BY <1>1, <1>3 DEF NextDueAfter
<1>4. CASE t.fixed /\ ~(now < prev)
  <2>1. NextDueAfter(prev, t, now) = prev + I * ((now - prev) \div I + 1)
    BY <1>4 DEF NextDueAfter
  <2> HIDE DEF I
  <2>2. \A x \in Int : x < I * (x \div I + 1)
    BY <1>1
  <2>3. now - prev < I * ((now - prev) \div I + 1)
    BY <2>2
  <2>4. (now - prev) \div I + 1 \in Int
    BY <1>1
  <2>5. I * ((now - prev) \div I + 1) \in Int
    BY <1>1, <2>4
  <2> QED BY <2>1, <2>3, <2>5
<1> QED BY <1>2, <1>3, <1>4

LEMMA NextOnCalendar ==
    ASSUME NEW t \in Templates, NEW prev \in Int, NEW now \in Int, NEW d \in Int,
           t.fixed, (prev - d) % Interval(t) = 0
    PROVE  (NextDueAfter(prev, t, now) - d) % Interval(t) = 0
<1>1. Interval(t) \in Nat \ {0}
  BY IntervalPositive
<1>2. PICK k \in Int : NextDueAfter(prev, t, now) = prev + Interval(t) * k
  <2>1. (now - prev) \div Interval(t) + 1 \in Int
    BY <1>1
  <2>2. CASE now < prev
    BY <2>2 DEF NextDueAfter
  <2>3. CASE ~(now < prev)
    BY <2>1, <2>3 DEF NextDueAfter
  <2> QED BY <2>2, <2>3
<1>3. prev - d \in Int
  OBVIOUS
<1>4. ((prev - d) + Interval(t) * k) % Interval(t) = 0
  BY <1>1, <1>2, <1>3, Multiples
<1>5. NextDueAfter(prev, t, now) - d = (prev - d) + Interval(t) * k
  BY <1>1, <1>2
<1> QED BY <1>4, <1>5

OnCalendar(s, due) ==
    template[s].fixed => \E d \in given[s] \cup reckoned[s] : (due - d) % Interval(template[s]) = 0

\* What a completion read and is about to write.
Prepared ==
    \A c \in Completers : done[c].pc = "write" => \A s \in done[c].sch :
        /\ done[c].last \in Int /\ done[c].due > done[c].last
        /\ OnCalendar(s, done[c].due)

Kept == \A s \in Schedules : IsRow(s) => OnCalendar(s, sched[s].due)

Dates == Prepared /\ Kept /\ ServedAhead

\* People only add to the dates they gave; and what a step does that edits no template.
GivenGrows ==
    /\ template' = template
    /\ \A s \in Schedules : given[s] \subseteq given'[s] /\ reckoned[s] \subseteq reckoned'[s]

SameHistory == given' = given /\ reckoned' = reckoned /\ template' = template

LEMMA CalendarStays ==
    ASSUME GivenGrows, NEW s \in Schedules, NEW due, OnCalendar(s, due)
    PROVE  template'[s].fixed => \E d \in given'[s] \cup reckoned'[s] : (due - d) % Interval(template'[s]) = 0
BY DEF GivenGrows, OnCalendar

RowDates(s) ==
    sched'[s] # NoRow => /\ IsRow(s)
                         /\ sched'[s].due = sched[s].due /\ sched'[s].last = sched[s].last

SameDone(c) == done'[c] = done[c] \/ done'[c] = NoDone \/ done'[c].pc = "read"

LEMMA PreparedStays ==
    ASSUME Typed, Dates, GivenGrows, NEW c \in Completers, SameDone(c),
           done'[c].pc = "write", NEW s \in done'[c].sch
    PROVE  /\ done'[c].last \in Int /\ done'[c].due > done'[c].last
           /\ template'[s].fixed =>
                 \E d \in given'[s] \cup reckoned'[s] : (done'[c].due - d) % Interval(template'[s]) = 0
<1>1. done'[c] = done[c]
  BY DEF SameDone, NoDone
<1>2. s \in Schedules
  BY <1>1 DEF Typed, PMTypeOK, Completion
<1>3. done[c].last \in Int /\ done[c].due > done[c].last /\ OnCalendar(s, done[c].due)
  BY <1>1 DEF Dates, Prepared
<1>4. template'[s].fixed => \E d \in given'[s] \cup reckoned'[s] : (done[c].due - d) % Interval(template'[s]) = 0
  BY <1>2, <1>3, CalendarStays
<1> QED BY <1>1, <1>3, <1>4

LEMMA DatesStay ==
    ASSUME Typed, Dates, GivenGrows, \A s \in Schedules : RowDates(s),
           \A c \in Completers : SameDone(c)
    PROVE  Dates'
<1>1. Prepared'
  BY PreparedStays DEF Prepared, OnCalendar
<1>2. ASSUME NEW s \in Schedules, IsRow(s)'
      PROVE  /\ template'[s].fixed =>
                    \E d \in given'[s] \cup reckoned'[s] : (sched'[s].due - d) % Interval(template'[s]) = 0
             /\ sched'[s].last # Never =>
                    sched'[s].due > sched'[s].last \/ sched'[s].due \in given'[s]
  <2>1. IsRow(s) /\ sched'[s].due = sched[s].due /\ sched'[s].last = sched[s].last
    BY <1>2 DEF RowDates, IsRow
  <2>2. OnCalendar(s, sched[s].due)
    BY <2>1 DEF Dates, Kept
  <2>3. sched[s].last # Never => sched[s].due > sched[s].last \/ sched[s].due \in given'[s]
    BY <2>1 DEF Dates, ServedAhead, GivenGrows
  <2>4. template'[s].fixed => \E d \in given'[s] \cup reckoned'[s] : (sched[s].due - d) % Interval(template'[s]) = 0
    BY <2>2, CalendarStays
  <2> QED BY <2>1, <2>3, <2>4
<1>3. Kept' /\ ServedAhead'
  BY <1>2 DEF Kept, ServedAhead, OnCalendar
<1> QED BY <1>1, <1>3 DEF Dates

LEMMA RunnerDates ==
    ASSUME Typed, Dates, NEW r \in Runners, SyncStep(r) \/ Crash(r) PROVE Dates'
<1>0. PMTypeOK
  BY DEF Typed
<1>1. done' = done /\ SameHistory
  BY DEF SyncStep, Crash, TryLock, SyncPMScheduleStatuses, ListPMSchedules, ListMeterStatus,
         MarkScheduleOverdue, CheckOpen, SyncNumber, SyncInsert, Unlock, people, SameHistory
<1>2. ASSUME NEW s \in Schedules PROVE RowDates(s)
  <2>1. CASE SyncPMScheduleStatuses(r)
    BY <1>0, <2>1 DEF SyncPMScheduleStatuses, RowDates, IsRow, PMTypeOK, Row
  <2>2. CASE \E x \in Schedules : MarkScheduleOverdue(r, x)
    BY <1>0, <2>2 DEF MarkScheduleOverdue, RowDates, IsRow, PMTypeOK, Row
  <2>3. CASE sched' = sched
    BY <2>3 DEF RowDates, IsRow
  <2> QED
    BY <2>1, <2>2, <2>3 DEF SyncStep, Crash, TryLock, ListPMSchedules, ListMeterStatus, CheckOpen,
       SyncNumber, SyncInsert, Unlock
<1> QED BY <1>1, <1>2, DatesStay DEF GivenGrows, SameDone, SameHistory

LEMMA RequestDates ==
    ASSUME Typed, Dates, NEW p \in Planners,
           \/ \E s \in Schedules : SetShutdownJobs(p, s)
           \/ PlanNumber(p) \/ PlanInsert(p)
    PROVE  Dates'
<1>1. done' = done /\ SameHistory /\ sched' = sched
  BY DEF SetShutdownJobs, PlanNumber, PlanInsert, people, SameHistory
<1> QED BY <1>1, DatesStay DEF GivenGrows, SameDone, SameHistory, RowDates, IsRow

LEMMA CompletionDates ==
    ASSUME Typed, Dates, NEW c \in Completers,
           \/ \E n \in Nums : CompleteWorkOrder(c, n)
           \/ AdvanceRead(c) \/ AdvanceWrite(c) \/ Interrupt(c)
    PROVE  Dates'
<1>0. /\ PMTypeOK /\ done[c] \in Completion /\ given' = given /\ reckoned' = reckoned /\ template' = template
      /\ \A d \in Completers \ {c} : done'[d] = done[d]
  BY DEF Typed, PMTypeOK, CompleteWorkOrder, AdvanceRead, AdvanceWrite, Interrupt, people
<1>1. GivenGrows
  BY <1>0 DEF GivenGrows
<1>2. ASSUME NEW n \in Nums, CompleteWorkOrder(c, n) PROVE Dates'
  <2>1. done'[c] = [NoDone EXCEPT !.pc = "read", !.sch = {order[n].sch}] /\ sched' = sched
    BY <1>0, <1>2 DEF CompleteWorkOrder, PMTypeOK
  <2>2. SameDone(c)
    BY <2>1 DEF SameDone, NoDone
  <2> QED BY <1>0, <1>1, <2>1, <2>2, DatesStay DEF SameDone, RowDates, IsRow
<1>3. CASE Interrupt(c)
  <2>1. done'[c] = NoDone /\ sched' = sched
    BY <1>0, <1>3 DEF Interrupt, PMTypeOK
  <2> QED BY <1>0, <1>1, <2>1, DatesStay DEF SameDone, RowDates, IsRow
<1>4. CASE AdvanceRead(c)
  <2>1. PICK s \in done[c].sch :
          done' = [done EXCEPT ![c] = [pc |-> "write", sch |-> {s}, last |-> clock, hours |-> meter[s].now,
                                       due |-> NextDueAfter(sched[s].due, template[s], clock)]]
    BY <1>4 DEF AdvanceRead
  <2> DEFINE due == NextDueAfter(sched[s].due, template[s], clock)
  <2>2. done'[c].sch = {s} /\ done'[c].last = clock /\ done'[c].due = due /\ sched' = sched
    BY <1>0, <1>4, <2>1 DEF PMTypeOK, AdvanceRead
  <2>3. s \in Schedules /\ clock \in Int /\ template[s] \in Templates /\ IsRow(s)
    <3>1. s \in Schedules
      BY <1>0, <2>1 DEF Completion
    <3>2. IsRow(s)
      BY <2>1, <3>1 DEF Typed, Referenced, OrdersOf
    <3> QED BY <1>0, <3>1, <3>2 DEF PMTypeOK
  <2>4. sched[s].due \in Int
    BY <1>0, <2>3 DEF PMTypeOK, Row, IsRow
  <2>5. due > clock
    BY <2>3, <2>4, NextAhead
  <2>6. ASSUME template[s].fixed
        PROVE  \E d \in given[s] \cup reckoned[s] : (due - d) % Interval(template[s]) = 0
    <3>1. PICK d \in given[s] \cup reckoned[s] : (sched[s].due - d) % Interval(template[s]) = 0
      BY <2>3, <2>6 DEF Dates, Kept, OnCalendar
    <3>2. d \in Int
      BY <1>0, <2>3 DEF PMTypeOK
    <3>3. (due - d) % Interval(template[s]) = 0
      BY <2>3, <2>4, <2>6, <3>1, <3>2, NextOnCalendar
    <3> QED BY <3>3
  <2> HIDE DEF due
  <2>7. ASSUME NEW d \in Completers, done'[d].pc = "write", NEW x \in done'[d].sch
        PROVE  /\ done'[d].last \in Int /\ done'[d].due > done'[d].last
               /\ template'[x].fixed =>
                     \E g \in given'[x] \cup reckoned'[x] : (done'[d].due - g) % Interval(template'[x]) = 0
    <3>1. CASE d = c
      BY <1>0, <2>2, <2>3, <2>5, <2>6, <3>1
    <3>2. CASE d # c
      BY <1>0, <1>1, <2>7, <3>2, PreparedStays DEF SameDone
    <3> QED BY <3>1, <3>2
  <2>8. Prepared'
    BY <2>7 DEF Prepared, OnCalendar
  <2>9. Kept' /\ ServedAhead'
    BY <1>0, <2>2 DEF Dates, Kept, ServedAhead, OnCalendar, IsRow
  <2> QED BY <2>8, <2>9 DEF Dates
<1>5. CASE AdvanceWrite(c)
  <2>1. PICK s \in done[c].sch :
          sched' = [sched EXCEPT ![s] = [due |-> done[c].due, last |-> done[c].last,
                                         status |-> "scheduled"]]
    BY <1>5 DEF AdvanceWrite
  <2>2. done[c].pc = "write" /\ done'[c] = NoDone
    BY <1>0, <1>5 DEF AdvanceWrite, PMTypeOK
  <2>3. s \in Schedules
    BY <1>0 DEF Completion
  <2>4. /\ sched'[s].due = done[c].due /\ sched'[s].last = done[c].last
        /\ \A x \in Schedules \ {s} : sched'[x] = sched[x]
    BY <1>0, <2>1, <2>3 DEF PMTypeOK
  <2>5. done[c].due > done[c].last /\ OnCalendar(s, done[c].due)
    BY <2>1, <2>2 DEF Dates, Prepared
  <2>6. Prepared'
    BY <1>0, <1>1, <2>2, PreparedStays DEF Prepared, OnCalendar, SameDone
  <2>7. ASSUME NEW x \in Schedules, IsRow(x)'
        PROVE  /\ template[x].fixed =>
                     \E d \in given[x] \cup reckoned[x] : (sched'[x].due - d) % Interval(template[x]) = 0
               /\ sched'[x].last # Never =>
                     sched'[x].due > sched'[x].last \/ sched'[x].due \in given[x]
    <3>1. CASE x = s
      BY <2>4, <2>5, <3>1 DEF OnCalendar
    <3>2. CASE x # s
      BY <2>4, <2>7, <3>2 DEF Dates, Kept, ServedAhead, OnCalendar, IsRow
    <3> QED BY <3>1, <3>2
  <2>8. Kept' /\ ServedAhead'
    BY <1>0, <2>7 DEF Kept, ServedAhead, OnCalendar
  <2> QED BY <2>6, <2>8 DEF Dates
<1> QED
  BY <1>2, <1>3, <1>4, <1>5

\* A template edited: what its calendar had by then counts as given from there on.
LEMMA TemplateDates ==
    ASSUME Typed, Dates, NEW s \in Schedules, NEW t \in Templates, PatchPMTemplate(s, t)
    PROVE  Dates'
<1>0. /\ PMTypeOK /\ done' = done /\ sched' = sched /\ given' = given
      /\ \A x \in Schedules \ {s} : template'[x] = template[x] /\ reckoned'[x] = reckoned[x]
      /\ sched[s].due \in reckoned'[s]
      /\ \A c \in Completers : done[c].pc = "write" /\ s \in done[c].sch => done[c].due \in reckoned'[s]
  BY DEF Typed, PMTypeOK, PatchPMTemplate, Completing
<1>1. ASSUME NEW due \in Int, NEW x \in Schedules, due \in reckoned'[x]
      PROVE  template'[x].fixed =>
                 \E d \in given'[x] \cup reckoned'[x] : (due - d) % Interval(template'[x]) = 0
  <2>1. template'[x] \in Templates
    BY <1>0 DEF Typed, PMTypeOK, PatchPMTemplate
  <2>2. Interval(template'[x]) \in Nat \ {0}
    BY <2>1, IntervalPositive
  <2>3. (due - due) % Interval(template'[x]) = 0
    BY <2>2
  <2> QED BY <1>1, <2>3
<1>2. ASSUME NEW c \in Completers, done[c].pc = "write", NEW x \in done[c].sch
      PROVE  /\ done[c].last \in Int /\ done[c].due > done[c].last
             /\ template'[x].fixed =>
                    \E d \in given'[x] \cup reckoned'[x] : (done[c].due - d) % Interval(template'[x]) = 0
  <2>1. done[c].last \in Int /\ done[c].due > done[c].last /\ OnCalendar(x, done[c].due)
    BY <1>2 DEF Dates, Prepared
  <2>2. x \in Schedules /\ done[c].due \in Int
    BY <1>0 DEF PMTypeOK, Completion
  <2>3. CASE x = s
    BY <1>0, <1>1, <1>2, <2>1, <2>2, <2>3
  <2>4. CASE x # s
    BY <1>0, <2>1, <2>2, <2>4 DEF OnCalendar
  <2> QED BY <2>3, <2>4
<1>3. Prepared'
  BY <1>0, <1>2 DEF Prepared, OnCalendar
<1>4. ASSUME NEW x \in Schedules, IsRow(x)
      PROVE  template'[x].fixed =>
                 \E d \in given'[x] \cup reckoned'[x] : (sched[x].due - d) % Interval(template'[x]) = 0
  <2>1. sched[x].due \in Int
    BY <1>0, <1>4 DEF PMTypeOK, IsRow, Row
  <2>2. CASE x = s
    BY <1>0, <1>1, <2>1, <2>2
  <2>3. CASE x # s
    BY <1>0, <1>4, <2>3 DEF Dates, Kept, OnCalendar
  <2> QED BY <2>2, <2>3
<1>5. Kept'
  BY <1>0, <1>4 DEF Kept, OnCalendar, IsRow
<1>6. ServedAhead'
  BY <1>0 DEF Dates, ServedAhead, IsRow
<1> QED BY <1>3, <1>5, <1>6 DEF Dates

LEMMA OtherDates == ASSUME Typed, Dates, Others PROVE Dates'
<1>3. CASE \E s \in Schedules, t \in Templates : PatchPMTemplate(s, t)
  BY <1>3, TemplateDates
<1> SUFFICES ASSUME ~\E s \in Schedules, t \in Templates : PatchPMTemplate(s, t) PROVE Dates'
  BY <1>3
<1>0. PMTypeOK /\ done' = done /\ template' = template /\ reckoned' = reckoned
  BY DEF Typed, Others, PatchWorkOrder, PatchPMSchedule, RecordMeterReading, DeletePMSchedule,
         Tick, people
<1>1. CASE \E s \in Schedules : \E due \in DueDates : PatchPMSchedule(s, due)
  <2>1. PICK s \in Schedules, due \in DueDates : PatchPMSchedule(s, due)
    BY <1>1
  <2>2. sched[s] \in Row /\ due \in Int
    BY <1>0, <2>1 DEF PatchPMSchedule, IsRow, PMTypeOK
  <2>3. /\ sched'[s].due = due /\ \A x \in Schedules \ {s} : sched'[x] = sched[x]
        /\ given'[s] = given[s] \cup {due} /\ \A x \in Schedules \ {s} : given'[x] = given[x]
    BY <1>0, <2>1, <2>2 DEF PatchPMSchedule, PMTypeOK, Row
  <2>4. GivenGrows
    BY <1>0, <2>3 DEF GivenGrows
  <2>5. Prepared'
    BY <1>0, <2>4, PreparedStays DEF Prepared, OnCalendar, SameDone
  <2>6. Interval(template[s]) \in Nat \ {0} /\ (due - due) % Interval(template[s]) = 0
    BY <1>0, <2>2, IntervalPositive DEF PMTypeOK
  <2>7. ASSUME NEW x \in Schedules, IsRow(x)'
        PROVE  /\ template[x].fixed =>
                     \E d \in given'[x] \cup reckoned'[x] : (sched'[x].due - d) % Interval(template[x]) = 0
               /\ sched'[x].last # Never =>
                     sched'[x].due > sched'[x].last \/ sched'[x].due \in given'[x]
    <3>1. CASE x = s
      BY <2>3, <2>6, <3>1
    <3>2. CASE x # s
      <4>1. /\ sched'[x] = sched[x] /\ given'[x] = given[x] /\ reckoned'[x] = reckoned[x]
            /\ IsRow(x)
        BY <1>0, <2>3, <2>7, <3>2 DEF IsRow
      <4>2. OnCalendar(x, sched[x].due)
        BY <4>1 DEF Dates, Kept
      <4>3. sched[x].last # Never => sched[x].due > sched[x].last \/ sched[x].due \in given[x]
        BY <4>1 DEF Dates, ServedAhead
      <4> QED BY <4>1, <4>2, <4>3 DEF OnCalendar
    <3> QED BY <3>1, <3>2
  <2>8. Kept' /\ ServedAhead'
    BY <1>0, <2>7 DEF Kept, ServedAhead, OnCalendar
  <2> QED BY <2>5, <2>8 DEF Dates
<1>2. CASE given' = given /\ ~\E s \in Schedules : \E due \in DueDates : PatchPMSchedule(s, due)
  <2>1. ASSUME NEW s \in Schedules PROVE RowDates(s)
    <3>1. CASE \E x \in Schedules : DeletePMSchedule(x)
      BY <1>0, <3>1 DEF DeletePMSchedule, RowDates, IsRow, PMTypeOK
    <3>2. CASE sched' = sched
      BY <3>2 DEF RowDates, IsRow
    <3> QED
      BY <1>2, <3>1, <3>2 DEF Others, PatchWorkOrder, RecordMeterReading, Tick
  <2> QED BY <1>0, <1>2, <2>1, DatesStay DEF GivenGrows, SameDone
<1> QED
  BY <1>1, <1>2 DEF Others, PatchWorkOrder, RecordMeterReading, DeletePMSchedule, Tick, people

LEMMA DatesStep == Typed /\ Dates /\ [PMNext]_vars => Dates'
<1> SUFFICES ASSUME Typed, Dates, [PMNext]_vars PROVE Dates'
  OBVIOUS
<1>1. CASE UNCHANGED vars
  BY <1>1, DatesStay DEF vars, people, GivenGrows, SameDone, RowDates, IsRow
<1> QED
  BY <1>1, Cases, RunnerDates, RequestDates, CompletionDates, OtherDates

LEMMA DatesInit == PMInit => Dates
<1> SUFFICES ASSUME PMInit PROVE Dates
  OBVIOUS
<1>1. \A s \in Schedules : template[s] \in Templates /\ sched[s].due \in Int /\ sched[s].last = Never
  BY DEF PMInit
<1>2. \A s \in Schedules : (sched[s].due - sched[s].due) % Interval(template[s]) = 0
  BY <1>1, IntervalPositive
<1>3. Kept
  BY <1>2 DEF PMInit, Kept, OnCalendar
<1> QED BY <1>1, <1>3 DEF PMInit, Dates, Prepared, ServedAhead, NoDone

\* The date of a fixed schedule stays a whole number of intervals from one somebody
\* gave it, or that its calendar had when its template was edited, whatever completions race.
THEOREM FixedDatesKept == PMSpec => []CalendarKept
<1>1. PMSpec => [](Typed /\ Dates)
  BY TypeInit, TypedStep, DatesInit, DatesStep, PTL DEF PMSpec
<1>2. Typed /\ Dates => CalendarKept
  BY DEF Dates, Kept, OnCalendar, CalendarKept
<1> QED BY <1>1, <1>2, PTL

\* After a service the next one is ahead of it, unless somebody set another date.
THEOREM NextServiceAhead == PMSpec => []ServedAhead
<1>1. PMSpec => [](Typed /\ Dates)
  BY TypeInit, TypedStep, DatesInit, DatesStep, PTL DEF PMSpec
<1>2. Typed /\ Dates => ServedAhead
  BY DEF Dates
<1> QED BY <1>1, <1>2, PTL
--------------------------------------------------------------------------------
(* What a completion leaves behind.                                          *)

\* A completion moves one schedule on, and unless that is disturbed it is the only one.
OneCompletes ==
    /\ \A c \in Completers : \A s, x \in done[c].sch : s = x
    /\ \A s \in Schedules \ disturbed : \A c, d \in Completing(s) : c = d

\* The schedule of a completed order knows of a service no older, or is about to be told.
Recorded(n) ==
    LET s == order[n].sch IN
    /\ order[n].at \in Int /\ order[n].at <= clock
    /\ Completing(s) = {} => sched[s].last # Never /\ sched[s].last >= order[n].at
    /\ \A c \in Completing(s) : done[c].pc = "write" =>
           done[c].last # Never /\ done[c].last >= order[n].at

Advancing ==
    /\ OneCompletes
    /\ \A n \in Nums : order[n] # NoOrder /\ order[n].at # Never /\ order[n].sch \notin disturbed =>
           Recorded(n)

AtStays == \A n \in Nums :
    order'[n] # NoOrder /\ order'[n].at # Never =>
        order[n] # NoOrder /\ order[n].at = order'[n].at /\ order[n].sch = order'[n].sch

LastStays == \A s \in Schedules : OrdersOf(s) # {} => sched'[s].last = sched[s].last

LEMMA AdvancingStays ==
    ASSUME Typed, Advancing, AtStays, LastStays, done' = done, disturbed' = disturbed,
           clock' \in Int, clock' >= clock
    PROVE  Advancing'
<1>1. OneCompletes'
  BY DEF Advancing, OneCompletes, Completing
<1>2. ASSUME NEW n \in Nums, order'[n] # NoOrder, order'[n].at # Never, order'[n].sch \notin disturbed
      PROVE  Recorded(n)'
  <2>1. /\ order[n] # NoOrder /\ order[n].at = order'[n].at /\ order[n].sch = order'[n].sch
    BY <1>2 DEF AtStays
  <2>2. Recorded(n)
    BY <1>2, <2>1 DEF Advancing
  <2>3. sched'[order[n].sch].last = sched[order[n].sch].last
    BY <2>1 DEF LastStays, OrdersOf, Typed, PMTypeOK, Order
  <2>4. clock \in Int /\ order[n].at \in Int
    BY <2>2 DEF Recorded, Typed, PMTypeOK
  <2> QED  BY <2>1, <2>2, <2>3, <2>4 DEF Recorded, Completing
<1> QED  BY <1>1, <1>2 DEF Advancing

LEMMA RaisedStays ==
    ASSUME Typed, NEW num, NEW s \in Schedules, NEW by \in {"sync", "plan"},
           CreateWorkOrderFromPM(num, s, by)
    PROVE  AtStays
<1>1. ASSUME NEW n \in Nums PROVE order'[n] = order[n] \/ order'[n].at = Never
  BY <1>1 DEF CreateWorkOrderFromPM, Typed, PMTypeOK
<1> QED  BY <1>1 DEF AtStays

LEMMA RunnerAdvancing ==
    ASSUME Typed, Advancing, NEW r \in Runners, SyncStep(r) \/ Crash(r) PROVE Advancing'
<1>0. /\ PMTypeOK /\ done' = done /\ disturbed' = disturbed /\ clock' = clock
      /\ clock \in Int
  BY DEF Typed, PMTypeOK, SyncStep, Crash, TryLock, SyncPMScheduleStatuses, ListPMSchedules, ListMeterStatus,
         MarkScheduleOverdue, CheckOpen, SyncNumber, SyncInsert, Unlock, people
<1>1. AtStays
  <2>1. CASE SyncInsert(r)
    <3>1. PICK s \in job[r].cur : CreateWorkOrderFromPM(job[r].num, s, "sync")
      BY <2>1 DEF SyncInsert
    <3>2. s \in Schedules
      BY <1>0 DEF PMTypeOK, Run
    <3> QED  BY <3>1, <3>2, RaisedStays
  <2>2. CASE order' = order
    BY <2>2 DEF AtStays
  <2> QED
    BY <2>1, <2>2 DEF SyncStep, Crash, TryLock, SyncPMScheduleStatuses, ListPMSchedules,
       ListMeterStatus, MarkScheduleOverdue, CheckOpen, SyncNumber, Unlock
<1>2. ASSUME NEW s \in Schedules PROVE sched'[s].last = sched[s].last
  <2>1. CASE SyncPMScheduleStatuses(r)
    BY <1>0, <2>1 DEF SyncPMScheduleStatuses, IsRow, PMTypeOK, Row
  <2>2. CASE \E x \in Schedules : MarkScheduleOverdue(r, x)
    <3>1. PICK x \in Schedules : MarkScheduleOverdue(r, x)
      BY <2>2
    <3>2. sched[x].last = [sched[x] EXCEPT !.status = "overdue"].last \/ sched[x].status # "scheduled"
      BY <1>0 DEF PMTypeOK, Row
    <3> QED  BY <1>0, <3>1, <3>2 DEF MarkScheduleOverdue, PMTypeOK
  <2>3. CASE sched' = sched
    BY <2>3
  <2> QED
    BY <2>1, <2>2, <2>3 DEF SyncStep, Crash, TryLock, ListPMSchedules, ListMeterStatus, CheckOpen,
       SyncNumber, SyncInsert, Unlock
<1> QED  BY <1>0, <1>1, <1>2, AdvancingStays DEF LastStays

LEMMA RequestAdvancing ==
    ASSUME Typed, Advancing, NEW p \in Planners,
           \/ \E s \in Schedules : SetShutdownJobs(p, s)
           \/ PlanNumber(p) \/ PlanInsert(p)
    PROVE  Advancing'
<1>1. /\ PMTypeOK /\ done' = done /\ disturbed' = disturbed /\ clock' = clock /\ sched' = sched
      /\ clock \in Int
  BY DEF Typed, PMTypeOK, SetShutdownJobs, PlanNumber, PlanInsert, people
<1>2. AtStays
  <2>1. CASE PlanInsert(p)
    <3>1. PICK s \in plan[p].sch : CreateWorkOrderFromPM(plan[p].num, s, "plan")
      BY <2>1 DEF PlanInsert
    <3>2. s \in Schedules
      BY <1>1 DEF PMTypeOK, Planning
    <3> QED  BY <3>1, <3>2, RaisedStays
  <2>2. CASE order' = order
    BY <2>2 DEF AtStays
  <2> QED  BY <2>1, <2>2 DEF SetShutdownJobs, PlanNumber
<1> QED  BY <1>1, <1>2, AdvancingStays DEF LastStays

LEMMA CompletionAdvancing ==
    ASSUME Typed, Advancing, NEW c \in Completers,
           \/ \E n \in Nums : CompleteWorkOrder(c, n)
           \/ AdvanceRead(c) \/ AdvanceWrite(c) \/ Interrupt(c)
    PROVE  Advancing'
<1>0. /\ PMTypeOK /\ clock' = clock /\ clock \in Int /\ done[c] \in Completion
      /\ \A d \in Completers \ {c} : done'[d] = done[d]
  BY DEF Typed, PMTypeOK, CompleteWorkOrder, AdvanceRead, AdvanceWrite, Interrupt, people
<1>1. ASSUME NEW n \in Nums, CompleteWorkOrder(c, n) PROVE Advancing'
  <2>0. order[n] \in Order
    BY <1>0, <1>1 DEF CompleteWorkOrder, PMTypeOK
  <2>1. PICK s \in Schedules : s = order[n].sch
    BY <2>0 DEF Order
  <2>2. /\ done'[c].pc = "read" /\ done'[c].sch = {s} /\ done[c].sch = {} /\ sched' = sched
        /\ disturbed \subseteq disturbed' /\ (s \notin disturbed' => Completing(s) = {})
    <3>1. done'[c] = [NoDone EXCEPT !.pc = "read", !.sch = {s}] /\ done[c] = NoDone
      BY <1>0, <1>1, <2>1 DEF CompleteWorkOrder, PMTypeOK
    <3>2. done'[c].pc = "read" /\ done'[c].sch = {s} /\ done[c].sch = {}
      BY <3>1 DEF NoDone
    <3>3. sched' = sched /\ disturbed' = disturbed \cup {x \in {s} : Completing(x) # {}}
      BY <1>1, <2>1 DEF CompleteWorkOrder
    <3> QED  BY <3>2, <3>3
  <2>3. /\ order'[n].sch = s /\ order'[n].at = clock
        /\ \A k \in Nums \ {n} : order'[k] = order[k]
    BY <1>0, <1>1, <2>0, <2>1 DEF CompleteWorkOrder, PMTypeOK, Order
  <2>4. /\ s \notin disturbed' => Completing(s) = {} /\ Completing(s)' = {c}
        /\ \A x \in Schedules : x # s => Completing(x)' = Completing(x)
    <3>1. \A x \in Schedules : x # s => Completing(x)' = Completing(x)
      BY <1>0, <2>2 DEF Completing
    <3>2. Completing(s)' = Completing(s) \cup {c}
      BY <1>0, <2>2 DEF Completing
    <3> QED  BY <2>2, <3>1, <3>2
  <2>5. OneCompletes'
    <3>1. \A d \in Completers : \A y, x \in done'[d].sch : y = x
      BY <1>0, <2>2 DEF Advancing, OneCompletes
    <3>2. \A x \in Schedules \ disturbed' : \A d, e \in Completing(x)' : d = e
      BY <2>2, <2>4 DEF Advancing, OneCompletes
    <3> QED  BY <3>1, <3>2 DEF OneCompletes, Completing
  <2>6. ASSUME NEW k \in Nums, order'[k] # NoOrder, order'[k].at # Never, order'[k].sch \notin disturbed'
        PROVE  Recorded(k)'
    <3>1. CASE k = n
      BY <1>0, <2>2, <2>3, <2>4, <2>6, <3>1 DEF Recorded
    <3>2. CASE k # n
      <4>1. Recorded(k) /\ order'[k] = order[k] /\ order[k].sch \in Schedules
        BY <1>0, <2>2, <2>3, <2>6, <3>2 DEF Advancing, PMTypeOK, Order
      <4>2. CASE order[k].sch = s
        BY <1>0, <2>2, <2>4, <2>6, <4>1, <4>2 DEF Recorded
      <4>3. CASE order[k].sch # s
        <5>1. \A d \in Completing(order[k].sch) : d # c
          BY <2>2 DEF Completing
        <5> QED  BY <1>0, <2>2, <2>4, <4>1, <4>3, <5>1 DEF Recorded, Completing
      <4> QED  BY <4>2, <4>3
    <3> QED  BY <3>1, <3>2
  <2> QED  BY <2>5, <2>6 DEF Advancing
<1>2. CASE AdvanceRead(c)
  <2>1. PICK s \in done[c].sch :
          done' = [done EXCEPT ![c] = [pc |-> "write", sch |-> {s}, last |-> clock, hours |-> meter[s].now,
                                       due |-> NextDueAfter(sched[s].due, template[s], clock)]]
    BY <1>2 DEF AdvanceRead
  <2>2. /\ done'[c].sch = done[c].sch /\ done'[c].last = clock
        /\ order' = order /\ sched' = sched /\ disturbed' = disturbed /\ clock # Never
    BY <1>0, <1>2, <2>1, PMAssumption DEF AdvanceRead, Advancing, OneCompletes, PMTypeOK, people
  <2>3. \A d \in Completers : done'[d].sch = done[d].sch
    BY <1>0, <2>2
  <2>4. OneCompletes'
    BY <2>2, <2>3 DEF Advancing, OneCompletes, Completing
  <2>5. ASSUME NEW k \in Nums, order[k] # NoOrder, order[k].at # Never, order[k].sch \notin disturbed
        PROVE  Recorded(k)'
    <3>1. Recorded(k)
      BY <2>5 DEF Advancing
    <3> QED  BY <1>0, <2>2, <2>3, <3>1 DEF Recorded, Completing
  <2> QED  BY <2>2, <2>4, <2>5 DEF Advancing
<1>3. CASE AdvanceWrite(c)
  <2>1. PICK s \in done[c].sch :
          sched' = [sched EXCEPT ![s] = [due |-> done[c].due, last |-> done[c].last,
                                         status |-> "scheduled"]]
    BY <1>3 DEF AdvanceWrite
  <2>2. /\ done[c].sch = {s} /\ done'[c].sch = {} /\ done[c].pc = "write" /\ s \in Schedules
        /\ order' = order /\ disturbed' = disturbed
        /\ sched'[s].last = done[c].last /\ \A x \in Schedules \ {s} : sched'[x] = sched[x]
    <3>1. s \in Schedules /\ done[c].sch = {s}
      BY <1>0, <2>1 DEF Advancing, OneCompletes, Completion
    <3>2. done'[c] = NoDone /\ done[c].pc = "write" /\ order' = order /\ disturbed' = disturbed
      BY <1>0, <1>3 DEF AdvanceWrite, PMTypeOK, people
    <3> QED  BY <1>0, <2>1, <3>1, <3>2 DEF PMTypeOK, NoDone
  <2>3. \A x \in Schedules : Completing(x)' = Completing(x) \ {c}
    BY <1>0, <2>2 DEF Completing
  <2>4. OneCompletes'
    BY <1>0, <2>2, <2>3 DEF Advancing, OneCompletes, Completing
  <2>5. ASSUME NEW k \in Nums, order[k] # NoOrder, order[k].at # Never, order[k].sch \notin disturbed
        PROVE  Recorded(k)'
    <3>1. Recorded(k) /\ order[k].sch \in Schedules
      BY <1>0, <2>5 DEF Advancing, PMTypeOK, Order
    <3>2. CASE order[k].sch = s
      <4>1. c \in Completing(s) /\ Completing(s) = {c}
        BY <2>2, <2>5, <3>2 DEF Advancing, OneCompletes, Completing
      <4> QED  BY <1>0, <2>2, <2>3, <3>1, <3>2, <4>1 DEF Recorded
    <3>3. CASE order[k].sch # s
      <4>1. c \notin Completing(order[k].sch)
        BY <2>2, <3>3 DEF Completing
      <4> QED  BY <1>0, <2>2, <2>3, <3>1, <3>3, <4>1 DEF Recorded, Completing
    <3> QED  BY <3>2, <3>3
  <2> QED  BY <2>2, <2>4, <2>5 DEF Advancing
<1>4. CASE Interrupt(c)
  <2>1. /\ done'[c].sch = {} /\ disturbed' = disturbed \cup done[c].sch
        /\ order' = order /\ sched' = sched
    BY <1>0, <1>4 DEF Interrupt, PMTypeOK, NoDone
  <2>2. \A x \in Schedules : Completing(x)' = Completing(x) \ {c}
    BY <1>0, <2>1 DEF Completing
  <2>3. OneCompletes'
    BY <1>0, <2>1, <2>2 DEF Advancing, OneCompletes, Completing
  <2>4. ASSUME NEW k \in Nums, order[k] # NoOrder, order[k].at # Never, order[k].sch \notin disturbed'
        PROVE  Recorded(k)'
    <3>1. Recorded(k) /\ order[k].sch \in Schedules /\ c \notin Completing(order[k].sch)
      BY <1>0, <2>1, <2>4 DEF Advancing, PMTypeOK, Order, Completing
    <3> QED  BY <1>0, <2>1, <2>2, <3>1 DEF Recorded, Completing
  <2> QED  BY <2>1, <2>3, <2>4 DEF Advancing
<1> QED  BY <1>1, <1>2, <1>3, <1>4

LEMMA OtherAdvancing == ASSUME Typed, Advancing, Others PROVE Advancing'
<1>0. /\ PMTypeOK /\ done' = done /\ disturbed' = disturbed /\ clock' \in Int /\ clock' >= clock
  <2>1. PMTypeOK /\ clock \in Int
    BY DEF Typed, PMTypeOK
  <2>2. done' = done /\ disturbed' = disturbed /\ (clock' = clock \/ clock' = clock + 1)
    BY DEF Others, PatchWorkOrder, PatchPMSchedule, PatchPMTemplate, RecordMeterReading,
         DeletePMSchedule, Tick, people
  <2> QED  BY <2>1, <2>2
<1>1. AtStays
  <2>1. ASSUME NEW n \in Nums, NEW st \in {"open", "completed", "cancelled"}, PatchWorkOrder(n, st)
        PROVE  AtStays
    <3>1. order[n] \in Order /\ order[n] # NoOrder
      BY <1>0, <2>1 DEF PatchWorkOrder, PMTypeOK
    <3>2. /\ order'[n].at = order[n].at /\ order'[n].sch = order[n].sch
          /\ \A k \in Nums \ {n} : order'[k] = order[k]
      BY <1>0, <2>1, <3>1 DEF PatchWorkOrder, PMTypeOK, Order
    <3> QED  BY <3>1, <3>2 DEF AtStays
  <2>2. CASE order' = order
    BY <2>2 DEF AtStays
  <2> QED  BY <2>1, <2>2 DEF Others, PatchPMSchedule, PatchPMTemplate, RecordMeterReading,
         DeletePMSchedule, Tick
<1>2. LastStays
  <2>1. ASSUME NEW s \in Schedules, NEW due \in DueDates, PatchPMSchedule(s, due) PROVE LastStays
    <3>1. sched[s] \in Row
      BY <1>0, <2>1 DEF PatchPMSchedule, IsRow, PMTypeOK
    <3>2. /\ sched'[s].last = sched[s].last /\ \A x \in Schedules \ {s} : sched'[x] = sched[x]
      BY <1>0, <2>1, <3>1 DEF PatchPMSchedule, PMTypeOK, Row
    <3> QED  BY <3>2 DEF LastStays
  <2>2. ASSUME NEW s \in Schedules, DeletePMSchedule(s) PROVE LastStays
    BY <1>0, <2>2 DEF DeletePMSchedule, LastStays, PMTypeOK
  <2>3. CASE sched' = sched
    BY <2>3 DEF LastStays
  <2> QED  BY <2>1, <2>2, <2>3 DEF Others, PatchWorkOrder, PatchPMTemplate, RecordMeterReading, Tick
<1> QED  BY <1>0, <1>1, <1>2, AdvancingStays

LEMMA AdvancingStep == Typed /\ Advancing /\ [PMNext]_vars => Advancing'
<1> SUFFICES ASSUME Typed, Advancing, [PMNext]_vars PROVE Advancing'
  OBVIOUS
<1>1. CASE UNCHANGED vars
  BY <1>1, AdvancingStays DEF vars, people, AtStays, LastStays, Typed, PMTypeOK
<1> QED
  BY <1>1, Cases, RunnerAdvancing, RequestAdvancing, CompletionAdvancing, OtherAdvancing

\* Once the completion of an order is over its schedule knows of a service no older
\* (ServedIsAdvanced of PMSchedules; cmms.go:161), for any schedules, orders and
\* completions, unless those of one schedule overlapped or one was cut short.
THEOREM CompletionAdvances == PMSpec => []ServedIsAdvanced
<1>1. PMInit => Advancing
  BY DEF PMInit, Advancing, OneCompletes, Completing, NoDone
<1>2. PMSpec => [](Typed /\ Advancing)
  BY TypeInit, TypedStep, <1>1, AdvancingStep, PTL DEF PMSpec
<1>3. Typed /\ Advancing => ServedIsAdvanced
  BY DEF Advancing, Recorded, ServedIsAdvanced
<1> QED BY <1>2, <1>3, PTL
================================================================================
