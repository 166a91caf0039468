------------------------------ MODULE Shutdown ------------------------------
(***************************************************************************)
(* Shutdowns (internal/store/shutdown.go): a planned stoppage of some of a *)
(* factory's machines.  A shutdown is a header kept in the factory's       *)
(* attrs, one planned stop per machine in the downtime log, and the work   *)
(* orders tagged with its code.                                            *)
(*                                                                         *)
(* No operation is a transaction.  Each reads the header, then writes the  *)
(* header, the stops and the jobs one statement at a time, and saves the   *)
(* header it read; a request that is interrupted between two statements    *)
(* (a failed statement, a client that went away, a restart) leaves what it *)
(* has written so far.  The reads a request makes before its first write   *)
(* are one step here, and each later statement is a step of its own.       *)
(*                                                                         *)
(* The downtime log is module Downtime; the steps on a stop are its        *)
(* actions.  One factory is modelled: codes and windows never cross one.   *)
(* Edits of registry rows are left out: a shutdown asks of a machine's row *)
(* only whether it is retired, once, before it plans anything.             *)
(***************************************************************************)
EXTENDS Downtime, FiniteSets, FiniteSetsExt

CONSTANTS
    Window,       \* windows a planner may ask for: sets of consecutive days
    MaxSuffix,    \* bound on the shutdowns whose first window starts on one day
    Unplanned,    \* downtime rows that may be logged outside any shutdown
    Operator,     \* planners with a request in flight at the same time
    MaxRequests,  \* bound on the planners' requests
    Job,          \* work orders
    Edit          \* requests that PATCH a work order outside the planner

ASSUME MaxRequestsAssumption == MaxRequests \in Nat
ASSUME WindowAssumption == \A w \in Window : w # {} /\ w \subseteq Nat /\ IsFiniteSet(w)

VARIABLES
    header,       \* attrs.shutdowns: the headers by code
    booking,      \* per stop, the attrs.shutdown and the planned window it carries
    job,          \* the work orders
    req,          \* the planners' requests in flight
    edit,         \* the work order edits in flight
    begun,        \* how many requests have begun
    broken,       \* history: codes a request of which ended early
    met           \* history: codes of requests that were in each other's way

shutdownOnly == <<header, booking, job, req, edit, begun, broken, met>>
shutdownVars == <<downtimeVars, shutdownOnly>>

Start(w) == Min(w)
Code     == {<<Start(w), i>> : w \in Window, i \in 1..MaxSuffix}
NoCode   == <<>>
Tag      == Code \cup {NoCode}

HeaderStatus == {"none", "planned", "in_progress", "completed", "cancelled"}
\* agreed: the window production agreed to, {} before it did.
Header   == [status : HeaderStatus, machines : SUBSET Asset,
             window : Window \cup {{}}, agreed : Window \cup {{}}]
NoHeader == [status |-> "none", machines |-> {}, window |-> {}, agreed |-> {}]
Booking  == [code : Tag, window : Window \cup {{}}]
NoBooking == [code |-> NoCode, window |-> {}]
JobRow   == [asset : Asset, live : BOOLEAN, code : Tag]

\* sd: the header as read; rest: the statements left; stops, plan, add, take:
\* the stops to move, the machines to plan a stop on, and the jobs to put in
\* and to take out; about: the machines they are chosen from; row: the work
\* order read by a PATCH that has not written it yet.
Request  == [op : {"create", "update", "agree", "start", "finish", "cancel", "jobs"},
             code : Code, sd : Header, rest : Seq({"save", "move", "stops", "plan", "jobs"}),
             stops : SUBSET Stop, plan : SUBSET Asset, about : SUBSET Asset,
             add : SUBSET Job, take : SUBSET Job, row : SUBSET (Job \X JobRow)]
Idle     == [op |-> "none"]
EditRow  == [pc : {"new", "read", "done"}, job : Job, row : JobRow]

ShutdownTypeOK ==
    /\ header \in [Code -> Header]
    /\ booking \in [Stop -> Booking]
    /\ job \in [Job -> JobRow]
    /\ req \in [Operator -> Request \cup {Idle}]
    /\ edit \in [Edit -> EditRow]
    /\ begun \in 0..MaxRequests
    /\ broken \subseteq Code
    /\ met \subseteq Code \X Code

ShutdownInit ==
    /\ DowntimeInit
    /\ header = [c \in Code |-> NoHeader]
    /\ booking = [s \in Stop |-> NoBooking]
    /\ job \in [Job -> [asset : Asset, live : {TRUE}, code : {NoCode}]]
    /\ req = [o \in Operator |-> Idle]
    /\ edit \in {[e \in Edit |-> [pc |-> "new", job |-> f[e], row |-> job[f[e]]]] : f \in [Edit -> Job]}
    /\ begun = 0
    /\ broken = {} /\ met = {}

-----------------------------------------------------------------------------
(***************************************************************************)
(* Reading: which request may begin, and what it will do.                  *)
(***************************************************************************)
Status(c) == header[c].status

\* A slip: only planned shutdowns are looked at.
FreeOfPlanned(machines, w, self) ==
    /\ machines # {}
    /\ \A a \in machines : status[a] # "retired"
    /\ \A c \in Code \ {self} :
          Status(c) = "planned" /\ header[c].window \cap w # {} => header[c].machines \cap machines = {}

\* checkMachines: none of the machines is retired or taken by another shutdown
\* that is planned or running in an overlapping window.
Free(machines, w, self) ==
    /\ machines # {}
    /\ \A a \in machines : status[a] # "retired"
    /\ \A c \in Code \ {self} :
          Status(c) \in {"planned", "in_progress"} /\ header[c].window \cap w # {}
             => header[c].machines \cap machines = {}

\* nextShutdownCode: the first suffix that day has no shutdown under.
Unused(day)   == {i \in 1..MaxSuffix : Status(<<day, i>>) = "none"}
NextCode(day) == <<day, Min(Unused(day))>>

\* A request that looks for the machines it chose in the other headers, and
\* then saves its own.
Chooses(r) == r.op \in {"create", "update"}

\* Nothing keeps two requests apart: no lock is held, and no save compares what
\* it overwrites.  They are in each other's way when they are about one shutdown,
\* or when each chooses machines and neither sees the other's choice.
InTheWay(r, q) == q # Idle /\ (q.code = r.code \/ (Chooses(r) /\ Chooses(q)))

Accept(o, request) ==
    /\ req[o] = Idle
    /\ begun < MaxRequests
    /\ begun' = begun + 1
    /\ req' = [req EXCEPT ![o] = request]
    /\ LET others == {req[p].code : p \in {p \in Operator : InTheWay(request, req[p])}} IN
       met' = met \cup ({request.code} \X others) \cup (others \X {request.code})
    /\ UNCHANGED <<downtimeVars, header, booking, job, edit, broken>>

Begin(o, op, c, sd, rest) ==
    Accept(o, [op |-> op, code |-> c, sd |-> sd, rest |-> rest, stops |-> {}, plan |-> {},
               about |-> Asset, add |-> {}, take |-> {}, row |-> {}])

\* The same, for a request that changes the machines of its shutdown.
BeginChange(o, op, c, sd, rest, added, removed) ==
    Accept(o, [op |-> op, code |-> c, sd |-> sd, rest |-> rest, stops |-> {}, plan |-> added,
               about |-> removed, add |-> {}, take |-> {}, row |-> {}])

If(condition, phase) == IF condition THEN <<phase>> ELSE <<>>

(***************************************************************************)
(* Slips: reads and steps as a plausible mistake would leave them.         *)
(***************************************************************************)
\* The header is saved before the stops are started.
StartSavesFirst(o, c) ==
    /\ Status(c) = "planned"
    /\ Begin(o, "start", c, [header[c] EXCEPT !.status = "in_progress"], <<"save", "stops">>)

\* A running shutdown can be cancelled / the state is spelt another way.
CancelRunningShutdown(o, c) ==
    /\ Status(c) \in {"planned", "in_progress"}
    /\ Begin(o, "cancel", c, [header[c] EXCEPT !.status = "cancelled"], <<"stops", "jobs", "save">>)

CancelMisspeltShutdown(o, c) ==
    /\ Status(c) = "planned"
    /\ Begin(o, "cancel", c, [header[c] EXCEPT !.status = "canceled"], <<"stops", "jobs", "save">>)

\* The jobs of a cancelled shutdown are left in it.
CancelKeepsJobs(o, c) ==
    /\ Status(c) = "planned"
    /\ Begin(o, "cancel", c, [header[c] EXCEPT !.status = "cancelled"], <<"stops", "save">>)

\* The stops do not move with the window.
UpdateLeavesStops(o, c, w, machines) ==
    LET sd      == header[c]
        removed == sd.machines \ machines
    IN  /\ Status(c) = "planned"
        /\ Free(machines, w, c)
        /\ BeginChange(o, "update", c, [sd EXCEPT !.window = w, !.machines = machines],
                       <<"save", "stops", "plan">> \o If(removed # {}, "jobs"),
                       machines \ sd.machines, removed)

-----------------------------------------------------------------------------
\* CreateShutdown: the header, then a planned stop on each machine.
CreateShutdown(o, w, machines) ==
    /\ Unused(Start(w)) # {}
    /\ Free(machines, w, NoCode)
    /\ BeginChange(o, "create", NextCode(Start(w)),
                   [status |-> "planned", machines |-> machines, window |-> w, agreed |-> {}],
                   <<"save", "plan">>, machines, {})

\* UpdateShutdown: the header, the window of the stops still planned, the stops
\* of removed machines, a stop on each added one, and the removed ones' jobs.
UpdateShutdown(o, c, w, machines) ==
    LET sd      == header[c]
        removed == sd.machines \ machines
    IN  /\ Status(c) = "planned"
        /\ Free(machines, w, c)
        /\ BeginChange(o, "update", c, [sd EXCEPT !.window = w, !.machines = machines],
                       <<"save">> \o If(w # sd.window, "move") \o <<"stops", "plan">>
                                  \o If(removed # {}, "jobs"),
                       machines \ sd.machines, removed)

\* AgreeShutdown records production's agreement to the window.
AgreeShutdown(o, c) ==
    /\ Status(c) = "planned"
    /\ Begin(o, "agree", c, [header[c] EXCEPT !.agreed = header[c].window], <<"save">>)

\* StartShutdown starts the planned stops and then says it has started.
StartShutdown(o, c) ==
    /\ Status(c) = "planned"
    /\ Begin(o, "start", c, [header[c] EXCEPT !.status = "in_progress"], <<"stops", "save">>)

\* FinishShutdown ends the open stops; jobs not finished stay open and tagged.
FinishShutdown(o, c) ==
    /\ Status(c) = "in_progress"
    /\ Begin(o, "finish", c, [header[c] EXCEPT !.status = "completed"], <<"stops", "save">>)

\* CancelShutdown cancels the planned stops and lets the open jobs go.
CancelShutdown(o, c) ==
    /\ Status(c) = "planned"
    /\ Begin(o, "cancel", c, [header[c] EXCEPT !.status = "cancelled"], <<"stops", "jobs", "save">>)

\* SetShutdownJobs puts jobs in and takes jobs out, one PATCH at a time.
SetShutdownJobs(o, c, add, take) ==
    /\ Status(c) \in {"planned", "in_progress"}
    /\ Accept(o, [op |-> "jobs", code |-> c, sd |-> header[c], rest |-> <<>>, stops |-> {},
                  plan |-> {}, about |-> Asset, add |-> add, take |-> take, row |-> {}])

-----------------------------------------------------------------------------
(***************************************************************************)
(* Writing: the statements of a request, in order.                         *)
(***************************************************************************)
\* The lists of the statement before are worked through.
Worked(o) == req[o].stops = {} /\ req[o].add = {} /\ req[o].take = {}

At(o, phase) ==
    /\ req[o] # Idle
    /\ Worked(o)
    /\ req[o].rest # <<>>
    /\ Head(req[o].rest) = phase

Past(o) == [req[o] EXCEPT !.rest = Tail(@)]

\* saveShutdown writes the header the request read and changed, whatever the
\* plant row holds for the code by now.
SaveShutdown(o) ==
    /\ At(o, "save")
    /\ header' = [header EXCEPT ![req[o].code] = req[o].sd]
    /\ req' = [req EXCEPT ![o] = Past(o)]
    /\ UNCHANGED <<downtimeVars, booking, job, edit, begun, broken, met>>

\* One UPDATE moves every stop of the shutdown that is still planned.
MoveStops(o) ==
    /\ At(o, "move")
    /\ booking' = [s \in Stop |->
                      IF booking[s].code = req[o].code /\ stop[s].state = "scheduled"
                      THEN [booking[s] EXCEPT !.window = req[o].sd.window]
                      ELSE booking[s]]
    /\ req' = [req EXCEPT ![o] = Past(o)]
    /\ UNCHANGED <<downtimeVars, header, job, edit, begun, broken, met>>

\* shutdownStops, and which of them the request works through.
ListStops(o) ==
    /\ At(o, "stops")
    /\ req' = [req EXCEPT ![o] =
                  [Past(o) EXCEPT !.stops =
                      {s \in Stop : /\ booking[s].code = req[o].code
                                    /\ stop[s].asset \in req[o].about
                                    /\ stop[s].state = IF req[o].op = "finish" THEN "open" ELSE "scheduled"}]]
    /\ UNCHANGED <<downtimeVars, header, booking, job, edit, begun, broken, met>>

\* The next stop of the list, if the log still lets it.  If it does not, the
\* request returns the error: Interrupt.
WorkStop(o) ==
    /\ req[o] # Idle
    /\ \E s \in req[o].stops :
          /\ \/ req[o].op = "start" /\ StartDowntimeEvent(s)
             \/ req[o].op = "finish" /\ EndDowntimeEvent(s)
             \/ req[o].op \in {"update", "cancel"} /\ CancelDowntimeEvent(s)
          /\ req' = [req EXCEPT ![o].stops = @ \ {s}]
    /\ UNCHANGED <<header, booking, job, edit, begun, broken, met>>

\* planStop for one of the machines.
PlanStop(o) ==
    /\ At(o, "plan")
    /\ req[o].plan # {}
    /\ \E s \in Stop :
          /\ stop[s].asset \in req[o].plan
          /\ CreateScheduled(s)
          /\ booking' = [booking EXCEPT ![s] = [code |-> req[o].code, window |-> req[o].sd.window]]
          /\ req' = [req EXCEPT ![o].plan = @ \ {stop[s].asset}]
    /\ UNCHANGED <<header, job, edit, begun, broken, met>>

Planned(o) ==
    /\ At(o, "plan")
    /\ req[o].plan = {}
    /\ req' = [req EXCEPT ![o] = Past(o)]
    /\ UNCHANGED <<downtimeVars, header, booking, job, edit, begun, broken, met>>

\* shutdownWorkOrders, and which of them leave the shutdown.
ListJobs(o) ==
    /\ At(o, "jobs")
    /\ req' = [req EXCEPT ![o] =
                  [Past(o) EXCEPT !.take =
                      {j \in Job : job[j].code = req[o].code /\ job[j].live /\ job[j].asset \in req[o].about}]]
    /\ UNCHANGED <<downtimeVars, header, booking, job, edit, begun, broken, met>>

\* A PATCH of a job reads its row; the jobs to put in come first.  A job that
\* may not be put in ends the request, one that is not in the shutdown is
\* passed over when it is to be taken out.
ReadJob(o) ==
    /\ req[o] # Idle
    /\ req[o].row = {}
    /\ \/ \E j \in req[o].add :
             /\ job[j].asset \in req[o].sd.machines
             /\ job[j].live
             /\ job[j].code \in {NoCode, req[o].code}
             /\ req' = [req EXCEPT ![o].row = {<<j, job[j]>>}]
       \/ /\ req[o].add = {}
          /\ \E j \in req[o].take :
                req' = IF req[o].op = "jobs" /\ job[j].code # req[o].code
                       THEN [req EXCEPT ![o].take = @ \ {j}]
                       ELSE [req EXCEPT ![o].row = {<<j, job[j]>>}]
    /\ UNCHANGED <<downtimeVars, header, booking, job, edit, begun, broken, met>>

\* ... and writes the whole row back with the tag set or cleared.
WriteJob(o) ==
    /\ req[o] # Idle
    /\ \E j \in Job, row \in JobRow :
          /\ <<j, row>> \in req[o].row
          /\ job' = [job EXCEPT ![j] =
                        [row EXCEPT !.code = IF j \in req[o].add THEN req[o].code ELSE NoCode]]
          /\ req' = [req EXCEPT ![o].row = {}, ![o].add = @ \ {j},
                                ![o].take = IF j \in req[o].add THEN @ ELSE @ \ {j}]
    /\ UNCHANGED <<downtimeVars, header, booking, edit, begun, broken, met>>

Return(o) ==
    /\ req[o] # Idle
    /\ Worked(o)
    /\ req[o].rest = <<>>
    /\ req' = [req EXCEPT ![o] = Idle]
    /\ UNCHANGED <<downtimeVars, header, booking, job, edit, begun, broken, met>>

\* The request ends early: a statement failed or was refused, the client or
\* the process went away.
Interrupt(o) ==
    /\ req[o] # Idle
    /\ broken' = broken \cup {req[o].code}
    /\ req' = [req EXCEPT ![o] = Idle]
    /\ UNCHANGED <<downtimeVars, header, booking, job, edit, begun, met>>

-----------------------------------------------------------------------------
(***************************************************************************)
(* What everybody else does meanwhile.                                     *)
(***************************************************************************)
\* The downtime log is open to everyone: a stop of a shutdown can be started,
\* ended, cancelled or deleted on its own, and other stops come and go.
OtherStop(s) ==
    /\ s \in Unplanned \/ booking[s] # NoBooking
    /\ StopNext(s)
    /\ UNCHANGED shutdownOnly

\* CompleteWorkOrder sets the status column alone.
CompleteJob(j) ==
    /\ job[j].live
    /\ job' = [job EXCEPT ![j].live = FALSE]
    /\ UNCHANGED <<downtimeVars, header, booking, req, edit, begun, broken, met>>

\* PatchWorkOrder reads the row and writes it back whole, with any status.
EditRead(e) ==
    /\ edit[e].pc = "new"
    /\ edit' = [edit EXCEPT ![e].pc = "read", ![e].row = job[edit[e].job]]
    /\ UNCHANGED <<downtimeVars, header, booking, job, req, begun, broken, met>>

EditWrite(e, live) ==
    /\ edit[e].pc = "read"
    /\ job' = [job EXCEPT ![edit[e].job] = [edit[e].row EXCEPT !.live = live]]
    /\ edit' = [edit EXCEPT ![e].pc = "done"]
    /\ UNCHANGED <<downtimeVars, header, booking, req, begun, broken, met>>

Plans(o) ==
    \/ \E w \in Window, machines \in SUBSET Asset : CreateShutdown(o, w, machines)
    \/ \E c \in Code, w \in Window, machines \in SUBSET Asset : UpdateShutdown(o, c, w, machines)
    \/ \E c \in Code : \/ AgreeShutdown(o, c)
                       \/ StartShutdown(o, c)
                       \/ FinishShutdown(o, c)
                       \/ CancelShutdown(o, c)
                       \/ \E add, take \in SUBSET Job : SetShutdownJobs(o, c, add, take)

Works(o) ==
    \/ SaveShutdown(o)
    \/ MoveStops(o)
    \/ ListStops(o)
    \/ WorkStop(o)
    \/ PlanStop(o)
    \/ Planned(o)
    \/ ListJobs(o)
    \/ ReadJob(o)
    \/ WriteJob(o)
    \/ Return(o)
    \/ Interrupt(o)

ShutdownNext ==
    \/ \E o \in Operator : Plans(o) \/ Works(o)
    \/ \E s \in Stop : OtherStop(s)
    \/ \E j \in Job : CompleteJob(j)
    \/ \E e \in Edit : EditRead(e) \/ \E live \in BOOLEAN : EditWrite(e, live)

ShutdownSpec == ShutdownInit /\ [][ShutdownNext]_shutdownVars
-----------------------------------------------------------------------------
(***************************************************************************)
(* What a shutdown promises.                                               *)
(***************************************************************************)
Of(c) == {s \in Stop : booking[s].code = c}

\* Two requests about c were never in flight together.
Alone(c) == <<c, c>> \notin met

Resting(c) ==
    c \notin broken /\ Alone(c) /\ \A o \in Operator : req[o] # Idle => req[o].code # c

\* A machine is never in two shutdowns that are planned or running in
\* overlapping windows, unless requests that chose for them overlapped
\* (checkMachines and the save are not one step) or one was written over: it
\* does not matter that others start, end, agree or let go of theirs meanwhile.
NoDoubleBooking ==
    \A c, d \in Code :
        /\ c # d /\ Alone(c) /\ Alone(d) /\ <<c, d>> \notin met
        /\ Status(c) \in {"planned", "in_progress"}
        /\ Status(d) \in {"planned", "in_progress"}
        /\ header[c].window \cap header[d].window # {}
        => header[c].machines \cap header[d].machines = {}

\* The header does not run ahead of the stops, even when a request is cut
\* short: unless two requests about it overlapped, a shutdown that says it
\* started or was cancelled has no stop left waiting to start, and one that
\* says it is finished has no stop running.
StopsFollowHeader ==
    \A c \in Code, s \in Stop :
        s \in Of(c) /\ Alone(c) =>
            /\ Status(c) \in {"in_progress", "completed", "cancelled"} => stop[s].state # "scheduled"
            /\ Status(c) = "completed" => stop[s].state # "open"

\* planned, then in progress, then completed; or planned, then cancelled: a
\* header goes back only after two requests about it overlapped (saveShutdown
\* writes the header that was read).
HeaderForward ==
    [][\A c \in Code :
          \/ <<c, c>> \in met'
          \/ header'[c].status = header[c].status
          \/ <<header[c].status, header'[c].status>> \in
                {<<"none", "planned">>, <<"planned", "in_progress">>,
                 <<"in_progress", "completed">>, <<"planned", "cancelled">>}]_shutdownVars

\* Between requests that ran to their end one by one, the downtime log shows the shutdown
\* as its header has it: a stop still planned is on one of its machines, in its
\* window, and alone there.
LogShowsThePlan ==
    \A c \in Code : Resting(c) =>
        \A s \in Of(c) : stop[s].state = "scheduled" =>
            /\ stop[s].asset \in header[c].machines
            /\ booking[s].window = header[c].window
            /\ \A t \in Of(c) \ {s} : stop[t].state = "scheduled" => stop[t].asset # stop[s].asset

\* A live job nobody edited is tagged only with a shutdown that stops its
\* machine and was not cancelled.
JobsFollowShutdown ==
    \A j \in Job :
        LET c == job[j].code IN
        /\ job[j].live /\ c # NoCode
        /\ Resting(c)
        /\ \A e \in Edit : edit[e].job = j => edit[e].pc # "done"
        => Status(c) # "cancelled" /\ job[j].asset \in header[c].machines
=============================================================================
