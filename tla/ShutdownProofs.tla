--------------------------- MODULE ShutdownProofs ---------------------------
(***************************************************************************)
(* Proofs about shutdowns, for any machines, windows, stops and jobs.      *)
(*                                                                         *)
(* For any number of planners, whose requests race and are cut short: they *)
(* keep the types, and use the downtime log only through its operations.   *)
(* For a shutdown no two requests about which were in flight together,     *)
(* whatever requests about others do meanwhile: what its header, the log   *)
(* and the jobs say of each other.                                         *)
(***************************************************************************)
EXTENDS Shutdown, DowntimeProofs, SequenceTheorems, WellFoundedInduction

\* What a request works through are stops.  Idle has no list.
Lists(r) == r # Idle => "stops" \in DOMAIN r /\ r.stops \subseteq Stop

ListsInv ==
    /\ DOMAIN req = Operator
    /\ \A o \in Operator : Lists(req[o])

\* A request that takes the place of another, or of none.
LEMMA Replaced ==
  ASSUME ListsInv, NEW o \in Operator, NEW request, Lists(request),
         req' = [req EXCEPT ![o] = request]
  PROVE  ListsInv'
  BY DEF ListsInv, Lists

\* Beginning a request touches no stop, and gives it none to work through yet.
LEMMA PlansKeep ==
  ASSUME ListsInv, NEW o \in Operator, Plans(o)
  PROVE  UNCHANGED downtimeVars /\ ListsInv'
<1>1. ASSUME NEW request, Lists(request), Accept(o, request)
      PROVE  UNCHANGED downtimeVars /\ ListsInv'
  BY <1>1, Replaced DEF Accept
<1>2. ASSUME NEW op, NEW c, NEW sd, NEW rest, NEW plan, NEW about, NEW add, NEW take,
             Accept(o, [op |-> op, code |-> c, sd |-> sd, rest |-> rest, stops |-> {}, plan |-> plan,
                        about |-> about, add |-> add, take |-> take, row |-> {}])
      PROVE  UNCHANGED downtimeVars /\ ListsInv'
  BY <1>1, <1>2 DEF Lists
<1>3. ASSUME NEW op, NEW c, NEW sd, NEW rest, Begin(o, op, c, sd, rest)
      PROVE  UNCHANGED downtimeVars /\ ListsInv'
  BY <1>2, <1>3 DEF Begin
<1>4. ASSUME NEW op, NEW c, NEW sd, NEW rest, NEW added, NEW removed,
             BeginChange(o, op, c, sd, rest, added, removed)
      PROVE  UNCHANGED downtimeVars /\ ListsInv'
  BY <1>2, <1>4 DEF BeginChange
<1>5. ASSUME NEW w \in Window, NEW machines \in SUBSET Asset, CreateShutdown(o, w, machines)
      PROVE  UNCHANGED downtimeVars /\ ListsInv'
  BY <1>4, <1>5 DEF CreateShutdown
<1>6. ASSUME NEW c \in Code, NEW w \in Window, NEW machines \in SUBSET Asset,
             UpdateShutdown(o, c, w, machines)
      PROVE  UNCHANGED downtimeVars /\ ListsInv'
  BY <1>4, <1>6 DEF UpdateShutdown
<1>7. ASSUME NEW c \in Code,
             AgreeShutdown(o, c) \/ StartShutdown(o, c) \/ FinishShutdown(o, c) \/ CancelShutdown(o, c)
      PROVE  UNCHANGED downtimeVars /\ ListsInv'
  BY <1>3, <1>7 DEF AgreeShutdown, StartShutdown, FinishShutdown, CancelShutdown
<1>8. ASSUME NEW c \in Code, NEW add \in SUBSET Job, NEW take \in SUBSET Job,
             SetShutdownJobs(o, c, add, take)
      PROVE  UNCHANGED downtimeVars /\ ListsInv'
  BY <1>2, <1>8 DEF SetShutdownJobs
<1> QED
  BY <1>5, <1>6, <1>7, <1>8 DEF Plans

\* A request whose other fields change keeps its list.
LEMMA WorksKeep ==
  ASSUME ListsInv, NEW o \in Operator, Works(o)
  PROVE  [DowntimeNext]_downtimeVars /\ ListsInv'
<1> USE DEF ListsInv, Lists
<1>1. CASE SaveShutdown(o) \/ MoveStops(o) \/ Planned(o)
  <2>1. req[o] # Idle /\ req' = [req EXCEPT ![o] = Past(o)] /\ UNCHANGED downtimeVars
    BY <1>1 DEF SaveShutdown, MoveStops, Planned, At
  <2> QED
    BY <2>1 DEF Past
<1>2. CASE ListStops(o)
  BY <1>2 DEF ListStops, At, Past
<1>3. CASE ListJobs(o)
  BY <1>3 DEF ListJobs, At, Past
<1>4. CASE WorkStop(o)
  <2>1. PICK s \in req[o].stops :
           /\ StartDowntimeEvent(s) \/ EndDowntimeEvent(s) \/ CancelDowntimeEvent(s)
           /\ req' = [req EXCEPT ![o].stops = @ \ {s}]
    BY <1>4 DEF WorkStop
  <2>2. s \in Stop /\ req[o] # Idle
    BY <1>4, <2>1 DEF WorkStop
  <2>3. DowntimeNext
    BY <2>1, <2>2 DEF DowntimeNext, StopNext
  <2> QED
    BY <2>1, <2>2, <2>3
<1>5. CASE PlanStop(o)
  <2>1. PICK s \in Stop :
           /\ CreateScheduled(s)
           /\ req' = [req EXCEPT ![o].plan = @ \ {stop[s].asset}]
    BY <1>5 DEF PlanStop
  <2>2. DowntimeNext /\ req[o] # Idle
    BY <1>5, <2>1 DEF DowntimeNext, StopNext, PlanStop, At
  <2> QED
    BY <2>1, <2>2
<1>6. CASE ReadJob(o)
  BY <1>6 DEF ReadJob
<1>7. CASE WriteJob(o)
  BY <1>7 DEF WriteJob
<1>8. CASE Return(o) \/ Interrupt(o)
  BY <1>8 DEF Return, Interrupt
<1> QED
  BY <1>1, <1>2, <1>3, <1>4, <1>5, <1>6, <1>7, <1>8 DEF Works

LEMMA ShutdownStep ==
  ASSUME ListsInv, [ShutdownNext]_shutdownVars
  PROVE  [DowntimeNext]_downtimeVars /\ ListsInv'
<1>1. ASSUME NEW s \in Stop, OtherStop(s) PROVE DowntimeNext /\ UNCHANGED req
  BY <1>1 DEF OtherStop, DowntimeNext, shutdownOnly
<1>2. ASSUME NEW j \in Job, CompleteJob(j) PROVE UNCHANGED <<downtimeVars, req>>
  BY <1>2 DEF CompleteJob
<1>3. ASSUME NEW e \in Edit, EditRead(e) \/ \E live \in BOOLEAN : EditWrite(e, live)
      PROVE  UNCHANGED <<downtimeVars, req>>
  BY <1>3 DEF EditRead, EditWrite
<1>4. CASE UNCHANGED shutdownVars
  BY <1>4 DEF shutdownVars, shutdownOnly, ListsInv, Lists
<1>5. UNCHANGED req => ListsInv'
  BY DEF ListsInv, Lists
<1> QED
  BY <1>1, <1>2, <1>3, <1>4, <1>5, PlansKeep, WorksKeep DEF ShutdownNext

-----------------------------------------------------------------------------
\* The planner uses the downtime log only through its operations, however its
\* requests race and wherever they are cut short: what happens to stops and machines
\* is a behaviour of the log on its own.
THEOREM PlannersKeepTheLog == ShutdownSpec => DowntimeSpec
<1>1. ShutdownInit => DowntimeInit /\ ListsInv
  BY DEF ShutdownInit, ListsInv, Lists
<1> QED
  BY <1>1, ShutdownStep, PTL DEF ShutdownSpec, DowntimeSpec

\* So under any shutdowns a machine whose stops have all been ended is idle, one
\* under a live stop is down, and the messages tell each stop's life.
THEOREM ShutMachinesComeBack ==
  ShutdownSpec => [](MessagesFollowLifecycle /\ LiveStopMeansDown /\ MachinesComeBack)
  BY PlannersKeepTheLog, LogIsTold, MachinesFollowTheLog, PTL

Phase == {"save", "move", "stops", "plan", "jobs"}

LEMMA LeastSuffix ==
  ASSUME NEW T, T \subseteq 1..MaxSuffix, T # {}
  PROVE  Min(T) \in T /\ \A y \in T : Min(T) <= y
<1>1. T \subseteq Nat
  OBVIOUS
<1>2. \E x \in T : \A y \in T : <<y, x>> \notin OpToRel(<, Nat)
  BY <1>1, NatLessThanWellFounded, WFMin
<1>3. PICK x \in T : \A y \in T : <<y, x>> \notin OpToRel(<, Nat)
  BY <1>2
<1>4. \A y \in T : ~(y < x)
  BY <1>1, <1>3 DEF OpToRel
<1>5. \A y \in T : x <= y
  BY <1>1, <1>4
<1> QED
  BY <1>5 DEF Min

\* How the statements of a request are put together.
LEMMA Joined ==
  /\ \A x, y : <<x>> \o <<y>> = <<x, y>>
  /\ \A w, x, y : <<w>> \o <<x, y>> = <<w, x, y>>
  /\ \A v, w, x, y : <<v, w>> \o <<x, y>> = <<v, w, x, y>>
  /\ \A w, x, y, z : <<w, x, y>> \o <<z>> = <<w, x, y, z>>
  /\ \A v, w, x, y, z : <<v, w, x, y>> \o <<z>> = <<v, w, x, y, z>>
<1>1. ASSUME NEW x, NEW y PROVE <<x>> \o <<y>> = <<x, y>>
  <2> DEFINE S == {x, y}
  <2>1. <<x>> \o <<y>> \in Seq(S) /\ <<x, y>> \in Seq(S)
    OBVIOUS
  <2>2. Len(<<x>> \o <<y>>) = 2 /\ Len(<<x, y>>) = 2
    OBVIOUS
  <2>3. \A i \in 1..2 : (<<x>> \o <<y>>)[i] = <<x, y>>[i]
    BY \A i \in 1..2 : i \in {1, 2}
  <2> QED
    BY <2>1, <2>2, <2>3, SeqEqual
<1>2. ASSUME NEW w, NEW x, NEW y PROVE <<w>> \o <<x, y>> = <<w, x, y>>
  <2> DEFINE S == {w, x, y}
  <2>1. <<w>> \o <<x, y>> \in Seq(S) /\ <<w, x, y>> \in Seq(S)
    OBVIOUS
  <2>2. Len(<<w>> \o <<x, y>>) = 3 /\ Len(<<w, x, y>>) = 3
    OBVIOUS
  <2>3. \A i \in 1..3 : (<<w>> \o <<x, y>>)[i] = <<w, x, y>>[i]
    BY \A i \in 1..3 : i \in {1, 2, 3}
  <2> QED
    BY <2>1, <2>2, <2>3, SeqEqual
<1>3. ASSUME NEW v, NEW w, NEW x, NEW y PROVE <<v, w>> \o <<x, y>> = <<v, w, x, y>>
  <2> DEFINE S == {v, w, x, y}
  <2>1. <<v, w>> \o <<x, y>> \in Seq(S) /\ <<v, w, x, y>> \in Seq(S)
    OBVIOUS
  <2>2. Len(<<v, w>> \o <<x, y>>) = 4 /\ Len(<<v, w, x, y>>) = 4
    OBVIOUS
  <2>3. \A i \in 1..4 : (<<v, w>> \o <<x, y>>)[i] = <<v, w, x, y>>[i]
    BY \A i \in 1..4 : i \in {1, 2, 3, 4}
  <2> QED
    BY <2>1, <2>2, <2>3, SeqEqual
<1>4. ASSUME NEW w, NEW x, NEW y, NEW z PROVE <<w, x, y>> \o <<z>> = <<w, x, y, z>>
  <2> DEFINE S == {w, x, y, z}
  <2>1. <<w, x, y>> \o <<z>> \in Seq(S) /\ <<w, x, y, z>> \in Seq(S)
    OBVIOUS
  <2>2. Len(<<w, x, y>> \o <<z>>) = 4 /\ Len(<<w, x, y, z>>) = 4
    OBVIOUS
  <2>3. \A i \in 1..4 : (<<w, x, y>> \o <<z>>)[i] = <<w, x, y, z>>[i]
    BY \A i \in 1..4 : i \in {1, 2, 3, 4}
  <2> QED
    BY <2>1, <2>2, <2>3, SeqEqual
<1>5. ASSUME NEW v, NEW w, NEW x, NEW y, NEW z PROVE <<v, w, x, y>> \o <<z>> = <<v, w, x, y, z>>
  <2> DEFINE S == {v, w, x, y, z}
  <2>1. <<v, w, x, y>> \o <<z>> \in Seq(S) /\ <<v, w, x, y, z>> \in Seq(S)
    OBVIOUS
  <2>2. Len(<<v, w, x, y>> \o <<z>>) = 5 /\ Len(<<v, w, x, y, z>>) = 5
    OBVIOUS
  <2>3. \A i \in 1..5 : (<<v, w, x, y>> \o <<z>>)[i] = <<v, w, x, y, z>>[i]
    BY \A i \in 1..5 : i \in {1, 2, 3, 4, 5}
  <2> QED
    BY <2>1, <2>2, <2>3, SeqEqual
<1> QED
  BY <1>1, <1>2, <1>3, <1>4, <1>5

\* The statements of an update.
LEMMA UpdateRest ==
  ASSUME NEW moving \in BOOLEAN, NEW letting \in BOOLEAN, NEW rest,
         rest = <<"save">> \o If(moving, "move") \o <<"stops", "plan">> \o If(letting, "jobs")
  PROVE  /\ moving /\ letting => rest = <<"save", "move", "stops", "plan", "jobs">>
         /\ ~moving /\ letting => rest = <<"save", "stops", "plan", "jobs">>
         /\ moving /\ ~letting => rest = <<"save", "move", "stops", "plan">>
         /\ ~moving /\ ~letting => rest = <<"save", "stops", "plan">>
<1>1. /\ <<"save">> \o <<"move">> = <<"save", "move">>
      /\ <<"save", "move">> \o <<"stops", "plan">> = <<"save", "move", "stops", "plan">>
      /\ <<"save">> \o <<"stops", "plan">> = <<"save", "stops", "plan">>
      /\ <<"save", "move", "stops", "plan">> \o <<"jobs">> = <<"save", "move", "stops", "plan", "jobs">>
      /\ <<"save", "stops", "plan">> \o <<"jobs">> = <<"save", "stops", "plan", "jobs">>
  BY Joined
<1>2. /\ <<"save">> \o <<>> = <<"save">>
      /\ <<"save", "move", "stops", "plan">> \o <<>> = <<"save", "move", "stops", "plan">>
      /\ <<"save", "stops", "plan">> \o <<>> = <<"save", "stops", "plan">>
  OBVIOUS
<1> QED
  BY <1>1, <1>2 DEF If

-----------------------------------------------------------------------------
LEMMA RestsTyped ==
  /\ {<<"save", "plan">>, <<"save">>, <<"stops", "save">>, <<"stops", "jobs", "save">>, <<>>} \subseteq Seq(Phase)
  /\ \A m, l \in BOOLEAN :
        <<"save">> \o If(m, "move") \o <<"stops", "plan">> \o If(l, "jobs") \in Seq(Phase)
<1>1. {<<"save", "plan">>, <<"save">>, <<"stops", "save">>, <<"stops", "jobs", "save">>, <<>>} \subseteq Seq(Phase)
  BY DEF Phase
<1>2. /\ <<"save", "move", "stops", "plan", "jobs">> \in Seq(Phase)
      /\ <<"save", "stops", "plan", "jobs">> \in Seq(Phase)
      /\ <<"save", "move", "stops", "plan">> \in Seq(Phase)
      /\ <<"save", "stops", "plan">> \in Seq(Phase)
  BY DEF Phase
<1> QED
  BY <1>1, <1>2, UpdateRest

LEMMA BeginTyped ==
  ASSUME ShutdownTypeOK, NEW o \in Operator, NEW request \in Request, Accept(o, request)
  PROVE  ShutdownTypeOK'
<1>1. begun' \in 0..MaxRequests
  BY MaxRequestsAssumption DEF Accept, ShutdownTypeOK
<1>2. req' \in [Operator -> Request \cup {Idle}]
  BY DEF Accept, ShutdownTypeOK
<1>3. PICK others : /\ others = {req[p].code : p \in {p \in Operator : InTheWay(request, req[p])}}
                    /\ met' = met \cup ({request.code} \X others) \cup (others \X {request.code})
  BY DEF Accept
<1>4. request.code \in Code /\ others \subseteq Code
  <2>1. \A p \in Operator : InTheWay(request, req[p]) => req[p] \in Request
    BY DEF InTheWay, ShutdownTypeOK
  <2>2. \A r \in Request : r.code \in Code
    BY DEF Request
  <2> QED
    BY <1>3, <2>1, <2>2
<1>5. met' \subseteq Code \X Code
  BY <1>3, <1>4 DEF ShutdownTypeOK
<1> QED
  BY <1>1, <1>2, <1>5 DEF Accept, ShutdownTypeOK

LEMMA FreshTyped ==
  ASSUME NEW op \in {"create", "update", "agree", "start", "finish", "cancel", "jobs"},
         NEW c \in Code, NEW sd \in Header, NEW rest \in Seq(Phase), NEW plan \in SUBSET Asset,
         NEW about \in SUBSET Asset, NEW add \in SUBSET Job, NEW take \in SUBSET Job
  PROVE  [op |-> op, code |-> c, sd |-> sd, rest |-> rest, stops |-> {}, plan |-> plan,
          about |-> about, add |-> add, take |-> take, row |-> {}] \in Request
  BY DEF Request, Phase

LEMMA NextCodeTyped ==
  ASSUME NEW w \in Window, Unused(Start(w)) # {}
  PROVE  NextCode(Start(w)) \in Code /\ Status(NextCode(Start(w))) = "none"
<1>1. Unused(Start(w)) \subseteq 1..MaxSuffix
  BY DEF Unused
<1>2. Min(Unused(Start(w))) \in Unused(Start(w))
  BY <1>1, LeastSuffix
<1>3. PICK i \in 1..MaxSuffix : i = Min(Unused(Start(w))) /\ Status(<<Start(w), i>>) = "none"
  BY <1>2 DEF Unused
<1> QED
  BY <1>3 DEF NextCode, Code

LEMMA PlansTyped ==
  ASSUME ShutdownTypeOK, NEW o \in Operator, Plans(o)
  PROVE  ShutdownTypeOK'
<1> USE DEF ShutdownTypeOK
<1>1. ASSUME NEW w \in Window, NEW machines \in SUBSET Asset, CreateShutdown(o, w, machines)
      PROVE  ShutdownTypeOK'
  <2> DEFINE sd == [status |-> "planned", machines |-> machines, window |-> w, agreed |-> {}]
             c == NextCode(Start(w))
  <2>1. c \in Code /\ sd \in Header
    BY <1>1, NextCodeTyped DEF CreateShutdown, Header, HeaderStatus
  <2>2. <<"save", "plan">> \in Seq(Phase)
    BY RestsTyped
  <2>3. BeginChange(o, "create", c, sd, <<"save", "plan">>, machines, {})
    BY <1>1 DEF CreateShutdown
  <2> HIDE DEF sd, c
  <2> QED
    BY <2>1, <2>2, <2>3, FreshTyped, BeginTyped DEF BeginChange
<1>2. ASSUME NEW c \in Code, NEW w \in Window, NEW machines \in SUBSET Asset,
             UpdateShutdown(o, c, w, machines)
      PROVE  ShutdownTypeOK'
  <2> DEFINE sd == [header[c] EXCEPT !.window = w, !.machines = machines]
             removed == header[c].machines \ machines
             rest == <<"save">> \o If(w # header[c].window, "move") \o <<"stops", "plan">>
                                \o If(removed # {}, "jobs")
             added == machines \ header[c].machines
  <2>1. sd \in Header /\ added \in SUBSET Asset /\ removed \in SUBSET Asset
    BY DEF Header
  <2>2. rest \in Seq(Phase)
    BY RestsTyped
  <2>3. BeginChange(o, "update", c, sd, rest, added, removed)
    BY <1>2 DEF UpdateShutdown
  <2> HIDE DEF sd, removed, rest, added
  <2> QED
    BY <2>1, <2>2, <2>3, FreshTyped, BeginTyped DEF BeginChange
<1>3. ASSUME NEW c \in Code,
             AgreeShutdown(o, c) \/ StartShutdown(o, c) \/ FinishShutdown(o, c) \/ CancelShutdown(o, c)
      PROVE  ShutdownTypeOK'
  <2>1. PICK op \in {"agree", "start", "finish", "cancel"}, sd \in Header, rest \in Seq(Phase) :
           Begin(o, op, c, sd, rest)
    <3>1. header[c] \in Header
      OBVIOUS
    <3>2. [header[c] EXCEPT !.agreed = header[c].window] \in Header
      BY <3>1 DEF Header
    <3>3. \A s \in HeaderStatus : [header[c] EXCEPT !.status = s] \in Header
      BY <3>1 DEF Header
    <3>4. "in_progress" \in HeaderStatus /\ "completed" \in HeaderStatus /\ "cancelled" \in HeaderStatus
      BY DEF HeaderStatus
    <3>5. /\ AgreeShutdown(o, c) => Begin(o, "agree", c, [header[c] EXCEPT !.agreed = header[c].window], <<"save">>)
          /\ StartShutdown(o, c) => Begin(o, "start", c, [header[c] EXCEPT !.status = "in_progress"], <<"stops", "save">>)
          /\ FinishShutdown(o, c) => Begin(o, "finish", c, [header[c] EXCEPT !.status = "completed"], <<"stops", "save">>)
          /\ CancelShutdown(o, c) => Begin(o, "cancel", c, [header[c] EXCEPT !.status = "cancelled"],
                                           <<"stops", "jobs", "save">>)
      BY DEF AgreeShutdown, StartShutdown, FinishShutdown, CancelShutdown
    <3> QED
      BY <1>3, <3>2, <3>3, <3>4, <3>5, RestsTyped
  <2> QED
    BY <2>1, FreshTyped, BeginTyped DEF Begin
<1>4. ASSUME NEW c \in Code, NEW add \in SUBSET Job, NEW take \in SUBSET Job,
             SetShutdownJobs(o, c, add, take)
      PROVE  ShutdownTypeOK'
  <2>1. header[c] \in Header /\ <<>> \in Seq(Phase)
    OBVIOUS
  <2> QED
    BY <1>4, <2>1, FreshTyped, BeginTyped DEF SetShutdownJobs
<1> QED
  BY <1>1, <1>2, <1>3, <1>4 DEF Plans

LEMMA WorksTyped ==
  ASSUME DowntimeTypeOK, ShutdownTypeOK, NEW o \in Operator, Works(o)
  PROVE  ShutdownTypeOK'
<1> USE DEF ShutdownTypeOK
<1>1. req[o] # Idle
  BY DEF Works, SaveShutdown, MoveStops, ListStops, WorkStop, PlanStop, Planned, ListJobs, ReadJob,
         WriteJob, Return, Interrupt, At
<1>2. PICK r \in Request : req[o] = r
  BY <1>1
<1>3. ASSUME NEW request \in Request \cup {Idle}, req' = [req EXCEPT ![o] = request]
      PROVE  req' \in [Operator -> Request \cup {Idle}]
  BY <1>3
<1>4. r.rest # <<>> => Past(o) \in Request
  <2>1. r.rest # <<>> => Tail(r.rest) \in Seq(Phase)
    <3>1. r.rest \in Seq(Phase)
      BY DEF Request, Phase
    <3> QED
      BY <3>1
  <2>2. \A rest \in Seq(Phase) : [r EXCEPT !.rest = rest] \in Request
    BY DEF Request, Phase
  <2> QED
    BY <1>2, <2>1, <2>2 DEF Past
<1>5. CASE SaveShutdown(o)
  <2>1. req' = [req EXCEPT ![o] = Past(o)] /\ Past(o) \in Request
    BY <1>2, <1>4, <1>5 DEF SaveShutdown, At
  <2>2. header' \in [Code -> Header]
    BY <1>2, <1>5 DEF SaveShutdown, Request
  <2> QED
    BY <1>3, <1>5, <2>1, <2>2 DEF SaveShutdown
<1>6. CASE MoveStops(o)
  <2>1. req' = [req EXCEPT ![o] = Past(o)] /\ Past(o) \in Request
    BY <1>2, <1>4, <1>6 DEF MoveStops, At
  <2>2. booking' \in [Stop -> Booking]
    BY <1>2, <1>6 DEF MoveStops, Request, Header, Booking
  <2> QED
    BY <1>3, <1>6, <2>1, <2>2 DEF MoveStops
<1>7. CASE ListStops(o)
  <2>1. PICK list \in SUBSET Stop : req' = [req EXCEPT ![o] = [Past(o) EXCEPT !.stops = list]]
    BY <1>7 DEF ListStops
  <2>2. Past(o) \in Request
    BY <1>2, <1>4, <1>7 DEF ListStops, At
  <2>3. [Past(o) EXCEPT !.stops = list] \in Request
    BY <2>2 DEF Request
  <2> QED
    BY <1>3, <1>7, <2>1, <2>3 DEF ListStops
<1>8. CASE WorkStop(o)
  <2>1. PICK s \in r.stops : req' = [req EXCEPT ![o].stops = @ \ {s}]
    BY <1>2, <1>8 DEF WorkStop
  <2>2. [r EXCEPT !.stops = @ \ {s}] \in Request
    BY DEF Request
  <2>3. req' = [req EXCEPT ![o] = [r EXCEPT !.stops = @ \ {s}]]
    BY <1>2, <2>1
  <2> QED
    BY <1>3, <1>8, <2>2, <2>3 DEF WorkStop
<1>9. CASE PlanStop(o)
  <2>1. PICK s \in Stop : /\ req' = [req EXCEPT ![o].plan = @ \ {stop[s].asset}]
                          /\ booking' = [booking EXCEPT ![s] = [code |-> r.code, window |-> r.sd.window]]
    BY <1>2, <1>9 DEF PlanStop
  <2>2. [r EXCEPT !.plan = @ \ {stop[s].asset}] \in Request
    BY DEF Request
  <2>3. req' = [req EXCEPT ![o] = [r EXCEPT !.plan = @ \ {stop[s].asset}]]
    BY <1>2, <2>1
  <2>4. [code |-> r.code, window |-> r.sd.window] \in Booking
    BY DEF Request, Header, Booking, Tag
  <2> QED
    BY <1>3, <1>9, <2>1, <2>2, <2>3, <2>4 DEF PlanStop
<1>10. CASE Planned(o)
  <2>1. req' = [req EXCEPT ![o] = Past(o)] /\ Past(o) \in Request
    BY <1>2, <1>4, <1>10 DEF Planned, At
  <2> QED
    BY <1>3, <1>10, <2>1 DEF Planned
<1>11. CASE ListJobs(o)
  <2>1. PICK list \in SUBSET Job : req' = [req EXCEPT ![o] = [Past(o) EXCEPT !.take = list]]
    BY <1>11 DEF ListJobs
  <2>2. Past(o) \in Request
    BY <1>2, <1>4, <1>11 DEF ListJobs, At
  <2>3. [Past(o) EXCEPT !.take = list] \in Request
    BY <2>2 DEF Request
  <2> QED
    BY <1>3, <1>11, <2>1, <2>3 DEF ListJobs
<1>12. CASE ReadJob(o)
  <2>1. ASSUME NEW j \in Job
        PROVE  [r EXCEPT !.row = {<<j, job[j]>>}] \in Request /\ [r EXCEPT !.take = @ \ {j}] \in Request
    <3>1. {<<j, job[j]>>} \in SUBSET (Job \X JobRow) /\ r.take \ {j} \in SUBSET Job
      BY DEF Request
    <3>2. \A row \in SUBSET (Job \X JobRow) : [r EXCEPT !.row = row] \in Request
      BY DEF Request
    <3>3. \A take \in SUBSET Job : [r EXCEPT !.take = take] \in Request
      BY DEF Request
    <3> QED
      BY <3>1, <3>2, <3>3
  <2>2. PICK j \in Job : \/ req' = [req EXCEPT ![o] = [r EXCEPT !.row = {<<j, job[j]>>}]]
                         \/ req' = [req EXCEPT ![o] = [r EXCEPT !.take = @ \ {j}]]
    <3>1. r.add \subseteq Job /\ r.take \subseteq Job
      BY DEF Request
    <3> QED
      BY <1>2, <1>12, <3>1 DEF ReadJob
  <2>3. req' \in [Operator -> Request \cup {Idle}]
    BY <1>3, <2>1, <2>2
  <2> QED
    BY <1>12, <2>3 DEF ReadJob
<1>13. CASE WriteJob(o)
  <2>1. PICK j \in Job, row \in JobRow :
           /\ job' = [job EXCEPT ![j] = [row EXCEPT !.code = IF j \in r.add THEN r.code ELSE NoCode]]
           /\ req' = [req EXCEPT ![o].row = {}, ![o].add = @ \ {j},
                                 ![o].take = IF j \in req[o].add THEN @ ELSE @ \ {j}]
    BY <1>2, <1>13 DEF WriteJob
  <2> DEFINE take == IF j \in r.add THEN r.take ELSE r.take \ {j}
  <2>2. [row EXCEPT !.code = IF j \in r.add THEN r.code ELSE NoCode] \in JobRow
    BY DEF JobRow, Request, Tag
  <2>3. [r EXCEPT !.row = {}, !.add = @ \ {j}, !.take = take] \in Request
    BY DEF Request
  <2>4. req' = [req EXCEPT ![o] = [r EXCEPT !.row = {}, !.add = @ \ {j}, !.take = take]]
    BY <1>2, <2>1
  <2>5. req' \in [Operator -> Request \cup {Idle}]
    BY <1>3, <2>3, <2>4
  <2> QED
    BY <1>13, <2>1, <2>2, <2>5 DEF WriteJob
<1>14. CASE Return(o) \/ Interrupt(o)
  <2>1. req' = [req EXCEPT ![o] = Idle] /\ broken' \subseteq Code
    BY <1>2, <1>14 DEF Return, Interrupt, Request
  <2> QED
    BY <1>3, <1>14, <2>1 DEF Return, Interrupt
<1> QED
  BY <1>5, <1>6, <1>7, <1>8, <1>9, <1>10, <1>11, <1>12, <1>13, <1>14 DEF Works

LEMMA OthersTyped ==
  ASSUME ShutdownTypeOK,
         \/ \E s \in Stop : OtherStop(s)
         \/ \E j \in Job : CompleteJob(j)
         \/ \E e \in Edit : EditRead(e) \/ \E live \in BOOLEAN : EditWrite(e, live)
         \/ UNCHANGED shutdownVars
  PROVE  ShutdownTypeOK'
<1> USE DEF ShutdownTypeOK
<1>1. CASE (\E s \in Stop : OtherStop(s)) \/ UNCHANGED shutdownVars
  BY <1>1 DEF OtherStop, shutdownOnly, shutdownVars
<1>2. ASSUME NEW j \in Job, CompleteJob(j) PROVE ShutdownTypeOK'
  BY <1>2 DEF CompleteJob, JobRow
<1>3. ASSUME NEW e \in Edit, EditRead(e) PROVE ShutdownTypeOK'
  <2>1. job[edit[e].job] \in JobRow
    BY DEF EditRow
  <2> QED
    BY <1>3, <2>1 DEF EditRead, EditRow
<1>4. ASSUME NEW e \in Edit, NEW live \in BOOLEAN, EditWrite(e, live) PROVE ShutdownTypeOK'
  <2>1. [edit[e].row EXCEPT !.live = live] \in JobRow
    BY DEF EditRow, JobRow
  <2> QED
    BY <1>4, <2>1 DEF EditWrite, EditRow
<1> QED
  BY <1>1, <1>2, <1>3, <1>4

LEMMA InitTyped == ShutdownInit => LogInv /\ ShutdownTypeOK
<1> SUFFICES ASSUME ShutdownInit PROVE LogInv /\ ShutdownTypeOK
  OBVIOUS
<1>1. LogInv
  BY InitLog DEF ShutdownInit
<1>2. header \in [Code -> Header]
  BY DEF ShutdownInit, NoHeader, Header, HeaderStatus
<1>3. booking \in [Stop -> Booking]
  BY DEF ShutdownInit, NoBooking, Booking, Tag
<1>4. job \in [Job -> JobRow]
  BY DEF ShutdownInit, JobRow, Tag
<1>5. edit \in [Edit -> EditRow]
  BY <1>4 DEF ShutdownInit, EditRow
<1> QED
  BY <1>1, <1>2, <1>3, <1>4, <1>5, MaxRequestsAssumption DEF ShutdownInit, ShutdownTypeOK

LEMMA TypedStep ==
  ASSUME LogInv, ShutdownTypeOK, [ShutdownNext]_shutdownVars
  PROVE  LogInv' /\ ShutdownTypeOK'
<1>1. ListsInv
  BY DEF ListsInv, Lists, ShutdownTypeOK, Request
<1>2. LogInv'
  BY <1>1, ShutdownStep, LogStep
<1>3. ShutdownTypeOK'
  BY PlansTyped, WorksTyped, OthersTyped DEF ShutdownNext, LogInv
<1> QED
  BY <1>2, <1>3

\* For any planners, windows and jobs, racing and cut short: a request works
\* through stops, machines and jobs, a stop carries a shutdown's code and one of
\* its windows, and a header says one of five things.
THEOREM ShutdownsStayTyped == ShutdownSpec => []ShutdownTypeOK
<1>1. ShutdownSpec => [](LogInv /\ ShutdownTypeOK)
  BY InitTyped, TypedStep, PTL DEF ShutdownSpec
<1> QED
  BY <1>1, PTL

-----------------------------------------------------------------------------
(***************************************************************************)
(* Requests that are not in each other's way.  Then what a request has     *)
(* written so far follows from its kind and the statement it is at, and    *)
(* nobody else writes the header it read.                                  *)
(***************************************************************************)
\* The statement at the head of what is left.
Mark(rest) == IF rest = <<>> THEN "return" ELSE Head(rest)
Stage(o)   == Mark(req[o].rest)

\* An update that takes machines out, one that takes none, one that stays in
\* its window.
Letting == {<<"save", "move", "stops", "plan", "jobs">>, <<"save", "stops", "plan", "jobs">>,
            <<"move", "stops", "plan", "jobs">>, <<"stops", "plan", "jobs">>, <<"plan", "jobs">>, <<"jobs">>}
Keeping == {<<"save", "move", "stops", "plan">>, <<"save", "stops", "plan">>,
            <<"move", "stops", "plan">>, <<"stops", "plan">>, <<"plan">>}
Staying == {<<"save", "stops", "plan", "jobs">>, <<"save", "stops", "plan">>}

\* What may be left of each request.
Course  == [create |-> {<<"save", "plan">>, <<"plan">>, <<>>},
            update |-> Letting \cup Keeping \cup {<<>>},
            agree  |-> {<<"save">>, <<>>},
            start  |-> {<<"stops", "save">>, <<"save">>, <<>>},
            finish |-> {<<"stops", "save">>, <<"save">>, <<>>},
            cancel |-> {<<"stops", "jobs", "save">>, <<"jobs", "save">>, <<"save">>, <<>>},
            jobs   |-> {<<>>}]

\* Which statement follows which.
Follow == [create |-> {<<"save", "plan">>, <<"plan", "return">>},
           update |-> {<<"save", "move">>, <<"save", "stops">>, <<"move", "stops">>, <<"stops", "plan">>,
                       <<"plan", "jobs">>, <<"plan", "return">>, <<"jobs", "return">>},
           agree  |-> {<<"save", "return">>},
           start  |-> {<<"stops", "save">>, <<"save", "return">>},
           finish |-> {<<"stops", "save">>, <<"save", "return">>},
           cancel |-> {<<"stops", "jobs">>, <<"jobs", "save">>, <<"save", "return">>},
           jobs   |-> {}]

\* The status a request needs, and the one it writes.
From == [create |-> "none", update |-> "planned", agree |-> "planned", start |-> "planned",
         finish |-> "in_progress", cancel |-> "planned"]
To   == [create |-> "planned", update |-> "planned", agree |-> "planned", start |-> "in_progress",
         finish |-> "completed", cancel |-> "cancelled"]

Standing == {"planned", "in_progress"}
Reshapes(o) == req[o].op \in {"create", "update"}
Saved(o) == \/ req[o].op = "jobs"
            \/ Stage(o) = "return"
            \/ Reshapes(o) /\ Stage(o) # "save"

NoClash(c, sd) ==
    \A d \in Code \ {c} :
        /\ Alone(d) /\ <<c, d>> \notin met
        /\ Status(d) \in Standing /\ header[d].window \cap sd.window # {}
        => header[d].machines \cap sd.machines = {}

\* The header a request carries is the one it will write.
Carries(o) ==
    /\ req[o].rest \in Course[req[o].op]
    /\ req[o].sd.status = IF req[o].op = "jobs" THEN req[o].sd.status ELSE To[req[o].op]
    /\ req[o].op = "jobs" => req[o].sd.status \in Standing
    /\ Saved(o) \/ req[o].op # "create" => Status(req[o].code) # "none"
    /\ ~Reshapes(o) => req[o].about = Asset

\* It is what the factory holds: the one it wrote, or the one it read, changed.
Matches(o) ==
    /\ Saved(o) => header[req[o].code] = req[o].sd
    /\ ~Saved(o) => /\ Status(req[o].code) = From[req[o].op]
                    /\ Reshapes(o) => NoClash(req[o].code, req[o].sd)
    /\ ~Reshapes(o) => /\ req[o].sd.machines = header[req[o].code].machines
                       /\ req[o].sd.window = header[req[o].code].window

\* What it listed is all there is to start, to end or to cancel.
WorksThrough(o) ==
    /\ \/ req[o].op = "start" /\ Stage(o) = "save"
       \/ req[o].op = "cancel" /\ Stage(o) \in {"jobs", "save"}
       => \A s \in Of(req[o].code) : stop[s].state = "scheduled" => s \in req[o].stops
    /\ req[o].op = "finish" /\ Stage(o) = "save"
       => \A s \in Of(req[o].code) : stop[s].state = "open" => s \in req[o].stops

\* A code nothing was saved under has no stop, and a row not written no code.
Blank ==
    /\ \A c \in Code : Status(c) = "none" => header[c] = NoHeader /\ Of(c) = {}
    /\ \A s \in Stop : stop[s].state = "none" => booking[s] = NoBooking

\* Requests in flight that are in each other's way have met.
Even == \A c, d : <<c, d>> \in met => <<d, c>> \in met
MetInv ==
    /\ Even
    /\ \A o, p \in Operator :
          o # p /\ req[o] # Idle /\ InTheWay(req[o], req[p]) => <<req[o].code, req[p].code>> \in met

Knows(o) == Carries(o) /\ (Alone(req[o].code) => Matches(o) /\ WorksThrough(o))

HeadersInv ==
    /\ MetInv
    /\ NoDoubleBooking
    /\ StopsFollowHeader
    /\ Blank
    /\ \A o \in Operator : req[o] # Idle => Knows(o)

-----------------------------------------------------------------------------
(***************************************************************************)
(* What a request that was not cut short has made of the log.              *)
(***************************************************************************)
About(c)   == {o \in Operator : req[o] # Idle /\ req[o].code = c}
Waiting(c) == {s \in Of(c) : stop[s].state = "scheduled"}

Shows(c) == \A s \in Waiting(c) :
                stop[s].asset \in header[c].machines /\ booking[s].window = header[c].window
Lone(c)  == \A s, t \in Waiting(c) : stop[s].asset = stop[t].asset => s = t

\* The machines a change adds have no stop until it plans theirs; those it
\* removes lose theirs, and their jobs, before it returns.
Changes(o) ==
    /\ req[o].plan \subseteq req[o].sd.machines
    /\ req[o].op = "create" => req[o].about = {}
    /\ Stage(o) = "save" => header[req[o].code].machines \subseteq
                                (req[o].sd.machines \ req[o].plan) \cup req[o].about
    /\ req[o].rest \in Staying => req[o].sd.window = header[req[o].code].window
    /\ req[o].rest \in Keeping => req[o].about = {}

Replanned(o) ==
    \A s \in Waiting(req[o].code) :
        /\ Stage(o) \in {"save", "move", "stops"} =>
              stop[s].asset \in (req[o].sd.machines \ req[o].plan) \cup req[o].about
        /\ Stage(o) = "plan" => stop[s].asset \in req[o].sd.machines \ req[o].plan \/ s \in req[o].stops
        /\ Stage(o) \in {"jobs", "return"} => stop[s].asset \in req[o].sd.machines
        /\ Stage(o) = "save" => booking[s].window = header[req[o].code].window
        /\ Stage(o) \notin {"save", "move"} => booking[s].window = req[o].sd.window

\* What the log shows of one shutdown.
PlanOf(c) ==
    /\ Lone(c)
    /\ About(c) = {} => Shows(c)
    /\ \A o \in About(c) : IF Reshapes(o) THEN Replanned(o) ELSE Shows(c)

PlanInv ==
    /\ \A o \in Operator : req[o] # Idle /\ Reshapes(o) /\ Alone(req[o].code) => Changes(o)
    /\ \A c \in Code \ broken : Alone(c) => PlanOf(c)

-----------------------------------------------------------------------------
\* What the last statement of an update tells.
LEMMA Lasts ==
  /\ \A x \in Letting : x # <<>> /\ x[Len(x)] = "jobs"
  /\ \A x \in Keeping : x # <<>> /\ x[Len(x)] = "plan"
  /\ \A x \in Staying : x # <<>> /\ Mark(x) = "save" /\ Mark(Tail(x)) = "stops"
  BY DEF Letting, Keeping, Staying, Mark

LEMMA Onwards ==
  ASSUME NEW op \in DOMAIN Course, NEW rest \in Course[op], rest # <<>>
  PROVE  /\ Tail(rest) \in Course[op]
         /\ <<Mark(rest), Mark(Tail(rest))>> \in Follow[op]
         /\ op = "update" /\ Tail(rest) \in Keeping => rest \in Keeping
         /\ op = "update" /\ Mark(rest) = "save" /\ Mark(Tail(rest)) = "stops" => rest \in Staying
         /\ op = "update" /\ Mark(rest) = "plan" /\ Mark(Tail(rest)) = "return" => rest \in Keeping
<1>1. CASE op # "update"
  <2>1. rest \in {<<"plan">>, <<"save">>, <<"save", "plan">>, <<"stops", "save">>, <<"jobs", "save">>, <<"stops", "jobs", "save">>}
    BY <1>1 DEF Course
  <2>2. CASE rest = <<"plan">>
    <3>1. Tail(rest) = <<>> /\ Mark(rest) = "plan" /\ Mark(Tail(rest)) = "return"
      BY <2>2 DEF Mark
    <3> QED
      BY <1>1, <2>2, <3>1 DEF Course, Follow
  <2>3. CASE rest = <<"save">>
    <3>1. Tail(rest) = <<>> /\ Mark(rest) = "save" /\ Mark(Tail(rest)) = "return"
      BY <2>3 DEF Mark
    <3> QED
      BY <1>1, <2>3, <3>1 DEF Course, Follow
  <2>4. CASE rest = <<"save", "plan">>
    <3>1. Tail(rest) = <<"plan">> /\ Mark(rest) = "save" /\ Mark(Tail(rest)) = "plan"
      BY <2>4 DEF Mark
    <3> QED
      BY <1>1, <2>4, <3>1 DEF Course, Follow
  <2>5. CASE rest = <<"stops", "save">>
    <3>1. Tail(rest) = <<"save">> /\ Mark(rest) = "stops" /\ Mark(Tail(rest)) = "save"
      BY <2>5 DEF Mark
    <3> QED
      BY <1>1, <2>5, <3>1 DEF Course, Follow
  <2>6. CASE rest = <<"jobs", "save">>
    <3>1. Tail(rest) = <<"save">> /\ Mark(rest) = "jobs" /\ Mark(Tail(rest)) = "save"
      BY <2>6 DEF Mark
    <3> QED
      BY <1>1, <2>6, <3>1 DEF Course, Follow
  <2>7. CASE rest = <<"stops", "jobs", "save">>
    <3>1. Tail(rest) = <<"jobs", "save">> /\ Mark(rest) = "stops" /\ Mark(Tail(rest)) = "jobs"
      BY <2>7 DEF Mark
    <3> QED
      BY <1>1, <2>7, <3>1 DEF Course, Follow
  <2> QED
    BY <2>1, <2>2, <2>3, <2>4, <2>5, <2>6, <2>7
<1>2. CASE op = "update"
  <2>1. rest \in Letting \/ rest \in Keeping
    BY <1>2 DEF Course
  <2>2. CASE rest = <<"save", "move", "stops", "plan", "jobs">>
    <3>1. Tail(rest) = <<"move", "stops", "plan", "jobs">> /\ Mark(rest) = "save" /\ Mark(Tail(rest)) = "move"
      BY <2>2 DEF Mark
    <3>2. Tail(rest) \in Letting
      BY <3>1 DEF Letting
    <3>3. Tail(rest) \in Course[op]
      BY <1>2, <3>2 DEF Course
    <3>4. Tail(rest) \in Keeping => rest \in Keeping
      BY <2>2, <3>2, Lasts DEF Keeping
    <3> QED
      BY <1>2, <2>2, <3>1, <3>3, <3>4 DEF Follow, Staying, Keeping
  <2>3. CASE rest = <<"save", "stops", "plan", "jobs">>
    <3>1. Tail(rest) = <<"stops", "plan", "jobs">> /\ Mark(rest) = "save" /\ Mark(Tail(rest)) = "stops"
      BY <2>3 DEF Mark
    <3>2. Tail(rest) \in Letting
      BY <3>1 DEF Letting
    <3>3. Tail(rest) \in Course[op]
      BY <1>2, <3>2 DEF Course
    <3>4. Tail(rest) \in Keeping => rest \in Keeping
      BY <2>3, <3>2, Lasts DEF Keeping
    <3> QED
      BY <1>2, <2>3, <3>1, <3>3, <3>4 DEF Follow, Staying, Keeping
  <2>4. CASE rest = <<"move", "stops", "plan", "jobs">>
    <3>1. Tail(rest) = <<"stops", "plan", "jobs">> /\ Mark(rest) = "move" /\ Mark(Tail(rest)) = "stops"
      BY <2>4 DEF Mark
    <3>2. Tail(rest) \in Letting
      BY <3>1 DEF Letting
    <3>3. Tail(rest) \in Course[op]
      BY <1>2, <3>2 DEF Course
    <3>4. Tail(rest) \in Keeping => rest \in Keeping
      BY <2>4, <3>2, Lasts DEF Keeping
    <3> QED
      BY <1>2, <2>4, <3>1, <3>3, <3>4 DEF Follow, Staying, Keeping
  <2>5. CASE rest = <<"stops", "plan", "jobs">>
    <3>1. Tail(rest) = <<"plan", "jobs">> /\ Mark(rest) = "stops" /\ Mark(Tail(rest)) = "plan"
      BY <2>5 DEF Mark
    <3>2. Tail(rest) \in Letting
      BY <3>1 DEF Letting
    <3>3. Tail(rest) \in Course[op]
      BY <1>2, <3>2 DEF Course
    <3>4. Tail(rest) \in Keeping => rest \in Keeping
      BY <2>5, <3>2, Lasts DEF Keeping
    <3> QED
      BY <1>2, <2>5, <3>1, <3>3, <3>4 DEF Follow, Staying, Keeping
  <2>6. CASE rest = <<"plan", "jobs">>
    <3>1. Tail(rest) = <<"jobs">> /\ Mark(rest) = "plan" /\ Mark(Tail(rest)) = "jobs"
      BY <2>6 DEF Mark
    <3>2. Tail(rest) \in Letting
      BY <3>1 DEF Letting
    <3>3. Tail(rest) \in Course[op]
      BY <1>2, <3>2 DEF Course
    <3>4. Tail(rest) \in Keeping => rest \in Keeping
      BY <2>6, <3>2, Lasts DEF Keeping
    <3> QED
      BY <1>2, <2>6, <3>1, <3>3, <3>4 DEF Follow, Staying, Keeping
  <2>7. CASE rest = <<"jobs">>
    <3>1. Tail(rest) = <<>> /\ Mark(rest) = "jobs" /\ Mark(Tail(rest)) = "return"
      BY <2>7 DEF Mark
    <3>2. Tail(rest) = <<>>
      BY <3>1
    <3>3. Tail(rest) \in Course[op]
      BY <1>2, <3>2 DEF Course
    <3>4. Tail(rest) \in Keeping => rest \in Keeping
      BY <2>7, <3>2, Lasts DEF Keeping
    <3> QED
      BY <1>2, <2>7, <3>1, <3>3, <3>4 DEF Follow, Staying, Keeping
  <2>8. CASE rest = <<"save", "move", "stops", "plan">>
    <3>1. Tail(rest) = <<"move", "stops", "plan">> /\ Mark(rest) = "save" /\ Mark(Tail(rest)) = "move"
      BY <2>8 DEF Mark
    <3>2. Tail(rest) \in Keeping
      BY <3>1 DEF Keeping
    <3>3. Tail(rest) \in Course[op]
      BY <1>2, <3>2 DEF Course
    <3>4. Tail(rest) \in Keeping => rest \in Keeping
      BY <2>8, <3>2, Lasts DEF Keeping
    <3> QED
      BY <1>2, <2>8, <3>1, <3>3, <3>4 DEF Follow, Staying, Keeping
  <2>9. CASE rest = <<"save", "stops", "plan">>
    <3>1. Tail(rest) = <<"stops", "plan">> /\ Mark(rest) = "save" /\ Mark(Tail(rest)) = "stops"
      BY <2>9 DEF Mark
    <3>2. Tail(rest) \in Keeping
      BY <3>1 DEF Keeping
    <3>3. Tail(rest) \in Course[op]
      BY <1>2, <3>2 DEF Course
    <3>4. Tail(rest) \in Keeping => rest \in Keeping
      BY <2>9, <3>2, Lasts DEF Keeping
    <3> QED
      BY <1>2, <2>9, <3>1, <3>3, <3>4 DEF Follow, Staying, Keeping
  <2>10. CASE rest = <<"move", "stops", "plan">>
    <3>1. Tail(rest) = <<"stops", "plan">> /\ Mark(rest) = "move" /\ Mark(Tail(rest)) = "stops"
      BY <2>10 DEF Mark
    <3>2. Tail(rest) \in Keeping
      BY <3>1 DEF Keeping
    <3>3. Tail(rest) \in Course[op]
      BY <1>2, <3>2 DEF Course
    <3>4. Tail(rest) \in Keeping => rest \in Keeping
      BY <2>10, <3>2, Lasts DEF Keeping
    <3> QED
      BY <1>2, <2>10, <3>1, <3>3, <3>4 DEF Follow, Staying, Keeping
  <2>11. CASE rest = <<"stops", "plan">>
    <3>1. Tail(rest) = <<"plan">> /\ Mark(rest) = "stops" /\ Mark(Tail(rest)) = "plan"
      BY <2>11 DEF Mark
    <3>2. Tail(rest) \in Keeping
      BY <3>1 DEF Keeping
    <3>3. Tail(rest) \in Course[op]
      BY <1>2, <3>2 DEF Course
    <3>4. Tail(rest) \in Keeping => rest \in Keeping
      BY <2>11, <3>2, Lasts DEF Keeping
    <3> QED
      BY <1>2, <2>11, <3>1, <3>3, <3>4 DEF Follow, Staying, Keeping
  <2>12. CASE rest = <<"plan">>
    <3>1. Tail(rest) = <<>> /\ Mark(rest) = "plan" /\ Mark(Tail(rest)) = "return"
      BY <2>12 DEF Mark
    <3>2. Tail(rest) = <<>>
      BY <3>1
    <3>3. Tail(rest) \in Course[op]
      BY <1>2, <3>2 DEF Course
    <3>4. Tail(rest) \in Keeping => rest \in Keeping
      BY <2>12, <3>2, Lasts DEF Keeping
    <3> QED
      BY <1>2, <2>12, <3>1, <3>3, <3>4 DEF Follow, Staying, Keeping
  <2> QED
    BY <2>1, <2>2, <2>3, <2>4, <2>5, <2>6, <2>7, <2>8, <2>9, <2>10, <2>11, <2>12 DEF Letting, Keeping
<1> QED
  BY <1>1, <1>2

-----------------------------------------------------------------------------
\* A request goes on: what it is about stays as it was.
GoesOn(o) ==
    /\ req[o] # Idle /\ req'[o] # Idle
    /\ req'[o].op = req[o].op /\ req'[o].code = req[o].code
    /\ req'[o].sd = req[o].sd /\ req'[o].about = req[o].about

\* It has passed the statement p.
Passes(o, p) ==
    /\ GoesOn(o)
    /\ Stage(o) = p /\ req[o].rest # <<>> /\ req'[o].rest = Tail(req[o].rest)
    /\ req[o].stops = {} /\ req[o].add = {} /\ req[o].take = {}

\* It is still at the same one.
Lingers(o) == GoesOn(o) /\ req'[o].rest = req[o].rest

KeepsLists(o) == req'[o].stops = req[o].stops /\ req'[o].plan = req[o].plan
KeepsJobs(o)  == req'[o].add = req[o].add /\ req'[o].take = req[o].take /\ req'[o].row = req[o].row

LEMMA PastIs ==
  ASSUME ShutdownTypeOK, NEW o \in Operator, NEW p, At(o, p), NEW q,
         req' = [req EXCEPT ![o] = q],
         \/ q = Past(o)
         \/ \E list \in SUBSET Stop : q = [Past(o) EXCEPT !.stops = list]
         \/ \E list \in SUBSET Job : q = [Past(o) EXCEPT !.take = list]
  PROVE  /\ Passes(o, p) /\ req'[o] = q
         /\ q.plan = req[o].plan /\ q.add = {} /\ q.row = req[o].row
<1>1. PICK r \in Request : req[o] = r
  BY DEF ShutdownTypeOK, At
<1>2. req'[o] = q
  BY DEF ShutdownTypeOK
<1>3. PICK rest : rest = Tail(r.rest)
  OBVIOUS
<1>4. Past(o) = [r EXCEPT !.rest = rest]
  BY <1>1, <1>3 DEF Past
<1>5. /\ q.op = r.op /\ q.code = r.code /\ q.sd = r.sd /\ q.about = r.about /\ q.rest = rest
      /\ q.plan = r.plan /\ q.add = r.add /\ q.row = r.row
  <2> DEFINE fields(x) == /\ x.op = r.op /\ x.code = r.code /\ x.sd = r.sd /\ x.about = r.about
                          /\ x.rest = rest /\ x.plan = r.plan /\ x.add = r.add /\ x.row = r.row
  <2>1. PICK past : past = Past(o) /\ past = [r EXCEPT !.rest = rest]
    BY <1>4
  <2>2. fields(past)
    BY <2>1 DEF Request
  <2>3. DOMAIN past = {"op", "code", "sd", "rest", "stops", "plan", "about", "add", "take", "row"}
    BY <2>1 DEF Request
  <2>4. ASSUME NEW list, q = [past EXCEPT !.stops = list] PROVE fields(q)
    BY <2>2, <2>3, <2>4
  <2>5. ASSUME NEW list, q = [past EXCEPT !.take = list] PROVE fields(q)
    BY <2>2, <2>3, <2>5
  <2> QED
    BY <2>1, <2>2, <2>4, <2>5
<1>6. q # Idle
  BY <1>5 DEF Request, Idle
<1>7. Stage(o) = p /\ r.rest # <<>> /\ r.stops = {} /\ r.add = {} /\ r.take = {}
  BY <1>1 DEF At, Worked, Stage, Mark
<1> QED
  BY <1>1, <1>2, <1>3, <1>5, <1>6, <1>7 DEF Passes, GoesOn, At

LEMMA SaveIs ==
  ASSUME ShutdownTypeOK, NEW o \in Operator, SaveShutdown(o)
  PROVE  Passes(o, "save") /\ KeepsLists(o) /\ KeepsJobs(o)
<1>1. At(o, "save") /\ req' = [req EXCEPT ![o] = Past(o)] /\ req[o] \in Request
  BY DEF SaveShutdown, At, ShutdownTypeOK
<1>2. Past(o).stops = req[o].stops /\ Past(o).take = req[o].take
  BY <1>1 DEF Past, Request
<1> QED
  BY <1>1, <1>2, PastIs DEF KeepsLists, KeepsJobs, Passes

LEMMA MoveIs ==
  ASSUME ShutdownTypeOK, NEW o \in Operator, MoveStops(o)
  PROVE  Passes(o, "move") /\ KeepsLists(o) /\ KeepsJobs(o)
<1>1. At(o, "move") /\ req' = [req EXCEPT ![o] = Past(o)] /\ req[o] \in Request
  BY DEF MoveStops, At, ShutdownTypeOK
<1>2. Past(o).stops = req[o].stops /\ Past(o).take = req[o].take
  BY <1>1 DEF Past, Request
<1> QED
  BY <1>1, <1>2, PastIs DEF KeepsLists, KeepsJobs, Passes

LEMMA PlannedIs ==
  ASSUME ShutdownTypeOK, NEW o \in Operator, Planned(o)
  PROVE  Passes(o, "plan") /\ KeepsLists(o) /\ KeepsJobs(o) /\ req[o].plan = {}
<1>1. At(o, "plan") /\ req' = [req EXCEPT ![o] = Past(o)] /\ req[o] \in Request /\ req[o].plan = {}
  BY DEF Planned, At, ShutdownTypeOK
<1>2. Past(o).stops = req[o].stops /\ Past(o).take = req[o].take
  BY <1>1 DEF Past, Request
<1> QED
  BY <1>1, <1>2, PastIs DEF KeepsLists, KeepsJobs, Passes

LEMMA ListStopsIs ==
  ASSUME ShutdownTypeOK, NEW o \in Operator, ListStops(o)
  PROVE  /\ Passes(o, "stops") /\ KeepsJobs(o) /\ req'[o].plan = req[o].plan
         /\ req'[o].stops = {s \in Stop : /\ booking[s].code = req[o].code
                                          /\ stop[s].asset \in req[o].about
                                          /\ stop[s].state = IF req[o].op = "finish" THEN "open" ELSE "scheduled"}
<1>1. PICK list \in SUBSET Stop :
         /\ list = {s \in Stop : /\ booking[s].code = req[o].code
                                 /\ stop[s].asset \in req[o].about
                                 /\ stop[s].state = IF req[o].op = "finish" THEN "open" ELSE "scheduled"}
         /\ req' = [req EXCEPT ![o] = [Past(o) EXCEPT !.stops = list]]
  BY DEF ListStops
<1>2. At(o, "stops") /\ req[o] \in Request
  BY DEF ListStops, At, ShutdownTypeOK
<1>3. PICK q : q = [Past(o) EXCEPT !.stops = list]
  OBVIOUS
<1>4. q.stops = list /\ q.take = req[o].take
  BY <1>2, <1>3 DEF Past, Request
<1>5. Passes(o, "stops") /\ req'[o] = q /\ q.plan = req[o].plan /\ q.add = {} /\ q.row = req[o].row
  BY <1>1, <1>2, <1>3, PastIs
<1> QED
  BY <1>1, <1>4, <1>5 DEF KeepsJobs, Passes

LEMMA ListJobsIs ==
  ASSUME ShutdownTypeOK, NEW o \in Operator, ListJobs(o)
  PROVE  /\ Passes(o, "jobs") /\ KeepsLists(o) /\ req'[o].add = {} /\ req'[o].row = req[o].row
         /\ req'[o].take = {j \in Job : job[j].code = req[o].code /\ job[j].live /\ job[j].asset \in req[o].about}
<1>1. PICK list \in SUBSET Job :
         /\ list = {j \in Job : job[j].code = req[o].code /\ job[j].live /\ job[j].asset \in req[o].about}
         /\ req' = [req EXCEPT ![o] = [Past(o) EXCEPT !.take = list]]
  BY DEF ListJobs
<1>2. At(o, "jobs") /\ req[o] \in Request
  BY DEF ListJobs, At, ShutdownTypeOK
<1>3. PICK q : q = [Past(o) EXCEPT !.take = list]
  OBVIOUS
<1>4. q.take = list /\ q.stops = req[o].stops
  BY <1>2, <1>3 DEF Past, Request
<1>5. Passes(o, "jobs") /\ req'[o] = q /\ q.plan = req[o].plan /\ q.add = {} /\ q.row = req[o].row
  BY <1>1, <1>2, <1>3, PastIs
<1> QED
  BY <1>1, <1>4, <1>5 DEF KeepsLists

LEMMA WorkIs ==
  ASSUME ShutdownTypeOK, NEW o \in Operator, WorkStop(o)
  PROVE  /\ Lingers(o) /\ KeepsJobs(o) /\ req'[o].plan = req[o].plan
         /\ \E s \in Stop : /\ s \in req[o].stops /\ req'[o].stops = req[o].stops \ {s}
                            /\ \/ req[o].op = "start" /\ StartDowntimeEvent(s)
                               \/ req[o].op = "finish" /\ EndDowntimeEvent(s)
                               \/ req[o].op \in {"update", "cancel"} /\ CancelDowntimeEvent(s)
<1>1. PICK r \in Request : req[o] = r /\ r # Idle
  BY DEF ShutdownTypeOK, WorkStop
<1>2. r.stops \subseteq Stop
  BY DEF Request
<1>3. PICK s \in r.stops :
         /\ \/ r.op = "start" /\ StartDowntimeEvent(s)
            \/ r.op = "finish" /\ EndDowntimeEvent(s)
            \/ r.op \in {"update", "cancel"} /\ CancelDowntimeEvent(s)
         /\ req' = [req EXCEPT ![o].stops = @ \ {s}]
  BY <1>1 DEF WorkStop
<1>4. req'[o] = [r EXCEPT !.stops = @ \ {s}]
  BY <1>1, <1>3 DEF ShutdownTypeOK
<1>5. /\ req'[o].op = r.op /\ req'[o].code = r.code /\ req'[o].sd = r.sd /\ req'[o].about = r.about
      /\ req'[o].rest = r.rest /\ req'[o].plan = r.plan /\ req'[o].stops = r.stops \ {s}
      /\ req'[o].add = r.add /\ req'[o].take = r.take /\ req'[o].row = r.row
  BY <1>4 DEF Request
<1>6. req'[o] # Idle
  BY <1>5 DEF Request, Idle
<1> QED
  BY <1>1, <1>2, <1>3, <1>5, <1>6 DEF Lingers, GoesOn, KeepsJobs

LEMMA PlanIs ==
  ASSUME ShutdownTypeOK, NEW o \in Operator, PlanStop(o)
  PROVE  /\ Lingers(o) /\ KeepsJobs(o) /\ Stage(o) = "plan" /\ req[o].stops = {} /\ req'[o].stops = {}
         /\ \E s \in Stop :
               /\ stop[s].asset \in req[o].plan /\ CreateScheduled(s)
               /\ booking' = [booking EXCEPT ![s] = [code |-> req[o].code, window |-> req[o].sd.window]]
               /\ req'[o].plan = req[o].plan \ {stop[s].asset}
<1>1. PICK r \in Request : req[o] = r /\ r # Idle
  BY DEF ShutdownTypeOK, PlanStop, At
<1>2. PICK s \in Stop :
         /\ stop[s].asset \in r.plan /\ CreateScheduled(s)
         /\ booking' = [booking EXCEPT ![s] = [code |-> r.code, window |-> r.sd.window]]
         /\ req' = [req EXCEPT ![o].plan = @ \ {stop[s].asset}]
  BY <1>1 DEF PlanStop
<1>3. req'[o] = [r EXCEPT !.plan = @ \ {stop[s].asset}]
  BY <1>1, <1>2 DEF ShutdownTypeOK
<1>4. /\ req'[o].op = r.op /\ req'[o].code = r.code /\ req'[o].sd = r.sd /\ req'[o].about = r.about
      /\ req'[o].rest = r.rest /\ req'[o].plan = r.plan \ {stop[s].asset} /\ req'[o].stops = r.stops
      /\ req'[o].add = r.add /\ req'[o].take = r.take /\ req'[o].row = r.row
  BY <1>3 DEF Request
<1>5. req'[o] # Idle
  BY <1>4 DEF Request, Idle
<1>6. Stage(o) = "plan" /\ r.stops = {}
  BY <1>1 DEF PlanStop, At, Worked, Stage, Mark
<1> QED
  BY <1>1, <1>2, <1>4, <1>5, <1>6 DEF Lingers, GoesOn, KeepsJobs

LEMMA ReadIs ==
  ASSUME ShutdownTypeOK, NEW o \in Operator, ReadJob(o)
  PROVE  /\ Lingers(o) /\ KeepsLists(o) /\ req'[o].add = req[o].add /\ req[o].row = {}
         /\ \/ \E j \in req[o].add :
                  /\ job[j].asset \in req[o].sd.machines
                  /\ req'[o].row = {<<j, job[j]>>} /\ req'[o].take = req[o].take
            \/ req[o].add = {} /\ req'[o].take = req[o].take
            \/ \E j \in req[o].take :
                  /\ req[o].op = "jobs" /\ job[j].code # req[o].code
                  /\ req[o].add = {} /\ req'[o].row = {} /\ req'[o].take = req[o].take \ {j}
<1>1. PICK r \in Request : req[o] = r /\ r # Idle
  BY DEF ShutdownTypeOK, ReadJob
<1>2. r.row = {} /\ r.add \subseteq Job /\ r.take \subseteq Job
  BY <1>1 DEF ReadJob, Request
<1>3. \/ \E j \in r.add : /\ job[j].asset \in r.sd.machines
                          /\ req' = [req EXCEPT ![o] = [r EXCEPT !.row = {<<j, job[j]>>}]]
      \/ /\ r.add = {}
         /\ \E j \in r.take : req' = [req EXCEPT ![o] = [r EXCEPT !.row = {<<j, job[j]>>}]]
      \/ /\ r.add = {}
         /\ \E j \in r.take : /\ r.op = "jobs" /\ job[j].code # r.code
                              /\ req' = [req EXCEPT ![o] = [r EXCEPT !.take = @ \ {j}]]
  BY <1>1 DEF ReadJob
<1>4. ASSUME NEW q, req' = [req EXCEPT ![o] = q]
      PROVE  req'[o] = q
  BY <1>4 DEF ShutdownTypeOK
<1>5. ASSUME NEW row, req' = [req EXCEPT ![o] = [r EXCEPT !.row = row]]
      PROVE  /\ Lingers(o) /\ KeepsLists(o) /\ req'[o].add = req[o].add
             /\ req'[o].row = row /\ req'[o].take = req[o].take
  <2>1. req'[o] = [r EXCEPT !.row = row]
    BY <1>4, <1>5
  <2>2. /\ req'[o].op = r.op /\ req'[o].code = r.code /\ req'[o].sd = r.sd /\ req'[o].about = r.about
        /\ req'[o].rest = r.rest /\ req'[o].plan = r.plan /\ req'[o].stops = r.stops
        /\ req'[o].add = r.add /\ req'[o].take = r.take /\ req'[o].row = row
    BY <2>1 DEF Request
  <2>3. req'[o] # Idle
    BY <2>2 DEF Request, Idle
  <2> QED
    BY <1>1, <2>2, <2>3 DEF Lingers, GoesOn, KeepsLists
<1>6. ASSUME NEW j, req' = [req EXCEPT ![o] = [r EXCEPT !.take = @ \ {j}]]
      PROVE  /\ Lingers(o) /\ KeepsLists(o) /\ req'[o].add = req[o].add
             /\ req'[o].row = {} /\ req'[o].take = r.take \ {j}
  <2>1. req'[o] = [r EXCEPT !.take = @ \ {j}]
    BY <1>4, <1>6
  <2>2. /\ req'[o].op = r.op /\ req'[o].code = r.code /\ req'[o].sd = r.sd /\ req'[o].about = r.about
        /\ req'[o].rest = r.rest /\ req'[o].plan = r.plan /\ req'[o].stops = r.stops
        /\ req'[o].add = r.add /\ req'[o].take = r.take \ {j} /\ req'[o].row = r.row
    BY <2>1 DEF Request
  <2>3. req'[o] # Idle
    BY <2>2 DEF Request, Idle
  <2> QED
    BY <1>1, <1>2, <2>2, <2>3 DEF Lingers, GoesOn, KeepsLists
<1> QED
  BY <1>1, <1>2, <1>3, <1>5, <1>6

LEMMA WriteIs ==
  ASSUME ShutdownTypeOK, NEW o \in Operator, WriteJob(o)
  PROVE  /\ Lingers(o) /\ KeepsLists(o) /\ req'[o].row = {}
         /\ \E j \in Job, row \in JobRow :
               /\ <<j, row>> \in req[o].row
               /\ req'[o].add = req[o].add \ {j}
               /\ req'[o].take = IF j \in req[o].add THEN req[o].take ELSE req[o].take \ {j}
               /\ job' = [job EXCEPT ![j] =
                             [row EXCEPT !.code = IF j \in req[o].add THEN req[o].code ELSE NoCode]]
<1>1. PICK r \in Request : req[o] = r /\ r # Idle
  BY DEF ShutdownTypeOK, WriteJob
<1>2. PICK j \in Job, row \in JobRow :
         /\ <<j, row>> \in r.row
         /\ job' = [job EXCEPT ![j] = [row EXCEPT !.code = IF j \in r.add THEN r.code ELSE NoCode]]
         /\ req' = [req EXCEPT ![o].row = {}, ![o].add = @ \ {j},
                               ![o].take = IF j \in req[o].add THEN @ ELSE @ \ {j}]
  BY <1>1 DEF WriteJob
<1>3. PICK take : take = IF j \in r.add THEN r.take ELSE r.take \ {j}
  OBVIOUS
<1>4. req'[o] = [r EXCEPT !.row = {}, !.add = @ \ {j}, !.take = take]
  BY <1>1, <1>2, <1>3 DEF ShutdownTypeOK
<1>5. /\ req'[o].op = r.op /\ req'[o].code = r.code /\ req'[o].sd = r.sd /\ req'[o].about = r.about
      /\ req'[o].rest = r.rest /\ req'[o].plan = r.plan /\ req'[o].stops = r.stops
      /\ req'[o].add = r.add \ {j} /\ req'[o].take = take /\ req'[o].row = {}
  BY <1>4 DEF Request
<1>6. req'[o] # Idle
  BY <1>5 DEF Request, Idle
<1> QED
  BY <1>1, <1>2, <1>3, <1>5, <1>6 DEF Lingers, GoesOn, KeepsLists

-----------------------------------------------------------------------------
LEMMA StopSteps ==
  ASSUME DowntimeTypeOK, NEW s \in Stop, StopNext(s)
  PROVE  /\ \A t \in Stop \ {s} : stop'[t] = stop[t]
         /\ stop'[s].asset = stop[s].asset /\ stop'[s].state # "none"
         /\ stop'[s].state = "scheduled" => stop[s].state = "none"
         /\ stop'[s].state = "open" => stop[s].state \in {"none", "scheduled"}
         /\ EndDowntimeEvent(s) => stop'[s].state = "closed"
         /\ StartDowntimeEvent(s) => stop'[s].state = "open" /\ stop[s].state = "scheduled"
         /\ CancelDowntimeEvent(s) => stop'[s].state = "cancelled"
         /\ CreateScheduled(s) => stop'[s].state = "scheduled" /\ stop[s].state = "none"
<1> USE DEF DowntimeTypeOK, StopRow
<1>1. CASE CreateOpen(s) \/ CreateHistorical(s)
  BY <1>1 DEF CreateOpen, CreateHistorical, EndDowntimeEvent, StartDowntimeEvent, CancelDowntimeEvent,
              CreateScheduled, Exists
<1>2. CASE CreateScheduled(s) \/ CancelDowntimeEvent(s) \/ DeleteDowntimeEvent(s)
  BY <1>2 DEF EndDowntimeEvent, StartDowntimeEvent, CancelDowntimeEvent, CreateScheduled,
              DeleteDowntimeEvent, Exists
<1>3. CASE StartDowntimeEvent(s) \/ EndDowntimeEvent(s)
  BY <1>3 DEF EndDowntimeEvent, StartDowntimeEvent, CancelDowntimeEvent, CreateScheduled, Exists
<1> QED
  BY <1>1, <1>2, <1>3 DEF StopNext

\* What a step of o leaves to the others: their requests.
Aside(o) ==
    /\ req[o] # Idle
    /\ met' = met
    /\ \A p \in Operator \ {o} : req'[p] = req[p]

LEMMA WorksAside ==
  ASSUME ShutdownTypeOK, NEW o \in Operator, Works(o)
  PROVE  Aside(o)
<1> USE DEF ShutdownTypeOK, Aside
<1>1. CASE SaveShutdown(o) \/ MoveStops(o) \/ ListStops(o) \/ Planned(o) \/ ListJobs(o)
  BY <1>1 DEF SaveShutdown, MoveStops, ListStops, Planned, ListJobs, At
<1>2. CASE WorkStop(o)
  BY <1>2 DEF WorkStop
<1>3. CASE PlanStop(o)
  BY <1>3 DEF PlanStop, At
<1>4. CASE ReadJob(o)
  BY <1>4 DEF ReadJob
<1>5. CASE WriteJob(o)
  BY <1>5 DEF WriteJob
<1>6. CASE Return(o) \/ Interrupt(o)
  BY <1>6 DEF Return, Interrupt
<1> QED
  BY <1>1, <1>2, <1>3, <1>4, <1>5, <1>6 DEF Works

\* Two requests about one shutdown, or both choosing machines, have met.
LEMMA Apart ==
  ASSUME MetInv, NEW o \in Operator, NEW p \in Operator, o # p, req[o] # Idle, req[p] # Idle
  PROVE  /\ req[o].code = req[p].code => ~Alone(req[o].code)
         /\ Reshapes(o) /\ Reshapes(p) => <<req[o].code, req[p].code>> \in met
<1>1. InTheWay(req[o], req[p]) => <<req[o].code, req[p].code>> \in met
  BY DEF MetInv
<1> QED
  BY <1>1 DEF InTheWay, Chooses, Reshapes, Alone

LEMMA MetStays ==
  ASSUME MetInv, NEW o \in Operator, Aside(o), req'[o] = Idle \/ GoesOn(o)
  PROVE  MetInv'
<1>1. Even'
  BY DEF MetInv, Even, Aside
<1>2. ASSUME NEW p \in Operator, NEW q \in Operator, p # q, req'[p] # Idle, InTheWay(req'[p], req'[q])
      PROVE  <<req'[p].code, req'[q].code>> \in met'
  <2>1. \A x \in Operator : req'[x] # Idle =>
           req[x] # Idle /\ req'[x].op = req[x].op /\ req'[x].code = req[x].code
    BY DEF Aside, GoesOn
  <2>2. req'[q] # Idle
    BY <1>2 DEF InTheWay
  <2>3. InTheWay(req[p], req[q])
    BY <1>2, <2>1, <2>2 DEF InTheWay, Chooses
  <2> QED
    BY <1>2, <2>1, <2>2, <2>3 DEF MetInv, Aside
<1> QED
  BY <1>1, <1>2 DEF MetInv

\* No stop of c comes to be waiting, or to be running that was not waiting.
Shrinks(c) ==
    \A s \in Stop : s \in Of(c)' =>
        /\ s \in Of(c)
        /\ stop'[s].state = "scheduled" => stop[s].state = "scheduled"
        /\ stop'[s].state = "open" => stop[s].state \in {"open", "scheduled"}

\* A request knows as much after a step that is none of its business.
LEMMA Bystander ==
  ASSUME ShutdownTypeOK, HeadersInv, NEW p \in Operator, req[p] # Idle, req'[p] = req[p], met \subseteq met',
         \A c \in Code : Status(c) # "none" => header'[c].status # "none",
         Alone(req[p].code) => header'[req[p].code] = header[req[p].code] /\ Shrinks(req[p].code),
         \A d \in Code \ {req[p].code} :
            /\ Alone(d) /\ <<req[p].code, d>> \notin met
            /\ Reshapes(p) /\ header'[d].status \in Standing
            => /\ Status(d) \in Standing
               /\ header'[d].machines = header[d].machines /\ header'[d].window = header[d].window
  PROVE  Knows(p)'
<1>1. PICK c \in Code : c = req[p].code
  BY DEF ShutdownTypeOK, Request
<1>2. Knows(p) /\ Carries(p)
  BY DEF HeadersInv, Knows
<1>3. Stage(p)' = Stage(p) /\ (Saved(p)' <=> Saved(p)) /\ (Reshapes(p)' <=> Reshapes(p))
  BY DEF Stage, Mark, Saved, Reshapes
<1>4. Carries(p)'
  BY <1>1, <1>2, <1>3 DEF Carries, Status
<1>5. \A d : Alone(d)' => Alone(d)
  BY DEF Alone
<1>6. ASSUME Alone(c)' PROVE Matches(p)' /\ WorksThrough(p)'
  <2>1. Alone(c) /\ header'[c] = header[c] /\ Shrinks(c) /\ Matches(p) /\ WorksThrough(p)
    BY <1>1, <1>2, <1>5, <1>6 DEF Knows
  <2>2. ASSUME Reshapes(p), NoClash(c, req[p].sd) PROVE NoClash(c, req[p].sd)'
    <3> SUFFICES ASSUME NEW d \in Code \ {c}, Alone(d)', <<c, d>> \notin met', header'[d].status \in Standing,
                        header'[d].window \cap req[p].sd.window # {}
                 PROVE  header'[d].machines \cap req[p].sd.machines = {}
      BY DEF NoClash, Status
    <3>1. Alone(d) /\ <<c, d>> \notin met
      BY <1>5
    <3>2. Status(d) \in Standing /\ header'[d].machines = header[d].machines /\ header'[d].window = header[d].window
      BY <1>1, <2>2, <3>1
    <3> QED
      BY <2>2, <3>1, <3>2 DEF NoClash
  <2>3. Matches(p)'
    BY <1>1, <1>3, <2>1, <2>2 DEF Matches, Status
  <2>4. ASSUME req[p].op = "finish", Stage(p) = "save" PROVE \A s \in Of(c) : stop[s].state # "scheduled"
    <3>1. Status(c) = "in_progress"
      BY <1>1, <2>1, <2>4 DEF Matches, Saved, Reshapes, From
    <3> QED
      BY <2>1, <3>1 DEF HeadersInv, StopsFollowHeader, Of
  <2>5. \A s \in Of(c)' : /\ s \in Of(c)
                          /\ stop'[s].state = "scheduled" => stop[s].state = "scheduled"
                          /\ stop'[s].state = "open" => stop[s].state \in {"open", "scheduled"}
    BY <2>1 DEF Shrinks, Of
  <2>6. WorksThrough(p)'
    BY <1>1, <1>3, <2>1, <2>4, <2>5 DEF WorksThrough
  <2> QED
    BY <2>3, <2>6
<1> QED
  BY <1>1, <1>4, <1>6 DEF Knows

LEMMA CarriesLingers ==
  ASSUME NEW o \in Operator, Carries(o), Lingers(o), UNCHANGED <<header, met>>
  PROVE  /\ Carries(o)'
         /\ Matches(o) => Matches(o)'
         /\ Alone(req[o].code)' <=> Alone(req[o].code)
         /\ Stage(o)' = Stage(o)
<1>1. Stage(o)' = Stage(o)
  BY DEF Stage, Mark, Lingers
<1>2. NoClash(req[o].code, req[o].sd) => NoClash(req[o].code, req[o].sd)'
  BY DEF NoClash, Lingers, GoesOn, Status, Alone
<1>3. (Saved(o)' <=> Saved(o)) /\ (Reshapes(o)' <=> Reshapes(o))
  BY <1>1 DEF Lingers, GoesOn, Saved, Reshapes
<1> QED
  BY <1>1, <1>2, <1>3 DEF Carries, Matches, Lingers, GoesOn, Status, Alone

LEMMA CarriesPasses ==
  ASSUME ShutdownTypeOK, NEW o \in Operator, Carries(o), NEW p, p # "save", Passes(o, p),
         UNCHANGED <<header, met>>
  PROVE  /\ Carries(o)'
         /\ Matches(o) => Matches(o)'
         /\ Alone(req[o].code)' <=> Alone(req[o].code)
<1>1. /\ req'[o].rest \in Course[req[o].op]
      /\ <<p, Stage(o)'>> \in Follow[req[o].op]
  <2>1. req[o].op \in DOMAIN Course
    BY DEF ShutdownTypeOK, Request, Passes, GoesOn, Course
  <2> QED
    BY <2>1, Onwards DEF Carries, Passes, Stage
<1>2. NoClash(req[o].code, req[o].sd) => NoClash(req[o].code, req[o].sd)'
  BY DEF NoClash, Passes, GoesOn, Status, Alone
<1>3. req[o].op \in DOMAIN Follow
  BY DEF ShutdownTypeOK, Request, Passes, GoesOn, Follow
<1>4. (Saved(o)' <=> Saved(o)) /\ (Reshapes(o)' <=> Reshapes(o))
  BY <1>1, <1>3 DEF Saved, Passes, GoesOn, Reshapes, Follow
<1> QED
  BY <1>1, <1>2, <1>4 DEF Carries, Matches, Passes, GoesOn, Status, Alone

\* A step that leaves the headers alone, and plans no stop of another shutdown.
LEMMA HeadersStand ==
  ASSUME ShutdownTypeOK, HeadersInv, NEW o \in Operator, Aside(o), header' = header,
         \A c \in Code : c # req[o].code => Shrinks(c),
         NoDoubleBooking', StopsFollowHeader', Blank',
         req'[o] = Idle \/ (GoesOn(o) /\ Knows(o)')
  PROVE  HeadersInv'
<1>1. MetInv'
  BY MetStays DEF HeadersInv
<1>2. ASSUME NEW p \in Operator \ {o}, req'[p] # Idle PROVE Knows(p)'
  <2>1. req'[p] = req[p] /\ req[p] # Idle /\ req[o] # Idle /\ met' = met
    BY <1>2 DEF Aside
  <2>2. req[p].code \in Code
    BY <2>1 DEF ShutdownTypeOK, Request
  <2>3. Alone(req[p].code) => Shrinks(req[p].code)
    BY <2>1, <2>2, Apart DEF HeadersInv
  <2> QED
    BY <2>1, <2>3, Bystander DEF Status
<1> QED
  BY <1>1, <1>2 DEF HeadersInv

\* A statement that leaves the stops and their codes alone too.
LEMMA QuietKeeps ==
  ASSUME ShutdownTypeOK, HeadersInv, NEW o \in Operator, Aside(o),
         header' = header, \A s \in Stop : stop'[s] = stop[s] /\ booking'[s].code = booking[s].code,
         \A s \in Stop : booking'[s] = booking[s] \/ stop[s].state # "none",
         req'[o] = Idle \/ (GoesOn(o) /\ Knows(o)')
  PROVE  HeadersInv'
<1>1. \A c \in Code : Of(c)' = Of(c) /\ Status(c)' = Status(c) /\ (Alone(c)' <=> Alone(c))
  BY DEF Of, Status, Aside, Alone
<1>2. NoDoubleBooking'
  BY DEF HeadersInv, NoDoubleBooking, Status, Aside, Alone
<1>3. StopsFollowHeader'
  BY <1>1 DEF HeadersInv, StopsFollowHeader, Of
<1>4. Blank'
  BY <1>1 DEF HeadersInv, Blank
<1>5. \A c \in Code : Shrinks(c)
  BY <1>1 DEF Shrinks
<1> QED
  BY <1>2, <1>3, <1>4, <1>5, HeadersStand

LEMMA LingerKeeps ==
  ASSUME ShutdownTypeOK, HeadersInv, NEW o \in Operator, Aside(o),
         ReadJob(o) \/ WriteJob(o)
  PROVE  HeadersInv'
<1>1. /\ Lingers(o) /\ GoesOn(o) /\ KeepsLists(o)
      /\ UNCHANGED <<downtimeVars, header, booking, met>>
  BY ReadIs, WriteIs DEF ReadJob, WriteJob, Lingers
<1>2. Carries(o) /\ Knows(o)
  BY <1>1 DEF HeadersInv, Knows, GoesOn
<1>3. WorksThrough(o) => WorksThrough(o)'
  <2>1. Stage(o)' = Stage(o)
    BY <1>1, <1>2, CarriesLingers
  <2> QED
    BY <1>1, <2>1 DEF WorksThrough, Lingers, GoesOn, KeepsLists, Of, downtimeVars
<1>4. Knows(o)'
  BY <1>1, <1>2, <1>3, CarriesLingers DEF Knows, GoesOn
<1> QED
  BY <1>1, <1>4, QuietKeeps DEF downtimeVars

LEMMA PassKeeps ==
  ASSUME ShutdownTypeOK, HeadersInv, NEW o \in Operator, Aside(o),
         MoveStops(o) \/ Planned(o) \/ ListJobs(o)
  PROVE  HeadersInv'
<1>1. PICK p \in {"move", "plan", "jobs"} : Passes(o, p) /\ KeepsLists(o)
  BY MoveIs, PlannedIs, ListJobsIs
<1>2. Carries(o) /\ Knows(o) /\ GoesOn(o)
  BY <1>1 DEF HeadersInv, Passes, GoesOn, Knows
<1>3. UNCHANGED <<header, stop, met>>
  BY DEF MoveStops, Planned, ListJobs, downtimeVars
<1>4. \A s \in Stop : booking'[s].code = booking[s].code /\ (booking'[s] = booking[s] \/ stop[s].state # "none")
  <2>1. CASE MoveStops(o)
    BY <2>1 DEF MoveStops, ShutdownTypeOK, Booking
  <2> QED
    BY <2>1 DEF Planned, ListJobs
<1>5. WorksThrough(o) => WorksThrough(o)'
  <2>1. <<p, Stage(o)'>> \in Follow[req[o].op] /\ req[o].op \in DOMAIN Follow
    BY <1>1, <1>2, Onwards DEF ShutdownTypeOK, Request, Passes, GoesOn, Course, Follow, Carries, Stage
  <2>2. req'[o].stops = req[o].stops /\ req'[o].op = req[o].op /\ req'[o].code = req[o].code /\ Stage(o) = p
    BY <1>1 DEF Passes, GoesOn, KeepsLists
  <2> QED
    BY <1>3, <1>4, <2>1, <2>2 DEF WorksThrough, Follow, Of
<1>6. Knows(o)'
  BY <1>1, <1>2, <1>3, <1>5, CarriesPasses DEF Knows, GoesOn
<1> QED
  BY <1>2, <1>3, <1>4, <1>6, QuietKeeps

LEMMA ListKeeps ==
  ASSUME DowntimeTypeOK, ShutdownTypeOK, HeadersInv, NEW o \in Operator, Aside(o), ListStops(o)
  PROVE  HeadersInv'
<1>1. Passes(o, "stops")
  BY ListStopsIs
<1>2. Carries(o) /\ Knows(o) /\ GoesOn(o)
  BY <1>1 DEF HeadersInv, Passes, GoesOn, Knows
<1>3. UNCHANGED <<header, stop, booking, met>>
  BY DEF ListStops, downtimeVars
<1>4. WorksThrough(o)'
  <2>1. req'[o].op = req[o].op /\ req'[o].code = req[o].code
    BY <1>1 DEF Passes, GoesOn
  <2>2. \A s \in Stop : stop[s].asset \in Asset
    BY DEF DowntimeTypeOK, StopRow
  <2>3. req[o].op \in {"start", "finish", "cancel"} => req[o].about = Asset
    BY <1>2 DEF Carries, Reshapes
  <2> QED
    BY <1>3, <2>1, <2>2, <2>3, ListStopsIs DEF WorksThrough, Of
<1>5. Knows(o)'
  BY <1>1, <1>2, <1>3, <1>4, CarriesPasses DEF Knows, GoesOn
<1> QED
  BY <1>2, <1>3, <1>5, QuietKeeps

\* A stop nobody plans any more.
LEMMA StopMoved ==
  ASSUME ShutdownTypeOK, HeadersInv, NEW s \in Stop,
         \A t \in Stop \ {s} : stop'[t] = stop[t],
         stop[s].state # "none" \/ booking[s] = NoBooking,
         stop'[s].state # "none",
         stop'[s].state = "scheduled" => stop[s].state = "none",
         stop'[s].state = "open" => stop[s].state \in {"none", "scheduled"},
         UNCHANGED <<header, booking, met>>
  PROVE  /\ NoDoubleBooking' /\ StopsFollowHeader' /\ Blank'
         /\ \A c \in Code : Shrinks(c)
<1>1. \A c \in Code : Of(c)' = Of(c) /\ Status(c)' = Status(c) /\ (Alone(c)' <=> Alone(c))
  BY DEF Of, Status, Alone
<1>2. \A c \in Code : c # NoCode
  BY DEF Code, NoCode
<1>3. NoDoubleBooking'
  BY DEF HeadersInv, NoDoubleBooking, Status, Alone
<1>4. \A c \in Code : Shrinks(c)
  <2>1. \A c \in Code, t \in Stop : t \in Of(c) => stop[t].state # "none"
    BY <1>2 DEF HeadersInv, Blank, Of, NoBooking
  <2> QED
    BY <1>1, <2>1 DEF Shrinks
<1>5. StopsFollowHeader'
  <2>1. ASSUME NEW c \in Code, NEW t \in Stop, t \in Of(c)', Alone(c)'
        PROVE  /\ Status(c)' \in {"in_progress", "completed", "cancelled"} => stop'[t].state # "scheduled"
               /\ Status(c)' = "completed" => stop'[t].state # "open"
    <3>1. /\ Status(c) \in {"in_progress", "completed", "cancelled"} => stop[t].state # "scheduled"
          /\ Status(c) = "completed" => stop[t].state # "open"
      BY <1>1, <2>1 DEF HeadersInv, StopsFollowHeader
    <3> QED
      BY <1>1, <1>4, <2>1, <3>1 DEF Shrinks
  <2> QED
    BY <2>1 DEF StopsFollowHeader
<1>6. Blank'
  BY <1>1 DEF HeadersInv, Blank
<1> QED
  BY <1>3, <1>4, <1>5, <1>6

LEMMA WorkKeeps ==
  ASSUME DowntimeTypeOK, ShutdownTypeOK, HeadersInv, NEW o \in Operator, Aside(o), WorkStop(o)
  PROVE  HeadersInv'
<1>1. PICK s \in Stop : /\ s \in req[o].stops /\ req'[o].stops = req[o].stops \ {s}
                        /\ \/ req[o].op = "start" /\ StartDowntimeEvent(s)
                           \/ req[o].op = "finish" /\ EndDowntimeEvent(s)
                           \/ req[o].op \in {"update", "cancel"} /\ CancelDowntimeEvent(s)
  BY WorkIs
<1>2. Lingers(o) /\ GoesOn(o) /\ UNCHANGED <<header, booking, met>>
  BY WorkIs DEF WorkStop, Lingers
<1>3. StopNext(s)
  BY <1>1 DEF StopNext
<1>4. stop[s].state # "none"
  BY <1>1 DEF StartDowntimeEvent, EndDowntimeEvent, CancelDowntimeEvent, Exists
<1>5. NoDoubleBooking' /\ StopsFollowHeader' /\ Blank' /\ \A c \in Code : Shrinks(c)
  BY <1>2, <1>3, <1>4, StopSteps, StopMoved
<1>6. Carries(o) /\ Knows(o)
  BY <1>2 DEF HeadersInv, GoesOn, Knows
<1>7. WorksThrough(o) => WorksThrough(o)'
  <2>1. Stage(o)' = Stage(o)
    BY <1>2, <1>6, CarriesLingers
  <2>2. Of(req[o].code)' = Of(req[o].code)
    BY <1>2 DEF Of, Lingers, GoesOn
  <2>3. \A t \in Stop \ {s} : stop'[t] = stop[t]
    BY <1>3, StopSteps
  <2>4. /\ req[o].op = "start" => stop'[s].state = "open"
        /\ req[o].op = "finish" => stop'[s].state = "closed"
        /\ req[o].op = "cancel" => stop'[s].state = "cancelled"
    BY <1>1, <1>3, StopSteps
  <2> QED
    BY <1>1, <1>2, <2>1, <2>2, <2>3, <2>4 DEF WorksThrough, Lingers, GoesOn, Of
<1>8. Knows(o)'
  BY <1>2, <1>6, <1>7, CarriesLingers DEF Knows, GoesOn
<1> QED
  BY <1>2, <1>5, <1>8, HeadersStand

LEMMA PlanKeeps ==
  ASSUME DowntimeTypeOK, ShutdownTypeOK, HeadersInv, NEW o \in Operator, Aside(o), PlanStop(o)
  PROVE  HeadersInv'
<1>1. PICK s \in Stop :
         /\ CreateScheduled(s)
         /\ booking' = [booking EXCEPT ![s] = [code |-> req[o].code, window |-> req[o].sd.window]]
  BY PlanIs
<1>2. Lingers(o) /\ GoesOn(o) /\ Stage(o) = "plan" /\ UNCHANGED <<header, met>>
  BY PlanIs DEF PlanStop, Lingers
<1>3. Carries(o) /\ Knows(o)
  BY <1>2 DEF HeadersInv, GoesOn, Knows
<1>4. StopNext(s)
  BY <1>1 DEF StopNext
<1>5. stop'[s].state = "scheduled" /\ stop[s].state = "none" /\ \A t \in Stop \ {s} : stop'[t] = stop[t]
  BY <1>1, <1>4, StopSteps
<1>6. Reshapes(o) /\ req[o].code \in Code /\ Saved(o)
  <2>1. req[o] \in Request
    BY <1>2 DEF ShutdownTypeOK, Lingers, GoesOn
  <2>2. req[o].op \in DOMAIN Follow /\ req[o].op \in DOMAIN Course /\ req[o].code \in Code
    BY <2>1 DEF Request, Follow, Course
  <2>3. req[o].rest # <<>>
    BY <1>2 DEF Stage, Mark
  <2>4. <<"plan", Mark(Tail(req[o].rest))>> \in Follow[req[o].op]
    BY <1>2, <1>3, <2>2, <2>3, Onwards DEF Carries, Stage
  <2> QED
    BY <1>2, <2>2, <2>4 DEF Reshapes, Follow, Saved
<1>7. /\ Status(req[o].code) # "none"
      /\ Alone(req[o].code) => Status(req[o].code) = "planned"
  BY <1>3, <1>6 DEF Knows, Carries, Matches, Reshapes, Status, To
<1>8. \A c \in Code : Of(c)' = IF c = req[o].code THEN Of(c) \cup {s} ELSE Of(c)
  <2>1. \A c \in Code : c # NoCode
    BY DEF Code, NoCode
  <2>2. booking[s].code = NoCode
    BY <1>5 DEF HeadersInv, Blank, NoBooking
  <2> QED
    BY <1>1, <2>1, <2>2 DEF Of, ShutdownTypeOK
<1>9. \A c \in Code : Status(c)' = Status(c) /\ (Alone(c)' <=> Alone(c))
  BY <1>2 DEF Status, Alone
<1>10. NoDoubleBooking'
  BY <1>2 DEF HeadersInv, NoDoubleBooking, Status, Alone
<1>11. \A c \in Code : s \notin Of(c)
  BY <1>5 DEF HeadersInv, Blank, Of, NoBooking, Code, NoCode
<1>12. StopsFollowHeader'
  <2> SUFFICES ASSUME NEW c \in Code, NEW t \in Stop, (t \in Of(c))', Alone(c)
               PROVE  (/\ Status(c) \in {"in_progress", "completed", "cancelled"} => stop[t].state # "scheduled"
                       /\ Status(c) = "completed" => stop[t].state # "open")'
    BY <1>9 DEF StopsFollowHeader
  <2>1. CASE t = s
    <3>1. c = req[o].code
      BY <1>8, <1>11, <2>1
    <3> QED
      BY <1>7, <1>9, <3>1
  <2>2. CASE t # s
    <3>1. t \in Of(c) /\ stop'[t] = stop[t]
      BY <1>5, <1>8, <2>2
    <3> QED
      BY <1>9, <3>1 DEF HeadersInv, StopsFollowHeader
  <2> QED
    BY <2>1, <2>2
<1>13. Blank'
  <2>1. \A c \in Code : Status(c)' = "none" => header'[c] = NoHeader /\ Of(c)' = {}
    BY <1>2, <1>7, <1>8, <1>9 DEF HeadersInv, Blank
  <2>2. \A t \in Stop : stop'[t].state = "none" => booking'[t] = NoBooking
    BY <1>1, <1>5 DEF HeadersInv, Blank, ShutdownTypeOK
  <2> QED
    BY <2>1, <2>2 DEF Blank
<1>14. WorksThrough(o)'
  BY <1>2, <1>6 DEF WorksThrough, Lingers, GoesOn, Reshapes
<1>15. Knows(o)'
  BY <1>2, <1>3, <1>14, CarriesLingers DEF Knows, GoesOn
<1>16. \A c \in Code : c # req[o].code => Shrinks(c)
  BY <1>5, <1>8, <1>11 DEF Shrinks
<1> QED
  BY <1>2, <1>10, <1>12, <1>13, <1>15, <1>16, HeadersStand

LEMMA SaveKeeps ==
  ASSUME DowntimeTypeOK, ShutdownTypeOK, HeadersInv, NEW o \in Operator, Aside(o), SaveShutdown(o)
  PROVE  /\ HeadersInv'
         /\ Alone(req[o].code) =>
               <<Status(req[o].code), req[o].sd.status>> \in
                  {<<"none", "planned">>, <<"planned", "planned">>, <<"planned", "in_progress">>,
                   <<"in_progress", "completed">>, <<"planned", "cancelled">>}
<1>1. PICK c \in Code, sd \in Header : c = req[o].code /\ sd = req[o].sd
  BY DEF SaveShutdown, At, ShutdownTypeOK, Request
<1>2. Passes(o, "save") /\ GoesOn(o) /\ req[o].stops = {} /\ KeepsLists(o)
  BY SaveIs DEF Passes
<1>3. UNCHANGED <<stop, booking, met>> /\ header' = [header EXCEPT ![c] = sd]
  BY <1>1 DEF SaveShutdown, downtimeVars
<1>4. Carries(o) /\ Knows(o) /\ (Alone(c) => Matches(o) /\ WorksThrough(o))
  BY <1>1, <1>2 DEF HeadersInv, GoesOn, Knows
<1>5. req[o].op \in {"create", "update", "agree", "start", "finish", "cancel", "jobs"}
  BY <1>2 DEF ShutdownTypeOK, Request, GoesOn
<1>6. req[o].op # "jobs" /\ req'[o].rest \in Course[req[o].op] /\ <<"save", Stage(o)'>> \in Follow[req[o].op]
  <2>1. req[o].op \in DOMAIN Course
    BY <1>5 DEF Course
  <2>2. <<"save", Stage(o)'>> \in Follow[req[o].op] /\ req'[o].rest \in Course[req[o].op]
    BY <1>2, <1>4, <2>1, Onwards DEF Passes, Stage, Carries
  <2> QED
    BY <2>2 DEF Follow
<1>7. Stage(o)' = IF Reshapes(o) THEN Stage(o)' ELSE "return"
  BY <1>5, <1>6 DEF Reshapes, Follow
<1>8. Stage(o)' # "save"
  BY <1>5, <1>6 DEF Follow
<1>9. ~Saved(o)
  BY <1>2, <1>6 DEF Saved, Passes
<1>10. /\ sd.status = To[req[o].op]
       /\ Alone(c) => Status(c) = From[req[o].op] /\ (Reshapes(o) => NoClash(c, sd))
       /\ Alone(c) /\ ~Reshapes(o) => sd.machines = header[c].machines /\ sd.window = header[c].window
  BY <1>1, <1>4, <1>6, <1>9 DEF Carries, Matches
<1>11. /\ sd.status = "in_progress" => req[o].op = "start"
       /\ sd.status = "completed" => req[o].op = "finish" /\ (Alone(c) => Status(c) = "in_progress")
       /\ sd.status = "cancelled" => req[o].op = "cancel"
       /\ sd.status # "none"
       /\ Alone(c) => <<Status(c), sd.status>> \in
                         {<<"none", "planned">>, <<"planned", "planned">>, <<"planned", "in_progress">>,
                          <<"in_progress", "completed">>, <<"planned", "cancelled">>}
       /\ Alone(c) /\ ~Reshapes(o) /\ sd.status \in Standing => Status(c) \in Standing
  BY <1>5, <1>6, <1>10 DEF From, To, Reshapes, Standing
<1>12. header'[c] = sd /\ \A d \in Code \ {c} : header'[d] = header[d]
  BY <1>3 DEF ShutdownTypeOK
<1>13. \A d : Alone(d)' <=> Alone(d)
  BY <1>3 DEF Alone
<1>14. ASSUME Alone(c), sd.status \in Standing PROVE NoClash(c, sd)
  <2>1. CASE Reshapes(o)
    BY <1>10, <1>14, <2>1
  <2>2. CASE ~Reshapes(o)
    <3>1. Status(c) \in Standing /\ sd.machines = header[c].machines /\ sd.window = header[c].window
      BY <1>10, <1>11, <1>14, <2>2
    <3> QED
      BY <1>14, <3>1 DEF HeadersInv, NoDoubleBooking, NoClash, Standing
  <2> QED
    BY <2>1, <2>2
<1>15. NoDoubleBooking'
  <2> SUFFICES ASSUME NEW d \in Code, NEW e \in Code, d # e, Alone(d), Alone(e), <<d, e>> \notin met,
                      header'[d].status \in Standing, header'[e].status \in Standing,
                      header'[d].window \cap header'[e].window # {}
               PROVE  header'[d].machines \cap header'[e].machines = {}
    BY <1>3, <1>13 DEF NoDoubleBooking, Status, Standing
  <2>0. <<e, d>> \notin met
    BY DEF HeadersInv, MetInv, Even
  <2>1. CASE d = c
    BY <1>12, <1>14, <2>1 DEF NoClash, Status
  <2>2. CASE e = c
    BY <1>12, <1>14, <2>0, <2>2 DEF NoClash, Status
  <2>3. CASE d # c /\ e # c
    BY <1>12, <2>3 DEF HeadersInv, NoDoubleBooking, Status, Standing
  <2> QED
    BY <2>1, <2>2, <2>3
<1>16. StopsFollowHeader'
  <2> SUFFICES ASSUME NEW d \in Code, NEW s \in Stop, s \in Of(d), Alone(d)
               PROVE  /\ header'[d].status \in {"in_progress", "completed", "cancelled"} => stop[s].state # "scheduled"
                      /\ header'[d].status = "completed" => stop[s].state # "open"
    BY <1>3, <1>13 DEF StopsFollowHeader, Of, Status
  <2>1. CASE d # c
    BY <1>12, <2>1 DEF HeadersInv, StopsFollowHeader, Status
  <2>2. CASE d = c
    <3>1. sd.status \in {"in_progress", "cancelled"} => stop[s].state # "scheduled"
      BY <1>1, <1>2, <1>4, <1>11, <2>2 DEF WorksThrough, Passes
    <3>2. sd.status = "completed" => stop[s].state # "scheduled" /\ stop[s].state # "open"
      BY <1>1, <1>2, <1>4, <1>11, <2>2 DEF WorksThrough, Passes, HeadersInv, StopsFollowHeader
    <3> QED
      BY <1>12, <2>2, <3>1, <3>2
  <2> QED
    BY <2>1, <2>2
<1>17. Blank'
  <2>1. \A d \in Code : Of(d)' = Of(d)
    BY <1>3 DEF Of
  <2>2. \A d \in Code : header'[d].status = "none" => header'[d] = NoHeader /\ Of(d) = {}
    BY <1>11, <1>12 DEF HeadersInv, Blank, Status
  <2> QED
    BY <1>3, <2>1, <2>2 DEF HeadersInv, Blank, Status
<1>18. Saved(o)' /\ header'[req'[o].code] = req'[o].sd /\ req'[o].code = c
  BY <1>1, <1>2, <1>7, <1>8, <1>12 DEF Saved, Passes, GoesOn, Reshapes
<1>19. Carries(o)'
  <2>1. ~Reshapes(o) => req[o].about = Asset
    BY <1>4 DEF Carries
  <2> QED
    BY <1>1, <1>2, <1>6, <1>10, <1>11, <1>12, <1>18, <2>1 DEF Carries, GoesOn, Reshapes, Status
<1>20. Matches(o)'
  BY <1>18 DEF Matches
<1>21. WorksThrough(o)'
  BY <1>2, <1>7, <1>8 DEF WorksThrough, Passes, GoesOn, Reshapes
<1>22. Knows(o)'
  BY <1>19, <1>20, <1>21 DEF Knows
<1>23. ASSUME NEW p \in Operator \ {o}, req'[p] # Idle PROVE Knows(p)'
  <2>1. req'[p] = req[p] /\ req[p] # Idle /\ req[o] # Idle
    BY <1>23 DEF Aside
  <2>2. PICK b \in Code : b = req[p].code
    BY <2>1 DEF ShutdownTypeOK, Request
  <2>3. /\ b = c => ~Alone(b)
        /\ Reshapes(o) /\ Reshapes(p) => <<b, c>> \in met
    BY <1>1, <2>1, <2>2, Apart DEF HeadersInv
  <2>4. \A d \in Code : Status(d) # "none" => header'[d].status # "none"
    BY <1>11, <1>12 DEF Status
  <2>5. Alone(b) => header'[b] = header[b] /\ Shrinks(b)
    BY <1>3, <1>12, <2>3 DEF Shrinks, Of
  <2>6. ASSUME NEW d \in Code \ {b}, Alone(d), <<b, d>> \notin met, Reshapes(p), header'[d].status \in Standing
        PROVE  /\ Status(d) \in Standing
               /\ header'[d].machines = header[d].machines /\ header'[d].window = header[d].window
    <3>1. CASE d # c
      BY <1>12, <2>6, <3>1 DEF Status
    <3>2. CASE d = c
      BY <1>10, <1>11, <1>12, <2>3, <2>6, <3>2
    <3> QED
      BY <3>1, <3>2
  <2> QED
    BY <1>3, <2>1, <2>2, <2>4, <2>5, <2>6, Bystander
<1>24. MetInv'
  BY <1>2, MetStays DEF HeadersInv
<1> QED
  BY <1>1, <1>11, <1>15, <1>16, <1>17, <1>22, <1>23, <1>24 DEF HeadersInv

LEMMA EndKeeps ==
  ASSUME ShutdownTypeOK, HeadersInv, NEW o \in Operator, Aside(o), Return(o) \/ Interrupt(o)
  PROVE  HeadersInv'
<1>1. UNCHANGED <<downtimeVars, header, booking>> /\ req'[o] = Idle
  BY DEF Return, Interrupt, ShutdownTypeOK
<1> QED
  BY <1>1, QuietKeeps DEF downtimeVars

LEMMA OthersKeep ==
  ASSUME DowntimeTypeOK, ShutdownTypeOK, HeadersInv,
         \/ \E s \in Stop : OtherStop(s)
         \/ \E j \in Job : CompleteJob(j)
         \/ \E e \in Edit : EditRead(e) \/ \E live \in BOOLEAN : EditWrite(e, live)
         \/ UNCHANGED shutdownVars
  PROVE  HeadersInv'
<1>1. UNCHANGED <<header, booking, req, met>>
  BY DEF OtherStop, CompleteJob, EditRead, EditWrite, shutdownOnly, shutdownVars
<1>2. NoDoubleBooking' /\ StopsFollowHeader' /\ Blank' /\ \A c \in Code : Shrinks(c)
  <2>1. ASSUME NEW s \in Stop, OtherStop(s)
        PROVE  NoDoubleBooking' /\ StopsFollowHeader' /\ Blank' /\ \A c \in Code : Shrinks(c)
    <3>1. StopNext(s) /\ (s \in Unplanned \/ booking[s] # NoBooking)
      BY <2>1 DEF OtherStop
    <3>2. stop[s].state # "none" \/ booking[s] = NoBooking
      BY DEF HeadersInv, Blank
    <3> QED
      BY <1>1, <3>1, <3>2, StopSteps, StopMoved
  <2>2. CASE UNCHANGED stop
    <3>1. \A c \in Code : Of(c)' = Of(c) /\ Status(c)' = Status(c) /\ (Alone(c)' <=> Alone(c))
      BY <1>1 DEF Of, Status, Alone
    <3>2. NoDoubleBooking'
      BY <1>1 DEF HeadersInv, NoDoubleBooking, Status, Alone
    <3>3. StopsFollowHeader' /\ Blank'
      BY <1>1, <2>2, <3>1 DEF HeadersInv, StopsFollowHeader, Blank
    <3> QED
      BY <2>2, <3>1, <3>2, <3>3 DEF Shrinks
  <2>3. (\E s \in Stop : OtherStop(s)) \/ UNCHANGED stop
    BY DEF CompleteJob, EditRead, EditWrite, shutdownVars, downtimeVars
  <2> QED
    BY <2>1, <2>2, <2>3
<1>3. MetInv'
  BY <1>1 DEF HeadersInv, MetInv, Even, InTheWay
<1>4. ASSUME NEW p \in Operator, req'[p] # Idle PROVE Knows(p)'
  <2>1. req'[p] = req[p] /\ req[p] # Idle /\ req[p].code \in Code
    BY <1>1, <1>4 DEF ShutdownTypeOK, Request
  <2> QED
    BY <1>1, <1>2, <2>1, Bystander DEF Status
<1> QED
  BY <1>2, <1>3, <1>4 DEF HeadersInv

-----------------------------------------------------------------------------
\* A request begins, and meets those it is in the way of.
Begins(o, op, c, sd, rest) ==
    /\ req[o] = Idle /\ req'[o] # Idle
    /\ req'[o].op = op /\ req'[o].code = c /\ req'[o].sd = sd /\ req'[o].rest = rest
    /\ req'[o].stops = {} /\ req'[o].row = {}
    /\ UNCHANGED <<stop, header, booking, job, edit, broken>>
    /\ \A p \in Operator \ {o} : req'[p] = req[p]
    /\ met \subseteq met' /\ (Even => Even')
    /\ \A p \in Operator : InTheWay(req'[o], req[p]) => <<c, req[p].code>> \in met'

LEMMA AcceptIs ==
  ASSUME ShutdownTypeOK, NEW o \in Operator, NEW op \in {"create", "update", "agree", "start", "finish", "cancel", "jobs"},
         NEW c, NEW sd, NEW rest, NEW plan, NEW about, NEW add, NEW take,
         Accept(o, [op |-> op, code |-> c, sd |-> sd, rest |-> rest, stops |-> {}, plan |-> plan,
                    about |-> about, add |-> add, take |-> take, row |-> {}])
  PROVE  /\ Begins(o, op, c, sd, rest)
         /\ req'[o].plan = plan /\ req'[o].about = about /\ req'[o].add = add /\ req'[o].take = take
<1>1. PICK q : q = [op |-> op, code |-> c, sd |-> sd, rest |-> rest, stops |-> {}, plan |-> plan,
                    about |-> about, add |-> add, take |-> take, row |-> {}]
  OBVIOUS
<1>2. /\ q.op = op /\ q.code = c /\ q.sd = sd /\ q.rest = rest /\ q.stops = {} /\ q.plan = plan
      /\ q.about = about /\ q.add = add /\ q.take = take /\ q.row = {}
  BY <1>1
<1>3. q # Idle
  BY <1>2 DEF Idle
<1>4. Accept(o, q)
  BY <1>1
<1>5. /\ req'[o] = q /\ req[o] = Idle /\ UNCHANGED <<stop, header, booking, job, edit, broken>>
      /\ \A p \in Operator \ {o} : req'[p] = req[p]
  BY <1>4 DEF Accept, ShutdownTypeOK, downtimeVars
<1>6. PICK others : /\ others = {req[p].code : p \in {p \in Operator : InTheWay(q, req[p])}}
                    /\ met' = met \cup ({c} \X others) \cup (others \X {c})
  BY <1>2, <1>4 DEF Accept
<1>7. met \subseteq met' /\ (Even => Even')
  BY <1>6 DEF Even
<1>8. \A p \in Operator : InTheWay(q, req[p]) => <<c, req[p].code>> \in met'
  BY <1>6
<1> QED
  BY <1>2, <1>3, <1>5, <1>7, <1>8 DEF Begins

LEMMA CreateIs ==
  ASSUME ShutdownTypeOK, NEW o \in Operator, NEW w \in Window, NEW machines \in SUBSET Asset,
         CreateShutdown(o, w, machines)
  PROVE  \E c \in Code, sd \in Header :
            /\ Begins(o, "create", c, sd, <<"save", "plan">>)
            /\ sd.status = "planned" /\ sd.machines = machines /\ sd.window = w
            /\ req'[o].plan = machines /\ req'[o].about = {} /\ req'[o].add = {} /\ req'[o].take = {}
            /\ Status(c) = "none" /\ Free(machines, w, NoCode)
<1>1. PICK c, sd : /\ c = NextCode(Start(w))
                   /\ sd = [status |-> "planned", machines |-> machines, window |-> w, agreed |-> {}]
  OBVIOUS
<1>2. c \in Code /\ Status(c) = "none" /\ Free(machines, w, NoCode)
  BY <1>1, NextCodeTyped DEF CreateShutdown
<1>3. sd \in Header /\ sd.status = "planned" /\ sd.machines = machines /\ sd.window = w
  BY <1>1 DEF Header, HeaderStatus
<1>4. Accept(o, [op |-> "create", code |-> c, sd |-> sd, rest |-> <<"save", "plan">>, stops |-> {}, plan |-> machines,
                 about |-> {}, add |-> {}, take |-> {}, row |-> {}])
  BY <1>1 DEF CreateShutdown, BeginChange
<1>5. /\ Begins(o, "create", c, sd, <<"save", "plan">>)
      /\ req'[o].plan = machines /\ req'[o].about = {} /\ req'[o].add = {} /\ req'[o].take = {}
  BY <1>4, AcceptIs
<1> QED
  BY <1>2, <1>3, <1>5

LEMMA UpdateIs ==
  ASSUME ShutdownTypeOK, NEW o \in Operator, NEW c \in Code, NEW w \in Window, NEW machines \in SUBSET Asset,
         UpdateShutdown(o, c, w, machines)
  PROVE  \E sd \in Header, rest \in Letting \cup Keeping :
            /\ Begins(o, "update", c, sd, rest)
            /\ sd.status = "planned" /\ sd.machines = machines /\ sd.window = w
            /\ req'[o].plan = machines \ header[c].machines
            /\ req'[o].about = header[c].machines \ machines
            /\ req'[o].add = {} /\ req'[o].take = {}
            /\ Mark(rest) = "save"
            /\ rest \in Staying => w = header[c].window
            /\ rest \in Keeping => header[c].machines \ machines = {}
            /\ Status(c) = "planned" /\ Free(machines, w, c)
<1>1. PICK sd, removed, rest, moving, letting :
         /\ sd = [header[c] EXCEPT !.window = w, !.machines = machines]
         /\ removed = header[c].machines \ machines
         /\ rest = <<"save">> \o If(moving, "move") \o <<"stops", "plan">> \o If(letting, "jobs")
         /\ moving = (w # header[c].window)
         /\ letting = (removed # {})
  OBVIOUS
<1>2. header[c] \in Header /\ header[c].status = "planned" /\ Free(machines, w, c)
  BY DEF UpdateShutdown, ShutdownTypeOK, Status
<1>3. sd \in Header /\ sd.status = "planned" /\ sd.machines = machines /\ sd.window = w
  BY <1>1, <1>2 DEF Header
<1>4. /\ moving /\ letting => rest = <<"save", "move", "stops", "plan", "jobs">>
      /\ ~moving /\ letting => rest = <<"save", "stops", "plan", "jobs">>
      /\ moving /\ ~letting => rest = <<"save", "move", "stops", "plan">>
      /\ ~moving /\ ~letting => rest = <<"save", "stops", "plan">>
  BY <1>1, UpdateRest
<1>5. Mark(rest) = "save" /\ (moving => Mark(Tail(rest)) = "move")
  <2>1. moving \in BOOLEAN /\ letting \in BOOLEAN
    BY <1>1
  <2>2. /\ Mark(<<"save", "move", "stops", "plan", "jobs">>) = "save"
        /\ Mark(<<"save", "stops", "plan", "jobs">>) = "save"
        /\ Mark(<<"save", "move", "stops", "plan">>) = "save"
        /\ Mark(<<"save", "stops", "plan">>) = "save"
        /\ Mark(Tail(<<"save", "move", "stops", "plan", "jobs">>)) = "move"
        /\ Mark(Tail(<<"save", "move", "stops", "plan">>)) = "move"
    BY DEF Mark
  <2> QED
    BY <1>4, <2>1, <2>2
<1>6. rest \in Staying => ~moving
  BY <1>5, Lasts
<1>7. (letting => rest \in Letting) /\ (~letting => rest \in Keeping)
  BY <1>4 DEF Letting, Keeping
<1>8. letting => rest \notin Keeping
  BY <1>7, Lasts
<1>9. Accept(o, [op |-> "update", code |-> c, sd |-> sd, rest |-> rest, stops |-> {},
                 plan |-> machines \ header[c].machines, about |-> removed,
                 add |-> {}, take |-> {}, row |-> {}])
  BY <1>1 DEF UpdateShutdown, BeginChange
<1>10. /\ Begins(o, "update", c, sd, rest)
       /\ req'[o].plan = machines \ header[c].machines /\ req'[o].about = removed
       /\ req'[o].add = {} /\ req'[o].take = {}
  BY <1>9, AcceptIs
<1> QED
  BY <1>1, <1>2, <1>3, <1>5, <1>6, <1>7, <1>8, <1>10 DEF Status

LEMMA ChangeIs ==
  ASSUME ShutdownTypeOK, NEW o \in Operator, NEW c \in Code,
         AgreeShutdown(o, c) \/ StartShutdown(o, c) \/ FinishShutdown(o, c) \/ CancelShutdown(o, c)
  PROVE  \E op \in {"agree", "start", "finish", "cancel"}, sd \in Header :
            /\ \E rest \in Course[op] : Begins(o, op, c, sd, rest)
            /\ sd.status = To[op] /\ sd.machines = header[c].machines /\ sd.window = header[c].window
            /\ req'[o].about = Asset /\ req'[o].add = {} /\ req'[o].take = {}
            /\ Stage(o)' = IF op = "agree" THEN "save" ELSE "stops"
            /\ Status(c) = From[op]
<1> DEFINE Goal(op, sd) ==
              /\ \E rest \in Course[op] : Begins(o, op, c, sd, rest)
              /\ sd.status = To[op] /\ sd.machines = header[c].machines /\ sd.window = header[c].window
              /\ req'[o].about = Asset /\ req'[o].add = {} /\ req'[o].take = {}
              /\ Stage(o)' = IF op = "agree" THEN "save" ELSE "stops"
              /\ Status(c) = From[op]
<1>1. header[c] \in Header
  BY DEF ShutdownTypeOK
<1>2. ASSUME NEW op \in {"agree", "start", "finish", "cancel"}, NEW sd, NEW rest \in Course[op],
             Begin(o, op, c, sd, rest),
             sd.status = To[op], sd.machines = header[c].machines, sd.window = header[c].window,
             Mark(rest) = IF op = "agree" THEN "save" ELSE "stops",
             Status(c) = From[op]
      PROVE  Goal(op, sd)
  <2>1. Begins(o, op, c, sd, rest) /\ req'[o].about = Asset /\ req'[o].add = {} /\ req'[o].take = {}
    BY <1>2, AcceptIs DEF Begin
  <2>2. Stage(o)' = Mark(rest)
    BY <2>1 DEF Stage, Begins
  <2> QED
    BY <1>2, <2>1, <2>2
<1>3. /\ <<"save">> \in Course["agree"] /\ Mark(<<"save">>) = "save"
      /\ <<"stops", "save">> \in Course["start"] /\ <<"stops", "save">> \in Course["finish"]
      /\ Mark(<<"stops", "save">>) = "stops"
      /\ <<"stops", "jobs", "save">> \in Course["cancel"] /\ Mark(<<"stops", "jobs", "save">>) = "stops"
  BY DEF Course, Mark
<1>4. ASSUME NEW s \in {"in_progress", "completed", "cancelled"}, NEW sd,
             sd = [header[c] EXCEPT !.status = s]
      PROVE  /\ sd \in Header /\ sd.status = s /\ sd.machines = header[c].machines
             /\ sd.window = header[c].window
  BY <1>1, <1>4 DEF Header, HeaderStatus
<1> SUFFICES \E op \in {"agree", "start", "finish", "cancel"}, sd \in Header : Goal(op, sd)
  OBVIOUS
<1> HIDE DEF Goal
<1>5. CASE AgreeShutdown(o, c)
  <2>1. PICK sd : sd = [header[c] EXCEPT !.agreed = header[c].window]
    OBVIOUS
  <2>2. Begin(o, "agree", c, sd, <<"save">>) /\ header[c].status = "planned"
    BY <1>5, <2>1 DEF AgreeShutdown, Status
  <2>3. sd \in Header /\ sd.status = "planned" /\ sd.machines = header[c].machines /\ sd.window = header[c].window
    BY <1>1, <2>1, <2>2 DEF Header
  <2>4. Goal("agree", sd)
    BY <1>2, <1>3, <2>2, <2>3 DEF From, To, Status
  <2> QED
    BY <2>3, <2>4
<1>6. CASE StartShutdown(o, c)
  <2>1. PICK sd : sd = [header[c] EXCEPT !.status = "in_progress"]
    OBVIOUS
  <2>2. Begin(o, "start", c, sd, <<"stops", "save">>) /\ Status(c) = "planned"
    BY <1>6, <2>1 DEF StartShutdown
  <2>3. sd \in Header /\ sd.status = "in_progress" /\ sd.machines = header[c].machines /\ sd.window = header[c].window
    BY <1>4, <2>1
  <2>4. Goal("start", sd)
    BY <1>2, <1>3, <2>2, <2>3 DEF From, To
  <2> QED
    BY <2>3, <2>4
<1>7. CASE FinishShutdown(o, c)
  <2>1. PICK sd : sd = [header[c] EXCEPT !.status = "completed"]
    OBVIOUS
  <2>2. Begin(o, "finish", c, sd, <<"stops", "save">>) /\ Status(c) = "in_progress"
    BY <1>7, <2>1 DEF FinishShutdown
  <2>3. sd \in Header /\ sd.status = "completed" /\ sd.machines = header[c].machines /\ sd.window = header[c].window
    BY <1>4, <2>1
  <2>4. Goal("finish", sd)
    BY <1>2, <1>3, <2>2, <2>3 DEF From, To
  <2> QED
    BY <2>3, <2>4
<1>8. CASE CancelShutdown(o, c)
  <2>1. PICK sd : sd = [header[c] EXCEPT !.status = "cancelled"]
    OBVIOUS
  <2>2. Begin(o, "cancel", c, sd, <<"stops", "jobs", "save">>) /\ Status(c) = "planned"
    BY <1>8, <2>1 DEF CancelShutdown
  <2>3. sd \in Header /\ sd.status = "cancelled" /\ sd.machines = header[c].machines /\ sd.window = header[c].window
    BY <1>4, <2>1
  <2>4. Goal("cancel", sd)
    BY <1>2, <1>3, <2>2, <2>3 DEF From, To
  <2> QED
    BY <2>3, <2>4
<1> QED
  BY <1>5, <1>6, <1>7, <1>8

LEMMA JobsIs ==
  ASSUME ShutdownTypeOK, NEW o \in Operator, NEW c \in Code, NEW add \in SUBSET Job, NEW take \in SUBSET Job,
         SetShutdownJobs(o, c, add, take)
  PROVE  /\ Begins(o, "jobs", c, header[c], <<>>) /\ req'[o].about = Asset
         /\ req'[o].add = add /\ req'[o].take = take
         /\ Status(c) \in Standing
<1>1. Accept(o, [op |-> "jobs", code |-> c, sd |-> header[c], rest |-> <<>>, stops |-> {},
                 plan |-> {}, about |-> Asset, add |-> add, take |-> take, row |-> {}])
  BY DEF SetShutdownJobs
<1>2. Begins(o, "jobs", c, header[c], <<>>) /\ req'[o].about = Asset /\ req'[o].add = add /\ req'[o].take = take
  BY <1>1, AcceptIs
<1> QED
  BY <1>2 DEF SetShutdownJobs, Standing

-----------------------------------------------------------------------------
LEMMA BeginsMet ==
  ASSUME MetInv, NEW o \in Operator, NEW op, NEW c, NEW sd, NEW rest, Begins(o, op, c, sd, rest)
  PROVE  MetInv'
<1>1. Even'
  BY DEF Begins, MetInv
<1>2. ASSUME NEW p \in Operator, NEW q \in Operator, p # q, req'[p] # Idle, InTheWay(req'[p], req'[q])
      PROVE  <<req'[p].code, req'[q].code>> \in met'
  <2>1. req'[q] # Idle
    BY <1>2 DEF InTheWay
  <2>2. CASE p = o
    BY <1>2, <2>2 DEF Begins
  <2>3. CASE q = o
    <3>1. InTheWay(req'[o], req[p]) /\ req'[p] = req[p]
      BY <1>2, <2>3 DEF Begins, InTheWay, Chooses
    <3> QED
      BY <1>1, <2>3, <3>1 DEF Begins, Even
  <2>4. CASE p # o /\ q # o
    <3>1. req'[p] = req[p] /\ req'[q] = req[q] /\ met \subseteq met'
      BY <2>4 DEF Begins
    <3> QED
      BY <1>2, <3>1 DEF MetInv
  <2> QED
    BY <2>2, <2>3, <2>4
<1> QED
  BY <1>1, <1>2 DEF MetInv

LEMMA PlansKeepHeaders ==
  ASSUME ShutdownTypeOK, HeadersInv, NEW o \in Operator, Plans(o)
  PROVE  HeadersInv'
<1>1. ASSUME NEW op, NEW c, NEW sd, NEW rest, Begins(o, op, c, sd, rest),
             Carries(o)' /\ (Alone(c) => Matches(o)'),
             op \in {"start", "cancel", "finish"} => Mark(rest) = "stops"
      PROVE  HeadersInv'
  <2>1. WorksThrough(o)'
    BY <1>1 DEF WorksThrough, Begins, Stage
  <2>2. \A d : Alone(d)' => Alone(d)
    BY <1>1 DEF Begins, Alone
  <2>3. Knows(o)'
    BY <1>1, <2>1, <2>2 DEF Knows, Begins
  <2>4. UNCHANGED <<stop, header, booking>> /\ met \subseteq met' /\ \A p \in Operator \ {o} : req'[p] = req[p]
    BY <1>1 DEF Begins
  <2>5. \A d \in Code : Of(d)' = Of(d) /\ Status(d)' = Status(d) /\ Shrinks(d)
    BY <2>4 DEF Of, Status, Shrinks
  <2>6. NoDoubleBooking'
    BY <2>2, <2>4 DEF HeadersInv, NoDoubleBooking, Status
  <2>7. StopsFollowHeader' /\ Blank'
    BY <2>2, <2>4, <2>5 DEF HeadersInv, StopsFollowHeader, Blank
  <2>8. ASSUME NEW p \in Operator \ {o}, req'[p] # Idle PROVE Knows(p)'
    <3>1. req'[p] = req[p] /\ req[p] # Idle /\ req[p].code \in Code
      BY <2>4, <2>8 DEF ShutdownTypeOK, Request
    <3> QED
      BY <2>4, <2>5, <3>1, Bystander DEF Status
  <2>9. MetInv'
    BY <1>1, BeginsMet DEF HeadersInv
  <2> QED
    BY <2>3, <2>6, <2>7, <2>8, <2>9 DEF HeadersInv
<1>2. ASSUME NEW machines, NEW w, NEW c \in Code, NEW self \in {c, NoCode}, NEW sd, Free(machines, w, self),
             sd.machines = machines, sd.window = w
      PROVE  NoClash(c, sd)
  <2>1. \A d \in Code : d # NoCode
    BY DEF Code, NoCode
  <2> QED
    BY <1>2, <2>1 DEF Free, NoClash, Standing
<1>3. ASSUME NEW c, NEW sd, NoClash(c, sd), header' = header, met \subseteq met'
      PROVE  NoClash(c, sd)'
  BY <1>3 DEF NoClash, Status, Alone
<1>4. ASSUME NEW w \in Window, NEW machines \in SUBSET Asset, CreateShutdown(o, w, machines)
      PROVE  HeadersInv'
  <2>1. PICK c \in Code, sd \in Header :
            /\ Begins(o, "create", c, sd, <<"save", "plan">>)
            /\ sd.status = "planned" /\ sd.machines = machines /\ sd.window = w
            /\ Status(c) = "none" /\ Free(machines, w, NoCode)
    BY <1>4, CreateIs
  <2>2. NoClash(c, sd)'
    BY <1>2, <1>3, <2>1 DEF Begins
  <2>3. Stage(o)' = "save"
    BY <2>1 DEF Begins, Stage, Mark
  <2>4. Carries(o)' /\ Matches(o)'
    BY <2>1, <2>2, <2>3 DEF Carries, Matches, Begins, Course, To, From, Saved, Reshapes, Status
  <2> QED
    BY <1>1, <2>1, <2>4
<1>5. ASSUME NEW c \in Code, NEW w \in Window, NEW machines \in SUBSET Asset, UpdateShutdown(o, c, w, machines)
      PROVE  HeadersInv'
  <2>1. PICK sd \in Header, rest \in Letting \cup Keeping :
            /\ Begins(o, "update", c, sd, rest)
            /\ sd.status = "planned" /\ sd.machines = machines /\ sd.window = w
            /\ Mark(rest) = "save"
            /\ Status(c) = "planned" /\ Free(machines, w, c)
    BY <1>5, UpdateIs
  <2>2. NoClash(c, sd)'
    BY <1>2, <1>3, <2>1 DEF Begins
  <2>3. Stage(o)' = "save"
    BY <2>1 DEF Begins, Stage
  <2>4. Carries(o)' /\ Matches(o)'
    BY <2>1, <2>2, <2>3 DEF Carries, Matches, Begins, Course, To, From, Saved, Reshapes, Status
  <2> QED
    BY <1>1, <2>1, <2>4
<1>6. ASSUME NEW c \in Code,
             AgreeShutdown(o, c) \/ StartShutdown(o, c) \/ FinishShutdown(o, c) \/ CancelShutdown(o, c)
      PROVE  HeadersInv'
  <2>1. PICK op \in {"agree", "start", "finish", "cancel"}, sd \in Header :
            /\ \E rest \in Course[op] : Begins(o, op, c, sd, rest)
            /\ sd.status = To[op] /\ sd.machines = header[c].machines /\ sd.window = header[c].window
            /\ req'[o].about = Asset
            /\ Stage(o)' = IF op = "agree" THEN "save" ELSE "stops"
            /\ Status(c) = From[op]
    BY <1>6, ChangeIs
  <2>2. PICK rest \in Course[op] : Begins(o, op, c, sd, rest)
    BY <2>1
  <2>3. From[op] # "none"
    BY DEF From
  <2>4. Carries(o)' /\ Matches(o)'
    BY <2>1, <2>2, <2>3 DEF Carries, Matches, Begins, Saved, Reshapes, Status
  <2>5. Mark(rest) = Stage(o)'
    BY <2>2 DEF Begins, Stage
  <2> QED
    BY <1>1, <2>1, <2>2, <2>4, <2>5
<1>7. ASSUME NEW c \in Code, NEW add \in SUBSET Job, NEW take \in SUBSET Job, SetShutdownJobs(o, c, add, take)
      PROVE  HeadersInv'
  <2>1. Begins(o, "jobs", c, header[c], <<>>) /\ req'[o].about = Asset /\ Status(c) \in Standing
    BY <1>7, JobsIs
  <2>2. Carries(o)' /\ Matches(o)'
    BY <2>1 DEF Carries, Matches, Begins, Saved, Stage, Mark, Reshapes, Status, Course, Standing
  <2> QED
    BY <1>1, <2>1, <2>2
<1> QED
  BY <1>4, <1>5, <1>6, <1>7 DEF Plans

LEMMA InitHeaders == ShutdownInit => HeadersInv
<1> SUFFICES ASSUME ShutdownInit PROVE HeadersInv
  OBVIOUS
<1>1. \A c \in Code : c # NoCode /\ Status(c) = "none" /\ header[c] = NoHeader
  <2>1. \A c \in Code : c # NoCode
    BY DEF Code, NoCode
  <2> QED
    BY <2>1 DEF ShutdownInit, Status, NoHeader
<1>2. \A c \in Code : Of(c) = {}
  BY <1>1 DEF ShutdownInit, Of, NoBooking
<1>3. MetInv
  BY DEF ShutdownInit, MetInv, Even, InTheWay
<1> QED
  BY <1>1, <1>2, <1>3 DEF HeadersInv, NoDoubleBooking, StopsFollowHeader, Blank, ShutdownInit

ShutInv == LogInv /\ ShutdownTypeOK /\ HeadersInv

LEMMA HeadersStep ==
  ASSUME ShutInv, [ShutdownNext]_shutdownVars
  PROVE  ShutInv'
<1>1. LogInv' /\ ShutdownTypeOK' /\ DowntimeTypeOK
  BY TypedStep DEF ShutInv, LogInv
<1>2. ASSUME NEW o \in Operator, Works(o) PROVE HeadersInv'
  BY <1>1, <1>2, WorksAside, SaveKeeps, PassKeeps, ListKeeps, WorkKeeps, PlanKeeps, LingerKeeps, EndKeeps
     DEF ShutInv, Works
<1>3. HeadersInv'
  BY <1>1, <1>2, PlansKeepHeaders, OthersKeep DEF ShutInv, ShutdownNext
<1> QED
  BY <1>1, <1>3 DEF ShutInv

\* Only saveShutdown writes a header.
LEMMA HeadersMove ==
  ASSUME ShutInv, [ShutdownNext]_shutdownVars
  PROVE  \A c \in Code :
            \/ <<c, c>> \in met'
            \/ header'[c].status = header[c].status
            \/ <<header[c].status, header'[c].status>> \in
                  {<<"none", "planned">>, <<"planned", "in_progress">>,
                   <<"in_progress", "completed">>, <<"planned", "cancelled">>}
<1>1. ASSUME NEW o \in Operator, SaveShutdown(o)
      PROVE  \A c \in Code :
                \/ <<c, c>> \in met'
                \/ header'[c].status = header[c].status
                \/ <<header[c].status, header'[c].status>> \in
                      {<<"none", "planned">>, <<"planned", "in_progress">>,
                       <<"in_progress", "completed">>, <<"planned", "cancelled">>}
  <2>1. Alone(req[o].code) =>
           <<Status(req[o].code), req[o].sd.status>> \in
               {<<"none", "planned">>, <<"planned", "planned">>, <<"planned", "in_progress">>,
                <<"in_progress", "completed">>, <<"planned", "cancelled">>}
    <3>1. Aside(o)
      BY <1>1, WorksAside DEF ShutInv, Works
    <3> QED
      BY <1>1, <3>1, SaveKeeps DEF ShutInv, LogInv
  <2>2. met' = met /\ \A c \in Code : header'[c] = IF c = req[o].code THEN req[o].sd ELSE header[c]
    BY <1>1 DEF SaveShutdown, ShutInv, ShutdownTypeOK
  <2> QED
    BY <2>1, <2>2 DEF Status, Alone
<1>2. ASSUME NEW o \in Operator, Plans(o) PROVE header' = header
  <2>1. \A request : Accept(o, request) => header' = header
    BY DEF Accept
  <2> HIDE DEF Accept
  <2> QED
    BY <1>2, <2>1 DEF Plans, CreateShutdown, UpdateShutdown, AgreeShutdown, StartShutdown, FinishShutdown,
                      CancelShutdown, SetShutdownJobs, Begin, BeginChange
<1>3. ASSUME NEW o \in Operator, Works(o), ~SaveShutdown(o) PROVE header' = header
  BY <1>3 DEF Works, MoveStops, ListStops, WorkStop, PlanStop, Planned, ListJobs, ReadJob, WriteJob,
              Return, Interrupt
<1>4. ASSUME \/ \E s \in Stop : OtherStop(s)
             \/ \E j \in Job : CompleteJob(j)
             \/ \E e \in Edit : EditRead(e) \/ \E live \in BOOLEAN : EditWrite(e, live)
             \/ UNCHANGED shutdownVars
      PROVE  header' = header
  BY <1>4 DEF OtherStop, CompleteJob, EditRead, EditWrite, shutdownOnly, shutdownVars
<1> QED
  BY <1>1, <1>2, <1>3, <1>4 DEF ShutdownNext

LEMMA HeadersAreInvariant == ShutdownSpec => []ShutInv
<1>1. ShutdownInit => ShutInv
  BY InitTyped, InitHeaders DEF ShutInv
<1>2. ShutInv /\ [ShutdownNext]_shutdownVars => ShutInv'
  BY HeadersStep
<1> QED
  BY <1>1, <1>2, PTL DEF ShutdownSpec

\* For any planners, their requests racing and cut short anywhere.  A machine is not
\* in two shutdowns that are planned or running in overlapping windows, unless
\* requests that chose their machines, or two about one of them, were in flight
\* together; unless two about one shutdown were, its header does not run ahead of
\* its stops, and it only goes forward.
THEOREM HeadersKeepTheirWord ==
  ShutdownSpec => [](NoDoubleBooking /\ StopsFollowHeader) /\ HeaderForward
<1>1. ShutInv => NoDoubleBooking /\ StopsFollowHeader
  BY DEF ShutInv, HeadersInv
<1>2. ShutInv /\ [ShutdownNext]_shutdownVars =>
         [\A c \in Code :
            \/ <<c, c>> \in met'
            \/ header'[c].status = header[c].status
            \/ <<header[c].status, header'[c].status>> \in
                  {<<"none", "planned">>, <<"planned", "in_progress">>,
                   <<"in_progress", "completed">>, <<"planned", "cancelled">>}]_shutdownVars
  BY HeadersMove
<1> QED
  BY <1>1, <1>2, HeadersAreInvariant, PTL DEF ShutdownSpec, HeaderForward

-----------------------------------------------------------------------------
\* No stop of c is planned anew, and those that are stay as they are.
PlansStay(c) ==
    /\ \A s \in Waiting(c)' : s \in Waiting(c) /\ booking'[s] = booking[s] /\ stop'[s].asset = stop[s].asset

LEMMA WindowsStay ==
  ASSUME NEW c \in Code, PlansStay(c), header'[c].machines = header[c].machines,
         header'[c].window = header[c].window
  PROVE  (Shows(c) => Shows(c)') /\ (Lone(c) => Lone(c)')
  BY DEF PlansStay, Shows, Lone

LEMMA OnlyOne ==
  ASSUME ShutInv, NEW c \in Code, Alone(c), NEW o \in About(c), NEW p \in About(c)
  PROVE  o = p
  BY Apart DEF ShutInv, HeadersInv, About

LEMMA ReplannedStays ==
  ASSUME NEW c \in Code, NEW p \in Operator, req[p].code = c, req'[p] = req[p], header'[c] = header[c],
         PlansStay(c), Replanned(p)
  PROVE  Replanned(p)'
<1>1. Stage(p)' = Stage(p) /\ req'[p].code = c
  BY DEF Stage
<1>2. \A s \in Waiting(c)' : s \in Waiting(c) /\ booking'[s] = booking[s] /\ stop'[s].asset = stop[s].asset
  BY DEF PlansStay
<1>3. Waiting(req[p].code)' = Waiting(c)' /\ Waiting(req[p].code) = Waiting(c)
  BY <1>1 DEF Waiting, Of
<1> QED
  BY <1>1, <1>2, <1>3 DEF Replanned

\* Those about c are as they were.
LEMMA PlanStays ==
  ASSUME NEW c \in Code, PlanOf(c), PlansStay(c), header'[c] = header[c],
         About(c)' = About(c), \A p \in About(c) : req'[p] = req[p]
  PROVE  PlanOf(c)'
<1>1. (Shows(c) => Shows(c)') /\ Lone(c)'
  BY WindowsStay DEF PlanOf
<1>2. ASSUME NEW p \in About(c) PROVE IF Reshapes(p)' THEN Replanned(p)' ELSE Shows(c)'
  <2>1. p \in Operator /\ req[p].code = c /\ req'[p] = req[p]
    BY DEF About
  <2>2. Reshapes(p)' <=> Reshapes(p)
    BY <2>1 DEF Reshapes
  <2>3. IF Reshapes(p) THEN Replanned(p) ELSE Shows(c)
    BY DEF PlanOf
  <2> QED
    BY <1>1, <2>1, <2>2, <2>3, ReplannedStays
<1> QED
  BY <1>1, <1>2 DEF PlanOf

LEMMA AboutStays ==
  ASSUME NEW o \in Operator, NEW c, \A p \in Operator \ {o} : req'[p] = req[p],
         req[o] = Idle \/ req[o].code # c, req'[o] = Idle \/ req'[o].code # c
  PROVE  About(c)' = About(c) /\ \A p \in About(c) : req'[p] = req[p]
  BY DEF About

\* A request about another shutdown.
LEMMA PlanElsewhere ==
  ASSUME NEW o \in Operator, NEW c \in Code, PlanOf(c), PlansStay(c), header'[c] = header[c],
         \A p \in Operator \ {o} : req'[p] = req[p],
         req[o] = Idle \/ req[o].code # c, req'[o] = Idle \/ req'[o].code # c
  PROVE  PlanOf(c)'
  BY AboutStays, PlanStays

LEMMA PlanHere ==
  ASSUME ShutInv, NEW o \in Operator, Aside(o), NEW c \in Code, Alone(c), GoesOn(o), c = req[o].code,
         PlanOf(c), Lone(c)',
         (IF Reshapes(o) THEN Replanned(o) => Replanned(o)' ELSE Shows(c) => Shows(c)')
  PROVE  PlanOf(c)'
<1>1. o \in About(c) /\ o \in About(c)'
  BY DEF About, GoesOn
<1>2. ASSUME NEW p \in About(c)' PROVE p = o
  <2>1. p # o => p \in About(c)
    BY DEF About, Aside
  <2> QED
    BY <1>1, <2>1, OnlyOne
<1>3. Reshapes(o)' <=> Reshapes(o)
  BY DEF Reshapes, GoesOn
<1>4. IF Reshapes(o) THEN Replanned(o) ELSE Shows(c)
  BY <1>1 DEF PlanOf
<1> QED
  BY <1>1, <1>2, <1>3, <1>4 DEF PlanOf

LEMMA ChangesStay ==
  ASSUME ShutInv, NEW o \in Operator, GoesOn(o), req[o] # Idle /\ Reshapes(o) => Changes(o),
         req'[o].plan \subseteq req[o].plan,
         \/ req'[o].rest = req[o].rest /\ header'[req[o].code] = header[req[o].code]
         \/ req[o].rest # <<>> /\ req'[o].rest = Tail(req[o].rest)
  PROVE  req'[o] # Idle /\ Reshapes(o)' => Changes(o)'
<1> SUFFICES ASSUME Reshapes(o)' PROVE Changes(o)'
  OBVIOUS
<1>1. Reshapes(o) /\ Changes(o) /\ Carries(o)
  BY DEF Reshapes, GoesOn, ShutInv, HeadersInv, Knows
<1>2. req[o].op \in DOMAIN Course /\ req[o].op \in {"create", "update"}
  BY <1>1 DEF Reshapes, Course
<1>3. CASE req'[o].rest = req[o].rest /\ header'[req[o].code] = header[req[o].code]
  BY <1>1, <1>3 DEF Changes, GoesOn, Stage
<1>4. CASE req[o].rest # <<>> /\ req'[o].rest = Tail(req[o].rest)
  <2>1. /\ <<Stage(o), Stage(o)'>> \in Follow[req[o].op]
        /\ req[o].op = "update" /\ req'[o].rest \in Keeping => req[o].rest \in Keeping
    BY <1>1, <1>2, <1>4, Onwards DEF Carries, Stage
  <2>2. Stage(o)' # "save"
    BY <1>2, <2>1 DEF Follow
  <2>3. req'[o].rest \notin Staying
    BY <2>2, Lasts DEF Stage
  <2> QED
    BY <1>1, <1>2, <2>1, <2>2, <2>3 DEF Changes, GoesOn
<1> QED
  BY <1>3, <1>4

\* Of the statements that leave stops, codes and windows alone.
LEMMA PassingPlan ==
  ASSUME ShutInv, NEW o \in Operator, Aside(o), NEW c \in Code, Alone(c), GoesOn(o), c = req[o].code, PlanOf(c),
         UNCHANGED <<header, stop, booking>>,
         Reshapes(o) /\ Replanned(o) => Replanned(o)'
  PROVE  PlanOf(c)'
<1>1. PlansStay(c)
  BY DEF PlansStay, Waiting, Of
<1> QED
  BY <1>1, WindowsStay, PlanHere DEF PlanOf

LEMMA StandsStill ==
  ASSUME NEW c \in Code, UNCHANGED <<stop, booking>>
  PROVE  PlansStay(c) /\ Waiting(c)' = Waiting(c)
  BY DEF PlansStay, Waiting, Of

LEMMA SavePlan ==
  ASSUME ShutInv, PlanInv, NEW o \in Operator, Aside(o), NEW c \in Code \ broken, Alone(c), SaveShutdown(o)
  PROVE  PlanOf(c)'
<1>1. UNCHANGED <<stop, booking, broken>> /\ header' = [header EXCEPT ![req[o].code] = req[o].sd]
  BY DEF SaveShutdown, downtimeVars
<1>2. Passes(o, "save") /\ GoesOn(o) /\ KeepsLists(o)
  BY SaveIs DEF Passes, ShutInv
<1>3. PlanOf(c) /\ PlansStay(c) /\ Waiting(c)' = Waiting(c)
  BY <1>1, StandsStill DEF PlanInv
<1>4. CASE c # req[o].code
  BY <1>1, <1>2, <1>3, <1>4, PlanElsewhere DEF Aside, GoesOn, ShutInv, ShutdownTypeOK
<1>5. CASE c = req[o].code
  <2>1. header'[c] = req[o].sd /\ Carries(o) /\ Matches(o)
    BY <1>1, <1>2, <1>5 DEF ShutInv, ShutdownTypeOK, HeadersInv, GoesOn, Knows
  <2>2. Lone(c)'
    BY <1>3 DEF Lone, PlansStay, PlanOf
  <2>3. ASSUME ~Reshapes(o), Shows(c) PROVE Shows(c)'
    BY <1>3, <1>5, <2>1, <2>3 DEF Shows, PlansStay, Matches
  <2>4. ASSUME Reshapes(o), Replanned(o) PROVE Replanned(o)'
    <3>1. Changes(o) /\ req[o].op \in {"create", "update"} /\ req[o].op \in DOMAIN Course
      BY <1>2, <1>5, <2>4 DEF PlanInv, GoesOn, Reshapes, Course
    <3>2. /\ <<"save", Stage(o)'>> \in Follow[req[o].op]
          /\ req[o].op = "update" /\ Stage(o)' = "stops" => req[o].rest \in Staying
      BY <1>2, <2>1, <3>1, Onwards DEF Passes, Stage, Carries
    <3>3. CASE req[o].op = "create"
      <4>1. Status(c) = "none"
        BY <1>2, <1>5, <2>1, <3>3 DEF Matches, Saved, Passes, From, Reshapes
      <4>2. Waiting(c) = {}
        BY <4>1 DEF ShutInv, HeadersInv, Blank, Waiting
      <4> QED
        BY <1>2, <1>3, <1>5, <4>2 DEF Replanned, GoesOn
    <3>4. CASE req[o].op = "update"
      <4>1. Stage(o)' \in {"move", "stops"}
        BY <3>2, <3>4 DEF Follow
      <4>2. Stage(o)' = "stops" => req[o].sd.window = header[c].window
        BY <1>5, <3>1, <3>2, <3>4 DEF Changes
      <4> QED
        BY <1>1, <1>2, <1>3, <1>5, <2>4, <4>1, <4>2 DEF Replanned, GoesOn, Passes, KeepsLists, PlansStay
    <3> QED
      BY <3>1, <3>3, <3>4
  <2> QED
    BY <1>2, <1>3, <1>5, <2>2, <2>3, <2>4, PlanHere
<1> QED
  BY <1>4, <1>5

LEMMA MovePlan ==
  ASSUME ShutInv, PlanInv, NEW o \in Operator, Aside(o), NEW c \in Code \ broken, Alone(c), MoveStops(o)
  PROVE  PlanOf(c)'
<1>1. /\ UNCHANGED <<stop, header, broken>>
      /\ \A s \in Stop : booking'[s] = IF booking[s].code = req[o].code /\ stop[s].state = "scheduled"
                                       THEN [booking[s] EXCEPT !.window = req[o].sd.window]
                                       ELSE booking[s]
  BY DEF MoveStops, downtimeVars
<1>2. Passes(o, "move") /\ GoesOn(o) /\ KeepsLists(o)
  BY MoveIs DEF Passes, ShutInv
<1>3. PlanOf(c) /\ Carries(o)
  BY <1>2 DEF PlanInv, ShutInv, HeadersInv, GoesOn, Knows
<1>4. \A s \in Stop : booking[s] \in Booking
  BY DEF ShutInv, ShutdownTypeOK
<1>5. Waiting(c)' = Waiting(c)
  BY <1>1, <1>4 DEF Waiting, Of, Booking
<1>6. CASE c # req[o].code
  <2>1. PlansStay(c)
    BY <1>1, <1>5, <1>6 DEF PlansStay, Waiting, Of
  <2> QED
    BY <1>1, <1>2, <1>3, <1>6, <2>1, PlanElsewhere DEF Aside, GoesOn
<1>7. CASE c = req[o].code
  <2>1. Lone(c)'
    BY <1>1, <1>3, <1>5 DEF Lone, PlanOf
  <2>2. /\ <<"move", Stage(o)'>> \in Follow[req[o].op]
        /\ req[o].op \in DOMAIN Follow
    BY <1>2, <1>3, Onwards DEF Passes, Stage, Carries, ShutInv, ShutdownTypeOK, Request, GoesOn, Course, Follow
  <2>3. req[o].op = "update" /\ Stage(o)' = "stops"
    BY <2>2 DEF Follow
  <2>4. \A s \in Waiting(c) : booking'[s].window = req[o].sd.window
    BY <1>1, <1>4, <1>7 DEF Waiting, Of, Booking
  <2>5. Replanned(o) => Replanned(o)'
    BY <1>1, <1>2, <1>5, <1>7, <2>3, <2>4 DEF Replanned, Passes, GoesOn, KeepsLists
  <2> QED
    BY <1>2, <1>3, <1>7, <2>1, <2>3, <2>5, PlanHere DEF Reshapes
<1> QED
  BY <1>6, <1>7

LEMMA ListPlan ==
  ASSUME ShutInv, PlanInv, NEW o \in Operator, Aside(o), NEW c \in Code \ broken, Alone(c), ListStops(o)
  PROVE  PlanOf(c)'
<1>1. UNCHANGED <<stop, header, booking, broken>>
  BY DEF ListStops, downtimeVars
<1>2. Passes(o, "stops") /\ GoesOn(o) /\ req'[o].plan = req[o].plan
  BY ListStopsIs DEF Passes, ShutInv
<1>3. PlanOf(c) /\ Carries(o) /\ PlansStay(c) /\ Waiting(c)' = Waiting(c)
  BY <1>1, <1>2, StandsStill DEF PlanInv, ShutInv, HeadersInv, GoesOn, Knows
<1>4. CASE c # req[o].code
  BY <1>1, <1>2, <1>3, <1>4, PlanElsewhere DEF Aside, GoesOn
<1>5. CASE c = req[o].code
  <2>1. ASSUME Reshapes(o), Replanned(o) PROVE Replanned(o)'
    <3>1. /\ <<"stops", Stage(o)'>> \in Follow[req[o].op]
          /\ req[o].op \in {"create", "update"}
      BY <1>2, <1>3, <2>1, Onwards DEF Passes, Stage, Carries, Reshapes, Course
    <3>2. Stage(o)' = "plan" /\ req[o].op # "finish"
      BY <3>1 DEF Follow
    <3>3. \A s \in Waiting(c) : stop[s].asset \in req[o].about => s \in req'[o].stops
      BY <1>5, <3>2, ListStopsIs DEF Waiting, Of, ShutInv
    <3> QED
      BY <1>1, <1>2, <1>3, <1>5, <2>1, <3>2, <3>3 DEF Replanned, GoesOn, Passes
  <2> QED
    BY <1>1, <1>2, <1>3, <1>5, <2>1, PassingPlan
<1> QED
  BY <1>4, <1>5

LEMMA WorkPlan ==
  ASSUME ShutInv, PlanInv, NEW o \in Operator, Aside(o), NEW c \in Code \ broken, Alone(c), WorkStop(o)
  PROVE  PlanOf(c)'
<1>1. PICK s \in Stop : /\ s \in req[o].stops /\ req'[o].stops = req[o].stops \ {s}
                        /\ \/ req[o].op = "start" /\ StartDowntimeEvent(s)
                           \/ req[o].op = "finish" /\ EndDowntimeEvent(s)
                           \/ req[o].op \in {"update", "cancel"} /\ CancelDowntimeEvent(s)
  BY WorkIs DEF ShutInv
<1>2. Lingers(o) /\ GoesOn(o) /\ req'[o].plan = req[o].plan /\ UNCHANGED <<header, booking, broken>>
  BY WorkIs DEF WorkStop, ShutInv, Lingers
<1>3. /\ \A t \in Stop \ {s} : stop'[t] = stop[t]
      /\ stop'[s].state \in {"open", "closed", "cancelled"}
  BY <1>1, StopSteps DEF StopNext, ShutInv, LogInv
<1>4. Waiting(c)' = Waiting(c) \ {s} /\ PlansStay(c)
  BY <1>2, <1>3 DEF PlansStay, Waiting, Of
<1>5. PlanOf(c) /\ Stage(o)' = Stage(o)
  BY <1>2 DEF PlanInv, Lingers, Stage, Mark
<1>6. CASE c # req[o].code
  BY <1>2, <1>4, <1>5, <1>6, PlanElsewhere DEF Aside, GoesOn
<1>7. CASE c = req[o].code
  <2>1. Replanned(o) => Replanned(o)'
    BY <1>1, <1>2, <1>4, <1>5, <1>7 DEF Replanned, GoesOn, PlansStay
  <2>2. Lone(c)' /\ (Shows(c) => Shows(c)')
    BY <1>2, <1>4, <1>5, WindowsStay DEF PlanOf
  <2> QED
    BY <1>2, <1>5, <1>7, <2>1, <2>2, PlanHere
<1> QED
  BY <1>6, <1>7

LEMMA AddPlan ==
  ASSUME ShutInv, PlanInv, NEW o \in Operator, Aside(o), NEW c \in Code \ broken, Alone(c), PlanStop(o)
  PROVE  PlanOf(c)'
<1>1. PICK s \in Stop :
         /\ stop[s].asset \in req[o].plan /\ CreateScheduled(s)
         /\ booking' = [booking EXCEPT ![s] = [code |-> req[o].code, window |-> req[o].sd.window]]
         /\ req'[o].plan = req[o].plan \ {stop[s].asset}
  BY PlanIs DEF ShutInv
<1>2. Lingers(o) /\ GoesOn(o) /\ Stage(o) = "plan" /\ req[o].stops = {} /\ UNCHANGED <<header, broken>>
  BY PlanIs DEF PlanStop, ShutInv, Lingers
<1>3. Stage(o)' = Stage(o) /\ PlanOf(c) /\ Carries(o)
  BY <1>2 DEF PlanInv, Lingers, Stage, Mark, ShutInv, HeadersInv, GoesOn, Knows
<1>4. /\ \A t \in Stop \ {s} : stop'[t] = stop[t] /\ booking'[t] = booking[t]
      /\ stop'[s].state = "scheduled" /\ stop[s].state = "none" /\ stop'[s].asset = stop[s].asset
      /\ booking'[s].code = req[o].code /\ booking'[s].window = req[o].sd.window
  <2>1. /\ \A t \in Stop \ {s} : booking'[t] = booking[t]
        /\ booking'[s] = [code |-> req[o].code, window |-> req[o].sd.window]
    BY <1>1 DEF ShutInv, ShutdownTypeOK
  <2>2. booking'[s].code = req[o].code /\ booking'[s].window = req[o].sd.window
    BY <2>1
  <2> QED
    BY <1>1, <2>1, <2>2, StopSteps DEF StopNext, ShutInv, LogInv
<1>5. s \notin Waiting(c)
  BY <1>4 DEF Waiting
<1>6. CASE c # req[o].code
  <2>1. PlansStay(c)
    BY <1>4, <1>6 DEF PlansStay, Waiting, Of
  <2> QED
    BY <1>2, <1>3, <1>6, <2>1, PlanElsewhere DEF Aside, GoesOn
<1>7. CASE c = req[o].code
  <2>1. Waiting(c)' = Waiting(c) \cup {s}
    BY <1>4, <1>5, <1>7 DEF Waiting, Of
  <2>2. req[o].op \in {"create", "update"}
    <3>1. <<"plan", Mark(Tail(req[o].rest))>> \in Follow[req[o].op] /\ req[o].op \in DOMAIN Follow
      <4>1. req[o].rest # <<>> /\ req[o].op \in DOMAIN Course /\ req[o].op \in DOMAIN Follow
        BY <1>2 DEF Stage, Mark, ShutInv, ShutdownTypeOK, Request, GoesOn, Course, Follow
      <4> QED
        BY <1>2, <1>3, <4>1, Onwards DEF Stage, Carries
    <3> QED
      BY <3>1 DEF Follow
  <2>3. Reshapes(o) /\ Changes(o) /\ Replanned(o)
    BY <1>2, <1>3, <1>7, <2>2 DEF Reshapes, PlanInv, PlanOf, About, GoesOn
  <2>4. \A t \in Waiting(c) : /\ stop[t].asset \in req[o].sd.machines \ req[o].plan
                              /\ booking[t].window = req[o].sd.window
    BY <1>2, <1>7, <2>3 DEF Replanned
  <2>5. Lone(c)'
    BY <1>1, <1>3, <1>4, <2>1, <2>4 DEF Lone, PlanOf, Waiting, Of
  <2>6. \A t \in Waiting(c)' : /\ stop'[t].asset \in req[o].sd.machines \ req'[o].plan
                               /\ booking'[t].window = req[o].sd.window
    <3>1. req[o].plan \subseteq req[o].sd.machines
      BY <2>3 DEF Changes
    <3>2. \A t \in Waiting(c) : t \in Stop \ {s}
      BY <1>5 DEF Waiting, Of
    <3> QED
      BY <1>1, <1>4, <2>1, <2>4, <3>1, <3>2
  <2>7. Replanned(o)'
    BY <1>2, <1>3, <1>7, <2>6 DEF Replanned, GoesOn
  <2> QED
    BY <1>2, <1>3, <1>7, <2>3, <2>5, <2>7, PlanHere
<1> QED
  BY <1>6, <1>7

LEMMA PassPlan ==
  ASSUME ShutInv, PlanInv, NEW o \in Operator, Aside(o), NEW c \in Code \ broken, Alone(c),
         Planned(o) \/ ListJobs(o) \/ ReadJob(o) \/ WriteJob(o)
  PROVE  PlanOf(c)'
<1>1. UNCHANGED <<stop, header, booking, broken>>
  BY DEF Planned, ListJobs, ReadJob, WriteJob, downtimeVars
<1>2. GoesOn(o) /\ KeepsLists(o)
  BY PlannedIs, ListJobsIs, ReadIs, WriteIs DEF Passes, Lingers, ShutInv
<1>3. PlanOf(c) /\ Carries(o) /\ PlansStay(c) /\ Waiting(c)' = Waiting(c)
  BY <1>1, <1>2, StandsStill DEF PlanInv, ShutInv, HeadersInv, GoesOn, Knows
<1>4. CASE c # req[o].code
  BY <1>1, <1>2, <1>3, <1>4, PlanElsewhere DEF Aside, GoesOn
<1>5. CASE c = req[o].code
  <2>1. ASSUME Reshapes(o), Replanned(o) PROVE Replanned(o)'
    <3>1. CASE ReadJob(o) \/ WriteJob(o)
      <4>1. Stage(o)' = Stage(o)
        BY <3>1, ReadIs, WriteIs DEF Lingers, Stage, Mark, ShutInv
      <4> QED
        BY <1>1, <1>2, <1>3, <1>5, <2>1, <4>1 DEF Replanned, GoesOn, KeepsLists
    <3>2. CASE Planned(o) \/ ListJobs(o)
      <4>1. PICK p \in {"plan", "jobs"} : Passes(o, p) /\ (p = "plan" => req[o].plan = {})
        BY <3>2, PlannedIs, ListJobsIs DEF ShutInv
      <4>2. <<p, Stage(o)'>> \in Follow[req[o].op] /\ req[o].op \in {"create", "update"}
        BY <1>3, <2>1, <4>1, Onwards DEF Passes, Stage, Carries, Reshapes, Course
      <4>3. Stage(o) = p /\ req[o].stops = {} /\ Stage(o)' \in {"jobs", "return"}
        BY <4>1, <4>2 DEF Follow, Passes
      <4> QED
        BY <1>1, <1>2, <1>3, <1>5, <2>1, <4>1, <4>3 DEF Replanned, GoesOn, KeepsLists
    <3> QED
      BY <3>1, <3>2
  <2> QED
    BY <1>1, <1>2, <1>3, <1>5, <2>1, PassingPlan
<1> QED
  BY <1>4, <1>5

LEMMA EndPlan ==
  ASSUME ShutInv, PlanInv, NEW o \in Operator, Aside(o), NEW c \in Code, Alone(c),
         c \notin broken', Return(o) \/ Interrupt(o)
  PROVE  PlanOf(c)'
<1>1. /\ UNCHANGED <<stop, header, booking>> /\ req[o] # Idle /\ req'[o] = Idle
      /\ c \notin broken /\ (Interrupt(o) => c # req[o].code)
  BY DEF Return, Interrupt, downtimeVars, ShutInv, ShutdownTypeOK
<1>2. PlanOf(c) /\ Knows(o) /\ PlansStay(c) /\ Waiting(c)' = Waiting(c)
  BY <1>1, StandsStill DEF PlanInv, ShutInv, HeadersInv
<1>3. CASE c # req[o].code
  BY <1>1, <1>2, <1>3, PlanElsewhere DEF Aside
<1>4. CASE c = req[o].code
  <2>1. Stage(o) = "return"
    BY <1>1, <1>4 DEF Return, Stage, Mark
  <2>2. header[c] = req[o].sd
    BY <1>2, <1>4, <2>1 DEF Knows, Matches, Saved
  <2>3. Shows(c)
    <3>1. Reshapes(o) => Replanned(o)
      BY <1>1, <1>2, <1>4 DEF PlanOf, About
    <3>2. ~Reshapes(o) => Shows(c)
      BY <1>1, <1>2, <1>4 DEF PlanOf, About
    <3> QED
      BY <1>4, <2>1, <2>2, <3>1, <3>2 DEF Replanned, Shows
  <2>4. Shows(c)' /\ Lone(c)'
    BY <1>1, <1>2, <2>3, WindowsStay DEF PlanOf
  <2>5. About(c)' = {}
    <3>1. \A p \in About(c)' : p # o /\ p \in About(c) /\ o \in About(c)
      BY <1>1, <1>4 DEF About, Aside
    <3> QED
      BY <3>1, OnlyOne
  <2> QED
    BY <2>4, <2>5 DEF PlanOf
<1> QED
  BY <1>3, <1>4

LEMMA ChangesKept ==
  ASSUME NEW p \in Operator, req'[p] = req[p], header'[req[p].code] = header[req[p].code], Changes(p)
  PROVE  Changes(p)'
  BY DEF Changes, Stage

\* A request that begins alone finds nobody about its shutdown.
LEMMA BeginsAlone ==
  ASSUME NEW o \in Operator, NEW op, NEW c, NEW sd, NEW rest, Begins(o, op, c, sd, rest), Alone(c)'
  PROVE  /\ Alone(c) /\ About(c) = {}
         /\ o \in About(c)' /\ \A p \in About(c)' : p = o
<1>1. Alone(c)
  BY DEF Begins, Alone
<1>2. About(c) = {}
  BY DEF Begins, Alone, About, InTheWay
<1> QED
  BY <1>1, <1>2 DEF Begins, About

LEMMA BeginPlan ==
  ASSUME ShutInv, PlanInv, NEW o \in Operator, Plans(o)
  PROVE  PlanInv'
<1>1. ASSUME NEW op, NEW d \in Code, NEW sd, NEW rest, Begins(o, op, d, sd, rest),
             op \in {"create", "update"} =>
                /\ Changes(o)' /\ Mark(rest) = "save"
                /\ \A s \in Waiting(d) : /\ stop[s].asset \in header[d].machines
                                         /\ booking[s].window = header[d].window
                                         => /\ stop[s].asset \in (sd.machines \ req'[o].plan) \cup req'[o].about
      PROVE  PlanInv'
  <2>1. /\ UNCHANGED <<stop, booking, header, broken>> /\ req[o] = Idle /\ req'[o] # Idle
        /\ req'[o].code = d /\ req'[o].op = op /\ req'[o].sd = sd /\ req'[o].rest = rest
    BY <1>1 DEF Begins
  <2>2. ASSUME NEW c \in Code \ broken, Alone(c)' PROVE PlanOf(c)'
    <3>1. PlanOf(c) /\ PlansStay(c) /\ Waiting(c)' = Waiting(c)
      <4>1. Alone(c)
        BY <1>1, <2>2 DEF Begins, Alone
      <4> QED
        BY <2>1, <4>1, StandsStill DEF PlanInv
    <3>2. CASE c # d
      BY <1>1, <2>1, <3>1, <3>2, PlanElsewhere DEF Begins
    <3>3. CASE c = d
      <4>1. About(c) = {} /\ \A p \in About(c)' : p = o
        BY <1>1, <2>2, <3>3, BeginsAlone
      <4>2. Shows(c) /\ Lone(c) /\ Shows(c)' /\ Lone(c)'
        BY <2>1, <3>1, <4>1, WindowsStay DEF PlanOf
      <4>3. Reshapes(o)' => Replanned(o)'
        <5>1. Reshapes(o)' => Stage(o)' = "save"
          BY <1>1, <2>1 DEF Reshapes, Stage
        <5>2. Reshapes(o)' => op \in {"create", "update"}
          BY <2>1 DEF Reshapes
        <5> QED
          BY <1>1, <2>1, <3>1, <3>3, <4>2, <5>1, <5>2 DEF Replanned, Shows
      <4>4. o \in About(c)'
        BY <2>1, <3>3 DEF About
      <4> QED
        BY <4>1, <4>2, <4>3, <4>4 DEF PlanOf
    <3> QED
      BY <3>2, <3>3
  <2>3. Reshapes(o)' => Changes(o)'
    BY <1>1, <2>1 DEF Reshapes
  <2>4. ASSUME NEW p \in Operator \ {o}, req'[p] # Idle, Reshapes(p)', Alone(req[p].code)' PROVE Changes(p)'
    <3>1. req'[p] = req[p] /\ req[p] # Idle /\ Reshapes(p) /\ Alone(req[p].code)
      BY <1>1, <2>4 DEF Begins, Reshapes, Alone
    <3> QED
      BY <2>1, <3>1, ChangesKept DEF PlanInv
  <2> QED
    BY <2>1, <2>2, <2>3, <2>4 DEF PlanInv
<1>2. ASSUME NEW w \in Window, NEW machines \in SUBSET Asset, CreateShutdown(o, w, machines)
      PROVE  PlanInv'
  <2>1. PICK c \in Code, sd \in Header :
            /\ Begins(o, "create", c, sd, <<"save", "plan">>)
            /\ sd.status = "planned" /\ sd.machines = machines /\ sd.window = w
            /\ req'[o].plan = machines /\ req'[o].about = {}
            /\ Status(c) = "none" /\ Free(machines, w, NoCode)
    BY <1>2, CreateIs DEF ShutInv
  <2>2. Waiting(c) = {} /\ header[c].machines = {}
    BY <2>1 DEF ShutInv, HeadersInv, Blank, Waiting, NoHeader
  <2>3. Mark(<<"save", "plan">>) = "save" /\ <<"save", "plan">> \notin Staying /\ Mark(Tail(<<"save", "plan">>)) = "plan"
    <3>1. Mark(<<"save", "plan">>) = "save" /\ Mark(Tail(<<"save", "plan">>)) = "plan"
      BY DEF Mark
    <3> QED
      BY <3>1, Lasts
  <2>4. Changes(o)'
    BY <2>1, <2>2, <2>3 DEF Changes, Begins
  <2> QED
    BY <1>1, <2>1, <2>2, <2>3, <2>4
<1>3. ASSUME NEW c \in Code, NEW w \in Window, NEW machines \in SUBSET Asset, UpdateShutdown(o, c, w, machines)
      PROVE  PlanInv'
  <2>1. PICK sd \in Header, rest \in Letting \cup Keeping :
            /\ Begins(o, "update", c, sd, rest)
            /\ sd.machines = machines /\ sd.window = w
            /\ req'[o].plan = machines \ header[c].machines
            /\ req'[o].about = header[c].machines \ machines
            /\ Mark(rest) = "save"
            /\ rest \in Staying => w = header[c].window
            /\ rest \in Keeping => header[c].machines \ machines = {}
    BY <1>3, UpdateIs DEF ShutInv
  <2>2. header[c].machines \subseteq (machines \ req'[o].plan) \cup req'[o].about
    BY <2>1
  <2>3. Changes(o)'
    BY <2>1, <2>2 DEF Changes, Begins
  <2> QED
    BY <1>1, <2>1, <2>2, <2>3
<1>4. ASSUME NEW c \in Code,
             AgreeShutdown(o, c) \/ StartShutdown(o, c) \/ FinishShutdown(o, c) \/ CancelShutdown(o, c)
      PROVE  PlanInv'
  BY <1>1, <1>4, ChangeIs DEF ShutInv
<1>5. ASSUME NEW c \in Code, NEW add \in SUBSET Job, NEW take \in SUBSET Job, SetShutdownJobs(o, c, add, take)
      PROVE  PlanInv'
  BY <1>1, <1>5, JobsIs DEF ShutInv
<1> QED
  BY <1>2, <1>3, <1>4, <1>5 DEF Plans

LEMMA OtherPlan ==
  ASSUME ShutInv, PlanInv,
         \/ \E s \in Stop : OtherStop(s)
         \/ \E j \in Job : CompleteJob(j)
         \/ \E e \in Edit : EditRead(e) \/ \E live \in BOOLEAN : EditWrite(e, live)
         \/ UNCHANGED shutdownVars
  PROVE  PlanInv'
<1>1. /\ UNCHANGED <<header, booking, req, broken, met>>
      /\ \/ UNCHANGED stop
         \/ \E s \in Stop : OtherStop(s) /\ StopNext(s)
  BY DEF OtherStop, CompleteJob, EditRead, EditWrite, shutdownOnly, shutdownVars, downtimeVars
<1>2. ASSUME NEW c \in Code PROVE PlansStay(c)
  <2>1. CASE UNCHANGED stop
    BY <1>1, <2>1, StandsStill
  <2>2. ASSUME NEW s \in Stop, StopNext(s) PROVE PlansStay(c)
    <3>1. \A t \in Of(c) : stop[t].state # "none"
      BY DEF ShutInv, HeadersInv, Blank, Of, NoBooking, Code, NoCode
    <3>2. /\ \A t \in Stop \ {s} : stop'[t] = stop[t]
          /\ stop'[s].asset = stop[s].asset
          /\ stop'[s].state = "scheduled" => stop[s].state = "none"
      BY <2>2, StopSteps DEF ShutInv, LogInv
    <3> QED
      BY <1>1, <3>1, <3>2 DEF PlansStay, Waiting, Of
  <2> QED
    BY <1>1, <2>1, <2>2
<1>3. \A c : (Alone(c)' <=> Alone(c)) /\ About(c)' = About(c)
  BY <1>1 DEF Alone, About
<1>4. ASSUME NEW c \in Code \ broken, Alone(c) PROVE PlanOf(c)'
  <2>1. PlanOf(c)
    BY <1>4 DEF PlanInv
  <2> QED
    BY <1>1, <1>2, <1>3, <2>1, PlanStays
<1>5. ASSUME NEW p \in Operator, req[p] # Idle, Reshapes(p), Alone(req[p].code) PROVE Changes(p)'
  BY <1>1, <1>5, ChangesKept DEF PlanInv
<1> QED
  BY <1>1, <1>3, <1>4, <1>5 DEF PlanInv, Reshapes

\* A step of o writes no header a request of another that has not met it reads.
LEMMA HeaderAside ==
  ASSUME ShutInv, NEW o \in Operator, Works(o), NEW p \in Operator, p # o, req[p] # Idle, Alone(req[p].code)
  PROVE  header'[req[p].code] = header[req[p].code]
<1>1. req[p].code # req[o].code
  BY WorksAside, Apart DEF ShutInv, HeadersInv, Aside
<1>2. CASE SaveShutdown(o)
  BY <1>1, <1>2 DEF SaveShutdown, ShutInv, ShutdownTypeOK, Request
<1>3. CASE ~SaveShutdown(o)
  BY <1>3 DEF Works, MoveStops, ListStops, WorkStop, PlanStop, Planned, ListJobs, ReadJob, WriteJob,
              Return, Interrupt
<1> QED
  BY <1>2, <1>3

LEMMA PlanStep ==
  ASSUME ShutInv, PlanInv, [ShutdownNext]_shutdownVars
  PROVE  PlanInv'
<1>1. ASSUME NEW o \in Operator, Works(o) PROVE PlanInv'
  <2>1. Aside(o) /\ \A c : Alone(c)' <=> Alone(c)
    BY <1>1, WorksAside DEF ShutInv, Aside, Alone
  <2>2. ASSUME NEW c \in Code \ broken', Alone(c) PROVE PlanOf(c)'
    <3>1. c \notin broken
      BY <1>1 DEF Works, SaveShutdown, MoveStops, ListStops, WorkStop, PlanStop, Planned, ListJobs, ReadJob,
                  WriteJob, Return, Interrupt
    <3> QED
      BY <1>1, <2>1, <2>2, <3>1, SavePlan, MovePlan, ListPlan, WorkPlan, AddPlan, PassPlan, EndPlan DEF Works
  <2>3. ASSUME req[o] # Idle /\ Reshapes(o) => Changes(o)
        PROVE  req'[o] # Idle /\ Reshapes(o)' => Changes(o)'
    <3>1. CASE Return(o) \/ Interrupt(o)
      BY <3>1 DEF Return, Interrupt, ShutInv, ShutdownTypeOK
    <3>2. CASE SaveShutdown(o) \/ MoveStops(o) \/ ListStops(o) \/ Planned(o) \/ ListJobs(o)
      <4>1. GoesOn(o) /\ req'[o].plan = req[o].plan /\ req[o].rest # <<>> /\ req'[o].rest = Tail(req[o].rest)
        BY <3>2, SaveIs, MoveIs, ListStopsIs, PlannedIs, ListJobsIs DEF ShutInv, Passes, KeepsLists
      <4> QED
        BY <2>3, <4>1, ChangesStay
    <3>3. CASE WorkStop(o) \/ PlanStop(o) \/ ReadJob(o) \/ WriteJob(o)
      <4>1. /\ GoesOn(o) /\ req'[o].plan \subseteq req[o].plan /\ req'[o].rest = req[o].rest
            /\ header' = header
        BY <3>3, WorkIs, PlanIs, ReadIs, WriteIs
           DEF ShutInv, Lingers, KeepsLists, WorkStop, PlanStop, ReadJob, WriteJob
      <4> QED
        BY <2>3, <4>1, ChangesStay
    <3> QED
      BY <1>1, <3>1, <3>2, <3>3 DEF Works
  <2>4. ASSUME req'[o] # Idle, Reshapes(o)', Alone(req'[o].code)
        PROVE  Changes(o)'
    <3>1. req'[o].code = req[o].code
      BY <1>1, <2>4, SaveIs, MoveIs, ListStopsIs, PlannedIs, ListJobsIs, WorkIs, PlanIs, ReadIs, WriteIs
         DEF ShutInv, Passes, Lingers, GoesOn, Works, Return, Interrupt, ShutdownTypeOK
    <3> QED
      BY <2>3, <2>4, <3>1 DEF PlanInv
  <2>5. ASSUME NEW p \in Operator \ {o}, req'[p] # Idle, Reshapes(p)', Alone(req'[p].code)
        PROVE  Changes(p)'
    <3>1. req'[p] = req[p] /\ req[p] # Idle /\ Reshapes(p)
      BY <2>1, <2>5 DEF Aside, Reshapes
    <3> QED
      BY <1>1, <2>5, <3>1, HeaderAside, ChangesKept DEF PlanInv
  <2> QED
    BY <2>1, <2>2, <2>4, <2>5 DEF PlanInv
<1> QED
  BY <1>1, BeginPlan, OtherPlan DEF ShutdownNext

LEMMA InitPlan == ShutdownInit => PlanInv
<1> SUFFICES ASSUME ShutdownInit PROVE PlanInv
  OBVIOUS
<1>1. ASSUME NEW c \in Code PROVE Waiting(c) = {} /\ About(c) = {}
  <2>1. c # NoCode
    BY DEF Code, NoCode
  <2>2. \A s \in Stop : booking[s].code = NoCode
    BY DEF ShutdownInit, NoBooking
  <2>3. \A o \in Operator : req[o] = Idle
    BY DEF ShutdownInit
  <2> QED
    BY <2>1, <2>2, <2>3 DEF Waiting, Of, About
<1> QED
  BY <1>1 DEF PlanInv, PlanOf, Shows, Lone, ShutdownInit

LEMMA PlanIsInvariant == ShutdownSpec => [](ShutInv /\ PlanInv)
<1>1. ShutdownInit => ShutInv /\ PlanInv
  BY InitTyped, InitHeaders, InitPlan DEF ShutInv
<1>2. ShutInv /\ PlanInv /\ [ShutdownNext]_shutdownVars => (ShutInv /\ PlanInv)'
  BY HeadersStep, PlanStep
<1> QED
  BY <1>1, <1>2, PTL DEF ShutdownSpec

\* For any planners: of a shutdown no request is about, the requests about which came
\* one by one and ran to their end, the stops still planned in the log are its
\* machines', in its window, one each.
THEOREM LogShowsIt == ShutdownSpec => []LogShowsThePlan
<1>1. PlanInv => LogShowsThePlan
  <2> SUFFICES ASSUME PlanInv, NEW c \in Code, Resting(c), NEW s \in Of(c), stop[s].state = "scheduled"
               PROVE  /\ stop[s].asset \in header[c].machines
                      /\ booking[s].window = header[c].window
                      /\ \A t \in Of(c) \ {s} : stop[t].state = "scheduled" => stop[t].asset # stop[s].asset
    BY DEF LogShowsThePlan
  <2>1. c \in Code \ broken /\ Alone(c) /\ About(c) = {}
    BY DEF Resting, About
  <2>2. Shows(c) /\ Lone(c)
    BY <2>1 DEF PlanInv, PlanOf
  <2> QED
    BY <2>2 DEF Shows, Lone, Waiting
<1> QED
  BY <1>1, PlanIsInvariant, PTL

-----------------------------------------------------------------------------
(***************************************************************************)
(* What it has made of the jobs.                                           *)
(***************************************************************************)
\* The live jobs of a shutdown that nobody edited.
Unwritten(j) == \A e \in Edit : edit[e].job = j => edit[e].pc # "done"
Tagged(c)    == {j \in Job : job[j].live /\ job[j].code = c /\ Unwritten(j)}
Welcome(c)   == \A j \in Tagged(c) : Status(c) # "cancelled" /\ job[j].asset \in header[c].machines

\* Jobs are put in by hand alone, and only jobs of the shutdown's machines.
Adds(o) ==
    /\ req[o].add # {} => req[o].op = "jobs"
    /\ \A j \in req[o].add, row \in JobRow :
          <<j, row>> \in req[o].row => row.asset \in req[o].sd.machines

\* An update owes the jobs of the machines it removed until it has listed them,
\* and a cancellation all jobs; what they listed they owe until it is let go.
Follows(o) ==
    LET c == req[o].code IN
    /\ req[o].op = "create" => Tagged(c) = {}
    /\ req[o].op = "update" =>
          \A j \in Tagged(c) :
              \/ job[j].asset \in req[o].sd.machines
              \/ Stage(o) = "return" /\ j \in req[o].take
              \/ Stage(o) # "return" /\ job[j].asset \in req[o].about
    /\ req[o].op = "cancel" /\ Stage(o) \in {"save", "return"} => Tagged(c) \subseteq req[o].take
    /\ \/ req[o].op \in {"agree", "start", "finish", "jobs"}
       \/ req[o].op = "cancel" /\ Stage(o) \in {"stops", "jobs"}
       => Welcome(c)

JobsOf(c) ==
    /\ About(c) = {} => Welcome(c)
    /\ \A o \in About(c) : Follows(o)

JobInv ==
    /\ \A o \in Operator : req[o] # Idle => Adds(o)
    /\ \A c \in Code \ broken : Alone(c) => JobsOf(c)

\* No job comes to carry the code c, and those that do stay on their machines.
TagsStay(c) ==
    \A j \in Tagged(c)' : j \in Tagged(c) /\ job'[j].asset = job[j].asset

LEMMA JobsStand ==
  ASSUME NEW c \in Code, UNCHANGED <<job, edit>>
  PROVE  TagsStay(c)
  BY DEF TagsStay, Tagged, Unwritten

LEMMA WelcomeStays ==
  ASSUME NEW c \in Code, Welcome(c), TagsStay(c), header'[c].machines = header[c].machines,
         header'[c].status = header[c].status \/ header'[c].status # "cancelled"
  PROVE  Welcome(c)'
  BY DEF Welcome, TagsStay, Status

\* At the same statement, with the same jobs still to let go.
LEMMA FollowsLingers ==
  ASSUME NEW o \in Operator, Lingers(o), req[o].code \in Code, TagsStay(req[o].code),
         header'[req[o].code] = header[req[o].code],
         req'[o].take = req[o].take \/ req[o].op = "jobs", Follows(o)
  PROVE  Follows(o)'
<1>1. PICK c \in Code : c = req[o].code /\ c = req'[o].code
  BY DEF Lingers, GoesOn
<1>2. Stage(o)' = Stage(o) /\ req'[o].op = req[o].op /\ req'[o].sd = req[o].sd /\ req'[o].about = req[o].about
  BY DEF Lingers, GoesOn, Stage
<1>3. Welcome(c) => Welcome(c)'
  BY <1>1, WelcomeStays
<1>4. \A j \in Tagged(c)' : j \in Tagged(c) /\ job'[j].asset = job[j].asset
  BY <1>1 DEF TagsStay
<1>5. /\ req[o].op = "create" => Tagged(c) = {}
      /\ req[o].op = "update" =>
            \A j \in Tagged(c) :
                \/ job[j].asset \in req[o].sd.machines
                \/ Stage(o) = "return" /\ j \in req[o].take
                \/ Stage(o) # "return" /\ job[j].asset \in req[o].about
      /\ req[o].op = "cancel" /\ Stage(o) \in {"save", "return"} => Tagged(c) \subseteq req[o].take
      /\ \/ req[o].op \in {"agree", "start", "finish", "jobs"}
         \/ req[o].op = "cancel" /\ Stage(o) \in {"stops", "jobs"}
         => Welcome(c)
  BY <1>1 DEF Follows
<1>6. /\ req[o].op = "create" => Tagged(c)' = {}
      /\ req[o].op = "update" =>
            \A j \in Tagged(c)' :
                \/ job'[j].asset \in req[o].sd.machines
                \/ Stage(o) = "return" /\ j \in req'[o].take
                \/ Stage(o) # "return" /\ job'[j].asset \in req[o].about
      /\ req[o].op = "cancel" /\ Stage(o) \in {"save", "return"} => Tagged(c)' \subseteq req'[o].take
      /\ \/ req[o].op \in {"agree", "start", "finish", "jobs"}
         \/ req[o].op = "cancel" /\ Stage(o) \in {"stops", "jobs"}
         => Welcome(c)'
  BY <1>3, <1>4, <1>5
<1> QED
  BY <1>1, <1>2, <1>6 DEF Follows

LEMMA JobsStay ==
  ASSUME NEW c \in Code, JobsOf(c), TagsStay(c), header'[c] = header[c],
         About(c)' = About(c), \A p \in About(c) : req'[p] = req[p]
  PROVE  JobsOf(c)'
<1>1. Welcome(c) => Welcome(c)'
  BY WelcomeStays
<1>2. ASSUME NEW p \in About(c) PROVE Follows(p)'
  <2>1. p \in Operator /\ req[p] # Idle /\ req[p].code = c /\ req'[p] = req[p]
    BY DEF About
  <2>2. Lingers(p) /\ req'[p].take = req[p].take
    BY <2>1 DEF Lingers, GoesOn
  <2>3. Follows(p)
    BY DEF JobsOf
  <2> QED
    BY <2>1, <2>2, <2>3, FollowsLingers
<1> QED
  BY <1>1, <1>2 DEF JobsOf

\* A request about another shutdown.
LEMMA JobsElsewhere ==
  ASSUME NEW o \in Operator, NEW c \in Code, JobsOf(c), TagsStay(c), header'[c] = header[c],
         \A p \in Operator \ {o} : req'[p] = req[p],
         req[o] = Idle \/ req[o].code # c, req'[o] = Idle \/ req'[o].code # c
  PROVE  JobsOf(c)'
  BY AboutStays, JobsStay

LEMMA JobsHere ==
  ASSUME ShutInv, NEW o \in Operator, Aside(o), NEW c \in Code, Alone(c), GoesOn(o), c = req[o].code, JobsOf(c),
         Follows(o) => Follows(o)'
  PROVE  JobsOf(c)'
<1>1. o \in About(c) /\ o \in About(c)'
  BY DEF About, GoesOn
<1>2. ASSUME NEW p \in About(c)' PROVE p = o
  <2>1. p # o => p \in About(c)
    BY DEF About, Aside
  <2> QED
    BY <1>1, <2>1, OnlyOne
<1> QED
  BY <1>1, <1>2 DEF JobsOf

LEMMA PassesIs ==
  ASSUME ShutInv, NEW o \in Operator, NEW p, Passes(o, p)
  PROVE  /\ Carries(o) /\ req[o].op \in DOMAIN Course /\ req[o].op # "jobs"
         /\ Alone(req[o].code) => Matches(o)
<1>1. Knows(o) /\ Carries(o) /\ req[o] \in Request /\ req[o].rest # <<>>
  BY DEF Passes, GoesOn, ShutInv, HeadersInv, Knows, ShutdownTypeOK
<1>2. req[o].op \in DOMAIN Course
  BY <1>1 DEF Request, Course
<1>3. Course["jobs"] = {<<>>}
  BY DEF Course
<1> QED
  BY <1>1, <1>2, <1>3 DEF Carries, Knows

\* Past a statement that lists no job.
LEMMA FollowsPasses ==
  ASSUME ShutInv, PlanInv, NEW o \in Operator, NEW p \in {"save", "move", "stops", "plan"}, Passes(o, p),
         req[o].code \in Code, Alone(req[o].code), TagsStay(req[o].code),
         \/ header' = header
         \/ p = "save" /\ header' = [header EXCEPT ![req[o].code] = req[o].sd],
         req'[o].take = {}, Follows(o)
  PROVE  Follows(o)'
<1>1. PICK c \in Code : c = req[o].code /\ c = req'[o].code
  BY DEF Passes, GoesOn
<1>2. /\ req'[o].op = req[o].op /\ req'[o].sd = req[o].sd /\ req'[o].about = req[o].about
      /\ Stage(o) = p /\ req[o].take = {}
  BY DEF Passes, GoesOn
<1>3. Carries(o) /\ Matches(o) /\ req[o].op \in DOMAIN Course /\ req[o].op # "jobs"
  BY PassesIs
<1>4. /\ <<p, Stage(o)'>> \in Follow[req[o].op]
      /\ req[o].op = "update" /\ p = "plan" /\ Stage(o)' = "return" => req[o].rest \in Keeping
  BY <1>2, <1>3, Onwards DEF Passes, Stage, Carries
<1>5. \A j \in Tagged(c)' : j \in Tagged(c) /\ job'[j].asset = job[j].asset
  BY <1>1 DEF TagsStay
<1>6. CASE req[o].op = "create"
  BY <1>1, <1>2, <1>5, <1>6 DEF Follows
<1>7. CASE req[o].op = "update"
  <2>1. \A j \in Tagged(c) : job[j].asset \in req[o].sd.machines \/ job[j].asset \in req[o].about
    BY <1>1, <1>2, <1>7 DEF Follows
  <2>2. Stage(o)' = "return" => p = "plan"
    BY <1>4, <1>7 DEF Follow
  <2>3. Stage(o)' = "return" => req[o].about = {}
    <3>1. Changes(o)
      BY <1>7 DEF PlanInv, Passes, GoesOn, Reshapes
    <3> QED
      BY <1>4, <1>7, <2>2, <3>1 DEF Changes
  <2> QED
    BY <1>1, <1>2, <1>5, <1>7, <2>1, <2>3 DEF Follows
<1>8. CASE req[o].op = "cancel"
  <2>1. <<p, Stage(o)'>> \in {<<"stops", "jobs">>, <<"save", "return">>}
    BY <1>4, <1>8 DEF Follow
  <2>2. CASE p = "stops"
    <3>1. Welcome(c) /\ header' = header
      BY <1>1, <1>2, <1>8, <2>2 DEF Follows
    <3>2. Welcome(c)'
      BY <1>1, <3>1, WelcomeStays
    <3> QED
      BY <1>1, <1>2, <1>8, <2>1, <2>2, <3>2 DEF Follows
  <2>3. CASE p = "save"
    <3>1. Tagged(c)' = {}
      BY <1>1, <1>2, <1>5, <1>8, <2>3 DEF Follows
    <3> QED
      BY <1>1, <1>2, <1>8, <2>1, <2>3, <3>1 DEF Follows
  <2> QED
    BY <2>1, <2>2, <2>3
<1>9. CASE req[o].op \in {"agree", "start", "finish"}
  <2>1. Welcome(c)
    BY <1>1, <1>9 DEF Follows
  <2>2. req[o].sd.machines = header[c].machines /\ req[o].sd.status # "cancelled"
    BY <1>1, <1>3, <1>9 DEF Carries, Matches, Reshapes, To
  <2>3. Welcome(c)'
    BY <1>1, <2>1, <2>2, WelcomeStays DEF ShutInv, ShutdownTypeOK
  <2> QED
    BY <1>1, <1>2, <1>9, <2>3 DEF Follows
<1> QED
  BY <1>3, <1>6, <1>7, <1>8, <1>9 DEF Course

LEMMA SaveJobs ==
  ASSUME ShutInv, PlanInv, JobInv, NEW o \in Operator, Aside(o), NEW c \in Code \ broken, Alone(c),
         SaveShutdown(o) \/ MoveStops(o) \/ ListStops(o) \/ Planned(o)
  PROVE  JobsOf(c)'
<1>1. UNCHANGED <<job, edit>> /\ TagsStay(c) /\ JobsOf(c)
  BY JobsStand DEF SaveShutdown, MoveStops, ListStops, Planned, JobInv
<1>2. PICK p \in {"save", "move", "stops", "plan"} :
         /\ Passes(o, p) /\ req'[o].take = {}
         /\ \/ header' = header
            \/ p = "save" /\ header' = [header EXCEPT ![req[o].code] = req[o].sd]
  BY SaveIs, MoveIs, ListStopsIs, PlannedIs
     DEF ShutInv, SaveShutdown, MoveStops, ListStops, Planned, KeepsJobs, Passes
<1>3. CASE c # req[o].code
  BY <1>1, <1>2, <1>3, JobsElsewhere DEF Passes, GoesOn, Aside, ShutInv, ShutdownTypeOK
<1>4. CASE c = req[o].code
  BY <1>1, <1>2, <1>4, FollowsPasses, JobsHere DEF Passes
<1> QED
  BY <1>3, <1>4

LEMMA ListsJobs ==
  ASSUME ShutInv, PlanInv, JobInv, NEW o \in Operator, Aside(o), NEW c \in Code \ broken, Alone(c), ListJobs(o)
  PROVE  JobsOf(c)'
<1>1. UNCHANGED <<job, edit, header>> /\ TagsStay(c) /\ JobsOf(c)
  BY JobsStand DEF ListJobs, JobInv
<1>2. /\ Passes(o, "jobs") /\ GoesOn(o)
      /\ req'[o].take = {j \in Job : job[j].code = req[o].code /\ job[j].live /\ job[j].asset \in req[o].about}
  BY ListJobsIs DEF ShutInv, Passes
<1>3. CASE c # req[o].code
  BY <1>1, <1>2, <1>3, JobsElsewhere DEF GoesOn, Aside
<1>4. CASE c = req[o].code
  <2>1. Carries(o) /\ req[o].op \in DOMAIN Course /\ req[o].op # "jobs"
    BY <1>2, PassesIs
  <2>2. <<"jobs", Stage(o)'>> \in Follow[req[o].op]
    BY <1>2, <2>1, Onwards DEF Passes, Stage, Carries
  <2>3. \/ req[o].op = "update" /\ Stage(o)' = "return"
        \/ req[o].op = "cancel" /\ Stage(o)' = "save" /\ req[o].about = Asset
    BY <2>1, <2>2 DEF Follow, Course, Carries, Reshapes
  <2>4. \A j \in Tagged(c)' : /\ j \in Tagged(c) /\ job'[j].asset = job[j].asset
                              /\ job[j].asset \in req[o].about => j \in req'[o].take
    BY <1>1, <1>2, <1>4 DEF TagsStay, Tagged
  <2>5. \A j \in Job : job[j].asset \in Asset
    BY DEF ShutInv, ShutdownTypeOK, JobRow
  <2>6. ASSUME Follows(o) PROVE Follows(o)'
    <3>1. req'[o].code = c /\ req'[o].op = req[o].op /\ req'[o].sd = req[o].sd /\ Stage(o) = "jobs"
      BY <1>2, <1>4 DEF GoesOn, Passes
    <3>2. CASE req[o].op = "update"
      <4>1. \A j \in Tagged(c) : job[j].asset \in req[o].sd.machines \/ job[j].asset \in req[o].about
        BY <1>4, <2>6, <3>1, <3>2 DEF Follows
      <4> QED
        BY <2>3, <2>4, <3>1, <3>2, <4>1 DEF Follows
    <3>3. CASE req[o].op = "cancel"
      <4>1. Tagged(c)' \subseteq req'[o].take
        BY <2>3, <2>4, <2>5, <3>3 DEF Tagged
      <4> QED
        BY <2>3, <3>1, <3>3, <4>1 DEF Follows
    <3> QED
      BY <2>3, <3>2, <3>3
  <2> QED
    BY <1>1, <1>2, <1>4, <2>6, JobsHere
<1> QED
  BY <1>3, <1>4

\* Work on the log, and a job read or passed over.
LEMMA WorkJobs ==
  ASSUME ShutInv, JobInv, NEW o \in Operator, Aside(o), NEW c \in Code \ broken, Alone(c),
         WorkStop(o) \/ PlanStop(o) \/ ReadJob(o)
  PROVE  JobsOf(c)'
<1>1. UNCHANGED <<job, edit, header>> /\ TagsStay(c) /\ JobsOf(c)
  BY JobsStand DEF WorkStop, PlanStop, ReadJob, JobInv
<1>2. Lingers(o) /\ GoesOn(o) /\ (req'[o].take = req[o].take \/ req[o].op = "jobs")
  BY WorkIs, PlanIs, ReadIs DEF ShutInv, Lingers, KeepsJobs
<1>3. CASE c # req[o].code
  BY <1>1, <1>2, <1>3, JobsElsewhere DEF GoesOn, Aside
<1>4. CASE c = req[o].code
  BY <1>1, <1>2, <1>4, FollowsLingers, JobsHere
<1> QED
  BY <1>3, <1>4

\* A job written: put into the shutdown, as one of its machines', or let go.
LEMMA WriteJobs ==
  ASSUME ShutInv, JobInv, NEW o \in Operator, Aside(o), NEW c \in Code \ broken, Alone(c), WriteJob(o)
  PROVE  JobsOf(c)'
<1>1. PICK j \in Job, row \in JobRow :
         /\ <<j, row>> \in req[o].row
         /\ req'[o].add = req[o].add \ {j}
         /\ req'[o].take = IF j \in req[o].add THEN req[o].take ELSE req[o].take \ {j}
         /\ job' = [job EXCEPT ![j] = [row EXCEPT !.code = IF j \in req[o].add THEN req[o].code ELSE NoCode]]
  BY WriteIs DEF ShutInv
<1>2. Lingers(o) /\ GoesOn(o) /\ UNCHANGED <<header, edit>> /\ JobsOf(c)
  BY WriteIs DEF ShutInv, Lingers, WriteJob, JobInv
<1>3. \A i \in Job \ {j} : job'[i] = job[i]
  BY <1>1 DEF ShutInv, ShutdownTypeOK
<1>4. job'[j].code = (IF j \in req[o].add THEN req[o].code ELSE NoCode) /\ job'[j].asset = row.asset
  BY <1>1 DEF ShutInv, ShutdownTypeOK, JobRow
<1>5. c # NoCode
  BY DEF Code, NoCode
<1>6. ASSUME j \notin req[o].add \/ c # req[o].code
      PROVE  TagsStay(c) /\ j \notin Tagged(c)'
  BY <1>2, <1>3, <1>4, <1>5, <1>6 DEF TagsStay, Tagged, Unwritten
<1>7. CASE c # req[o].code
  BY <1>2, <1>6, <1>7, JobsElsewhere DEF GoesOn, Aside
<1>8. CASE c = req[o].code /\ j \in req[o].add
  <2>1. Adds(o) /\ Carries(o) /\ Matches(o)
    BY <1>2, <1>8 DEF JobInv, GoesOn, ShutInv, HeadersInv, Knows
  <2>2. req[o].op = "jobs" /\ row.asset \in req[o].sd.machines
    BY <1>1, <1>8, <2>1 DEF Adds
  <2>3. header[c] = req[o].sd /\ req[o].sd.status \in Standing
    BY <1>8, <2>1, <2>2 DEF Carries, Matches, Saved
  <2>4. ASSUME Welcome(c) PROVE Welcome(c)'
    <3>1. \A i \in Tagged(c)' : i # j => i \in Tagged(c) /\ job'[i].asset = job[i].asset
      BY <1>2, <1>3 DEF Tagged, Unwritten
    <3>2. Status(c)' # "cancelled" /\ header' = header
      BY <1>2, <2>3 DEF Status, Standing
    <3> QED
      BY <1>4, <2>2, <2>3, <2>4, <3>1, <3>2 DEF Welcome
  <2>5. req'[o].op = "jobs" /\ req'[o].code = c
    BY <1>2, <1>8, <2>2 DEF GoesOn
  <2>6. Follows(o) => Follows(o)'
    BY <1>8, <2>2, <2>4, <2>5 DEF Follows
  <2> QED
    BY <1>2, <1>8, <2>6, JobsHere
<1>9. CASE c = req[o].code /\ j \notin req[o].add
  <2>1. TagsStay(c) /\ j \notin Tagged(c)'
    BY <1>6, <1>9
  <2>2. \A i \in Tagged(c)' : i \in Tagged(c) /\ job'[i].asset = job[i].asset
                              /\ (i \in req[o].take => i \in req'[o].take)
    BY <1>1, <1>9, <2>1 DEF TagsStay
  <2>3. Welcome(c) => Welcome(c)'
    BY <1>2, <2>1, WelcomeStays
  <2>4. /\ req'[o].op = req[o].op /\ req'[o].sd = req[o].sd /\ req'[o].about = req[o].about
        /\ req'[o].code = c /\ Stage(o)' = Stage(o)
    BY <1>2, <1>9 DEF GoesOn, Lingers, Stage
  <2>5. ASSUME Follows(o) PROVE Follows(o)'
    <3>1. /\ req[o].op = "create" => Tagged(c) = {}
          /\ req[o].op = "update" =>
                \A i \in Tagged(c) :
                    \/ job[i].asset \in req[o].sd.machines
                    \/ Stage(o) = "return" /\ i \in req[o].take
                    \/ Stage(o) # "return" /\ job[i].asset \in req[o].about
          /\ req[o].op = "cancel" /\ Stage(o) \in {"save", "return"} => Tagged(c) \subseteq req[o].take
          /\ \/ req[o].op \in {"agree", "start", "finish", "jobs"}
             \/ req[o].op = "cancel" /\ Stage(o) \in {"stops", "jobs"}
             => Welcome(c)
      BY <1>9, <2>5 DEF Follows
    <3>2. /\ req[o].op = "create" => Tagged(c)' = {}
          /\ req[o].op = "update" =>
                \A i \in Tagged(c)' :
                    \/ job'[i].asset \in req[o].sd.machines
                    \/ Stage(o) = "return" /\ i \in req'[o].take
                    \/ Stage(o) # "return" /\ job'[i].asset \in req[o].about
          /\ req[o].op = "cancel" /\ Stage(o) \in {"save", "return"} => Tagged(c)' \subseteq req'[o].take
          /\ \/ req[o].op \in {"agree", "start", "finish", "jobs"}
             \/ req[o].op = "cancel" /\ Stage(o) \in {"stops", "jobs"}
             => Welcome(c)'
      BY <2>2, <2>3, <3>1
    <3> QED
      BY <2>4, <3>2 DEF Follows
  <2> QED
    BY <1>2, <1>9, <2>5, JobsHere
<1> QED
  BY <1>7, <1>8, <1>9

LEMMA EndJobs ==
  ASSUME ShutInv, JobInv, NEW o \in Operator, Aside(o), NEW c \in Code, Alone(c),
         c \notin broken', Return(o) \/ Interrupt(o)
  PROVE  JobsOf(c)'
<1>1. /\ UNCHANGED <<job, edit, header>> /\ req[o] # Idle /\ req'[o] = Idle
      /\ c \notin broken /\ (Interrupt(o) => c # req[o].code)
  BY DEF Return, Interrupt, ShutInv, ShutdownTypeOK
<1>2. JobsOf(c) /\ Knows(o) /\ Carries(o) /\ TagsStay(c)
  BY <1>1, JobsStand DEF JobInv, ShutInv, HeadersInv, Knows
<1>3. CASE c # req[o].code
  BY <1>1, <1>2, <1>3, JobsElsewhere DEF Aside
<1>4. CASE c = req[o].code
  <2>1. Stage(o) = "return" /\ req[o].take = {}
    BY <1>1, <1>4 DEF Return, Stage, Mark, Worked
  <2>2. header[c] = req[o].sd
    BY <1>2, <1>4, <2>1 DEF Knows, Matches, Saved
  <2>3. Follows(o)
    BY <1>1, <1>2, <1>4 DEF JobsOf, About
  <2>4. req[o].op \in {"create", "update", "agree", "start", "finish", "cancel", "jobs"}
    BY <1>1 DEF ShutInv, ShutdownTypeOK, Request
  <2>5. Welcome(c)
    <3>1. CASE req[o].op \in {"create", "cancel"}
      <4>1. Tagged(c) = {}
        BY <1>4, <2>1, <2>3, <3>1 DEF Follows
      <4> QED
        BY <4>1 DEF Welcome
    <3>2. CASE req[o].op = "update"
      <4>1. \A j \in Tagged(c) : job[j].asset \in req[o].sd.machines
        BY <1>4, <2>1, <2>3, <3>2 DEF Follows
      <4>2. Status(c) # "cancelled"
        BY <1>2, <2>2, <3>2 DEF Carries, To, Status
      <4> QED
        BY <2>2, <4>1, <4>2 DEF Welcome
    <3>3. CASE req[o].op \in {"agree", "start", "finish", "jobs"}
      BY <1>4, <2>3, <3>3 DEF Follows
    <3> QED
      BY <2>4, <3>1, <3>2, <3>3
  <2>6. Welcome(c)' /\ About(c)' = {}
    <3>1. \A p \in About(c)' : p # o /\ p \in About(c) /\ o \in About(c)
      BY <1>1, <1>4 DEF About, Aside
    <3>2. About(c)' = {}
      BY <3>1, OnlyOne
    <3> QED
      BY <1>1, <1>2, <2>5, <3>2, WelcomeStays
  <2> QED
    BY <2>6 DEF JobsOf
<1> QED
  BY <1>3, <1>4

LEMMA BeginJobs ==
  ASSUME ShutInv, JobInv, NEW o \in Operator, Plans(o)
  PROVE  JobInv'
<1>1. ASSUME NEW op, NEW d \in Code, NEW sd, NEW rest, Begins(o, op, d, sd, rest),
             req'[o].add # {} => op = "jobs",
             op = "create" => header[d].machines = {},
             op = "update" => /\ Mark(rest) # "return"
                              /\ header[d].machines \subseteq sd.machines \cup req'[o].about,
             op = "cancel" => Mark(rest) = "stops"
      PROVE  JobInv'
  <2>1. /\ UNCHANGED <<job, edit, header, broken>> /\ req[o] = Idle /\ req'[o] # Idle
        /\ req'[o].code = d /\ req'[o].op = op /\ req'[o].sd = sd /\ req'[o].rest = rest /\ req'[o].row = {}
    BY <1>1 DEF Begins
  <2>2. ASSUME NEW c \in Code \ broken, Alone(c)' PROVE JobsOf(c)'
    <3>1. JobsOf(c) /\ TagsStay(c)
      <4>1. Alone(c)
        BY <1>1, <2>2 DEF Begins, Alone
      <4> QED
        BY <2>1, <4>1, JobsStand DEF JobInv
    <3>2. CASE c # d
      BY <1>1, <2>1, <3>1, <3>2, JobsElsewhere DEF Begins
    <3>3. CASE c = d
      <4>1. About(c) = {} /\ \A p \in About(c)' : p = o
        BY <1>1, <2>2, <3>3, BeginsAlone
      <4>2. Welcome(c)'
        BY <2>1, <3>1, <4>1, WelcomeStays DEF JobsOf
      <4>3. Stage(o)' = Mark(rest)
        BY <2>1 DEF Stage
      <4>4. Follows(o)'
        <5>1. \A j \in Tagged(c)' : job'[j].asset \in header[c].machines
          BY <2>1, <4>2 DEF Welcome
        <5>2. op = "create" => Tagged(c)' = {}
          BY <1>1, <3>3, <5>1
        <5>3. op = "update" => \A j \in Tagged(c)' : job'[j].asset \in sd.machines \cup req'[o].about
          BY <1>1, <3>3, <5>1
        <5> QED
          BY <1>1, <2>1, <3>3, <4>2, <4>3, <5>2, <5>3 DEF Follows
      <4>5. o \in About(c)'
        BY <2>1, <3>3 DEF About
      <4> QED
        BY <4>1, <4>4, <4>5 DEF JobsOf
    <3> QED
      BY <3>2, <3>3
  <2>3. Adds(o)'
    BY <1>1, <2>1 DEF Adds
  <2>4. ASSUME NEW p \in Operator \ {o}, req'[p] # Idle PROVE Adds(p)'
    <3>1. req'[p] = req[p] /\ Adds(p)
      BY <1>1, <2>4 DEF Begins, JobInv
    <3> QED
      BY <3>1 DEF Adds
  <2> QED
    BY <2>1, <2>2, <2>3, <2>4 DEF JobInv
<1>2. ASSUME NEW w \in Window, NEW machines \in SUBSET Asset, CreateShutdown(o, w, machines)
      PROVE  JobInv'
  <2>1. PICK c \in Code, sd \in Header :
            /\ Begins(o, "create", c, sd, <<"save", "plan">>)
            /\ req'[o].add = {} /\ Status(c) = "none"
    BY <1>2, CreateIs DEF ShutInv
  <2>2. header[c].machines = {}
    BY <2>1 DEF ShutInv, HeadersInv, Blank, NoHeader
  <2> QED
    BY <1>1, <2>1, <2>2
<1>3. ASSUME NEW c \in Code, NEW w \in Window, NEW machines \in SUBSET Asset, UpdateShutdown(o, c, w, machines)
      PROVE  JobInv'
  <2>1. PICK sd \in Header, rest \in Letting \cup Keeping :
            /\ Begins(o, "update", c, sd, rest)
            /\ sd.machines = machines
            /\ req'[o].about = header[c].machines \ machines
            /\ req'[o].add = {}
            /\ Mark(rest) = "save"
    BY <1>3, UpdateIs DEF ShutInv
  <2>2. header[c].machines \subseteq sd.machines \cup req'[o].about
    BY <2>1
  <2> QED
    BY <1>1, <2>1, <2>2
<1>4. ASSUME NEW c \in Code,
             AgreeShutdown(o, c) \/ StartShutdown(o, c) \/ FinishShutdown(o, c) \/ CancelShutdown(o, c)
      PROVE  JobInv'
  <2>1. PICK op, sd, rest :
            /\ op \in {"agree", "start", "finish", "cancel"}
            /\ Begins(o, op, c, sd, rest) /\ req'[o].add = {}
            /\ Stage(o)' = IF op = "agree" THEN "save" ELSE "stops"
    BY <1>4, ChangeIs DEF ShutInv
  <2>2. op = "cancel" => Mark(rest) = "stops"
    BY <2>1 DEF Stage, Begins
  <2> QED
    BY <1>1, <2>1, <2>2
<1>5. ASSUME NEW c \in Code, NEW add \in SUBSET Job, NEW take \in SUBSET Job, SetShutdownJobs(o, c, add, take)
      PROVE  JobInv'
  BY <1>1, <1>5, JobsIs DEF ShutInv
<1> QED
  BY <1>2, <1>3, <1>4, <1>5 DEF Plans

\* Completing a job and editing one only take it from the tagged.
LEMMA OtherJobs ==
  ASSUME ShutInv, JobInv,
         \/ \E s \in Stop : OtherStop(s)
         \/ \E j \in Job : CompleteJob(j)
         \/ \E e \in Edit : EditRead(e) \/ \E live \in BOOLEAN : EditWrite(e, live)
         \/ UNCHANGED shutdownVars
  PROVE  JobInv'
<1>1. /\ UNCHANGED <<header, req, broken, met>>
      /\ \/ UNCHANGED <<job, edit>>
         \/ \E j \in Job : CompleteJob(j)
         \/ \E e \in Edit : EditRead(e) \/ \E live \in BOOLEAN : EditWrite(e, live)
  BY DEF OtherStop, CompleteJob, EditRead, EditWrite, shutdownOnly, shutdownVars
<1> USE DEF ShutInv, ShutdownTypeOK, EditRow, JobRow
<1>2. ASSUME NEW c \in Code PROVE TagsStay(c)
  <2>1. CASE UNCHANGED <<job, edit>>
    BY <2>1, JobsStand
  <2>2. ASSUME NEW j \in Job, CompleteJob(j) PROVE TagsStay(c)
    <3>1. /\ edit' = edit /\ ~job'[j].live
          /\ \A i \in Job \ {j} : job'[i] = job[i]
      BY <2>2 DEF CompleteJob
    <3> QED
      BY <3>1 DEF TagsStay, Tagged, Unwritten
  <2>3. ASSUME NEW e \in Edit, EditRead(e) PROVE TagsStay(c)
    <3>1. /\ job' = job /\ \A f \in Edit : edit'[f].job = edit[f].job
          /\ \A f \in Edit : edit[f].pc = "done" => edit'[f].pc = "done"
      BY <2>3 DEF EditRead
    <3> QED
      BY <3>1 DEF TagsStay, Tagged, Unwritten
  <2>4. ASSUME NEW e \in Edit, NEW live \in BOOLEAN, EditWrite(e, live) PROVE TagsStay(c)
    <3>1. /\ \A f \in Edit : edit'[f].job = edit[f].job
          /\ \A f \in Edit : edit[f].pc = "done" => edit'[f].pc = "done"
          /\ edit'[e].pc = "done"
          /\ \A i \in Job \ {edit[e].job} : job'[i] = job[i]
      BY <2>4 DEF EditWrite
    <3> QED
      BY <3>1 DEF TagsStay, Tagged, Unwritten
  <2> QED
    BY <1>1, <2>1, <2>2, <2>3, <2>4
<1>3. \A c : (Alone(c)' <=> Alone(c)) /\ About(c)' = About(c)
  BY <1>1 DEF Alone, About
<1>4. ASSUME NEW c \in Code \ broken, Alone(c) PROVE JobsOf(c)'
  <2>1. JobsOf(c)
    BY <1>4 DEF JobInv
  <2> QED
    BY <1>1, <1>2, <1>3, <2>1, JobsStay
<1>5. \A o \in Operator : req[o] # Idle /\ Adds(o) => Adds(o)'
  BY <1>1 DEF Adds
<1> QED
  BY <1>1, <1>3, <1>4, <1>5 DEF JobInv

LEMMA AddsStay ==
  ASSUME ShutInv, JobInv, NEW o \in Operator, Works(o), req'[o] # Idle
  PROVE  Adds(o)'
<1>1. req[o] # Idle
  BY DEF Works, SaveShutdown, MoveStops, ListStops, WorkStop, PlanStop, Planned, ListJobs, ReadJob,
         WriteJob, Return, Interrupt, At
<1>2. Adds(o)
  BY <1>1 DEF JobInv
<1>3. CASE SaveShutdown(o) \/ MoveStops(o) \/ ListStops(o) \/ Planned(o) \/ WorkStop(o) \/ PlanStop(o)
  <2>1. GoesOn(o) /\ KeepsJobs(o)
    BY <1>3, SaveIs, MoveIs, ListStopsIs, PlannedIs, WorkIs, PlanIs DEF ShutInv, Passes, Lingers
  <2> QED
    BY <1>2, <2>1 DEF Adds, GoesOn, KeepsJobs
<1>4. CASE ListJobs(o)
  BY <1>4, ListJobsIs DEF ShutInv, Adds
<1>5. CASE ReadJob(o)
  <2>1. GoesOn(o) /\ req'[o].add = req[o].add /\ req[o].row = {}
    BY <1>5, ReadIs DEF ShutInv, Lingers
  <2>2. CASE req[o].add = {}
    BY <1>2, <2>1, <2>2 DEF Adds, GoesOn
  <2>3. CASE req[o].add # {}
    <3>1. PICK j \in req[o].add : job[j].asset \in req[o].sd.machines /\ req'[o].row = {<<j, job[j]>>}
      BY <1>5, <2>3, ReadIs DEF ShutInv
    <3> QED
      BY <1>2, <2>1, <3>1 DEF Adds, GoesOn
  <2> QED
    BY <2>2, <2>3
<1>6. CASE WriteJob(o)
  <2>1. GoesOn(o) /\ req'[o].row = {} /\ req'[o].add \subseteq req[o].add
    BY <1>6, WriteIs DEF ShutInv, Lingers
  <2> QED
    BY <1>2, <2>1 DEF Adds, GoesOn
<1>7. CASE Return(o) \/ Interrupt(o)
  BY <1>7 DEF Return, Interrupt, ShutInv, ShutdownTypeOK
<1> QED
  BY <1>3, <1>4, <1>5, <1>6, <1>7 DEF Works

LEMMA JobStep ==
  ASSUME ShutInv, PlanInv, JobInv, [ShutdownNext]_shutdownVars
  PROVE  JobInv'
<1>1. ASSUME NEW o \in Operator, Works(o) PROVE JobInv'
  <2>1. Aside(o) /\ \A c : Alone(c)' <=> Alone(c)
    BY <1>1, WorksAside DEF ShutInv, Aside, Alone
  <2>2. ASSUME NEW c \in Code \ broken', Alone(c) PROVE JobsOf(c)'
    <3>1. c \notin broken
      BY <1>1 DEF Works, SaveShutdown, MoveStops, ListStops, WorkStop, PlanStop, Planned, ListJobs, ReadJob,
                  WriteJob, Return, Interrupt
    <3> QED
      BY <1>1, <2>1, <2>2, <3>1, SaveJobs, ListsJobs, WorkJobs, WriteJobs, EndJobs DEF Works
  <2>3. req'[o] # Idle => Adds(o)'
    BY <1>1, AddsStay
  <2>4. ASSUME NEW p \in Operator \ {o}, req'[p] # Idle PROVE Adds(p)'
    <3>1. req'[p] = req[p] /\ Adds(p)
      BY <2>1, <2>4 DEF Aside, JobInv
    <3> QED
      BY <3>1 DEF Adds
  <2> QED
    BY <2>1, <2>2, <2>3, <2>4 DEF JobInv
<1> QED
  BY <1>1, BeginJobs, OtherJobs DEF ShutdownNext

LEMMA InitJobs == ShutdownInit => JobInv
<1> SUFFICES ASSUME ShutdownInit PROVE JobInv
  OBVIOUS
<1>1. ASSUME NEW c \in Code PROVE Tagged(c) = {} /\ About(c) = {}
  <2>1. c # NoCode
    BY DEF Code, NoCode
  <2>2. \A j \in Job : job[j].code = NoCode
    BY DEF ShutdownInit
  <2>3. \A o \in Operator : req[o] = Idle
    BY DEF ShutdownInit
  <2> QED
    BY <2>1, <2>2, <2>3 DEF Tagged, About
<1>2. \A o \in Operator : req[o] = Idle
  BY DEF ShutdownInit
<1> QED
  BY <1>1, <1>2 DEF JobInv, JobsOf, Welcome

\* For any planners: once no request is about a shutdown, the requests about which
\* came one by one and ran to their end, a live job nobody edited is tagged with it
\* only if it stops the job's machine and was not cancelled.
THEOREM JobsFollowIt == ShutdownSpec => []JobsFollowShutdown
<1>1. ShutdownInit => ShutInv /\ PlanInv /\ JobInv
  BY InitTyped, InitHeaders, InitPlan, InitJobs DEF ShutInv
<1>2. ShutInv /\ PlanInv /\ JobInv /\ [ShutdownNext]_shutdownVars => (ShutInv /\ PlanInv /\ JobInv)'
  BY HeadersStep, PlanStep, JobStep
<1>3. ShutInv /\ JobInv => JobsFollowShutdown
  <2> SUFFICES ASSUME ShutInv, JobInv, NEW j \in Job, job[j].live, job[j].code # NoCode, Resting(job[j].code),
                      \A e \in Edit : edit[e].job = j => edit[e].pc # "done"
               PROVE  Status(job[j].code) # "cancelled" /\ job[j].asset \in header[job[j].code].machines
    BY DEF JobsFollowShutdown
  <2>1. PICK c : c = job[j].code
    OBVIOUS
  <2>2. c \in Code \ broken /\ Alone(c) /\ About(c) = {}
    BY <2>1 DEF Resting, About, ShutInv, ShutdownTypeOK, JobRow, Tag
  <2>3. Welcome(c) /\ j \in Tagged(c)
    BY <2>1, <2>2 DEF JobInv, JobsOf, Tagged, Unwritten
  <2> QED
    BY <2>1, <2>3 DEF Welcome
<1> QED
  BY <1>1, <1>2, <1>3, PTL DEF ShutdownSpec
=============================================================================
