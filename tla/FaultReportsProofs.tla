------------------------- MODULE FaultReportsProofs -------------------------
(***************************************************************************)
(* Proofs about fault reports, for any reports, orders and requests.       *)
(*                                                                         *)
(* Links are only ever added: a stop that carries a report, or an order    *)
(* that was raised from one, carries it for good.  So what a request read  *)
(* is still true when it writes it, whatever came between.                 *)
(*                                                                         *)
(* First what holds of every request, raced or cut short (FaultInv); then  *)
(* what becomes of a report nobody disturbed (FineInv).                    *)
(***************************************************************************)
EXTENDS FaultReports, DowntimeProofs, SequenceTheorems, FiniteSetTheorems

\* A row that is not there belongs to nobody.
RowsAreBorn ==
    /\ \A s \in Stop : stop[s].state = "none" => opened[s] = None
    /\ \A w \in Order : order[w].status = "none" <=> order[w].report = None

\* What a request has still to link or to end belongs to its report.
Sound(r) ==
    req[r] # Idle =>
        /\ Head(req[r].rest) \in {"link", "end"} =>
              req[r].stop \in Stop /\ opened[req[r].stop] = req[r].about
        /\ Head(req[r].rest) = "point" =>
              req[r].order \in Order /\ order[req[r].order].report = req[r].about
        /\ req[r].op = "complete" => req[r].order \in Order /\ Head(req[r].rest) # "stop"

\* The inductive invariant.
FaultInv ==
    /\ FaultsTypeOK
    /\ RowsAreBorn
    /\ LinksAreItsOwn
    /\ \A r \in Request : Sound(r)

\* A step that keeps the owners of all rows.
Kept ==
    /\ \A s \in Stop : opened[s] # None => opened'[s] = opened[s]
    /\ \A w \in Order : order[w].report # None => order'[w].report = order[w].report

-----------------------------------------------------------------------------
\* What is left of a request after each statement.
LEMMA Rests ==
  ASSUME NEW rest \in Rest
  PROVE  /\ Tail(rest) \in Rest \cup {<<>>}
         /\ Head(rest) = "stop" => Tail(rest) = <<"link">>
         /\ Head(rest) = "order" => Tail(rest) = <<"point">>
         /\ Head(rest) = "end" => Tail(rest) \in {<<"close">>, <<>>}
         /\ Head(rest) \in {"link", "raise", "point", "read", "close"} => Tail(rest) = <<>>
<1>1. CASE rest \in {<<"link">>, <<"raise">>, <<"point">>, <<"read">>, <<"end">>, <<"close">>}
  <2>1. PICK x \in {"link", "raise", "point", "read", "end", "close"} : rest = <<x>>
    BY <1>1
  <2>2. Tail(rest) = <<>> /\ Head(rest) = x
    BY <2>1
  <2> QED
    BY <2>2
<1>2. CASE rest = <<"stop", "link">>
  <2>1. Tail(rest) = <<"link">> /\ Head(rest) = "stop"
    BY <1>2
  <2> QED
    BY <2>1 DEF Rest
<1>3. CASE rest = <<"order", "point">>
  <2>1. Tail(rest) = <<"point">> /\ Head(rest) = "order"
    BY <1>3
  <2> QED
    BY <2>1 DEF Rest
<1>4. CASE rest = <<"end", "close">>
  <2>1. Tail(rest) = <<"close">> /\ Head(rest) = "end"
    BY <1>4
  <2> QED
    BY <2>1 DEF Rest
<1> QED
  BY <1>1, <1>2, <1>3, <1>4 DEF Rest

LEMMA Heads ==
  /\ Head(<<"link">>) = "link" /\ Head(<<"point">>) = "point" /\ Head(<<"close">>) = "close"
  /\ Head(<<"stop", "link">>) = "stop" /\ Head(<<"order", "point">>) = "order"
  /\ Head(<<"raise">>) = "raise" /\ Head(<<"read">>) = "read"
  /\ Head(<<"end">>) = "end" /\ Head(<<"end", "close">>) = "end"
  OBVIOUS

\* The statements a condition selects.
LEMMA Joins ==
  ASSUME NEW first, NEW second, NEW p \in BOOLEAN, NEW q \in BOOLEAN
  PROVE  /\ p => If(p, first) \o <<second>> = <<first, second>>
         /\ ~p => If(p, first) \o <<second>> = <<second>>
         /\ p /\ q => If(p, first) \o If(q, second) = <<first, second>>
         /\ p /\ ~q => If(p, first) \o If(q, second) = <<first>>
         /\ ~p /\ q => If(p, first) \o If(q, second) = <<second>>
         /\ ~p /\ ~q => If(p, first) \o If(q, second) = <<>>
<1>1. <<first>> \o <<second>> = <<first, second>>
  <2> DEFINE both == <<first>> \o <<second>>
             S == {first, second}
  <2>1. both \in Seq(S) /\ Len(both) = 2
    OBVIOUS
  <2>2. both[1] = first /\ both[2] = second
    OBVIOUS
  <2>3. <<first, second>> \in Seq(S) /\ Len(<<first, second>>) = 2
    OBVIOUS
  <2>4. \A i \in 1..2 : both[i] = <<first, second>>[i]
    <3>1. \A i \in 1..2 : i = 1 \/ i = 2
      OBVIOUS
    <3> QED
      BY <2>2, <3>1
  <2> QED
    BY <2>1, <2>3, <2>4, SeqEqual
<1>2. <<first>> \o <<>> = <<first>> /\ <<>> \o <<second>> = <<second>> /\ <<>> \o <<>> = <<>>
  OBVIOUS
<1> QED
  BY <1>1, <1>2 DEF If

\* Going on with a request.
LEMMA Continues ==
  ASSUME FaultInv, NEW r \in Request, req[r] # Idle, NEW rest \in Rest \cup {<<>>},
         NEW s \in Stop \cup {None}, NEW w \in Order \cup {None},
         Continue(r, rest, s, w)
  PROVE  /\ req' \in [Request -> Task \cup {Idle}]
         /\ begun' = begun /\ finished' \subseteq Order
         /\ \A q \in Request \ {r} : req'[q] = req[q]
         /\ req'[r] # Idle => /\ rest # <<>> /\ req'[r].rest = rest
                              /\ req'[r].stop = s /\ req'[r].order = w
                              /\ req'[r].op = req[r].op /\ req'[r].about = req[r].about
<1>1. req[r] \in Task
  BY DEF FaultInv, FaultsTypeOK
<1>2. rest # <<>> => [req[r] EXCEPT !.rest = rest, !.stop = s, !.order = w] \in Task
  BY <1>1 DEF Task
<1>3. req' = [req EXCEPT ![r] = IF rest = <<>> THEN Idle
                               ELSE [req[r] EXCEPT !.rest = rest, !.stop = s, !.order = w]]
  BY DEF Continue
<1>4. req \in [Request -> Task \cup {Idle}]
  BY DEF FaultInv, FaultsTypeOK
<1>5. req'[r] # Idle => /\ rest # <<>>
                        /\ req'[r] = [req[r] EXCEPT !.rest = rest, !.stop = s, !.order = w]
  BY <1>3, <1>4
<1>6. req[r].op = "complete" => req[r].order \in Order
  BY DEF FaultInv, Sound
<1>7. finished' \subseteq Order
  BY <1>6 DEF Continue, FaultInv, FaultsTypeOK
<1>8. req' \in [Request -> Task \cup {Idle}]
  BY <1>2, <1>3, <1>4
<1> QED
  BY <1>1, <1>3, <1>4, <1>5, <1>7, <1>8 DEF Continue, Task

\* The other requests stay sound, and so do the links of untouched reports.
LEMMA OthersStaySound ==
  ASSUME FaultInv, Kept, NEW r \in Request, \A q \in Request \ {r} : req'[q] = req[q], Sound(r)'
  PROVE  \A q \in Request : Sound(q)'
<1> SUFFICES ASSUME NEW q \in Request \ {r} PROVE Sound(q)'
  OBVIOUS
<1>1. Sound(q) /\ req'[q] = req[q]
  BY DEF FaultInv
<1>2. req[q] # Idle => req[q].about \in Report
  BY DEF FaultInv, FaultsTypeOK, Task
<1>3. None \notin Report
  BY FaultReportsAssumption
<1> QED
  BY <1>1, <1>2, <1>3 DEF Sound, Kept

LEMMA LinksStay ==
  ASSUME FaultInv, Kept,
         \A f \in Report : report'[f].stop = report[f].stop /\ report'[f].order = report[f].order
  PROVE  LinksAreItsOwn'
<1> SUFFICES ASSUME NEW f \in Report
             PROVE  /\ report[f].stop # None => opened'[report[f].stop] = f
                    /\ report[f].order # None => order'[report[f].order].report = f
  BY DEF LinksAreItsOwn
<1>1. report[f].stop \in Stop \cup {None} /\ report[f].order \in Order \cup {None}
  BY DEF FaultInv, FaultsTypeOK, ReportRow
<1> QED
  BY <1>1, FaultReportsAssumption DEF FaultInv, LinksAreItsOwn, Kept

-----------------------------------------------------------------------------
(***************************************************************************)
(* Every step of a fault report is a step of the downtime log, or none.    *)
(***************************************************************************)
LEMMA FaultStep ==
  ASSUME FaultInv, [Next]_vars
  PROVE  [DowntimeNext]_downtimeVars
<1>1. ASSUME NEW r \in Request, NEW f \in Report,
             \/ CreateFaultReport(r, f) \/ EvaluateConditionRules(r, f)
             \/ ConvertFaultReport(r, f) \/ RejectFaultReport(r, f)
      PROVE  UNCHANGED downtimeVars
  BY <1>1 DEF CreateFaultReport, EvaluateConditionRules, ConvertFaultReport, RejectFaultReport
<1>2. ASSUME NEW r \in Request, NEW w \in Order, CompleteWorkOrder(r, w)
      PROVE  UNCHANGED downtimeVars
  BY <1>2 DEF CompleteWorkOrder
<1>3. ASSUME NEW r \in Request, OpenStop(r) PROVE DowntimeNext
  BY <1>3 DEF OpenStop, DowntimeNext, StopNext
<1>4. ASSUME NEW r \in Request,
             \/ LinkStop(r) \/ RaiseByRule(r) \/ RaiseOrder(r) \/ PointReport(r)
             \/ ReadReport(r) \/ CloseReport(r) \/ Interrupt(r)
      PROVE  UNCHANGED downtimeVars
  BY <1>4 DEF LinkStop, RaiseByRule, RaiseOrder, PointReport, ReadReport, CloseReport, Interrupt
<1>5. ASSUME NEW r \in Request, EndStop(r) PROVE [DowntimeNext]_downtimeVars
  <2>1. req[r].stop \in Stop
    BY <1>5 DEF EndStop, At, FaultInv, Sound
  <2>2. EndDowntimeEvent(req[r].stop) \/ UNCHANGED downtimeVars
    BY <1>5 DEF EndStop
  <2> QED
    BY <2>1, <2>2 DEF DowntimeNext, StopNext
<1>6. ASSUME NEW f \in Report, AckAlert(f) \/ ResolveAlert(f) PROVE UNCHANGED downtimeVars
  BY <1>6 DEF AckAlert, ResolveAlert
<1>7. ASSUME NEW w \in Order, DeleteWorkOrder(w) \/ \E next \in Target : PatchWorkOrder(w, next)
      PROVE  UNCHANGED downtimeVars
  BY <1>7 DEF DeleteWorkOrder, PatchWorkOrder
<1>8. ASSUME NEW s \in Stop, OtherStop(s) PROVE DowntimeNext
  BY <1>8 DEF OtherStop, DowntimeNext, StopNext
<1>9. CASE UNCHANGED vars
  BY <1>9 DEF vars
<1> QED
  BY <1>1, <1>2, <1>3, <1>4, <1>5, <1>6, <1>7, <1>8, <1>9 DEF Next, Requests

-----------------------------------------------------------------------------
\* A step that keeps every owner, and where the requests stay sound, keeps the invariant.
LEMMA InvKept ==
  ASSUME FaultInv, Kept, FaultsTypeOK', RowsAreBorn', NEW r \in Request,
         \A q \in Request \ {r} : req'[q] = req[q], Sound(r)',
         \A f \in Report : report'[f].stop = report[f].stop /\ report'[f].order = report[f].order
  PROVE  FaultInv'
  BY LinksStay, OthersStaySound DEF FaultInv

\* A request begins: orders may change their status, reports theirs.
LEMMA BeginKeeps ==
  ASSUME FaultInv, NEW r \in Request, NEW f \in Report,
         NEW op \in {"report", "evaluate", "convert", "reject", "complete"}, NEW rest \in Rest,
         NEW s \in Stop \cup {None}, NEW w \in Order \cup {None},
         Begin(r, op, f, rest, s, w),
         UNCHANGED <<stop, opened>>, RowsAreBorn', Kept,
         report' \in [Report -> ReportRow], order' \in [Order -> OrderRow],
         \A g \in Report : report'[g].stop = report[g].stop /\ report'[g].order = report[g].order,
         Head(rest) \in {"link", "end"} => s \in Stop /\ opened[s] = f,
         Head(rest) # "point",
         op = "complete" => w \in Order /\ Head(rest) # "stop"
  PROVE  FaultInv'
<1>0. FaultsTypeOK
  BY DEF FaultInv
<1>2. /\ req' \in [Request -> Task \cup {Idle}]
      /\ begun' \in 0..MaxRequests
      /\ finished' \subseteq Order /\ reopened' \subseteq Report /\ disturbed' \subseteq Report
      /\ \A q \in Request \ {r} : req'[q] = req[q]
      /\ req'[r] = [op |-> op, about |-> f, rest |-> rest, stop |-> s, order |-> w]
  <2>1. [op |-> op, about |-> f, rest |-> rest, stop |-> s, order |-> w] \in Task
    BY DEF Task
  <2>2. begun' \in 0..MaxRequests
    BY <1>0, FaultReportsAssumption DEF Begin, FaultsTypeOK
  <2> QED
    BY <1>0, <2>1, <2>2 DEF Begin, FaultsTypeOK
<1>1. FaultsTypeOK'
  BY <1>0, <1>2 DEF FaultsTypeOK
<1>3. Sound(r)'
  BY <1>2 DEF Sound
<1> QED
  BY <1>1, <1>2, <1>3, InvKept

\* A request goes on.
LEMMA ContinueKeeps ==
  ASSUME FaultInv, NEW r \in Request, req[r] # Idle, NEW rest \in Rest \cup {<<>>},
         NEW s \in Stop \cup {None}, NEW w \in Order \cup {None},
         Continue(r, rest, s, w),
         Kept, RowsAreBorn', LinksAreItsOwn',
         report' \in [Report -> ReportRow], opened' \in [Stop -> Report \cup {None}], order' \in [Order -> OrderRow],
         reopened' \subseteq Report, disturbed' \subseteq Report,
         rest # <<>> => /\ Head(rest) \in {"link", "end"} => s \in Stop /\ opened'[s] = req[r].about
                        /\ Head(rest) = "point" => w \in Order /\ order'[w].report = req[r].about
                        /\ req[r].op = "complete" => w \in Order
                        /\ Head(rest) # "stop"
  PROVE  FaultInv'
<1>1. FaultsTypeOK'
  BY Continues DEF FaultsTypeOK, FaultInv
<1>2. /\ \A q \in Request \ {r} : req'[q] = req[q]
      /\ req'[r] # Idle => /\ rest # <<>> /\ req'[r].rest = rest
                           /\ req'[r].stop = s /\ req'[r].order = w
                           /\ req'[r].op = req[r].op /\ req'[r].about = req[r].about
  BY Continues
<1>3. Sound(r)'
  BY <1>2 DEF Sound
<1> QED
  BY <1>1, <1>2, <1>3, OthersStaySound DEF FaultInv

\* No request moves.
LEMMA RestKeeps ==
  ASSUME FaultInv, UNCHANGED req, Kept, FaultsTypeOK', RowsAreBorn',
         \A f \in Report : report'[f].stop = report[f].stop /\ report'[f].order = report[f].order
  PROVE  FaultInv'
<1>1. CASE Request = {}
  BY <1>1, LinksStay DEF FaultInv
<1>2. ASSUME NEW r \in Request PROVE Sound(r)'
  <2>1. Sound(r) /\ (req[r] # Idle => req[r].about \in Report)
    BY DEF FaultInv, FaultsTypeOK, Task
  <2> QED
    BY <2>1, FaultReportsAssumption DEF Sound, Kept
<1> QED
  BY <1>2, LinksStay DEF FaultInv

\* A step of the downtime log brings no row back to nothing.
LEMMA StopsStayBorn ==
  ASSUME DowntimeTypeOK, NEW s \in Stop, StopNext(s)
  PROVE  \A t \in Stop : stop'[t].state = "none" => stop[t].state = "none"
<1> USE DEF DowntimeTypeOK, StopRow
<1>1. CASE CreateOpen(s) \/ StartDowntimeEvent(s) \/ CreateScheduled(s)
  BY <1>1 DEF CreateOpen, StartDowntimeEvent, CreateScheduled
<1>2. CASE CancelDowntimeEvent(s) \/ DeleteDowntimeEvent(s)
  BY <1>2 DEF CancelDowntimeEvent, DeleteDowntimeEvent
<1>3. CASE CreateHistorical(s)
  BY <1>3 DEF CreateHistorical
<1>4. CASE EndDowntimeEvent(s)
  BY <1>4 DEF EndDowntimeEvent
<1> QED
  BY <1>1, <1>2, <1>3, <1>4 DEF StopNext

-----------------------------------------------------------------------------
LEMMA InitFaults == Init => LogInv /\ FaultInv
<1> SUFFICES ASSUME Init PROVE LogInv /\ FaultInv
  OBVIOUS
<1>1. LogInv
  BY InitLog DEF Init
<1>2. ASSUME NEW f \in Report
      PROVE  report[f] \in ReportRow /\ report[f].stop = None /\ report[f].order = None
  BY DEF Init, ReportRow, ReportStatus
<1>3. report \in [Report -> ReportRow]
  BY <1>2 DEF Init
<1>4. opened \in [Stop -> Report \cup {None}] /\ order \in [Order -> OrderRow]
  BY DEF Init, OrderRow, OrderStatus
<1>5. FaultsTypeOK
  BY <1>3, <1>4, FaultReportsAssumption DEF Init, FaultsTypeOK
<1>6. RowsAreBorn
  BY DEF Init, RowsAreBorn
<1>7. \A r \in Request : Sound(r)
  BY DEF Init, Sound
<1> QED
  BY <1>1, <1>2, <1>5, <1>6, <1>7 DEF FaultInv, LinksAreItsOwn

-----------------------------------------------------------------------------
\* The statements a request begins with.
LEMMA Beginnings ==
  ASSUME FaultInv, LogInv, NEW r \in Request, NEW f \in Report,
         \/ CreateFaultReport(r, f) \/ EvaluateConditionRules(r, f)
         \/ ConvertFaultReport(r, f) \/ RejectFaultReport(r, f)
  PROVE  FaultInv'
<1>0. /\ FaultsTypeOK /\ RowsAreBorn
      /\ report[f].stop \in Stop \cup {None}
      /\ report[f].stop # None => opened[report[f].stop] = f
  BY DEF FaultInv, FaultsTypeOK, ReportRow, LinksAreItsOwn
<1>1. /\ UNCHANGED <<downtimeVars, opened, order>>
      /\ \/ UNCHANGED report
         \/ report' = [report EXCEPT ![f].status = "new"]
  BY DEF CreateFaultReport, EvaluateConditionRules, ConvertFaultReport, RejectFaultReport
<1>2. /\ UNCHANGED <<stop, opened, order>> /\ RowsAreBorn' /\ Kept
      /\ order' \in [Order -> OrderRow]
  BY <1>0, <1>1 DEF downtimeVars, RowsAreBorn, Kept, FaultsTypeOK
<1>3. /\ report' \in [Report -> ReportRow]
      /\ \A g \in Report : report'[g].stop = report[g].stop /\ report'[g].order = report[g].order
  BY <1>0, <1>1 DEF FaultsTypeOK, ReportRow, ReportStatus
<1>4. CASE UNCHANGED <<req, history>>
  <2>1. FaultsTypeOK'
    BY <1>0, <1>2, <1>3, <1>4 DEF FaultsTypeOK, history
  <2> QED
    BY <1>2, <1>3, <1>4, <2>1, RestKeeps
<1>5. CASE Begin(r, "report", f, <<"stop", "link">>, None, None)
  BY <1>2, <1>3, <1>5, Heads, BeginKeeps DEF Rest
<1>6. CASE Begin(r, "evaluate", f, <<"raise">>, None, None)
  BY <1>2, <1>3, <1>6, Heads, BeginKeeps DEF Rest
<1>7. CASE Begin(r, "convert", f, <<"order", "point">>, None, None)
  BY <1>2, <1>3, <1>7, Heads, BeginKeeps DEF Rest
<1>8. CASE RejectFaultReport(r, f)
  <2>1. CASE report[f].stop = None
    <3>1. Begin(r, "reject", f, <<"close">>, None, None)
      BY <1>8, <2>1, Joins DEF RejectFaultReport
    <3> QED
      BY <1>2, <1>3, <3>1, Heads, BeginKeeps DEF Rest
  <2>2. CASE report[f].stop # None
    <3>1. Begin(r, "reject", f, <<"end", "close">>, report[f].stop, None)
      BY <1>8, <2>2, Joins DEF RejectFaultReport
    <3> QED
      BY <1>0, <1>2, <1>3, <2>2, <3>1, Heads, BeginKeeps DEF Rest
  <2> QED
    BY <2>1, <2>2
<1> QED
  BY <1>4, <1>5, <1>6, <1>7, <1>8 DEF CreateFaultReport, EvaluateConditionRules, ConvertFaultReport

LEMMA Completions ==
  ASSUME FaultInv, LogInv, NEW r \in Request, NEW w \in Order, CompleteWorkOrder(r, w)
  PROVE  FaultInv'
<1>1. /\ FaultsTypeOK /\ RowsAreBorn
      /\ order[w].report \in Report
  BY DEF FaultInv, FaultsTypeOK, RowsAreBorn, OrderRow, CompleteWorkOrder
<1>2. /\ order[w].status # "none"
      /\ order' = [order EXCEPT ![w].status = "completed"]
      /\ UNCHANGED <<stop, opened, report>>
      /\ Begin(r, "complete", order[w].report, <<"read">>, None, w)
  BY DEF CompleteWorkOrder, downtimeVars
<1>3. order' \in [Order -> OrderRow] /\ RowsAreBorn' /\ Kept
  BY <1>1, <1>2 DEF FaultsTypeOK, OrderRow, OrderStatus, RowsAreBorn, Kept
<1>4. /\ report' \in [Report -> ReportRow]
      /\ \A g \in Report : report'[g].stop = report[g].stop /\ report'[g].order = report[g].order
  BY <1>1, <1>2 DEF FaultsTypeOK
<1> QED
  BY <1>1, <1>2, <1>3, <1>4, Heads, BeginKeeps DEF Rest

\* What stands when a request's next statement is read off.
LEMMA Statement ==
  ASSUME FaultInv, NEW r \in Request, NEW statement, At(r, statement)
  PROVE  /\ req[r] # Idle /\ req[r] \in Task /\ req[r].about \in Report
         /\ req[r].about # None
         /\ Head(req[r].rest) = statement
         /\ req[r].rest \in Rest
         /\ req[r].stop \in Stop \cup {None} /\ req[r].order \in Order \cup {None}
         /\ req[r].op = "complete" => req[r].order \in Order /\ statement # "stop"
  BY FaultReportsAssumption DEF At, FaultInv, FaultsTypeOK, Task, Sound

LEMMA OpenStopKeeps ==
  ASSUME FaultInv, LogInv, NEW r \in Request, OpenStop(r)
  PROVE  FaultInv'
<1>1. At(r, "stop")
  BY DEF OpenStop
<1>2. /\ req[r] # Idle /\ req[r].about \in Report /\ req[r].about # None
      /\ req[r].rest \in Rest /\ Head(req[r].rest) = "stop" /\ req[r].op # "complete"
  BY <1>1, Statement
<1>3. Tail(req[r].rest) = <<"link">>
  BY <1>2, Rests
<1>4. PICK s \in Stop :
         /\ CreateOpen(s)
         /\ opened' = [opened EXCEPT ![s] = req[r].about]
         /\ Continue(r, Tail(req[r].rest), s, None)
  BY DEF OpenStop
<1>5. UNCHANGED <<report, order, reopened, disturbed>>
  BY DEF OpenStop
<1>6. FaultsTypeOK /\ RowsAreBorn /\ LinksAreItsOwn /\ DowntimeTypeOK
  BY DEF FaultInv, LogInv
<1>8. opened' \in [Stop -> Report \cup {None}] /\ opened'[s] = req[r].about
  BY <1>2, <1>4, <1>6 DEF FaultsTypeOK
<1>9. opened[s] = None /\ \A t \in Stop \ {s} : opened'[t] = opened[t]
  BY <1>4, <1>6 DEF RowsAreBorn, CreateOpen, FaultsTypeOK
<1>10. Kept
  BY <1>5, <1>9 DEF Kept
<1>11. RowsAreBorn'
  <2>1. stop'[s].state = "open" /\ \A t \in Stop \ {s} : stop'[t] = stop[t]
    BY <1>4, <1>6 DEF CreateOpen, DowntimeTypeOK, StopRow
  <2>2. \A t \in Stop : stop'[t].state = "none" => opened'[t] = None
    BY <1>6, <1>9, <2>1 DEF RowsAreBorn
  <2> QED
    BY <1>5, <1>6, <2>2 DEF RowsAreBorn
<1>12. LinksAreItsOwn'
  BY <1>5, <1>10, LinksStay
<1>13. /\ report' \in [Report -> ReportRow] /\ order' \in [Order -> OrderRow]
       /\ reopened' \subseteq Report /\ disturbed' \subseteq Report
  BY <1>5, <1>6 DEF FaultsTypeOK
<1>14. /\ <<"link">> \in Rest /\ Head(<<"link">>) = "link"
  BY Heads DEF Rest
<1> QED
  BY <1>2, <1>3, <1>4, <1>8, <1>10, <1>11, <1>12, <1>13, <1>14, ContinueKeeps

\* A statement that leaves the log alone, ends the request or takes it to its
\* last statement, and keeps every owner.
LEMMA LastStatement ==
  ASSUME FaultInv, NEW r \in Request, NEW statement \in {"link", "raise", "point", "close"},
         At(r, statement), Proceed(r), UNCHANGED <<downtimeVars, opened, order, disturbed>>,
         report' \in [Report -> ReportRow], reopened' \subseteq Report,
         LinksAreItsOwn'
  PROVE  FaultInv'
<1>1. /\ req[r] # Idle /\ req[r].rest \in Rest /\ Head(req[r].rest) = statement
      /\ req[r].stop \in Stop \cup {None} /\ req[r].order \in Order \cup {None}
  BY Statement
<1>2. Tail(req[r].rest) = <<>>
  BY <1>1, Rests
<1>3. Continue(r, <<>>, req[r].stop, req[r].order)
  BY <1>2 DEF Proceed
<1>4. FaultsTypeOK /\ RowsAreBorn
  BY DEF FaultInv
<1>5. /\ Kept /\ RowsAreBorn' /\ disturbed' \subseteq Report
      /\ opened' \in [Stop -> Report \cup {None}] /\ order' \in [Order -> OrderRow]
  BY <1>4 DEF Kept, RowsAreBorn, downtimeVars, FaultsTypeOK
<1> QED
  BY <1>1, <1>3, <1>5, ContinueKeeps

LEMMA Statements ==
  ASSUME FaultInv, NEW r \in Request,
         LinkStop(r) \/ RaiseByRule(r) \/ PointReport(r) \/ CloseReport(r)
  PROVE  FaultInv'
<1>0. /\ FaultsTypeOK /\ LinksAreItsOwn
  BY DEF FaultInv
<1>1. CASE LinkStop(r)
  <2>1. At(r, "link") /\ Proceed(r) /\ UNCHANGED <<downtimeVars, opened, order, reopened, disturbed>>
        /\ report' = [report EXCEPT ![req[r].about].stop = req[r].stop]
    BY <1>1 DEF LinkStop
  <2>2. req[r] # Idle /\ req[r].about \in Report /\ Head(req[r].rest) = "link"
    BY <2>1, Statement
  <2>3. req[r].stop \in Stop /\ opened[req[r].stop] = req[r].about
    BY <2>2 DEF FaultInv, Sound
  <2>4. report' \in [Report -> ReportRow]
    BY <1>0, <2>1, <2>2, <2>3 DEF FaultsTypeOK, ReportRow
  <2>5. LinksAreItsOwn'
    BY <1>0, <2>1, <2>2, <2>3 DEF LinksAreItsOwn, FaultsTypeOK, ReportRow
  <2> QED
    BY <1>0, <2>1, <2>4, <2>5, LastStatement DEF FaultsTypeOK
<1>2. CASE RaiseByRule(r)
  <2>1. At(r, "raise") /\ Proceed(r) /\ UNCHANGED <<downtimeVars, opened, order, reopened, disturbed>>
        /\ report' = [report EXCEPT ![req[r].about] = [@ EXCEPT !.status = "new", !.rule = TRUE]]
    BY <1>2 DEF RaiseByRule
  <2>2. req[r].about \in Report
    BY <2>1, Statement
  <2>3. report' \in [Report -> ReportRow]
    <3>1. report[req[r].about] \in ReportRow
      BY <1>0, <2>2 DEF FaultsTypeOK
    <3>2. [report[req[r].about] EXCEPT !.status = "new", !.rule = TRUE] \in ReportRow
      BY <3>1 DEF ReportRow, ReportStatus
    <3> QED
      BY <1>0, <2>1, <2>2, <3>2 DEF FaultsTypeOK
  <2>4. LinksAreItsOwn'
    BY <1>0, <2>1, <2>2 DEF LinksAreItsOwn, FaultsTypeOK, ReportRow
  <2> QED
    BY <1>0, <2>1, <2>3, <2>4, LastStatement DEF FaultsTypeOK
<1>3. CASE PointReport(r)
  <2>1. At(r, "point") /\ Proceed(r) /\ UNCHANGED <<downtimeVars, opened, order, disturbed>>
        /\ report' = [report EXCEPT ![req[r].about] =
                         [@ EXCEPT !.status = "investigating", !.order = req[r].order]]
        /\ Reopens(req[r].about)
    BY <1>3 DEF PointReport
  <2>2. req[r] # Idle /\ req[r].about \in Report /\ Head(req[r].rest) = "point"
    BY <2>1, Statement
  <2>3. req[r].order \in Order /\ order[req[r].order].report = req[r].about
    BY <2>2 DEF FaultInv, Sound
  <2>4. report' \in [Report -> ReportRow] /\ reopened' \subseteq Report
    BY <1>0, <2>1, <2>2, <2>3 DEF FaultsTypeOK, ReportRow, ReportStatus, Reopens
  <2>5. LinksAreItsOwn'
    BY <1>0, <2>1, <2>2, <2>3 DEF LinksAreItsOwn, FaultsTypeOK, ReportRow
  <2> QED
    BY <2>1, <2>4, <2>5, LastStatement
<1>4. CASE CloseReport(r)
  <2>1. At(r, "close") /\ Proceed(r) /\ UNCHANGED <<downtimeVars, opened, order, reopened, disturbed>>
        /\ report' = [report EXCEPT ![req[r].about].status =
                         IF req[r].op = "reject" THEN "false_positive" ELSE "resolved"]
    BY <1>4 DEF CloseReport
  <2>2. req[r].about \in Report
    BY <2>1, Statement
  <2>3. report' \in [Report -> ReportRow]
    BY <1>0, <2>1, <2>2 DEF FaultsTypeOK, ReportRow, ReportStatus
  <2>4. LinksAreItsOwn'
    BY <1>0, <2>1, <2>2 DEF LinksAreItsOwn, FaultsTypeOK, ReportRow
  <2> QED
    BY <1>0, <2>1, <2>3, <2>4, LastStatement DEF FaultsTypeOK
<1> QED
  BY <1>1, <1>2, <1>3, <1>4

LEMMA RaiseOrderKeeps ==
  ASSUME FaultInv, NEW r \in Request, RaiseOrder(r)
  PROVE  FaultInv'
<1>1. At(r, "order") /\ UNCHANGED <<downtimeVars, report, opened, reopened, disturbed>>
  BY DEF RaiseOrder
<1>2. PICK w \in Order :
         /\ order[w].status = "none"
         /\ order' = [order EXCEPT ![w] = [status |-> "open", report |-> req[r].about]]
         /\ Continue(r, Tail(req[r].rest), None, w)
  BY DEF RaiseOrder
<1>3. /\ req[r] # Idle /\ req[r].about \in Report /\ req[r].about # None
      /\ req[r].rest \in Rest /\ Head(req[r].rest) = "order"
  BY <1>1, Statement
<1>4. Tail(req[r].rest) = <<"point">>
  BY <1>3, Rests
<1>5. FaultsTypeOK /\ RowsAreBorn /\ LinksAreItsOwn
  BY DEF FaultInv
<1>6. /\ order' \in [Order -> OrderRow] /\ order'[w].report = req[r].about
      /\ order'[w].status = "open"
      /\ \A v \in Order \ {w} : order'[v] = order[v]
  BY <1>2, <1>3, <1>5 DEF FaultsTypeOK, OrderRow, OrderStatus
<1>7. Kept
  BY <1>1, <1>2, <1>5, <1>6 DEF Kept, RowsAreBorn
<1>8. RowsAreBorn'
  BY <1>1, <1>3, <1>5, <1>6 DEF RowsAreBorn, downtimeVars
<1>9. LinksAreItsOwn'
  BY <1>1, <1>7, LinksStay
<1>10. /\ report' \in [Report -> ReportRow] /\ opened' \in [Stop -> Report \cup {None}]
       /\ reopened' \subseteq Report /\ disturbed' \subseteq Report
  BY <1>1, <1>5 DEF FaultsTypeOK
<1>11. <<"point">> \in Rest /\ Head(<<"point">>) = "point"
  BY Heads DEF Rest
<1> QED
  BY <1>2, <1>3, <1>4, <1>6, <1>7, <1>8, <1>9, <1>10, <1>11, ContinueKeeps

LEMMA ReadReportKeeps ==
  ASSUME FaultInv, NEW r \in Request, ReadReport(r)
  PROVE  FaultInv'
<1> DEFINE f == req[r].about
           ends == report[f].stop # None
           closes == report[f].status # "resolved"
           rest == If(ends, "end") \o If(closes, "close")
<1>1. /\ At(r, "read") /\ UNCHANGED <<downtimeVars, report, opened, order, reopened, disturbed>>
      /\ Continue(r, rest, report[f].stop, req[r].order)
  BY DEF ReadReport
<1>2. /\ req[r] # Idle /\ f \in Report
      /\ req[r].order \in Order \cup {None} /\ (req[r].op = "complete" => req[r].order \in Order)
  BY <1>1, Statement
<1>3. FaultsTypeOK /\ RowsAreBorn /\ LinksAreItsOwn
  BY DEF FaultInv
<1>4. /\ report[f].stop \in Stop \cup {None}
      /\ ends => report[f].stop \in Stop /\ opened'[report[f].stop] = f
  BY <1>1, <1>2, <1>3 DEF FaultsTypeOK, ReportRow, LinksAreItsOwn
<1>5. /\ rest \in Rest \cup {<<>>}
      /\ rest # <<>> => Head(rest) \in {"end", "close"} /\ (Head(rest) = "end" => ends)
  <2>1. CASE ends /\ closes
    <3>1. rest = <<"end", "close">>
      BY <2>1, Joins
    <3>2. <<"end", "close">> \in Rest /\ <<"end", "close">> # <<>> /\ Head(<<"end", "close">>) = "end"
      BY Heads DEF Rest
    <3> HIDE DEF rest
    <3> QED
      BY <2>1, <3>1, <3>2
  <2>2. CASE ends /\ ~closes
    <3>1. rest = <<"end">>
      BY <2>2, Joins
    <3>2. <<"end">> \in Rest /\ <<"end">> # <<>> /\ Head(<<"end">>) = "end"
      BY Heads DEF Rest
    <3> HIDE DEF rest
    <3> QED
      BY <2>2, <3>1, <3>2
  <2>3. CASE ~ends /\ closes
    <3>1. rest = <<"close">>
      BY <2>3, Joins
    <3>2. <<"close">> \in Rest /\ <<"close">> # <<>> /\ Head(<<"close">>) = "close"
      BY Heads DEF Rest
    <3> HIDE DEF rest
    <3> QED
      BY <2>3, <3>1, <3>2
  <2>4. CASE ~ends /\ ~closes
    BY <2>4, Joins
  <2> QED
    BY <2>1, <2>2, <2>3, <2>4
<1>6. /\ Kept /\ RowsAreBorn' /\ LinksAreItsOwn'
      /\ report' \in [Report -> ReportRow] /\ opened' \in [Stop -> Report \cup {None}]
      /\ order' \in [Order -> OrderRow] /\ reopened' \subseteq Report /\ disturbed' \subseteq Report
  BY <1>1, <1>3 DEF Kept, RowsAreBorn, LinksAreItsOwn, FaultsTypeOK, downtimeVars
<1> HIDE DEF rest
<1> QED
  BY <1>1, <1>2, <1>4, <1>5, <1>6, ContinueKeeps

\* A stop moves in the log; nothing of the reports but what is left to do.
LEMMA EndStopKeeps ==
  ASSUME FaultInv, LogInv, NEW r \in Request, EndStop(r)
  PROVE  FaultInv'
<1>1. /\ At(r, "end") /\ Proceed(r) /\ UNCHANGED <<report, opened, order, reopened>>
      /\ \/ EndDowntimeEvent(req[r].stop) /\ UNCHANGED disturbed
         \/ UNCHANGED <<downtimeVars, disturbed>>
         \/ disturbed' = disturbed \cup {req[r].about} /\ UNCHANGED downtimeVars
  BY DEF EndStop
<1>2. /\ req[r] # Idle /\ req[r].about \in Report /\ req[r].rest \in Rest /\ Head(req[r].rest) = "end"
      /\ req[r].stop \in Stop \cup {None} /\ req[r].order \in Order \cup {None}
      /\ req[r].op = "complete" => req[r].order \in Order
  BY <1>1, Statement
<1>3. /\ Tail(req[r].rest) \in Rest \cup {<<>>}
      /\ Tail(req[r].rest) # <<>> => Head(Tail(req[r].rest)) = "close"
  BY <1>2, Rests, Heads
<1>4. req[r].stop \in Stop
  BY <1>2 DEF FaultInv, Sound
<1>5. FaultsTypeOK /\ RowsAreBorn /\ LinksAreItsOwn /\ DowntimeTypeOK
  BY DEF FaultInv, LogInv
<1>6. \A t \in Stop : stop'[t].state = "none" => stop[t].state = "none"
  <2>1. CASE EndDowntimeEvent(req[r].stop)
    BY <1>4, <1>5, <2>1, StopsStayBorn DEF StopNext
  <2>2. CASE UNCHANGED downtimeVars
    BY <2>2 DEF downtimeVars
  <2> QED
    BY <1>1, <2>1, <2>2
<1>7. /\ Kept /\ RowsAreBorn' /\ LinksAreItsOwn'
      /\ report' \in [Report -> ReportRow] /\ opened' \in [Stop -> Report \cup {None}]
      /\ order' \in [Order -> OrderRow] /\ reopened' \subseteq Report /\ disturbed' \subseteq Report
  BY <1>1, <1>2, <1>5, <1>6 DEF Kept, RowsAreBorn, LinksAreItsOwn, FaultsTypeOK
<1>8. Continue(r, Tail(req[r].rest), req[r].stop, req[r].order)
  BY <1>1 DEF Proceed
<1> QED
  BY <1>2, <1>3, <1>7, <1>8, ContinueKeeps

\* What takes one statement, and requests that go away.
LEMMA OthersKeep ==
  ASSUME FaultInv, LogInv,
         \/ \E r \in Request : Interrupt(r)
         \/ \E f \in Report : AckAlert(f) \/ ResolveAlert(f)
         \/ \E w \in Order : DeleteWorkOrder(w) \/ \E next \in Target : PatchWorkOrder(w, next)
         \/ \E s \in Stop : OtherStop(s)
         \/ UNCHANGED vars
  PROVE  FaultInv'
<1>0. FaultsTypeOK /\ RowsAreBorn /\ DowntimeTypeOK
  BY DEF FaultInv, LogInv
<1>1. ASSUME NEW r \in Request, Interrupt(r) PROVE FaultInv'
  <2>1. /\ req' = [req EXCEPT ![r] = Idle] /\ disturbed' = disturbed \cup {req[r].about}
        /\ UNCHANGED <<downtimeVars, report, opened, order, begun, finished, reopened>>
    BY <1>1 DEF Interrupt
  <2>2. req[r].about \in Report
    BY <1>0, <1>1 DEF Interrupt, FaultsTypeOK, Task
  <2>3. req'[r] = Idle /\ \A q \in Request \ {r} : req'[q] = req[q]
    BY <1>0, <2>1 DEF FaultsTypeOK
  <2>4. FaultsTypeOK'
    BY <1>0, <2>1, <2>2 DEF FaultsTypeOK
  <2>5. Kept /\ RowsAreBorn' /\ Sound(r)'
    BY <1>0, <2>1, <2>3 DEF Kept, RowsAreBorn, Sound, downtimeVars
  <2> QED
    BY <2>1, <2>3, <2>4, <2>5, InvKept
<1>2. ASSUME NEW f \in Report, AckAlert(f) \/ ResolveAlert(f) PROVE FaultInv'
  <2>1. /\ \E new \in {"ack", "resolved"} : report' = [report EXCEPT ![f].status = new]
        /\ UNCHANGED <<downtimeVars, opened, order, req, begun, finished, disturbed>>
        /\ reopened' \subseteq reopened \cup {f}
    BY <1>2 DEF AckAlert, ResolveAlert, Reopens, history
  <2>2. /\ report' \in [Report -> ReportRow]
        /\ \A g \in Report : report'[g].stop = report[g].stop /\ report'[g].order = report[g].order
    BY <1>0, <2>1 DEF FaultsTypeOK, ReportRow, ReportStatus
  <2>3. FaultsTypeOK'
    BY <1>0, <2>1, <2>2 DEF FaultsTypeOK
  <2>4. Kept /\ RowsAreBorn'
    BY <1>0, <2>1 DEF Kept, RowsAreBorn, downtimeVars
  <2> QED
    BY <2>1, <2>2, <2>3, <2>4, RestKeeps
<1>3. ASSUME NEW w \in Order, DeleteWorkOrder(w) \/ \E next \in Target : PatchWorkOrder(w, next)
      PROVE  FaultInv'
  <2>1. PICK new \in OrderStatus \ {"none"} : order' = [order EXCEPT ![w].status = new]
    BY <1>3, FaultReportsAssumption DEF DeleteWorkOrder, PatchWorkOrder, OrderStatus
  <2>2. order[w].status # "none" /\ UNCHANGED <<downtimeVars, report, opened, req, history>>
    BY <1>3 DEF DeleteWorkOrder, PatchWorkOrder
  <2>3. order' \in [Order -> OrderRow]
    BY <1>0, <2>1 DEF FaultsTypeOK, OrderRow
  <2>4. FaultsTypeOK'
    BY <1>0, <2>2, <2>3 DEF FaultsTypeOK, history
  <2>5. Kept /\ RowsAreBorn'
    BY <1>0, <2>1, <2>2 DEF Kept, RowsAreBorn, downtimeVars, FaultsTypeOK, OrderRow
  <2> QED
    BY <2>2, <2>4, <2>5, RestKeeps
<1>4. ASSUME NEW s \in Stop, OtherStop(s) PROVE FaultInv'
  <2>1. StopNext(s) /\ UNCHANGED <<report, opened, order, req, begun, finished, reopened, disturbed>>
    BY <1>4 DEF OtherStop, StopNext, faultVars, history
  <2>2. FaultsTypeOK' /\ Kept
    BY <1>0, <2>1 DEF FaultsTypeOK, Kept
  <2>3. RowsAreBorn'
    BY <1>0, <2>1, StopsStayBorn DEF RowsAreBorn
  <2> QED
    BY <2>1, <2>2, <2>3, RestKeeps
<1>5. CASE UNCHANGED vars
  <2>1. UNCHANGED <<stop, report, opened, order, req, begun, finished, reopened, disturbed>>
    BY <1>5 DEF vars, downtimeVars, faultVars, history
  <2>2. FaultsTypeOK' /\ Kept /\ RowsAreBorn'
    BY <1>0, <2>1 DEF FaultsTypeOK, Kept, RowsAreBorn
  <2> QED
    BY <2>1, <2>2, RestKeeps
<1> QED
  BY <1>1, <1>2, <1>3, <1>4, <1>5

LEMMA FaultInvStep ==
  ASSUME LogInv, FaultInv, [Next]_vars
  PROVE  FaultInv'
  BY Beginnings, Completions, OpenStopKeeps, Statements, RaiseOrderKeeps, ReadReportKeeps,
     EndStopKeeps, OthersKeep DEF Next, Requests

-----------------------------------------------------------------------------
\* The links between a report, its stop and its order are never crossed
\* (LinksAreItsOwn, and the types), whoever reports, triages, completes, edits
\* or deletes what at the same time: the stop that RejectFaultReport or
\* completeFaultReport ends is this report's.
THEOREM LinksBelong == Spec => [](FaultsTypeOK /\ LinksAreItsOwn)
<1>1. LogInv /\ FaultInv /\ [Next]_vars => LogInv' /\ FaultInv'
  BY FaultStep, LogStep, FaultInvStep
<1>2. LogInv /\ FaultInv => FaultsTypeOK /\ LinksAreItsOwn
  BY DEF FaultInv
<1> QED
  BY <1>1, <1>2, InitFaults, PTL DEF Spec

\* Fault reports use the downtime log only through its operations: what happens
\* to stops and machines is a behaviour of the log on its own.
THEOREM ReportsKeepTheLog == Spec => DowntimeSpec
<1>1. LogInv /\ FaultInv /\ [Next]_vars => LogInv' /\ FaultInv'
  BY FaultStep, LogStep, FaultInvStep
<1>2. Init => DowntimeInit
  BY DEF Init
<1> QED
  BY <1>1, <1>2, InitFaults, FaultStep, PTL DEF Spec, DowntimeSpec

\* So with reports racing each other, too, a machine whose stops have all been
\* ended is idle, one under a live stop is down, and the messages tell each
\* stop's life.
THEOREM ReportedMachinesComeBack ==
  Spec => [](MessagesFollowLifecycle /\ LiveStopMeansDown /\ MachinesComeBack)
  BY ReportsKeepTheLog, LogIsTold, MachinesFollowTheLog, PTL

-----------------------------------------------------------------------------
(***************************************************************************)
(* What becomes of a report.  As long as requests about it come one after  *)
(* the other and none fails, the one in flight knows all there is to know: *)
(* nobody else opens a stop for the report or raises an order from it.     *)
(***************************************************************************)
Todo(r) == Head(req[r].rest)

Left == [report |-> {"stop", "link"}, evaluate |-> {"raise"}, convert |-> {"order", "point"},
         reject |-> {"end", "close"}, complete |-> {"read", "end", "close"}]

\* True of every request, raced or not.
Tasked(r) ==
    /\ Todo(r) \in Left[req[r].op]
    /\ req[r].op = "evaluate" <=> report[req[r].about].status = "none"
    /\ req[r].op = "complete" => order[req[r].order].report = req[r].about

Stopless(f)  == \A s \in Stop : opened[s] # f
Orderless(f) == \A w \in Order : order[w].report # f
LetGo(f)     == \A s \in Stop : opened[s] = f => ~Live(s)

Alone(f) == \A r, q \in About(f) : r = q

Unborn(f) ==
    report[f].status = "none" => ~report[f].rule /\ Stopless(f) /\ Orderless(f) /\ Alone(f)

\* Of a report nothing disturbed: its stops are known, and end before it is closed.
Quiet(f) ==
    /\ \A r \in About(f) :
          /\ Todo(r) \in {"stop", "link"} => Orderless(f) /\ report[f].status # "false_positive"
          /\ Todo(r) = "stop" => Stopless(f)
          /\ Todo(r) \in {"link", "end"} => \A s \in Stop : opened[s] = f => s = req[r].stop
          /\ Todo(r) = "close" => LetGo(f)
    /\ \A s \in Stop : opened[s] = f =>
          s = report[f].stop \/ \E r \in About(f) : Todo(r) = "link" /\ req[r].stop = s
    /\ report[f].status = "false_positive" => LetGo(f)
    /\ \A w \in finished : order[w].report = f => LetGo(f)

\* Of one that was not opened again either: it has one order at most.
Once(f) ==
    /\ \A r \in About(f) :
          /\ Todo(r) = "order" => Orderless(f)
          /\ Todo(r) = "point" => \A w \in Order : order[w].report = f => w = req[r].order /\ w \notin finished
          /\ req[r].op = "convert" => report[f].status # "false_positive"
          /\ req[r].op = "reject" => Orderless(f)
          /\ req[r].op = "complete" => report[f].status \notin Untriaged
          /\ Todo(r) = "end" /\ Tail(req[r].rest) = <<>> => report[f].status = "resolved"
    /\ report[f].status \in Untriaged => Orderless(f) \/ \E r \in About(f) : Todo(r) = "point"
    /\ \A w, x \in Order : order[w].report = f /\ order[x].report = f => w = x
    /\ report[f].status = "false_positive" => Orderless(f)
    /\ \A w \in finished : order[w].report = f => report[f].status = "resolved"

Fine(f) ==
    /\ Unborn(f)
    /\ \A r \in About(f) : Tasked(r)
    /\ f \notin disturbed => Alone(f) /\ Quiet(f)
    /\ f \notin disturbed \cup reopened => Once(f)

\* A step about other reports.
Untouched(f) ==
    /\ report'[f] = report[f]
    /\ \A r \in Request : r \in About(f) \/ r \in About(f)' => req'[r] = req[r]
    /\ \A w \in Order : order'[w].report = f <=> order[w].report = f
    /\ \A s \in Stop : opened'[s] = f <=> opened[s] = f
    /\ \A s \in Stop : opened[s] = f /\ Live(s)' => Live(s)
    /\ \A w \in finished' : order[w].report = f => w \in finished
    /\ f \in disturbed => f \in disturbed'
    /\ f \in reopened => f \in reopened'

-----------------------------------------------------------------------------
LEMMA UntouchedStaysFine ==
  ASSUME FaultInv, FaultInv', NEW f \in Report, Fine(f), Untouched(f)
  PROVE  Fine(f)'
<1>1. \A r \in Request : (r \in About(f)' <=> r \in About(f)) /\ (r \in About(f) => req'[r] = req[r])
  BY DEF Untouched, About
<1>2. \A r \in About(f) : r \in Request /\ req[r].about = f /\ req[r] # Idle
  BY DEF About
<1>2a. \A r \in About(f)' : r \in About(f) /\ req'[r] = req[r]
  BY <1>1 DEF About
<1>2b. \A r \in About(f) : r \in About(f)'
  BY <1>1 DEF About
<1>3. /\ report'[f] = report[f]
      /\ Stopless(f) => Stopless(f)'
      /\ Orderless(f) => Orderless(f)'
      /\ LetGo(f) => LetGo(f)'
      /\ Alone(f) => Alone(f)'
  BY <1>2a DEF Untouched, Stopless, Orderless, LetGo, Alone
<1>4. Unborn(f)'
  BY <1>3 DEF Fine, Unborn
<1>5. ASSUME NEW r \in About(f)' PROVE Tasked(r)'
  <2>1. Tasked(r) /\ req'[r] = req[r] /\ req[r].about = f /\ report'[f] = report[f]
    BY <1>2, <1>2a, <1>3, <1>5 DEF Fine
  <2>2. req[r].op = "complete" => req[r].order \in Order
    BY <1>2, <1>2a, <1>5 DEF FaultInv, Sound
  <2>3. req[r].op = "complete" => order'[req[r].order].report = f
    BY <2>1, <2>2 DEF Tasked, Untouched
  <2> QED
    BY <2>1, <2>3 DEF Tasked, Todo
<1>6. \A w \in finished' : order'[w].report = f => w \in finished /\ order[w].report = f
  BY DEF Untouched, FaultInv, FaultsTypeOK
<1>7. ASSUME f \notin disturbed' PROVE Quiet(f)'
  <2>1. Quiet(f)
    BY <1>7 DEF Fine, Untouched
  <2>2. ASSUME NEW r \in About(f)'
        PROVE  (/\ Todo(r) \in {"stop", "link"} => Orderless(f) /\ report[f].status # "false_positive"
                /\ Todo(r) = "stop" => Stopless(f)
                /\ Todo(r) \in {"link", "end"} => \A s \in Stop : opened[s] = f => s = req[r].stop
                /\ Todo(r) = "close" => LetGo(f))'
    <3>1. r \in About(f) /\ req'[r] = req[r]
      BY <1>2a, <2>2
    <3> QED
      BY <1>3, <2>1, <3>1 DEF Quiet, Todo, Untouched
  <2>3. \A s \in Stop : opened'[s] = f =>
           s = report'[f].stop \/ \E r \in About(f)' : Head(req'[r].rest) = "link" /\ req'[r].stop = s
    BY <1>2a, <1>2b, <1>3, <2>1 DEF Quiet, Untouched, Todo
  <2>4. (report[f].status = "false_positive" => LetGo(f))'
    BY <1>3, <2>1 DEF Quiet
  <2>5. \A w \in finished' : order'[w].report = f => LetGo(f)'
    BY <1>3, <1>6, <2>1 DEF Quiet
  <2> QED
    BY <2>2, <2>3, <2>4, <2>5 DEF Quiet, Todo
<1>8. ASSUME f \notin disturbed' \cup reopened' PROVE Once(f)'
  <2>1. Once(f)
    BY <1>8 DEF Fine, Untouched
  <2>2. ASSUME NEW r \in About(f)'
        PROVE  (/\ Todo(r) = "order" => Orderless(f)
                /\ Todo(r) = "point" =>
                      \A w \in Order : order[w].report = f => w = req[r].order /\ w \notin finished
                /\ req[r].op = "convert" => report[f].status # "false_positive"
                /\ req[r].op = "reject" => Orderless(f)
                /\ req[r].op = "complete" => report[f].status \notin Untriaged
                /\ Todo(r) = "end" /\ Tail(req[r].rest) = <<>> => report[f].status = "resolved")'
    <3>1. r \in About(f) /\ req'[r] = req[r]
      BY <1>2a, <2>2
    <3> QED
      BY <1>3, <2>1, <3>1 DEF Once, Todo, Untouched
  <2>3. (report[f].status \in Untriaged => Orderless(f) \/ \E r \in About(f) : Todo(r) = "point")'
    BY <1>2a, <1>2b, <1>3, <2>1 DEF Once, Todo
  <2>4. (/\ \A w, x \in Order : order[w].report = f /\ order[x].report = f => w = x
         /\ report[f].status = "false_positive" => Orderless(f)
         /\ \A w \in finished : order[w].report = f => report[f].status = "resolved")'
    BY <1>3, <1>6, <2>1 DEF Once, Untouched
  <2> QED
    BY <2>2, <2>3, <2>4 DEF Once
<1> QED
  BY <1>3, <1>4, <1>5, <1>7, <1>8 DEF Fine, Untouched

\* What a request that begins changes.
LEMMA Beginning ==
  ASSUME FaultInv, NEW r \in Request, NEW f \in Report,
         NEW op \in {"report", "evaluate", "convert", "reject", "complete"}, NEW rest, NEW s, NEW w,
         Begin(r, op, f, rest, s, w)
  PROVE  /\ req[r] = Idle
         /\ req'[r] = [op |-> op, about |-> f, rest |-> rest, stop |-> s, order |-> w]
         /\ req'[r] # Idle
         /\ \A q \in Request \ {r} : req'[q] = req[q]
         /\ \A q \in About(f)' : q = r \/ (q \in About(f) /\ req'[q] = req[q])
         /\ r \in About(f)' /\ \A q \in About(f) : q \in About(f)' /\ req'[q] = req[q]
         /\ finished' = finished /\ reopened' = reopened
         /\ f \notin disturbed' => f \notin disturbed /\ About(f) = {}
         /\ \A e \in Report \ {f} :
               /\ \A q \in Request : q \in About(e) \/ q \in About(e)' => req'[q] = req[q]
               /\ e \in disturbed => e \in disturbed'
<1>1. req[r] = Idle /\ finished' = finished /\ reopened' = reopened
      /\ req' = [req EXCEPT ![r] = [op |-> op, about |-> f, rest |-> rest, stop |-> s, order |-> w]]
      /\ disturbed' = IF InTheWay(op, f) = {} THEN disturbed ELSE disturbed \cup {f}
  BY DEF Begin
<1>2. req'[r] = [op |-> op, about |-> f, rest |-> rest, stop |-> s, order |-> w]
      /\ \A q \in Request \ {r} : req'[q] = req[q]
  BY <1>1 DEF FaultInv, FaultsTypeOK
<1>3. req'[r].op = op /\ req'[r].about = f
  BY <1>2
<1>4. req'[r] # Idle
  BY <1>3 DEF Idle
<1>5. f \notin disturbed' => f \notin disturbed /\ About(f) = {}
  BY <1>1 DEF InTheWay
<1>6. \A e \in Report \ {f} : \A q \in Request : q \in About(e) \/ q \in About(e)' => req'[q] = req[q]
  BY <1>1, <1>2, <1>3 DEF About
<1>7. /\ \A q \in About(f)' : q = r \/ (q \in About(f) /\ req'[q] = req[q])
      /\ r \in About(f)' /\ \A q \in About(f) : q \in About(f)' /\ req'[q] = req[q]
  <2>1. \A q \in About(f) : q # r /\ q \in Request
    BY <1>1 DEF About
  <2>2. r \in About(f)'
    BY <1>3, <1>4 DEF About
  <2>3. ASSUME NEW q \in Request \ {r} PROVE q \in About(f)' <=> q \in About(f)
    BY <1>2, <2>3 DEF About
  <2>4. \A q \in About(f)' : q \in Request
    BY DEF About
  <2>5. ASSUME NEW q \in About(f)', q # r PROVE q \in About(f) /\ req'[q] = req[q]
    <3>1. q \in Request \ {r}
      BY <2>4, <2>5
    <3> QED
      BY <1>2, <2>3, <2>5, <3>1
  <2>6. ASSUME NEW q \in About(f) PROVE q \in About(f)' /\ req'[q] = req[q]
    <3>1. q \in Request \ {r}
      BY <2>1, <2>6
    <3> QED
      BY <1>2, <2>3, <2>6, <3>1
  <2> QED
    BY <2>2, <2>5, <2>6
<1> QED
  BY <1>1, <1>2, <1>4, <1>5, <1>6, <1>7

\* What a request that goes on, or returns, changes.
LEMMA GoingOn ==
  ASSUME FaultInv, NEW r \in Request, req[r] # Idle, NEW rest \in Rest \cup {<<>>},
         NEW s \in Stop \cup {None}, NEW w \in Order \cup {None}, NEW f, f = req[r].about,
         Continue(r, rest, s, w)
  PROVE  /\ f \in Report /\ r \in About(f)
         /\ \A q \in About(f)' : \/ q \in About(f) /\ q # r /\ req'[q] = req[q]
                                 \/ q = r /\ rest # <<>>
         /\ \A q \in About(f) : q # r => q \in About(f)' /\ req'[q] = req[q]
         /\ rest # <<>> => /\ r \in About(f)'
                           /\ req'[r].op = req[r].op /\ req'[r].rest = rest
                           /\ req'[r].stop = s /\ req'[r].order = w
         /\ rest = <<>> => r \notin About(f)'
         /\ rest = <<>> /\ req[r].op = "complete" => finished' = finished \cup {req[r].order}
         /\ ~(rest = <<>> /\ req[r].op = "complete") => finished' = finished
         /\ \A e \in Report \ {f} :
               \A q \in Request : q \in About(e) \/ q \in About(e)' => req'[q] = req[q]
<1>1. req[r] \in Task /\ f \in Report
  BY DEF FaultInv, FaultsTypeOK, Task
<1>2. /\ \A q \in Request \ {r} : req'[q] = req[q]
      /\ req'[r] # Idle => /\ rest # <<>> /\ req'[r].rest = rest
                           /\ req'[r].stop = s /\ req'[r].order = w
                           /\ req'[r].op = req[r].op /\ req'[r].about = req[r].about
  BY Continues
<1>3. rest = <<>> => req'[r] = Idle
  BY DEF Continue, FaultInv, FaultsTypeOK
<1>4. rest # <<>> => req'[r] # Idle
  <2>1. rest # <<>> => req'[r] = [req[r] EXCEPT !.rest = rest, !.stop = s, !.order = w]
    BY DEF Continue, FaultInv, FaultsTypeOK
  <2>2. [req[r] EXCEPT !.rest = rest, !.stop = s, !.order = w].op = req[r].op
    BY <1>1 DEF Task
  <2>3. req[r].op # "none" /\ Idle.op = "none"
    BY <1>1 DEF Task, Idle
  <2> QED
    BY <2>1, <2>2, <2>3
<1>5. r \in About(f)
  BY DEF About
<1>6. /\ \A q \in About(f)' : \/ q \in About(f) /\ q # r /\ req'[q] = req[q]
                              \/ q = r /\ rest # <<>>
      /\ \A q \in About(f) : q # r => q \in About(f)' /\ req'[q] = req[q]
      /\ rest # <<>> => r \in About(f)'
      /\ rest = <<>> => r \notin About(f)'
      /\ \A e \in Report \ {f} :
               \A q \in Request : q \in About(e) \/ q \in About(e)' => req'[q] = req[q]
  BY <1>2, <1>3, <1>4 DEF About
<1>7. /\ rest = <<>> /\ req[r].op = "complete" => finished' = finished \cup {req[r].order}
      /\ ~(rest = <<>> /\ req[r].op = "complete") => finished' = finished
  BY DEF Continue
<1> QED
  BY <1>1, <1>2, <1>4, <1>5, <1>6, <1>7

\* The invariant of all reports follows from that of the touched one.
LEMMA OneTouched ==
  ASSUME FaultInv, FaultInv', \A e \in Report : Fine(e), NEW f \in Report,
         \A e \in Report \ {f} : Untouched(e), Fine(f)'
  PROVE  \A e \in Report : Fine(e)'
  BY UntouchedStaysFine

-----------------------------------------------------------------------------
LEMMA FaultReportFine ==
  ASSUME FaultInv, FaultInv', \A e \in Report : Fine(e),
         NEW r \in Request, NEW f \in Report, CreateFaultReport(r, f)
  PROVE  \A e \in Report : Fine(e)'
<1>1. /\ report[f].status = "none" /\ About(f) = {}
      /\ UNCHANGED <<downtimeVars, opened, order>>
      /\ report' = [report EXCEPT ![f].status = "new"]
  BY DEF CreateFaultReport, Fresh
<1>2. /\ report'[f].status = "new"
      /\ \A e \in Report \ {f} : report'[e] = report[e]
  BY <1>1 DEF FaultInv, FaultsTypeOK, ReportRow
<1>3. UNCHANGED <<stop, opened, order>>
  BY <1>1 DEF downtimeVars
<1>4. Stopless(f)' /\ Orderless(f)' /\ finished \subseteq Order
  BY <1>1, <1>3 DEF Fine, Unborn, Stopless, Orderless, FaultInv, FaultsTypeOK
<1>5. CASE Begin(r, "report", f, <<"stop", "link">>, None, None)
  <2>1. /\ req'[r] = [op |-> "report", about |-> f, rest |-> <<"stop", "link">>,
                      stop |-> None, order |-> None]
        /\ r \in About(f)' /\ \A q \in About(f)' : q = r
        /\ finished' = finished /\ reopened' = reopened
        /\ \A e \in Report \ {f} :
               /\ \A q \in Request : q \in About(e) \/ q \in About(e)' => req'[q] = req[q]
               /\ e \in disturbed => e \in disturbed'
    BY <1>1, <1>5, Beginning
  <2>2. \A e \in Report \ {f} : Untouched(e)
    BY <1>2, <1>3, <2>1 DEF Untouched, Live
  <2>3. req'[r].op = "report" /\ req'[r].about = f /\ Head(req'[r].rest) = "stop"
    BY <2>1, Heads
  <2>4. Alone(f)' /\ Unborn(f)' /\ \A q \in About(f)' : Tasked(q)'
    BY <1>2, <2>1, <2>3 DEF Alone, Unborn, Tasked, Todo, Left
  <2>5. Quiet(f)' /\ Once(f)'
    BY <1>2, <1>4, <2>1, <2>3 DEF Quiet, Once, Todo, Stopless, Orderless
  <2> QED
    BY <2>2, <2>4, <2>5, OneTouched DEF Fine
<1>6. CASE UNCHANGED <<req, history>>
  <2>1. finished' = finished /\ reopened' = reopened /\ disturbed' = disturbed /\ req' = req
    BY <1>6 DEF history
  <2>2. \A e \in Report \ {f} : Untouched(e)
    BY <1>2, <1>3, <2>1 DEF Untouched, Live
  <2>3. About(f)' = {}
    BY <1>1, <2>1 DEF About
  <2>4. Alone(f)' /\ Unborn(f)' /\ \A q \in About(f)' : Tasked(q)'
    BY <1>2, <2>3 DEF Alone, Unborn
  <2>5. Quiet(f)' /\ Once(f)'
    BY <1>2, <1>4, <2>1, <2>3 DEF Quiet, Once, Stopless, Orderless
  <2> QED
    BY <2>2, <2>4, <2>5, OneTouched DEF Fine
<1> QED
  BY <1>5, <1>6 DEF CreateFaultReport

\* A request that begins with a look at a report, and finds it as it should be.
LEMMA BeginFine ==
  ASSUME FaultInv, FaultInv', \A e \in Report : Fine(e),
         NEW r \in Request, NEW f \in Report,
         NEW op \in {"report", "evaluate", "convert", "reject", "complete"}, NEW rest,
         NEW st, NEW w,
         Begin(r, op, f, rest, st, w),
         UNCHANGED <<stop, opened, report>>, \A v \in Order : order'[v].report = order[v].report,
         Head(rest) \in Left[op] \ {"stop", "link", "point"},
         op = "evaluate" <=> report[f].status = "none",
         op = "evaluate" => About(f) = {},
         op = "complete" => w \in Order /\ order[w].report = f,
         f \notin disturbed /\ About(f) = {} =>
            /\ Head(rest) = "end" => \A s \in Stop : opened[s] = f => s = st
            /\ Head(rest) = "close" => LetGo(f),
         f \notin disturbed \cup reopened /\ About(f) = {} =>
            /\ Head(rest) = "order" => Orderless(f)
            /\ op = "convert" => report[f].status # "false_positive"
            /\ op = "reject" => Orderless(f)
            /\ op = "complete" => report[f].status \notin Untriaged
            /\ Head(rest) = "end" => Tail(rest) # <<>>
  PROVE  \A e \in Report : Fine(e)'
<1>1. /\ req'[r] = [op |-> op, about |-> f, rest |-> rest, stop |-> st, order |-> w]
      /\ \A q \in About(f)' : q = r \/ (q \in About(f) /\ req'[q] = req[q])
      /\ r \in About(f)' /\ \A q \in About(f) : q \in About(f)' /\ req'[q] = req[q]
      /\ finished' = finished /\ reopened' = reopened
      /\ f \notin disturbed' => f \notin disturbed /\ About(f) = {}
      /\ \A e \in Report \ {f} :
            /\ \A q \in Request : q \in About(e) \/ q \in About(e)' => req'[q] = req[q]
            /\ e \in disturbed => e \in disturbed'
  BY Beginning
<1>2. /\ req'[r].op = op /\ req'[r].about = f /\ req'[r].rest = rest
      /\ req'[r].stop = st /\ req'[r].order = w
  BY <1>1
<1>3. \A e \in Report \ {f} : Untouched(e)
  BY <1>1 DEF Untouched, Live, FaultInv, FaultsTypeOK
<1>4. /\ report' = report /\ finished \subseteq Order
      /\ Stopless(f) => Stopless(f)'
      /\ Orderless(f) => Orderless(f)'
      /\ LetGo(f) => LetGo(f)'
  BY DEF Stopless, Orderless, LetGo, Live, FaultInv, FaultsTypeOK
<1>5. Unborn(f)'
  <2>1. report[f].status = "none" => About(f) = {} /\ Alone(f)'
    BY <1>1 DEF Alone
  <2> QED
    BY <1>4, <2>1 DEF Fine, Unborn
<1>6. ASSUME NEW q \in About(f)' PROVE Tasked(q)'
  <2>1. CASE q = r
    BY <1>2, <1>4, <2>1 DEF Tasked, Todo
  <2>2. CASE q \in About(f) /\ req'[q] = req[q]
    <3>1. Tasked(q) /\ req[q].about = f /\ q \in Request /\ req[q] # Idle
      BY <2>2 DEF Fine, About
    <3>2. req[q].op = "complete" => req[q].order \in Order
      BY <3>1 DEF FaultInv, Sound
    <3> QED
      BY <1>4, <2>2, <3>1, <3>2 DEF Tasked, Todo
  <2> QED
    BY <1>1, <1>6, <2>1, <2>2
<1>7. ASSUME f \notin disturbed' PROVE Alone(f)' /\ Quiet(f)'
  <2>1. f \notin disturbed /\ About(f) = {} /\ \A q \in About(f)' : q = r
    BY <1>1, <1>7
  <2>2. Quiet(f)
    BY <2>1 DEF Fine
  <2>3. \A s \in Stop : opened[s] = f => s = report[f].stop
    BY <2>1, <2>2 DEF Quiet
  <2>4. ASSUME NEW q \in About(f)'
        PROVE  (/\ Todo(q) \notin {"stop", "link"}
                /\ Todo(q) = "end" => \A s \in Stop : opened[s] = f => s = req[q].stop
                /\ Todo(q) = "close" => LetGo(f))'
    BY <1>2, <1>4, <2>1, <2>4 DEF Todo
  <2>5. (/\ \A s \in Stop : opened[s] = f => s = report[f].stop
         /\ report[f].status = "false_positive" => LetGo(f)
         /\ \A v \in finished : order[v].report = f => LetGo(f))'
    BY <1>1, <1>4, <2>2, <2>3 DEF Quiet
  <2> QED
    BY <2>1, <2>4, <2>5 DEF Quiet, Alone
<1>8. ASSUME f \notin disturbed' \cup reopened' PROVE Once(f)'
  <2>1. f \notin disturbed \cup reopened /\ About(f) = {} /\ \A q \in About(f)' : q = r
    BY <1>1, <1>8
  <2>2. Once(f)
    BY <2>1 DEF Fine
  <2>4. ASSUME NEW q \in About(f)'
        PROVE  (/\ Todo(q) = "order" => Orderless(f)
                /\ Todo(q) # "point"
                /\ req[q].op = "convert" => report[f].status # "false_positive"
                /\ req[q].op = "reject" => Orderless(f)
                /\ req[q].op = "complete" => report[f].status \notin Untriaged
                /\ Todo(q) = "end" => Tail(req[q].rest) # <<>>)'
    BY <1>2, <1>4, <2>1, <2>4 DEF Todo
  <2>5. (/\ report[f].status \in Untriaged => Orderless(f)
         /\ \A v, x \in Order : order[v].report = f /\ order[x].report = f => v = x
         /\ report[f].status = "false_positive" => Orderless(f)
         /\ \A v \in finished : order[v].report = f => report[f].status = "resolved")'
    BY <1>1, <1>4, <2>1, <2>2 DEF Once
  <2> QED
    BY <2>4, <2>5 DEF Once
<1>9. Fine(f)'
  BY <1>5, <1>6, <1>7, <1>8 DEF Fine
<1> QED
  BY <1>3, <1>9, OneTouched

LEMMA TailHeads ==
  /\ Tail(<<"end", "close">>) # <<>>
  OBVIOUS

LEMMA BeginningsFine ==
  ASSUME FaultInv, FaultInv', \A e \in Report : Fine(e),
         NEW r \in Request, NEW f \in Report,
         EvaluateConditionRules(r, f) \/ ConvertFaultReport(r, f) \/ RejectFaultReport(r, f)
  PROVE  \A e \in Report : Fine(e)'
<1>0. UNCHANGED <<stop, opened, report>> /\ \A v \in Order : order'[v].report = order[v].report
  BY DEF EvaluateConditionRules, ConvertFaultReport, RejectFaultReport, downtimeVars
<1>1. CASE EvaluateConditionRules(r, f)
  <2>1. /\ report[f].status = "none" /\ About(f) = {}
        /\ Begin(r, "evaluate", f, <<"raise">>, None, None)
    BY <1>1 DEF EvaluateConditionRules, Fresh
  <2> QED
    BY <1>0, <2>1, Heads, BeginFine DEF Left
<1>2. f \notin disturbed \cup reopened /\ About(f) = {} /\ report[f].status \in Untriaged => Orderless(f)
  BY DEF Fine, Once
<1>3. CASE ConvertFaultReport(r, f)
  <2>1. /\ report[f].status \in Untriaged
        /\ Begin(r, "convert", f, <<"order", "point">>, None, None)
    BY <1>3 DEF ConvertFaultReport
  <2> QED
    BY <1>0, <1>2, <2>1, Heads, BeginFine DEF Left, Untriaged
<1>4. CASE RejectFaultReport(r, f)
  <2>1. report[f].status \in Untriaged
    BY <1>4 DEF RejectFaultReport
  <2>2. f \notin disturbed /\ About(f) = {} => \A s \in Stop : opened[s] = f => s = report[f].stop
    BY DEF Fine, Quiet
  <2>3. CASE report[f].stop = None
    <3>1. Begin(r, "reject", f, <<"close">>, None, None)
      BY <1>4, <2>3, Joins DEF RejectFaultReport
    <3>2. f \notin disturbed /\ About(f) = {} => LetGo(f)
      BY <2>2, <2>3, FaultReportsAssumption DEF LetGo
    <3> QED
      BY <1>0, <1>2, <2>1, <3>1, <3>2, Heads, BeginFine DEF Left, Untriaged
  <2>4. CASE report[f].stop # None
    <3>1. Begin(r, "reject", f, <<"end", "close">>, report[f].stop, None)
      BY <1>4, <2>4, Joins DEF RejectFaultReport
    <3> QED
      BY <1>0, <1>2, <2>1, <2>2, <3>1, Heads, TailHeads, BeginFine DEF Left, Untriaged
  <2> QED
    BY <2>3, <2>4
<1> QED
  BY <1>1, <1>3, <1>4

LEMMA CompletionFine ==
  ASSUME FaultInv, FaultInv', \A e \in Report : Fine(e),
         NEW r \in Request, NEW w \in Order, CompleteWorkOrder(r, w)
  PROVE  \A e \in Report : Fine(e)'
<1> DEFINE f == order[w].report
<1>1. /\ order[w].status # "none" /\ order' = [order EXCEPT ![w].status = "completed"]
      /\ Begin(r, "complete", f, <<"read">>, None, w)
      /\ UNCHANGED <<downtimeVars, report, opened>>
  BY DEF CompleteWorkOrder
<1>2. f \in Report /\ f # None
  BY <1>1, FaultReportsAssumption DEF FaultInv, FaultsTypeOK, RowsAreBorn, OrderRow
<1>3. UNCHANGED <<stop, opened, report>> /\ \A v \in Order : order'[v].report = order[v].report
  BY <1>1 DEF downtimeVars, FaultInv, FaultsTypeOK, OrderRow
<1>4. report[f].status # "none"
  BY <1>2 DEF Fine, Unborn, Orderless
<1>5. f \notin disturbed \cup reopened /\ About(f) = {} => report[f].status \notin Untriaged
  BY <1>2 DEF Fine, Once, Orderless
<1> QED
  BY <1>1, <1>2, <1>3, <1>4, <1>5, Heads, BeginFine DEF Left

-----------------------------------------------------------------------------
\* What stands when a request about a report takes its next step.
LEMMA Hand ==
  ASSUME FaultInv, \A e \in Report : Fine(e), NEW r \in Request, NEW statement, At(r, statement),
         NEW f, f = req[r].about
  PROVE  /\ f \in Report /\ r \in About(f) /\ Tasked(r) /\ Todo(r) = statement
         /\ req[r] \in Task /\ req[r] # Idle /\ req[r].rest \in Rest
         /\ req[r].stop \in Stop \cup {None} /\ req[r].order \in Order \cup {None}
         /\ f \notin disturbed => About(f) = {r}
<1>1. /\ f \in Report /\ req[r] # Idle /\ req[r] \in Task /\ req[r].rest \in Rest
      /\ Head(req[r].rest) = statement
      /\ req[r].stop \in Stop \cup {None} /\ req[r].order \in Order \cup {None}
  BY Statement
<1>2. r \in About(f)
  BY <1>1 DEF About
<1> QED
  BY <1>1, <1>2 DEF Fine, Alone, Todo

\* A step about no other report than f.
OnlyAbout(f) ==
    \A e \in Report \ {f} :
        /\ report'[e] = report[e]
        /\ \A w \in Order : order'[w].report = e <=> order[w].report = e
        /\ \A s \in Stop : opened'[s] = e <=> opened[s] = e
        /\ \A s \in Stop : opened[s] = e /\ Live(s)' => Live(s)

\* No other request is about to raise the report.
NoOtherRaises(r, f) == \A q \in About(f) : q # r => req[q].op # "evaluate"

\* A request goes on and changes the report it is about, and no other.
LEMMA GoesOnFine ==
  ASSUME FaultInv, FaultInv', Kept, \A e \in Report : Fine(e),
         NEW r \in Request, NEW f, f = req[r].about, req[r] # Idle, NEW rest \in Rest \cup {<<>>},
         NEW s \in Stop \cup {None}, NEW w \in Order \cup {None}, Continue(r, rest, s, w),
         disturbed \subseteq disturbed', reopened \subseteq reopened',
         OnlyAbout(f), NoOtherRaises(r, f), report'[f].status # "none",
         rest # <<>> => Head(rest) \in Left[req[r].op],
         rest # <<>> => req[r].op # "evaluate",
         rest # <<>> /\ req[r].op = "complete" => w = req[r].order,
         About(f) = {r} /\ f \notin disturbed' => Quiet(f)',
         About(f) = {r} /\ f \notin disturbed' \cup reopened' => Once(f)'
  PROVE  \A e \in Report : Fine(e)'
<1>1. /\ f \in Report /\ r \in About(f)
      /\ \A q \in About(f)' : \/ q \in About(f) /\ q # r /\ req'[q] = req[q]
                              \/ q = r /\ rest # <<>>
      /\ rest # <<>> => /\ r \in About(f)'
                        /\ req'[r].op = req[r].op /\ req'[r].rest = rest
                        /\ req'[r].stop = s /\ req'[r].order = w
      /\ rest = <<>> /\ req[r].op = "complete" => finished' = finished \cup {req[r].order}
      /\ ~(rest = <<>> /\ req[r].op = "complete") => finished' = finished
      /\ \A e \in Report \ {f} :
            \A q \in Request : q \in About(e) \/ q \in About(e)' => req'[q] = req[q]
  BY GoingOn
<1>2. \A q \in About(f) : Tasked(q) /\ req[q].about = f /\ q \in Request /\ req[q] # Idle
  BY <1>1 DEF Fine, About
<1>3. \A v \in finished' : v \in finished \/ order[v].report = f
  BY <1>1, <1>2 DEF Tasked
<1>4. \A e \in Report \ {f} : Untouched(e)
  BY <1>1, <1>3 DEF Untouched, OnlyAbout
<1>5. ASSUME NEW q \in About(f)' PROVE Tasked(q)'
  <2>1. \A p \in About(f) : req[p].op = "complete" =>
           req[p].order \in Order /\ order'[req[p].order].report = f
    BY <1>1, <1>2, FaultReportsAssumption DEF FaultInv, Sound, Tasked, Kept
  <2>2. CASE q \in About(f) /\ q # r /\ req'[q] = req[q]
    BY <1>2, <2>1, <2>2 DEF Tasked, Todo, NoOtherRaises
  <2>3. CASE q = r /\ rest # <<>>
    <3>1. req'[r].about = f
      BY <1>1, <2>3 DEF About
    <3> QED
      BY <1>1, <2>1, <2>3, <3>1 DEF Tasked, Todo
  <2> QED
    BY <1>1, <1>5, <2>2, <2>3
<1>6. f \notin disturbed' => About(f) = {r} /\ Alone(f)'
  BY <1>1 DEF Fine, Alone
<1>7. Fine(f)'
  BY <1>5, <1>6 DEF Fine, Unborn
<1> QED
  BY <1>1, <1>4, <1>7, OneTouched

\* Where the one request about a report is, or is not, after its step.
LEMMA OneHand ==
  ASSUME FaultInv, NEW r \in Request, NEW f, f = req[r].about, req[r] # Idle,
         NEW rest \in Rest \cup {<<>>},
         NEW s \in Stop \cup {None}, NEW w \in Order \cup {None}, Continue(r, rest, s, w),
         About(f) = {r}
  PROVE  /\ rest = <<>> => About(f)' = {}
         /\ rest # <<>> => About(f)' = {r} /\ req'[r].op = req[r].op /\ req'[r].rest = rest
                           /\ req'[r].stop = s /\ req'[r].order = w
<1>1. /\ \A q \in Request \ {r} : req'[q] = req[q]
      /\ req'[r] # Idle => /\ rest # <<>> /\ req'[r].rest = rest
                           /\ req'[r].stop = s /\ req'[r].order = w
                           /\ req'[r].op = req[r].op /\ req'[r].about = req[r].about
  BY Continues
<1>2. /\ rest = <<>> => req'[r] = Idle
      /\ rest # <<>> => req'[r] = [req[r] EXCEPT !.rest = rest, !.stop = s, !.order = w]
  BY DEF Continue, FaultInv, FaultsTypeOK
<1>3. rest # <<>> => req'[r] # Idle
  <2>1. req[r] \in Task
    BY DEF FaultInv, FaultsTypeOK
  <2>2. /\ [req[r] EXCEPT !.rest = rest, !.stop = s, !.order = w].op = req[r].op
        /\ req[r].op # "none" /\ Idle.op = "none"
    BY <2>1 DEF Task, Idle
  <2> QED
    BY <1>2, <2>2
<1>4. \A q \in Request \ {r} : ~(req'[q] # Idle /\ req'[q].about = f)
  BY <1>1 DEF About
<1>5. rest = <<>> => About(f)' = {}
  BY <1>2, <1>4 DEF About
<1>6. rest # <<>> => About(f)' = {r}
  BY <1>1, <1>3, <1>4 DEF About
<1> QED
  BY <1>1, <1>3, <1>5, <1>6

LEMMA OpenStopFine ==
  ASSUME FaultInv, FaultInv', LogInv, \A e \in Report : Fine(e),
         NEW r \in Request, OpenStop(r)
  PROVE  \A e \in Report : Fine(e)'
<1>1. /\ At(r, "stop") /\ UNCHANGED <<report, order, reopened, disturbed>>
  BY DEF OpenStop
<1>0. PICK f \in Report : f = req[r].about
  BY <1>1, Hand
<1>2. /\ f \in Report /\ r \in About(f) /\ Tasked(r) /\ Todo(r) = "stop"
      /\ req[r] \in Task /\ req[r] # Idle /\ req[r].rest \in Rest
      /\ f \notin disturbed => About(f) = {r}
  BY <1>0, <1>1, Hand
<1>3. Tail(req[r].rest) = <<"link">> /\ req[r].op = "report"
  BY <1>2, Rests DEF Todo, Tasked, Left, Task
<1>4. PICK s \in Stop :
         /\ CreateOpen(s)
         /\ opened' = [opened EXCEPT ![s] = f]
         /\ Continue(r, <<"link">>, s, None)
  BY <1>0, <1>3 DEF OpenStop
<1>5. FaultsTypeOK /\ RowsAreBorn /\ DowntimeTypeOK
  BY DEF FaultInv, LogInv
<1>6. /\ opened[s] = None /\ opened'[s] = f /\ \A t \in Stop \ {s} : opened'[t] = opened[t]
      /\ \A t \in Stop \ {s} : stop'[t] = stop[t]
  BY <1>4, <1>5 DEF RowsAreBorn, CreateOpen, FaultsTypeOK, DowntimeTypeOK
<1>7. Kept
  BY <1>1, <1>6 DEF Kept
<1>8. OnlyAbout(f)
  BY <1>1, <1>6, FaultReportsAssumption DEF OnlyAbout, Live
<1>9. report'[f].status # "none"
  BY <1>0, <1>1, <1>2, <1>3 DEF Tasked
<1>10. NoOtherRaises(r, f)
  BY <1>1, <1>2, <1>9 DEF Fine, Tasked, About, NoOtherRaises
<1>11. <<"link">> \in Rest /\ <<"link">> # <<>> /\ Head(<<"link">>) = "link"
  BY Heads DEF Rest
<1>12. ASSUME About(f) = {r}
       PROVE  About(f)' = {r} /\ Todo(r)' = "link" /\ req'[r].stop = s /\ req'[r].op = "report"
  BY <1>0, <1>2, <1>3, <1>4, <1>11, <1>12, OneHand DEF Todo
<1>13. Orderless(f) => Orderless(f)'
  BY <1>1 DEF Orderless
<1>14. finished' = finished /\ finished \subseteq Order
  BY <1>0, <1>2, <1>3, <1>4, <1>5, <1>11, GoingOn DEF FaultsTypeOK
<1>15. ASSUME About(f) = {r}, f \notin disturbed' PROVE Quiet(f)'
  <2>1. Orderless(f) /\ Stopless(f) /\ report[f].status # "false_positive"
    BY <1>1, <1>2, <1>15 DEF Fine, Quiet
  <2>2. \A t \in Stop : opened'[t] = f => t = s
    BY <1>6, <2>1 DEF Stopless
  <2> QED
    BY <1>1, <1>12, <1>13, <1>14, <1>15, <2>1, <2>2 DEF Quiet, Orderless, Todo
<1>16. ASSUME About(f) = {r}, f \notin disturbed' \cup reopened' PROVE Once(f)'
  <2>1. Orderless(f)' /\ report[f].status # "false_positive"
    BY <1>1, <1>2, <1>13, <1>16 DEF Fine, Quiet
  <2> QED
    BY <1>1, <1>12, <1>14, <1>16, <2>1 DEF Once, Orderless, Todo
<1>17. /\ Head(<<"link">>) \in Left[req[r].op] /\ req[r].op \notin {"evaluate", "complete"}
       /\ disturbed \subseteq disturbed' /\ reopened \subseteq reopened'
  BY <1>1, <1>3, <1>11 DEF Left
<1> QED
  BY <1>0, <1>2, <1>4, <1>7, <1>8, <1>9, <1>10, <1>11, <1>15, <1>16, <1>17, GoesOnFine

\* The last statement of a request about a report: it writes the report's row.
LEMMA LastFine ==
  ASSUME FaultInv, FaultInv', \A e \in Report : Fine(e), NEW r \in Request,
         NEW statement \in {"link", "raise", "point", "close"}, At(r, statement), Proceed(r),
         NEW f, f = req[r].about,
         UNCHANGED <<stop, opened, order, disturbed>>, reopened \subseteq reopened',
         \A e \in Report \ {f} : report'[e] = report[e],
         report'[f].status # "none",
         NoOtherRaises(r, f),
         About(f) = {r} /\ f \notin disturbed /\ About(f)' = {}
         /\ finished' = (IF req[r].op = "complete" THEN finished \cup {req[r].order} ELSE finished) =>
            /\ Quiet(f)'
            /\ f \notin reopened' => Once(f)'
  PROVE  \A e \in Report : Fine(e)'
<1>1. /\ req[r] # Idle /\ f \in Report /\ r \in About(f) /\ Todo(r) = statement
      /\ req[r].rest \in Rest
      /\ req[r].stop \in Stop \cup {None} /\ req[r].order \in Order \cup {None}
  BY Hand
<1>2. Tail(req[r].rest) = <<>>
  BY <1>1, Rests DEF Todo
<1>3. PICK rest \in Rest \cup {<<>>}, s \in Stop \cup {None}, w \in Order \cup {None} :
         rest = <<>> /\ Continue(r, rest, s, w)
  BY <1>1, <1>2 DEF Proceed
<1>4. finished' = IF req[r].op = "complete" THEN finished \cup {req[r].order} ELSE finished
  BY <1>3 DEF Continue
<1>5. About(f) = {r} => About(f)' = {}
  BY <1>1, <1>3, OneHand
<1>6. Kept
  BY DEF Kept
<1>8. OnlyAbout(f)
  BY DEF OnlyAbout, Live
<1>10. About(f) = {r} /\ f \notin disturbed' => Quiet(f)'
  BY <1>4, <1>5
<1>11. About(f) = {r} /\ f \notin disturbed' \cup reopened' => Once(f)'
  BY <1>4, <1>5
<1> QED
  <2>1. disturbed \subseteq disturbed'
    OBVIOUS
  <2> QED
    BY <1>1, <1>3, <1>6, <1>8, <1>10, <1>11, <2>1, GoesOnFine

LEMMA LinkStopFine ==
  ASSUME FaultInv, FaultInv', \A e \in Report : Fine(e), NEW r \in Request, LinkStop(r)
  PROVE  \A e \in Report : Fine(e)'
<1>1. /\ At(r, "link") /\ Proceed(r) /\ UNCHANGED <<downtimeVars, opened, order, reopened, disturbed>>
  BY DEF LinkStop
<1>0. PICK f \in Report : f = req[r].about
  BY <1>1, Hand
<1>2. /\ r \in About(f) /\ Tasked(r) /\ Todo(r) = "link" /\ req[r] \in Task
  BY <1>0, <1>1, Hand
<1>3. /\ report'[f].status = report[f].status /\ report'[f].stop = req[r].stop
      /\ \A e \in Report \ {f} : report'[e] = report[e]
  BY <1>0 DEF LinkStop, FaultInv, FaultsTypeOK, ReportRow
<1>4. req[r].op = "report" /\ report[f].status # "none"
  BY <1>0, <1>2 DEF Tasked, Left, Task
<1>5. NoOtherRaises(r, f)
  BY <1>4 DEF Fine, Tasked, About, NoOtherRaises
<1>6. UNCHANGED <<stop, opened, order, disturbed, reopened>>
  BY <1>1 DEF downtimeVars
<1>7. finished \subseteq Order
  BY DEF FaultInv, FaultsTypeOK
<1>8. ASSUME About(f) = {r}, f \notin disturbed, About(f)' = {}, finished' = finished
      PROVE  Quiet(f)' /\ Once(f)'
  <2>1. /\ Orderless(f)' /\ report'[f].status # "false_positive"
        /\ \A s \in Stop : opened'[s] = f => s = report'[f].stop
    BY <1>2, <1>3, <1>6, <1>8 DEF Fine, Quiet, Orderless
  <2> QED
    BY <1>7, <1>8, <2>1 DEF Quiet, Once, Orderless
<1> QED
  BY <1>0, <1>1, <1>3, <1>4, <1>5, <1>6, <1>8, LastFine

LEMMA RaiseByRuleFine ==
  ASSUME FaultInv, FaultInv', \A e \in Report : Fine(e), NEW r \in Request, RaiseByRule(r)
  PROVE  \A e \in Report : Fine(e)'
<1>1. /\ At(r, "raise") /\ Proceed(r) /\ UNCHANGED <<downtimeVars, opened, order, reopened, disturbed>>
  BY DEF RaiseByRule
<1>0. PICK f \in Report : f = req[r].about
  BY <1>1, Hand
<1>2. /\ r \in About(f) /\ Tasked(r) /\ Todo(r) = "raise" /\ req[r] \in Task
  BY <1>0, <1>1, Hand
<1>3. /\ report'[f].status = "new"
      /\ \A e \in Report \ {f} : report'[e] = report[e]
  BY <1>0 DEF RaiseByRule, FaultInv, FaultsTypeOK, ReportRow
<1>4. req[r].op = "evaluate" /\ report[f].status = "none"
  BY <1>0, <1>2 DEF Tasked, Left, Task
<1>5. Stopless(f) /\ Orderless(f) /\ Alone(f)
  BY <1>4 DEF Fine, Unborn
<1>6. UNCHANGED <<stop, opened, order, disturbed, reopened>>
  BY <1>1 DEF downtimeVars
<1>7. finished \subseteq Order /\ Stopless(f)' /\ Orderless(f)'
  BY <1>5, <1>6 DEF FaultInv, FaultsTypeOK, Stopless, Orderless
<1>8. ASSUME About(f)' = {}, finished' = finished
      PROVE  Quiet(f)' /\ Once(f)'
  BY <1>3, <1>7, <1>8 DEF Quiet, Once, Orderless, Stopless
<1>9. NoOtherRaises(r, f)
  BY <1>2, <1>5 DEF Alone, NoOtherRaises
<1> QED
  BY <1>0, <1>1, <1>3, <1>4, <1>6, <1>8, <1>9, LastFine

LEMMA PointReportFine ==
  ASSUME FaultInv, FaultInv', \A e \in Report : Fine(e), NEW r \in Request, PointReport(r)
  PROVE  \A e \in Report : Fine(e)'
<1>1. /\ At(r, "point") /\ Proceed(r) /\ UNCHANGED <<downtimeVars, opened, order, disturbed>>
  BY DEF PointReport
<1>0. PICK f \in Report : f = req[r].about
  BY <1>1, Hand
<1>2. /\ r \in About(f) /\ Tasked(r) /\ Todo(r) = "point" /\ req[r] \in Task
  BY <1>0, <1>1, Hand
<1>3. /\ report'[f].status = "investigating" /\ report'[f].stop = report[f].stop
      /\ \A e \in Report \ {f} : report'[e] = report[e]
      /\ reopened' = IF report[f].status \in Untriaged THEN reopened ELSE reopened \cup {f}
  BY <1>0 DEF PointReport, Reopens, FaultInv, FaultsTypeOK, ReportRow
<1>4. req[r].op = "convert" /\ report[f].status # "none"
  BY <1>0, <1>2 DEF Tasked, Left, Task
<1>5. NoOtherRaises(r, f)
  BY <1>4 DEF Fine, Tasked, About, NoOtherRaises
<1>6. UNCHANGED <<stop, opened, order, disturbed>>
  BY <1>1 DEF downtimeVars
<1>7. finished \subseteq Order /\ (LetGo(f) => LetGo(f)')
  BY <1>6 DEF FaultInv, FaultsTypeOK, LetGo, Live
<1>8. ASSUME About(f) = {r}, f \notin disturbed, About(f)' = {}, finished' = finished
      PROVE  Quiet(f)' /\ (f \notin reopened' => Once(f)')
  <2>1. Quiet(f)
    BY <1>8 DEF Fine
  <2>2. Quiet(f)'
    BY <1>2, <1>3, <1>6, <1>7, <1>8, <2>1 DEF Quiet
  <2>3. ASSUME f \notin reopened' PROVE Once(f)'
    <3>1. Once(f)
      BY <1>3, <1>8, <2>3 DEF Fine
    <3>2. \A w \in Order : order[w].report = f => w = req[r].order /\ w \notin finished
      BY <1>2, <3>1 DEF Once
    <3> QED
      BY <1>3, <1>6, <1>7, <1>8, <3>1, <3>2 DEF Once, Untriaged
  <2> QED
    BY <2>2, <2>3
<1> QED
  BY <1>0, <1>1, <1>3, <1>4, <1>5, <1>6, <1>8, LastFine

LEMMA CloseReportFine ==
  ASSUME FaultInv, FaultInv', \A e \in Report : Fine(e), NEW r \in Request, CloseReport(r)
  PROVE  \A e \in Report : Fine(e)'
<1>1. /\ At(r, "close") /\ Proceed(r) /\ UNCHANGED <<downtimeVars, opened, order, reopened, disturbed>>
  BY DEF CloseReport
<1>0. PICK f \in Report : f = req[r].about
  BY <1>1, Hand
<1>2. /\ r \in About(f) /\ Tasked(r) /\ Todo(r) = "close" /\ req[r] \in Task
  BY <1>0, <1>1, Hand
<1>3. /\ report'[f].status = IF req[r].op = "reject" THEN "false_positive" ELSE "resolved"
      /\ report'[f].stop = report[f].stop
      /\ \A e \in Report \ {f} : report'[e] = report[e]
  BY <1>0 DEF CloseReport, FaultInv, FaultsTypeOK, ReportRow
<1>4. req[r].op \in {"reject", "complete"} /\ report[f].status # "none"
  BY <1>0, <1>2 DEF Tasked, Left, Task
<1>5. NoOtherRaises(r, f)
  BY <1>4 DEF Fine, Tasked, About, NoOtherRaises
<1>6. UNCHANGED <<stop, opened, order, disturbed, reopened>>
  BY <1>1 DEF downtimeVars
<1>7. finished \subseteq Order /\ (LetGo(f) => LetGo(f)')
  BY <1>6 DEF FaultInv, FaultsTypeOK, LetGo, Live
<1>8. ASSUME About(f) = {r}, f \notin disturbed, About(f)' = {},
             finished' = IF req[r].op = "complete" THEN finished \cup {req[r].order} ELSE finished
      PROVE  Quiet(f)' /\ (f \notin reopened' => Once(f)')
  <2>1. Quiet(f)
    BY <1>8 DEF Fine
  <2>2. Quiet(f)'
    BY <1>2, <1>3, <1>6, <1>7, <1>8, <2>1 DEF Quiet
  <2>3. ASSUME f \notin reopened' PROVE Once(f)'
    <3>1. Once(f)
      BY <1>6, <1>8, <2>3 DEF Fine
    <3>2. CASE req[r].op = "reject"
      BY <1>2, <1>3, <1>6, <1>7, <1>8, <3>1, <3>2 DEF Once, Untriaged, Orderless
    <3>3. CASE req[r].op = "complete"
      BY <1>2, <1>3, <1>6, <1>7, <1>8, <3>1, <3>3 DEF Once, Untriaged
    <3> QED
      BY <1>4, <3>2, <3>3
  <2> QED
    BY <2>2, <2>3
<1> QED
  BY <1>0, <1>1, <1>3, <1>4, <1>5, <1>6, <1>8, LastFine

\* A finished order was raised from some report.
FinishedBorn == \A w \in finished : order[w].report # None

LEMMA RaiseOrderFine ==
  ASSUME FaultInv, FaultInv', \A e \in Report : Fine(e), FinishedBorn,
         NEW r \in Request, RaiseOrder(r)
  PROVE  \A e \in Report : Fine(e)'
<1>1. /\ At(r, "order") /\ UNCHANGED <<downtimeVars, report, opened, reopened, disturbed>>
  BY DEF RaiseOrder
<1>0. PICK f \in Report : f = req[r].about
  BY <1>1, Hand
<1>2. /\ r \in About(f) /\ Tasked(r) /\ Todo(r) = "order" /\ req[r] \in Task /\ req[r] # Idle
      /\ req[r].rest \in Rest
  BY <1>0, <1>1, Hand
<1>3. /\ Tail(req[r].rest) = <<"point">> /\ req[r].op = "convert" /\ report[f].status # "none"
  BY <1>0, <1>2, Rests DEF Todo, Tasked, Left, Task
<1>4. PICK w \in Order :
         /\ order[w].status = "none"
         /\ order' = [order EXCEPT ![w] = [status |-> "open", report |-> f]]
         /\ Continue(r, <<"point">>, None, w)
  BY <1>0, <1>3 DEF RaiseOrder
<1>5. order[w].report = None /\ w \notin finished /\ finished \subseteq Order
  BY <1>4 DEF FaultInv, FaultsTypeOK, RowsAreBorn, FinishedBorn
<1>6. order'[w].report = f /\ \A v \in Order \ {w} : order'[v] = order[v]
  BY <1>4 DEF FaultInv, FaultsTypeOK
<1>7. Kept
  BY <1>1, <1>5, <1>6 DEF Kept
<1>8. OnlyAbout(f)
  BY <1>1, <1>5, <1>6, FaultReportsAssumption DEF OnlyAbout, Live, downtimeVars
<1>9. report'[f].status # "none"
  BY <1>1, <1>3
<1>10. NoOtherRaises(r, f)
  BY <1>1, <1>2, <1>9 DEF Fine, Tasked, About, NoOtherRaises
<1>11. <<"point">> \in Rest /\ <<"point">> # <<>> /\ Head(<<"point">>) = "point"
  BY Heads DEF Rest
<1>12. ASSUME About(f) = {r}
       PROVE  About(f)' = {r} /\ Todo(r)' = "point" /\ req'[r].order = w /\ req'[r].op = "convert"
  BY <1>0, <1>2, <1>3, <1>4, <1>11, <1>12, OneHand DEF Todo
<1>13. finished' = finished
  BY <1>4, <1>11 DEF Continue
<1>14. LetGo(f) => LetGo(f)'
  BY <1>1 DEF LetGo, Live, downtimeVars
<1>15. ASSUME About(f) = {r}, f \notin disturbed' PROVE Quiet(f)'
  <2>1. Quiet(f)
    BY <1>1, <1>15 DEF Fine
  <2> QED
    BY <1>1, <1>2, <1>5, <1>6, <1>12, <1>13, <1>14, <1>15, <2>1 DEF Quiet, Todo
<1>16. ASSUME About(f) = {r}, f \notin disturbed' \cup reopened' PROVE Once(f)'
  <2>1. Once(f)
    BY <1>1, <1>16 DEF Fine
  <2>2. \A v \in Order : order'[v].report = f => v = w
    BY <1>2, <1>6, <2>1 DEF Once, Orderless
  <2>3. report[f].status # "false_positive" /\ \A v \in finished : order'[v].report # f
    BY <1>2, <1>3, <1>5, <2>1, <2>2 DEF Once
  <2> QED
    BY <1>1, <1>5, <1>12, <1>13, <1>16, <2>2, <2>3 DEF Once, Todo
<1> DEFINE rest == <<"point">>
<1>17. /\ rest \in Rest \cup {<<>>} /\ rest # <<>> /\ Continue(r, rest, None, w)
       /\ Head(rest) \in Left[req[r].op] /\ req[r].op # "complete" /\ req[r].op # "evaluate"
  BY <1>1, <1>3, <1>4, <1>11 DEF Left
<1>18. disturbed \subseteq disturbed' /\ reopened \subseteq reopened'
  BY <1>1
<1> HIDE DEF rest
<1> QED
  BY <1>0, <1>2, <1>7, <1>8, <1>9, <1>10, <1>15, <1>16, <1>17, <1>18, GoesOnFine

LEMMA ReadReportFine ==
  ASSUME FaultInv, FaultInv', \A e \in Report : Fine(e), NEW r \in Request, ReadReport(r)
  PROVE  \A e \in Report : Fine(e)'
<1>1. /\ At(r, "read") /\ UNCHANGED <<downtimeVars, report, opened, order, reopened, disturbed>>
  BY DEF ReadReport
<1>0. PICK f \in Report : f = req[r].about
  BY <1>1, Hand
<1>2. /\ r \in About(f) /\ Tasked(r) /\ Todo(r) = "read" /\ req[r] \in Task /\ req[r] # Idle
      /\ req[r].order \in Order \cup {None}
  BY <1>0, <1>1, Hand
<1>3. req[r].op = "complete" /\ report[f].status # "none"
  BY <1>0, <1>2 DEF Tasked, Left, Task
<1>4. PICK st \in Stop \cup {None} : st = report[f].stop
  BY DEF FaultInv, FaultsTypeOK, ReportRow
<1>45. PICK w \in Order \cup {None} : w = req[r].order
  BY <1>2
<1>5. PICK rest \in Rest \cup {<<>>} :
         /\ Continue(r, rest, st, w)
         /\ rest # <<>> => Head(rest) \in {"end", "close"}
         /\ rest = <<>> \/ Head(rest) = "close" => st = None
         /\ rest = <<>> \/ (Tail(rest) = <<>> /\ Head(rest) = "end") => report[f].status = "resolved"
  <2> DEFINE ends == report[f].stop # None
             closes == report[f].status # "resolved"
             rest == If(ends, "end") \o If(closes, "close")
  <2>0. Continue(r, rest, st, w)
    BY <1>0, <1>4, <1>45 DEF ReadReport
  <2>1. CASE ends /\ closes
    <3>1. rest = <<"end", "close">>
      BY <2>1, Joins
    <3>2. /\ <<"end", "close">> \in Rest /\ <<"end", "close">> # <<>>
          /\ Head(<<"end", "close">>) = "end" /\ Tail(<<"end", "close">>) # <<>>
      BY Heads, TailHeads DEF Rest
    <3> HIDE DEF rest
    <3> QED
      BY <2>0, <2>1, <3>1, <3>2
  <2>2. CASE ends /\ ~closes
    <3>1. rest = <<"end">>
      BY <2>2, Joins
    <3>2. <<"end">> \in Rest /\ <<"end">> # <<>> /\ Head(<<"end">>) = "end"
      BY Heads DEF Rest
    <3> HIDE DEF rest
    <3> QED
      BY <2>0, <2>2, <3>1, <3>2
  <2>3. CASE ~ends /\ closes
    <3>1. rest = <<"close">>
      BY <2>3, Joins
    <3>2. <<"close">> \in Rest /\ <<"close">> # <<>> /\ Head(<<"close">>) = "close"
      BY Heads DEF Rest
    <3>3. st = None
      BY <1>4, <2>3
    <3> HIDE DEF rest
    <3>4. /\ rest \in Rest /\ rest # <<>> /\ Head(rest) = "close"
      BY <3>1, <3>2
    <3> QED
      BY <2>0, <3>3, <3>4
  <2>4. CASE ~ends /\ ~closes
    <3>1. rest = <<>>
      BY <2>4, Joins
    <3> HIDE DEF rest
    <3> QED
      BY <1>4, <2>0, <2>4, <3>1
  <2> QED
    BY <2>1, <2>2, <2>3, <2>4
<1>6. UNCHANGED <<stop, opened, report, order, reopened, disturbed>>
  BY <1>1 DEF downtimeVars
<1>7. /\ finished \subseteq Order /\ (LetGo(f) => LetGo(f)')
      /\ Kept
  BY <1>3, <1>6 DEF FaultInv, FaultsTypeOK, LetGo, Live, Kept
<1>8. OnlyAbout(f)
  BY <1>6 DEF OnlyAbout, Live
<1>9. NoOtherRaises(r, f)
  BY <1>3, <1>6 DEF Fine, Tasked, About, NoOtherRaises
<1>10. finished' = IF rest = <<>> THEN finished \cup {req[r].order} ELSE finished
  BY <1>3, <1>5 DEF Continue
<1>11. ASSUME About(f) = {r}
       PROVE  /\ rest = <<>> => About(f)' = {}
              /\ rest # <<>> => /\ About(f)' = {r} /\ req'[r].op = "complete"
                                /\ req'[r].rest = rest /\ req'[r].stop = st
  BY <1>0, <1>2, <1>3, <1>5, <1>11, OneHand
<1>12. ASSUME About(f) = {r}, f \notin disturbed' PROVE Quiet(f)'
  <2>1. Quiet(f)
    BY <1>6, <1>12 DEF Fine
  <2>2. \A s \in Stop : opened[s] = f => s = st
    BY <1>2, <1>4, <1>12, <2>1 DEF Quiet
  <2>3. st = None => LetGo(f)
    BY <2>2, FaultReportsAssumption DEF LetGo
  <2>4. ASSUME NEW q \in About(f)' PROVE q = r /\ rest # <<>>
    BY <1>11, <1>12, <2>4
  <2>5. rest # <<>> => (/\ Todo(r) \in {"end", "close"}
                        /\ Todo(r) = "end" => \A s \in Stop : opened[s] = f => s = req[r].stop
                        /\ Todo(r) = "close" => LetGo(f))'
    BY <1>5, <1>6, <1>7, <1>11, <1>12, <2>2, <2>3 DEF Todo
  <2>6. (/\ \A s \in Stop : opened[s] = f => s = report[f].stop
         /\ report[f].status = "false_positive" => LetGo(f)
         /\ \A v \in finished : order[v].report = f => LetGo(f))'
    BY <1>4, <1>5, <1>6, <1>7, <1>10, <2>1, <2>2, <2>3 DEF Quiet
  <2> QED
    BY <2>4, <2>5, <2>6 DEF Quiet
<1>13. ASSUME About(f) = {r}, f \notin disturbed' \cup reopened' PROVE Once(f)'
  <2>1. Once(f)
    BY <1>6, <1>13 DEF Fine
  <2>2. report[f].status \notin Untriaged
    BY <1>2, <1>3, <2>1 DEF Once
  <2>3. ASSUME NEW q \in About(f)' PROVE q = r /\ rest # <<>>
    BY <1>11, <1>13, <2>3
  <2>4. rest # <<>> => (/\ Todo(r) \in {"end", "close"} /\ req[r].op = "complete"
                        /\ Todo(r) = "end" /\ Tail(req[r].rest) = <<>> => report[f].status = "resolved")'
    BY <1>5, <1>6, <1>11, <1>13 DEF Todo
  <2>5. (/\ report[f].status \notin Untriaged
         /\ \A v, x \in Order : order[v].report = f /\ order[x].report = f => v = x
         /\ report[f].status = "false_positive" => Orderless(f)
         /\ \A v \in finished : order[v].report = f => report[f].status = "resolved")'
    <3>1. \A v \in finished' : v \in finished \/ rest = <<>>
      BY <1>10
    <3>2. \A v \in finished' : order[v].report = f => report[f].status = "resolved"
      BY <1>5, <2>1, <3>1 DEF Once
    <3> QED
      BY <1>6, <2>1, <2>2, <3>2 DEF Once, Orderless
  <2> QED
    BY <2>3, <2>4, <2>5 DEF Once
<1>14. Head(rest) \in {"end", "close"} => Head(rest) \in Left[req[r].op]
  BY <1>3 DEF Left
<1>15. /\ disturbed \subseteq disturbed' /\ reopened \subseteq reopened'
       /\ rest # <<>> => Head(rest) \in Left[req[r].op]
       /\ req[r].op # "evaluate" /\ report'[f].status # "none"
  BY <1>3, <1>5, <1>6, <1>14
<1> QED
  BY <1>0, <1>2, <1>45, <1>5, <1>7, <1>8, <1>9, <1>12, <1>13, <1>15, GoesOnFine

\* A stop that is not happening does not begin to again.
LEMMA DeadStays ==
  ASSUME DowntimeTypeOK, NEW s \in Stop, EndDowntimeEvent(s) \/ DeleteDowntimeEvent(s)
  PROVE  /\ \A t \in Stop : Live(t)' => Live(t)
         /\ ~Live(s)'
<1>1. CASE EndDowntimeEvent(s)
  BY <1>1 DEF EndDowntimeEvent, DowntimeTypeOK, StopRow, Live
<1>2. CASE DeleteDowntimeEvent(s)
  BY <1>2 DEF DeleteDowntimeEvent, DowntimeTypeOK, StopRow, Live
<1> QED
  BY <1>1, <1>2

LEMMA EndStopFine ==
  ASSUME FaultInv, FaultInv', LogInv, \A e \in Report : Fine(e), NEW r \in Request, EndStop(r)
  PROVE  \A e \in Report : Fine(e)'
<1>1. /\ At(r, "end") /\ UNCHANGED <<report, opened, order, reopened>>
      /\ \/ EndDowntimeEvent(req[r].stop) /\ UNCHANGED disturbed
         \/ ~Exists(req[r].stop) /\ UNCHANGED <<downtimeVars, disturbed>>
         \/ disturbed' = disturbed \cup {req[r].about} /\ UNCHANGED downtimeVars
  BY DEF EndStop
<1>0. PICK f \in Report : f = req[r].about
  BY <1>1, Hand
<1>2. /\ r \in About(f) /\ Tasked(r) /\ Todo(r) = "end" /\ req[r] \in Task /\ req[r] # Idle
      /\ req[r].rest \in Rest /\ req[r].order \in Order \cup {None}
  BY <1>0, <1>1, Hand
<1>3. req[r].op \in {"reject", "complete"} /\ report[f].status # "none"
  BY <1>0, <1>2 DEF Tasked, Left, Task
<1>4. PICK st \in Stop : st = req[r].stop
  BY <1>2 DEF FaultInv, Sound, Todo
<1>5. PICK rest \in Rest \cup {<<>>} :
         /\ rest = Tail(req[r].rest)
         /\ rest # <<>> => Head(rest) = "close"
  BY <1>2, Rests, Heads DEF Todo
<1>6. PICK w \in Order \cup {None} : w = req[r].order
  BY <1>2
<1>7. Continue(r, rest, st, w)
  BY <1>4, <1>5, <1>6 DEF EndStop, Proceed
<1>8. /\ \A t \in Stop : Live(t)' => Live(t)
      /\ f \notin disturbed' => ~Live(st)'
  <2>1. CASE EndDowntimeEvent(st)
    BY <2>1, DeadStays DEF LogInv
  <2>2. CASE ~Exists(st) /\ UNCHANGED downtimeVars
    BY <2>2 DEF Exists, Live, downtimeVars
  <2>3. CASE disturbed' = disturbed \cup {f} /\ UNCHANGED downtimeVars
    BY <2>3 DEF Live, downtimeVars
  <2> QED
    BY <1>0, <1>1, <1>4, <2>1, <2>2, <2>3
<1>9. disturbed \subseteq disturbed' /\ reopened \subseteq reopened'
  BY <1>1
<1>10. OnlyAbout(f)
  BY <1>1, <1>8 DEF OnlyAbout
<1>11. NoOtherRaises(r, f)
  BY <1>3 DEF NoOtherRaises, Fine, Tasked, About
<1>12. Kept
  BY <1>1 DEF Kept
<1>13. Head(rest) = "close" => Head(rest) \in Left[req[r].op]
  BY <1>3 DEF Left
<1>14. finished' = IF rest = <<>> /\ req[r].op = "complete" THEN finished \cup {req[r].order} ELSE finished
  BY <1>7 DEF Continue
<1>15. ASSUME About(f) = {r}
       PROVE  /\ rest = <<>> => About(f)' = {}
              /\ rest # <<>> => /\ About(f)' = {r} /\ req'[r].op = req[r].op /\ Todo(r)' = "close"
  <2>1. /\ rest = <<>> => About(f)' = {}
        /\ rest # <<>> => About(f)' = {r} /\ req'[r].op = req[r].op /\ req'[r].rest = rest
    <3>1. st \in Stop \cup {None} /\ req[r] # Idle
      BY <1>2
    <3> QED
      BY <1>0, <1>7, <1>15, <3>1, OneHand
  <2> QED
    BY <1>5, <2>1 DEF Todo
<1>16. ASSUME About(f) = {r}, f \notin disturbed' PROVE Quiet(f)'
  <2>1. Quiet(f)
    BY <1>9, <1>16 DEF Fine
  <2>2. \A s \in Stop : opened[s] = f => s = st
    BY <1>2, <1>4, <2>1 DEF Quiet
  <2>3. LetGo(f)'
    BY <1>1, <1>8, <1>16, <2>2 DEF LetGo
  <2>4. ASSUME NEW q \in About(f)' PROVE Todo(q)' = "close"
    BY <1>15, <1>16, <2>4
  <2>5. \A s \in Stop : opened'[s] = f => s = report'[f].stop
    BY <1>1, <1>2, <1>16, <2>1 DEF Quiet
  <2> QED
    BY <2>3, <2>4, <2>5 DEF Quiet
<1>17. ASSUME About(f) = {r}, f \notin disturbed' \cup reopened' PROVE Once(f)'
  <2>1. Once(f)
    BY <1>9, <1>17 DEF Fine
  <2>2. ASSUME NEW q \in About(f)' PROVE q = r /\ req'[q].op = req[q].op /\ Todo(q)' = "close"
    BY <1>15, <1>17, <2>2
  <2>3. rest = <<>> => report[f].status = "resolved"
    BY <1>2, <1>5, <2>1 DEF Once
  <2>4. \A v \in finished' : order[v].report = f => report[f].status = "resolved"
    BY <1>14, <2>1, <2>3 DEF Once
  <2>5. /\ req[r].op = "reject" => Orderless(f)'
        /\ req[r].op = "complete" => report'[f].status \notin Untriaged
    BY <1>1, <1>2, <2>1 DEF Once, Orderless
  <2>6. report[f].status \in Untriaged => Orderless(f)
    BY <1>2, <1>17, <2>1 DEF Once
  <2> QED
    BY <1>1, <1>3, <2>1, <2>2, <2>4, <2>5, <2>6 DEF Once, Orderless
<1>18. report'[f].status # "none" /\ req[r].op # "evaluate" /\ (rest # <<>> => Head(rest) \in Left[req[r].op])
  BY <1>1, <1>3, <1>5, <1>13
<1> QED
  BY <1>0, <1>2, <1>6, <1>7, <1>9, <1>10, <1>11, <1>12, <1>16, <1>17, <1>18, GoesOnFine

LEMMA InterruptFine ==
  ASSUME FaultInv, FaultInv', \A e \in Report : Fine(e), NEW r \in Request, Interrupt(r)
  PROVE  \A e \in Report : Fine(e)'
<1>1. /\ req[r] # Idle /\ req' = [req EXCEPT ![r] = Idle]
      /\ UNCHANGED <<downtimeVars, report, opened, order, begun, finished, reopened>>
      /\ disturbed' = disturbed \cup {req[r].about}
  BY DEF Interrupt
<1>0. PICK f \in Report : f = req[r].about
  BY <1>1 DEF FaultInv, FaultsTypeOK, Task
<1>2. req'[r] = Idle /\ \A q \in Request \ {r} : req'[q] = req[q]
  BY <1>1 DEF FaultInv, FaultsTypeOK
<1>3. \A e \in Report \ {f} : Untouched(e)
  BY <1>0, <1>1, <1>2 DEF Untouched, About, Live, downtimeVars
<1>4. \A q \in About(f)' : q \in About(f) /\ req'[q] = req[q] /\ q \in Request
  BY <1>2 DEF About
<1>5. f \in disturbed' /\ Unborn(f)'
  BY <1>0, <1>1, <1>4 DEF Fine, Unborn, Alone, Stopless, Orderless
<1>6. \A q \in About(f)' : Tasked(q)'
  BY <1>1, <1>4 DEF Fine, Tasked, Todo
<1> QED
  BY <1>3, <1>5, <1>6, OneTouched DEF Fine

\* An alert is acknowledged or resolved by hand, whatever is under way.
LEMMA AlertsFine ==
  ASSUME FaultInv, FaultInv', \A e \in Report : Fine(e), NEW f \in Report,
         AckAlert(f) \/ ResolveAlert(f)
  PROVE  \A e \in Report : Fine(e)'
<1>1. /\ report[f].status # "none" /\ report'[f].status \in {"ack", "resolved"}
      /\ report'[f].stop = report[f].stop
      /\ \A e \in Report \ {f} : report'[e] = report[e]
      /\ UNCHANGED <<downtimeVars, opened, order, req, finished, disturbed>>
      /\ reopened \subseteq reopened'
      /\ \/ report'[f].status = "resolved"
         \/ report[f].status \in Untriaged
         \/ f \in reopened'
  BY DEF AckAlert, ResolveAlert, Reopens, history, FaultInv, FaultsTypeOK, ReportRow
<1>2. \A e \in Report \ {f} : Untouched(e)
  BY <1>1 DEF Untouched, Live, downtimeVars
<1>3. About(f)' = About(f)
  BY <1>1 DEF About
<1>4. \A q \in About(f) : q \in Request /\ req'[q] = req[q] /\ req[q].about = f /\ req[q] # Idle
  BY <1>1 DEF About
<1>5. Unborn(f)' /\ \A q \in About(f)' : Tasked(q)'
  BY <1>1, <1>3, <1>4 DEF Fine, Unborn, Tasked, Todo
<1>6. (Orderless(f)' <=> Orderless(f)) /\ (LetGo(f)' <=> LetGo(f)) /\ (Stopless(f)' <=> Stopless(f))
  BY <1>1 DEF Orderless, LetGo, Stopless, Live, downtimeVars
<1>7. ASSUME f \notin disturbed' PROVE Alone(f)' /\ Quiet(f)'
  <2>1. Alone(f) /\ Quiet(f)
    BY <1>1, <1>7 DEF Fine
  <2>2. Alone(f)'
    BY <1>3, <2>1 DEF Alone
  <2>3. Quiet(f)'
    BY <1>1, <1>3, <1>4, <1>6, <2>1 DEF Quiet, Todo
  <2> QED
    BY <2>2, <2>3
<1>8. ASSUME f \notin disturbed' \cup reopened' PROVE Once(f)'
  <2>1. Once(f)
    BY <1>1, <1>8 DEF Fine
  <2> QED
    BY <1>1, <1>3, <1>4, <1>6, <1>8, <2>1 DEF Once, Todo, Untriaged
<1> QED
  BY <1>2, <1>5, <1>7, <1>8, OneTouched DEF Fine

\* Steps that are about no report.
LEMMA NobodyTouched ==
  ASSUME FaultInv, FaultInv', LogInv, \A e \in Report : Fine(e),
         \/ \E w \in Order : DeleteWorkOrder(w) \/ \E next \in Target : PatchWorkOrder(w, next)
         \/ \E s \in Stop : OtherStop(s)
         \/ UNCHANGED vars
  PROVE  \A e \in Report : Fine(e)'
<1>1. /\ UNCHANGED <<report, opened, req, history>>
      /\ \A w \in Order : order'[w].report = order[w].report
      /\ \A t \in Stop : Live(t)' => Live(t)
  <2>1. ASSUME NEW w \in Order, DeleteWorkOrder(w) \/ \E next \in Target : PatchWorkOrder(w, next)
        PROVE  /\ UNCHANGED <<report, opened, req, history>>
               /\ \A v \in Order : order'[v].report = order[v].report
               /\ \A t \in Stop : Live(t)' => Live(t)
    BY <2>1 DEF DeleteWorkOrder, PatchWorkOrder, downtimeVars, Live, FaultInv, FaultsTypeOK, OrderRow
  <2>2. ASSUME NEW s \in Stop, OtherStop(s)
        PROVE  /\ UNCHANGED <<report, opened, req, history>>
               /\ \A v \in Order : order'[v].report = order[v].report
               /\ \A t \in Stop : Live(t)' => Live(t)
    BY <2>2, DeadStays DEF OtherStop, faultVars, LogInv
  <2>3. CASE UNCHANGED vars
    BY <2>3 DEF vars, faultVars, downtimeVars, Live
  <2> QED
    BY <2>1, <2>2, <2>3
<1>2. \A e \in Report : Untouched(e)
  BY <1>1 DEF Untouched, About, history
<1> QED
  BY <1>2, UntouchedStaysFine

-----------------------------------------------------------------------------
(***************************************************************************)
(* The rule job: what it saw when it looked is still so when it raises.    *)
(***************************************************************************)
Evaluating(r) == req[r] # Idle /\ req[r].op = "evaluate"

Settled == Report \ (disturbed \cup reopened)

Raised(f) == report[f].rule /\ report[f].status \in OpenReport

RuleInv ==
    /\ \A r, q \in Request : Evaluating(r) /\ Evaluating(q) /\ r # q =>
          req[r].about \in disturbed \/ req[q].about \in disturbed
    /\ \A r \in Request : Evaluating(r) /\ req[r].about \notin disturbed =>
          \A g \in Settled : report[g].asset = report[req[r].about].asset => ~Raised(g)
    /\ \A f, g \in Settled :
          Raised(f) /\ Raised(g) /\ report[f].asset = report[g].asset => f = g

\* A step that raises nothing and where nobody begins to look.
Calm ==
    /\ disturbed \subseteq disturbed' /\ reopened \subseteq reopened'
    /\ \A g \in Report : report'[g].asset = report[g].asset
    /\ \A g \in Report : g \notin disturbed' \cup reopened' => (Raised(g)' => Raised(g))
    /\ \A r \in Request : Evaluating(r)' => Evaluating(r) /\ req'[r].about = req[r].about

LEMMA CalmKeepsRule ==
  ASSUME FaultInv, RuleInv, Calm
  PROVE  RuleInv'
<1>1. \A r \in Request : Evaluating(r) => req[r].about \in Report
  BY DEF Evaluating, FaultInv, FaultsTypeOK, Task
<1>2. \A g \in Report : g \notin disturbed' \cup reopened' => g \in Settled
  BY DEF Calm, Settled
<1>3. (\A r, q \in Request : Evaluating(r) /\ Evaluating(q) /\ r # q =>
          req[r].about \in disturbed \/ req[q].about \in disturbed)'
  BY DEF RuleInv, Calm
<1>4. (\A r \in Request : Evaluating(r) /\ req[r].about \notin disturbed =>
          \A g \in Settled : report[g].asset = report[req[r].about].asset => ~Raised(g))'
  <2> SUFFICES ASSUME NEW r \in Request, Evaluating(r)', req'[r].about \notin disturbed',
                      NEW g \in Report, g \notin disturbed' \cup reopened',
                      report'[g].asset = report'[req'[r].about].asset
               PROVE  ~Raised(g)'
    BY DEF Settled
  <2>1. Evaluating(r) /\ req'[r].about = req[r].about /\ req[r].about \in Report
    BY <1>1 DEF Calm
  <2>2. report[g].asset = report[req[r].about].asset /\ req[r].about \notin disturbed
    BY <2>1 DEF Calm
  <2> QED
    BY <1>2, <2>1, <2>2 DEF RuleInv, Calm
<1>5. (\A f, g \in Settled :
          Raised(f) /\ Raised(g) /\ report[f].asset = report[g].asset => f = g)'
  <2> SUFFICES ASSUME NEW f \in Report, NEW g \in Report, f \notin disturbed' \cup reopened',
                      g \notin disturbed' \cup reopened', Raised(f)', Raised(g)',
                      report'[f].asset = report'[g].asset
               PROVE  f = g
    BY DEF Settled
  <2> QED
    BY <1>2 DEF RuleInv, Calm
<1> QED
  BY <1>3, <1>4, <1>5 DEF RuleInv

\* A request that does not look for raised reports, or goes on.
LEMMA BeginCalm ==
  ASSUME FaultInv, NEW r \in Request, NEW f \in Report,
         NEW op \in {"report", "evaluate", "convert", "reject", "complete"}, NEW rest, NEW s, NEW w,
         Begin(r, op, f, rest, s, w), op # "evaluate"
  PROVE  /\ disturbed \subseteq disturbed' /\ reopened \subseteq reopened'
         /\ \A q \in Request : Evaluating(q)' => Evaluating(q) /\ req'[q].about = req[q].about
<1>1. /\ disturbed \subseteq disturbed' /\ reopened \subseteq reopened'
  BY DEF Begin
<1>2. /\ req'[r].op = op
      /\ \A q \in Request \ {r} : req'[q] = req[q]
  BY DEF Begin, FaultInv, FaultsTypeOK
<1> QED
  BY <1>1, <1>2 DEF Evaluating

LEMMA ContinueCalm ==
  ASSUME FaultInv, NEW r \in Request, req[r] # Idle, NEW rest, NEW s, NEW w, Continue(r, rest, s, w)
  PROVE  \A q \in Request : Evaluating(q)' => Evaluating(q) /\ req'[q].about = req[q].about
<1>1. /\ req'[r] = IF rest = <<>> THEN Idle
                   ELSE [req[r] EXCEPT !.rest = rest, !.stop = s, !.order = w]
      /\ \A q \in Request \ {r} : req'[q] = req[q]
  BY DEF Continue, FaultInv, FaultsTypeOK
<1>2. req[r] \in Task
  BY DEF FaultInv, FaultsTypeOK
<1>3. /\ [req[r] EXCEPT !.rest = rest, !.stop = s, !.order = w].op = req[r].op
      /\ [req[r] EXCEPT !.rest = rest, !.stop = s, !.order = w].about = req[r].about
  BY <1>2 DEF Task
<1>4. req'[r] # Idle => req'[r].op = req[r].op /\ req'[r].about = req[r].about
  BY <1>1, <1>3
<1> QED
  BY <1>1, <1>4 DEF Evaluating

LEMMA EvaluateKeepsRule ==
  ASSUME FaultInv, RuleInv, NEW r \in Request, NEW f \in Report, EvaluateConditionRules(r, f)
  PROVE  RuleInv'
<1>1. /\ \A g \in Report : report[g].rule /\ report[g].asset = report[f].asset
                              => report[g].status \notin OpenReport
      /\ Begin(r, "evaluate", f, <<"raise">>, None, None)
      /\ UNCHANGED <<report, reopened>>
  BY DEF EvaluateConditionRules, Begin
<1>2. /\ req'[r].about = f /\ \A q \in Request \ {r} : req'[q] = req[q]
      /\ disturbed' = IF InTheWay("evaluate", f) = {} THEN disturbed ELSE disturbed \cup {f}
      /\ req[r] = Idle
  BY <1>1 DEF Begin, FaultInv, FaultsTypeOK
<1>3. \A q \in Request \ {r} : Evaluating(q)' => Evaluating(q) /\ f \in disturbed'
  BY <1>2 DEF Evaluating, InTheWay
<1>4. disturbed \subseteq disturbed' /\ \A g \in Settled' : g \in Settled
  BY <1>1, <1>2 DEF Settled
<1>5. \A g \in Report : (Raised(g)' <=> Raised(g)) /\ report'[g] = report[g]
  BY <1>1 DEF Raised
<1>6. \A q \in Request \ {r} : Evaluating(q)' => req[q].about \in Report /\ req'[q] = req[q]
  BY <1>2, <1>3 DEF Evaluating, FaultInv, FaultsTypeOK, Task
<1>7. (\A p, q \in Request : Evaluating(p) /\ Evaluating(q) /\ p # q =>
          req[p].about \in disturbed \/ req[q].about \in disturbed)'
  BY <1>2, <1>3, <1>4, <1>6 DEF RuleInv
<1>8. (\A q \in Request : Evaluating(q) /\ req[q].about \notin disturbed =>
          \A g \in Settled : report[g].asset = report[req[q].about].asset => ~Raised(g))'
  <2> SUFFICES ASSUME NEW q \in Request, Evaluating(q)', req'[q].about \notin disturbed',
                      NEW g \in Settled', report'[g].asset = report'[req'[q].about].asset
               PROVE  ~Raised(g)'
    OBVIOUS
  <2>1. g \in Settled /\ g \in Report
    BY <1>4 DEF Settled
  <2>2. CASE q = r
    BY <1>1, <1>2, <1>5, <2>1, <2>2 DEF Raised
  <2>3. CASE q # r
    BY <1>1, <1>2, <1>3, <1>4, <1>5, <1>6, <2>1, <2>3 DEF RuleInv
  <2> QED
    BY <2>2, <2>3
<1>9. (\A e, g \in Settled :
          Raised(e) /\ Raised(g) /\ report[e].asset = report[g].asset => e = g)'
  BY <1>4, <1>5 DEF RuleInv, Settled
<1> QED
  BY <1>7, <1>8, <1>9 DEF RuleInv

LEMMA RaiseKeepsRule ==
  ASSUME FaultInv, \A e \in Report : Fine(e), RuleInv, NEW r \in Request, RaiseByRule(r)
  PROVE  RuleInv'
<1>1. /\ At(r, "raise") /\ Proceed(r) /\ UNCHANGED <<reopened, disturbed>>
  BY DEF RaiseByRule
<1>0. PICK f \in Report : f = req[r].about
  BY <1>1, Hand
<1>2. /\ r \in About(f) /\ Tasked(r) /\ Todo(r) = "raise" /\ req[r] \in Task /\ req[r] # Idle
      /\ req[r].rest \in Rest
  BY <1>0, <1>1, Hand
<1>3. req[r].op = "evaluate" /\ Evaluating(r)
  BY <1>2 DEF Tasked, Left, Task, Evaluating
<1>4. Tail(req[r].rest) = <<>>
  BY <1>2, Rests DEF Todo
<1>5. req'[r] = Idle /\ \A q \in Request \ {r} : req'[q] = req[q]
  BY <1>1, <1>4 DEF Proceed, Continue, FaultInv, FaultsTypeOK
<1>6. /\ \A g \in Report \ {f} : report'[g] = report[g]
      /\ report'[f].asset = report[f].asset
  BY <1>0 DEF RaiseByRule, FaultInv, FaultsTypeOK, ReportRow
<1>7. /\ \A q \in Request : Evaluating(q)' => q # r /\ Evaluating(q) /\ req'[q] = req[q]
      /\ \A q \in Request : Evaluating(q) => req[q].about \in Report
  BY <1>5 DEF Evaluating, FaultInv, FaultsTypeOK, Task
<1>8. Settled' = Settled /\ Settled \subseteq Report /\ (f \in Settled => f \notin disturbed)
  BY <1>1 DEF Settled
<1>9. /\ \A g \in Report \ {f} : Raised(g)' <=> Raised(g)
      /\ \A g \in Report : report'[g].asset = report[g].asset
  BY <1>6 DEF Raised
<1>10. (\A p, q \in Request : Evaluating(p) /\ Evaluating(q) /\ p # q =>
          req[p].about \in disturbed \/ req[q].about \in disturbed)'
  BY <1>1, <1>7 DEF RuleInv
<1>11. (\A q \in Request : Evaluating(q) /\ req[q].about \notin disturbed =>
          \A g \in Settled : report[g].asset = report[req[q].about].asset => ~Raised(g))'
  <2> SUFFICES ASSUME NEW q \in Request, Evaluating(q)', req'[q].about \notin disturbed',
                      NEW g \in Settled', report'[g].asset = report'[req'[q].about].asset
               PROVE  ~Raised(g)'
    OBVIOUS
  <2>1. q # r /\ Evaluating(q) /\ req'[q] = req[q] /\ req[q].about \in Report
    BY <1>7
  <2>2. f \in disturbed /\ req[q].about \notin disturbed
    BY <1>0, <1>1, <1>3, <2>1 DEF RuleInv
  <2>3. g \in Settled /\ g # f /\ g \in Report
    BY <1>8, <2>2
  <2> QED
    BY <1>9, <2>1, <2>2, <2>3 DEF RuleInv
<1>12. (\A e, g \in Settled :
          Raised(e) /\ Raised(g) /\ report[e].asset = report[g].asset => e = g)'
  <2>1. \A g \in Settled : f \in Settled /\ report[g].asset = report[f].asset => ~Raised(g)
    BY <1>0, <1>3, <1>8 DEF RuleInv
  <2> QED
    BY <1>8, <1>9, <2>1 DEF RuleInv
<1> QED
  BY <1>10, <1>11, <1>12 DEF RuleInv

\* Every other step leaves the raised reports as they were, or closes some.
LEMMA OthersKeepRule ==
  ASSUME FaultInv, \A e \in Report : Fine(e), RuleInv, [Next]_vars,
         ~ \E r \in Request : RaiseByRule(r) \/ \E f \in Report : EvaluateConditionRules(r, f)
  PROVE  RuleInv'
<1> USE DEF FaultInv, FaultsTypeOK
<1> SUFFICES Calm
  BY CalmKeepsRule
<1>1. ASSUME NEW r \in Request, NEW f \in Report, CreateFaultReport(r, f) PROVE Calm
  <2>1. ~report[f].rule
    BY <1>1 DEF CreateFaultReport, Fresh, Fine, Unborn
  <2>2. \A g \in Report : report'[g].asset = report[g].asset /\ (Raised(g)' => Raised(g))
    BY <1>1, <2>1 DEF CreateFaultReport, Raised, ReportRow
  <2>3. /\ disturbed \subseteq disturbed' /\ reopened \subseteq reopened'
        /\ \A q \in Request : Evaluating(q)' => Evaluating(q) /\ req'[q].about = req[q].about
    BY <1>1, BeginCalm DEF CreateFaultReport, history, Evaluating
  <2> QED
    BY <2>2, <2>3 DEF Calm
<1>2. ASSUME NEW r \in Request, NEW f \in Report, ConvertFaultReport(r, f) PROVE Calm
  BY <1>2, BeginCalm DEF ConvertFaultReport, Raised, Calm
<1>3. ASSUME NEW r \in Request, NEW f \in Report, RejectFaultReport(r, f) PROVE Calm
  BY <1>3, BeginCalm DEF RejectFaultReport, Raised, Calm
<1>4. ASSUME NEW r \in Request, NEW w \in Order, CompleteWorkOrder(r, w) PROVE Calm
  <2>1. order[w].report \in Report
    BY <1>4 DEF CompleteWorkOrder, RowsAreBorn, OrderRow
  <2> QED
    BY <1>4, <2>1, BeginCalm DEF CompleteWorkOrder, Raised, Calm
<1>5. ASSUME NEW r \in Request,
             OpenStop(r) \/ RaiseOrder(r) \/ ReadReport(r) \/ EndStop(r)
      PROVE  Calm
  <2>1. /\ req[r] # Idle /\ UNCHANGED <<report, reopened>> /\ disturbed \subseteq disturbed'
        /\ \E rest, s, w : Continue(r, rest, s, w)
    BY <1>5 DEF OpenStop, RaiseOrder, ReadReport, EndStop, At, Proceed
  <2>2. \A q \in Request : Evaluating(q)' => Evaluating(q) /\ req'[q].about = req[q].about
    BY <2>1, ContinueCalm
  <2> QED
    BY <2>1, <2>2 DEF Calm, Raised
<1>6. ASSUME NEW r \in Request, LinkStop(r) \/ PointReport(r) \/ CloseReport(r) PROVE Calm
  <2>1. /\ req[r] # Idle /\ disturbed' = disturbed
        /\ \E rest, s, w : Continue(r, rest, s, w)
    BY <1>6 DEF LinkStop, PointReport, CloseReport, At, Proceed
  <2>2. \A q \in Request : Evaluating(q)' => Evaluating(q) /\ req'[q].about = req[q].about
    BY <2>1, ContinueCalm
  <2>3. PICK f \in Report : f = req[r].about
    BY <2>1 DEF Task
  <2>4. /\ \A g \in Report \ {f} : report'[g] = report[g]
        /\ report'[f].asset = report[f].asset /\ report'[f].rule = report[f].rule
        /\ reopened \subseteq reopened'
        /\ \/ report'[f].status = report[f].status
           \/ report'[f].status \in {"false_positive", "resolved"}
           \/ report[f].status \in Untriaged
           \/ f \in reopened'
    <3>1. CASE LinkStop(r)
      BY <2>3, <3>1 DEF LinkStop, ReportRow
    <3>2. CASE PointReport(r)
      BY <2>3, <3>2 DEF PointReport, Reopens, ReportRow
    <3>3. CASE CloseReport(r)
      BY <2>3, <3>3 DEF CloseReport, ReportRow
    <3> QED
      BY <1>6, <3>1, <3>2, <3>3
  <2>5. \A g \in Report : g \notin disturbed' \cup reopened' => (Raised(g)' => Raised(g))
    BY <2>4 DEF Raised, OpenReport, Untriaged
  <2> QED
    BY <2>1, <2>2, <2>4, <2>5 DEF Calm
<1>7. ASSUME NEW r \in Request, Interrupt(r) PROVE Calm
  BY <1>7 DEF Interrupt, Calm, Raised, Evaluating
<1>8. ASSUME NEW f \in Report, AckAlert(f) \/ ResolveAlert(f) PROVE Calm
  <2>1. /\ \A g \in Report \ {f} : report'[g] = report[g]
        /\ report'[f].asset = report[f].asset /\ report'[f].rule = report[f].rule
        /\ disturbed' = disturbed /\ reopened \subseteq reopened' /\ req' = req
        /\ \/ report'[f].status = "resolved"
           \/ report[f].status \in Untriaged
           \/ f \in reopened'
    BY <1>8 DEF AckAlert, ResolveAlert, Reopens, history, ReportRow
  <2> QED
    BY <2>1 DEF Calm, Raised, OpenReport, Untriaged, Evaluating
<1>9. CASE \/ \E w \in Order : DeleteWorkOrder(w) \/ \E next \in Target : PatchWorkOrder(w, next)
           \/ \E s \in Stop : OtherStop(s)
           \/ UNCHANGED vars
  BY <1>9 DEF DeleteWorkOrder, PatchWorkOrder, OtherStop, vars, faultVars, history, Calm, Raised, Evaluating
<1> QED
  BY <1>1, <1>2, <1>3, <1>4, <1>5, <1>6, <1>7, <1>8, <1>9 DEF Next, Requests

-----------------------------------------------------------------------------
\* The whole invariant.
FineInv ==
    /\ FinishedBorn
    /\ \A f \in Report : Fine(f)
    /\ RuleInv

LEMMA InitFine == Init => FineInv
<1> SUFFICES ASSUME Init PROVE FineInv
  OBVIOUS
<1>1. /\ \A f \in Report : /\ report[f].status = "none" /\ report[f].rule = FALSE
                           /\ About(f) = {}
      /\ \A s \in Stop : opened[s] = None
      /\ \A w \in Order : order[w].report = None
      /\ finished = {}
      /\ \A r \in Request : req[r] = Idle
  BY DEF Init, About
<1>2. ASSUME NEW f \in Report PROVE Fine(f)
  <2>1. Stopless(f) /\ Orderless(f)
    BY <1>1, FaultReportsAssumption DEF Stopless, Orderless
  <2> QED
    BY <1>1, <1>2, <2>1 DEF Fine, Unborn, Alone, Quiet, Once, Stopless, Orderless, LetGo
<1>3. RuleInv
  BY <1>1 DEF RuleInv, Evaluating, Settled, Raised
<1> QED
  BY <1>1, <1>2, <1>3 DEF FineInv, FinishedBorn

LEMMA FinishedStaysBorn ==
  ASSUME FaultInv, FineInv, Kept, finished' \subseteq Order,
         \A w \in finished' : w \in finished \/ \E r \in Request :
            req[r] # Idle /\ req[r].op = "complete" /\ w = req[r].order
  PROVE  FinishedBorn'
<1>1. \A r \in Request : req[r] # Idle => r \in About(req[r].about) /\ req[r].about \in Report
  BY DEF About, FaultInv, FaultsTypeOK, Task
<1>2. \A w \in finished' : order[w].report # None
  BY <1>1, FaultReportsAssumption DEF FineInv, FinishedBorn, Fine, Tasked
<1> QED
  BY <1>2 DEF FinishedBorn, Kept

LEMMA FinishedStep ==
  ASSUME LogInv, FaultInv, FaultInv', FineInv, [Next]_vars
  PROVE  FinishedBorn'
<1> SUFFICES \/ finished' = finished /\ \A w \in Order : order[w].report # None => order'[w].report = order[w].report
             \/ \E r \in Request : /\ req[r] # Idle
                                   /\ finished' \subseteq finished \cup {req[r].order}
                                   /\ req[r].op = "complete" \/ finished' = finished
                                   /\ \A w \in Order : order[w].report # None => order'[w].report = order[w].report
  <2>1. finished \subseteq Order /\ finished' \subseteq Order
    BY DEF FaultInv, FaultsTypeOK
  <2>2. \A r \in Request : req[r] # Idle /\ req[r].op = "complete" =>
           req[r].about \in Report /\ order[req[r].order].report = req[r].about
    BY DEF FineInv, Fine, Tasked, About, FaultInv, FaultsTypeOK, Task
  <2> QED
    BY <2>1, <2>2, FaultReportsAssumption DEF FineInv, FinishedBorn
<1>1. ASSUME NEW r \in Request, NEW rest, NEW s, NEW w, req[r] # Idle, Continue(r, rest, s, w)
      PROVE  finished' \subseteq finished \cup {req[r].order} /\ (req[r].op = "complete" \/ finished' = finished)
  BY <1>1 DEF Continue
<1>2. ASSUME NEW r \in Request, NEW f \in Report,
             \/ CreateFaultReport(r, f) \/ EvaluateConditionRules(r, f)
             \/ ConvertFaultReport(r, f) \/ RejectFaultReport(r, f)
      PROVE  finished' = finished /\ order' = order
  BY <1>2 DEF CreateFaultReport, EvaluateConditionRules, ConvertFaultReport, RejectFaultReport, Begin, history
<1>3. ASSUME NEW r \in Request, NEW w \in Order, CompleteWorkOrder(r, w)
      PROVE  finished' = finished /\ \A v \in Order : order'[v].report = order[v].report
  BY <1>3 DEF CompleteWorkOrder, Begin, FaultInv, FaultsTypeOK, OrderRow
<1>4. ASSUME NEW r \in Request,
             \/ OpenStop(r) \/ LinkStop(r) \/ RaiseByRule(r) \/ PointReport(r)
             \/ ReadReport(r) \/ EndStop(r) \/ CloseReport(r)
      PROVE  req[r] # Idle /\ order' = order /\ \E rest, s, w : Continue(r, rest, s, w)
  BY <1>4 DEF OpenStop, LinkStop, RaiseByRule, PointReport, ReadReport, EndStop, CloseReport, At, Proceed
<1>5. ASSUME NEW r \in Request, RaiseOrder(r)
      PROVE  /\ req[r] # Idle /\ \E rest, s, w : Continue(r, rest, s, w)
             /\ \A w \in Order : order[w].report # None => order'[w].report = order[w].report
  BY <1>5 DEF RaiseOrder, At, FaultInv, FaultsTypeOK, RowsAreBorn
<1>6. ASSUME NEW r \in Request, Interrupt(r) PROVE finished' = finished /\ order' = order
  BY <1>6 DEF Interrupt
<1>7. ASSUME NEW f \in Report, AckAlert(f) \/ ResolveAlert(f)
      PROVE  finished' = finished /\ order' = order
  BY <1>7 DEF AckAlert, ResolveAlert, history
<1>8. ASSUME NEW w \in Order, DeleteWorkOrder(w) \/ \E next \in Target : PatchWorkOrder(w, next)
      PROVE  finished' = finished /\ \A v \in Order : order'[v].report = order[v].report
  BY <1>8 DEF DeleteWorkOrder, PatchWorkOrder, history, FaultInv, FaultsTypeOK, OrderRow
<1>9. ASSUME (\E s \in Stop : OtherStop(s)) \/ UNCHANGED vars
      PROVE  finished' = finished /\ order' = order
  BY <1>9 DEF OtherStop, vars, faultVars, history
<1>10. ASSUME NEW r \in Request,
              \/ OpenStop(r) \/ LinkStop(r) \/ RaiseByRule(r) \/ PointReport(r)
              \/ ReadReport(r) \/ EndStop(r) \/ CloseReport(r) \/ RaiseOrder(r)
       PROVE  /\ req[r] # Idle
              /\ finished' \subseteq finished \cup {req[r].order}
              /\ req[r].op = "complete" \/ finished' = finished
              /\ \A w \in Order : order[w].report # None => order'[w].report = order[w].report
  BY <1>1, <1>4, <1>5, <1>10
<1> QED
  BY <1>2, <1>3, <1>6, <1>7, <1>8, <1>9, <1>10 DEF Next, Requests

LEMMA FineStep ==
  ASSUME LogInv, FaultInv, FaultInv', FineInv, [Next]_vars
  PROVE  FineInv'
<1>0. FinishedBorn /\ RuleInv /\ \A e \in Report : Fine(e)
  BY DEF FineInv
<1>1. FinishedBorn'
  BY FinishedStep
<1>2. \A e \in Report : Fine(e)'
  BY <1>0, FaultReportFine, BeginningsFine, CompletionFine, OpenStopFine, LinkStopFine,
     RaiseByRuleFine, RaiseOrderFine, PointReportFine, ReadReportFine, EndStopFine,
     CloseReportFine, InterruptFine, AlertsFine, NobodyTouched DEF Next, Requests
<1>3. RuleInv'
  BY <1>0, EvaluateKeepsRule, RaiseKeepsRule, OthersKeepRule
<1> QED
  BY <1>1, <1>2, <1>3 DEF FineInv

LEMMA FineIsInvariant == Spec => [](FaultInv /\ FineInv)
<1>1. Init => LogInv /\ FaultInv /\ FineInv
  BY InitFaults, InitFine
<1>2. LogInv /\ FaultInv /\ FineInv /\ [Next]_vars => (LogInv /\ FaultInv /\ FineInv)'
  BY FaultStep, LogStep, FaultInvStep, FineStep
<1> QED
  BY <1>1, <1>2, PTL DEF Spec

\* For any reports, stops, orders and requests, as long as no two requests about
\* a report overlapped and none of them failed: once it is rejected, or its work
\* order is completed, the report holds no stop open that CreateFaultReport
\* opened for it.
THEOREM ReportsLetGo == Spec => []ClosedReportsLetGo
<1>1. FaultInv /\ FineInv => ClosedReportsLetGo
  <2> SUFFICES ASSUME FaultInv, FineInv, NEW f \in Report, f \notin disturbed,
                      report[f].status = "false_positive" \/ OrdersOf(f) \cap finished # {}
               PROVE  \A s \in StopsOf(f) : ~Live(s)
    BY DEF ClosedReportsLetGo
  <2>1. LetGo(f)
    BY DEF FineInv, Fine, Quiet, OrdersOf
  <2> QED
    BY <2>1 DEF LetGo, StopsOf
<1> QED
  BY <1>1, FineIsInvariant, PTL

\* Unless requests about it overlapped or failed, or it was opened again: a
\* report becomes one work order at most, none once it is rejected, and the
\* completion of that order resolves it, whatever is acknowledged, resolved,
\* patched or deleted in between.
THEOREM ReportsAreTriagedOnce == Spec => [](TriagedOnce /\ FinishedWorkResolves)
<1>1. FaultInv /\ FineInv => TriagedOnce
  <2> SUFFICES ASSUME FaultInv, FineInv, NEW f \in Report, f \notin disturbed \cup reopened
               PROVE  /\ Cardinality(OrdersOf(f)) <= 1
                      /\ report[f].status = "false_positive" => OrdersOf(f) = {}
    BY DEF TriagedOnce
  <2>1. Once(f)
    BY DEF FineInv, Fine
  <2>2. OrdersOf(f) = {} \/ \E w \in Order : OrdersOf(f) = {w}
    BY <2>1 DEF Once, OrdersOf
  <2>3. Cardinality(OrdersOf(f)) <= 1
    <3>1. CASE OrdersOf(f) = {}
      <4>1. Cardinality(OrdersOf(f)) = 0
        BY <3>1, FS_EmptySet
      <4> QED
        BY <4>1
    <3>2. ASSUME NEW w \in Order, OrdersOf(f) = {w}
          PROVE  Cardinality(OrdersOf(f)) <= 1
      <4>1. Cardinality({w}) = 1
        BY FS_Singleton
      <4>2. Cardinality(OrdersOf(f)) = 1
        BY <3>2, <4>1
      <4> QED
        BY <4>2
    <3> QED
      BY <2>2, <3>1, <3>2
  <2> QED
    BY <2>1, <2>3 DEF Once, Orderless, OrdersOf
<1>2. FaultInv /\ FineInv => FinishedWorkResolves
  <2> SUFFICES ASSUME FaultInv, FineInv, NEW w \in finished,
                      order[w].report \notin disturbed \cup reopened
               PROVE  report[order[w].report].status = "resolved"
    BY DEF FinishedWorkResolves
  <2>1. order[w].report \in Report
    BY DEF FineInv, FinishedBorn, FaultInv, FaultsTypeOK, OrderRow
  <2> QED
    BY <2>1 DEF FineInv, Fine, Once
<1> QED
  BY <1>1, <1>2, FineIsInvariant, PTL

\* With one run of the job at a time, a reading that stays high raises one
\* report per machine and rule while it is open.
THEOREM OneReportRaised == Spec => []OneReportPerRule
<1>1. FaultInv /\ FineInv => OneReportPerRule
  BY DEF FineInv, RuleInv, OneReportPerRule, Settled, Raised
<1> QED
  BY <1>1, FineIsInvariant, PTL
=============================================================================
