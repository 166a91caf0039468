---------------------------- MODULE FaultReports ----------------------------
(***************************************************************************)
(* Fault reports (internal/store/maintenance_phase2.go, the alerts of      *)
(* performance.go, the sensor rules of maintenance_notify.go).  A report   *)
(* is an alert; it may open a stop in the downtime log, is triaged into a  *)
(* work order or rejected, and is resolved when that order is completed.   *)
(*                                                                         *)
(* The alert, the stop, the link between them and the order are written by *)
(* transactions of their own, over what the request read when it began.    *)
(* Each is a step here.  The downtime log is module Downtime; what an      *)
(* order has to meet before it may be completed is module WorkOrders, and  *)
(* is left open here.                                                      *)
(***************************************************************************)
EXTENDS Downtime, FiniteSets

CONSTANTS
    Report,       \* identifiers of fault reports (mes_alerts.id)
    Order,        \* identifiers of the work orders raised from them
    Target,       \* statuses a PATCH may give an order
    Request,      \* requests, and runs of the rule job, at the same time
    MaxRequests,  \* bound on those that take more than one statement
    None          \* no stop, no order, no report

ASSUME FaultReportsAssumption ==
    /\ MaxRequests \in Nat
    /\ None \notin Stop \cup Order \cup Report
    /\ Target \subseteq {"open", "completed", "cancelled"}

VARIABLES
    report,       \* the alerts of kind fault_report
    opened,       \* per stop, the fault_report_id in its attrs
    order,        \* the work orders
    req,          \* the requests in flight
    begun,        \* how many requests have begun
    finished,     \* history: orders whose CompleteWorkOrder has returned
    reopened,     \* history: reports made open again after they had been dealt with
    disturbed     \* history: reports two requests about which overlapped, or
                  \* one of which failed somewhere

history    == <<begun, finished, reopened, disturbed>>
faultVars  == <<report, opened, order, req, history>>
vars       == <<downtimeVars, faultVars>>

ReportStatus == {"none", "new", "ack", "investigating", "resolved", "false_positive"}
OpenReport   == {"new", "ack", "investigating"}
Untriaged    == {"new", "ack"}
OrderStatus  == {"none", "open", "completed", "cancelled", "deleted"}

\* rule: raised by the sensor rule; stop, order: the links kept in its attrs.
ReportRow == [status : ReportStatus, asset : Asset, rule : BOOLEAN,
              stop : Stop \cup {None}, order : Order \cup {None}]
OrderRow  == [status : OrderStatus, report : Report \cup {None}]

\* The statements a request may have left.
Rest == {<<"stop", "link">>, <<"link">>, <<"raise">>, <<"order", "point">>, <<"point">>,
         <<"read">>, <<"end", "close">>, <<"end">>, <<"close">>}
\* stop, order: what it has read or written.
Task == [op : {"report", "evaluate", "convert", "reject", "complete"}, about : Report,
         rest : Rest, stop : Stop \cup {None}, order : Order \cup {None}]
Idle == [op |-> "none"]

FaultsTypeOK ==
    /\ report \in [Report -> ReportRow]
    /\ opened \in [Stop -> Report \cup {None}]
    /\ order \in [Order -> OrderRow]
    /\ req \in [Request -> Task \cup {Idle}]
    /\ begun \in 0..MaxRequests
    /\ finished \subseteq Order
    /\ reopened \subseteq Report /\ disturbed \subseteq Report

Init ==
    /\ DowntimeInit
    /\ report \in [Report -> [status : {"none"}, asset : Asset, rule : {FALSE},
                              stop : {None}, order : {None}]]
    /\ opened = [s \in Stop |-> None]
    /\ order = [w \in Order |-> [status |-> "none", report |-> None]]
    /\ req = [r \in Request |-> Idle]
    /\ begun = 0
    /\ finished = {} /\ reopened = {} /\ disturbed = {}

-----------------------------------------------------------------------------
(***************************************************************************)
(* A request begins with its first statement.                              *)
(***************************************************************************)
About(f) == {r \in Request : req[r] # Idle /\ req[r].about = f}

\* Two runs of the rule job get in each other's way whatever they raise.
InTheWay(op, f) ==
    About(f) \cup {r \in Request : op = "evaluate" /\ req[r] # Idle /\ req[r].op = "evaluate"}

Begin(r, op, f, rest, s, w) ==
    /\ req[r] = Idle
    /\ begun < MaxRequests
    /\ begun' = begun + 1
    /\ req' = [req EXCEPT ![r] = [op |-> op, about |-> f, rest |-> rest, stop |-> s, order |-> w]]
    /\ disturbed' = IF InTheWay(op, f) = {} THEN disturbed ELSE disturbed \cup {f}
    /\ UNCHANGED <<finished, reopened>>

\* An open status is written, whatever has become of the report.
Reopens(f) == reopened' = IF report[f].status \in Untriaged THEN reopened ELSE reopened \cup {f}

Fresh(f) == report[f].status = "none" /\ About(f) = {}

If(condition, statement) == IF condition THEN <<statement>> ELSE <<>>

(***************************************************************************)
(* Slips: the operations as a plausible mistake would leave them.          *)
(***************************************************************************)
\* Converting does not look at what became of the report.
ConvertAny(r, f) ==
    /\ report[f].status # "none"
    /\ Begin(r, "convert", f, <<"order", "point">>, None, None)
    /\ UNCHANGED <<downtimeVars, report, opened, order>>

\* Rejecting leaves the stop to whoever opened it.
RejectKeepsStop(r, f) ==
    /\ report[f].status \in Untriaged
    /\ Begin(r, "reject", f, <<"close">>, None, None)
    /\ UNCHANGED <<downtimeVars, report, opened, order>>

\* The job looks only for reports nobody has taken up.
EvaluateUntriaged(r, f) ==
    /\ Fresh(f)
    /\ \A g \in Report : report[g].rule /\ report[g].asset = report[f].asset
                            => report[g].status \notin Untriaged
    /\ Begin(r, "evaluate", f, <<"raise">>, None, None)
    /\ UNCHANGED <<downtimeVars, report, opened, order>>

\* The result of the work is written where the status belongs.
ResolveAsCompleted(f) ==
    /\ report[f].status # "none"
    /\ report' = [report EXCEPT ![f].status = "completed"]
    /\ UNCHANGED <<downtimeVars, opened, order, req, history>>

-----------------------------------------------------------------------------
\* CreateAlert; when the machine has stopped, a stop and a link follow.
CreateFaultReport(r, f) ==
    /\ Fresh(f)
    /\ report' = [report EXCEPT ![f].status = "new"]
    /\ \/ Begin(r, "report", f, <<"stop", "link">>, None, None)
       \/ UNCHANGED <<req, history>>
    /\ UNCHANGED <<downtimeVars, opened, order>>

\* A reading breaks the rule: the job looks for an open report of the machine.
EvaluateConditionRules(r, f) ==
    /\ Fresh(f)
    /\ \A g \in Report : report[g].rule /\ report[g].asset = report[f].asset
                            => report[g].status \notin OpenReport
    /\ Begin(r, "evaluate", f, <<"raise">>, None, None)
    /\ UNCHANGED <<downtimeVars, report, opened, order>>

ConvertFaultReport(r, f) ==
    /\ report[f].status \in Untriaged
    /\ Begin(r, "convert", f, <<"order", "point">>, None, None)
    /\ UNCHANGED <<downtimeVars, report, opened, order>>

RejectFaultReport(r, f) ==
    /\ report[f].status \in Untriaged
    /\ Begin(r, "reject", f, If(report[f].stop # None, "end") \o <<"close">>, report[f].stop, None)
    /\ UNCHANGED <<downtimeVars, report, opened, order>>

\* CompleteWorkOrder has committed; completeFaultReport is to come.
CompleteWorkOrder(r, w) ==
    /\ order[w].status \notin {"none", "deleted"}
    /\ order' = [order EXCEPT ![w].status = "completed"]
    /\ Begin(r, "complete", order[w].report, <<"read">>, None, w)
    /\ UNCHANGED <<downtimeVars, report, opened>>

-----------------------------------------------------------------------------
(***************************************************************************)
(* The statements that follow.                                             *)
(***************************************************************************)
At(r, statement) == req[r] # Idle /\ Head(req[r].rest) = statement

\* The request goes on with `rest`, or returns.
Continue(r, rest, s, w) ==
    /\ req' = [req EXCEPT ![r] = IF rest = <<>> THEN Idle
                                 ELSE [@ EXCEPT !.rest = rest, !.stop = s, !.order = w]]
    /\ finished' = IF rest = <<>> /\ req[r].op = "complete" THEN finished \cup {req[r].order} ELSE finished
    /\ UNCHANGED begun

Proceed(r) == Continue(r, Tail(req[r].rest), req[r].stop, req[r].order)

\* A slip: a stop of the machine that is open already will do.
ReuseStop(r) ==
    /\ At(r, "stop")
    /\ \E s \in Stop :
          /\ stop[s].asset = report[req[r].about].asset
          /\ IF Live(s) THEN UNCHANGED <<downtimeVars, opened>>
                        ELSE /\ CreateOpen(s)
                             /\ opened' = [opened EXCEPT ![s] = req[r].about]
          /\ Continue(r, Tail(req[r].rest), s, None)
    /\ UNCHANGED <<report, order, reopened, disturbed>>

\* CreateDowntimeEvent for the machine of the report.
OpenStop(r) ==
    /\ At(r, "stop")
    /\ \E s \in Stop :
          /\ stop[s].asset = report[req[r].about].asset
          /\ CreateOpen(s)
          /\ opened' = [opened EXCEPT ![s] = req[r].about]
          /\ Continue(r, Tail(req[r].rest), s, None)
    /\ UNCHANGED <<report, order, reopened, disturbed>>

\* mergeAlertAttrs.
LinkStop(r) ==
    /\ At(r, "link")
    /\ report' = [report EXCEPT ![req[r].about].stop = req[r].stop]
    /\ Proceed(r)
    /\ UNCHANGED <<downtimeVars, opened, order, reopened, disturbed>>

\* createFaultReport for a reading: no machine has stopped.
RaiseByRule(r) ==
    /\ At(r, "raise")
    /\ report' = [report EXCEPT ![req[r].about] = [@ EXCEPT !.status = "new", !.rule = TRUE]]
    /\ Proceed(r)
    /\ UNCHANGED <<downtimeVars, opened, order, reopened, disturbed>>

RaiseOrder(r) ==
    /\ At(r, "order")
    /\ \E w \in Order :
          /\ order[w].status = "none"
          /\ order' = [order EXCEPT ![w] = [status |-> "open", report |-> req[r].about]]
          /\ Continue(r, Tail(req[r].rest), None, w)
    /\ UNCHANGED <<downtimeVars, report, opened, reopened, disturbed>>

\* The UPDATE does not ask what the report has become.
PointReport(r) ==
    /\ At(r, "point")
    /\ report' = [report EXCEPT ![req[r].about] =
                     [@ EXCEPT !.status = "investigating", !.order = req[r].order]]
    /\ Reopens(req[r].about)
    /\ Proceed(r)
    /\ UNCHANGED <<downtimeVars, opened, order, disturbed>>

\* A slip: a report without a stop has nothing to complete.
ReadReportForStop(r) ==
    /\ At(r, "read")
    /\ LET f == report[req[r].about]
       IN  Continue(r, IF f.stop # None THEN <<"end", "close">> ELSE <<>>, f.stop, req[r].order)
    /\ UNCHANGED <<downtimeVars, report, opened, order, reopened, disturbed>>

\* completeFaultReport reads the report: its stop is ended, and it is resolved
\* unless it is already.
ReadReport(r) ==
    /\ At(r, "read")
    /\ LET f == report[req[r].about]
       IN  Continue(r, If(f.stop # None, "end") \o If(f.status # "resolved", "close"), f.stop, req[r].order)
    /\ UNCHANGED <<downtimeVars, report, opened, order, reopened, disturbed>>

\* EndDowntimeEvent; whatever error it returns is ignored.
EndStop(r) ==
    /\ At(r, "end")
    /\ \/ EndDowntimeEvent(req[r].stop) /\ UNCHANGED disturbed
       \/ ~Exists(req[r].stop) /\ UNCHANGED <<downtimeVars, disturbed>>
       \/ disturbed' = disturbed \cup {req[r].about} /\ UNCHANGED downtimeVars
    /\ Proceed(r)
    /\ UNCHANGED <<report, opened, order, reopened>>

\* The last UPDATE of a rejection, and ResolveAlert after a completion.
CloseReport(r) ==
    /\ At(r, "close")
    /\ report' = [report EXCEPT ![req[r].about].status =
                     IF req[r].op = "reject" THEN "false_positive" ELSE "resolved"]
    /\ Proceed(r)
    /\ UNCHANGED <<downtimeVars, opened, order, reopened, disturbed>>

\* A statement fails, the client goes away or the process ends.
Interrupt(r) ==
    /\ req[r] # Idle
    /\ req' = [req EXCEPT ![r] = Idle]
    /\ disturbed' = disturbed \cup {req[r].about}
    /\ UNCHANGED <<downtimeVars, report, opened, order, begun, finished, reopened>>

-----------------------------------------------------------------------------
(***************************************************************************)
(* What takes one statement.                                               *)
(***************************************************************************)
\* AckAlert and ResolveAlert ask nothing of the alert.
AckAlert(f) ==
    /\ report[f].status # "none"
    /\ report' = [report EXCEPT ![f].status = "ack"]
    /\ Reopens(f)
    /\ UNCHANGED <<downtimeVars, opened, order, req, begun, finished, disturbed>>

ResolveAlert(f) ==
    /\ report[f].status # "none"
    /\ report' = [report EXCEPT ![f].status = "resolved"]
    /\ UNCHANGED <<downtimeVars, opened, order, req, history>>

\* PatchWorkOrder gives the order another status, and does nothing about the
\* report.  Only completed and deleted are told apart here.
PatchWorkOrder(w, next) ==
    /\ order[w].status \notin {"none", "deleted"}
    /\ order' = [order EXCEPT ![w].status = next]
    /\ UNCHANGED <<downtimeVars, report, opened, req, history>>

DeleteWorkOrder(w) ==
    /\ order[w].status \notin {"none", "deleted"}
    /\ order' = [order EXCEPT ![w].status = "deleted"]
    /\ UNCHANGED <<downtimeVars, report, opened, req, history>>

\* Stops of reports are ended and deleted on their own, too.
OtherStop(s) ==
    /\ opened[s] # None
    /\ EndDowntimeEvent(s) \/ DeleteDowntimeEvent(s)
    /\ UNCHANGED faultVars

Requests(r) ==
    \/ \E f \in Report : \/ CreateFaultReport(r, f)
                         \/ EvaluateConditionRules(r, f)
                         \/ ConvertFaultReport(r, f)
                         \/ RejectFaultReport(r, f)
    \/ \E w \in Order : CompleteWorkOrder(r, w)
    \/ OpenStop(r)
    \/ LinkStop(r)
    \/ RaiseByRule(r)
    \/ RaiseOrder(r)
    \/ PointReport(r)
    \/ ReadReport(r)
    \/ EndStop(r)
    \/ CloseReport(r)
    \/ Interrupt(r)

Next ==
    \/ \E r \in Request : Requests(r)
    \/ \E f \in Report : AckAlert(f) \/ ResolveAlert(f)
    \/ \E w \in Order : DeleteWorkOrder(w) \/ \E next \in Target : PatchWorkOrder(w, next)
    \/ \E s \in Stop : OtherStop(s)

Spec == Init /\ [][Next]_vars
-----------------------------------------------------------------------------
(***************************************************************************)
(* What reporting a fault promises.                                        *)
(***************************************************************************)
StopsOf(f)  == {s \in Stop : opened[s] = f}
OrdersOf(f) == {w \in Order : order[w].report = f}

\* A report's links are its own, however requests race: the stop a rejection or
\* a completion ends is one this report opened, and the order it names was
\* raised from it.
LinksAreItsOwn ==
    \A f \in Report :
        /\ report[f].stop # None => opened[report[f].stop] = f
        /\ report[f].order # None => order[report[f].order].report = f

\* A report that was rejected, or whose work order was completed, holds no stop
\* open any more: RejectFaultReport and completeFaultReport end what
\* CreateFaultReport opened, if no request about the report failed and no two overlapped.
ClosedReportsLetGo ==
    \A f \in Report \ disturbed :
        report[f].status = "false_positive" \/ OrdersOf(f) \cap finished # {}
            => \A s \in StopsOf(f) : ~Live(s)

\* A completed order has resolved the report it was raised from, whoever
\* resolved, patched or deleted what in between, unless the report was
\* opened again.
FinishedWorkResolves ==
    \A w \in finished :
        order[w].report \notin disturbed \cup reopened => report[order[w].report].status = "resolved"

\* A report is triaged once: it becomes one work order, or is rejected and becomes
\* none, unless it was opened again after that.
TriagedOnce ==
    \A f \in Report \ (disturbed \cup reopened) :
        /\ Cardinality(OrdersOf(f)) <= 1
        /\ report[f].status = "false_positive" => OrdersOf(f) = {}

\* A reading that stays high raises one report per machine and rule while it is
\* open, with one run of the job at a time.
OneReportPerRule ==
    \A f, g \in Report \ (disturbed \cup reopened) :
        /\ report[f].rule /\ report[f].status \in OpenReport
        /\ report[g].rule /\ report[g].status \in OpenReport
        /\ report[f].asset = report[g].asset
        => f = g

\* Completing the order resolves the report, on whichever route the order was completed.
CompletedWorkResolves ==
    \A w \in Order :
        LET f == order[w].report IN
        order[w].status = "completed" /\ f \notin disturbed \cup reopened /\ About(f) = {}
            => report[f].status = "resolved"
=============================================================================
