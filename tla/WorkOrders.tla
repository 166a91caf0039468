----------------------------- MODULE WorkOrders -----------------------------
(***************************************************************************)
(* The life of one work order (internal/store/cmms.go, gaps_cmms.go,       *)
(* maintenance_phase2.go, installation.go).  Its row is a status and a bag *)
(* of attributes: the checklist and its results, by the number of the step, *)
(* signatures, approval, failure code.                                     *)
(*                                                                         *)
(* Nothing locks the row.  Every change but two goes through               *)
(* PatchWorkOrder, which reads the row, merges the caller's keys into it,  *)
(* checks the gates and writes the row back whole.  The callers above it   *)
(* (RecordChecklist, Signoff, SignHandover, DecideApproval) have read the  *)
(* row before that, and pass down whole keys built from what they saw.     *)
(* CompleteWorkOrder checks the gates on the row it read and then sets the *)
(* status column alone; DeleteWorkOrder is one statement.                  *)
(*                                                                         *)
(* No operation touches two work orders, so one is modelled.  Clients PATCH*)
(* the status, the checklist, the title and the like; under attrs, never   *)
(* the keys the workflow owns.                                             *)
(* What completing sets off outside the row is not in this module.         *)
(***************************************************************************)
EXTENDS Naturals, FiniteSets

CONSTANTS
    Person,       \* names that sign, raise and decide
    MaxSteps,     \* bound on the steps of a checklist
    Kind,         \* what the order may be: "commissioning", "repair" (failure coded)
    Target,       \* statuses a PATCH may name
    Request,      \* requests in flight at the same time
    MaxRequests,  \* bound on the requests when they come one after the other
    MaxRaced,     \* bound on the requests once two have overlapped
    Keep,         \* no value: a key a patch does not name
    Nobody        \* no signature

OrderStatus   == {"draft", "scheduled", "open", "in_progress", "completed", "cancelled"}
Party         == {"installer", "engineering", "production"}
Accepting     == {"engineering", "production"}
Result        == {"unmarked", "pass", "fail"}   \* na counts as pass
ApprovalState == {"none", "pending", "approved", "rejected"}

Test      == 1..MaxSteps
Signature == Person \cup {Nobody}
Handover  == [Party -> Signature]
Tests     == [Test -> Result]
Signoffs  == [technician : Signature, supervisor : Signature]
Approval  == [state : ApprovalState, by : Signature, decider : Signature]

ASSUME WorkOrdersAssumption ==
    /\ Kind \subseteq {"commissioning", "repair"}
    /\ Target \subseteq OrderStatus
    /\ MaxSteps \in Nat
    /\ MaxRequests \in Nat
    /\ MaxRaced \in 0..MaxRequests
    /\ Nobody \notin Person
    /\ Keep \notin OrderStatus \cup Tests \cup Handover \cup Signoffs \cup Approval \cup BOOLEAN
    /\ Keep \notin 0..MaxSteps

VARIABLES
    order,        \* the row
    req,          \* the requests in flight
    begun,        \* how many requests have begun
    overlapped,   \* history: two requests have been in flight at the same time
    settled       \* history: how many steps were listed when the order was
                  \* last accepted or completed

vars == <<order, req, begun, overlapped, settled>>

\* The row, with the length of its checklist; a deleted one reads as not found.
Order == [status : OrderStatus \cup {"deleted"}, kind : Kind, steps : 0..MaxSteps, tests : Tests,
          handover : Handover, signoff : Signoffs, approval : Approval, failure : BOOLEAN]

\* The keys one call of PatchWorkOrder names.
Patch == [status : OrderStatus \cup {Keep}, steps : 0..MaxSteps \cup {Keep}, tests : Tests \cup {Keep},
          handover : Handover \cup {Keep}, signoff : Signoffs \cup {Keep},
          approval : Approval \cup {Keep}, failure : BOOLEAN \cup {Keep}]
NoPatch == [status |-> Keep, steps |-> Keep, tests |-> Keep, handover |-> Keep,
            signoff |-> Keep, approval |-> Keep, failure |-> Keep]

\* patch: what a caller of PatchWorkOrder built; next: the row PatchWorkOrder
\* will write; complete: CompleteWorkOrder has checked.
Idle    == [pc |-> "idle"]
Patches == [pc : {"patch"}, patch : Patch]
Writes  == [pc : {"write"}, next : Order]
Completes == [pc |-> "complete"]

TypeOK ==
    /\ order \in Order
    /\ req \in [Request -> {Idle, Completes} \cup Patches \cup Writes]
    /\ begun \in 0..MaxRequests
    /\ overlapped \in BOOLEAN
    /\ settled \in 0..MaxSteps

\* A new order, with the approval ApplyApprovalRule gave it.  It is born open;
\* draft and scheduled, which a PATCH can give it, pass the same gates.
Init ==
    /\ order \in [status : {"open"}, kind : Kind, steps : 0..MaxSteps,
                  tests : {[t \in Test |-> "unmarked"]}, handover : {[p \in Party |-> Nobody]},
                  signoff : {[technician |-> Nobody, supervisor |-> Nobody]},
                  approval : {[state |-> "none", by |-> Nobody, decider |-> Nobody]}
                        \cup [state : {"pending"}, by : Person, decider : {Nobody}],
                  failure : {FALSE}]
    /\ req = [r \in Request |-> Idle]
    /\ begun = 0
    /\ overlapped = FALSE
    /\ settled = 0

-----------------------------------------------------------------------------
(***************************************************************************)
(* The gates.                                                              *)
(***************************************************************************)
Closed(o) == o.status \in {"completed", "cancelled"}

CheckStart(o) == o.approval.state \notin {"pending", "rejected"}

\* A result counts while its step is on the checklist.
Listed(o)    == 1..o.steps
AllMarked(o) == \A t \in Listed(o) : o.tests[t] # "unmarked"
AllPassed(o) == \A t \in Listed(o) : o.tests[t] = "pass"

\* Tests passed and handover signed stand in for checklist and sign-off.
CheckCompletion(o) ==
    /\ CheckStart(o)
    /\ o.kind = "commissioning" =>
          /\ o.steps > 0
          /\ AllPassed(o)
          /\ \A p \in Party : o.handover[p] # Nobody
    /\ o.kind = "repair" =>
          /\ o.steps > 0 => AllMarked(o) /\ o.signoff.technician # Nobody
          /\ o.failure

Or(value, old) == IF value = Keep THEN old ELSE value

Merge(o, p) ==
    [status   |-> Or(p.status, o.status),
     kind     |-> o.kind,
     steps    |-> Or(p.steps, o.steps),
     tests    |-> Or(p.tests, o.tests),
     handover |-> Or(p.handover, o.handover),
     signoff  |-> Or(p.signoff, o.signoff),
     approval |-> Or(p.approval, o.approval),
     failure  |-> Or(p.failure, o.failure)]

\* A slip: only starting has a gate.
GateOnStart(o, next) ==
    next.status # o.status => (next.status = "in_progress" => CheckStart(next))

\* A status that moves meets its gate, on the row with the patch merged in.
Gate(o, next) ==
    next.status # o.status =>
        /\ next.status = "in_progress" => CheckStart(next)
        /\ next.status = "completed" => CheckCompletion(next)

\* The results with one more step marked: those of steps no longer listed go.
Marked(o, t, result) ==
    [i \in Test |-> IF i = t THEN result
                    ELSE IF i \in Listed(o) THEN o.tests[i] ELSE "unmarked"]

-----------------------------------------------------------------------------
\* A request arrives and ends its first read of the row in `state`.
Accept(r, state) ==
    /\ req[r] = Idle
    /\ order.status # "deleted"
    /\ overlapped' = (overlapped \/ \E q \in Request : req[q] # Idle)
    /\ begun < IF overlapped' THEN MaxRaced ELSE MaxRequests
    /\ begun' = begun + 1
    /\ req' = [req EXCEPT ![r] = state]
    /\ UNCHANGED <<order, settled>>

Ask(r, patch) == Accept(r, [pc |-> "patch", patch |-> patch])

(***************************************************************************)
(* Slips: the operations as a plausible mistake would leave them.          *)
(***************************************************************************)
\* Only the accepting parties are compared with each other.
SignHandoverTwice(r, party, p) ==
    /\ ~Closed(order)
    /\ order.kind = "commissioning"
    /\ party \in Accepting => order.steps > 0 /\ AllPassed(order)
    /\ \A other \in Accepting \ {party} : order.handover[other] # p
    /\ Ask(r, [NoPatch EXCEPT !.handover = [order.handover EXCEPT ![party] = p]])

\* A changed result leaves the acceptors' signatures.
RecordKeepsAcceptance(r, t, result) ==
    /\ ~Closed(order)
    /\ t \in Listed(order)
    /\ Ask(r, [NoPatch EXCEPT !.tests = Marked(order, t, result)])

\* A rejected order is not cancelled.
DecideKeepsStatus(r, approve, p) ==
    /\ order.approval.state = "pending"
    /\ p # order.approval.by
    /\ Ask(r, [NoPatch EXCEPT !.approval = [order.approval EXCEPT
                                              !.state = IF approve THEN "approved" ELSE "rejected",
                                              !.decider = p]])

\* A technician's name is written over a list of signatures.
SignoffMisfiled(r, role, p) ==
    /\ ~Closed(order)
    /\ Ask(r, [NoPatch EXCEPT !.signoff = p])

-----------------------------------------------------------------------------
(***************************************************************************)
(* The callers of PatchWorkOrder: read, check, build the keys.             *)
(***************************************************************************)
\* A step is marked; a commissioning job's acceptors signed for another result.
RecordChecklist(r, t, result) ==
    LET accepted  == \E p \in Accepting : order.handover[p] # Nobody
        withdrawn == [p \in Party |-> IF p \in Accepting THEN Nobody ELSE order.handover[p]]
    IN  /\ ~Closed(order)
        /\ t \in Listed(order)
        /\ Ask(r, [NoPatch EXCEPT
                      !.tests = Marked(order, t, result),
                      !.handover = IF order.kind = "commissioning" /\ accepted THEN withdrawn ELSE Keep])

\* The technician signs before completion; the supervisor after it, and is
\* another person.
Signoff(r, role, p) ==
    /\ role = "technician" => ~Closed(order)
    /\ role = "supervisor" => order.status = "completed" /\ order.signoff.technician # p
    /\ Ask(r, [NoPatch EXCEPT !.signoff = [order.signoff EXCEPT ![role] = p]])

SignHandover(r, party, p) ==
    /\ ~Closed(order)
    /\ order.kind = "commissioning"
    /\ party \in Accepting => order.steps > 0 /\ AllPassed(order)
    /\ \A other \in Party \ {party} : order.handover[other] # p
    /\ Ask(r, [NoPatch EXCEPT !.handover = [order.handover EXCEPT ![party] = p]])

DecideApproval(r, approve, p) ==
    /\ order.approval.state = "pending"
    /\ p # order.approval.by
    /\ Ask(r, [NoPatch EXCEPT !.approval = [order.approval EXCEPT
                                              !.state = IF approve THEN "approved" ELSE "rejected",
                                              !.decider = p],
                              !.status = IF approve THEN Keep ELSE "cancelled"])

(***************************************************************************)
(* PatchWorkOrder: read, merge, check; then write.                         *)
(***************************************************************************)
\* A PATCH from a client, with a status, with a checklist that takes the place
\* of the old one, or with neither; StartWorkOrder is one.
PatchWorkOrder(r, status, steps) ==
    LET next == Merge(order, [NoPatch EXCEPT !.status = status, !.steps = steps])
    IN  /\ Gate(order, next)
        /\ Accept(r, [pc |-> "write", next |-> next])

\* A write that accepts, or that completes what was not completed.
Settles(o, next) ==
    \/ \E p \in Accepting : next.handover[p] # o.handover[p]
    \/ next.status = "completed" /\ o.status # "completed"

SetFailure(r) ==
    Accept(r, [pc |-> "write", next |-> Merge(order, [NoPatch EXCEPT !.failure = TRUE])])

ReadOrder(r) ==
    /\ req[r] \in Patches
    /\ order.status # "deleted"
    /\ LET next == Merge(order, req[r].patch)
       IN  /\ Gate(order, next)
           /\ req' = [req EXCEPT ![r] = [pc |-> "write", next |-> next]]
    /\ UNCHANGED <<order, begun, overlapped, settled>>

WriteOrder(r) ==
    /\ req[r] \in Writes
    /\ order.status # "deleted"
    /\ order' = req[r].next
    /\ settled' = IF Settles(order, order') THEN order'.steps ELSE settled
    /\ req' = [req EXCEPT ![r] = Idle]
    /\ UNCHANGED <<begun, overlapped>>

\* CompleteWorkOrder does not ask what the status is.
CompleteRead(r) ==
    /\ CheckCompletion(order)
    /\ Accept(r, Completes)

CompleteWrite(r) ==
    /\ req[r] = Completes
    /\ IF order.status = "deleted"
       THEN UNCHANGED <<order, settled>>
       ELSE /\ order' = [order EXCEPT !.status = "completed"]
            /\ settled' = order.steps
    /\ req' = [req EXCEPT ![r] = Idle]
    /\ UNCHANGED <<begun, overlapped>>

DeleteWorkOrder ==
    /\ order.status # "deleted"
    /\ order' = [order EXCEPT !.status = "deleted"]
    /\ UNCHANGED <<req, begun, overlapped, settled>>

\* A request fails, is refused, or its client goes away: nothing more is written.
Abandon(r) ==
    /\ req[r] # Idle
    /\ req' = [req EXCEPT ![r] = Idle]
    /\ UNCHANGED <<order, begun, overlapped, settled>>

Next ==
    \/ \E r \in Request :
          \/ \E t \in Test, result \in {"pass", "fail"} : RecordChecklist(r, t, result)
          \/ \E p \in Person : \/ \E role \in {"technician", "supervisor"} : Signoff(r, role, p)
                               \/ \E party \in Party : SignHandover(r, party, p)
                               \/ \E approve \in BOOLEAN : DecideApproval(r, approve, p)
          \/ \E status \in Target \cup {Keep}, steps \in 0..MaxSteps \cup {Keep} :
                  PatchWorkOrder(r, status, steps)
          \/ SetFailure(r)
          \/ ReadOrder(r)
          \/ WriteOrder(r)
          \/ CompleteRead(r)
          \/ CompleteWrite(r)
          \/ Abandon(r)
    \/ DeleteWorkOrder

Spec == Init /\ [][Next]_vars
-----------------------------------------------------------------------------
(***************************************************************************)
(* What the workflow promises.                                             *)
(***************************************************************************)
Different(handover) ==
    \A p, q \in Party : p # q /\ handover[p] # Nobody => handover[p] # handover[q]

\* Each party to a handover is a different person, however the signatures and
\* the withdrawals interleave (installation.go, SignHandover).
HandoverSignersDiffer == Different(order.handover)

\* The person who raised a work order has not decided on it.
DecidedByAnother ==
    order.approval.state \in {"approved", "rejected"} =>
        order.approval.decider \in Person \ {order.approval.by}

\* Work that waits for approval, or was refused it, is not in progress,
\* however starting it raced the decision.
StartedWasApproved == order.status = "in_progress" => CheckStart(order)

\* The order as it was listed when it was last accepted or completed.
AsSettled(o) == [o EXCEPT !.steps = settled]

\* Nobody has accepted a machine whose tests did not pass, as long as requests
\* came one after the other: the tests they had before them stay passed under
\* their signatures.  A PATCH may list others afterwards (gaps_cmms.go, 61).
AcceptedHasPassed ==
    ~overlapped /\ order.kind = "commissioning" =>
        \A p \in Accepting : order.handover[p] # Nobody => AllPassed(AsSettled(order))

CompletedIsChecked == order.status = "completed" => CheckCompletion(AsSettled(order))

\* A completed order has what completion asked for, as long as requests came
\* one after the other: nothing that is allowed afterwards takes it away.  A
\* PATCH may list steps that nobody has marked; those completion did not ask for.
CompletedStaysChecked == ~overlapped => CompletedIsChecked
=============================================================================
