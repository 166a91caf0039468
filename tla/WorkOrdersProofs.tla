-------------------------- MODULE WorkOrdersProofs --------------------------
(***************************************************************************)
(* Proofs about one work order, for any people, any checklist and any      *)
(* number of requests in flight.                                           *)
(*                                                                         *)
(* Three promises hold however requests overlap: each is a property of one *)
(* row, and every row that is ever written is one that was read with whole *)
(* keys replaced.  So it is enough that each key a request carries is good *)
(* by itself, whatever row it will be merged into.                         *)
(*                                                                         *)
(* Two more relate the keys of a row to each other, and lost updates break *)
(* them.  They hold as long as requests came one after the other.          *)
(***************************************************************************)
EXTENDS WorkOrders, TLAPS

Decided(approval) ==
    approval.state \in {"approved", "rejected"} => approval.decider \in Person \ {approval.by}

\* What is promised of a row.
GoodRow(o) ==
    /\ Different(o.handover)
    /\ Decided(o.approval)
    /\ o.status = "in_progress" => CheckStart(o)

\* What is true of the keys a request carries, wherever they are merged.
GoodPatch(p) ==
    /\ p.handover # Keep => Different(p.handover)
    /\ p.approval # Keep => /\ Decided(p.approval)
                            /\ p.approval.state \in {"approved", "rejected"}
                            /\ p.approval.state = "rejected" => p.status = "cancelled"

GoodRequest(q) ==
    /\ q \in Patches => GoodPatch(q.patch)
    /\ q \in Writes => GoodRow(q.next)

\* The inductive invariant: the row, and what is on its way to it, is good.
Inv == TypeOK /\ GoodRow(order) /\ \A r \in Request : GoodRequest(req[r])

-----------------------------------------------------------------------------
\* The four shapes of a request are told apart by pc.
LEMMA Shapes ==
  /\ Idle \notin Patches /\ Idle \notin Writes
  /\ Completes \notin Patches /\ Completes \notin Writes
  /\ \A p : [pc |-> "patch", patch |-> p] \notin Writes
  /\ \A o : [pc |-> "write", next |-> o] \notin Patches
<1>1. \A x \in Patches : x.pc = "patch"
  BY DEF Patches
<1>2. \A x \in Writes : x.pc = "write"
  BY DEF Writes
<1>3. Idle.pc = "idle" /\ Completes.pc = "complete"
  BY DEF Idle, Completes
<1>4. \A p : [pc |-> "patch", patch |-> p].pc = "patch"
  OBVIOUS
<1>5. \A o : [pc |-> "write", next |-> o].pc = "write"
  OBVIOUS
<1> QED
  BY <1>1, <1>2, <1>3, <1>4, <1>5

\* Merging good keys into a good row gives a good row, if its gate lets it.
LEMMA MergeIsGood ==
  ASSUME NEW o \in Order, NEW p \in Patch, GoodRow(o), GoodPatch(p), Gate(o, Merge(o, p))
  PROVE  Merge(o, p) \in Order /\ GoodRow(Merge(o, p))
<1> DEFINE next == Merge(o, p)
<1>1. /\ next.status = Or(p.status, o.status)
      /\ next.kind = o.kind
      /\ next.steps = Or(p.steps, o.steps)
      /\ next.tests = Or(p.tests, o.tests)
      /\ next.handover = Or(p.handover, o.handover)
      /\ next.signoff = Or(p.signoff, o.signoff)
      /\ next.approval = Or(p.approval, o.approval)
      /\ next.failure = Or(p.failure, o.failure)
  BY DEF Merge
<1>2. next \in Order
  <2>1. /\ Or(p.status, o.status) \in OrderStatus \cup {"deleted"}
        /\ Or(p.steps, o.steps) \in 0..MaxSteps
        /\ Or(p.tests, o.tests) \in Tests
        /\ Or(p.handover, o.handover) \in Handover
        /\ Or(p.signoff, o.signoff) \in Signoffs
        /\ Or(p.approval, o.approval) \in Approval
        /\ Or(p.failure, o.failure) \in BOOLEAN
        /\ o.kind \in Kind
    BY DEF Or, Order, Patch
  <2> QED
    BY <2>1 DEF Merge, Order
<1>3. Different(next.handover)
  BY <1>1 DEF Or, GoodRow, GoodPatch
<1>4. Decided(next.approval)
  BY <1>1 DEF Or, GoodRow, GoodPatch
<1>5. ASSUME next.status = "in_progress" PROVE CheckStart(next)
  <2>1. CASE next.status # o.status
    BY <1>5, <2>1 DEF Gate
  <2>2. CASE next.status = o.status /\ p.approval = Keep
    BY <1>1, <1>5, <2>2 DEF Or, GoodRow, CheckStart
  <2>3. CASE next.status = o.status /\ p.approval # Keep
    <3>1. p.approval.state # "rejected"
      <4>1. ASSUME p.status = "cancelled" PROVE FALSE
        <5>1. Keep # "cancelled"
          BY WorkOrdersAssumption DEF OrderStatus
        <5>2. next.status = "cancelled"
          BY <1>1, <4>1, <5>1 DEF Or
        <5> QED
          BY <1>5, <5>2
      <4> QED
        BY <2>3, <4>1 DEF GoodPatch
    <3> QED
      BY <1>1, <2>3, <3>1 DEF GoodPatch, Or, CheckStart
  <2> QED
    BY <2>1, <2>2, <2>3
<1> QED
  BY <1>2, <1>3, <1>4, <1>5 DEF GoodRow

\* A request that carries good keys, or a good row, can be accepted.
LEMMA AcceptKeeps ==
  ASSUME Inv, NEW r \in Request, NEW state \in Patches \cup Writes \cup {Completes},
         Accept(r, state), GoodRequest(state)
  PROVE  Inv'
<1>1. TypeOK'
  <2>1. begun' \in 0..MaxRequests
    <3>1. begun < MaxRaced \/ begun < MaxRequests
      BY DEF Accept
    <3> QED
      BY <3>1, WorkOrdersAssumption DEF Inv, TypeOK, Accept
  <2>2. overlapped' \in BOOLEAN
    BY DEF Accept
  <2>3. req' \in [Request -> {Idle, Completes} \cup Patches \cup Writes]
    BY DEF Inv, TypeOK, Accept
  <2> QED
    BY <2>1, <2>2, <2>3 DEF Inv, TypeOK, Accept
<1> QED
  BY <1>1 DEF Inv, Accept, TypeOK

LEMMA NoPatchIsPatch ==
  /\ NoPatch \in Patch
  /\ NoPatch.handover = Keep /\ NoPatch.approval = Keep
  BY DEF NoPatch, Patch

\* Asking for good keys to be merged.
LEMMA AskKeeps ==
  ASSUME Inv, NEW r \in Request, NEW p \in Patch, GoodPatch(p), Ask(r, p)
  PROVE  Inv'
<1>1. [pc |-> "patch", patch |-> p] \in Patches
  BY DEF Patches
<1>2. GoodRequest([pc |-> "patch", patch |-> p])
  BY Shapes DEF GoodRequest
<1> QED
  BY <1>1, <1>2, AcceptKeeps DEF Ask

-----------------------------------------------------------------------------
LEMMA InitIsGood == Init => Inv
<1> SUFFICES ASSUME Init PROVE Inv
  OBVIOUS
<1> USE DEF Init
<1>1. /\ order.status = "open" /\ order.kind \in Kind /\ order.failure = FALSE
      /\ order.steps \in 0..MaxSteps
      /\ order.tests = [t \in Test |-> "unmarked"]
      /\ order.handover = [p \in Party |-> Nobody]
      /\ order.signoff = [technician |-> Nobody, supervisor |-> Nobody]
      /\ order.approval \in {[state |-> "none", by |-> Nobody, decider |-> Nobody]}
                              \cup [state : {"pending"}, by : Person, decider : {Nobody}]
      /\ order = [status |-> order.status, kind |-> order.kind,
                  steps |-> order.steps, tests |-> order.tests, handover |-> order.handover,
                  signoff |-> order.signoff, approval |-> order.approval, failure |-> order.failure]
  OBVIOUS
<1>2. TypeOK
  <2>1. order.tests \in Tests /\ order.handover \in Handover
    BY <1>1 DEF Tests, Handover, Signature, Result
  <2>2. order.signoff \in Signoffs
    BY <1>1 DEF Signoffs, Signature
  <2>3. order.approval \in Approval
    BY <1>1 DEF Approval, ApprovalState, Signature
  <2>4. order \in Order
    BY <1>1, <2>1, <2>2, <2>3 DEF Order, OrderStatus
  <2>5. begun \in 0..MaxRequests /\ settled \in 0..MaxSteps /\ overlapped \in BOOLEAN
    <3>1. begun = 0 /\ settled = 0 /\ overlapped = FALSE
      OBVIOUS
    <3>2. MaxRequests \in Nat /\ MaxSteps \in Nat
      BY WorkOrdersAssumption
    <3>3. begun \in 0..MaxRequests /\ settled \in 0..MaxSteps
      BY <3>1, <3>2
    <3>4. overlapped \in BOOLEAN
      BY <3>1
    <3> QED
      BY <3>3, <3>4
  <2>6. req \in [Request -> {Idle, Completes} \cup Patches \cup Writes]
    OBVIOUS
  <2> HIDE DEF Init
  <2> QED
    BY <2>4, <2>5, <2>6 DEF TypeOK
<1>3. GoodRow(order)
  BY <1>1 DEF GoodRow, Different, Decided
<1>4. \A r \in Request : GoodRequest(req[r])
  BY Shapes DEF GoodRequest
<1> QED
  BY <1>2, <1>3, <1>4 DEF Inv

LEMMA StepKeepsGood ==
  ASSUME Inv, [Next]_vars
  PROVE  Inv'
<1> USE DEF Inv
<1>0. order \in Order
  BY DEF TypeOK
<1>1. ASSUME NEW r \in Request, NEW t \in Test, NEW result \in {"pass", "fail"},
             RecordChecklist(r, t, result)
      PROVE  Inv'
  <2> DEFINE withdrawn == [p \in Party |-> IF p \in Accepting THEN Nobody ELSE order.handover[p]]
             accepted  == \E p \in Accepting : order.handover[p] # Nobody
             h == IF order.kind = "commissioning" /\ accepted THEN withdrawn ELSE Keep
             p == [NoPatch EXCEPT !.tests = Marked(order, t, result), !.handover = h]
  <2>1. Marked(order, t, result) \in Tests
    BY <1>0 DEF Order, Tests, Result, Marked
  <2>2. withdrawn \in Handover
    BY <1>0 DEF Order, Handover, Signature
  <2>3. Different(withdrawn)
    BY DEF GoodRow, Different, Party, Accepting
  <2>4. p \in Patch
    BY <2>1, <2>2 DEF NoPatch, Patch
  <2>5. GoodPatch(p)
    BY <2>3 DEF GoodPatch, NoPatch
  <2> QED
    BY <1>1, <2>4, <2>5, AskKeeps DEF RecordChecklist
<1>2. ASSUME NEW r \in Request, NEW role \in {"technician", "supervisor"}, NEW p \in Person,
             Signoff(r, role, p)
      PROVE  Inv'
  <2> DEFINE s == [order.signoff EXCEPT ![role] = p]
             patch == [NoPatch EXCEPT !.signoff = s]
  <2>1. s \in Signoffs
    BY <1>0 DEF Order, Signoffs, Signature
  <2>2. patch \in Patch /\ GoodPatch(patch)
    BY <2>1 DEF NoPatch, Patch, GoodPatch
  <2> QED
    BY <1>2, <2>2, AskKeeps DEF Signoff
<1>3. ASSUME NEW r \in Request, NEW party \in Party, NEW p \in Person, SignHandover(r, party, p)
      PROVE  Inv'
  <2> DEFINE h == [order.handover EXCEPT ![party] = p]
             patch == [NoPatch EXCEPT !.handover = h]
  <2>1. h \in Handover
    BY <1>0 DEF Order, Handover, Signature
  <2>2. Different(h)
    BY <1>0, <1>3 DEF SignHandover, GoodRow, Different, Order, Handover
  <2>3. patch \in Patch /\ GoodPatch(patch)
    BY <2>1, <2>2 DEF NoPatch, Patch, GoodPatch
  <2> QED
    BY <1>3, <2>3, AskKeeps DEF SignHandover
<1>4. ASSUME NEW r \in Request, NEW approve \in BOOLEAN, NEW p \in Person,
             DecideApproval(r, approve, p)
      PROVE  Inv'
  <2> DEFINE a == [order.approval EXCEPT !.state = IF approve THEN "approved" ELSE "rejected",
                                         !.decider = p]
             patch == [NoPatch EXCEPT !.approval = a,
                                      !.status = IF approve THEN Keep ELSE "cancelled"]
  <2>1. /\ a \in Approval /\ a.decider = p /\ a.by = order.approval.by
        /\ a.state = IF approve THEN "approved" ELSE "rejected"
    BY <1>0 DEF Order, Approval, ApprovalState, Signature
  <2>2. Decided(a)
    BY <1>4, <2>1 DEF Decided, DecideApproval
  <2>3. patch \in Patch
    BY <2>1 DEF NoPatch, Patch, OrderStatus
  <2>4. GoodPatch(patch)
    <3>1. patch.approval = a /\ patch.handover = Keep
          /\ patch.status = IF approve THEN Keep ELSE "cancelled"
      BY DEF NoPatch
    <3> HIDE DEF a, patch
    <3> QED
      BY <2>1, <2>2, <3>1 DEF GoodPatch
  <2> QED
    BY <1>4, <2>3, <2>4, AskKeeps DEF DecideApproval
<1>5. ASSUME NEW r \in Request, NEW status \in Target \cup {Keep},
             NEW steps \in 0..MaxSteps \cup {Keep}, PatchWorkOrder(r, status, steps)
      PROVE  Inv'
  <2> DEFINE patch == [NoPatch EXCEPT !.status = status, !.steps = steps]
             w == [pc |-> "write", next |-> Merge(order, patch)]
  <2>1. patch \in Patch /\ GoodPatch(patch)
    BY WorkOrdersAssumption DEF NoPatch, Patch, GoodPatch
  <2>2. Merge(order, patch) \in Order /\ GoodRow(Merge(order, patch))
    BY <1>0, <1>5, <2>1, MergeIsGood DEF PatchWorkOrder
  <2>3. w \in Writes /\ GoodRequest(w)
    BY <2>2, Shapes DEF Writes, GoodRequest
  <2> QED
    BY <1>5, <2>3, AcceptKeeps DEF PatchWorkOrder
<1>6. ASSUME NEW r \in Request, SetFailure(r)
      PROVE  Inv'
  <2> DEFINE patch == [NoPatch EXCEPT !.failure = TRUE]
             w == [pc |-> "write", next |-> Merge(order, patch)]
  <2>1. patch \in Patch /\ GoodPatch(patch) /\ patch.status = Keep
    BY DEF NoPatch, Patch, GoodPatch
  <2>2. Gate(order, Merge(order, patch))
    BY <2>1 DEF Gate, Merge, Or
  <2>3. Merge(order, patch) \in Order /\ GoodRow(Merge(order, patch))
    BY <1>0, <2>1, <2>2, MergeIsGood
  <2>4. w \in Writes /\ GoodRequest(w)
    BY <2>3, Shapes DEF Writes, GoodRequest
  <2> QED
    BY <1>6, <2>4, AcceptKeeps DEF SetFailure
<1>7. ASSUME NEW r \in Request, ReadOrder(r)
      PROVE  Inv'
  <2> DEFINE patch == req[r].patch
             w == [pc |-> "write", next |-> Merge(order, patch)]
  <2>1. patch \in Patch /\ GoodPatch(patch)
    BY <1>7 DEF ReadOrder, Patches, GoodRequest
  <2>2. Merge(order, patch) \in Order /\ GoodRow(Merge(order, patch))
    BY <1>0, <1>7, <2>1, MergeIsGood DEF ReadOrder
  <2>3. w \in Writes /\ GoodRequest(w)
    BY <2>2, Shapes DEF Writes, GoodRequest
  <2>4. req' = [req EXCEPT ![r] = w] /\ UNCHANGED <<order, begun, overlapped, settled>>
    BY <1>7 DEF ReadOrder
  <2> QED
    BY <2>3, <2>4 DEF TypeOK
<1>8. ASSUME NEW r \in Request, WriteOrder(r)
      PROVE  Inv'
  <2>1. order' \in Order /\ GoodRow(order')
    BY <1>8 DEF WriteOrder, Writes, GoodRequest
  <2>3. settled' \in 0..MaxSteps
    BY <1>8, <2>1 DEF WriteOrder, Order, TypeOK
  <2>2. GoodRequest(Idle)
    BY Shapes DEF GoodRequest
  <2> QED
    BY <1>8, <2>1, <2>2, <2>3 DEF WriteOrder, TypeOK
<1>9. ASSUME NEW r \in Request, CompleteWrite(r)
      PROVE  Inv'
  <2>1. /\ order'.status \in {"deleted", "completed"}
        /\ order' \in Order
        /\ order'.handover = order.handover /\ order'.approval = order.approval
        /\ settled' \in 0..MaxSteps
    BY <1>0, <1>9 DEF CompleteWrite, Order, OrderStatus, TypeOK
  <2>2. GoodRow(order')
    BY <2>1 DEF GoodRow
  <2>3. GoodRequest(Idle)
    BY Shapes DEF GoodRequest
  <2> QED
    BY <1>9, <2>1, <2>2, <2>3 DEF CompleteWrite, TypeOK
<1>10. ASSUME NEW r \in Request, CompleteRead(r)
       PROVE  Inv'
  <2>1. GoodRequest(Completes)
    BY Shapes DEF GoodRequest
  <2> QED
    BY <1>10, <2>1, AcceptKeeps DEF CompleteRead
<1>11. ASSUME NEW r \in Request, Abandon(r)
       PROVE  Inv'
  <2>1. GoodRequest(Idle)
    BY Shapes DEF GoodRequest
  <2> QED
    BY <1>11, <2>1 DEF Abandon, TypeOK
<1>12. CASE DeleteWorkOrder
  <2>1. /\ order'.status = "deleted"
        /\ order' \in Order
        /\ order'.handover = order.handover /\ order'.approval = order.approval
    BY <1>0, <1>12 DEF DeleteWorkOrder, Order
  <2>2. GoodRow(order')
    BY <2>1 DEF GoodRow
  <2> QED
    BY <1>12, <2>1, <2>2 DEF DeleteWorkOrder, TypeOK
<1>13. CASE UNCHANGED vars
  BY <1>13 DEF vars, TypeOK
<1> QED
  BY <1>1, <1>2, <1>3, <1>4, <1>5, <1>6, <1>7, <1>8, <1>9, <1>10, <1>11, <1>12, <1>13 DEF Next

-----------------------------------------------------------------------------
\* Whatever requests overlap, on whatever rows they read: the parties to a
\* handover are different people, whoever raised a work order has not decided
\* on it, and no work is in progress that waits for approval or was refused it.
\* PatchWorkOrder and its callers lose updates to each other, but only whole
\* keys, and each key is good by itself.
THEOREM RowsStayGood ==
  Spec => [](TypeOK /\ HandoverSignersDiffer /\ DecidedByAnother /\ StartedWasApproved)
<1>1. Spec => []Inv
  BY InitIsGood, StepKeepsGood, PTL DEF Spec
<1>2. Inv => TypeOK /\ HandoverSignersDiffer /\ DecidedByAnother /\ StartedWasApproved
  BY DEF Inv, GoodRow, Decided, HandoverSignersDiffer, DecidedByAnother, StartedWasApproved
<1> QED
  BY <1>1, <1>2, PTL
-----------------------------------------------------------------------------
(***************************************************************************)
(* What holds as long as requests come one after the other.  Then nobody   *)
(* but a deletion changes the row between the read and the write of the    *)
(* request in flight: the keys it carries were built from the row as it    *)
(* is, and it is enough that they fit that row.                            *)
(***************************************************************************)
\* The row with the checklist n steps long.
At(o, n) == [o EXCEPT !.steps = n]

AcceptedAt(o, n) ==
    o.kind = "commissioning" => \A p \in Accepting : o.handover[p] # Nobody => AllPassed(At(o, n))

\* What is promised of a row that was changed by one request at a time, with
\* n steps on its checklist when it was last accepted or completed.
FitRow(o, n) ==
    /\ AcceptedAt(o, n)
    /\ o.status = "completed" => CheckCompletion(At(o, n))

\* How many there were, once next is written over o.
SettledBy(o, next, n) == IF Settles(o, next) THEN next.steps ELSE n

\* Keys that leave the row fit, when PatchWorkOrder lets them through.
FitPatch(o, n, p) == Gate(o, Merge(o, p)) => FitRow(Merge(o, p), SettledBy(o, Merge(o, p), n))

FitRequest(o, n, q) ==
    /\ q \in Patches => FitPatch(o, n, q.patch)
    /\ q \in Writes => FitRow(q.next, SettledBy(o, q.next, n))
    /\ q = Completes => CheckCompletion(o)

Busy(r) == req[r] # Idle

\* The inductive invariant, beside Inv; a deleted row takes no write.
AloneInv ==
    ~overlapped =>
        /\ \A r, q \in Request : Busy(r) /\ Busy(q) => r = q
        /\ FitRow(order, settled)
        /\ order.status # "deleted" => \A r \in Request : FitRequest(order, settled, req[r])

LEMMA MergeFields ==
  ASSUME NEW o, NEW p
  PROVE  /\ Merge(o, p).status = Or(p.status, o.status)
         /\ Merge(o, p).kind = o.kind
         /\ Merge(o, p).steps = Or(p.steps, o.steps)
         /\ Merge(o, p).tests = Or(p.tests, o.tests)
         /\ Merge(o, p).handover = Or(p.handover, o.handover)
         /\ Merge(o, p).signoff = Or(p.signoff, o.signoff)
         /\ Merge(o, p).approval = Or(p.approval, o.approval)
         /\ Merge(o, p).failure = Or(p.failure, o.failure)
  BY DEF Merge

LEMMA AtFields ==
  ASSUME NEW o \in Order, NEW n
  PROVE  /\ At(o, n).steps = n /\ At(o, n).status = o.status /\ At(o, n).kind = o.kind
         /\ At(o, n).tests = o.tests /\ At(o, n).handover = o.handover
         /\ At(o, n).signoff = o.signoff /\ At(o, n).approval = o.approval
         /\ At(o, n).failure = o.failure
         /\ At(o, o.steps) = o
  BY DEF At, Order

\* What the gates ask of a row depends on these keys of it alone.
LEMMA AlikeAt ==
  ASSUME NEW o \in Order, NEW next \in Order, NEW n, next.kind = o.kind, next.tests = o.tests
  PROVE  /\ AllPassed(At(o, n)) <=> AllPassed(At(next, n))
         /\ AllMarked(At(o, n)) <=> AllMarked(At(next, n))
         /\ AcceptedAt(o, n) /\ (\A p \in Accepting : next.handover[p] = o.handover[p])
               => AcceptedAt(next, n)
         /\ CheckCompletion(At(o, n)) /\ next.handover = o.handover
              /\ next.approval = o.approval /\ next.signoff.technician = o.signoff.technician
              /\ (o.failure => next.failure)
            => CheckCompletion(At(next, n))
<1>1. /\ AllPassed(At(o, n)) <=> AllPassed(At(next, n))
      /\ AllMarked(At(o, n)) <=> AllMarked(At(next, n))
  BY AtFields DEF AllPassed, AllMarked, Listed
<1>2. AcceptedAt(o, n) /\ (\A p \in Accepting : next.handover[p] = o.handover[p])
        => AcceptedAt(next, n)
  BY <1>1 DEF AcceptedAt
<1>3. ASSUME CheckCompletion(At(o, n)), next.handover = o.handover, next.approval = o.approval,
             next.signoff.technician = o.signoff.technician, o.failure => next.failure
      PROVE  CheckCompletion(At(next, n))
  BY <1>1, <1>3, AtFields DEF CheckCompletion, CheckStart
<1> QED
  BY <1>1, <1>2, <1>3

\* A row that passes the gate of completion is fit as it is listed.
LEMMA CheckedIsFit ==
  ASSUME NEW o \in Order, CheckCompletion(o)
  PROVE  FitRow(o, o.steps)
  BY AtFields DEF FitRow, AcceptedAt, CheckCompletion

\* A row with keys merged into it is a row.
LEMMA MergeIsOrder ==
  ASSUME NEW o \in Order, NEW p \in Patch
  PROVE  Merge(o, p) \in Order
<1>1. /\ Or(p.status, o.status) \in OrderStatus \cup {"deleted"}
      /\ Or(p.steps, o.steps) \in 0..MaxSteps
      /\ Or(p.tests, o.tests) \in Tests
      /\ Or(p.handover, o.handover) \in Handover
      /\ Or(p.signoff, o.signoff) \in Signoffs
      /\ Or(p.approval, o.approval) \in Approval
      /\ Or(p.failure, o.failure) \in BOOLEAN
      /\ o.kind \in Kind
  BY DEF Or, Order, Patch
<1> QED
  BY <1>1 DEF Merge, Order

\* A request that fits the row can be accepted.
LEMMA AcceptKeepsAlone ==
  ASSUME TypeOK, AloneInv, NEW r \in Request, NEW state, Accept(r, state),
         FitRequest(order, settled, state)
  PROVE  AloneInv'
<1> SUFFICES ASSUME ~overlapped'
             PROVE  /\ \A a, q \in Request : (Busy(a) /\ Busy(q))' => a = q
                    /\ FitRow(order, settled)
                    /\ order.status # "deleted" => \A q \in Request : FitRequest(order, settled, req'[q])
  BY DEF AloneInv, Accept
<1>1. ~overlapped /\ \A q \in Request : req[q] = Idle
  BY DEF Accept
<1>2. req' = [req EXCEPT ![r] = state]
  BY DEF Accept
<1>3. \A q \in Request : q # r => req'[q] = Idle
  BY <1>1, <1>2 DEF TypeOK
<1>4. FitRequest(order, settled, Idle)
  BY Shapes DEF FitRequest, Idle, Completes
<1> QED
  BY <1>1, <1>2, <1>3, <1>4 DEF AloneInv, TypeOK, Busy

LEMMA AskKeepsAlone ==
  ASSUME TypeOK, AloneInv, NEW r \in Request, NEW p, Ask(r, p),
         ~overlapped' => FitPatch(order, settled, p)
  PROVE  AloneInv'
<1>1. CASE overlapped'
  BY <1>1 DEF AloneInv
<1>2. CASE ~overlapped'
  <2>1. FitRequest(order, settled, [pc |-> "patch", patch |-> p])
    BY <1>2, Shapes DEF FitRequest, Completes
  <2> QED
    BY <2>1, AcceptKeepsAlone DEF Ask
<1> QED
  BY <1>1, <1>2

\* A request that ends and leaves a fit row behind leaves nobody in flight.
LEMMA WriteKeepsAlone ==
  ASSUME TypeOK, AloneInv, NEW r \in Request, Busy(r), req' = [req EXCEPT ![r] = Idle],
         overlapped' = overlapped, ~overlapped => FitRow(order', settled')
  PROVE  AloneInv'
<1> SUFFICES ASSUME ~overlapped
             PROVE  /\ \A a, q \in Request : (Busy(a) /\ Busy(q))' => a = q
                    /\ FitRow(order', settled')
                    /\ \A q \in Request : FitRequest(order', settled', req'[q])
  BY DEF AloneInv
<1>1. \A q \in Request : req'[q] = Idle
  BY DEF AloneInv, TypeOK, Busy
<1>2. FitRequest(order', settled', Idle)
  BY Shapes DEF FitRequest, Idle, Completes
<1> QED
  BY <1>1, <1>2 DEF Busy

-----------------------------------------------------------------------------
\* Each of the callers of PatchWorkOrder builds keys that fit the row it read.
LEMMA KeepIsNoValue ==
  /\ Keep \notin OrderStatus /\ Keep \notin Tests /\ Keep \notin Handover
  /\ Keep \notin Signoffs /\ Keep \notin Approval /\ Keep \notin BOOLEAN
  /\ Keep \notin 0..MaxSteps
  BY WorkOrdersAssumption

LEMMA ChecklistFits ==
  ASSUME NEW o \in Order, NEW n, FitRow(o, n), ~Closed(o), NEW tests \in Tests, NEW h,
         h = IF o.kind = "commissioning" /\ \E p \in Accepting : o.handover[p] # Nobody
             THEN [p \in Party |-> IF p \in Accepting THEN Nobody ELSE o.handover[p]]
             ELSE Keep
  PROVE  FitPatch(o, n, [NoPatch EXCEPT !.tests = tests, !.handover = h])
<1> DEFINE p == [NoPatch EXCEPT !.tests = tests, !.handover = h]
           next == Merge(o, p)
<1>1. p.status = Keep /\ p.handover = h
  BY DEF NoPatch
<1> HIDE DEF p
<1>2. next.status = o.status /\ next.kind = o.kind /\ next.handover = Or(h, o.handover)
  BY <1>1, MergeFields DEF Or
<1> HIDE DEF next
<1>3. next.status # "completed"
  BY <1>2 DEF Closed
<1>4. ASSUME next.kind = "commissioning", NEW a \in Accepting, next.handover[a] # Nobody
      PROVE  FALSE
  <2>1. CASE \E q \in Accepting : o.handover[q] # Nobody
    <3>1. h = [q \in Party |-> IF q \in Accepting THEN Nobody ELSE o.handover[q]]
      BY <1>2, <1>4, <2>1
    <3>2. h \in Handover
      BY <3>1 DEF Handover, Order, Signature
    <3>3. h[a] = Nobody
      BY <3>1 DEF Accepting, Party
    <3> QED
      BY <1>2, <1>4, <3>2, <3>3, KeepIsNoValue DEF Or
  <2>2. CASE \A q \in Accepting : o.handover[q] = Nobody
    BY <1>2, <1>4, <2>2 DEF Or
  <2> QED
    BY <2>1, <2>2
<1> QED
  BY <1>3, <1>4 DEF FitPatch, FitRow, AcceptedAt, next, p

LEMMA SignoffFits ==
  ASSUME NEW o \in Order, NEW n, FitRow(o, n), NEW role \in {"technician", "supervisor"},
         NEW p \in Person, role = "technician" => ~Closed(o)
  PROVE  FitPatch(o, n, [NoPatch EXCEPT !.signoff = [o.signoff EXCEPT ![role] = p]])
<1> DEFINE s == [o.signoff EXCEPT ![role] = p]
           patch == [NoPatch EXCEPT !.signoff = s]
           next == Merge(o, patch)
<1>1. /\ patch.status = Keep /\ patch.steps = Keep /\ patch.tests = Keep
      /\ patch.handover = Keep /\ patch.approval = Keep /\ patch.failure = Keep
      /\ patch.signoff = s
  BY DEF NoPatch
<1>2. role = "supervisor" => s.technician = o.signoff.technician
  BY DEF Order, Signoffs
<1>3. s \in Signoffs
  BY DEF Order, Signoffs, Signature
<1>6. patch \in Patch
  BY <1>3 DEF NoPatch, Patch
<1> HIDE DEF s, patch
<1>4. /\ next.status = o.status /\ next.kind = o.kind /\ next.handover = o.handover
      /\ next.tests = o.tests /\ next.approval = o.approval /\ next.failure = o.failure
      /\ next.signoff = s
  BY <1>1, <1>3, MergeFields, KeepIsNoValue DEF Or
<1>7. next \in Order
  BY <1>6, MergeIsOrder
<1> HIDE DEF next
<1>5. SettledBy(o, next, n) = n
  BY <1>4 DEF SettledBy, Settles
<1>8. AcceptedAt(next, n)
  BY <1>4, <1>7, AlikeAt DEF FitRow
<1>9. ASSUME next.status = "completed" PROVE CheckCompletion(At(next, n))
  <2>1. CheckCompletion(At(o, n)) /\ role = "supervisor"
    BY <1>4, <1>9 DEF FitRow, Closed
  <2> QED
    BY <1>2, <1>4, <1>7, <2>1, AlikeAt
<1> QED
  BY <1>5, <1>8, <1>9 DEF FitPatch, FitRow, next, patch, s

LEMMA HandoverFits ==
  ASSUME NEW o \in Order, NEW n, FitRow(o, n), NEW party \in Party, NEW p \in Person,
         ~Closed(o), party \in Accepting => AllPassed(o)
  PROVE  FitPatch(o, n, [NoPatch EXCEPT !.handover = [o.handover EXCEPT ![party] = p]])
<1> DEFINE h == [o.handover EXCEPT ![party] = p]
           patch == [NoPatch EXCEPT !.handover = h]
           next == Merge(o, patch)
           k == SettledBy(o, next, n)
<1>1. /\ patch.status = Keep /\ patch.steps = Keep /\ patch.tests = Keep
      /\ patch.handover = h
  BY DEF NoPatch
<1>2. h \in Handover /\ \A q \in Party : q # party => h[q] = o.handover[q]
  BY DEF Order, Handover, Signature
<1>6. patch \in Patch
  BY <1>2 DEF NoPatch, Patch
<1> HIDE DEF h, patch
<1>3. /\ next.status = o.status /\ next.kind = o.kind /\ next.handover = h
      /\ next.tests = o.tests /\ next.steps = o.steps
  BY <1>1, <1>2, MergeFields, KeepIsNoValue DEF Or
<1>7. next \in Order
  BY <1>6, MergeIsOrder
<1> HIDE DEF next
<1>4. AcceptedAt(next, k)
  <2>1. CASE \E q \in Accepting : next.handover[q] # o.handover[q]
    <3>1. party \in Accepting
      BY <1>2, <1>3, <2>1 DEF Accepting, Party
    <3>2. k = o.steps
      BY <1>3, <2>1 DEF SettledBy, Settles
    <3>3. AllPassed(At(next, k))
      BY <1>3, <1>7, <3>1, <3>2, AtFields, AlikeAt
    <3> QED
      BY <3>3 DEF AcceptedAt
  <2>2. CASE \A q \in Accepting : next.handover[q] = o.handover[q]
    <3>1. k = n
      BY <1>3, <2>2 DEF SettledBy, Settles
    <3> QED
      BY <1>3, <1>7, <2>2, <3>1, AlikeAt DEF FitRow
  <2> QED
    BY <2>1, <2>2
<1>5. next.status # "completed"
  BY <1>3 DEF Closed
<1> QED
  BY <1>4, <1>5 DEF FitPatch, FitRow, next, patch, h

\* A decision is taken on an order that waits for one, and that cannot be a
\* completed one.
LEMMA DecisionFits ==
  ASSUME NEW o \in Order, NEW n, FitRow(o, n), NEW approve \in BOOLEAN, NEW a \in Approval,
         o.approval.state = "pending"
  PROVE  FitPatch(o, n, [NoPatch EXCEPT !.approval = a,
                                        !.status = IF approve THEN Keep ELSE "cancelled"])
<1> DEFINE patch == [NoPatch EXCEPT !.approval = a,
                                    !.status = IF approve THEN Keep ELSE "cancelled"]
           next == Merge(o, patch)
<1>1. /\ patch.status \in {Keep, "cancelled"}
      /\ patch.tests = Keep /\ patch.handover = Keep
      /\ patch \in Patch
  BY DEF NoPatch, Patch, OrderStatus
<1> HIDE DEF patch
<1>2. /\ next.status \in {o.status, "cancelled"}
      /\ next.kind = o.kind /\ next.handover = o.handover /\ next.tests = o.tests
      /\ next \in Order
  BY <1>1, MergeFields, MergeIsOrder DEF Or
<1> HIDE DEF next
<1>3. o.status # "completed"
  BY AtFields DEF FitRow, CheckCompletion, CheckStart
<1>4. SettledBy(o, next, n) = n
  BY <1>2, <1>3 DEF SettledBy, Settles
<1> QED
  BY <1>2, <1>3, <1>4, AlikeAt DEF FitPatch, FitRow, next, patch

\* A status, with a checklist or without, meets its gate as it is listed.
LEMMA StatusFits ==
  ASSUME NEW o \in Order, NEW n, FitRow(o, n), NEW status \in OrderStatus \cup {Keep},
         NEW steps \in 0..MaxSteps \cup {Keep}
  PROVE  FitPatch(o, n, [NoPatch EXCEPT !.status = status, !.steps = steps])
<1> DEFINE patch == [NoPatch EXCEPT !.status = status, !.steps = steps]
           next == Merge(o, patch)
           k == SettledBy(o, next, n)
<1>1. /\ patch.tests = Keep /\ patch.handover = Keep /\ patch.signoff = Keep
      /\ patch.approval = Keep /\ patch.failure = Keep
      /\ patch \in Patch
  BY DEF NoPatch, Patch
<1> HIDE DEF patch
<1>2. /\ next.kind = o.kind /\ next.handover = o.handover /\ next.tests = o.tests
      /\ next.approval = o.approval /\ next.failure = o.failure /\ next.signoff = o.signoff
      /\ next \in Order
  BY <1>1, MergeFields, MergeIsOrder DEF Or
<1> SUFFICES ASSUME Gate(o, next) PROVE FitRow(next, k)
  BY DEF FitPatch, next, patch
<1> HIDE DEF next
<1>3. CASE next.status = "completed" /\ o.status # "completed"
  <2>1. CheckCompletion(next) /\ k = next.steps
    BY <1>3 DEF Gate, SettledBy, Settles
  <2> QED
    BY <1>2, <2>1, CheckedIsFit
<1>4. CASE ~(next.status = "completed" /\ o.status # "completed")
  <2>1. k = n
    BY <1>2, <1>4 DEF SettledBy, Settles
  <2>2. AcceptedAt(next, n)
    BY <1>2, AlikeAt DEF FitRow
  <2>3. next.status = "completed" => CheckCompletion(At(next, n))
    BY <1>2, <1>4, AlikeAt DEF FitRow
  <2> QED
    BY <2>1, <2>2, <2>3 DEF FitRow
<1> QED
  BY <1>3, <1>4

LEMMA FailureFits ==
  ASSUME NEW o \in Order, NEW n, FitRow(o, n)
  PROVE  LET next == Merge(o, [NoPatch EXCEPT !.failure = TRUE])
         IN  FitRow(next, SettledBy(o, next, n))
<1> DEFINE patch == [NoPatch EXCEPT !.failure = TRUE]
           next == Merge(o, patch)
<1>1. /\ patch.status = Keep /\ patch.tests = Keep /\ patch.handover = Keep
      /\ patch.signoff = Keep /\ patch.approval = Keep /\ patch.failure = TRUE
      /\ patch \in Patch
  BY DEF NoPatch, Patch
<1> HIDE DEF patch
<1>2. /\ next.status = o.status /\ next.kind = o.kind /\ next.handover = o.handover
      /\ next.tests = o.tests /\ next.approval = o.approval /\ next.signoff = o.signoff
      /\ next \in Order
  BY <1>1, MergeFields, MergeIsOrder DEF Or
<1>3. next.failure
  <2>1. Keep # TRUE
    BY KeepIsNoValue
  <2>2. Or(TRUE, o.failure) = TRUE
    BY <2>1, Zenon DEF Or
  <2>3. next.failure = Or(patch.failure, o.failure)
    BY MergeFields
  <2> QED
    BY <1>1, <2>2, <2>3, Zenon
<1> HIDE DEF next
<1>4. SettledBy(o, next, n) = n
  BY <1>2 DEF SettledBy, Settles
<1>5. AcceptedAt(next, n)
  BY <1>2, AlikeAt DEF FitRow
<1>6. next.status = "completed" => CheckCompletion(At(next, n))
  <2>1. next.failure <=> TRUE
    BY <1>3
  <2> QED
    BY <1>2, <2>1, AlikeAt DEF FitRow
<1>7. FitRow(next, SettledBy(o, next, n))
  BY <1>4, <1>5, <1>6 DEF FitRow
<1> QED
  BY <1>7 DEF next, patch

-----------------------------------------------------------------------------
LEMMA InitIsAlone == Init => AloneInv
<1> SUFFICES ASSUME Init PROVE AloneInv
  OBVIOUS
<1>1. /\ order.status = "open" /\ order.handover = [p \in Party |-> Nobody]
      /\ \A r \in Request : req[r] = Idle
  BY DEF Init
<1>2. FitRow(order, settled)
  BY <1>1 DEF FitRow, AcceptedAt, Accepting, Party
<1>3. FitRequest(order, settled, Idle)
  BY Shapes DEF FitRequest, Idle, Completes
<1> QED
  BY <1>1, <1>2, <1>3 DEF AloneInv, Busy

LEMMA StepKeepsAlone ==
  ASSUME TypeOK, AloneInv, [Next]_vars
  PROVE  AloneInv'
<1>0. order \in Order
  BY DEF TypeOK
<1>f. ASSUME NEW r \in Request, NEW p, Ask(r, p), FitRow(order, settled) => FitPatch(order, settled, p)
      PROVE  AloneInv'
  <2>1. ~overlapped' => FitRow(order, settled)
    BY <1>f DEF Ask, Accept, AloneInv
  <2> QED
    BY <1>f, <2>1, AskKeepsAlone
<1>1. ASSUME NEW r \in Request, NEW t \in Test, NEW result \in {"pass", "fail"},
             RecordChecklist(r, t, result)
      PROVE  AloneInv'
  <2> DEFINE tests == Marked(order, t, result)
             h == IF order.kind = "commissioning" /\ \E p \in Accepting : order.handover[p] # Nobody
                  THEN [p \in Party |-> IF p \in Accepting THEN Nobody ELSE order.handover[p]]
                  ELSE Keep
             patch == [NoPatch EXCEPT !.tests = tests, !.handover = h]
  <2>1. tests \in Tests
    BY <1>0 DEF Order, Tests, Result, Marked
  <2>2. ~Closed(order) /\ Ask(r, patch)
    BY <1>1 DEF RecordChecklist
  <2>3. FitRow(order, settled) => FitPatch(order, settled, patch)
    BY <1>0, <2>1, <2>2, ChecklistFits
  <2> HIDE DEF patch
  <2> QED
    BY <1>f, <2>2, <2>3
<1>2. ASSUME NEW r \in Request, NEW role \in {"technician", "supervisor"}, NEW p \in Person,
             Signoff(r, role, p)
      PROVE  AloneInv'
  <2> DEFINE patch == [NoPatch EXCEPT !.signoff = [order.signoff EXCEPT ![role] = p]]
  <2>1. Ask(r, patch) /\ (role = "technician" => ~Closed(order))
    BY <1>2 DEF Signoff
  <2>2. FitRow(order, settled) => FitPatch(order, settled, patch)
    BY <1>0, <2>1, SignoffFits
  <2> HIDE DEF patch
  <2> QED
    BY <1>f, <2>1, <2>2
<1>3. ASSUME NEW r \in Request, NEW party \in Party, NEW p \in Person, SignHandover(r, party, p)
      PROVE  AloneInv'
  <2> DEFINE patch == [NoPatch EXCEPT !.handover = [order.handover EXCEPT ![party] = p]]
  <2>1. Ask(r, patch) /\ ~Closed(order) /\ (party \in Accepting => AllPassed(order))
    BY <1>3 DEF SignHandover
  <2>2. FitRow(order, settled) => FitPatch(order, settled, patch)
    BY <1>0, <2>1, HandoverFits
  <2> HIDE DEF patch
  <2> QED
    BY <1>f, <2>1, <2>2
<1>4. ASSUME NEW r \in Request, NEW approve \in BOOLEAN, NEW p \in Person,
             DecideApproval(r, approve, p)
      PROVE  AloneInv'
  <2> DEFINE a == [order.approval EXCEPT !.state = IF approve THEN "approved" ELSE "rejected",
                                         !.decider = p]
             patch == [NoPatch EXCEPT !.approval = a,
                                      !.status = IF approve THEN Keep ELSE "cancelled"]
  <2>1. Ask(r, patch) /\ order.approval.state = "pending"
    BY <1>4 DEF DecideApproval
  <2>3. a \in Approval
    BY <1>0 DEF Order, Approval, ApprovalState, Signature
  <2>2. FitRow(order, settled) => FitPatch(order, settled, patch)
    <3> HIDE DEF a
    <3> QED
      BY <1>0, <2>1, <2>3, DecisionFits
  <2> HIDE DEF patch
  <2> QED
    BY <1>f, <2>1, <2>2
<1>5. ASSUME NEW r \in Request, NEW status \in Target \cup {Keep},
             NEW steps \in 0..MaxSteps \cup {Keep}, PatchWorkOrder(r, status, steps)
      PROVE  AloneInv'
  <2> DEFINE next == Merge(order, [NoPatch EXCEPT !.status = status, !.steps = steps])
             k == SettledBy(order, next, settled)
             w == [pc |-> "write", next |-> next]
  <2>1. Gate(order, next) /\ Accept(r, w)
    BY <1>5 DEF PatchWorkOrder
  <2>2. FitRow(order, settled) => FitRow(next, k)
    BY <1>0, <2>1, StatusFits, WorkOrdersAssumption DEF FitPatch
  <2> HIDE DEF next
  <2>3. FitRow(next, k) => FitRequest(order, settled, w)
    BY Shapes DEF FitRequest, Completes
  <2> HIDE DEF w
  <2>4. CASE overlapped'
    BY <2>4 DEF AloneInv
  <2>5. CASE ~overlapped'
    BY <2>1, <2>2, <2>3, <2>5, AcceptKeepsAlone DEF Accept, AloneInv
  <2> QED
    BY <2>4, <2>5
<1>6. ASSUME NEW r \in Request, SetFailure(r)
      PROVE  AloneInv'
  <2> DEFINE next == Merge(order, [NoPatch EXCEPT !.failure = TRUE])
             k == SettledBy(order, next, settled)
             w == [pc |-> "write", next |-> next]
  <2>1. Accept(r, w)
    BY <1>6 DEF SetFailure
  <2>2. FitRow(order, settled) => FitRow(next, k)
    BY <1>0, FailureFits
  <2> HIDE DEF next
  <2>3. FitRow(next, k) => FitRequest(order, settled, w)
    BY Shapes DEF FitRequest, Completes
  <2> HIDE DEF w
  <2>4. CASE overlapped'
    BY <2>4 DEF AloneInv
  <2>5. CASE ~overlapped'
    BY <2>1, <2>2, <2>3, <2>5, AcceptKeepsAlone DEF Accept, AloneInv
  <2> QED
    BY <2>4, <2>5
<1>7. ASSUME NEW r \in Request, ReadOrder(r)
      PROVE  AloneInv'
  <2> DEFINE next == Merge(order, req[r].patch)
             w == [pc |-> "write", next |-> next]
  <2>1. /\ req[r] \in Patches /\ order.status # "deleted" /\ Gate(order, next)
        /\ req' = [req EXCEPT ![r] = w]
        /\ UNCHANGED <<order, begun, overlapped, settled>>
    BY <1>7 DEF ReadOrder
  <2> SUFFICES ASSUME ~overlapped
               PROVE  /\ \A a, q \in Request : (Busy(a) /\ Busy(q))' => a = q
                      /\ \A q \in Request : FitRequest(order, settled, req'[q])
    BY <2>1 DEF AloneInv
  <2>2. Busy(r) /\ \A q \in Request : q # r => ~Busy(q)
    BY <2>1, Shapes DEF AloneInv, Busy
  <2>3. FitRow(next, SettledBy(order, next, settled))
    BY <2>1 DEF AloneInv, FitRequest, FitPatch
  <2> HIDE DEF next
  <2>4. FitRequest(order, settled, w) /\ FitRequest(order, settled, Idle)
    BY <2>3, Shapes DEF FitRequest, Idle, Completes
  <2> HIDE DEF w
  <2>5. req'[r] = w /\ \A q \in Request : q # r => req'[q] = Idle
    BY <2>1, <2>2 DEF TypeOK, Busy
  <2> QED
    BY <2>4, <2>5 DEF Busy
<1>8. ASSUME NEW r \in Request, WriteOrder(r)
      PROVE  AloneInv'
  <2>1. Busy(r)
    BY <1>8, Shapes DEF WriteOrder, Busy
  <2>2. ~overlapped => FitRow(order', settled')
    BY <1>8 DEF WriteOrder, AloneInv, FitRequest, SettledBy
  <2> QED
    BY <1>8, <2>1, <2>2, WriteKeepsAlone DEF WriteOrder
<1>9. ASSUME NEW r \in Request, CompleteWrite(r)
      PROVE  AloneInv'
  <2>1. Busy(r)
    BY <1>9 DEF CompleteWrite, Busy, Idle, Completes
  <2>2. order.status # "deleted" =>
           /\ order' \in Order /\ settled' = order.steps /\ order'.steps = order.steps
           /\ order'.kind = order.kind /\ order'.tests = order.tests
           /\ order'.handover = order.handover /\ order'.signoff = order.signoff
           /\ order'.approval = order.approval /\ order'.failure = order.failure
    BY <1>0, <1>9 DEF CompleteWrite, Order, OrderStatus
  <2>3. ASSUME ~overlapped PROVE FitRow(order', settled')
    <3>1. CASE order.status = "deleted"
      BY <1>9, <2>3, <3>1 DEF AloneInv, CompleteWrite
    <3>2. CASE order.status # "deleted"
      <4>1. CheckCompletion(order)
        BY <1>9, <2>3, <3>2 DEF AloneInv, CompleteWrite, FitRequest
      <4>2. CheckCompletion(order')
        BY <2>2, <3>2, <4>1 DEF CheckCompletion, CheckStart, AllPassed, AllMarked, Listed
      <4> QED
        BY <2>2, <3>2, <4>2, CheckedIsFit
    <3> QED
      BY <3>1, <3>2
  <2> QED
    BY <1>9, <2>1, <2>3, WriteKeepsAlone DEF CompleteWrite
<1>10. ASSUME NEW r \in Request, CompleteRead(r)
       PROVE  AloneInv'
  <2>1. FitRequest(order, settled, Completes)
    BY <1>10, Shapes DEF CompleteRead, FitRequest
  <2> QED
    BY <1>10, <2>1, AcceptKeepsAlone DEF CompleteRead
<1>11. ASSUME NEW r \in Request, Abandon(r)
       PROVE  AloneInv'
  <2>1. ~overlapped => FitRow(order, settled)
    BY DEF AloneInv
  <2> QED
    BY <1>11, <2>1, WriteKeepsAlone DEF Abandon, Busy
<1>12. CASE DeleteWorkOrder
  <2>1. /\ order'.status = "deleted" /\ order'.kind = order.kind
        /\ order'.tests = order.tests /\ order'.handover = order.handover
    BY <1>0, <1>12 DEF DeleteWorkOrder, Order
  <2>3. order' \in Order /\ settled' = settled
    BY <1>0, <1>12 DEF DeleteWorkOrder, Order
  <2>2. FitRow(order, settled) => FitRow(order', settled')
    BY <1>0, <2>1, <2>3, AlikeAt DEF FitRow
  <2> QED
    BY <1>12, <2>1, <2>2, <2>3 DEF DeleteWorkOrder, AloneInv, Busy
<1>13. CASE UNCHANGED vars
  BY <1>13 DEF vars, AloneInv, Busy
<1> QED
  BY <1>1, <1>2, <1>3, <1>4, <1>5, <1>6, <1>7, <1>8, <1>9, <1>10, <1>11, <1>12, <1>13 DEF Next

-----------------------------------------------------------------------------
\* As long as requests came one after the other, however many they were: nobody
\* has accepted a machine whose tests did not pass, and a completed order has
\* what completion asked for, whatever was done to it afterwards.  Both speak of
\* the steps that were on the checklist then; a PATCH may list others since.
THEOREM OneAtATimeStaysChecked == Spec => [](AcceptedHasPassed /\ CompletedStaysChecked)
<1>1. Spec => [](Inv /\ AloneInv)
  <2>1. Init => Inv /\ AloneInv
    BY InitIsGood, InitIsAlone
  <2>2. Inv /\ AloneInv /\ [Next]_vars => (Inv /\ AloneInv)'
    BY StepKeepsGood, StepKeepsAlone DEF Inv
  <2> QED
    BY <2>1, <2>2, PTL DEF Spec
<1>2. Inv /\ AloneInv => AcceptedHasPassed /\ CompletedStaysChecked
  BY DEF AloneInv, FitRow, AcceptedAt, At, AsSettled, AcceptedHasPassed, CompletedStaysChecked,
         CompletedIsChecked
<1> QED
  BY <1>1, <1>2, PTL
=============================================================================
