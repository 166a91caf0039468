------------------------------- MODULE Outbox -------------------------------
(***************************************************************************)
(* The transactional outbox (internal/outbox, internal/events/bus.go): a   *)
(* change of the database leaves a row in mes_event_outbox, and the relay  *)
(* of every running server claims due rows, sends them to Kafka and marks  *)
(* them.  Each call to the database or to Kafka is a step of its own, so   *)
(* other relays, crashes and the clock come between any two.               *)
(*                                                                         *)
(* An event is the id of its row.  Ids are given at the INSERT and rows    *)
(* become visible at the COMMIT, in any order.  Time is what is left until *)
(* available_at, in units of one second of the code's.                     *)
(***************************************************************************)
EXTENDS Integers, FiniteSets

CONSTANTS
    Inside,      \* events written by PublishTx, in the change's transaction
    After,       \* events written by Publish once the change is committed;
                 \* an event may be in both, and is then written either way
    Poison,      \* events Kafka never takes: no writer for the topic, too large
    Relay,       \* the server processes
    Limit,       \* rows in a batch (32)
    Lease,       \* what a claim adds to available_at (a second)
    MaxBackoff,  \* the longest retry delay (five minutes)
    Second,      \* ticks in a second of a time.Duration (10^9)
    Width        \* bits in a time.Duration (64)

Event == Inside \cup After

ASSUME EventAssumption == Event \subseteq Nat
ASSUME DelayAssumption ==
    /\ Limit \in Nat \ {0} /\ Width \in Nat \ {0} /\ Second \in Nat \ {0}
    /\ MaxBackoff \in Nat /\ Lease \in 1 .. MaxBackoff

VARIABLES
    change,      \* the change an event is about
    stored,      \* the rows there are
    dispatched,  \* those with a dispatched_at
    attempts,    \* their attempts
    wait,        \* the time left until their available_at
    relay,       \* what each server process holds
    topic,       \* the events Kafka holds a copy of
    network      \* "good": Kafka and the database do what they are asked, and
                 \* say so; "bad": any call may fail, or only its answer

vars == <<change, stored, dispatched, attempts, wait, relay, topic, network>>
tableVars == <<stored, dispatched, attempts, wait>>

(* `batch` is the claimed rows still to send, each with the attempts it was *)
(* claimed with; `answer` is Kafka's answer that is still to be recorded.   *)
Quiet == [of |-> {}, ok |-> FALSE]
Idle  == [up |-> TRUE, batch |-> <<>>, answer |-> Quiet]
Down  == [up |-> FALSE, batch |-> <<>>, answer |-> Quiet]

(* attempts only serve to compute the delay, and from 2^Width on that is 0  *)
(* whatever they are: counting stops at Width.                              *)
Attempt == 0 .. Width

Batches == UNION {[S -> Attempt] : S \in SUBSET Event}
Answers == [of : {{e} : e \in Event} \cup {{}}, ok : BOOLEAN]

OutboxTypeOK ==
    /\ change \in [Event -> {"none", "open", "committed"}]
    /\ stored \subseteq Event
    /\ dispatched \subseteq Event
    /\ attempts \in [Event -> Attempt]
    /\ wait \in [Event -> 0 .. MaxBackoff]
    /\ relay \in [Relay -> [up : BOOLEAN, batch : Batches, answer : Answers]]
    /\ topic \subseteq Event
    /\ network \in {"good", "bad"}

Init ==
    /\ change = [e \in Event |-> "none"]
    /\ stored = {} /\ dispatched = {} /\ topic = {}
    /\ attempts = [e \in Event |-> 0]
    /\ wait = [e \in Event |-> 0]
    /\ relay = [p \in Relay |-> Idle]
    /\ network = "good"

-----------------------------------------------------------------------------
(* The writers.                                                            *)

ChangeTo(e, old, new) ==
    /\ change[e] = old
    /\ change' = [change EXCEPT ![e] = new]

(* The INSERT: the row is due at once. *)
Insert(e) ==
    /\ stored' = stored \cup {e}
    /\ UNCHANGED <<dispatched, attempts, wait>>

NoInsert == UNCHANGED tableVars

(* PublishTx: the change and its row are committed together or not at all. *)
PublishTx(e) ==
    /\ e \in Inside
    /\ ChangeTo(e, "none", "committed")
    /\ Insert(e)
    /\ UNCHANGED <<relay, topic, network>>

(* A change, committed, and its Publish: publishAsset, the notices.  An    *)
(* error of Enqueue is only logged, and the process may end between the    *)
(* two, so the second step may never come.                                 *)
PublishAfter(e) ==
    /\ e \in After
    /\ \/ ChangeTo(e, "none", "committed") /\ NoInsert
       \/ /\ change[e] = "committed" /\ e \notin stored
          /\ Insert(e)
          /\ UNCHANGED change
    /\ UNCHANGED <<relay, topic, network>>

-----------------------------------------------------------------------------
(* The relay.                                                              *)

Due == {e \in stored \ dispatched : wait[e] = 0}

(* The first Limit due rows, by id.  SKIP LOCKED leaves out the rows a     *)
(* claim at the same moment is taking: those are no longer due.            *)
Claimed == {e \in Due : Cardinality({d \in Due : d < e}) < Limit}

Count(n) == IF n = Width THEN n ELSE n + 1

(* A slip: the rows are taken out of the table when they are claimed. *)
ClaimSettles(p) ==
    /\ relay[p] = Idle
    /\ Claimed # {}
    /\ dispatched' = dispatched \cup Claimed
    /\ relay' = [relay EXCEPT ![p].batch = [e \in Claimed |-> Count(attempts[e])]]
    /\ UNCHANGED <<change, stored, attempts, wait, topic, network>>

ClaimBatch(p) ==
    /\ relay[p] = Idle
    /\ Claimed # {}
    /\ attempts' = [e \in Event |-> IF e \in Claimed THEN Count(attempts[e]) ELSE attempts[e]]
    /\ wait' = [e \in Event |-> IF e \in Claimed THEN Lease ELSE wait[e]]
    /\ relay' = [relay EXCEPT ![p].batch = [e \in Claimed |-> Count(attempts[e])]]
    /\ UNCHANGED <<change, stored, dispatched, topic, network>>

Has(p, e) ==
    /\ relay[p].up
    /\ e \in DOMAIN relay[p].batch
    /\ relay[p].answer.of = {}

Answered(p, e, ok) == relay' = [relay EXCEPT ![p].answer = [of |-> {e}, ok |-> ok]]

(* DispatchOutbox: the row is sent, and Kafka's answer arrives or not.  The *)
(* rows of a batch come back from the UPDATE in no particular order.        *)
DispatchOutbox(p, e) ==
    /\ Has(p, e)
    /\ \/ /\ e \notin Poison
          /\ topic' = topic \cup {e}
          /\ \E ok \in BOOLEAN : (ok \/ network = "bad") /\ Answered(p, e, ok)
       \/ /\ network = "bad" \/ e \in Poison
          /\ Answered(p, e, FALSE)
          /\ UNCHANGED topic
    /\ UNCHANGED <<change, stored, dispatched, attempts, wait, network>>

(* backoffFor, in the signed ticks it is computed in: the test against the *)
(* maximum comes after the product has overflowed, first to one sign, then *)
(* to the other, and to 0 in the end.  An available_at in the past is due.  *)
Signed(n) == LET m == n % 2^Width
             IN  IF m < 2^(Width - 1) THEN m ELSE m - 2^Width

(* A slip: the delay is not held to the maximum. *)
BackoffUncapped(n) == 2^n

BackoffFor(n) ==
    LET d == Signed(2^n * Second) \div Second
    IN  IF d > MaxBackoff THEN MaxBackoff ELSE IF d \in 0 .. MaxBackoff THEN d ELSE 0

Recorded(p, e) ==
    relay' = [relay EXCEPT ![p].answer = Quiet,
                           ![p].batch = [d \in DOMAIN @ \ {e} |-> @[d]]]

Answer(p, e, ok) ==
    /\ relay[p].up
    /\ e \in DOMAIN relay[p].batch
    /\ relay[p].answer = [of |-> {e}, ok |-> ok]

MarkDispatched(p, e) ==
    /\ Answer(p, e, TRUE)
    /\ dispatched' = dispatched \cup {e}
    /\ Recorded(p, e)
    /\ UNCHANGED <<change, stored, attempts, wait, topic, network>>

(* A slip: an answer that did not arrive is taken for a good one. *)
MarkAnyway(p, e) ==
    /\ Answer(p, e, FALSE)
    /\ dispatched' = dispatched \cup {e}
    /\ Recorded(p, e)
    /\ UNCHANGED <<change, stored, attempts, wait, topic, network>>

MarkFailed(p, e) ==
    /\ Answer(p, e, FALSE)
    /\ wait' = [wait EXCEPT ![e] = BackoffFor(relay[p].batch[e])]
    /\ Recorded(p, e)
    /\ UNCHANGED <<change, stored, dispatched, attempts, topic, network>>

(* drainOnce ignores the error of either mark and goes on to the next row. *)
MarkLost(p, e) ==
    /\ network = "bad"
    /\ \E ok \in BOOLEAN : Answer(p, e, ok)
    /\ Recorded(p, e)
    /\ UNCHANGED <<change, tableVars, topic, network>>

-----------------------------------------------------------------------------
(* The world.                                                              *)

(* A server process ends, at any point of its batch; another takes its place. *)
Stop(p) ==
    /\ relay[p].up
    /\ relay' = [relay EXCEPT ![p] = Down]
    /\ UNCHANGED <<change, tableVars, topic, network>>

Run(p) ==
    /\ ~relay[p].up
    /\ relay' = [relay EXCEPT ![p] = Idle]
    /\ UNCHANGED <<change, tableVars, topic, network>>

Outage ==
    /\ network' \in {"good", "bad"} \ {network}
    /\ UNCHANGED <<change, tableVars, relay, topic>>

Tick ==
    /\ \E e \in Event : wait[e] > 0
    /\ wait' = [e \in Event |-> IF wait[e] > 0 THEN wait[e] - 1 ELSE 0]
    /\ UNCHANGED <<change, stored, dispatched, attempts, relay, topic, network>>

Relaying(p) ==
    \/ ClaimBatch(p)
    \/ \E e \in Event : \/ DispatchOutbox(p, e)
                        \/ MarkDispatched(p, e)
                        \/ MarkFailed(p, e)
                        \/ MarkLost(p, e)
    \/ Stop(p)
    \/ Run(p)

Next ==
    \/ \E e \in Event : PublishTx(e) \/ PublishAfter(e)
    \/ \E p \in Relay : Relaying(p)
    \/ Outage
    \/ Tick

(* The loop of Run goes on while its process lives: it claims when it wakes, *)
(* sends what it claimed and records every answer.  Time passes.             *)
Fairness ==
    /\ \A p \in Relay :
         /\ WF_vars(ClaimBatch(p))
         /\ WF_vars(\E e \in Event : DispatchOutbox(p, e))
         /\ WF_vars(\E e \in Event : MarkDispatched(p, e) \/ MarkFailed(p, e) \/ MarkLost(p, e))
    /\ WF_vars(Tick)

Spec == Init /\ [][Next]_vars /\ Fairness

-----------------------------------------------------------------------------
(* What is promised.                                                       *)

Promised == INSTANCE Delivery WITH
    committed <- {e \in Event : change[e] = "committed"},
    told      <- topic,
    settled   <- dispatched

(* The outbox implements Delivery: no listener hears of a change that was  *)
(* not committed, and a row is marked as sent only if Kafka has it, with   *)
(* several relays, crashes between any two calls, answers that get lost    *)
(* and leases that run out while the row is being sent (drainOnce).        *)
NothingInvented == Promised!Promise

(* Kafka and the database answer and the servers are up. *)
Calm == network = "good" /\ \A p \in Relay : relay[p].up

(* Every row Kafka can take is told in the end, once the world is calm for  *)
(* good, however many attempts failed before, wherever the processes that   *)
(* held the row ended and whatever the rows that can never be sent do (the  *)
(* lease of ClaimBatch, the delays of backoffFor, the order of the batch).  *)
RowsAreTold ==
    <>[]Calm => \A e \in Event \ Poison : (e \in stored) ~> (e \in topic)
=============================================================================
