---------------------------- MODULE OutboxProofs ----------------------------
(* What is proved of Outbox, for every set of events and relays and every  *)
(* batch size, lease and delay.                                            *)
EXTENDS Outbox, TLAPS

(* The inductive invariant.  The last two conjuncts are what the outbox     *)
(* rests on: a relay only holds rows that are in the table, and holds a     *)
(* good answer only for an event Kafka has, whoever marked the row since.   *)
Grounded ==
    /\ dispatched \subseteq topic
    /\ topic \subseteq stored
    /\ \A e \in stored : change[e] = "committed"
    /\ \A p \in Relay : DOMAIN relay[p].batch \subseteq stored
    /\ \A p \in Relay : \A e \in Event :
         relay[p].answer = [of |-> {e}, ok |-> TRUE] => e \in topic

OutboxInv == OutboxTypeOK /\ Grounded

(* A retry delay never passes the maximum, whatever the product overflows to. *)
LEMMA DelayIsBounded == \A n : BackoffFor(n) \in 0 .. MaxBackoff
  BY DelayAssumption DEF BackoffFor

(* A batch is typed by its rows and their attempts. *)
LEMMA BatchType ==
    ASSUME NEW b
    PROVE  b \in Batches <=> /\ DOMAIN b \subseteq Event
                             /\ b \in [DOMAIN b -> Attempt]
<1>1. ASSUME b \in Batches
      PROVE  DOMAIN b \subseteq Event /\ b \in [DOMAIN b -> Attempt]
  BY <1>1 DEF Batches
<1>2. ASSUME DOMAIN b \subseteq Event, b \in [DOMAIN b -> Attempt]
      PROVE  b \in Batches
  BY <1>2 DEF Batches
<1>3. QED BY <1>1, <1>2

(* Recording an answer drops one row of the batch. *)
LEMMA RecordedShrinks ==
    ASSUME OutboxInv, NEW p \in Relay, NEW e \in Event, Recorded(p, e)
    PROVE  /\ relay' \in [Relay -> [up : BOOLEAN, batch : Batches, answer : Answers]]
           /\ \A q \in Relay : DOMAIN relay'[q].batch \subseteq DOMAIN relay[q].batch
           /\ \A q \in Relay : \/ relay'[q].answer = relay[q].answer
                               \/ relay'[q].answer = Quiet
<1> DEFINE b == relay[p].batch
           c == [d \in DOMAIN b \ {e} |-> b[d]]
<1>1. relay[p] \in [up : BOOLEAN, batch : Batches, answer : Answers]
  BY DEF OutboxInv, OutboxTypeOK
<1>2. c \in Batches /\ DOMAIN c \subseteq DOMAIN b
  <2>1. b \in Batches
    BY <1>1
  <2>2. DOMAIN b \subseteq Event /\ b \in [DOMAIN b -> Attempt]
    BY <2>1, BatchType
  <2>3. c \in [DOMAIN b \ {e} -> Attempt]
    BY <2>2
  <2>4. DOMAIN c = DOMAIN b \ {e}
    OBVIOUS
  <2>5. QED BY <2>2, <2>3, <2>4, BatchType
<1>3. Quiet \in Answers
  BY DEF Quiet, Answers
<1>4. relay' = [relay EXCEPT ![p] = [relay[p] EXCEPT !.answer = Quiet, !.batch = c]]
  BY DEF Recorded, OutboxInv, OutboxTypeOK
<1> HIDE DEF b, c
<1>5. relay'[p] = [relay[p] EXCEPT !.answer = Quiet, !.batch = c]
  BY <1>4 DEF OutboxInv, OutboxTypeOK
<1>6. \A q \in Relay : q # p => relay'[q] = relay[q]
  BY <1>4 DEF OutboxInv, OutboxTypeOK
<1>7. relay'[p] \in [up : BOOLEAN, batch : Batches, answer : Answers]
  BY <1>1, <1>2, <1>3, <1>5
<1>8. QED
  BY <1>1, <1>2, <1>4, <1>5, <1>6, <1>7 DEF b, OutboxInv, OutboxTypeOK

LEMMA InitIsGrounded == Init => OutboxInv
<1>1. <<>> \in Batches
  <2>1. <<>> \in [{} -> Attempt] /\ DOMAIN <<>> = {}
    OBVIOUS
  <2>2. QED BY <2>1, BatchType
<1>2. SUFFICES ASSUME Init PROVE OutboxInv
  OBVIOUS
<1>3. OutboxTypeOK
  BY <1>1, <1>2, DelayAssumption
     DEF Init, OutboxTypeOK, Idle, Quiet, Answers, Attempt
<1>4. Grounded
  BY <1>2 DEF Init, Grounded, Idle, Quiet
<1>5. QED BY <1>3, <1>4 DEF OutboxInv

(* Every step keeps the invariant: one step of the proof for each action. *)
LEMMA StepKeepsGrounded == OutboxInv /\ [Next]_vars => OutboxInv'
<1> SUFFICES ASSUME OutboxInv, [Next]_vars PROVE OutboxInv'
  OBVIOUS
<1> USE DEF OutboxInv
<1>0. ASSUME UNCHANGED vars PROVE OutboxInv'
  BY <1>0 DEF vars, OutboxTypeOK, Grounded
<1>1. ASSUME NEW e \in Event, PublishTx(e) PROVE OutboxInv'
  BY <1>1 DEF PublishTx, ChangeTo, Insert, OutboxTypeOK, Grounded
<1>2. ASSUME NEW e \in Event, PublishAfter(e) PROVE OutboxInv'
  BY <1>2 DEF PublishAfter, ChangeTo, Insert, NoInsert, tableVars, OutboxTypeOK, Grounded
<1>3. ASSUME NEW p \in Relay, ClaimBatch(p) PROVE OutboxInv'
  <2> DEFINE b == [e \in Claimed |-> Count(attempts[e])]
  <2>1. Claimed \subseteq stored
    BY DEF Claimed, Due
  <2>2. \A e \in Event : Count(attempts[e]) \in Attempt
    BY DelayAssumption DEF Count, Attempt, OutboxTypeOK
  <2>3. b \in Batches /\ DOMAIN b = Claimed
    <3>1. b \in [Claimed -> Attempt] /\ DOMAIN b = Claimed
      BY <2>1, <2>2 DEF OutboxTypeOK
    <3>2. Claimed \subseteq Event
      BY <2>1 DEF OutboxTypeOK
    <3>3. QED BY <3>1, <3>2, BatchType
  <2>4. relay' = [relay EXCEPT ![p].batch = b]
    BY <1>3 DEF ClaimBatch
  <2> HIDE DEF b
  <2>5. relay' \in [Relay -> [up : BOOLEAN, batch : Batches, answer : Answers]]
    BY <2>3, <2>4 DEF OutboxTypeOK
  <2>6. attempts' \in [Event -> Attempt] /\ wait' \in [Event -> 0 .. MaxBackoff]
    BY <1>3, <2>2, DelayAssumption DEF ClaimBatch, OutboxTypeOK
  <2>7. OutboxTypeOK'
    BY <1>3, <2>5, <2>6 DEF ClaimBatch, OutboxTypeOK
  <2>8. \A q \in Relay : /\ relay'[q].answer = relay[q].answer
                         /\ relay'[q].batch = IF q = p THEN b ELSE relay[q].batch
    BY <2>4 DEF OutboxTypeOK
  <2>9. Grounded'
    BY <1>3, <2>1, <2>3, <2>8 DEF ClaimBatch, Grounded
  <2>10. QED BY <2>7, <2>9
<1>4. ASSUME NEW p \in Relay, NEW e \in Event, DispatchOutbox(p, e) PROVE OutboxInv'
  <2>1. PICK ok \in BOOLEAN : /\ Answered(p, e, ok)
                              /\ ok => e \in topic'
    BY <1>4 DEF DispatchOutbox
  <2>2. relay' \in [Relay -> [up : BOOLEAN, batch : Batches, answer : Answers]]
    BY <2>1 DEF Answered, OutboxTypeOK, Answers
  <2>3. topic \subseteq topic' /\ topic' \subseteq topic \cup {e}
    BY <1>4 DEF DispatchOutbox
  <2>4. e \in stored
    BY <1>4 DEF DispatchOutbox, Has, Grounded
  <2>5. OutboxTypeOK'
    BY <1>4, <2>2, <2>3 DEF DispatchOutbox, OutboxTypeOK
  <2>6. \A q \in Relay : /\ relay'[q].batch = relay[q].batch
                         /\ q # p => relay'[q].answer = relay[q].answer
    BY <2>1 DEF Answered, OutboxTypeOK
  <2>7. relay'[p].answer = [of |-> {e}, ok |-> ok]
    BY <2>1 DEF Answered, OutboxTypeOK
  <2>8. \A q \in Relay : \A d \in Event :
          relay'[q].answer = [of |-> {d}, ok |-> TRUE] => d \in topic'
    <3> SUFFICES ASSUME NEW q \in Relay, NEW d \in Event,
                        relay'[q].answer = [of |-> {d}, ok |-> TRUE]
                 PROVE  d \in topic'
      OBVIOUS
    <3>1. CASE q = p
      <4>1. d = e /\ ok
        BY <2>7, <3>1
      <4>2. QED BY <2>1, <4>1
    <3>2. CASE q # p
      BY <2>3, <2>6, <3>2 DEF Grounded
    <3>3. QED BY <3>1, <3>2
  <2>9. Grounded'
    BY <1>4, <2>3, <2>4, <2>6, <2>8 DEF DispatchOutbox, Grounded
  <2>10. QED BY <2>5, <2>9
<1>5. ASSUME NEW p \in Relay, NEW e \in Event, MarkDispatched(p, e) PROVE OutboxInv'
  <2>1. e \in topic
    BY <1>5 DEF MarkDispatched, Answer, Grounded
  <2>2. Recorded(p, e)
    BY <1>5 DEF MarkDispatched
  <2>3. OutboxTypeOK'
    BY <1>5, <2>2, RecordedShrinks DEF MarkDispatched, OutboxTypeOK
  <2>4. Grounded'
    BY <1>5, <2>1, <2>2, RecordedShrinks DEF MarkDispatched, Grounded, Quiet
  <2>5. QED BY <2>3, <2>4
<1>6. ASSUME NEW p \in Relay, NEW e \in Event, MarkFailed(p, e) PROVE OutboxInv'
  <2>1. Recorded(p, e)
    BY <1>6 DEF MarkFailed
  <2>2. wait' \in [Event -> 0 .. MaxBackoff]
    BY <1>6, DelayIsBounded DEF MarkFailed, OutboxTypeOK
  <2>3. OutboxTypeOK'
    BY <1>6, <2>1, <2>2, RecordedShrinks DEF MarkFailed, OutboxTypeOK
  <2>4. Grounded'
    BY <1>6, <2>1, RecordedShrinks DEF MarkFailed, Grounded, Quiet
  <2>5. QED BY <2>3, <2>4
<1>7. ASSUME NEW p \in Relay, NEW e \in Event, MarkLost(p, e) PROVE OutboxInv'
  <2>1. Recorded(p, e)
    BY <1>7 DEF MarkLost
  <2>2. OutboxTypeOK'
    BY <1>7, <2>1, RecordedShrinks DEF MarkLost, tableVars, OutboxTypeOK
  <2>3. Grounded'
    BY <1>7, <2>1, RecordedShrinks DEF MarkLost, tableVars, Grounded, Quiet
  <2>4. QED BY <2>2, <2>3
<1>8. ASSUME NEW p \in Relay, Stop(p) \/ Run(p) PROVE OutboxInv'
  <2>1. <<>> \in Batches /\ DOMAIN <<>> = {}
    <3>1. <<>> \in [{} -> Attempt] /\ DOMAIN <<>> = {}
      OBVIOUS
    <3>2. QED BY <3>1, BatchType
  <2>2. PICK r \in {Idle, Down} : relay' = [relay EXCEPT ![p] = r]
    BY <1>8 DEF Stop, Run
  <2>3. /\ r \in [up : BOOLEAN, batch : Batches, answer : Answers]
        /\ r.batch = <<>> /\ r.answer = Quiet
    <3>1. Quiet \in Answers
      BY DEF Quiet, Answers
    <3>2. CASE r = Idle
      BY <2>1, <3>1, <3>2 DEF Idle
    <3>3. CASE r = Down
      BY <2>1, <3>1, <3>3 DEF Down
    <3>4. QED BY <2>2, <3>2, <3>3
  <2>4. OutboxTypeOK'
    BY <1>8, <2>2, <2>3 DEF Stop, Run, tableVars, OutboxTypeOK
  <2>5. \A q \in Relay : relay'[q] = IF q = p THEN r ELSE relay[q]
    BY <2>2 DEF OutboxTypeOK
  <2>6. Grounded'
    BY <1>8, <2>1, <2>3, <2>5 DEF Stop, Run, tableVars, Grounded, Quiet
  <2>7. QED BY <2>4, <2>6
<1>9. ASSUME Outage PROVE OutboxInv'
  BY <1>9 DEF Outage, tableVars, OutboxTypeOK, Grounded
<1>10. ASSUME Tick PROVE OutboxInv'
  <2>1. wait' \in [Event -> 0 .. MaxBackoff]
    BY <1>10, DelayAssumption DEF Tick, OutboxTypeOK
  <2>2. QED BY <1>10, <2>1 DEF Tick, OutboxTypeOK, Grounded
<1>11. QED
  BY <1>0, <1>1, <1>2, <1>3, <1>4, <1>5, <1>6, <1>7, <1>8, <1>9, <1>10
     DEF Next, Relaying

(* Every state of the outbox is typed, and Kafka and the marks never get    *)
(* ahead of the table (claims, marks, crashes and lost answers of any       *)
(* number of relays).                                                       *)
THEOREM RelayIsGrounded == Spec => [](OutboxTypeOK /\ Grounded)
<1>1. Spec => []OutboxInv
  BY InitIsGrounded, StepKeepsGrounded, PTL DEF Spec
<1>2. QED BY <1>1, PTL DEF OutboxInv

-----------------------------------------------------------------------------
(* The refinement.                                                          *)

LEMMA InitIsPromised == Init => Promised!Init
  BY DEF Init, Promised!Init

(* Of the steps of the outbox, a commit, a send and a mark are steps of     *)
(* Delivery; all others leave what it speaks of alone.                      *)
LEMMA StepIsPromised ==
    OutboxInv /\ [Next]_vars => [Promised!Next]_Promised!vars
<1> DEFINE done == {e \in Event : change[e] = "committed"}
<1> SUFFICES ASSUME OutboxInv, [Next]_vars
             PROVE  Promised!Next \/ UNCHANGED <<done, topic, dispatched>>
  BY DEF Promised!vars
<1> USE DEF OutboxInv
<1>0. ASSUME UNCHANGED vars PROVE UNCHANGED <<done, topic, dispatched>>
  BY <1>0 DEF vars
<1>1. ASSUME NEW e \in Event, PublishTx(e) \/ PublishAfter(e)
      PROVE  Promised!Next \/ UNCHANGED <<done, topic, dispatched>>
  <2>1. UNCHANGED <<topic, dispatched>>
    BY <1>1 DEF PublishTx, PublishAfter, Insert, NoInsert, tableVars
  <2>2. change' = change \/ change' = [change EXCEPT ![e] = "committed"]
    BY <1>1 DEF PublishTx, PublishAfter, ChangeTo
  <2>3. done' = done \/ done' = done \cup {e}
    BY <2>2 DEF OutboxTypeOK
  <2>4. QED BY <2>1, <2>3 DEF Promised!Next, Promised!Commit
<1>2. ASSUME NEW p \in Relay, NEW e \in Event, DispatchOutbox(p, e)
      PROVE  Promised!Next \/ UNCHANGED <<done, topic, dispatched>>
  <2>1. e \in done
    BY <1>2 DEF DispatchOutbox, Has, Grounded
  <2>2. UNCHANGED <<done, dispatched>> /\ (topic' = topic \/ topic' = topic \cup {e})
    BY <1>2 DEF DispatchOutbox
  <2>3. QED BY <2>1, <2>2 DEF Promised!Next, Promised!Tell
<1>3. ASSUME NEW p \in Relay, NEW e \in Event, MarkDispatched(p, e)
      PROVE  Promised!Next
  <2>1. e \in topic
    BY <1>3 DEF MarkDispatched, Answer, Grounded
  <2>2. UNCHANGED <<done, topic>> /\ dispatched' = dispatched \cup {e}
    BY <1>3 DEF MarkDispatched
  <2>3. QED BY <2>1, <2>2 DEF Promised!Next, Promised!Settle
<1>4. ASSUME NEW p \in Relay, NEW e \in Event, MarkFailed(p, e) \/ MarkLost(p, e)
      PROVE  UNCHANGED <<done, topic, dispatched>>
  BY <1>4 DEF MarkFailed, MarkLost, tableVars
<1>5. ASSUME NEW p \in Relay, ClaimBatch(p) \/ Stop(p) \/ Run(p)
      PROVE  UNCHANGED <<done, topic, dispatched>>
  BY <1>5 DEF ClaimBatch, Stop, Run, tableVars
<1>6. ASSUME Outage \/ Tick PROVE UNCHANGED <<done, topic, dispatched>>
  BY <1>6 DEF Outage, Tick, tableVars
<1>7. QED
  BY <1>0, <1>1, <1>2, <1>3, <1>4, <1>5, <1>6 DEF Next, Relaying

(* The outbox implements Delivery: nothing is told that was not committed,  *)
(* and nothing is marked as sent that was not told.                         *)
THEOREM OutboxImplementsDelivery == Spec => NothingInvented
<1>1. Spec => []OutboxInv
  BY InitIsGrounded, StepKeepsGrounded, PTL DEF Spec
<1>2. QED
  BY <1>1, InitIsPromised, StepIsPromised, PTL
     DEF Spec, NothingInvented, Promised!Promise
=============================================================================
