------------------------------ MODULE Delivery ------------------------------
(***************************************************************************)
(* What the outbox promises the services that listen to this one, without  *)
(* tables, leases or relays: only changes that were committed are told,    *)
(* and only what was told may be forgotten.  Telling the same event        *)
(* several times is allowed, and is a stutter here.                        *)
(***************************************************************************)
CONSTANT Event

VARIABLES
    committed,  \* the events whose change is in the database
    told,       \* the events Kafka holds at least one copy of
    settled     \* the events nobody will send again

vars == <<committed, told, settled>>

Init == committed = {} /\ told = {} /\ settled = {}

Commit(e) ==
    /\ committed' = committed \cup {e}
    /\ UNCHANGED <<told, settled>>

Tell(e) ==
    /\ e \in committed
    /\ told' = told \cup {e}
    /\ UNCHANGED <<committed, settled>>

Settle(e) ==
    /\ e \in told
    /\ settled' = settled \cup {e}
    /\ UNCHANGED <<committed, told>>

Next == \E e \in Event : Commit(e) \/ Tell(e) \/ Settle(e)

Promise == Init /\ [][Next]_vars
=============================================================================
