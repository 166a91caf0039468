------------------------------ MODULE MCOutbox ------------------------------
EXTENDS Outbox

(* A row that can never be sent keeps less than a whole batch to itself. *)
ASSUME BatchFits == Cardinality(Poison) < Limit
=============================================================================
