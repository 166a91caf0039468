---------------------------- MODULE MCWorkOrders ----------------------------
(***************************************************************************)
(* One work order, three people, a checklist of up to two steps, two       *)
(* requests at a time.                                                     *)
(***************************************************************************)
EXTENDS WorkOrders, TLC

Kinds   == {"commissioning", "repair"}
Targets == {"open", "in_progress", "completed", "cancelled"}

Symmetry == Permutations(Person) \cup Permutations(Request)
=============================================================================
