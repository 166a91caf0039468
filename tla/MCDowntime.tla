----------------------------- MODULE MCDowntime -----------------------------
(* Downtime on two machines with three stops and one registry edit. *)
EXTENDS Downtime, TLC

Symmetry == Permutations(Asset) \cup Permutations(Stop)
=============================================================================
