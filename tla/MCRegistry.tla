------------------------------ MODULE MCRegistry ------------------------------
(***************************************************************************)
(* Two factories with a floor each, one machine.                           *)
(***************************************************************************)
EXTENDS Registry, TLC

CONSTANTS p1, p2, s1, s2

MCPlantOf == s1 :> p1 @@ s2 :> p2
MCOrders == 1 .. 3
Symmetry == Permutations(Request)
================================================================================
