--------------------------- MODULE MCFaultReports ---------------------------
(* Two reports on one machine. *)
EXTENDS FaultReports, TLC

Completed == {"completed"}

MCInit == Init /\ \A a \in Asset : status[a] = "running"
MCSpec == MCInit /\ [][Next]_vars

Symmetry == Permutations(Report) \cup Permutations(Order) \cup Permutations(Stop) \cup Permutations(Request)
=============================================================================
