----------------------------- MODULE MCShutdown -----------------------------
(***************************************************************************)
(* Shutdowns of two machines: one planner over two days, with machines that*)
(* start idle or retired, and two planners over one, with idle ones.       *)
(***************************************************************************)
EXTENDS Shutdown, TLC

Days == {{1}, {2}}
Day  == {{1}}

MCInit == ShutdownInit /\ \A a \in Asset : status[a] \in {"idle", "retired"}
MCSpec == MCInit /\ [][ShutdownNext]_shutdownVars

PlannersInit == ShutdownInit /\ \A a \in Asset : status[a] = "idle"
PlannersSpec == PlannersInit /\ [][ShutdownNext]_shutdownVars

Symmetry == Permutations(Asset) \cup Permutations(Stop) \cup Permutations(Operator)
=============================================================================
