------------------------------- MODULE MCIngest -------------------------------
(***************************************************************************)
(* Three messages: the figures of a day and their correction, then a       *)
(* batch; a breach published twice around a figure; shift lists that the   *)
(* topic holds in another order than they were published in.               *)
(***************************************************************************)
EXTENDS Ingest, TLC

CONSTANTS day, batch, breach, plant

M(kind, key, at) == [kind |-> kind, key |-> key, at |-> at]

MCLogs == {
    <<M("rollup", day, 0), M("rollup", day, 0), M("batch", batch, 0)>>,
    <<M("breach", breach, 0), M("rollup", day, 0), M("breach", breach, 0)>>,
    <<M("shifts", plant, 2), M("shifts", plant, 1), M("none", day, 0)>> }
================================================================================
