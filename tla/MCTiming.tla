------------------------------ MODULE MCTiming ------------------------------
(***************************************************************************)
(* TLC instances of Timing: three buckets instead of eight, with durations *)
(* inside the first bucket and on the last bound.                          *)
(***************************************************************************)
EXTENDS Timing, TLC

MCBOUNDS == <<10, 50>>
MCDurations == {9, 50}

WorkerSymmetry == Permutations(Workers)
=============================================================================
