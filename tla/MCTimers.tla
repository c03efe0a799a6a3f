------------------------------ MODULE MCTimers ------------------------------
(***************************************************************************)
(* Model of Timers for TLC.                                                *)
(***************************************************************************)
EXTENDS Timers, TLC

TimerSymmetry == Permutations(Timer \ Read)
=============================================================================
