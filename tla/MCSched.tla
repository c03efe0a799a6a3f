------------------------------ MODULE MCSched ------------------------------
(***************************************************************************)
(* Model of Sched for TLC.                                                 *)
(***************************************************************************)
EXTENDS Sched

SchedPrio == {-1, 0, 1}

SlicePrios == {0, 1}

Symmetry == Permutations(Thread \ {Main})

(***************************************************************************)
(* Threads that start, sleep, yield, wake each other up and otherwise      *)
(* compute.  The clock is fair: its interrupt keeps arriving and ends.     *)
(***************************************************************************)
SliceSpec ==
  /\ Init
  /\ [][ /\ \/ Tick
            \/ \E u \in Thread : IsrWakeup(k, u)
            \/ \E t, u \in Thread : Yield(t) \/ Sleep(t) \/ Wakeup(t, u) \/ ThreadStart(t, u)
         /\ Careful']_k
  /\ WF_k(Tick)
=============================================================================
