---------------------------- MODULE SemAbstract ----------------------------
(***************************************************************************)
(* What a counting semaphore promises its users, without a scheduler: a    *)
(* value between 0 and a limit, and for each thread whether it is outside  *)
(* k_sem_take(), waiting in it, or about to return from it with the        *)
(* semaphore (granted) or without (failed).                                *)
(***************************************************************************)
EXTENDS Naturals

CONSTANTS Thread, Limit

VARIABLES value, status

Waiting == {t \in Thread : status[t] = "waiting"}

Init == value \in 0 .. Limit /\ status = [t \in Thread |-> "out"]

Become(t, from, to) == status[t] \in from /\ status' = [status EXCEPT ![t] = to]

\* A unit goes to exactly one waiting thread or, when nobody waits, into the
\* value, where it is lost at the limit.
Give ==
  \/ \E t \in Waiting : Become(t, {"waiting"}, "granted") /\ UNCHANGED value
  \/ Waiting = {} /\ value < Limit /\ value' = value + 1 /\ UNCHANGED status

Take == value > 0 /\ value' = value - 1 /\ UNCHANGED status

Reset == value' = 0 /\ UNCHANGED status

\* Nobody waits while units are to be had, and a wait ends once.
Step(t) ==
  /\ \/ value = 0 /\ Become(t, {"out"}, "waiting")
     \/ Become(t, {"waiting"}, "failed")
     \/ Become(t, {"granted", "failed"}, "out")
     \/ Become(t, {"waiting"}, "out")          \* the thread is aborted
  /\ UNCHANGED value

Next == Give \/ Take \/ Reset \/ \E t \in Thread : Step(t)

Spec == Init /\ [][Next]_<<value, status>>
=============================================================================
