---------------------------- MODULE TimerAbstract ----------------------------
(***************************************************************************)
(* What the timers promise, without lists and deltas: each running timer   *)
(* has a number of ticks left, an announcement takes its ticks off all of  *)
(* them, and those that reach zero expire before anything else happens.    *)
(***************************************************************************)
EXTENDS Integers

CONSTANTS
  Timer,
  Stopped,              \* no number: the timer is not running
  Duration, Period,     \* what timers are started with
  MaxAnnounce           \* the most ticks announced at once

VARIABLES
  left,                 \* left[t]: the ticks before t expires, or Stopped
  period,               \* period[t]: the ticks between expirations, 0 for one shot
  serving               \* whether an announcement is being served

vars == <<left, period, serving>>

Due == {t \in Timer : left[t] = 0}

Init ==
  /\ left = [t \in Timer |-> Stopped] /\ period \in [Timer -> Period]
  /\ ~serving

Elapse(n) ==
  /\ ~serving /\ serving'
  /\ left' = [t \in Timer |-> IF left[t] = Stopped THEN Stopped
                              ELSE IF left[t] < n THEN 0 ELSE left[t] - n]
  /\ UNCHANGED period

Expire(t) ==
  /\ serving /\ t \in Due
  /\ left' = [left EXCEPT ![t] = IF period[t] = 0 THEN Stopped ELSE period[t]]
  /\ serving' \/ Due' = {}
  /\ UNCHANGED period

Served ==
  /\ serving /\ Due = {} /\ ~serving'
  /\ UNCHANGED <<left, period>>

Start(t, duration, ticks) ==
  /\ ~serving /\ duration + ticks > 0
  /\ period' = [period EXCEPT ![t] = ticks]
  /\ left' = [left EXCEPT ![t] = IF duration > 0 THEN duration ELSE ticks]
  /\ UNCHANGED serving

Stop(t) ==
  /\ ~serving /\ left[t] # Stopped
  /\ left' = [left EXCEPT ![t] = Stopped]
  /\ UNCHANGED <<period, serving>>

Next ==
  \/ \E n \in 1 .. MaxAnnounce : Elapse(n)
  \/ Served
  \/ \E t \in Timer :
       \/ Expire(t) \/ Stop(t)
       \/ \E duration \in Duration, ticks \in Period : Start(t, duration, ticks)

Spec == Init /\ [][Next]_vars
=============================================================================
