------------------------------- MODULE Timers -------------------------------
(***************************************************************************)
(* Kernel timers and the clock interrupt that drives them: kernel/timer.c  *)
(* and handle_timeouts() of kernel/sys_clock.c, on top of TimeoutQ.  The    *)
(* calls are critical sections made by threads or by interrupts that do    *)
(* not preempt the clock interrupt; each timer has one user that           *)
(* synchronizes with it, as the documentation asks.  The functions that    *)
(* applications have called on expiry (timer.c:66-69) use no timers here.  *)
(***************************************************************************)
EXTENDS TimeoutQ

CONSTANTS
  Duration,     \* the durations and the periods timers are started with, in
  Period,       \*   ticks; zero is the period of a one-shot timer
  Read,         \* the timers whose status the application reads
  MaxAnnounce   \* the most ticks announced at once

ASSUME TimersAssumption ==
  /\ Duration \subseteq Nat /\ Period \subseteq Nat /\ 0 \in Period /\ Read \subseteq Timer
  /\ MaxAnnounce \in Nat /\ Null \notin Int

VARIABLES
  q,            \* _timeout_q, the expired list and the timeouts
  clock,        \* the clock interrupt: phase, the timeout it is at, ticks to consume
  period,       \* timer->period
  status,       \* whether timer->status is above zero: t has expired unread
  sync,         \* sync[t]: the user of t in k_timer_status_sync()
  stopping      \* the timers inside k_timer_stop(), between its critical sections

timerVars == <<q, clock, period, status, sync, stopping>>

ClockOff == [phase |-> "off", at |-> Null, ticks |-> 0]

TimersInit ==
  /\ q = EmptyQueue /\ clock = ClockOff
  /\ period = [t \in Timer |-> 0] /\ status = [t \in Timer |-> FALSE]
  /\ sync = [t \in Timer |-> "out"]
  /\ stopping = {}

AtThreadLevel == clock.phase = "off"

\* The waiting thread, if any, becomes ready.
Released(t) == [sync EXCEPT ![t] = IF @ = "waiting" THEN "woken" ELSE @]

-----------------------------------------------------------------------------
(***************************************************************************)
(* Expiry.                                                                 *)
(***************************************************************************)

\* _handle_one_expired_timeout() and the head of _timer_expiration_handler().
Rearmed(x, t, ticks) ==
  LET handled == [x EXCEPT !.delta[t] = INACTIVE]
  IN  IF ticks > 0 THEN AddTimeout(handled, t, ticks) ELSE handled

\* The rest of _timer_expiration_handler().
Expire(t) == status' = [status EXCEPT ![t] = TRUE] /\ sync' = Released(t)

-----------------------------------------------------------------------------
(***************************************************************************)
(* The API.                                                                *)
(***************************************************************************)

TimerStart(t, duration, ticks) ==
  LET stopped == IF IsActive(q, t) THEN AbortTimeout(q, t) ELSE q
  IN  /\ AtThreadLevel /\ duration + ticks > 0
      /\ period' = [period EXCEPT ![t] = ticks]
      /\ IF duration = 0
           THEN q' = Rearmed(stopped, t, ticks) /\ Expire(t)
           ELSE /\ q' = AddTimeout(stopped, t, duration)
                /\ status' = [status EXCEPT ![t] = FALSE]
                /\ UNCHANGED sync
      /\ UNCHANGED <<clock, stopping>>

TimerStop(t) ==
  /\ AtThreadLevel /\ IsActive(q, t) /\ t \notin stopping
  /\ q' = AbortTimeout(q, t)
  /\ stopping' = stopping \cup {t}
  /\ UNCHANGED <<clock, period, status, sync>>

\* Mutant: the waiting thread is left alone.
TimerStoppedSilently(t) ==
  /\ AtThreadLevel /\ t \in stopping
  /\ stopping' = stopping \ {t}
  /\ UNCHANGED <<q, clock, period, status, sync>>

\* The second critical section, after the stop function.
TimerStopped(t) ==
  /\ AtThreadLevel /\ t \in stopping
  /\ stopping' = stopping \ {t} /\ sync' = Released(t)
  /\ UNCHANGED <<q, clock, period, status>>

StatusGet(t) ==
  /\ AtThreadLevel /\ sync[t] = "out"
  /\ status' = [status EXCEPT ![t] = FALSE]
  /\ UNCHANGED <<q, clock, period, sync, stopping>>

MustWait(t) == ~status[t] /\ IsActive(q, t)

StatusSync(t) ==
  /\ AtThreadLevel /\ sync[t] = "out"
  /\ IF MustWait(t)
       THEN sync' = [sync EXCEPT ![t] = "waiting"] /\ UNCHANGED status
       ELSE status' = [status EXCEPT ![t] = FALSE] /\ UNCHANGED sync
  /\ UNCHANGED <<q, clock, period, stopping>>

SyncReturn(t) ==
  /\ AtThreadLevel /\ sync[t] = "woken"
  /\ sync' = [sync EXCEPT ![t] = "out"] /\ status' = [status EXCEPT ![t] = FALSE]
  /\ UNCHANGED <<q, clock, period, stopping>>

-----------------------------------------------------------------------------
(***************************************************************************)
(* The clock interrupt: handle_timeouts().                                 *)
(***************************************************************************)

TickAnnounce(n) ==
  /\ AtThreadLevel
  /\ PeekHead(q, Queue) # Null
  /\ clock' = [phase |-> "dequeue", at |-> PeekHead(q, Queue), ticks |-> n]
  /\ UNCHANGED <<q, period, status, sync, stopping>>

\* The expired list x is complete: begin to walk it.
StartHandling(x) ==
  clock' = IF PeekHead(x, Expired) = Null THEN ClockOff
           ELSE [phase |-> "handle", at |-> PeekHead(x, Expired), ticks |-> 0]

\* Mutant: walk on over timeouts that are not due.
ExhaustedNever(left, ticks) == FALSE

\* The announced ticks are used up: no later timeout is due.
Exhausted(left, ticks) == left # 0 /\ ticks <= 0

Dequeue ==
  LET t     == clock.at
      left  == IF q.delta[t] < clock.ticks THEN 0 ELSE q.delta[t] - clock.ticks
      ticks == clock.ticks - q.delta[t]
      next  == PeekNext(q, Queue, t)
  IN  /\ clock.phase = "dequeue"
      /\ q' = IF left = 0
                THEN [Prepend(Unlink(q, t), Expired, t) EXCEPT !.delta[t] = EXPIRED]
                ELSE [q EXCEPT !.delta[t] = left]
      /\ IF Exhausted(left, ticks) \/ next = Null
           THEN StartHandling(q')
           ELSE clock' = [clock EXCEPT !.at = next, !.ticks = ticks]
      /\ UNCHANGED <<period, status, sync, stopping>>

\* The local list is gone when handle_timeouts() returns.
Finished(x) == Forget(x, {Expired} \cup {t \in Timer : ~IsActive(x, t)})

\* The next node is read after the handler has run.  A list head is no
\* timeout; what happens to a walk that takes it for one is not followed.
Handle ==
  LET t == clock.at
  IN  /\ clock.phase = "handle" /\ t \in Timer
      /\ LET handled == Rearmed(q, t, period[t])
             next    == PeekNext(handled, Expired, t)
         IN  IF next = Null THEN q' = Finished(handled) /\ clock' = ClockOff
             ELSE q' = handled /\ clock' = [clock EXCEPT !.at = next]
      /\ Expire(t)
      /\ UNCHANGED <<period, stopping>>

TimersNext ==
  \/ \E n \in 1 .. MaxAnnounce : TickAnnounce(n)
  \/ Dequeue \/ Handle
  \/ \E t \in Timer :
       \/ TimerStop(t) \/ TimerStopped(t)
       \/ \E duration \in Duration, ticks \in Period : TimerStart(t, duration, ticks)
  \/ \E t \in Read : StatusGet(t) \/ StatusSync(t) \/ SyncReturn(t)

TimersSpec == TimersInit /\ [][TimersNext]_timerVars

-----------------------------------------------------------------------------
(***************************************************************************)
(* Periodic timers beside others.                                          *)
(***************************************************************************)

\* _timeout_remaining_get(): the ticks before t expires, counting down those
\* already announced; zero stands for a timeout on the expired list.
Left ==
  LET ahead[s \in Seq(Node)] ==
        [t \in Timer |->
           IF ~IsActive(q, t) THEN Null
           ELSE IF t \notin ToSet(s) THEN 0
           ELSE LET n == TicksUpTo(q, s, CHOOSE i \in 1 .. Len(s) : s[i] = t)
                         - (IF clock.phase = "dequeue" THEN clock.ticks ELSE 0)
                IN  IF n < 0 THEN 0 ELSE n]
  IN  ahead[Linked(q, Queue)]

\* Of the timers an announcement makes due only the first may be periodic.  It
\* is handled last: its handler links it into the queue again and the walk
\* over the expired list ends there.  The code does nothing to bring this about.
PeriodicLast ==
  LET first == IF PeekHead(q, Expired) = Null THEN PeekHead(q, Queue) ELSE q.prev[Expired]
  IN  ~AtThreadLevel => \A t \in Timer : period[t] > 0 /\ Left[t] = 0 => t = first

\* The behaviours in which it happens to be so.
CarefulTimersSpec == TimersInit /\ [][TimersNext /\ PeriodicLast']_timerVars

-----------------------------------------------------------------------------
(***************************************************************************)
(* Properties.                                                             *)
(***************************************************************************)

\* The lists, deltas and timers have their types, and handle_timeouts() never
\* goes on with a negative number of ticks.
TimersTypeOK ==
  /\ q \in TimeoutQState
  /\ clock \in [phase: {"off", "dequeue", "handle"}, at: Node \cup {Null}, ticks: Nat]
  /\ period \in [Timer -> Period]
  /\ status \in [Timer -> BOOLEAN]
  /\ sync \in [Timer -> {"out", "waiting", "woken"}]
  /\ stopping \in SUBSET Timer

\* Nobody waits for a timer that will not expire: while its user waits, a
\* timer is running, is about to expire, or is being stopped by a call that
\* will release the user (k_timer_status_sync, k_timer_stop and the expiry
\* handler, across restarts of the timer).
WaiterHasTimer ==
  \A t \in Timer : sync[t] = "waiting" => IsActive(q, t) \/ t \in stopping

Deadlines == INSTANCE TimerAbstract WITH left <- Left, Stopped <- Null, serving <- ~AtThreadLevel

\* The delta list keeps every deadline: whatever is started, restarted and
\* stopped around it, a timer expires in the announcement that covers the
\* duration it was started with and then every period, not earlier and not
\* later, and before the clock interrupt returns (_add_timeout, _abort_timeout
\* and the consumption of ticks in handle_timeouts), as long as a periodic
\* timer is handled last.
KeepsDeadlines == Deadlines!Spec

-----------------------------------------------------------------------------
(***************************************************************************)
(* What the comments say of the clock interrupt.                           *)
(***************************************************************************)

\* handle_timeouts() goes "through the second queue without needing to have
\* the interrupts locked since it is a local queue": what it handles are
\* timeouts that have expired.
HandlesOnlyExpired ==
  clock.phase = "handle" => clock.at \in Timer /\ q.delta[clock.at] = EXPIRED
=============================================================================
