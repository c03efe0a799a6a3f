------------------------------- MODULE Sched -------------------------------
(***************************************************************************)
(* Threads and the scheduler: kernel/thread.c, kernel/sched.c, arch/arm/    *)
(* core/thread_abort.c and the system clock interrupt of kernel/           *)
(* sys_clock.c as far as it concerns threads.                              *)
(*                                                                         *)
(* A call made by a thread is an action enabled for the current thread;    *)
(* the calls the code also accepts from interrupt level have a second      *)
(* action, an interrupt that makes the call.  Such an interrupt may arrive *)
(* while a thread runs or, having a higher priority, between two steps of  *)
(* the system clock interrupt.  Some of these calls the kernel does not    *)
(* withstand.  They are steps of Spec like the others; Careful says that   *)
(* none has been made, and the properties are about such behaviours.       *)
(***************************************************************************)
EXTENDS Kernel

CONSTANTS
  Main,         \* the thread that runs when the kernel has started
  MaxLock,      \* bound on nested k_sched_lock() calls
  SuspendedOnly \* whether only suspended threads are resumed

ASSUME SchedAssumption ==
  Main \in Thread /\ MaxLock \in Nat /\ SuspendedOnly \in BOOLEAN

VARIABLE k

\* Main runs.  The other threads are static: their delay is K_FOREVER or, for
\* those in delayed, some time that has not passed yet.
BootState(prio, delayed) ==
  [cur |-> Main, cache |-> Main, runq |-> <<Main>>, prio |-> prio,
   st |-> [t \in Thread |-> IF t = Main THEN {"QUEUED"} ELSE {"PRESTART"}],
   locked |-> [t \in Thread |-> 0],
   tmo |-> [t \in Thread |-> IF t \in delayed THEN "ACTIVE" ELSE "INACTIVE"],
   waitq |-> [w \in WaitQ |-> <<>>], ret |-> [t \in Thread |-> "EAGAIN"],
   slice |-> 0, tick |-> FALSE, moving |-> Idle, expiring |-> Idle]

Init ==
  \E prio \in [Thread -> Prio], delayed \in SUBSET (Thread \ {Main}) :
    k = BootState(prio, delayed)

\* A thread runs application code: no interrupt is being served.
Running(t) == ~k.tick /\ k.cur = t

Has(t, flag) == flag \in k.st[t]

-----------------------------------------------------------------------------
(***************************************************************************)
(* Life of a thread.                                                       *)
(***************************************************************************)

Started(x, u) == ReadyThread([x EXCEPT !.st[u] = @ \ {"PRESTART"}], u)

ThreadStart(t, u) ==
  Running(t) /\ Has(u, "PRESTART") /\ k' = Reschedule(Started(k, u))

\* k_thread_create() for a terminated thread's object, with a delay of
\* K_FOREVER, of zero, or of some ticks.
ThreadCreate(t, u, p, delay) ==
  /\ Running(t)
  /\ Has(u, "DEAD")
  /\ LET new == [k EXCEPT !.st[u] = {"PRESTART"}, !.prio[u] = p,
                          !.locked[u] = 0, !.tmo[u] = "INACTIVE"]
     IN  k' = CASE delay = "forever" -> new
                [] delay = "zero"    -> Reschedule(Started(new, u))
                [] delay = "ticks"   -> AddThreadTimeout(new, u)

ThreadCancel(t, u) ==
  /\ Running(t)
  /\ Has(u, "PRESTART") /\ k.tmo[u] # "INACTIVE"
  /\ k' = AbortThreadTimeout(k, u)

Suspended(u) ==
  LET removed == IF IsReady(k, u) THEN RemoveFromReadyQ(k, u) ELSE k
  IN  [removed EXCEPT !.st[u] = @ \cup {"SUSPENDED"}]

ThreadSuspend(t, u) ==
  /\ Running(t)
  /\ k' = IF t = u THEN Swap(Suspended(u)) ELSE Suspended(u)

Resumed(x, u) == ReadyThread([x EXCEPT !.st[u] = @ \ {"SUSPENDED"}], u)

\* The code has no guard: resuming a ready thread links it into the run queue
\* twice.  SuspendedOnly is the applications' promise not to.
ThreadResume(t, u) ==
  /\ Running(t) /\ (SuspendedOnly => Has(u, "SUSPENDED"))
  /\ k' = Reschedule(Resumed(k, u))

IsrResume(x, u) ==
  (SuspendedOnly => "SUSPENDED" \in x.st[u]) /\ k' = IntExit(Resumed(x, u))

\* Mutant: leave the timeout of the aborted thread running.
AbortedKeepingTimeout(x, u) ==
  LET off == IF IsReady(x, u) THEN RemoveFromReadyQ(x, u) ELSE UnpendNoTimeout(x, u)
  IN  [off EXCEPT !.st[u] = @ \cup {"DEAD"}]

\* _k_thread_single_abort().
Aborted(x, u) ==
  LET off == IF IsReady(x, u) THEN RemoveFromReadyQ(x, u) ELSE Unpend(x, u)
  IN  [off EXCEPT !.st[u] = @ \cup {"DEAD"}]

ThreadAbort(t, u) ==
  /\ Running(t)
  /\ k' = IF t = u THEN Swap(Aborted(k, u)) ELSE Reschedule(Aborted(k, u))

IsrAbort(x, u) == k' = IntExit(Aborted(x, u))

-----------------------------------------------------------------------------
(***************************************************************************)
(* Giving up the processor, priorities, and locking the scheduler.         *)
(***************************************************************************)

Yield(t) == Running(t) /\ k' = Reschedule(Yielded(k))

Sleep(t) ==
  /\ Running(t)
  /\ k' = Swap(AddThreadTimeout(RemoveFromReadyQ(k, t), t))

Woken(x, u) ==
  IF "PENDING" \in x.st[u] \/ x.tmo[u] = "INACTIVE" THEN x
  ELSE ReadyThread(AbortThreadTimeout(x, u), u)

Wakeup(t, u) == Running(t) /\ k' = Reschedule(Woken(k, u))

IsrWakeup(x, u) == k' = IntExit(Woken(x, u))

ThreadPrioritySet(t, u, p) == Running(t) /\ k' = PrioritySet(k, u, p)

LockSched(t) == Running(t) /\ k.locked[t] < MaxLock /\ k' = SchedLock(k)

\* Mutant: unlock what was not locked.
UnlockSchedUnmatched(t) == Running(t) /\ k' = SchedUnlock(k)

UnlockSched(t) == Running(t) /\ k.locked[t] > 0 /\ k' = SchedUnlock(k)

-----------------------------------------------------------------------------
(***************************************************************************)
(* The system clock interrupt: _nano_sys_clock_tick_announce().  Which     *)
(* timeouts are due is left open (TimeoutQ says).  handle_timeouts() moves *)
(* them to a list of its own one by one, then handles that list one by     *)
(* one, in some order; in between interrupts are enabled, and each loop    *)
(* goes on with the timeout it chose before, whatever has become of it.    *)
(* Then the time slice is accounted and the interrupt returns.             *)
(***************************************************************************)

Active(x) == {t \in Thread : x.tmo[t] = "ACTIVE"}

\* t is marked _EXPIRED; n is the timeout to look at next, if there is one.
Dequeued(x, t, n) == [x EXCEPT !.tmo[t] = "EXPIRED", !.moving = n]

TickStart(x) ==
  /\ ~x.tick
  /\ \/ k' = [x EXCEPT !.tick = TRUE]
     \/ \E t \in Active(x) : \E n \in (Active(x) \ {t}) \cup {Idle} :
          k' = Dequeued([x EXCEPT !.tick = TRUE], t, n)

\* The first timeout that is not due ends the loop.
TickDequeue ==
  /\ k.tick /\ k.moving # Idle
  /\ \/ k' = [k EXCEPT !.moving = Idle]
     \/ \E n \in (Active(k) \ {k.moving}) \cup {Idle} : k' = Dequeued(k, k.moving, n)

\* The loop of _handle_expired_timeouts() comes to the timeout of t.
TickPick(t) ==
  /\ k.tick /\ k.moving = Idle /\ k.expiring = Idle
  /\ k.tmo[t] = "EXPIRED" /\ k' = [k EXCEPT !.expiring = t]

\* It is handled under irq_lock(), without another look at its state.
TickExpire(t) ==
  k.tick /\ k.expiring = t /\ k' = [HandleExpired(k, t) EXCEPT !.expiring = Idle]

\* Both loops are over.
AllHandled ==
  /\ k.tick /\ k.moving = Idle /\ k.expiring = Idle
  /\ \A t \in Thread : k.tmo[t] # "EXPIRED"

IsTimeSlicing(t) ==
  /\ SliceTicks > 0 /\ t # Idle
  /\ IsPreempt(k, t) /\ k.prio[t] >= SlicePrio
  /\ k.runq # <<>> /\ k.prio[t] = k.prio[Head(k.runq)]

\* Mutant: the slice ends and the thread keeps its place.
TickEndInPlace ==
  /\ AllHandled
  /\ k' = IntExit([k EXCEPT !.tick = FALSE, !.slice = 0])

\* handle_time_slicing() and the return from the interrupt.
TickEnd ==
  /\ AllHandled
  /\ LET sliced == IF ~IsTimeSlicing(k.cur) THEN k
                   ELSE IF k.slice + 1 < SliceTicks THEN [k EXCEPT !.slice = @ + 1]
                   ELSE MoveToEndOfPrioQ([k EXCEPT !.slice = 0], k.cur)
     IN  k' = IntExit([sliced EXCEPT !.tick = FALSE])

-----------------------------------------------------------------------------
Call(t) ==
  \/ Yield(t) \/ Sleep(t) \/ LockSched(t) \/ UnlockSched(t)
  \/ \E u \in Thread :
       \/ ThreadStart(t, u) \/ ThreadCancel(t, u)
       \/ ThreadSuspend(t, u) \/ ThreadResume(t, u) \/ ThreadAbort(t, u)
       \/ Wakeup(t, u)
       \/ \E p \in Prio : ThreadPrioritySet(t, u, p)
       \/ \E p \in Prio, delay \in {"forever", "zero", "ticks"} :
            ThreadCreate(t, u, p, delay)

Interrupt(x) == \E u \in Thread : IsrResume(x, u) \/ IsrWakeup(x, u) \/ IsrAbort(x, u)

Tick ==
  \/ TickStart(k) \/ TickDequeue \/ TickEnd
  \/ \E t \in Thread : TickPick(t) \/ TickExpire(t)

\* An interrupt between the two critical sections of a call.  It makes the
\* switch that is due when it returns or, having readied a thread, takes it
\* back (update_cache(0) with a current thread that may not be preempted);
\* the call finds nothing left to do.
Between(t) ==
  {Yielded(k)} \cup {Unlocked(k) : n \in {k.locked[t]} \ {0}}
    \cup {Reprioritized(k, u, p) : u \in {v \in Thread : IsReady(k, v)}, p \in Prio}

InterruptedCall(t) ==
  Running(t) /\ \E x \in Between(t) : Interrupt(x) \/ TickStart(x)

Next ==
  \/ Tick \/ Interrupt(k)
  \/ \E t \in Thread : Call(t) \/ InterruptedCall(t)

Spec == Init /\ [][Next]_k

\* What the kernel relies on and does not check.  Only suspended threads are
\* resumed.  No interrupt deals with a thread while the clock interrupt holds a
\* pointer to its timeout: the thread would be readied or unlinked twice.  None
\* terminates the thread that the clock interrupt interrupted, which
\* handle_time_slicing() would put back into the run queue.
Careful ==
  /\ SuspendedOnly
  /\ k.moving # Idle => k.tmo[k.moving] = "ACTIVE"
  /\ k.expiring # Idle => k.tmo[k.expiring] = "EXPIRED"
  /\ k.tick /\ k.cur # Idle => ~Has(k.cur, "DEAD")

\* The behaviours of Spec in which Careful always holds.
CarefulSpec == Init /\ [][Next /\ Careful']_k
-----------------------------------------------------------------------------
(***************************************************************************)
(* Properties.  Those about queues hold while Careful does.                *)
(***************************************************************************)

\* Every field of the kernel's state has the type its C declaration intends.
TypeOK == k \in KernelState

\* As long as the calls are Careful, after any sequence of thread calls,
\* interrupts and ticks the run queue holds exactly the ready threads, each
\* once, in priority order (_add_thread_to_ready_q,
\* _remove_thread_from_ready_q and their callers).
RunQueueExact == RunQOk(k)

\* Whenever no interrupt is being served the processor runs a ready thread,
\* and no ready thread of higher priority waits behind a preemptible one:
\* every path that changes the run queue ends in the switch it calls for.
BestThreadRuns ==
  ~k.tick => /\ IsReady(k, k.cur)
             /\ k.cache = k.cur
             /\ IsPreempt(k, k.cur) => k.cur = NextUp(k)

\* As long as the calls are Careful, a terminated thread is on no kernel queue,
\* whatever it was doing and whether a thread terminated it, itself or another,
\* or an interrupt, the interrupted thread included unless the clock interrupt
\* is being served (_k_thread_single_abort): it is not on the run queue, on no
\* wait queue, and its timeout is not running.
DeadOffQueues ==
  \A t \in Thread : Has(t, "DEAD") =>
    /\ t \notin ToSet(k.runq)
    /\ \A w \in WaitQ : t \notin ToSet(k.waitq[w])
    /\ k.tmo[t] = "INACTIVE"

\* An interrupt in the middle of a call of t that has already chosen another
\* thread, or after which t may be preempted.
InterruptedGivingUp(t) ==
  Running(t) /\ \E x \in Between(t) :
    (x.cache # t \/ IsPreempt(x, t)) /\ (Interrupt(x) \/ TickStart(x))

\* Only those calls take the processor from a current thread that stays ready
\* and may not be preempted.
KeepsCpu ==
  LET t == k.cur
  IN  ~IsPreempt(k, t) /\ k.cache = t /\ k'.cache # t /\ IsReady(k', t)
        => \/ Yield(t) \/ UnlockSched(t)
           \/ \E u \in Thread, p \in Prio : ThreadPrioritySet(t, u, p)
           \/ InterruptedGivingUp(t)

\* No interrupt and no tick takes the processor from a ready thread that may
\* not be preempted (cooperative, or holding the scheduler lock): it stops being
\* the one to run next only in a k_yield(), k_sched_unlock() or
\* k_thread_priority_set() of its own, interrupted or not.  That every
\* k_sched_unlock() does so, an inner one too, and every
\* k_thread_priority_set(), is what the code does; kernel.h promises more.
NonPreemptibleKeepsCpu == [][KeepsCpu]_k

\* A ready thread subject to time slicing that no thread outranks.
Served(t) ==
  /\ IsReady(k, t) /\ k.prio[t] >= SlicePrio
  /\ \A u \in Thread : k.prio[t] <= k.prio[u]

\* Time slicing shares the processor: a ready preemptible thread that no
\* thread outranks gets it sooner or later, however often its equals yield,
\* sleep and wake up (handle_time_slicing, _move_thread_to_end_of_prio_q and
\* the slice accounting of _update_time_slice_before_swap).
SliceIsFair == \A t \in Thread : Served(t) ~> (k.cur = t \/ ~Served(t))
=============================================================================
