-------------------------------- MODULE Sem --------------------------------
(***************************************************************************)
(* A semaphore: kernel/sem.c and the inline k_sem_reset() of kernel.h, on  *)
(* top of the scheduler.  Giving and taking are critical sections, so each *)
(* is one action; a thread that had to wait returns from k_sem_take() in a *)
(* step of its own, when it runs again.                                    *)
(***************************************************************************)
EXTENDS Sched

CONSTANTS
  Semaphore,    \* its wait queue
  Limit,        \* its limit
  NoCall        \* a thread outside k_sem_take()

ASSUME SemAssumption == Semaphore \in WaitQ /\ Limit \in Nat \ {0} /\ NoCall \notin WaitQ

VARIABLES
  count,        \* sem->count
  call,         \* call[t]: the semaphore whose k_sem_take() t is waiting in
  ahead         \* history: the pairs of waiting threads of which the first has
                \* waited longer

semVars == <<k, count, call, ahead>>

SemInit ==
  /\ Init
  /\ count \in 0 .. Limit
  /\ call = [t \in Thread |-> NoCall]
  /\ ahead = {}

Free(t) == Running(t) /\ call[t] = NoCall

InLine(t) == "PENDING" \in k.st[t] /\ call[t] = Semaphore

\* Who goes on waiting stays ahead, and is ahead of who begins to wait.
Queueing ==
  ahead' = {p \in Thread \X Thread :
              /\ InLine(p[1]) /\ InLine(p[1])' /\ InLine(p[2])'
              /\ p \in ahead \/ ~InLine(p[2])}

-----------------------------------------------------------------------------
\* do_sem_give() on the kernel's state and on the count.
Given == IF HasWaiter(k, Semaphore) THEN WakeFirst(k, Semaphore, "OK") ELSE k

\* Mutant: count past the limit.
CountedPastLimit == IF HasWaiter(k, Semaphore) THEN count ELSE count + 1

\* Mutant: count a unit that was handed to a waiter.
CountedAlways == IF count = Limit THEN count ELSE count + 1

Counted ==
  IF HasWaiter(k, Semaphore) \/ count = Limit THEN count ELSE count + 1

SemGive(t) ==
  Free(t) /\ k' = Reschedule(Given) /\ count' = Counted /\ UNCHANGED call

IsrGive == k' = IntExit(Given) /\ count' = Counted /\ UNCHANGED call

\* k_sem_take() with K_NO_WAIT on an unavailable semaphore returns -EBUSY and
\* changes nothing.
SemTake(t) ==
  Free(t) /\ count > 0 /\ count' = count - 1 /\ UNCHANGED <<k, call>>

\* Mutant: wait on a count that was read before irq_lock().
SemWaitUnchecked(t, forever) ==
  /\ Free(t)
  /\ k' = PendCurrent(k, Semaphore, forever)
  /\ call' = [call EXCEPT ![t] = Semaphore]
  /\ UNCHANGED count

SemWait(t, forever) ==
  /\ Free(t) /\ count = 0
  /\ k' = PendCurrent(k, Semaphore, forever)
  /\ call' = [call EXCEPT ![t] = Semaphore]
  /\ UNCHANGED count

\* The return value is k.ret[t]: "OK", or "EAGAIN" after a timeout.
SemReturn(t) ==
  /\ Running(t) /\ call[t] = Semaphore
  /\ call' = [call EXCEPT ![t] = NoCall]
  /\ UNCHANGED <<k, count>>

\* An interrupt may take the semaphore without waiting.
IsrTake == count > 0 /\ count' = count - 1 /\ UNCHANGED <<k, call>>

SemReset(t) == Free(t) /\ count' = 0 /\ UNCHANGED <<k, call>>

-----------------------------------------------------------------------------
\* The scheduler's own operations, while threads use the semaphore.
SchedStep ==
  /\ \/ Tick
     \/ \E u \in Thread : IsrResume(k, u) \/ IsrWakeup(k, u)
     \/ \E t, u \in Thread :
          /\ Free(t)
          /\ \/ ThreadStart(t, u) \/ ThreadSuspend(t, u) \/ ThreadResume(t, u)
             \/ Wakeup(t, u) \/ Sleep(t)
  /\ UNCHANGED <<count, call>>

\* An aborted thread never returns from its call.
Abort ==
  \E u \in Thread :
    /\ IsrAbort(k, u) \/ \E t \in Thread : Free(t) /\ ThreadAbort(t, u)
    /\ call' = [call EXCEPT ![u] = NoCall]
    /\ UNCHANGED count

SemCall(t) ==
  \/ SemGive(t) \/ SemTake(t) \/ SemReturn(t) \/ SemReset(t)
  \/ \E forever \in BOOLEAN : SemWait(t, forever)

SemNext ==
  (SchedStep \/ Abort \/ IsrGive \/ IsrTake \/ \E t \in Thread : SemCall(t)) /\ Queueing

SemSpec == SemInit /\ [][SemNext]_semVars

\* The behaviours of SemSpec in which Careful always holds.
CarefulSemSpec == SemInit /\ [][SemNext /\ Careful']_semVars

-----------------------------------------------------------------------------
(***************************************************************************)
(* Properties.                                                             *)
(***************************************************************************)

\* The semaphore and its callers have their types; the count stays between zero
\* and the limit (increment_count_up_to_limit, _impl_k_sem_take).
SemTypeOK ==
  /\ TypeOK
  /\ count \in 0 .. Limit
  /\ call \in [Thread -> {Semaphore, NoCall}]
  /\ ahead \subseteq Thread \X Thread

\* As long as no interrupt deals with a thread whose timeout the clock interrupt
\* holds (Careful), timeouts, gives, aborts and suspensions leave each pending
\* thread on its wait queue exactly once, and only pending threads there, while
\* the run queue stays exact (pend, _unpend_thread, _handle_one_expired_timeout).
WaitQueuesExact == WaitQOk(k) /\ RunQOk(k)

\* No lost wakeup: while a thread waits for the semaphore its count is zero,
\* so no unit is ever left lying beside a sleeping taker (do_sem_give).
NoUnitBesideWaiter == HasWaiter(k, Semaphore) => count = 0

OrderedService ==
  \A t \in Thread :
    InLine(t) /\ k.ret[t] = "EAGAIN" /\ k'.ret[t] = "OK"
      => \A u \in Thread : InLine(u) =>
           k.prio[t] < k.prio[u] \/ (k.prio[t] = k.prio[u] /\ <<u, t>> \notin ahead)

\* The semaphore is given to the highest priority thread that has waited
\* longest (_pend_current_thread and _unpend_first_thread).
ServedInOrder == [][OrderedService]_semVars

\* How far a thread has got, as a user of the semaphore sees it.
Status ==
  [t \in Thread |-> IF call[t] = NoCall THEN "out"
                    ELSE IF "PENDING" \in k.st[t] THEN "waiting"
                    ELSE IF k.ret[t] = "OK" THEN "granted" ELSE "failed"]

Abstract == INSTANCE SemAbstract WITH value <- count, status <- Status

\* Every behaviour of sem.c is one of the abstract semaphore: each unit given
\* is taken once, a wait ends once, and a thread whose timeout races with a
\* give returns the one result that decided it.  A waiter marked _EXPIRED that
\* is not handled yet may still be given the unit and then returns with it,
\* although the comment at sys_clock.c:162-164 says that it will not be.
ImplementsSemaphore == Abstract!Spec
=============================================================================
