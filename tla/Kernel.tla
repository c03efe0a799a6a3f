------------------------------- MODULE Kernel -------------------------------
(***************************************************************************)
(* The scheduler core of the kernel: kernel/sched.c, kernel/include/       *)
(* ksched.h and the parts of timeout_q.h that touch threads, in the        *)
(* uniprocessor build the board uses (no CONFIG_SMP, CONFIG_SCHED_DUMB,     *)
(* CONFIG_WAITQ_DUMB, CONFIG_PREEMPT_ENABLED, no meta-IRQ priorities).      *)
(*                                                                         *)
(* The module has no variables.  The state of the kernel is one record k,  *)
(* the C functions are operators from k to k, and the modules that hold    *)
(* the kernel's objects compose them inside their actions: what the code   *)
(* does under irq_lock() is one action.                                    *)
(***************************************************************************)
EXTENDS Integers, Sequences, FiniteSets, SequencesExt

CONSTANTS
  Thread,       \* the application's threads
  Idle,         \* the idle thread, never in the run queue
  Prio,         \* thread priorities: negative is cooperative, smaller is higher
  WaitQ,        \* the wait queues of the kernel objects
  SliceTicks,   \* _time_slice_duration, in ticks; 0 turns time slicing off
  SlicePrio     \* _time_slice_prio_ceiling

ASSUME KernelAssumption ==
  /\ Idle \notin Thread
  /\ Prio \subseteq Int
  /\ SliceTicks \in Nat
  /\ SlicePrio \in Int

(***************************************************************************)
(* The state.  st[t] is the set of bits of thread_state, tmo[t] the state  *)
(* of the thread's timeout (_INACTIVE, linked in _timeout_q, or _EXPIRED), *)
(* locked[t] how often the thread has locked the scheduler (sched_locked   *)
(* counts down from 0), ret[t] the value _Swap() will return, slice is     *)
(* _time_slice_elapsed, and tick says that the system clock interrupt is   *)
(* being served.  moving and expiring are the threads whose timeouts its   *)
(* two loops hold a pointer to (Idle if none): the one it will look at     *)
(* next in _timeout_q, and the one it is about to handle.                  *)
(***************************************************************************)
Flag == {"PRESTART", "PENDING", "SUSPENDED", "DEAD", "QUEUED"}
Timeout == {"INACTIVE", "ACTIVE", "EXPIRED"}
SwapValue == {"EAGAIN", "OK", "ENOMSG", "EINTR"}

KernelState ==
  [cur: Thread \cup {Idle}, cache: Thread \cup {Idle}, runq: Seq(Thread),
   prio: [Thread -> Prio], st: [Thread -> SUBSET Flag],
   locked: [Thread -> Nat], tmo: [Thread -> Timeout],
   waitq: [WaitQ -> Seq(Thread)], ret: [Thread -> SwapValue],
   slice: Nat, tick: BOOLEAN, moving: Thread \cup {Idle},
   expiring: Thread \cup {Idle}]

-----------------------------------------------------------------------------
(***************************************************************************)
(* Priority queues kept as plain lists.                                    *)
(***************************************************************************)

\* Mutant: insert before the threads of equal priority.
PriqAddBeforeEquals(q, t, prio) ==
  InsertAt(q, Min({i \in 1 .. Len(q) : prio[t] <= prio[q[i]]} \cup {Len(q) + 1}), t)

\* Insert before the first thread of strictly lower priority: first in,
\* first out among equals.
PriqAdd(q, t, prio) ==
  InsertAt(q, Min({i \in 1 .. Len(q) : prio[t] < prio[q[i]]} \cup {Len(q) + 1}), t)

\* sys_dlist_remove().  The code unlinks only nodes it knows to be linked; q is
\* left alone when t is linked in another list.
PriqRemove(q, t) ==
  IF t \in ToSet(q) THEN RemoveAt(q, CHOOSE i \in 1 .. Len(q) : q[i] = t) ELSE q

PriqBest(q, none) == IF q = <<>> THEN none ELSE Head(q)

-----------------------------------------------------------------------------
(***************************************************************************)
(* Predicates on a thread.                                                 *)
(***************************************************************************)

Stopped == {"PRESTART", "PENDING", "SUSPENDED", "DEAD"}

IsReady(k, t) ==
  t = Idle \/ (k.st[t] \cap Stopped = {} /\ k.tmo[t] = "INACTIVE")

\* base.preempt overlays prio and sched_locked: it is below the threshold
\* only for a non-negative priority and an unlocked scheduler.
IsPreempt(k, t) == t = Idle \/ (k.prio[t] >= 0 /\ k.locked[t] = 0)

ShouldPreempt(k, preempt_ok) ==
  preempt_ok \/ ~IsReady(k, k.cur) \/ IsPreempt(k, k.cur)

-----------------------------------------------------------------------------
(***************************************************************************)
(* The ready queue and its cache.                                          *)
(***************************************************************************)

NextUp(k) == PriqBest(k.runq, Idle)

\* Mutant: do not ask whether the current thread may be preempted.
UpdateCacheEagerly(k, preempt_ok) == [k EXCEPT !.cache = NextUp(k)]

UpdateCache(k, preempt_ok) ==
  [k EXCEPT !.cache = IF ShouldPreempt(k, preempt_ok) THEN NextUp(k) ELSE k.cur]

AddToReadyQ(k, t) ==
  UpdateCache([k EXCEPT !.runq = PriqAdd(@, t, k.prio),
                        !.st[t] = @ \cup {"QUEUED"}], FALSE)

MoveToEndOfPrioQ(k, t) ==
  UpdateCache([k EXCEPT !.runq = PriqAdd(PriqRemove(@, t), t, k.prio),
                        !.st[t] = @ \cup {"QUEUED"}], FALSE)

\* Mutant: do not force the cache off a current thread that leaves.
RemoveUnforced(k, t) ==
  IF "QUEUED" \in k.st[t]
    THEN UpdateCache([k EXCEPT !.runq = PriqRemove(@, t),
                               !.st[t] = @ \ {"QUEUED"}], FALSE)
    ELSE k

RemoveFromReadyQ(k, t) ==
  IF "QUEUED" \in k.st[t]
    THEN UpdateCache([k EXCEPT !.runq = PriqRemove(@, t),
                               !.st[t] = @ \ {"QUEUED"}], t = k.cur)
    ELSE k

ReadyThread(k, t) == IF IsReady(k, t) THEN AddToReadyQ(k, t) ELSE k

-----------------------------------------------------------------------------
(***************************************************************************)
(* Context switches.  Swap is _Swap() called by the current thread,        *)
(* IntExit the switch an interrupt makes when it returns to a thread.      *)
(***************************************************************************)

Swap(k) ==
  [k EXCEPT !.cur = k.cache,
            !.ret = IF k.cur = Idle THEN @ ELSE [@ EXCEPT ![k.cur] = "EAGAIN"],
            !.slice = 0]

\* Thread t has read what its _Swap() returned.  The value is set again before
\* it is read again: any one stands for what is left of it.
Swapped(k, t) == [k EXCEPT !.ret[t] = "EAGAIN"]

Reschedule(k) == IF ~k.tick /\ k.cache # k.cur THEN Swap(k) ELSE k

IntExit(k) ==
  IF ~k.tick /\ k.cache # k.cur
    THEN [k EXCEPT !.cur = k.cache, !.slice = 0] ELSE k

\* The end of a critical section made at interrupt level, or by a thread.
Leave(isr, k) == IF isr THEN IntExit(k) ELSE Reschedule(k)

-----------------------------------------------------------------------------
(***************************************************************************)
(* Waiting for an object, with a timeout or for ever.                      *)
(***************************************************************************)

AddThreadTimeout(k, t) == [k EXCEPT !.tmo[t] = "ACTIVE"]

\* Aborting a timeout that is _EXPIRED also adds its -2 to whatever follows it
\* on the local list of the clock interrupt.  For a thread that comes after it,
\* this leaves a value that is neither _INACTIVE nor _EXPIRED; only
\* signal_poll_event() would tell it from _EXPIRED, so the model keeps that.
\* What it does to the memory behind the head of that list is left out.
AbortThreadTimeout(k, t) == [k EXCEPT !.tmo[t] = "INACTIVE"]

Pend(k, t, w, forever) ==
  LET removed == RemoveFromReadyQ(k, t)
      marked  == [removed EXCEPT !.st[t] = @ \cup {"PENDING"}]
      timed   == IF forever THEN marked ELSE AddThreadTimeout(marked, t)
  IN  [timed EXCEPT !.waitq[w] = PriqAdd(@, t, k.prio)]

PendCurrent(k, w, forever) == Swap(Pend(k, k.cur, w, forever))

UnpendNoTimeout(k, t) ==
  [k EXCEPT !.waitq = [w \in WaitQ |-> PriqRemove(@[w], t)],
            !.st[t] = @ \ {"PENDING"}]

Unpend(k, t) == AbortThreadTimeout(UnpendNoTimeout(k, t), t)

HasWaiter(k, w) == k.waitq[w] # <<>>

Waiter(k, w) == Head(k.waitq[w])

\* The body shared by the calls that hand something to the first waiter.
WakeFirst(k, w, value) ==
  LET t == Waiter(k, w)
  IN  [ReadyThread(Unpend(k, t), t) EXCEPT !.ret[t] = value]

\* Mutant: leave the thread on its wait queue.
HandleExpiredStillQueued(k, t) ==
  ReadyThread([k EXCEPT !.tmo[t] = "INACTIVE", !.st[t] = @ \ {"PENDING", "PRESTART"}], t)

\* _handle_one_expired_timeout() for the timeout of a thread, which it takes to
\* be where its timeout left it: in the wait queue, or in no list.
HandleExpired(k, t) ==
  LET unpended == UnpendNoTimeout([k EXCEPT !.tmo[t] = "INACTIVE"], t)
  IN  ReadyThread([unpended EXCEPT !.st[t] = @ \ {"PRESTART"}], t)

(***************************************************************************)
(* The calls that switch whether the current thread is preemptible or not. *)
(* Each fills the cache in one critical section (Reprioritized, Unlocked,  *)
(* Yielded) and reschedules in another.                                    *)
(***************************************************************************)

Reprioritized(k, t, p) ==
  UpdateCache([k EXCEPT !.prio[t] = p,
                        !.runq = PriqAdd(PriqRemove(@, t), t, [k.prio EXCEPT ![t] = p])],
              TRUE)

\* Mutant: change the priority of a ready thread where it stands.
PrioritySetInPlace(k, t, p) == Reschedule(UpdateCache([k EXCEPT !.prio[t] = p], TRUE))

PrioritySet(k, t, p) ==
  IF IsReady(k, t) THEN Reschedule(Reprioritized(k, t, p)) ELSE [k EXCEPT !.prio[t] = p]

SchedLock(k) == [k EXCEPT !.locked[k.cur] = @ + 1]

Unlocked(k) == UpdateCache([k EXCEPT !.locked[k.cur] = @ - 1], TRUE)

SchedUnlock(k) == Reschedule(Unlocked(k))

Yielded(k) ==
  UpdateCache([k EXCEPT !.runq = PriqAdd(PriqRemove(@, k.cur), k.cur, k.prio)], TRUE)
-----------------------------------------------------------------------------
(***************************************************************************)
(* What the code relies on between two critical sections.                  *)
(***************************************************************************)

NoDuplicates(q) == \A i, j \in 1 .. Len(q) : q[i] = q[j] => i = j

Sorted(q, prio) == \A i, j \in 1 .. Len(q) : i < j => prio[q[i]] <= prio[q[j]]

\* The run queue holds every ready thread once and nothing else, in priority
\* order, and _THREAD_QUEUED says so.
RunQOk(x) ==
  /\ NoDuplicates(x.runq)
  /\ Sorted(x.runq, x.prio)
  /\ \A t \in Thread : (t \in ToSet(x.runq)) <=> IsReady(x, t)
  /\ \A t \in Thread : (t \in ToSet(x.runq)) <=> ("QUEUED" \in x.st[t])

\* A pending thread is in exactly one wait queue, once.
WaitQOk(x) ==
  /\ \A w \in WaitQ : NoDuplicates(x.waitq[w])
  /\ \A w \in WaitQ : \A t \in ToSet(x.waitq[w]) : "PENDING" \in x.st[t]
  /\ \A t \in Thread : "PENDING" \in x.st[t] => \E w \in WaitQ : t \in ToSet(x.waitq[w])
  /\ \A v, w \in WaitQ : v # w => ToSet(x.waitq[v]) \cap ToSet(x.waitq[w]) = {}

\* A terminated thread waits for nothing.
DeadOk(x) ==
  \A t \in Thread : "DEAD" \in x.st[t] => "PENDING" \notin x.st[t] /\ x.tmo[t] = "INACTIVE"

\* The cache names the thread the next switch goes to: the best ready thread,
\* or the current one if it is ready and may not be preempted.
CacheOk(x) ==
  \/ x.cache = NextUp(x)
  \/ x.cache = x.cur /\ IsReady(x, x.cur) /\ ~IsPreempt(x, x.cur)

\* Only an interrupt in progress may leave a switch to be made.
SwitchOk(x) == ~x.tick => x.cur = x.cache
=============================================================================
