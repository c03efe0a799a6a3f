---------------------------- MODULE MutexProofs ----------------------------
(***************************************************************************)
(* Mutexes.  The types hold in every behaviour.  What a mutex is for       *)
(* (mutual exclusion, waiters that have an owner, inheritance that is in   *)
(* force and is given back) holds as long as no thread is switched out     *)
(* inside adjust_owner_prio(), for every set of threads and priorities:    *)
(* that switch is the one thing in mutex.c that breaks it.                 *)
(***************************************************************************)
EXTENDS Mutex, SchedProofs

-----------------------------------------------------------------------------
(***************************************************************************)
(* The scheduler's operators and the scheduler lock.                       *)
(***************************************************************************)

\* Nothing but k_sched_lock() and k_sched_unlock() touches the lock count.
LEMMA LockedKept ==
  ASSUME NEW x \in KernelState, NEW w \in WaitQ, NEW value, NEW forever \in BOOLEAN
  PROVE  /\ Reschedule(x).locked = x.locked /\ IntExit(x).locked = x.locked
         /\ WakeFirst(x, w, value).locked = x.locked
         /\ PendCurrent(x, w, forever).locked = x.locked
<1>1. Reschedule(x).locked = x.locked /\ IntExit(x).locked = x.locked
  BY DEF Reschedule, IntExit, Swap, KernelState
<1>2. WakeFirst(x, w, value).locked = x.locked
  BY DEF WakeFirst, ReadyThread, AddToReadyQ, UpdateCache, Unpend, UnpendNoTimeout,
     AbortThreadTimeout, KernelState
<1>3. PendCurrent(x, w, forever).locked = x.locked
  BY DEF PendCurrent, Pend, Swap, RemoveFromReadyQ, UpdateCache, AddThreadTimeout, KernelState
<1> QED
  BY <1>1, <1>2, <1>3

\* A state in which a thread runs.
Serving(x) == Inv(x) /\ DeadOk(x) /\ ~x.tick

\* update_cache(1) and _reschedule().
LEMMA ForcedWaits ==
  ASSUME NEW x \in KernelState, NEW y, y = Reschedule(UpdateCache(x, TRUE))
  PROVE  WaitsKept(x, y) /\ RetKept(x, y, x.cur) /\ y.locked = x.locked /\ y.tick = x.tick
<1> DEFINE z == UpdateCache(x, TRUE)
<1>1. z \in KernelState
  BY UpdateCacheFrame
<1>2. WaitsKept(x, z) /\ z.ret = x.ret /\ z.cur = x.cur /\ z.locked = x.locked /\ z.tick = x.tick
  BY DEF UpdateCache, WaitsKept, Waits, KernelState
<1> HIDE DEF z
<1>3. WaitsKept(z, Reschedule(z)) /\ RetKept(z, Reschedule(z), z.cur)
  BY <1>1, WaitsSwitches
<1>4. Reschedule(z).locked = z.locked /\ Reschedule(z).tick = z.tick
  BY <1>1 DEF Reschedule, Swap, KernelState
<1>5. y = Reschedule(z)
  BY DEF z
<1> QED
  BY <1>2, <1>3, <1>4, <1>5, WaitsTrans DEF RetKept

\* k_sched_lock().
LEMMA SchedLockStep ==
  ASSUME NEW x, Serving(x), NEW t \in Thread, x.cur = t, x.cache = t, NEW y, y = SchedLock(x)
  PROVE  /\ Serving(y) /\ y.cur = t /\ y.cache = t
         /\ WaitsKept(x, y) /\ y.ret = x.ret
         /\ y.locked = [x.locked EXCEPT ![t] = @ + 1]
<1>1. x \in KernelState /\ RunQOk(x) /\ WaitQOk(x) /\ IsReady(x, t) /\ DeadOk(x) /\ ~x.tick
  BY DEF Serving, Inv
<1>2. x.locked[t] \in Nat /\ x.locked[t] + 1 \in Nat
  BY <1>1 DEF KernelState
<1>3. /\ y \in KernelState
      /\ y.cur = x.cur /\ y.cache = x.cache /\ y.runq = x.runq /\ y.tick = x.tick
      /\ y.st = x.st /\ y.tmo = x.tmo /\ y.waitq = x.waitq /\ y.prio = x.prio /\ y.ret = x.ret
      /\ y.locked = [x.locked EXCEPT ![t] = @ + 1]
  BY <1>1, <1>2 DEF SchedLock, KernelState
<1>4. \A u : IsReady(y, u) <=> IsReady(x, u)
  BY <1>3 DEF IsReady
<1>5. RunQOk(y) /\ WaitQOk(y) /\ DeadOk(y)
  BY <1>1, <1>3, <1>4 DEF RunQOk, WaitQOk, DeadOk
<1>6. y.locked[t] # 0
  BY <1>1, <1>2, <1>3 DEF KernelState
<1>7. ~IsPreempt(y, t)
  BY <1>6, KernelAssumption DEF IsPreempt
<1>8. Inv(y)
  BY <1>1, <1>3, <1>4, <1>5, <1>7 DEF Inv, CacheOk
<1> QED
  BY <1>1, <1>3, <1>5, <1>8 DEF Serving, WaitsKept, Waits

\* k_sched_unlock().
LEMMA SchedUnlockStep ==
  ASSUME NEW x, Serving(x), NEW t \in Thread, x.cur = t, x.locked[t] > 0,
         NEW y, y = SchedUnlock(x)
  PROVE  /\ Serving(y) /\ SwitchOk(y)
         /\ WaitsKept(x, y) /\ RetKept(x, y, t)
         /\ y.locked = [x.locked EXCEPT ![t] = @ - 1]
<1> DEFINE z == [x EXCEPT !.locked[x.cur] = @ - 1]
<1>1. /\ x \in KernelState /\ RunQOk(x) /\ WaitQOk(x) /\ DeadOk(x) /\ ~x.tick
      /\ y = Reschedule(UpdateCache(z, TRUE))
  BY DEF Serving, Inv, SchedUnlock, Unlocked
<1>2. x.locked \in [Thread -> Nat] /\ x.locked[t] - 1 \in Nat
  BY <1>1 DEF KernelState
<1>3. /\ z \in KernelState /\ z.runq = x.runq /\ z.tick = x.tick /\ z.cur = x.cur
      /\ z.st = x.st /\ z.tmo = x.tmo /\ z.waitq = x.waitq /\ z.prio = x.prio /\ z.ret = x.ret
      /\ z.locked = [x.locked EXCEPT ![t] = @ - 1]
  BY <1>1, <1>2 DEF KernelState
<1> HIDE DEF z
<1>4. \A u : IsReady(z, u) <=> IsReady(x, u)
  BY <1>3 DEF IsReady
<1>5. RunQOk(z) /\ WaitQOk(z) /\ DeadOk(z) /\ ~z.tick /\ WaitsKept(x, z)
  BY <1>1, <1>3, <1>4 DEF RunQOk, WaitQOk, DeadOk, WaitsKept, Waits
<1>6. Inv(y) /\ SwitchOk(y) /\ DeadOk(y)
  BY <1>1, <1>3, <1>5, ForcedStep
<1>7. WaitsKept(z, y) /\ RetKept(z, y, z.cur) /\ y.locked = z.locked /\ y.tick = z.tick
  BY <1>1, <1>3, ForcedWaits
<1> QED
  BY <1>3, <1>5, <1>6, <1>7, WaitsTrans DEF Serving, RetKept

\* From x to y thread u gets priority p; no wait begins or ends.
PrioChanged(x, y, u, p) ==
  /\ y.waitq = x.waitq /\ y.prio = [x.prio EXCEPT ![u] = p]
  /\ \A t \in Thread : Waits(y, t) <=> Waits(x, t)

\* _thread_priority_set().
LEMMA PrioritySetStep ==
  ASSUME NEW x, Serving(x), SwitchOk(x), NEW u \in Thread, NEW p \in Prio,
         NEW y, y = PrioritySet(x, u, p)
  PROVE  /\ Serving(y) /\ SwitchOk(y)
         /\ PrioChanged(x, y, u, p) /\ RetKept(x, y, x.cur) /\ y.locked = x.locked
<1>1. x \in KernelState /\ Inv(x) /\ DeadOk(x) /\ ~x.tick
  BY DEF Serving, Inv
<1>2. CASE IsReady(x, u)
  <2> DEFINE z == [x EXCEPT !.prio[u] = p,
                            !.runq = PriqAdd(PriqRemove(@, u), u, [x.prio EXCEPT ![u] = p])]
  <2>1. y = Reschedule(UpdateCache(z, TRUE))
    BY <1>2 DEF PrioritySet, Reprioritized
  <2>2. /\ z \in KernelState /\ RunQOk(z) /\ WaitQOk(z) /\ z.cur = x.cur
        /\ z.tick = x.tick /\ z.st = x.st
    BY <1>1, <1>2, Requeue
  <2>3. /\ z.tmo = x.tmo /\ z.waitq = x.waitq /\ z.ret = x.ret /\ z.locked = x.locked
        /\ z.prio = [x.prio EXCEPT ![u] = p]
    BY <1>1 DEF KernelState
  <2> HIDE DEF z
  <2>4. DeadOk(z) /\ ~z.tick
    BY <1>1, <2>2, <2>3 DEF DeadOk
  <2>5. Inv(y) /\ SwitchOk(y) /\ DeadOk(y)
    BY <2>1, <2>2, <2>4, ForcedStep
  <2>6. WaitsKept(z, y) /\ RetKept(z, y, z.cur) /\ y.locked = z.locked /\ y.tick = z.tick
    BY <2>1, <2>2, ForcedWaits
  <2> QED
    BY <2>2, <2>3, <2>4, <2>5, <2>6 DEF Serving, WaitsKept, PrioChanged, RetKept, Waits
<1>3. CASE ~IsReady(x, u)
  <2> DEFINE n == x.locked[u]
             z == [x EXCEPT !.prio[u] = p, !.locked[u] = n]
  <2>1. Near(x, u) /\ n \in Nat
    BY <1>1, <1>3, StoppedIsNear DEF KernelState
  <2>2. Near(z, u)
    BY <2>1, Reparam
  <2>3. y = z
    <3>1. y = [x EXCEPT !.prio[u] = p]
      BY <1>3 DEF PrioritySet
    <3>2. [x.locked EXCEPT ![u] = n] = x.locked
      BY <1>1 DEF KernelState
    <3> QED
      BY <1>1, <3>1, <3>2 DEF KernelState
  <2>4. /\ z.st = x.st /\ z.tmo = x.tmo /\ z.cur = x.cur /\ z.cache = x.cache /\ z.tick = x.tick
        /\ z.waitq = x.waitq /\ z.ret = x.ret /\ z.prio = [x.prio EXCEPT ![u] = p]
        /\ z.locked = x.locked
    BY <1>1 DEF KernelState
  <2> HIDE DEF z
  <2>5. ~IsReady(z, u) /\ DeadOk(z) /\ SwitchOk(z)
    BY <1>1, <1>3, <2>4 DEF IsReady, DeadOk, SwitchOk
  <2>6. Inv(z)
    BY <2>2, <2>5, NearStopped
  <2> QED
    BY <1>1, <2>3, <2>4, <2>5, <2>6 DEF Serving, PrioChanged, RetKept, Waits
<1> QED
  BY <1>2, <1>3

-----------------------------------------------------------------------------
(***************************************************************************)
(* The inductive invariant behind the types.                               *)
(***************************************************************************)

Place == {"out", "lock", "pend for ever", "pend with timeout", "wait",
          "expired", "restored", "unlock", "handoff", "fault"}

MutexTypes ==
  /\ owner \in Thread \cup {NoThread} /\ lock_count \in Nat /\ orig \in Prio
  /\ new_prio \in [Thread -> Prio] /\ base \in [Thread -> Prio]
  /\ held \in [Thread -> 0 .. MaxCount] /\ pc \in [Thread -> Place]

\* Where a thread cannot be preempted nor has it given up the processor.
Inside == {"lock", "expired", "unlock"}

\* Where a thread has still to get the lock it asked for.
Asking == {"lock", "pend for ever", "pend with timeout", "wait"}

\* A thread inside a call has locked the scheduler once, and runs unless it
\* has swapped; the one about to restore its priority is the owner.
Inner ==
  \A t \in Thread :
    /\ k.locked[t] = IF pc[t] = "out" THEN 0 ELSE 1
    /\ pc[t] \in Inside => k.cur = t /\ k.cache = t
    /\ pc[t] = "unlock" => owner = t
    /\ pc[t] \in Asking => held[t] < MaxCount

TypeInv == SchedInv /\ MutexTypes /\ Inner

\* The thread that runs waits for nothing and the scheduler serves it.
LEMMA RunnerFacts ==
  ASSUME TypeInv, NEW t \in Thread, Running(t)
  PROVE  /\ Serving(k) /\ SwitchOk(k) /\ k.cur = t /\ k.cache = t /\ ~k.tick
         /\ ~Waits(k, t) /\ k.locked \in [Thread -> Nat] /\ k \in KernelState
         /\ \A u \in Thread : u # t => pc[u] \notin Inside
<1>1. Inv(k) /\ SwitchOk(k) /\ DeadOk(k) /\ k.cur = t /\ ~k.tick
  BY DEF TypeInv, SchedInv, Running
<1>2. k \in KernelState /\ IsReady(k, t)
  BY <1>1 DEF Inv
<1>3. ~Waits(k, t)
  BY <1>2, KernelAssumption DEF IsReady, Stopped, Waits
<1>4. k.locked \in [Thread -> Nat]
  BY <1>2 DEF KernelState
<1>5. \A u \in Thread : u # t => pc[u] \notin Inside
  BY <1>1 DEF TypeInv, Inner
<1> QED
  BY <1>1, <1>2, <1>3, <1>4, <1>5 DEF Serving, SwitchOk

\* k_sched_lock() at the beginning of a call.
LEMMA EnterFacts ==
  ASSUME TypeInv, NEW t \in Thread, At(t, "out"), NEW y, y = SchedLock(k)
  PROVE  /\ Serving(y) /\ SwitchOk(y) /\ y.cur = t /\ y.cache = t
         /\ WaitsKept(k, y) /\ y.ret = k.ret /\ y.locked = [k.locked EXCEPT ![t] = 1]
<1>1. Serving(k) /\ k.cur = t /\ k.cache = t /\ k.locked[t] = 0
  BY RunnerFacts DEF At, TypeInv, Inner
<1>2. /\ Serving(y) /\ y.cur = t /\ y.cache = t
      /\ WaitsKept(k, y) /\ y.ret = k.ret
      /\ y.locked = [k.locked EXCEPT ![t] = @ + 1]
  BY <1>1, SchedLockStep
<1>3. k.locked[t] + 1 = 1
  BY <1>1
<1> QED
  BY <1>2, <1>3 DEF SwitchOk

\* k_sched_unlock() at its end.
LEMMA LeaveFacts ==
  ASSUME TypeInv, NEW t \in Thread, Running(t), pc[t] # "out", NEW x, Serving(x),
         x.cur = t, x.locked = k.locked, NEW y, y = SchedUnlock(x)
  PROVE  /\ Serving(y) /\ SwitchOk(y)
         /\ WaitsKept(x, y) /\ RetKept(x, y, t) /\ y.locked = [k.locked EXCEPT ![t] = 0]
<1>1. k.locked[t] = 1
  BY DEF TypeInv, Inner
<1>2. x.locked[t] > 0 /\ x.locked[t] - 1 = 0
  BY <1>1
<1>3. /\ Serving(y) /\ SwitchOk(y) /\ WaitsKept(x, y) /\ RetKept(x, y, t)
      /\ y.locked = [x.locked EXCEPT ![t] = @ - 1]
  BY <1>2, SchedUnlockStep
<1> QED
  BY <1>2, <1>3

\* adjust_owner_prio().
LEMMA AdjustFacts ==
  ASSUME TypeInv, NEW t \in Thread, Running(t), owner \in Thread, NEW p \in Prio,
         NEW y, y = AdjustOwnerPrio(k, p)
  PROVE  /\ Serving(y) /\ SwitchOk(y)
         /\ PrioChanged(k, y, owner, p) /\ RetKept(k, y, t) /\ y.locked = k.locked
<1>1. Serving(k) /\ SwitchOk(k) /\ k.cur = t /\ k \in KernelState
  BY RunnerFacts
<1>2. CASE k.prio[owner] # p
  BY <1>1, <1>2, PrioritySetStep DEF AdjustOwnerPrio
<1>3. CASE k.prio[owner] = p
  <2>1. y = k
    BY <1>3 DEF AdjustOwnerPrio
  <2>2. k.prio = [k.prio EXCEPT ![owner] = p]
    BY <1>1, <1>3 DEF KernelState
  <2> QED
    BY <1>1, <2>1, <2>2 DEF PrioChanged, RetKept
<1> QED
  BY <1>2, <1>3

\* The priority a waiter of priority target raises the owner to.
Inherited(target) ==
  LET p == NewPrioForInheritance(target, k.prio[owner])
  IN  IF p < k.prio[owner] THEN p ELSE k.prio[owner]

LEMMA InheritedType ==
  ASSUME NEW target \in Prio, NEW limit \in Prio
  PROVE  NewPrioForInheritance(target, limit) \in Prio
  BY MutexAssumption DEF NewPrioForInheritance

\* The first half of k_mutex_lock()'s wait.
LEMMA RaiseFacts ==
  ASSUME TypeInv, NEW t \in Thread, Running(t), owner \in Thread,
         NEW p, p = NewPrioForInheritance(k.prio[t], k.prio[owner]),
         NEW y, y = IF p < k.prio[owner] THEN AdjustOwnerPrio(k, p) ELSE k
  PROVE  /\ Serving(y) /\ SwitchOk(y) /\ Inherited(k.prio[t]) \in Prio
         /\ PrioChanged(k, y, owner, Inherited(k.prio[t]))
         /\ RetKept(k, y, t) /\ y.locked = k.locked
<1>1. Serving(k) /\ SwitchOk(k) /\ k \in KernelState
  BY RunnerFacts
<1>2. k.prio \in [Thread -> Prio]
  BY <1>1 DEF KernelState
<1>3. p \in Prio
  BY <1>2, InheritedType
<1>4. CASE p < k.prio[owner]
  <2>1. Inherited(k.prio[t]) = p
    BY <1>4 DEF Inherited
  <2>2. y = AdjustOwnerPrio(k, p)
    BY <1>4
  <2> QED
    BY <1>3, <2>1, <2>2, AdjustFacts
<1>5. CASE ~(p < k.prio[owner])
  <2>1. Inherited(k.prio[t]) = k.prio[owner] /\ y = k
    BY <1>5 DEF Inherited
  <2>2. k.prio = [k.prio EXCEPT ![owner] = k.prio[owner]]
    BY <1>2
  <2> QED
    BY <1>1, <1>2, <2>1, <2>2 DEF PrioChanged, RetKept
<1> QED
  BY <1>4, <1>5

\* _pend_current_thread() on the mutex.
LEMMA PendFacts ==
  ASSUME NEW x, Serving(x), NEW t \in Thread, x.cur = t, NEW forever \in BOOLEAN,
         NEW y, y = PendCurrent(x, MutexQ, forever)
  PROVE  /\ Serving(y) /\ SwitchOk(y) /\ WaitBegun(x, y, t, MutexQ)
         /\ RetKept(x, y, t) /\ y.ret[t] = "EAGAIN" /\ y.locked = x.locked
<1>1. Inv(x) /\ DeadOk(x) /\ ~x.tick /\ x \in KernelState /\ MutexQ \in WaitQ
  BY MutexAssumption DEF Serving, Inv
<1>2. /\ Inv(y) /\ DeadOk(y) /\ y.cur = y.cache /\ y.tick = x.tick
      /\ WaitBegun(x, y, t, MutexQ) /\ RetKept(x, y, t) /\ y.ret[t] = "EAGAIN"
  BY <1>1, PendCurrentStep
<1>3. y.locked = x.locked
  BY <1>1, LockedKept
<1> QED
  BY <1>1, <1>2, <1>3 DEF Serving, SwitchOk

\* Handing the mutex to its first waiter.
LEMMA WakeFacts ==
  ASSUME NEW x, Serving(x), HasWaiter(x, MutexQ), NEW y, y = WakeFirst(x, MutexQ, "OK"),
         NEW w, w = Waiter(x, MutexQ)
  PROVE  /\ w \in Thread /\ w \in ToSet(x.waitq[MutexQ]) /\ Waits(x, w) /\ w # x.cur
         /\ w = x.waitq[MutexQ][1]
         /\ Serving(y) /\ WaitEnded(x, y, w) /\ y.cur = x.cur
         /\ y.ret = [x.ret EXCEPT ![w] = "OK"] /\ y.locked = x.locked
<1>1. Inv(x) /\ DeadOk(x) /\ ~x.tick /\ x \in KernelState /\ MutexQ \in WaitQ
  BY MutexAssumption DEF Serving, Inv
<1>2. "OK" \in SwapValue
  BY DEF SwapValue
<1>3. /\ w \in Thread /\ w \in ToSet(x.waitq[MutexQ]) /\ Waits(x, w) /\ w # x.cur
      /\ w = x.waitq[MutexQ][1]
  BY <1>1, WaiterType
<1>4. /\ Inv(y) /\ DeadOk(y) /\ WaitEnded(x, y, w) /\ y.cur = x.cur /\ y.tick = x.tick
      /\ y.ret = [x.ret EXCEPT ![w] = "OK"]
  BY <1>1, <1>2, WakeFirstStep
<1>5. y.locked = x.locked
  BY <1>1, LockedKept
<1> QED
  BY <1>1, <1>3, <1>4, <1>5 DEF Serving

\* A step of the running thread t that takes it to the place there.
LEMMA OwnStep ==
  ASSUME TypeInv, NEW t \in Thread, Running(t), NEW there \in Place, Goto(t, there),
         Serving(k'), SwitchOk(k'), MutexTypes',
         k'.locked = [k.locked EXCEPT ![t] = IF there = "out" THEN 0 ELSE 1],
         there \in Inside => k'.cur = t /\ k'.cache = t,
         there = "unlock" => owner' = t,
         there \in Asking => held'[t] < MaxCount,
         \A u \in Thread : u # t => held'[u] = held[u]
  PROVE  TypeInv'
<1>1. /\ k.locked \in [Thread -> Nat] /\ pc \in [Thread -> Place]
      /\ \A u \in Thread : u # t => pc[u] \notin Inside
  BY RunnerFacts DEF TypeInv, MutexTypes
<1>2. /\ pc'[t] = there /\ \A u \in Thread : u # t => pc'[u] = pc[u]
      /\ k'.locked[t] = IF there = "out" THEN 0 ELSE 1
      /\ \A u \in Thread : u # t => k'.locked[u] = k.locked[u]
  BY <1>1 DEF Goto
<1>3. /\ \A u \in Thread : k'.locked[u] = IF pc'[u] = "out" THEN 0 ELSE 1
      /\ \A u \in Thread : pc'[u] \in Inside => k'.cur = u /\ k'.cache = u
      /\ \A u \in Thread : pc'[u] = "unlock" => owner' = u
      /\ \A u \in Thread : pc'[u] \in Asking => held'[u] < MaxCount
  BY <1>1, <1>2 DEF TypeInv, Inner, Inside
<1>4. SchedInv'
  BY DEF Serving, SchedInv
<1> QED
  BY <1>3, <1>4 DEF TypeInv, Inner

\* Types of what a step assigns.
LEMMA TypeFacts ==
  ASSUME TypeInv, NEW t \in Thread
  PROVE  /\ k.prio \in [Thread -> Prio] /\ held[t] \in 0 .. MaxCount
         /\ pc \in [Thread -> Place] /\ \A here \in Place : [pc EXCEPT ![t] = here] \in [Thread -> Place]
         /\ held[t] < MaxCount => [held EXCEPT ![t] = @ + 1] \in [Thread -> 0 .. MaxCount]
         /\ held[t] > 0 => [held EXCEPT ![t] = @ - 1] \in [Thread -> 0 .. MaxCount]
         /\ \A p \in Prio : [new_prio EXCEPT ![t] = p] \in [Thread -> Prio]
<1>1. k.prio \in [Thread -> Prio]
  BY DEF TypeInv, SchedInv, Inv, KernelState
<1>2. held[t] \in 0 .. MaxCount /\ held \in [Thread -> 0 .. MaxCount] /\ MaxCount \in Nat
  BY MutexAssumption DEF TypeInv, MutexTypes
<1>3. held[t] < MaxCount => held[t] + 1 \in 0 .. MaxCount
  BY <1>2
<1>4. held[t] > 0 => held[t] - 1 \in 0 .. MaxCount
  BY <1>2
<1>5. pc \in [Thread -> Place] /\ new_prio \in [Thread -> Prio]
  BY DEF TypeInv, MutexTypes
<1> QED
  BY <1>1, <1>2, <1>3, <1>4, <1>5

\* The steps that leave k_mutex_lock().
LEMMA LockEndTypes ==
  ASSUME TypeInv, NEW t \in Thread, LockFree(t) \/ LockBusy(t) \/ LockGot(t) \/ LockGiveUp(t)
  PROVE  TypeInv'
<1>1. Running(t) /\ pc[t] # "out" /\ k' = SchedUnlock(k) /\ Goto(t, "out")
  BY DEF LockFree, LockBusy, LockGot, LockGiveUp, At
<1>2. Serving(k) /\ k.cur = t
  BY <1>1, RunnerFacts
<1>3. Serving(k') /\ SwitchOk(k') /\ k'.locked = [k.locked EXCEPT ![t] = 0]
  BY <1>1, <1>2, LeaveFacts
<1>4. "out" \in Place /\ "out" \notin Inside /\ "out" \notin Asking
  BY DEF Place, Inside, Asking
<1>5. LockFree(t) \/ LockGot(t) => held[t] < MaxCount
  BY DEF LockFree, LockGot, At, TypeInv, Inner, Asking
<1>6. pc' \in [Thread -> Place]
  BY <1>1, <1>4, TypeFacts DEF Goto
<1>7. held' \in [Thread -> 0 .. MaxCount]
  BY <1>5, TypeFacts DEF LockFree, LockBusy, LockGot, LockGiveUp, history, TypeInv, MutexTypes
<1>8. MutexTypes'
  BY <1>6, <1>7, TypeFacts
     DEF LockFree, LockBusy, LockGot, LockGiveUp, history, mutex, TypeInv, MutexTypes
<1>9. \A u \in Thread : u # t => held'[u] = held[u]
  BY DEF LockFree, LockBusy, LockGot, LockGiveUp, history, TypeInv, MutexTypes
<1> DEFINE there == "out"
<1>10. /\ there \in Place /\ Goto(t, there)
       /\ k'.locked = [k.locked EXCEPT ![t] = IF there = "out" THEN 0 ELSE 1]
       /\ there \notin Inside /\ there # "unlock" /\ there \notin Asking
  BY <1>1, <1>3, <1>4
<1> HIDE DEF there
<1> QED
  BY <1>1, <1>3, <1>8, <1>9, <1>10, OwnStep

\* The steps inside a call that leave the scheduler's lock as it is.
LEMMA LockInnerTypes ==
  ASSUME TypeInv, NEW t \in Thread, LockExpired(t) \/ LockRestore(t)
  PROVE  TypeInv'
<1>1. Running(t) /\ pc[t] # "out"
  BY DEF LockExpired, LockRestore, At
<1>2. /\ Serving(k) /\ SwitchOk(k) /\ k.cur = t /\ k.cache = t
      /\ k.locked = [k.locked EXCEPT ![t] = 1]
  BY <1>1, RunnerFacts DEF TypeInv, Inner
<1>3. CASE LockExpired(t)
  <2> DEFINE p == IF HasWaiter(k, MutexQ)
                    THEN NewPrioForInheritance(k.prio[Waiter(k, MutexQ)], orig) ELSE orig
             there == "expired"
  <2>1. p \in Prio
    <3>1. orig \in Prio /\ k.prio \in [Thread -> Prio] /\ MutexQ \in WaitQ
      BY TypeFacts, MutexAssumption DEF TypeInv, MutexTypes
    <3>2. HasWaiter(k, MutexQ) => Waiter(k, MutexQ) \in Thread
      BY <1>2, <3>1, WaiterType DEF Serving
    <3> QED
      BY <3>1, <3>2, InheritedType
  <2>2. new_prio' = [new_prio EXCEPT ![t] = p] /\ Goto(t, there) /\ UNCHANGED <<k, mutex, history>>
    BY <1>3 DEF LockExpired
  <2>3. there \in Place /\ there # "unlock" /\ there \notin Asking /\ there # "out"
    BY DEF Place, Asking
  <2> HIDE DEF p, there
  <2>4. MutexTypes'
    BY <2>1, <2>2, <2>3, TypeFacts DEF TypeInv, MutexTypes, mutex, history, Goto
  <2> QED
    BY <1>1, <1>2, <2>2, <2>3, <2>4, OwnStep DEF history, Serving, SwitchOk
<1>4. CASE LockRestore(t)
  <2> DEFINE there == IF owner = NoThread THEN "fault" ELSE "restored"
  <2>1. /\ there \in Place /\ there # "unlock" /\ there \notin Asking /\ there # "out"
        /\ there \notin Inside
    BY DEF Place, Asking, Inside
  <2>2. Goto(t, there) /\ UNCHANGED <<mutex, new_prio, history>>
    BY <1>4 DEF LockRestore
  <2>3. Serving(k') /\ SwitchOk(k') /\ k'.locked = k.locked
    <3>1. CASE owner = NoThread
      BY <1>2, <1>4, <3>1 DEF LockRestore
    <3>2. CASE owner # NoThread
      <4>1. owner \in Thread /\ new_prio[t] \in Prio /\ k' = AdjustOwnerPrio(k, new_prio[t])
        BY <1>4, <3>2 DEF LockRestore, TypeInv, MutexTypes
      <4> QED
        BY <1>1, <4>1, AdjustFacts
    <3> QED
      BY <3>1, <3>2
  <2> HIDE DEF there
  <2>4. MutexTypes'
    BY <2>1, <2>2, TypeFacts DEF TypeInv, MutexTypes, mutex, history, Goto
  <2> QED
    BY <1>1, <1>2, <2>1, <2>2, <2>3, <2>4, OwnStep DEF history
<1> QED
  BY <1>3, <1>4

\* Beginning to wait.
LEMMA LockWaitTypes ==
  ASSUME TypeInv, NEW t \in Thread, NEW forever \in BOOLEAN,
         LockWait(t, forever) \/ LockPend(t, forever)
  PROVE  TypeInv'
<1>1. /\ Running(t) /\ pc[t] # "out" /\ pc[t] \in Asking
      /\ UNCHANGED <<mutex, new_prio, history>>
  BY DEF LockWait, LockPend, At, Asking
<1>2. /\ Serving(k) /\ SwitchOk(k) /\ k.cur = t /\ k.cache = t
      /\ k.locked = [k.locked EXCEPT ![t] = 1]
  BY <1>1, RunnerFacts DEF TypeInv, Inner
<1> DEFINE p == NewPrioForInheritance(k.prio[t], k.prio[owner])
           raised == IF p < k.prio[owner] THEN AdjustOwnerPrio(k, p) ELSE k
           back == IF forever THEN "pend for ever" ELSE "pend with timeout"
<1>3. owner \in Thread => Serving(raised) /\ SwitchOk(raised) /\ raised.locked = k.locked
  BY <1>1, RaiseFacts
<1>4. \/ /\ owner = NoThread /\ Goto(t, "fault") /\ UNCHANGED k
      \/ /\ owner # NoThread /\ raised.cur # t /\ k' = raised /\ Goto(t, back)
      \/ /\ owner # NoThread /\ raised.cur = t /\ Goto(t, "wait")
         /\ k' = PendCurrent(raised, MutexQ, forever)
      \/ k' = PendCurrent(k, MutexQ, forever) /\ Goto(t, "wait")
  BY DEF LockWait, LockPend
<1>5. owner # NoThread => owner \in Thread
  BY DEF TypeInv, MutexTypes
<1> HIDE DEF raised
<1>6. \E there \in {"fault", back, "wait"} :
        /\ Goto(t, there) /\ Serving(k') /\ SwitchOk(k') /\ k'.locked = k.locked
  <2>1. CASE owner = NoThread /\ Goto(t, "fault") /\ UNCHANGED k
    BY <1>2, <2>1
  <2>2. CASE owner # NoThread /\ raised.cur # t /\ k' = raised /\ Goto(t, back)
    BY <1>3, <1>5, <2>2
  <2>3. CASE /\ owner # NoThread /\ raised.cur = t /\ Goto(t, "wait")
             /\ k' = PendCurrent(raised, MutexQ, forever)
    <3>1. Serving(k') /\ SwitchOk(k') /\ k'.locked = raised.locked
      BY <1>3, <1>5, <2>3, PendFacts
    <3> QED
      BY <1>3, <1>5, <2>3, <3>1
  <2>4. CASE k' = PendCurrent(k, MutexQ, forever) /\ Goto(t, "wait")
    <3>1. Serving(k') /\ SwitchOk(k') /\ k'.locked = k.locked
      BY <1>2, <2>4, PendFacts
    <3> QED
      BY <2>4, <3>1
  <2> QED
    BY <1>4, <2>1, <2>2, <2>3, <2>4
<1>7. PICK there \in {"fault", back, "wait"} :
        /\ Goto(t, there) /\ Serving(k') /\ SwitchOk(k') /\ k'.locked = k.locked
  BY <1>6
<1>8. there \in Place /\ there # "unlock" /\ there # "out" /\ there \notin Inside
  BY DEF Place, Inside
<1>9. held[t] < MaxCount
  BY <1>1 DEF TypeInv, Inner
<1>10. MutexTypes'
  BY <1>1, <1>7, <1>8, TypeFacts DEF TypeInv, MutexTypes, mutex, history, Goto
<1> QED
  BY <1>1, <1>2, <1>7, <1>8, <1>9, <1>10, OwnStep DEF history

\* Entering k_mutex_lock() and k_mutex_unlock().
LEMMA EnterTypes ==
  ASSUME TypeInv, NEW t \in Thread, LockEnter(t) \/ UnlockEnter(t)
  PROVE  TypeInv'
<1> DEFINE x == SchedLock(k)
<1>1. At(t, "out") /\ Running(t) /\ pc[t] = "out"
  BY DEF LockEnter, UnlockEnter, At
<1>2. /\ Serving(x) /\ SwitchOk(x) /\ x.cur = t /\ x.cache = t
      /\ x.locked = [k.locked EXCEPT ![t] = 1]
  BY <1>1, EnterFacts
<1>3. CASE LockEnter(t)
  <2>1. k' = x /\ Goto(t, "lock") /\ UNCHANGED <<mutex, new_prio, history>> /\ held[t] < MaxCount
    BY <1>3 DEF LockEnter
  <2> HIDE DEF x
  <2> DEFINE there == "lock"
  <2>2. there \in Place /\ there # "unlock" /\ there # "out" /\ Goto(t, there)
    BY <2>1 DEF Place
  <2> HIDE DEF there
  <2>3. MutexTypes'
    BY <2>1, <2>2, TypeFacts DEF TypeInv, MutexTypes, mutex, history, Goto
  <2> QED
    BY <1>1, <1>2, <2>1, <2>2, <2>3, OwnStep DEF history
<1>4. CASE UnlockEnter(t)
  <2>1. /\ held[t] > 0 /\ lock_count > 0 /\ owner = t
        /\ lock_count' = lock_count - 1 /\ held' = [held EXCEPT ![t] = @ - 1]
        /\ UNCHANGED <<owner, orig, new_prio, base>>
    BY <1>4 DEF UnlockEnter
  <2>2. \/ k' = SchedUnlock(x) /\ pc' = pc
        \/ k' = x /\ Goto(t, "unlock")
    BY <1>4 DEF UnlockEnter
  <2> HIDE DEF x
  <2>3. lock_count' \in Nat /\ held' \in [Thread -> 0 .. MaxCount]
        /\ \A u \in Thread : u # t => held'[u] = held[u]
    BY <2>1, TypeFacts DEF TypeInv, MutexTypes
  <2>4. CASE k' = SchedUnlock(x) /\ pc' = pc
    <3> DEFINE there == "out"
    <3>1. x.locked[t] > 0 /\ x.locked \in [Thread -> Nat] /\ x.locked[t] = 1
      BY <1>1, <1>2, RunnerFacts
    <3>2. Serving(k') /\ SwitchOk(k') /\ k'.locked = [x.locked EXCEPT ![t] = @ - 1]
      BY <1>2, <2>4, <3>1, SchedUnlockStep
    <3>3. k'.locked = [k.locked EXCEPT ![t] = 0]
      BY <1>1, <1>2, <3>1, <3>2, RunnerFacts
    <3>4. /\ there \in Place /\ there # "unlock" /\ there \notin Inside /\ there \notin Asking
          /\ k'.locked = [k.locked EXCEPT ![t] = IF there = "out" THEN 0 ELSE 1]
          /\ Goto(t, there)
      BY <1>1, <2>4, <3>3 DEF Place, Inside, Asking, Goto, TypeInv, MutexTypes
    <3>5. MutexTypes'
      BY <2>1, <2>3, <2>4 DEF TypeInv, MutexTypes
    <3> HIDE DEF there
    <3> QED
      BY <1>1, <2>3, <3>2, <3>4, <3>5, OwnStep
  <2>5. CASE k' = x /\ Goto(t, "unlock")
    <3> DEFINE there == "unlock"
    <3>1. there \in Place /\ there # "out" /\ there \notin Asking /\ Goto(t, there)
      BY <2>5 DEF Place, Asking
    <3> HIDE DEF there
    <3>2. MutexTypes'
      BY <2>1, <2>3, <3>1, TypeFacts DEF TypeInv, MutexTypes, Goto
    <3> QED
      BY <1>1, <1>2, <2>1, <2>3, <2>5, <3>1, <3>2, OwnStep
  <2> QED
    BY <2>2, <2>4, <2>5
<1> QED
  BY <1>3, <1>4

\* What follows the priority's restoration in k_mutex_unlock().
LEMMA HandOverTypes ==
  ASSUME TypeInv, NEW t \in Thread, Running(t), pc[t] # "out", NEW x, Serving(x), x.cur = t,
         x.locked = k.locked, HandOver(x, t), UNCHANGED <<new_prio, history>>
  PROVE  TypeInv'
<1> DEFINE w == Waiter(x, MutexQ)
           y == IF HasWaiter(x, MutexQ) THEN WakeFirst(x, MutexQ, "OK") ELSE x
           there == "out"
<1>1. Serving(y) /\ y.cur = t /\ y.locked = k.locked
  BY WakeFacts
<1>2. k' = SchedUnlock(y) /\ Goto(t, there)
  BY DEF HandOver
<1>3. owner' \in Thread \cup {NoThread} /\ lock_count' \in Nat /\ orig' \in Prio
  <2>1. CASE HasWaiter(x, MutexQ)
    <3>1. w \in Thread /\ x.prio[w] \in Prio
      BY <2>1, WakeFacts DEF Serving, Inv, KernelState
    <3>2. owner' = w /\ lock_count' = lock_count + 1 /\ orig' = x.prio[w]
      BY <2>1 DEF HandOver
    <3> HIDE DEF w
    <3> QED
      BY <3>1, <3>2 DEF TypeInv, MutexTypes
  <2>2. CASE ~HasWaiter(x, MutexQ)
    BY <2>2 DEF HandOver, TypeInv, MutexTypes
  <2> QED
    BY <2>1, <2>2
<1> HIDE DEF y
<1>4. Serving(k') /\ SwitchOk(k') /\ k'.locked = [k.locked EXCEPT ![t] = 0]
  BY <1>1, <1>2, LeaveFacts
<1>5. /\ there \in Place /\ there # "unlock" /\ there \notin Inside /\ there \notin Asking
      /\ k'.locked = [k.locked EXCEPT ![t] = IF there = "out" THEN 0 ELSE 1]
  BY <1>4 DEF Place, Inside, Asking
<1> HIDE DEF there
<1>6. MutexTypes'
  BY <1>2, <1>3, <1>5, TypeFacts DEF TypeInv, MutexTypes, history, Goto
<1> QED
  BY <1>2, <1>4, <1>5, <1>6, OwnStep DEF history

LEMMA UnlockTypes ==
  ASSUME TypeInv, NEW t \in Thread, Unlock(t) \/ UnlockHandoff(t)
  PROVE  TypeInv'
<1>1. Running(t) /\ pc[t] # "out" /\ UNCHANGED <<new_prio, history>>
  BY DEF Unlock, UnlockHandoff, At
<1>2. /\ Serving(k) /\ k.cur = t
  BY <1>1, RunnerFacts
<1>3. CASE UnlockHandoff(t)
  BY <1>1, <1>2, <1>3, HandOverTypes DEF UnlockHandoff
<1>4. CASE Unlock(t)
  <2> DEFINE x == AdjustOwnerPrio(k, orig)
             there == "handoff"
  <2>1. owner = t /\ orig \in Prio
    BY <1>4 DEF Unlock, At, TypeInv, Inner, MutexTypes
  <2>2. Serving(x) /\ SwitchOk(x) /\ x.locked = k.locked
    BY <1>1, <2>1, AdjustFacts
  <2>3. \/ x.cur = t /\ HandOver(x, t)
        \/ k' = x /\ Goto(t, there) /\ UNCHANGED mutex
    BY <1>4 DEF Unlock
  <2> HIDE DEF x
  <2>4. CASE x.cur = t /\ HandOver(x, t)
    BY <1>1, <2>2, <2>4, HandOverTypes
  <2>5. CASE k' = x /\ Goto(t, there) /\ UNCHANGED mutex
    <3>1. /\ there \in Place /\ there # "unlock" /\ there \notin Inside /\ there \notin Asking
          /\ there # "out" /\ k.locked = [k.locked EXCEPT ![t] = 1]
      BY <1>1, RunnerFacts DEF Place, Inside, Asking, TypeInv, Inner
    <3> HIDE DEF there
    <3>2. MutexTypes'
      BY <1>1, <2>5, <3>1, TypeFacts DEF TypeInv, MutexTypes, mutex, history, Goto
    <3> QED
      BY <1>1, <2>2, <2>5, <3>1, <3>2, OwnStep DEF history
  <2> QED
    BY <2>3, <2>4, <2>5
<1> QED
  BY <1>3, <1>4

\* The steps of the scheduler.
LEMMA SchedStepFacts ==
  ASSUME TypeInv, Careful, Careful', SchedStep
  PROVE  /\ SchedInv' /\ k'.locked = k.locked
         /\ \A t \in Thread : pc[t] \in Inside => k'.cur = t /\ k'.cache = t
         /\ \/ WaitsKept(k, k') /\ k'.ret = k.ret
            \/ \E u \in Thread : WaitEnded(k, k', u) /\ k'.ret = k.ret
            \/ \E c \in Thread : pc[c] = "out" /\ WaitsKept(k, k') /\ RetKept(k, k', c)
<1>1. SchedInv /\ k \in KernelState
  BY DEF TypeInv, SchedInv, Inv
<1>2. ASSUME NEW t \in Thread, pc[t] \in Inside
      PROVE  Holds(k, t)
  <2>1. k.locked[t] = 1 /\ k.cur = t /\ k.cache = t
    BY <1>2 DEF TypeInv, Inner, Inside
  <2>2. IsReady(k, t)
    BY <1>1, <2>1 DEF SchedInv, Inv
  <2> QED
    BY <1>1, <2>1, <2>2, KernelAssumption DEF Holds, IsPreempt
<1>3. CASE Tick
  <2>1. \/ WaitsKept(k, k') /\ k'.ret = k.ret /\ SchedInv'
        \/ \E u \in Thread : WaitEnded(k, k', u) /\ k'.ret = k.ret /\ SchedInv'
    BY <1>1, <1>3, TickWaits, ExpireWaits DEF Tick
  <2>2. k'.locked = k.locked
    <3>1. CASE TickStart(k)
      BY <1>1, <3>1 DEF TickStart, Dequeued, KernelState
    <3>2. CASE TickEnd
      BY <1>1, <3>2 DEF TickEnd, MoveToEndOfPrioQ, UpdateCache, IntExit, KernelState
    <3>3. ASSUME NEW u \in Thread, TickExpire(u) PROVE k'.locked = k.locked
      BY <1>1, <3>3 DEF TickExpire, HandleExpired, UnpendNoTimeout, ReadyThread, AddToReadyQ,
         UpdateCache, KernelState
    <3>4. CASE TickDequeue \/ \E u \in Thread : TickPick(u)
      BY <1>1, <3>4 DEF TickDequeue, TickPick, Dequeued, KernelState
    <3> QED
      BY <1>3, <3>1, <3>2, <3>3, <3>4 DEF Tick
  <2> QED
    BY <1>1, <1>2, <1>3, <2>1, <2>2, TickHolds
<1>4. ASSUME NEW u \in Thread, IsrWakeup(k, u)
      PROVE  /\ WaitsKept(k, k') /\ k'.ret = k.ret /\ SchedInv' /\ k'.locked = k.locked
             /\ \A t \in Thread : pc[t] \in Inside => k'.cur = t /\ k'.cache = t
  <2>1. WaitsKept(k, k') /\ k'.ret = k.ret /\ SchedInv'
    BY <1>1, <1>4, IsrWaits
  <2>2. k'.locked = k.locked
    BY <1>1, <1>4 DEF IsrWakeup, Woken, AbortThreadTimeout, ReadyThread, AddToReadyQ,
       UpdateCache, IntExit, KernelState
  <2>3. ASSUME NEW t \in Thread, pc[t] \in Inside PROVE k'.cur = t /\ k'.cache = t
    BY <1>2, <1>4, <2>3, StartedHolds, HoldsSwitch DEF IsrWakeup
  <2> QED
    BY <2>1, <2>2, <2>3
<1>5. ASSUME NEW t \in Thread, NEW u \in Thread, At(t, "out"),
             Sleep(t) \/ Yield(t) \/ Wakeup(t, u) \/ ThreadStart(t, u)
      PROVE  /\ pc[t] = "out" /\ WaitsKept(k, k') /\ RetKept(k, k', t) /\ SchedInv'
             /\ k'.locked = k.locked /\ \A v \in Thread : pc[v] \notin Inside
  <2>1. WaitsKept(k, k') /\ RetKept(k, k', t) /\ SchedInv'
    BY <1>1, <1>5, CallWaits
  <2>2. pc[t] = "out" /\ \A v \in Thread : pc[v] \notin Inside
    BY <1>5, RunnerFacts DEF At, Inside
  <2>3. k'.locked = k.locked
    <3>1. CASE Sleep(t)
      BY <1>1, <3>1 DEF Sleep, Swap, AddThreadTimeout, RemoveFromReadyQ, UpdateCache, KernelState
    <3>2. CASE Yield(t)
      BY <1>1, <3>2 DEF Yield, Yielded, UpdateCache, Reschedule, Swap, KernelState
    <3>3. CASE Wakeup(t, u)
      BY <1>1, <3>3 DEF Wakeup, Woken, AbortThreadTimeout, ReadyThread, AddToReadyQ,
         UpdateCache, Reschedule, Swap, KernelState
    <3>4. CASE ThreadStart(t, u)
      BY <1>1, <3>4 DEF ThreadStart, Started, ReadyThread, AddToReadyQ,
         UpdateCache, Reschedule, Swap, KernelState
    <3> QED
      BY <1>5, <3>1, <3>2, <3>3, <3>4
  <2> QED
    BY <2>1, <2>2, <2>3
<1> QED
  BY <1>3, <1>4, <1>5 DEF SchedStep

LEMMA TypeInvInit ==
  ASSUME MutexInit
  PROVE  TypeInv
<1>1. SchedInv
  BY BootInv DEF MutexInit, Init, SchedInv
<1>2. k.locked = [t \in Thread |-> 0] /\ k.prio \in [Thread -> Prio]
  BY DEF MutexInit, Init, BootState
<1>3. MutexTypes
  BY <1>2, MutexAssumption DEF MutexInit, MutexTypes, Place
<1>4. Inner
  BY <1>2 DEF MutexInit, Inner, Inside, Asking
<1> QED
  BY <1>1, <1>3, <1>4 DEF TypeInv

LEMMA TypeInvNext ==
  ASSUME TypeInv, Careful, Careful', [MutexNext]_mutexVars
  PROVE  TypeInv'
<1>1. CASE UNCHANGED mutexVars
  BY <1>1 DEF mutexVars, mutex, history, TypeInv, SchedInv, MutexTypes, Inner
<1>2. CASE SchedStep
  <2>1. UNCHANGED <<mutex, pc, new_prio, history>>
    BY <1>2 DEF SchedStep
  <2>2. /\ SchedInv' /\ k'.locked = k.locked
        /\ \A t \in Thread : pc[t] \in Inside => k'.cur = t /\ k'.cache = t
    BY <1>2, SchedStepFacts
  <2> QED
    BY <2>1, <2>2 DEF mutex, history, TypeInv, MutexTypes, Inner
<1>3. ASSUME NEW t \in Thread, MutexCall(t)
      PROVE  TypeInv'
  <2>1. ASSUME NEW forever \in {TRUE, ~TimedWaits(base)}, LockWait(t, forever) \/ LockPend(t, forever)
        PROVE  TypeInv'
    <3>1. forever \in BOOLEAN
      BY <2>1, MutexAssumption DEF TypeInv, MutexTypes
    <3> QED
      BY <2>1, <3>1, LockWaitTypes
  <2> QED
    BY <1>3, <2>1, EnterTypes, LockEndTypes, LockInnerTypes, UnlockTypes DEF MutexCall
<1> QED
  BY <1>1, <1>2, <1>3 DEF MutexNext

\* TypeInv is an invariant as long as the calls are careful: a thread inside a
\* call of k_mutex_lock() or k_mutex_unlock() has locked the scheduler exactly
\* once.  Careful is meant in every theorem below.
THEOREM MutexInvariant == MutexSpec /\ []Careful => []TypeInv
<1>1. MutexInit => TypeInv
  BY TypeInvInit
<1>2. TypeInv /\ Careful /\ Careful' /\ [MutexNext]_mutexVars => TypeInv'
  BY TypeInvNext
<1> QED
  BY <1>1, <1>2, PTL DEF MutexSpec

\* The mutex, its callers and their locals keep their types; k_mutex_unlock()
\* never takes lock_count below zero.
THEOREM MutexTypeCorrect == MutexSpec /\ []Careful => []MutexTypeOK
<1>1. TypeInv => MutexTypeOK
  BY DEF TypeInv, MutexTypes, MutexTypeOK, TypeOK, SchedInv, Inv, Place
<1> QED
  BY <1>1, MutexInvariant, PTL

-----------------------------------------------------------------------------
(***************************************************************************)
(* What the mutex promises as long as adjust_owner_prio() does not swap.   *)
(***************************************************************************)

\* No thread has been switched out inside adjust_owner_prio() before it
\* finished the critical section it was in.
Unswapped ==
  \A t \in Thread : pc[t] \notin {"pend for ever", "pend with timeout", "handoff"}

\* The mutex has been handed to t, which has not run since.
Granted(t) == pc[t] = "wait" /\ ~Waits(k, t) /\ k.ret[t] = "OK"

\* Whoever waits, waits for the mutex and would return -EAGAIN.
Waiting ==
  \A t \in Thread : Waits(k, t) =>
    pc[t] = "wait" /\ t \in ToSet(k.waitq[MutexQ]) /\ k.ret[t] = "EAGAIN"

\* The owner has been granted the mutex or has returned with it.
Ownership ==
  /\ \A t \in Thread : Granted(t) => owner = t /\ lock_count = 1
  /\ \A t \in Thread : pc[t] = "unlock" => lock_count = 0
  /\ owner = NoThread => lock_count = 0
  /\ owner # NoThread /\ lock_count = 0 => pc[owner] = "unlock"
  /\ lock_count # 0 => \/ Granted(owner)
                       \/ held[owner] = lock_count /\ pc[owner] \in {"out", "lock"}

Holding ==
  /\ \A t \in Thread : pc[t] \in {"wait", "expired", "restored", "fault", "unlock"} => held[t] = 0
  /\ \A t \in Thread : owner # t => held[t] = 0

Priorities ==
  /\ \A t \in Thread : t # owner => k.prio[t] = base[t]
  /\ owner # NoThread => orig = base[owner]

Line == Sorted(k.waitq[MutexQ], k.prio)

Below(p, w) == p <= k.prio[w] \/ p <= Ceiling

\* While a thread waits there is an owner, which has inherited; a thread that
\* gave up is about to leave the owner what the others still ask for.
Inheritance ==
  \A w \in Thread : Waits(k, w) =>
    /\ owner # NoThread
    /\ lock_count # 0 => Below(k.prio[owner], w)
    /\ \A t \in Thread : pc[t] = "expired" => Below(new_prio[t], w)

MutexInv == Waiting /\ Ownership /\ Holding /\ Priorities /\ Line /\ Inheritance

\* From k to k' no wait begins, the line keeps its order and only c's return
\* value may change.
Calm(c) ==
  /\ k'.prio = k.prio
  /\ \A t \in Thread : Waits(k', t) => /\ Waits(k, t)
                                       /\ t \in ToSet(k.waitq[MutexQ]) => t \in ToSet(k'.waitq[MutexQ])
  /\ Sorted(k.waitq[MutexQ], k.prio) => Sorted(k'.waitq[MutexQ], k'.prio)
  /\ RetKept(k, k', c)

LEMMA KeptIsCalm ==
  ASSUME NEW c, WaitsKept(k, k'), RetKept(k, k', c)
  PROVE  Calm(c)
  BY DEF Calm, WaitsKept

LEMMA EndedIsCalm ==
  ASSUME TypeInv, NEW u \in Thread, WaitEnded(k, k', u), k'.ret = k.ret, NEW c
  PROVE  Calm(c)
<1>1. /\ k \in KernelState /\ WaitQOk(k) /\ MutexQ \in WaitQ
      /\ k.waitq[MutexQ] \in Seq(Thread) /\ NoDuplicates(k.waitq[MutexQ])
  BY MutexAssumption DEF TypeInv, SchedInv, Inv, KernelState, WaitQOk
<1>2. k'.waitq[MutexQ] = PriqRemove(k.waitq[MutexQ], u) /\ k'.prio = k.prio
      /\ \A t \in Thread : Waits(k', t) <=> t # u /\ Waits(k, t)
  BY <1>1 DEF WaitEnded
<1>3. /\ ToSet(k'.waitq[MutexQ]) = ToSet(k.waitq[MutexQ]) \ {u}
      /\ Sorted(k.waitq[MutexQ], k.prio) => Sorted(k'.waitq[MutexQ], k.prio)
  BY <1>1, <1>2, PriqRemoveProperties
<1> QED
  BY <1>2, <1>3 DEF Calm, RetKept

\* A step that leaves the mutex alone and in which at most thread c moves, to
\* a place where it neither waits nor is about to change an owner.
LEMMA Walk ==
  ASSUME TypeInv, MutexInv, NEW c \in Thread \cup {NoThread}, Calm(c),
         UNCHANGED <<mutex, new_prio, history>>,
         \A u \in Thread : u # c => pc'[u] = pc[u],
         c \in Thread => /\ pc[c] \notin {"wait", "unlock"}
                         /\ pc'[c] \in {"out", "lock", "restored", "fault"}
                         /\ pc'[c] \in {"restored", "fault"} => held[c] = 0 /\ owner # c
  PROVE  MutexInv'
<1>1. /\ owner' = owner /\ lock_count' = lock_count /\ orig' = orig /\ new_prio' = new_prio
      /\ held' = held /\ base' = base /\ owner \in Thread \cup {NoThread} /\ lock_count \in Nat
  BY DEF mutex, history, TypeInv, MutexTypes
<1>2. \A u \in Thread : Waits(k, u) => u # c /\ pc[u] = "wait" /\ k.ret[u] = "EAGAIN"
                                        /\ u \in ToSet(k.waitq[MutexQ])
  BY DEF MutexInv, Waiting
<1>3. Waiting'
  BY <1>2 DEF Waiting, Calm, RetKept
<1>4. \A u \in Thread : Granted(u)' => Granted(u)
  BY <1>2 DEF Granted, Calm, RetKept
<1>5. \A u \in Thread : Granted(u) => Granted(u)'
  BY DEF Granted, Calm, RetKept
<1>6. Ownership'
  <2>1. lock_count # 0 => \/ pc'[owner] = "wait" /\ ~Waits(k', owner) /\ k'.ret[owner] = "OK"
                          \/ held[owner] = lock_count /\ pc'[owner] \in {"out", "lock"}
    <3>1. lock_count # 0 => owner \in Thread
      BY <1>1 DEF MutexInv, Ownership
    <3>2. CASE lock_count # 0 /\ Granted(owner)
      BY <1>5, <3>1, <3>2 DEF Granted
    <3>3. CASE lock_count # 0 /\ held[owner] = lock_count /\ pc[owner] \in {"out", "lock"}
      BY <1>1, <3>1, <3>3
    <3> QED
      BY <3>2, <3>3 DEF MutexInv, Ownership
  <2>2. \A u \in Thread : pc'[u] = "unlock" => lock_count = 0
    BY DEF MutexInv, Ownership
  <2>3. owner # NoThread /\ lock_count = 0 => pc'[owner] = "unlock"
    BY <1>1 DEF MutexInv, Ownership
  <2> QED
    BY <1>1, <1>4, <2>1, <2>2, <2>3 DEF MutexInv, Ownership, Granted
<1>7. Holding'
  BY <1>1 DEF MutexInv, Holding
<1>8. Priorities' /\ Line'
  BY <1>1 DEF MutexInv, Priorities, Line, Calm
<1>9. Inheritance'
  BY <1>1 DEF MutexInv, Inheritance, Below, Calm
<1> QED
  BY <1>3, <1>6, <1>7, <1>8, <1>9 DEF MutexInv

LEMMA SchedStepKeeps ==
  ASSUME TypeInv, MutexInv, Careful, Careful', SchedStep
  PROVE  MutexInv'
<1>1. UNCHANGED <<mutex, new_prio, history>> /\ pc' = pc
  BY DEF SchedStep
<1>2. NoThread \notin Thread
  BY MutexAssumption
<1>3. CASE WaitsKept(k, k') /\ k'.ret = k.ret
  BY <1>1, <1>2, <1>3, KeptIsCalm, Walk DEF RetKept
<1>4. ASSUME NEW u \in Thread, WaitEnded(k, k', u), k'.ret = k.ret
      PROVE  MutexInv'
  BY <1>1, <1>2, <1>4, EndedIsCalm, Walk
<1>5. ASSUME NEW c \in Thread, pc[c] = "out", WaitsKept(k, k'), RetKept(k, k', c)
      PROVE  MutexInv'
  BY <1>1, <1>5, KeptIsCalm, Walk
<1> QED
  BY <1>3, <1>4, <1>5, SchedStepFacts

\* What the running thread finds.
LEMMA OwnFacts ==
  ASSUME TypeInv, MutexInv, NEW t \in Thread, Running(t)
  PROVE  /\ owner \in Thread \cup {NoThread} /\ lock_count \in Nat /\ k.prio \in [Thread -> Prio]
         /\ held \in [Thread -> 0 .. MaxCount] /\ ~Waits(k, t) /\ NoThread \notin Thread
         /\ Prio \subseteq Int /\ Ceiling \in Int
         /\ \A u \in Thread : u # t => pc[u] \notin {"lock", "expired", "unlock"}
         /\ lock_count # 0 => owner \in Thread
         /\ owner # NoThread /\ lock_count = 0 => owner = t /\ pc[t] = "unlock"
<1>1. ~Waits(k, t) /\ \A u \in Thread : u # t => pc[u] \notin {"lock", "expired", "unlock"}
  BY RunnerFacts DEF Inside
<1>2. /\ owner \in Thread \cup {NoThread} /\ lock_count \in Nat
      /\ held \in [Thread -> 0 .. MaxCount] /\ k.prio \in [Thread -> Prio]
  BY TypeFacts DEF TypeInv, MutexTypes
<1>3. lock_count # 0 => owner \in Thread
  BY <1>2 DEF MutexInv, Ownership
<1>4. owner # NoThread /\ lock_count = 0 => owner = t /\ pc[t] = "unlock"
  BY <1>1, <1>2 DEF MutexInv, Ownership
<1> QED
  BY <1>1, <1>2, <1>3, <1>4, MutexAssumption, KernelAssumption

\* k_sched_unlock() as the last step of a call.
LEMMA LeaveKeeps ==
  ASSUME TypeInv, NEW t \in Thread, Running(t), pc[t] # "out", k' = SchedUnlock(k)
  PROVE  WaitsKept(k, k') /\ RetKept(k, k', t) /\ Calm(t)
<1>1. Serving(k) /\ k.cur = t
  BY RunnerFacts
<1>2. WaitsKept(k, k') /\ RetKept(k, k', t)
  BY <1>1, LeaveFacts
<1> QED
  BY <1>2, KeptIsCalm

LEMMA PassingKeeps ==
  ASSUME TypeInv, MutexInv, NEW t \in Thread, LockEnter(t) \/ LockBusy(t) \/ LockGiveUp(t)
  PROVE  MutexInv'
<1>1. UNCHANGED <<mutex, new_prio, history>> /\ pc \in [Thread -> Place]
  BY DEF LockEnter, LockBusy, LockGiveUp, TypeInv, MutexTypes
<1>2. CASE LockEnter(t)
  <2>1. At(t, "out") /\ k' = SchedLock(k) /\ Goto(t, "lock")
    BY <1>2 DEF LockEnter
  <2>2. WaitsKept(k, k') /\ k'.ret = k.ret
    BY <2>1, EnterFacts
  <2>3. Calm(t)
    BY <2>2, KeptIsCalm DEF RetKept
  <2>4. pc[t] = "out" /\ pc'[t] = "lock" /\ \A u \in Thread : u # t => pc'[u] = pc[u]
    BY <1>1, <2>1 DEF At, Goto
  <2> QED
    BY <1>1, <2>3, <2>4, Walk
<1>3. CASE LockBusy(t) \/ LockGiveUp(t)
  <2>1. Running(t) /\ pc[t] \in {"lock", "restored"} /\ k' = SchedUnlock(k) /\ Goto(t, "out")
    BY <1>3 DEF LockBusy, LockGiveUp, At
  <2>2. Calm(t)
    BY <2>1, LeaveKeeps
  <2>3. pc'[t] = "out" /\ \A u \in Thread : u # t => pc'[u] = pc[u]
    BY <1>1, <2>1 DEF Goto
  <2> QED
    BY <1>1, <2>1, <2>2, <2>3, Walk
<1> QED
  BY <1>2, <1>3

\* Returning with a mutex that was free or one's own.
LEMMA LockFreeKeeps ==
  ASSUME TypeInv, MutexInv, NEW t \in Thread, LockFree(t)
  PROVE  MutexInv'
<1>1. /\ Running(t) /\ pc[t] = "lock" /\ (lock_count = 0 \/ owner = t)
      /\ orig' = (IF lock_count = 0 THEN k.prio[t] ELSE orig)
      /\ lock_count' = lock_count + 1 /\ owner' = t /\ k' = SchedUnlock(k)
      /\ held' = [held EXCEPT ![t] = @ + 1] /\ new_prio' = new_prio /\ base' = base
  BY DEF LockFree, At, Contended
<1>2. WaitsKept(k, k') /\ RetKept(k, k', t) /\ Calm(t)
  BY <1>1, LeaveKeeps
<1>3. pc'[t] = "out" /\ \A u \in Thread : u # t => pc'[u] = pc[u]
  BY DEF LockFree, Goto, TypeInv, MutexTypes
<1>4. \/ owner = NoThread /\ lock_count = 0
      \/ owner = t /\ lock_count # 0
  BY <1>1, OwnFacts
<1>5. held[t] = lock_count
  BY <1>1, <1>4, MutexAssumption DEF MutexInv, Ownership, Holding, Granted
<1>6. /\ held'[t] = lock_count' /\ lock_count' # 0
      /\ \A u \in Thread : u # t => held'[u] = held[u] /\ held[u] = 0
  BY <1>1, <1>4, <1>5, OwnFacts, MutexAssumption DEF MutexInv, Holding
<1>7. \A u \in Thread : ~Granted(u)'
  <2>1. \A u \in Thread : u # t => ~Granted(u)
    BY <1>4, MutexAssumption DEF MutexInv, Ownership
  <2> QED
    BY <1>2, <1>3, <2>1 DEF Granted, WaitsKept, RetKept
<1>8. Waiting'
  BY <1>1, <1>2, <1>3 DEF MutexInv, Waiting, WaitsKept, RetKept
<1>9. Ownership'
  <2>1. \A u \in Thread : pc'[u] # "unlock"
    BY <1>1, <1>3, OwnFacts
  <2>2. owner' # NoThread /\ (held[owner] = lock_count /\ pc[owner] \in {"out", "lock"})'
    BY <1>1, <1>3, <1>6, MutexAssumption
  <2> QED
    BY <1>6, <1>7, <2>1, <2>2 DEF Ownership
<1>10. Holding'
  BY <1>1, <1>3, <1>6 DEF MutexInv, Holding
<1>11. Priorities' /\ Line'
  BY <1>1, <1>2, <1>4, MutexAssumption DEF MutexInv, Priorities, Line, WaitsKept
<1>12. Inheritance'
  <2>1. \A u \in Thread : pc'[u] # "expired"
    BY <1>1, <1>3, OwnFacts
  <2> QED
    BY <1>1, <1>2, <1>4, <2>1, MutexAssumption DEF MutexInv, Inheritance, Below, WaitsKept
<1> QED
  BY <1>8, <1>9, <1>10, <1>11, <1>12 DEF MutexInv

\* Returning with a mutex that was handed over.
LEMMA LockGotKeeps ==
  ASSUME TypeInv, MutexInv, NEW t \in Thread, LockGot(t)
  PROVE  MutexInv'
<1>1. /\ Running(t) /\ pc[t] = "wait" /\ k.ret[t] = "OK" /\ k' = SchedUnlock(k)
      /\ held' = [held EXCEPT ![t] = @ + 1] /\ new_prio' = new_prio /\ base' = base
      /\ owner' = owner /\ lock_count' = lock_count /\ orig' = orig
  BY DEF LockGot, At, mutex
<1>2. WaitsKept(k, k') /\ RetKept(k, k', t) /\ ~Waits(k, t)
  BY <1>1, LeaveKeeps, RunnerFacts
<1>3. pc'[t] = "out" /\ \A u \in Thread : u # t => pc'[u] = pc[u]
  BY DEF LockGot, Goto, TypeInv, MutexTypes
<1>4. owner = t /\ lock_count = 1 /\ held[t] = 0
  BY <1>1, <1>2 DEF MutexInv, Ownership, Granted, Holding
<1>5. held'[t] = 1 /\ \A u \in Thread : u # t => held'[u] = held[u] /\ held[u] = 0
  BY <1>1, <1>4, OwnFacts DEF MutexInv, Holding
<1>6. \A u \in Thread : ~Granted(u)'
  <2>1. \A u \in Thread : u # t => ~Granted(u)
    BY <1>4 DEF MutexInv, Ownership
  <2> QED
    BY <1>2, <1>3, <2>1 DEF Granted, WaitsKept, RetKept
<1>7. Waiting'
  BY <1>1, <1>2, <1>3 DEF MutexInv, Waiting, WaitsKept, RetKept
<1>8. Ownership'
  <2>1. \A u \in Thread : pc'[u] # "unlock"
    BY <1>1, <1>3, OwnFacts
  <2>2. owner' # NoThread /\ lock_count' # 0
        /\ (held[owner] = lock_count /\ pc[owner] \in {"out", "lock"})'
    BY <1>1, <1>3, <1>4, <1>5, MutexAssumption
  <2> QED
    BY <1>6, <2>1, <2>2 DEF Ownership
<1>9. Holding'
  BY <1>1, <1>3, <1>4, <1>5 DEF Holding
<1>10. Priorities' /\ Line'
  BY <1>1, <1>2 DEF MutexInv, Priorities, Line, WaitsKept
<1>11. Inheritance'
  <2>1. \A u \in Thread : pc'[u] # "expired"
    BY <1>1, <1>3, OwnFacts
  <2> QED
    BY <1>1, <1>2, <2>1 DEF MutexInv, Inheritance, Below, WaitsKept
<1> QED
  BY <1>7, <1>8, <1>9, <1>10, <1>11 DEF MutexInv

\* The first in line has the best priority of those that wait.
LEMMA FirstIsBest ==
  ASSUME TypeInv, Waiting, Line, HasWaiter(k, MutexQ), NEW f, f = Waiter(k, MutexQ),
         NEW w \in Thread, Waits(k, w)
  PROVE  f \in Thread /\ Waits(k, f) /\ k.prio[f] <= k.prio[w]
<1> DEFINE q == k.waitq[MutexQ]
<1>1. Inv(k) /\ k \in KernelState /\ MutexQ \in WaitQ
  BY MutexAssumption DEF TypeInv, SchedInv, Inv
<1>2. f \in Thread /\ Waits(k, f) /\ f = q[1] /\ 1 \in 1 .. Len(q)
  BY <1>1, WaiterType
<1>3. q \in Seq(Thread) /\ k.prio \in [Thread -> Prio] /\ Prio \subseteq Int
  BY <1>1, KernelAssumption DEF KernelState
<1>4. w \in ToSet(q)
  BY DEF Waiting
<1>5. PICK i \in 1 .. Len(q) : q[i] = w
  BY <1>3, <1>4, ToSetIndexed
<1>6. CASE i = 1
  <2>1. f = w /\ k.prio[w] \in Int
    BY <1>2, <1>3, <1>5, <1>6
  <2> QED
    BY <1>2, <2>1
<1>7. CASE i # 1
  <2>1. 1 < i
    BY <1>3, <1>5, <1>7
  <2>2. k.prio[q[1]] <= k.prio[q[i]]
    BY <1>2, <1>5, <2>1 DEF Line, Sorted
  <2> QED
    BY <1>2, <1>5, <2>2
<1> QED
  BY <1>6, <1>7

\* A wait that timed out.
LEMMA LockExpiredKeeps ==
  ASSUME TypeInv, MutexInv, NEW t \in Thread, LockExpired(t)
  PROVE  MutexInv'
<1> DEFINE p == IF HasWaiter(k, MutexQ)
                  THEN NewPrioForInheritance(k.prio[Waiter(k, MutexQ)], orig) ELSE orig
<1>1. /\ Running(t) /\ pc[t] = "wait" /\ k.ret[t] # "OK" /\ k' = k
      /\ new_prio' = [new_prio EXCEPT ![t] = p]
      /\ held' = held /\ base' = base
      /\ owner' = owner /\ lock_count' = lock_count /\ orig' = orig
  BY DEF LockExpired, At, mutex, history
<1>2. pc'[t] = "expired" /\ \A u \in Thread : u # t => pc'[u] = pc[u]
  BY DEF LockExpired, Goto, TypeInv, MutexTypes
<1>3. ~Waits(k, t) /\ ~Granted(t) /\ held[t] = 0
  BY <1>1, OwnFacts DEF Granted, MutexInv, Holding
<1>4. ASSUME NEW w \in Thread, Waits(k, w)
      PROVE  Below(p, w)
  <2>1. MutexQ \in WaitQ /\ Ceiling \in Int /\ Prio \subseteq Int /\ orig \in Int
    BY MutexAssumption, KernelAssumption DEF TypeInv, MutexTypes
  <2>2. HasWaiter(k, MutexQ)
    <3>1. w \in ToSet(k.waitq[MutexQ])
      BY <1>4 DEF MutexInv, Waiting
    <3>2. k.waitq[MutexQ] \in Seq(Thread)
      BY <2>1 DEF TypeInv, SchedInv, Inv, KernelState
    <3> QED
      BY <3>1, <3>2, ToSetIndexed DEF HasWaiter
  <2> DEFINE f == Waiter(k, MutexQ)
  <2>3. f \in Thread /\ k.prio[f] <= k.prio[w]
    BY <1>4, <2>2, FirstIsBest DEF MutexInv
  <2>4. p = NewPrioForInheritance(k.prio[f], orig)
    BY <2>2
  <2>5. k.prio[f] \in Int /\ k.prio[w] \in Int
    BY <1>1, <2>1, <2>3, OwnFacts
  <2> HIDE DEF p, f
  <2> QED
    BY <2>1, <2>3, <2>4, <2>5 DEF NewPrioForInheritance, Below
<1> HIDE DEF p
<1>5. new_prio'[t] = p
  BY <1>1 DEF TypeInv, MutexTypes
<1>6. \A u \in Thread : Granted(u)' <=> Granted(u)
  BY <1>1, <1>2, <1>3 DEF Granted
<1>7. Waiting'
  BY <1>1, <1>2, <1>3 DEF MutexInv, Waiting
<1>8. Ownership'
  <2>1. owner # NoThread /\ lock_count = 0 => pc[t] = "unlock"
    BY <1>1, OwnFacts
  <2>2. lock_count # 0 => owner \in Thread /\ owner # t
    BY <1>1, <1>3, OwnFacts DEF MutexInv, Ownership
  <2>3. lock_count # 0 => (Granted(owner) \/ (held[owner] = lock_count /\ pc[owner] \in {"out", "lock"}))'
    BY <1>1, <1>2, <2>2 DEF MutexInv, Ownership, Granted
  <2>4. \A u \in Thread : pc'[u] = "unlock" => lock_count = 0
    BY <1>1, <1>2 DEF MutexInv, Ownership
  <2> QED
    BY <1>1, <1>6, <2>1, <2>3, <2>4 DEF MutexInv, Ownership
<1>9. Holding' /\ Priorities' /\ Line'
  BY <1>1, <1>2, <1>3 DEF MutexInv, Holding, Priorities, Line
<1>10. Inheritance'
  <2>1. \A u \in Thread : u # t => pc'[u] # "expired"
    BY <1>1, <1>2, OwnFacts
  <2> QED
    BY <1>1, <1>4, <1>5, <2>1 DEF MutexInv, Inheritance, Below
<1> QED
  BY <1>7, <1>8, <1>9, <1>10 DEF MutexInv

\* The owner does not wait, so the line stays sorted when its priority changes.
LEMMA AdjustedLine ==
  ASSUME TypeInv, MutexInv, owner \in Thread, NEW p \in Prio, NEW r, PrioChanged(k, r, owner, p)
  PROVE  /\ ~Waits(k, owner) /\ r.prio[owner] = p
         /\ \A u \in Thread : u # owner => r.prio[u] = k.prio[u]
         /\ r.waitq = k.waitq /\ Sorted(r.waitq[MutexQ], r.prio)
<1> DEFINE q == k.waitq[MutexQ]
<1>1. k \in KernelState /\ WaitQOk(k) /\ MutexQ \in WaitQ /\ owner # NoThread
  BY MutexAssumption DEF TypeInv, SchedInv, Inv
<1>2. k.prio \in [Thread -> Prio] /\ q \in Seq(Thread)
  BY <1>1 DEF KernelState
<1>3. ~Waits(k, owner)
  BY <1>1 DEF MutexInv, Waiting, Ownership, Granted
<1>4. owner \notin ToSet(q)
  BY <1>1, <1>3 DEF WaitQOk, Waits
<1>5. r.waitq = k.waitq /\ r.prio = [k.prio EXCEPT ![owner] = p]
  BY DEF PrioChanged
<1>6. r.prio[owner] = p /\ \A u \in Thread : u # owner => r.prio[u] = k.prio[u]
  BY <1>2, <1>5
<1>7. \A i \in 1 .. Len(q) : q[i] \in Thread /\ q[i] # owner
  BY <1>2, <1>4, ToSetIndexed
<1>8. Sorted(q, k.prio)
  BY DEF MutexInv, Line
<1>9. Sorted(q, r.prio)
  BY <1>6, <1>7, <1>8 DEF Sorted
<1> QED
  BY <1>3, <1>5, <1>6, <1>9

\* Leaving the owner the priority the remaining waiters ask for.
LEMMA LockRestoreKeeps ==
  ASSUME TypeInv, MutexInv, NEW t \in Thread, LockRestore(t)
  PROVE  MutexInv'
<1>1. /\ Running(t) /\ pc[t] = "expired" /\ UNCHANGED <<mutex, new_prio, history>>
      /\ pc \in [Thread -> Place]
  BY DEF LockRestore, At, TypeInv, MutexTypes
<1>2. held[t] = 0
  BY <1>1 DEF MutexInv, Holding
<1>3. CASE owner = NoThread
  <2>1. k' = k /\ pc'[t] = "fault" /\ \A u \in Thread : u # t => pc'[u] = pc[u]
    BY <1>1, <1>3 DEF LockRestore, Goto
  <2>2. Calm(t)
    BY <2>1 DEF Calm, RetKept
  <2> QED
    BY <1>1, <1>2, <1>3, <2>1, <2>2, Walk, MutexAssumption
<1>4. CASE owner # NoThread
  <2> DEFINE p == new_prio[t]
  <2>1. /\ owner \in Thread /\ p \in Prio /\ k' = AdjustOwnerPrio(k, p)
        /\ pc'[t] = "restored" /\ \A u \in Thread : u # t => pc'[u] = pc[u]
    BY <1>1, <1>4 DEF LockRestore, Goto, TypeInv, MutexTypes
  <2>2. /\ owner' = owner /\ lock_count' = lock_count /\ orig' = orig /\ new_prio' = new_prio
        /\ held' = held /\ base' = base
    BY <1>1 DEF mutex, history
  <2>3. PrioChanged(k, k', owner, p) /\ RetKept(k, k', t)
    BY <1>1, <2>1, AdjustFacts
  <2>4. /\ \A u \in Thread : Waits(k', u) <=> Waits(k, u)
        /\ ~Waits(k, owner) /\ k'.prio[owner] = p
        /\ \A u \in Thread : u # owner => k'.prio[u] = k.prio[u]
        /\ k'.waitq = k.waitq /\ Sorted(k'.waitq[MutexQ], k'.prio)
    <3>1. \A u \in Thread : Waits(k', u) <=> Waits(k, u)
      BY <2>3 DEF PrioChanged
    <3> HIDE DEF p
    <3> QED
      BY <2>1, <2>3, <3>1, AdjustedLine
  <2>5. lock_count # 0 /\ owner # t
    BY <1>1, <1>4, OwnFacts DEF MutexInv, Ownership, Granted
  <2>6. \A w \in Thread : Waits(k, w) => w # owner /\ Below(p, w)
    BY <1>1, <2>4 DEF MutexInv, Inheritance
  <2> HIDE DEF p
  <2>7. \A u \in Thread : Granted(u)' <=> Granted(u)
    BY <1>1, <2>1, <2>3, <2>4 DEF Granted, RetKept
  <2>8. Waiting'
    BY <1>1, <2>1, <2>3, <2>4 DEF MutexInv, Waiting, RetKept
  <2>9. Ownership'
    <3>1. (Granted(owner) \/ (held[owner] = lock_count /\ pc[owner] \in {"out", "lock"}))'
      BY <2>1, <2>2, <2>3, <2>4, <2>5 DEF MutexInv, Ownership, Granted, RetKept
    <3>2. \A u \in Thread : pc'[u] = "unlock" => lock_count = 0
      BY <2>1 DEF MutexInv, Ownership
    <3> QED
      BY <1>4, <2>2, <2>5, <2>7, <3>1, <3>2 DEF MutexInv, Ownership
  <2>10. Holding'
    BY <1>1, <1>2, <2>1, <2>2 DEF MutexInv, Holding
  <2>11. Priorities' /\ Line'
    BY <2>2, <2>4 DEF MutexInv, Priorities, Line
  <2>12. Inheritance'
    <3>1. \A u \in Thread : pc'[u] # "expired"
      BY <1>1, <2>1, OwnFacts
    <3> QED
      BY <1>4, <2>2, <2>4, <2>6, <3>1 DEF Inheritance, Below
  <2> QED
    BY <2>8, <2>9, <2>10, <2>11, <2>12 DEF MutexInv
<1> QED
  BY <1>3, <1>4

\* What the owner inherits is enough for the new waiter and for the others.
LEMMA InheritedBelow ==
  ASSUME NEW target \in Prio, k.prio[owner] \in Prio, NEW p, p = Inherited(target)
  PROVE  /\ p <= target \/ p <= Ceiling
         /\ p <= k.prio[owner]
<1>1. target \in Int /\ k.prio[owner] \in Int /\ Ceiling \in Int
  BY MutexAssumption, KernelAssumption
<1> QED
  BY <1>1 DEF Inherited, NewPrioForInheritance

\* Waiting, if raising the owner did not swap.
LEMMA LockWaitKeeps ==
  ASSUME TypeInv, MutexInv, NEW t \in Thread, NEW forever \in BOOLEAN, LockWait(t, forever),
         Unswapped'
  PROVE  MutexInv'
<1> DEFINE p == NewPrioForInheritance(k.prio[t], k.prio[owner])
           raised == IF p < k.prio[owner] THEN AdjustOwnerPrio(k, p) ELSE k
           v == Inherited(k.prio[t])
<1>1. /\ Running(t) /\ pc[t] = "lock" /\ lock_count # 0 /\ owner # t
      /\ pc \in [Thread -> Place]
      /\ owner' = owner /\ lock_count' = lock_count /\ orig' = orig /\ new_prio' = new_prio
      /\ held' = held /\ base' = base
  BY DEF LockWait, At, Contended, mutex, history, TypeInv, MutexTypes
<1>2. /\ owner \in Thread /\ owner # NoThread /\ ~Waits(k, t)
      /\ k.prio \in [Thread -> Prio] /\ Prio \subseteq Int /\ Ceiling \in Int
  BY <1>1, OwnFacts
<1>3. /\ raised.cur = t /\ Goto(t, "wait")
      /\ k' = PendCurrent(raised, MutexQ, forever)
  <2>1. ~(Goto(t, IF forever THEN "pend for ever" ELSE "pend with timeout"))
    BY <1>1 DEF Goto, Unswapped
  <2> QED
    BY <1>2, <2>1 DEF LockWait
<1>4. /\ Serving(raised) /\ v \in Prio /\ PrioChanged(k, raised, owner, v)
      /\ RetKept(k, raised, t)
  BY <1>1, <1>2, RaiseFacts
<1> HIDE DEF raised, v
<1>5. /\ WaitBegun(raised, k', t, MutexQ) /\ RetKept(raised, k', t) /\ k'.ret[t] = "EAGAIN"
  BY <1>3, <1>4, PendFacts
<1>6. /\ ~Waits(k, owner) /\ raised.prio[owner] = v
      /\ \A u \in Thread : u # owner => raised.prio[u] = k.prio[u]
      /\ raised.waitq = k.waitq /\ Sorted(raised.waitq[MutexQ], raised.prio)
      /\ \A u \in Thread : Waits(raised, u) <=> Waits(k, u)
  BY <1>2, <1>4, AdjustedLine DEF PrioChanged
<1>7. /\ ToSet(k'.waitq[MutexQ]) = ToSet(k.waitq[MutexQ]) \cup {t}
      /\ Sorted(k'.waitq[MutexQ], k'.prio)
  <2> DEFINE q == raised.waitq[MutexQ]
  <2>1. raised \in KernelState /\ WaitQOk(raised) /\ MutexQ \in WaitQ /\ ~Waits(raised, t)
    BY <1>2, <1>4, <1>6, MutexAssumption DEF Serving, Inv
  <2>2. /\ q \in Seq(Thread) /\ NoDuplicates(q) /\ t \notin ToSet(q)
        /\ raised.prio \in [Thread -> Int] /\ raised.waitq \in [WaitQ -> Seq(Thread)]
    BY <2>1, KernelAssumption DEF KernelState, WaitQOk, Waits
  <2>3. k'.waitq[MutexQ] = PriqAdd(q, t, raised.prio) /\ k'.prio = raised.prio
    BY <1>5, <2>1, <2>2 DEF WaitBegun
  <2> QED
    BY <1>6, <2>2, <2>3, PriqAddProperties
<1>8. /\ \A u \in Thread : Waits(k', u) <=> u = t \/ Waits(k, u)
      /\ k'.prio[owner] = v /\ \A u \in Thread : u # owner => k'.prio[u] = k.prio[u]
      /\ \A u \in Thread : u # t => k'.ret[u] = k.ret[u]
  BY <1>4, <1>5, <1>6 DEF WaitBegun, RetKept
<1>9. pc'[t] = "wait" /\ \A u \in Thread : u # t => pc'[u] = pc[u]
  BY <1>1, <1>3 DEF Goto
<1>10. v \in Int /\ v <= k.prio[owner] /\ (v <= k.prio[t] \/ v <= Ceiling)
  <2>1. k.prio[owner] \in Prio /\ k.prio[t] \in Prio
    BY <1>2
  <2> QED
    BY <1>2, <1>4, <2>1, InheritedBelow DEF v
<1>11. Waiting'
  BY <1>5, <1>7, <1>8, <1>9 DEF MutexInv, Waiting
<1>12. Ownership'
  <2>1. \A u \in Thread : Granted(u)' => Granted(u)
    BY <1>8, <1>9 DEF Granted
  <2>2. (Granted(owner) \/ (held[owner] = lock_count /\ pc[owner] \in {"out", "lock"}))'
    BY <1>1, <1>2, <1>8, <1>9 DEF MutexInv, Ownership, Granted
  <2>3. \A u \in Thread : pc'[u] = "unlock" => lock_count = 0
    BY <1>9 DEF MutexInv, Ownership
  <2> QED
    BY <1>1, <1>2, <2>1, <2>2, <2>3 DEF MutexInv, Ownership
<1>13. Holding'
  BY <1>1, <1>9 DEF MutexInv, Holding
<1>14. Priorities' /\ Line'
  BY <1>1, <1>7, <1>8 DEF MutexInv, Priorities, Line
<1>15. Inheritance'
  <2>1. \A u \in Thread : pc'[u] # "expired"
    BY <1>1, <1>9, OwnFacts
  <2>2. ASSUME NEW w \in Thread, Waits(k', w)
        PROVE  v <= k'.prio[w] \/ v <= Ceiling
    <3>1. CASE w = t
      BY <1>1, <1>8, <1>10, <3>1
    <3>2. CASE w # t
      <4>1. Waits(k, w) /\ w # owner /\ k'.prio[w] = k.prio[w]
        BY <1>6, <1>8, <2>2, <3>2
      <4>2. k.prio[owner] <= k.prio[w] \/ k.prio[owner] <= Ceiling
        BY <1>1, <4>1 DEF MutexInv, Inheritance, Below
      <4>3. k.prio[owner] \in Int /\ k.prio[w] \in Int
        BY <1>2
      <4> QED
        BY <1>2, <1>10, <4>1, <4>2, <4>3
    <3> QED
      BY <3>1, <3>2
  <2> QED
    BY <1>1, <1>2, <1>8, <2>1, <2>2 DEF Inheritance, Below
<1> QED
  BY <1>11, <1>12, <1>13, <1>14, <1>15 DEF MutexInv

\* One lock less.
LEMMA UnlockEnterKeeps ==
  ASSUME TypeInv, MutexInv, NEW t \in Thread, UnlockEnter(t)
  PROVE  MutexInv'
<1> DEFINE x == SchedLock(k)
<1>1. /\ At(t, "out") /\ Running(t) /\ pc[t] = "out" /\ lock_count > 0 /\ owner = t
      /\ lock_count' = lock_count - 1 /\ held' = [held EXCEPT ![t] = @ - 1]
      /\ owner' = owner /\ orig' = orig /\ new_prio' = new_prio /\ base' = base
      /\ pc \in [Thread -> Place]
  BY DEF UnlockEnter, At, TypeInv, MutexTypes
<1>2. /\ Serving(x) /\ x.cur = t /\ WaitsKept(k, x) /\ x.ret = k.ret
      /\ x.locked = [k.locked EXCEPT ![t] = 1]
  BY <1>1, EnterFacts
<1>3. \/ lock_count # 1 /\ k' = SchedUnlock(x) /\ pc' = pc
      \/ lock_count = 1 /\ k' = x /\ Goto(t, "unlock")
  BY DEF UnlockEnter
<1> HIDE DEF x
<1>4. WaitsKept(k, k') /\ RetKept(k, k', t)
  <2>1. CASE k' = SchedUnlock(x)
    <3>1. x.locked[t] > 0
      BY <1>1, <1>2, RunnerFacts
    <3>2. WaitsKept(x, k') /\ RetKept(x, k', t)
      BY <1>2, <2>1, <3>1, SchedUnlockStep
    <3> QED
      BY <1>2, <3>2, WaitsTrans DEF RetKept
  <2>2. CASE k' = x
    BY <1>2, <2>2 DEF RetKept
  <2> QED
    BY <1>3, <2>1, <2>2
<1>5. /\ \A u \in Thread : u # t => pc'[u] = pc[u]
      /\ pc'[t] = IF lock_count = 1 THEN "unlock" ELSE "out"
  BY <1>1, <1>3 DEF Goto
<1>6. held[t] = lock_count
  BY <1>1, OwnFacts DEF MutexInv, Ownership, Granted
<1>7. /\ held'[t] = lock_count' /\ (lock_count' = 0 <=> lock_count = 1)
      /\ \A u \in Thread : u # t => held'[u] = held[u] /\ held[u] = 0
  BY <1>1, <1>6, OwnFacts DEF MutexInv, Holding
<1>8. \A u \in Thread : ~Granted(u)'
  <2>1. \A u \in Thread : u # t => ~Granted(u)
    BY <1>1 DEF MutexInv, Ownership
  <2> QED
    BY <1>4, <1>5, <2>1 DEF Granted, WaitsKept, RetKept
<1>9. Waiting'
  BY <1>1, <1>4, <1>5 DEF MutexInv, Waiting, WaitsKept, RetKept
<1>10. Ownership'
  <2>1. \A u \in Thread : pc'[u] = "unlock" => lock_count' = 0
    BY <1>1, <1>5, <1>7, OwnFacts
  <2>2. /\ owner' # NoThread /\ lock_count' = 0 => pc'[owner'] = "unlock"
        /\ lock_count' # 0 => held'[owner'] = lock_count' /\ pc'[owner'] \in {"out", "lock"}
    BY <1>1, <1>5, <1>7
  <2>3. owner' # NoThread
    BY <1>1, MutexAssumption
  <2> QED
    BY <1>8, <2>1, <2>2, <2>3 DEF Ownership
<1>11. Holding'
  BY <1>1, <1>5, <1>7 DEF Holding
<1>12. Priorities' /\ Line'
  BY <1>1, <1>4 DEF MutexInv, Priorities, Line, WaitsKept
<1>13. Inheritance'
  <2>1. \A u \in Thread : pc'[u] # "expired"
    BY <1>1, <1>5, OwnFacts
  <2>2. lock_count # 0
    BY <1>1
  <2> QED
    BY <1>1, <1>4, <2>1, <2>2 DEF MutexInv, Inheritance, Below, WaitsKept
<1> QED
  BY <1>9, <1>10, <1>11, <1>12, <1>13 DEF MutexInv

\* The first of a sorted line.
LEMMA HeadOfLine ==
  ASSUME NEW q \in Seq(Thread), NEW prio \in [Thread -> Int], Sorted(q, prio),
         NEW w \in ToSet(q), q # <<>>
  PROVE  prio[q[1]] <= prio[w]
<1>1. PICK i \in 1 .. Len(q) : q[i] = w
  BY ToSetIndexed
<1>2. Len(q) \in Nat /\ 1 \in 1 .. Len(q) /\ w \in Thread
  BY <1>1, ToSetIndexed
<1>3. CASE i = 1
  BY <1>1, <1>2, <1>3
<1>4. CASE i # 1
  <2>1. 1 < i
    BY <1>2, <1>4
  <2> QED
    BY <1>1, <1>2, <2>1 DEF Sorted
<1> QED
  BY <1>3, <1>4

\* Releasing the mutex, if restoring the priority did not swap.
LEMMA UnlockKeeps ==
  ASSUME TypeInv, MutexInv, NEW t \in Thread, Unlock(t), Unswapped'
  PROVE  MutexInv'
<1> DEFINE x == AdjustOwnerPrio(k, orig)
<1>1. /\ Running(t) /\ pc[t] = "unlock" /\ pc \in [Thread -> Place]
      /\ new_prio' = new_prio /\ held' = held /\ base' = base
  BY DEF Unlock, At, history, TypeInv, MutexTypes
<1>2. /\ owner = t /\ lock_count = 0 /\ held[t] = 0 /\ owner # NoThread /\ orig = base[t]
      /\ orig \in Prio /\ base \in [Thread -> Prio]
  BY <1>1, MutexAssumption
     DEF TypeInv, Inner, MutexTypes, MutexInv, Ownership, Holding, Priorities
<1>3. x.cur = t /\ HandOver(x, t)
  <2>1. ~Goto(t, "handoff")
    BY <1>1 DEF Goto, Unswapped
  <2> QED
    BY <2>1 DEF Unlock
<1>4. /\ Serving(x) /\ PrioChanged(k, x, owner, orig) /\ RetKept(k, x, t) /\ x.locked = k.locked
  BY <1>1, <1>2, AdjustFacts
<1> HIDE DEF x
<1>5. /\ \A u \in Thread : x.prio[u] = base[u]
      /\ x.waitq = k.waitq /\ Sorted(x.waitq[MutexQ], x.prio)
      /\ ~Waits(k, t)
  <2>1. /\ ~Waits(k, owner) /\ x.prio[owner] = orig
        /\ \A u \in Thread : u # owner => x.prio[u] = k.prio[u]
        /\ x.waitq = k.waitq /\ Sorted(x.waitq[MutexQ], x.prio)
    BY <1>2, <1>4, AdjustedLine
  <2> QED
    BY <1>2, <2>1 DEF MutexInv, Priorities
<1>6. \A u \in Thread : Waits(x, u) <=> Waits(k, u)
  BY <1>4 DEF PrioChanged
<1>7. pc'[t] = "out" /\ \A u \in Thread : u # t => pc'[u] = pc[u]
  BY <1>1, <1>3 DEF HandOver, Goto
<1>8. /\ \A u \in Thread : held[u] = 0 /\ ~Granted(u)
      /\ \A u \in Thread : pc'[u] \notin {"unlock", "expired"}
  <2>1. \A u \in Thread : held[u] = 0 /\ ~Granted(u)
    BY <1>2 DEF MutexInv, Holding, Ownership
  <2>2. \A u \in Thread : pc'[u] \notin {"unlock", "expired"}
    BY <1>1, <1>7, OwnFacts
  <2> QED
    BY <2>1, <2>2
<1>9. Holding'
  BY <1>1, <1>8 DEF Holding
<1>10. CASE HasWaiter(x, MutexQ)
  <2> DEFINE w == Waiter(x, MutexQ)
             y == WakeFirst(x, MutexQ, "OK")
  <2>1. /\ owner' = w /\ lock_count' = 1 /\ orig' = x.prio[w] /\ k' = SchedUnlock(y)
    BY <1>2, <1>3, <1>10 DEF HandOver
  <2>2. /\ w \in Thread /\ w \in ToSet(x.waitq[MutexQ]) /\ Waits(x, w) /\ w # x.cur
        /\ w = x.waitq[MutexQ][1]
        /\ Serving(y) /\ WaitEnded(x, y, w) /\ y.cur = x.cur
        /\ y.ret = [x.ret EXCEPT ![w] = "OK"] /\ y.locked = x.locked
    BY <1>4, <1>10, WakeFacts
  <2> HIDE DEF w, y
  <2>3. WaitsKept(y, k') /\ RetKept(y, k', t)
    BY <1>1, <1>3, <1>4, <2>1, <2>2, LeaveFacts
  <2>4. WaitEnded(x, k', w)
    BY <2>2, <2>3, WaitsTrans
  <2>5. x \in KernelState /\ WaitQOk(x) /\ MutexQ \in WaitQ
    BY <1>4, MutexAssumption DEF Serving, Inv
  <2>6. /\ x.ret \in [Thread -> SwapValue] /\ x.prio \in [Thread -> Int]
        /\ x.waitq[MutexQ] \in Seq(Thread) /\ NoDuplicates(x.waitq[MutexQ])
    BY <2>5, KernelAssumption DEF KernelState, WaitQOk
  <2>7. /\ k'.ret[w] = "OK" /\ w # t
        /\ \A u \in Thread : u # w /\ u # t => k'.ret[u] = k.ret[u]
    BY <1>3, <1>4, <2>2, <2>3, <2>6 DEF RetKept
  <2>8. /\ k'.prio = x.prio
        /\ \A u \in Thread : Waits(k', u) <=> u # w /\ Waits(k, u)
        /\ k'.waitq[MutexQ] = PriqRemove(x.waitq[MutexQ], w)
    BY <1>6, <2>4, <2>5 DEF WaitEnded
  <2>9. /\ ToSet(k'.waitq[MutexQ]) = ToSet(k.waitq[MutexQ]) \ {w}
        /\ Sorted(k'.waitq[MutexQ], k'.prio)
    <3>1. /\ ToSet(PriqRemove(x.waitq[MutexQ], w)) = ToSet(x.waitq[MutexQ]) \ {w}
          /\ Sorted(PriqRemove(x.waitq[MutexQ], w), x.prio)
      BY <1>5, <2>2, <2>6, PriqRemoveProperties
    <3> QED
      BY <1>5, <2>8, <3>1
  <2>10. pc'[w] = "wait" /\ ~Waits(k', w) /\ k'.ret[w] = "OK"
    <3>1. pc[w] = "wait"
      BY <1>6, <2>2 DEF MutexInv, Waiting
    <3> QED
      BY <1>7, <2>2, <2>7, <2>8, <3>1
  <2>11. Waiting'
    BY <1>5, <1>7, <2>7, <2>8, <2>9 DEF MutexInv, Waiting
  <2>12. Ownership'
    <3>1. \A u \in Thread : u # w => ~Granted(u)'
      <4>1. ASSUME NEW u \in Thread, u # w, Granted(u)'
            PROVE  FALSE
        <5>1. u # t
          BY <1>7, <4>1 DEF Granted
        <5>2. Waits(k, u) <=> Waits(k', u)
          BY <2>8, <4>1
        <5> QED
          BY <1>7, <1>8, <2>7, <4>1, <5>1, <5>2 DEF Granted
      <4> QED
        BY <4>1
    <3>2. owner' # NoThread /\ lock_count' # 0
      BY <2>1, <2>2, MutexAssumption
    <3>3. \A u \in Thread : Granted(u)' => owner' = u /\ lock_count' = 1
      BY <2>1, <3>1
    <3>4. Granted(owner)'
      BY <2>1, <2>10 DEF Granted
    <3> QED
      BY <1>8, <3>2, <3>3, <3>4 DEF Ownership
  <2>13. Priorities' /\ Line'
    BY <1>1, <1>5, <2>1, <2>2, <2>8, <2>9 DEF Priorities, Line
  <2>14. Inheritance'
    <3>1. ASSUME NEW v \in Thread, Waits(k', v)
          PROVE  k'.prio[w] <= k'.prio[v]
      <4>1. v \in ToSet(x.waitq[MutexQ]) /\ x.waitq[MutexQ] # <<>>
        BY <1>5, <1>10, <2>8, <3>1 DEF MutexInv, Waiting, HasWaiter
      <4> QED
        BY <1>5, <2>2, <2>6, <2>8, <4>1, HeadOfLine
    <3>2. owner' # NoThread
      BY <2>1, <2>2, MutexAssumption
    <3> QED
      BY <1>8, <2>1, <3>1, <3>2 DEF Inheritance, Below
  <2> QED
    BY <1>9, <2>11, <2>12, <2>13, <2>14 DEF MutexInv
<1>11. CASE ~HasWaiter(x, MutexQ)
  <2>1. owner' = NoThread /\ lock_count' = 0 /\ orig' = orig /\ k' = SchedUnlock(x)
    BY <1>2, <1>3, <1>11 DEF HandOver
  <2>2. WaitsKept(x, k') /\ RetKept(x, k', t)
    BY <1>1, <1>3, <1>4, <2>1, LeaveFacts
  <2>3. \A u \in Thread : ~Waits(k', u)
    <3>1. \A u \in Thread : ~Waits(k, u)
      <4>1. k.waitq[MutexQ] = <<>> /\ <<>> \in Seq(Thread)
        BY <1>5, <1>11 DEF HasWaiter
      <4>2. \A u : u \notin ToSet(k.waitq[MutexQ])
        <5>1. k.waitq[MutexQ] \in Seq(Thread) /\ Len(k.waitq[MutexQ]) = 0
          BY <4>1
        <5>2. \A u : (u \in ToSet(k.waitq[MutexQ]))
                      <=> \E i \in 1 .. Len(k.waitq[MutexQ]) : k.waitq[MutexQ][i] = u
          BY <5>1, ToSetIndexed
        <5> QED
          BY <5>1, <5>2
      <4> QED
        BY <4>2 DEF MutexInv, Waiting
    <3> QED
      BY <1>6, <2>2, <3>1 DEF WaitsKept
  <2>4. \A u \in Thread : ~Granted(u)'
    <3>1. \A u \in Thread : u # t => k'.ret[u] = k.ret[u]
      BY <1>4, <2>2 DEF RetKept
    <3>2. \A u \in Thread : ~Waits(k, u)
      BY <1>6, <2>2, <2>3 DEF WaitsKept
    <3> QED
      BY <1>7, <1>8, <3>1, <3>2 DEF Granted
  <2>5. Waiting' /\ Inheritance'
    BY <2>3 DEF Waiting, Inheritance
  <2>6. Ownership'
    BY <1>8, <2>1, <2>4 DEF Ownership
  <2>7. Priorities' /\ Line'
    BY <1>1, <1>5, <2>1, <2>2 DEF Priorities, Line, WaitsKept
  <2> QED
    BY <1>9, <2>5, <2>6, <2>7 DEF MutexInv
<1> QED
  BY <1>10, <1>11

LEMMA MutexInvInit ==
  ASSUME MutexInit
  PROVE  MutexInv
<1>1. PICK prio \in [Thread -> Prio], delayed \in SUBSET (Thread \ {Main}) :
        k = BootState(prio, delayed)
  BY DEF MutexInit, Init
<1>2. /\ \A t \in Thread : ~Waits(k, t)
      /\ k.waitq[MutexQ] = <<>>
  BY <1>1, MutexAssumption DEF BootState, Waits
<1>3. /\ owner = NoThread /\ lock_count = 0 /\ base = k.prio /\ NoThread \notin Thread
      /\ \A t \in Thread : pc[t] = "out" /\ held[t] = 0
  BY MutexAssumption DEF MutexInit
<1>4. Line
  BY <1>2 DEF Line, Sorted
<1> QED
  BY <1>2, <1>3, <1>4 DEF MutexInv, Waiting, Ownership, Granted, Holding, Priorities, Inheritance

LEMMA MutexInvNext ==
  ASSUME TypeInv, MutexInv, Unswapped, Unswapped', Careful, Careful',
         [MutexNext]_mutexVars
  PROVE  MutexInv'
<1>1. CASE UNCHANGED mutexVars
  BY <1>1 DEF mutexVars, mutex, history, MutexInv, Waiting, Ownership, Granted, Holding,
     Priorities, Line, Inheritance, Below
<1>2. CASE SchedStep
  BY <1>2, SchedStepKeeps
<1>3. ASSUME NEW t \in Thread, MutexCall(t)
      PROVE  MutexInv'
  <2>1. ASSUME NEW forever \in {TRUE, ~TimedWaits(base)}, LockWait(t, forever)
        PROVE  MutexInv'
    <3>1. forever \in BOOLEAN
      BY <2>1, MutexAssumption DEF TypeInv, MutexTypes
    <3> QED
      BY <2>1, <3>1, LockWaitKeeps
  <2>2. \A forever : ~LockPend(t, forever)
    BY DEF LockPend, At, Unswapped
  <2>3. ~UnlockHandoff(t)
    BY DEF UnlockHandoff, At, Unswapped
  <2> QED
    BY <1>3, <2>1, <2>2, <2>3, PassingKeeps, LockFreeKeeps, LockGotKeeps, LockExpiredKeeps,
       LockRestoreKeeps, UnlockEnterKeeps, UnlockKeeps DEF MutexCall
<1> QED
  BY <1>1, <1>2, <1>3 DEF MutexNext

\* As long as no thread is switched out inside adjust_owner_prio(), MutexInv
\* holds: the owner recorded by the mutex is the thread that has it.
THEOREM MutexUnswapped == MutexSpec /\ []Careful /\ []Unswapped => []MutexInv
<1>1. MutexInit => MutexInv
  BY MutexInvInit
<1>2. TypeInv /\ MutexInv /\ Unswapped /\ Unswapped' /\ Careful /\ Careful'
          /\ [MutexNext]_mutexVars => MutexInv'
  BY MutexInvNext
<1> QED
  BY <1>1, <1>2, MutexInvariant, PTL DEF MutexSpec

\* "Ensuring mutually exclusive access": unless a thread is switched out inside
\* adjust_owner_prio(), two threads never both have the mutex.
THEOREM ExclusiveUnlessSwapped == MutexSpec /\ []Careful /\ []Unswapped => []MutualExclusion
<1>1. TypeInv /\ MutexInv => MutualExclusion
  <2> SUFFICES ASSUME TypeInv, MutexInv, NEW t \in Thread, held[t] > 0
               PROVE  owner = t /\ lock_count = held[t]
    BY DEF MutualExclusion
  <2>1. held[t] # 0
    BY DEF TypeInv, MutexTypes
  <2>2. owner = t /\ owner # NoThread
    BY <2>1, MutexAssumption DEF MutexInv, Holding
  <2>3. pc[t] # "wait" /\ pc[t] # "unlock"
    BY <2>1 DEF MutexInv, Holding
  <2> QED
    BY <2>2, <2>3 DEF MutexInv, Ownership, Granted
<1> QED
  BY <1>1, MutexInvariant, MutexUnswapped, PTL

\* A thread on the mutex's wait queue waits.
LEMMA QueuedWaits ==
  ASSUME TypeInv, NEW w \in ToSet(k.waitq[MutexQ])
  PROVE  w \in Thread /\ Waits(k, w)
<1>1. k \in KernelState /\ WaitQOk(k) /\ MutexQ \in WaitQ
  BY MutexAssumption DEF TypeInv, SchedInv, Inv
<1>2. k.waitq[MutexQ] \in Seq(Thread)
  BY <1>1 DEF KernelState
<1> QED
  BY <1>1, <1>2, ToSetIndexed DEF WaitQOk, Waits

\* Unless a thread is switched out there, nobody is left waiting for a mutex
\* that no thread owns or is releasing.
THEOREM OwnedUnlessSwapped == MutexSpec /\ []Careful /\ []Unswapped => []WaiterHasOwner
<1>1. TypeInv /\ MutexInv => WaiterHasOwner
  <2> SUFFICES ASSUME TypeInv, MutexInv, HasWaiter(k, MutexQ)
               PROVE  \/ owner # NoThread /\ lock_count > 0
                      \/ \E t \in Thread : pc[t] \in {"unlock", "handoff"}
    BY DEF WaiterHasOwner
  <2>1. Inv(k) /\ MutexQ \in WaitQ
    BY MutexAssumption DEF TypeInv, SchedInv
  <2>2. Waiter(k, MutexQ) \in Thread /\ Waits(k, Waiter(k, MutexQ))
    BY <2>1, WaiterType
  <2>3. owner # NoThread
    BY <2>2 DEF MutexInv, Inheritance
  <2>4. owner \in Thread /\ lock_count \in Nat
    BY <2>3 DEF TypeInv, MutexTypes
  <2>5. CASE lock_count = 0
    BY <2>3, <2>4, <2>5 DEF MutexInv, Ownership
  <2>6. CASE lock_count # 0
    BY <2>3, <2>4, <2>6
  <2> QED
    BY <2>5, <2>6
<1> QED
  BY <1>1, MutexInvariant, MutexUnswapped, PTL

\* Unless a thread is switched out there, whoever has the mutex runs at least at
\* the priority of every thread that waits for it, as far as the ceiling allows.
THEOREM InheritsUnlessSwapped == MutexSpec /\ []Careful /\ []Unswapped => []OwnerInherits
<1>1. TypeInv /\ MutexInv /\ MutualExclusion => OwnerInherits
  <2> SUFFICES ASSUME TypeInv, MutexInv, MutualExclusion, NEW w \in ToSet(k.waitq[MutexQ]),
                      NEW t \in Thread, held[t] > 0
               PROVE  k.prio[t] <= k.prio[w] \/ k.prio[t] <= Ceiling
    BY DEF OwnerInherits
  <2>1. owner = t /\ lock_count # 0
    BY DEF MutualExclusion, TypeInv, MutexTypes
  <2> QED
    BY <2>1, QueuedWaits DEF MutexInv, Inheritance, Below
<1> QED
  BY <1>1, MutexInvariant, MutexUnswapped, ExclusiveUnlessSwapped, PTL

\* Unless a thread is switched out there, what was inherited is given back.
THEOREM RestoredUnlessSwapped == MutexSpec /\ []Careful /\ []Unswapped => []PriorityRestored
<1>1. TypeInv /\ MutexInv => PriorityRestored
  <2> SUFFICES ASSUME TypeInv, MutexInv, NEW t \in Thread, held[t] = 0, pc[t] = "out"
               PROVE  k.prio[t] = base[t]
    BY DEF PriorityRestored
  <2>1. owner # t
    BY MutexAssumption DEF MutexInv, Ownership, Granted
  <2> QED
    BY <2>1 DEF MutexInv, Priorities
<1> QED
  BY <1>1, MutexInvariant, MutexUnswapped, PTL

-----------------------------------------------------------------------------
(***************************************************************************)
(* Threads of one priority, no higher than the ceiling, never swap there.  *)
(***************************************************************************)

Level == \A t, u \in Thread : base[t] = base[u] /\ Ceiling <= base[t]

\* Priorities never change, so adjust_owner_prio() has nothing to do.
LevelInv ==
  /\ Level /\ Unswapped /\ k.prio = base
  /\ owner # NoThread => \A t \in Thread : pc[t] = "expired" => new_prio[t] = base[t]

LEMMA LevelFacts ==
  ASSUME TypeInv, MutexInv, LevelInv, NEW t \in Thread, owner \in Thread
  PROVE  /\ k.prio[owner] = base[owner] /\ k.prio[t] = base[owner] /\ orig = base[owner]
         /\ NewPrioForInheritance(base[owner], base[owner]) = base[owner]
<1>1. base \in [Thread -> Prio] /\ Prio \subseteq Int /\ Ceiling \in Int /\ owner # NoThread
  BY MutexAssumption, KernelAssumption DEF TypeInv, MutexTypes
<1>2. base[owner] \in Int /\ Ceiling <= base[owner]
  BY <1>1 DEF LevelInv, Level
<1> QED
  BY <1>1, <1>2 DEF LevelInv, Level, MutexInv, Priorities, NewPrioForInheritance

\* A step that keeps the priorities and takes t to a harmless place.
LEMMA LevelMove ==
  ASSUME TypeInv, LevelInv, NEW t \in Thread,
         \A u \in Thread : u # t => pc'[u] = pc[u] /\ pc[u] # "expired",
         pc'[t] \notin {"pend for ever", "pend with timeout", "handoff", "expired"},
         k'.prio = k.prio, base' = base
  PROVE  LevelInv'
<1>1. Unswapped'
  BY DEF LevelInv, Unswapped
<1> QED
  BY <1>1 DEF LevelInv, Level

LEMMA LevelInvNext ==
  ASSUME TypeInv, MutexInv, LevelInv, Careful, Careful',
         [MutexNext]_mutexVars
  PROVE  LevelInv'
<1>1. CASE UNCHANGED mutexVars
  BY <1>1 DEF mutexVars, mutex, history, LevelInv, Level, Unswapped
<1>2. CASE SchedStep
  <2>1. k'.prio = k.prio
    BY <1>2, SchedStepFacts DEF WaitsKept, WaitEnded
  <2> QED
    BY <1>2, <2>1 DEF SchedStep, mutex, history, LevelInv, Level, Unswapped
<1>3. ASSUME NEW t \in Thread, MutexCall(t)
      PROVE  LevelInv'
  <2>1. Running(t) /\ base' = base /\ pc \in [Thread -> Place]
    BY <1>3 DEF MutexCall, LockEnter, LockFree, LockBusy, LockGot, LockExpired, LockRestore,
       LockGiveUp, LockWait, LockPend, UnlockEnter, Unlock, UnlockHandoff, At, history,
       TypeInv, MutexTypes
  <2>2. /\ Serving(k) /\ k.cur = t
        /\ \A u \in Thread : u # t => pc[u] \notin {"lock", "expired", "unlock"}
    BY <2>1, RunnerFacts, OwnFacts
  <2>3. ASSUME NEW there, Goto(t, there), k'.prio = k.prio,
               there \notin {"pend for ever", "pend with timeout", "handoff", "expired"}
        PROVE  LevelInv'
    <3>1. pc'[t] = there /\ \A u \in Thread : u # t => pc'[u] = pc[u]
      BY <2>1, <2>3 DEF Goto
    <3> QED
      BY <2>1, <2>2, <2>3, <3>1, LevelMove
  <2>4. CASE LockEnter(t)
    <3>1. At(t, "out") /\ k' = SchedLock(k) /\ Goto(t, "lock")
      BY <2>4 DEF LockEnter
    <3>2. k'.prio = k.prio
      BY <3>1, EnterFacts DEF WaitsKept
    <3> QED
      BY <2>3, <3>1, <3>2
  <2>5. CASE LockFree(t) \/ LockBusy(t) \/ LockGot(t) \/ LockGiveUp(t)
    <3>1. pc[t] # "out" /\ k' = SchedUnlock(k) /\ Goto(t, "out")
      BY <2>5 DEF LockFree, LockBusy, LockGot, LockGiveUp, At
    <3>2. k'.prio = k.prio
      BY <2>1, <3>1, LeaveKeeps DEF WaitsKept
    <3> QED
      BY <2>3, <3>1, <3>2
  <2>6. CASE LockExpired(t)
    <3>1. /\ k' = k /\ owner' = owner /\ Goto(t, "expired")
          /\ new_prio' = [new_prio EXCEPT ![t] =
               IF HasWaiter(k, MutexQ)
                 THEN NewPrioForInheritance(k.prio[Waiter(k, MutexQ)], orig) ELSE orig]
      BY <2>6 DEF LockExpired, mutex
    <3>2. /\ \A u \in Thread : u # t => pc'[u] = pc[u] /\ pc[u] # "expired"
          /\ pc'[t] = "expired"
      BY <2>1, <2>2, <3>1 DEF Goto
    <3>3. owner # NoThread => new_prio'[t] = base[t]
      <4> SUFFICES ASSUME owner # NoThread PROVE new_prio'[t] = base[t]
        OBVIOUS
      <4>1. owner \in Thread /\ new_prio \in [Thread -> Prio]
        BY DEF TypeInv, MutexTypes
      <4>2. HasWaiter(k, MutexQ) => Waiter(k, MutexQ) \in Thread
        BY WaiterType, MutexAssumption DEF TypeInv, SchedInv
      <4>3. base[t] = base[owner]
        BY <4>1 DEF LevelInv, Level
      <4> QED
        BY <3>1, <4>1, <4>2, <4>3, LevelFacts
    <3>4. Unswapped'
      BY <3>2 DEF LevelInv, Unswapped
    <3> QED
      BY <2>1, <3>1, <3>2, <3>3, <3>4 DEF LevelInv, Level
  <2>7. CASE LockRestore(t)
    <3>1. CASE owner = NoThread
      <4>1. Goto(t, "fault") /\ k' = k
        BY <2>7, <3>1 DEF LockRestore
      <4> QED
        BY <2>3, <4>1
    <3>2. CASE owner # NoThread
      <4>1. /\ pc[t] = "expired" /\ Goto(t, "restored") /\ k' = AdjustOwnerPrio(k, new_prio[t])
            /\ owner \in Thread
        BY <2>7, <3>2 DEF LockRestore, At, TypeInv, MutexTypes
      <4>2. new_prio[t] = k.prio[owner]
        BY <3>2, <4>1, LevelFacts DEF LevelInv, Level
      <4>3. k' = k
        BY <4>1, <4>2 DEF AdjustOwnerPrio
      <4> QED
        BY <2>3, <4>1, <4>3
    <3> QED
      BY <3>1, <3>2
  <2>8. ASSUME NEW forever \in {TRUE, ~TimedWaits(base)}, LockWait(t, forever)
        PROVE  LevelInv'
    <3>1. owner \in Thread /\ owner # NoThread
      BY <2>1, <2>8, OwnFacts DEF LockWait, Contended
    <3> DEFINE p == NewPrioForInheritance(k.prio[t], k.prio[owner])
    <3>2. ~(p < k.prio[owner])
      <4>1. p = k.prio[owner] /\ k.prio[owner] \in Int
        BY <3>1, LevelFacts, KernelAssumption DEF TypeInv, MutexTypes
      <4> QED
        BY <4>1
    <3>3. k' = PendCurrent(k, MutexQ, forever) /\ Goto(t, "wait")
      BY <2>2, <2>8, <3>1, <3>2 DEF LockWait
    <3>4. forever \in BOOLEAN
      BY <2>8, MutexAssumption DEF TypeInv, MutexTypes
    <3>5. k'.prio = k.prio
      BY <2>2, <3>3, <3>4, PendFacts DEF WaitBegun
    <3> QED
      BY <2>3, <3>3, <3>5
  <2>9. CASE UnlockEnter(t)
    <3> DEFINE x == SchedLock(k)
    <3>1. /\ At(t, "out") /\ pc[t] = "out"
          /\ \/ k' = SchedUnlock(x) /\ pc' = pc
             \/ k' = x /\ Goto(t, "unlock")
      BY <2>9 DEF UnlockEnter, At
    <3>2. Serving(x) /\ x.cur = t /\ x.prio = k.prio /\ x.locked[t] > 0
      <4>1. Serving(x) /\ x.cur = t /\ WaitsKept(k, x) /\ x.locked = [k.locked EXCEPT ![t] = 1]
        BY <3>1, EnterFacts
      <4>2. k.locked \in [Thread -> Nat]
        BY <2>1, RunnerFacts
      <4> HIDE DEF x
      <4> QED
        BY <4>1, <4>2 DEF WaitsKept
    <3> HIDE DEF x
    <3>3. k'.prio = k.prio
      BY <3>1, <3>2, SchedUnlockStep DEF WaitsKept
    <3>4. Goto(t, "out") \/ Goto(t, "unlock")
      BY <2>1, <3>1 DEF Goto
    <3> QED
      BY <2>3, <3>3, <3>4
  <2>10. CASE Unlock(t)
    <3>1. pc[t] = "unlock" /\ owner = t
      BY <2>10 DEF Unlock, At, TypeInv, Inner
    <3>2. AdjustOwnerPrio(k, orig) = k
      BY <3>1, LevelFacts DEF AdjustOwnerPrio
    <3>3. HandOver(k, t) /\ Goto(t, "out")
      BY <2>2, <2>10, <3>2 DEF Unlock, HandOver
    <3> DEFINE y == IF HasWaiter(k, MutexQ) THEN WakeFirst(k, MutexQ, "OK") ELSE k
    <3>4. k' = SchedUnlock(y)
      BY <3>3 DEF HandOver
    <3>5. Serving(y) /\ y.cur = t /\ y.locked = k.locked /\ y.prio = k.prio
      BY <2>2, WakeFacts DEF WaitEnded
    <3> HIDE DEF y
    <3>6. k'.prio = k.prio
      BY <2>1, <3>1, <3>4, <3>5, LeaveFacts DEF WaitsKept
    <3> QED
      BY <2>3, <3>3, <3>6
  <2>11. (\A forever : ~LockPend(t, forever)) /\ ~UnlockHandoff(t)
    BY DEF LockPend, UnlockHandoff, At, LevelInv, Unswapped
  <2> QED
    BY <1>3, <2>4, <2>5, <2>6, <2>7, <2>8, <2>9, <2>10, <2>11 DEF MutexCall
<1> QED
  BY <1>1, <1>2, <1>3 DEF MutexNext

\* Threads that begin with one priority, no higher than the ceiling, are never
\* switched out inside adjust_owner_prio(), whatever they do with the mutex.
THEOREM EqualsNeverSwap == MutexSpec /\ []Careful /\ Level => []Unswapped
<1>1. MutexInit /\ Level => LevelInv /\ MutexInv
  <2> SUFFICES ASSUME MutexInit, Level PROVE LevelInv /\ MutexInv
    OBVIOUS
  <2>1. Unswapped /\ owner = NoThread /\ k.prio = base
    BY DEF MutexInit, Unswapped
  <2> QED
    BY <2>1, MutexInvInit DEF LevelInv
<1>2. TypeInv /\ MutexInv /\ LevelInv /\ Careful /\ Careful' /\ [MutexNext]_mutexVars
        => LevelInv' /\ MutexInv'
  <2> SUFFICES ASSUME TypeInv, MutexInv, LevelInv, Careful, Careful',
                      [MutexNext]_mutexVars
               PROVE  LevelInv' /\ MutexInv'
    OBVIOUS
  <2>1. LevelInv'
    BY LevelInvNext
  <2>2. Unswapped /\ Unswapped'
    BY <2>1 DEF LevelInv
  <2> QED
    BY <2>1, <2>2, MutexInvNext
<1>3. LevelInv => Unswapped
  BY DEF LevelInv
<1> QED
  BY <1>1, <1>2, <1>3, MutexInvariant, PTL DEF MutexSpec

\* So among such threads, however many, a mutex keeps every promise.
THEOREM EqualsAreSafe ==
  MutexSpec /\ []Careful /\ Level
    => [](MutualExclusion /\ WaiterHasOwner /\ OwnerInherits /\ PriorityRestored)
  BY EqualsNeverSwap, ExclusiveUnlessSwapped, OwnedUnlessSwapped, InheritsUnlessSwapped,
     RestoredUnlessSwapped, PTL
=============================================================================
