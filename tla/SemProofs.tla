------------------------------ MODULE SemProofs ------------------------------
(***************************************************************************)
(* The semaphore keeps its promises for every set of threads, every        *)
(* assignment of priorities and every limit.  Each action is first         *)
(* summarised by what it does to the waits, the return values, the callers *)
(* and the count (Effect); the invariant, the order of service and the     *)
(* refinement follow from the summaries.                                   *)
(***************************************************************************)
EXTENDS Sem, SchedProofs

\* Who waits is in the semaphore's queue, inside k_sem_take(), and would
\* return -EAGAIN if nothing but its timeout ended the wait.
Callers ==
  \A t \in Thread : Waits(k, t) =>
    t \in ToSet(k.waitq[Semaphore]) /\ call[t] = Semaphore /\ k.ret[t] = "EAGAIN"

\* The queue is in the order of service: by priority, then by waiting time.
InOrder ==
  \A u, v \in Thread : Precedes(k.waitq[Semaphore], u, v) =>
    k.prio[u] < k.prio[v] \/ (k.prio[u] = k.prio[v] /\ <<v, u>> \notin ahead)

SemInv ==
  /\ SchedInv
  /\ count \in 0 .. Limit
  /\ call \in [Thread -> {Semaphore, NoCall}]
  /\ ahead \subseteq Thread \X Thread
  /\ \A t \in Thread : <<t, t>> \notin ahead
  /\ NoUnitBesideWaiter
  /\ Callers
  /\ InOrder

-----------------------------------------------------------------------------
(***************************************************************************)
(* What the steps do.                                                      *)
(***************************************************************************)

\* Nobody inside k_sem_take() sees its return value change, those in S aside.
ResultsKept(S) == \A t \in Thread \ S : call[t] = Semaphore => k'.ret[t] = k.ret[t]

\* No wait begins or ends; the count may go down or, for want of a waiter, up.
Quiet ==
  /\ WaitsKept(k, k') /\ ResultsKept({}) /\ call' = call
  /\ \/ count' = count
     \/ count > 0 /\ count' = count - 1
     \/ count' = 0
     \/ ~HasWaiter(k, Semaphore) /\ count < Limit /\ count' = count + 1

TimedOut(u) ==
  WaitEnded(k, k', u) /\ ResultsKept({}) /\ call' = call /\ count' = count

Removed(u) ==
  /\ WaitEnded(k, k', u) /\ ResultsKept({}) /\ count' = count
  /\ call' = [call EXCEPT ![u] = NoCall]

Granted(u) ==
  /\ HasWaiter(k, Semaphore) /\ u = Waiter(k, Semaphore)
  /\ WaitEnded(k, k', u) /\ ResultsKept({u}) /\ k'.ret[u] = "OK"
  /\ call' = call /\ count' = count

Waited(u) ==
  /\ count = 0 /\ call[u] = NoCall /\ ~Waits(k, u)
  /\ WaitBegun(k, k', u, Semaphore) /\ ResultsKept({u}) /\ k'.ret[u] = "EAGAIN"
  /\ call' = [call EXCEPT ![u] = Semaphore] /\ count' = count

Returned(u) ==
  /\ call[u] = Semaphore /\ ~Waits(k, u)
  /\ call' = [call EXCEPT ![u] = NoCall] /\ count' = count /\ k' = k

Effect ==
  \/ Quiet
  \/ \E u \in Thread : TimedOut(u) \/ Removed(u) \/ Granted(u) \/ Waited(u) \/ Returned(u)

\* The current thread does not wait.
LEMMA CurrentWaitsNot ==
  ASSUME SchedInv, NEW t \in Thread, k.cur = t
  PROVE  ~Waits(k, t)
  BY KernelAssumption DEF SchedInv, Inv, IsReady, Stopped, Waits

\* A call made outside k_sem_take() changes its caller's result at most.
LEMMA FreeResults ==
  ASSUME NEW t \in Thread, Free(t), RetKept(k, k', t), NEW S
  PROVE  ResultsKept(S)
  BY SemAssumption DEF Free, RetKept, ResultsKept

\* do_sem_give(), at the end of a call or of an interrupt.
LEMMA GivenEffect ==
  ASSUME SemInv,
         \/ k' = IntExit(Given)
         \/ \E t \in Thread : Free(t) /\ k' = Reschedule(Given),
         count' = Counted, call' = call
  PROVE  SchedInv' /\ Effect
<1>1. k \in KernelState /\ Inv(k) /\ DeadOk(k) /\ SwitchOk(k)
  BY DEF SemInv, SchedInv, Inv
<1>2. CASE HasWaiter(k, Semaphore)
  <2> DEFINE g == WakeFirst(k, Semaphore, "OK")
             u == Waiter(k, Semaphore)
  <2>1. Given = g /\ count' = count
    BY <1>2 DEF Given, Counted
  <2>2. /\ Inv(g) /\ DeadOk(g) /\ WaitEnded(k, g, u) /\ g.cur = k.cur /\ g.tick = k.tick
        /\ g.ret = [k.ret EXCEPT ![u] = "OK"]
    <3>1. "OK" \in SwapValue /\ Semaphore \in WaitQ
      BY SemAssumption DEF SwapValue
    <3>2. g = WakeFirst(k, Semaphore, "OK")
      OBVIOUS
    <3> HIDE DEF g
    <3> QED
      BY <1>1, <1>2, <3>1, <3>2, WakeFirstStep
  <2>3. u \in Thread /\ Waits(k, u)
    BY <1>1, <1>2, WaiterType, SemAssumption DEF Inv
  <2>4. g \in KernelState
    BY <2>2 DEF Inv
  <2>5. k.cur # u
    BY <2>3, CurrentWaitsNot DEF SemInv
  <2>6. g.ret[u] = "OK" /\ \A t \in Thread \ {u} : g.ret[t] = k.ret[t]
    BY <1>1, <2>2, <2>3 DEF KernelState
  <2> HIDE DEF g, u
  <2>7. CASE k' = IntExit(Given)
    <3>1. WaitsKept(g, k') /\ k'.ret = g.ret
      BY <2>1, <2>4, <2>7, WaitsSwitches
    <3>2. SchedInv'
      BY <2>1, <2>2, <2>7, RescheduleStep DEF SchedInv
    <3>3. Granted(u)
      BY <1>2, <2>1, <2>2, <2>6, <3>1, WaitsTrans DEF Granted, ResultsKept, u
    <3> QED
      BY <2>3, <3>2, <3>3 DEF Effect
  <2>8. ASSUME NEW t \in Thread, Free(t), k' = Reschedule(Given)
        PROVE  SchedInv' /\ Effect
    <3>1. WaitsKept(g, k') /\ RetKept(g, k', t) /\ t # u
      BY <2>1, <2>2, <2>4, <2>5, <2>8, WaitsSwitches DEF Free, Running
    <3>2. SchedInv'
      BY <2>1, <2>2, <2>8, RescheduleStep DEF SchedInv
    <3>3. k'.ret[u] = "OK" /\ ResultsKept({u})
      BY <2>3, <2>6, <2>8, <3>1, SemAssumption DEF RetKept, ResultsKept, Free
    <3>4. Granted(u)
      BY <1>2, <2>1, <2>2, <3>1, <3>3, WaitsTrans DEF Granted, u
    <3> QED
      BY <2>3, <3>2, <3>4 DEF Effect
  <2> QED
    BY <2>7, <2>8
<1>3. CASE ~HasWaiter(k, Semaphore)
  <2>1. Given = k
    BY <1>3 DEF Given
  <2>2. k' = k
    BY <1>1, <2>1 DEF IntExit, Reschedule, SwitchOk
  <2>3. count' = count \/ (count < Limit /\ count' = count + 1)
    <3>1. count \in 0 .. Limit /\ Limit \in Nat
      BY SemAssumption DEF SemInv
    <3> QED
      BY <1>3, <3>1 DEF Counted
  <2>4. Quiet
    BY <1>3, <2>2, <2>3 DEF Quiet, WaitsKept, ResultsKept
  <2> QED
    BY <2>2, <2>4 DEF SemInv, SchedInv, Effect
<1> QED
  BY <1>2, <1>3

\* The scheduler's steps, while threads use the semaphore.
LEMMA SchedStepEffect ==
  ASSUME SemInv, Careful, Careful', SchedStep
  PROVE  SchedInv' /\ Effect
<1>1. SchedInv /\ count' = count /\ call' = call
  BY DEF SemInv, SchedStep
<1>2. ASSUME WaitsKept(k, k'), ResultsKept({})
      PROVE  Effect
  BY <1>1, <1>2 DEF Effect, Quiet
<1>3. CASE TickStart(k) \/ TickEnd \/ TickDequeue \/ \E u \in Thread : TickPick(u)
  <2>1. WaitsKept(k, k') /\ k'.ret = k.ret /\ SchedInv'
    BY <1>1, <1>3, TickWaits
  <2> QED
    BY <1>2, <2>1 DEF ResultsKept
<1>4. ASSUME NEW u \in Thread, TickExpire(u)
      PROVE  SchedInv' /\ Effect
  <2>1. WaitEnded(k, k', u) /\ k'.ret = k.ret /\ SchedInv'
    BY <1>1, <1>4, ExpireWaits
  <2>2. TimedOut(u)
    BY <1>1, <2>1 DEF TimedOut, ResultsKept
  <2> QED
    BY <2>1, <2>2 DEF Effect
<1>5. ASSUME NEW u \in Thread, IsrResume(k, u) \/ IsrWakeup(k, u)
      PROVE  SchedInv' /\ Effect
  <2>1. WaitsKept(k, k') /\ k'.ret = k.ret /\ SchedInv'
    BY <1>1, <1>5, IsrWaits
  <2> QED
    BY <1>2, <2>1 DEF ResultsKept
<1>6. ASSUME NEW t \in Thread, NEW u \in Thread, Free(t),
             \/ ThreadStart(t, u) \/ ThreadSuspend(t, u) \/ ThreadResume(t, u)
             \/ Wakeup(t, u) \/ Sleep(t)
      PROVE  SchedInv' /\ Effect
  <2>1. WaitsKept(k, k') /\ RetKept(k, k', t) /\ SchedInv'
    BY <1>1, <1>6, CallWaits
  <2>2. ResultsKept({})
    BY <1>6, <2>1, FreeResults
  <2> QED
    BY <1>2, <2>1, <2>2
<1> QED
  BY <1>3, <1>4, <1>5, <1>6 DEF SchedStep, Tick

LEMMA AbortEffect ==
  ASSUME SemInv, Careful, Careful', Abort
  PROVE  SchedInv' /\ Effect
<1>1. PICK u \in Thread :
        /\ IsrAbort(k, u) \/ \E t \in Thread : Free(t) /\ ThreadAbort(t, u)
        /\ call' = [call EXCEPT ![u] = NoCall] /\ count' = count
  BY DEF Abort
<1>2. SchedInv
  BY DEF SemInv
<1>3. CASE IsrAbort(k, u)
  <2>1. WaitEnded(k, k', u) /\ k'.ret = k.ret /\ SchedInv'
    BY <1>2, <1>3, AbortWaits
  <2> QED
    BY <1>1, <2>1 DEF Removed, ResultsKept, Effect
<1>4. ASSUME NEW t \in Thread, Free(t), ThreadAbort(t, u)
      PROVE  SchedInv' /\ Effect
  <2>1. Running(t) /\ k.cur = t
    BY <1>4 DEF Free, Running
  <2>2. WaitEnded(k, k', u) /\ RetKept(k, k', t) /\ SchedInv'
    BY <1>2, <1>4, <2>1, AbortWaits
  <2>3. ResultsKept({})
    BY <1>4, <2>2, FreeResults
  <2> QED
    BY <1>1, <2>2, <2>3 DEF Removed, Effect
<1> QED
  BY <1>1, <1>3, <1>4

\* The calls of semaphore users.
LEMMA SemCallEffect ==
  ASSUME SemInv, NEW t \in Thread, SemCall(t)
  PROVE  SchedInv' /\ Effect
<1>1. SchedInv
  BY DEF SemInv
<1>2. CASE SemGive(t)
  BY <1>2, GivenEffect DEF SemGive
<1>3. CASE SemTake(t)
  BY <1>1, <1>3 DEF SemTake, SchedInv, Effect, Quiet, WaitsKept, ResultsKept
<1>4. CASE SemReset(t)
  BY <1>1, <1>4 DEF SemReset, SchedInv, Effect, Quiet, WaitsKept, ResultsKept
<1>5. CASE SemReturn(t)
  <2>1. ~Waits(k, t)
    BY <1>1, <1>5, CurrentWaitsNot DEF SemReturn, Running
  <2> QED
    BY <1>1, <1>5, <2>1 DEF SemReturn, SchedInv, Effect, Returned
<1>6. ASSUME NEW forever \in BOOLEAN, SemWait(t, forever)
      PROVE  SchedInv' /\ Effect
  <2>1. /\ k.cur = t /\ call[t] = NoCall /\ count = 0 /\ ~k.tick
        /\ k' = PendCurrent(k, Semaphore, forever)
        /\ call' = [call EXCEPT ![t] = Semaphore] /\ count' = count
    BY <1>6 DEF SemWait, Free, Running
  <2>2. /\ Inv(k') /\ DeadOk(k') /\ k'.cur = k'.cache
        /\ WaitBegun(k, k', t, Semaphore) /\ RetKept(k, k', t) /\ k'.ret[t] = "EAGAIN"
    BY <1>1, <2>1, PendCurrentStep, SemAssumption DEF SchedInv
  <2>3. SchedInv'
    BY <2>2 DEF SchedInv, SwitchOk
  <2>4. ~Waits(k, t)
    BY <1>1, <2>1, CurrentWaitsNot
  <2>5. Waited(t)
    BY <2>1, <2>2, <2>4 DEF Waited, RetKept, ResultsKept
  <2> QED
    BY <2>3, <2>5 DEF Effect
<1> QED
  BY <1>2, <1>3, <1>4, <1>5, <1>6 DEF SemCall

LEMMA NextEffect ==
  ASSUME SemInv, Careful, Careful', SemNext
  PROVE  SchedInv' /\ Effect
<1>1. CASE IsrGive
  BY <1>1, GivenEffect DEF IsrGive
<1>2. CASE IsrTake
  BY <1>2 DEF IsrTake, SemInv, SchedInv, Effect, Quiet, WaitsKept, ResultsKept
<1> QED
  BY <1>1, <1>2, SchedStepEffect, AbortEffect, SemCallEffect DEF SemNext

-----------------------------------------------------------------------------
(***************************************************************************)
(* The invariant.                                                          *)
(***************************************************************************)

\* Every effect keeps the callers in step with the queue.
LEMMA CallersKept ==
  ASSUME SemInv, Effect
  PROVE  /\ Callers' /\ call' \in [Thread -> {Semaphore, NoCall}]
         /\ count' \in 0 .. Limit /\ NoUnitBesideWaiter'
<1>1. /\ k \in KernelState /\ WaitQOk(k) /\ Semaphore \in WaitQ /\ NoCall \notin WaitQ
      /\ call \in [Thread -> {Semaphore, NoCall}] /\ count \in 0 .. Limit /\ Limit \in Nat
      /\ Callers /\ NoUnitBesideWaiter
  BY SemAssumption DEF SemInv, SchedInv, Inv
<1> USE DEF Callers, NoUnitBesideWaiter, HasWaiter
<1>2. CASE Quiet
  <2>1. Callers'
    BY <1>1, <1>2, KernelAssumption DEF Quiet, WaitsKept, ResultsKept
  <2>2. call' = call /\ count' \in 0 .. Limit
    BY <1>1, <1>2 DEF Quiet
  <2>3. NoUnitBesideWaiter'
    BY <1>1, <1>2 DEF Quiet, WaitsKept
  <2> QED
    BY <1>1, <2>1, <2>2, <2>3
<1>3. ASSUME NEW u \in Thread, WaitEnded(k, k', u), ResultsKept({u}) \/ ResultsKept({}),
             count' = count, call' = call \/ call' = [call EXCEPT ![u] = NoCall]
      PROVE  Callers' /\ NoUnitBesideWaiter' /\ call' \in [Thread -> {Semaphore, NoCall}]
  <2>1. ToSet(k'.waitq[Semaphore]) = ToSet(k.waitq[Semaphore]) \ {u}
    BY <1>1, <1>3, EndedQueues
  <2>2. \A t \in Thread : Waits(k', t) => t # u /\ Waits(k, t) /\ call'[t] = call[t]
    BY <1>1, <1>3 DEF WaitEnded
  <2>3. Callers'
    BY <1>1, <1>3, <2>1, <2>2 DEF ResultsKept
  <2>4. HasWaiter(k', Semaphore) => HasWaiter(k, Semaphore)
    BY <1>1, <1>3 DEF WaitEnded, PriqRemove, ToSet
  <2> QED
    BY <1>1, <1>3, <2>3, <2>4
<1>4. ASSUME NEW u \in Thread, Waited(u)
      PROVE  Callers' /\ NoUnitBesideWaiter' /\ call' \in [Thread -> {Semaphore, NoCall}]
  <2>1. ToSet(k'.waitq[Semaphore]) = ToSet(k.waitq[Semaphore]) \cup {u}
    BY <1>1, <1>4, BegunQueues DEF Waited
  <2>2. call' \in [Thread -> {Semaphore, NoCall}] /\ call'[u] = Semaphore
    BY <1>1, <1>4 DEF Waited
  <2>3. Callers'
    BY <1>1, <1>4, <2>1 DEF Waited, WaitBegun, ResultsKept
  <2> QED
    BY <1>4, <2>2, <2>3 DEF Waited
<1>5. ASSUME NEW u \in Thread, Returned(u)
      PROVE  Callers' /\ NoUnitBesideWaiter' /\ call' \in [Thread -> {Semaphore, NoCall}]
  BY <1>1, <1>5 DEF Returned
<1>6. \A u \in Thread :
        TimedOut(u) \/ Removed(u) \/ Granted(u) \/ Waited(u) \/ Returned(u) => count' = count
  BY DEF TimedOut, Removed, Granted, Waited, Returned
<1> QED
  BY <1>1, <1>2, <1>3, <1>4, <1>5, <1>6 DEF Effect, TimedOut, Removed, Granted

\* Who is in the queue is in line, and the queue is sorted.
LEMMA QueueInLine ==
  ASSUME SemInv
  PROVE  /\ \A t \in ToSet(k.waitq[Semaphore]) : t \in Thread /\ InLine(t)
         /\ Sorted(k.waitq[Semaphore], k.prio)
         /\ \A u, v : Precedes(k.waitq[Semaphore], u, v) =>
              u \in ToSet(k.waitq[Semaphore]) /\ v \in ToSet(k.waitq[Semaphore])
<1> DEFINE q == k.waitq[Semaphore]
<1>1. q \in Seq(Thread) /\ WaitQOk(k) /\ Callers /\ InOrder /\ k.prio \in [Thread -> Int]
  BY SemAssumption, KernelAssumption DEF SemInv, SchedInv, Inv, KernelState
<1>2. \A t \in ToSet(q) : Waits(k, t)
  BY <1>1, SemAssumption DEF WaitQOk, Waits
<1> HIDE DEF q
<1>3. \A i \in 1 .. Len(q) : q[i] \in ToSet(q) /\ q[i] \in Thread
  BY <1>1, ToSetIndexed
<1>4. ToSet(q) \subseteq Thread
  BY <1>1, ToSetIndexed
<1>5. \A t \in ToSet(q) : t \in Thread /\ InLine(t)
  BY <1>1, <1>2, <1>4 DEF Callers, InLine, Waits
<1>6. \A u, v : Precedes(q, u, v) => u \in ToSet(q) /\ v \in ToSet(q)
  BY <1>3 DEF Precedes
<1>7. \A i, j \in 1 .. Len(q) : i < j => k.prio[q[i]] <= k.prio[q[j]]
  <2> SUFFICES ASSUME NEW i \in 1 .. Len(q), NEW j \in 1 .. Len(q), i < j
               PROVE  k.prio[q[i]] <= k.prio[q[j]]
    OBVIOUS
  <2>1. Precedes(q, q[i], q[j]) /\ q[i] \in Thread /\ q[j] \in Thread
    BY <1>3 DEF Precedes
  <2>2. k.prio[q[i]] < k.prio[q[j]] \/ k.prio[q[i]] = k.prio[q[j]]
    BY <1>1, <2>1 DEF InOrder, q
  <2> QED
    BY <1>1, <2>1, <2>2
<1> QED
  BY <1>5, <1>6, <1>7 DEF Sorted, q

\* Nobody gets ahead of a thread that is in line already.
LEMMA NobodyOvertakes ==
  ASSUME Queueing, NEW u \in Thread, NEW v, InLine(u), <<v, u>> \notin ahead
  PROVE  <<v, u>> \notin ahead'
<1> SUFFICES ASSUME <<v, u>> \in ahead'
             PROVE  FALSE
  OBVIOUS
<1> DEFINE p == <<v, u>>
<1>1. p[2] = u
  OBVIOUS
<1> HIDE DEF p
<1>2. p \in ahead \/ ~InLine(p[2])
  BY DEF Queueing, p
<1> QED
  BY <1>1, <1>2 DEF p

\* Who is not in line is ahead of nobody.
LEMMA NewcomerIsLast ==
  ASSUME Queueing, NEW u, NEW v, ~InLine(v)
  PROVE  <<v, u>> \notin ahead'
<1> SUFFICES ASSUME <<v, u>> \in ahead'
             PROVE  FALSE
  OBVIOUS
<1> DEFINE p == <<v, u>>
<1>1. p[1] = v
  OBVIOUS
<1> HIDE DEF p
<1>2. InLine(p[1])
  BY DEF Queueing, p
<1> QED
  BY <1>1, <1>2

\* Every effect keeps the queue in the order of service.
LEMMA OrderKept ==
  ASSUME SemInv, Effect, Queueing
  PROVE  InOrder'
<1> DEFINE q == k.waitq[Semaphore]
<1>1. k \in KernelState /\ WaitQOk(k) /\ Semaphore \in WaitQ /\ InOrder
  BY SemAssumption DEF SemInv, SchedInv, Inv
<1>2. /\ \A t \in ToSet(q) : t \in Thread /\ InLine(t)
      /\ Sorted(q, k.prio)
      /\ \A u, v : Precedes(q, u, v) => u \in ToSet(q) /\ v \in ToSet(q)
  BY QueueInLine
<1>3. \A u, v \in Thread : Precedes(q, u, v) =>
        k.prio[u] < k.prio[v] \/ (k.prio[u] = k.prio[v] /\ <<v, u>> \notin ahead')
  <2> SUFFICES ASSUME NEW u \in Thread, NEW v \in Thread, Precedes(q, u, v), <<v, u>> \notin ahead
               PROVE  <<v, u>> \notin ahead'
    BY <1>1 DEF InOrder
  <2>1. InLine(u)
    BY <1>2
  <2> QED
    BY <2>1, NobodyOvertakes
<1>4. ASSUME k'.prio = k.prio, \A u, v : Precedes(k'.waitq[Semaphore], u, v) => Precedes(q, u, v)
      PROVE  InOrder'
  BY <1>3, <1>4 DEF InOrder
<1>5. CASE Quiet
  BY <1>4, <1>5 DEF Quiet, WaitsKept
<1>6. ASSUME NEW u \in Thread, WaitEnded(k, k', u)
      PROVE  InOrder'
  <2>1. k'.prio = k.prio
    BY <1>6 DEF WaitEnded
  <2> QED
    BY <1>1, <1>4, <1>6, <2>1, EndedQueues
<1>7. ASSUME NEW u \in Thread, Waited(u)
      PROVE  InOrder'
  <2> SUFFICES ASSUME NEW a \in Thread, NEW b \in Thread, Precedes(k'.waitq[Semaphore], a, b)
               PROVE  k'.prio[a] < k'.prio[b] \/ (k'.prio[a] = k'.prio[b] /\ <<b, a>> \notin ahead')
    BY DEF InOrder
  <2>1. k'.prio = k.prio /\ ~Waits(k, u) /\ WaitBegun(k, k', u, Semaphore)
    BY <1>7 DEF Waited, WaitBegun
  <2>2. \/ Precedes(q, a, b)
        \/ b = u /\ a \in ToSet(q) /\ k.prio[a] <= k.prio[u]
        \/ a = u /\ b \in ToSet(q) /\ k.prio[u] < k.prio[b]
    BY <1>1, <1>2, <2>1, BegunQueues
  <2>3. ~InLine(u)
    BY <2>1 DEF InLine, Waits
  <2>4. CASE Precedes(q, a, b)
    BY <1>3, <2>1, <2>4
  <2>5. CASE b = u /\ a \in ToSet(q) /\ k.prio[a] <= k.prio[u]
    <3>1. <<b, a>> \notin ahead'
      BY <2>3, <2>5, NewcomerIsLast
    <3>2. k.prio[a] \in Int /\ k.prio[u] \in Int
      BY <1>1, KernelAssumption DEF KernelState
    <3>3. k.prio[a] < k.prio[b] \/ k.prio[a] = k.prio[b]
      BY <2>5, <3>2
    <3> QED
      BY <2>1, <3>1, <3>3
  <2>6. CASE a = u /\ b \in ToSet(q) /\ k.prio[u] < k.prio[b]
    BY <2>1, <2>6
  <2> QED
    BY <2>2, <2>4, <2>5, <2>6
<1>8. ASSUME NEW u \in Thread, Returned(u)
      PROVE  InOrder'
  BY <1>4, <1>8 DEF Returned
<1> QED
  BY <1>5, <1>6, <1>7, <1>8 DEF Effect, TimedOut, Removed, Granted

LEMMA SemInvInit ==
  ASSUME SemInit
  PROVE  SemInv
<1>1. SchedInv
  BY BootInv DEF SemInit, Init, SchedInv
<1>2. k.waitq[Semaphore] = <<>> /\ \A t \in Thread : ~Waits(k, t)
  BY SemAssumption DEF SemInit, Init, BootState, Waits
<1>3. \A u, v : ~Precedes(<<>>, u, v)
  BY DEF Precedes
<1> QED
  BY <1>1, <1>2, <1>3 DEF SemInit, SemInv, NoUnitBesideWaiter, HasWaiter, Callers, InOrder

LEMMA SemInvNext ==
  ASSUME SemInv, Careful, Careful', [SemNext]_semVars
  PROVE  SemInv'
<1>1. CASE SemNext
  <2>1. SchedInv' /\ Effect /\ Queueing
    BY <1>1, NextEffect DEF SemNext
  <2>2. ahead' \subseteq Thread \X Thread
    BY <2>1 DEF Queueing
  <2>3. \A t \in Thread : <<t, t>> \notin ahead'
    <3> SUFFICES ASSUME NEW t \in Thread PROVE <<t, t>> \notin ahead'
      OBVIOUS
    <3>1. <<t, t>> \notin ahead
      BY DEF SemInv
    <3> QED
      BY <2>1, <3>1, NobodyOvertakes, NewcomerIsLast
  <2> QED
    BY <2>1, <2>2, <2>3, CallersKept, OrderKept DEF SemInv
<1>2. CASE UNCHANGED semVars
  BY <1>2 DEF semVars, SemInv, SchedInv, NoUnitBesideWaiter, Callers, InOrder
<1> QED
  BY <1>1, <1>2

\* The invariant the results below rest on holds as long as the calls are
\* careful, as in SchedInvariant; so do they.
THEOREM SemInvariant == SemSpec /\ []Careful => []SemInv
<1>1. SemInit => SemInv
  BY SemInvInit
<1>2. SemInv /\ Careful /\ Careful' /\ [SemNext]_semVars => SemInv'
  BY SemInvNext
<1> QED
  BY <1>1, <1>2, PTL DEF SemSpec

-----------------------------------------------------------------------------
(***************************************************************************)
(* What the semaphore promises.                                            *)
(***************************************************************************)

\* The count stays between zero and the limit, and the kernel's state and the
\* callers keep their types.
THEOREM SemTypeCorrect == SemSpec /\ []Careful => []SemTypeOK
<1>1. SemInv => SemTypeOK
  BY DEF SemInv, SchedInv, Inv, SemTypeOK, TypeOK
<1> QED
  BY <1>1, SemInvariant, PTL

\* A pending thread is on its wait queue once, and a ready one on the run queue,
\* whatever the order of gives, timeouts, aborts and suspensions.
THEOREM SemQueuesExact == SemSpec /\ []Careful => []WaitQueuesExact
<1>1. SemInv => WaitQueuesExact
  BY DEF SemInv, SchedInv, Inv, WaitQueuesExact
<1> QED
  BY <1>1, SemInvariant, PTL

\* do_sem_give() never counts a unit while a thread sleeps for one.
THEOREM NoLostWakeup == SemSpec /\ []Careful => []NoUnitBesideWaiter
<1>1. SemInv => NoUnitBesideWaiter
  BY DEF SemInv
<1> QED
  BY <1>1, SemInvariant, PTL

\* Only a give changes the result of a waiting thread, and it gives to the first.
LEMMA EffectIsOrdered ==
  ASSUME SemInv, Effect
  PROVE  OrderedService
<1> SUFFICES ASSUME NEW t \in Thread, InLine(t), k.ret[t] = "EAGAIN", k'.ret[t] = "OK",
                    NEW u \in Thread, InLine(u)
             PROVE  k.prio[t] < k.prio[u] \/ (k.prio[t] = k.prio[u] /\ <<u, t>> \notin ahead)
  BY DEF OrderedService
<1>1. call[t] = Semaphore /\ Waits(k, t) /\ Waits(k, u)
  BY DEF InLine, Waits
<1>2. ~ResultsKept({})
  BY <1>1 DEF ResultsKept
<1>3. ASSUME NEW v \in Thread, Waited(v) \/ Returned(v)
      PROVE  FALSE
  BY <1>1, <1>3, SemAssumption DEF Waited, Returned, ResultsKept
<1>4. PICK v \in Thread : Granted(v)
  BY <1>2, <1>3 DEF Effect, Quiet, TimedOut, Removed
<1>5. t = v
  BY <1>1, <1>4 DEF Granted, ResultsKept
<1> DEFINE q == k.waitq[Semaphore]
<1>6. q \in Seq(Thread) /\ q # <<>> /\ t = Head(q) /\ u \in ToSet(q)
  BY <1>1, <1>4, <1>5, SemAssumption
     DEF Granted, HasWaiter, Waiter, SemInv, SchedInv, Inv, KernelState, Callers
<1>7. CASE u = t
  BY <1>7 DEF SemInv
<1>8. CASE u # t
  <2> HIDE DEF q
  <2>1. Precedes(q, t, u)
    BY <1>6, <1>8, FirstPrecedes
  <2> QED
    BY <2>1 DEF SemInv, InOrder, q
<1> QED
  BY <1>7, <1>8

\* The semaphore goes to the highest priority thread that has waited longest.
THEOREM ServesInOrder == SemSpec /\ []Careful => ServedInOrder
<1>1. SemInv /\ Careful /\ Careful' /\ [SemNext]_semVars => [OrderedService]_semVars
  BY NextEffect, EffectIsOrdered
<1> QED
  BY <1>1, SemInvariant, PTL DEF SemSpec, ServedInOrder

-----------------------------------------------------------------------------
(***************************************************************************)
(* The refinement.                                                         *)
(***************************************************************************)

\* The status of a thread whose wait, result and call are what they were.
LEMMA StatusFrame ==
  ASSUME NEW t \in Thread, call'[t] = call[t], Waits(k', t) <=> Waits(k, t),
         call[t] # NoCall => k'.ret[t] = k.ret[t]
  PROVE  Status'[t] = Status[t]
  BY DEF Status, Waits

\* One thread's status changes, and no other.
LEMMA StatusExcept ==
  ASSUME NEW u \in Thread, NEW s, Status'[u] = s,
         \A t \in Thread \ {u} : Status'[t] = Status[t]
  PROVE  Status' = [Status EXCEPT ![u] = s]
  BY DEF Status

LEMMA StatusSame ==
  ASSUME \A t \in Thread : Status'[t] = Status[t]
  PROVE  Status' = Status
  BY DEF Status

LEMMA EffectRefines ==
  ASSUME SemInv, Effect, SemInv'
  PROVE  Abstract!Next \/ UNCHANGED <<count, Status>>
<1>1. /\ k \in KernelState /\ k' \in KernelState
      /\ call \in [Thread -> {Semaphore, NoCall}] /\ Semaphore # NoCall /\ Callers
      /\ WaitQOk(k) /\ Semaphore \in WaitQ
  BY SemAssumption DEF SemInv, SchedInv, Inv
<1>2. CASE Quiet
  <2>1. Status' = Status
    BY <1>1, <1>2, StatusFrame, StatusSame DEF Quiet, WaitsKept, ResultsKept
  <2>2. ~HasWaiter(k, Semaphore) => Abstract!Waiting = {}
    BY <1>1, ToSetIndexed DEF HasWaiter, Callers, Abstract!Waiting, Status, Waits, ToSet
  <2> QED
    BY <1>2, <2>1, <2>2 DEF Quiet, Abstract!Next, Abstract!Give, Abstract!Take, Abstract!Reset
<1>3. ASSUME NEW u \in Thread, TimedOut(u) PROVE Abstract!Next \/ UNCHANGED <<count, Status>>
  <2>1. \A t \in Thread \ {u} : Status'[t] = Status[t]
    BY <1>1, <1>3, StatusFrame DEF TimedOut, WaitEnded, ResultsKept
  <2>2. CASE Waits(k, u)
    <3>1. Status[u] = "waiting" /\ Status'[u] = "failed"
      BY <1>1, <1>3, <2>2 DEF TimedOut, WaitEnded, ResultsKept, Callers, Status, Waits
    <3> QED
      BY <1>3, <2>1, <3>1, StatusExcept
         DEF TimedOut, Abstract!Next, Abstract!Step, Abstract!Become
  <2>3. CASE ~Waits(k, u)
    <3>1. Status'[u] = Status[u]
      BY <1>1, <1>3, <2>3, StatusFrame DEF TimedOut, WaitEnded, ResultsKept
    <3> QED
      BY <1>3, <2>1, <3>1, StatusSame DEF TimedOut
  <2> QED
    BY <2>2, <2>3
<1>4. ASSUME NEW u \in Thread, Removed(u) PROVE Abstract!Next \/ UNCHANGED <<count, Status>>
  <2>1. \A t \in Thread \ {u} : Status'[t] = Status[t]
    BY <1>1, <1>4, StatusFrame DEF Removed, WaitEnded, ResultsKept
  <2>2. Status'[u] = "out" /\ Status[u] \in {"out", "waiting", "granted", "failed"}
    BY <1>1, <1>4 DEF Removed, Status
  <2>3. Status' = [Status EXCEPT ![u] = "out"]
    BY <2>1, <2>2, StatusExcept
  <2>4. CASE Status[u] = "out"
    BY <1>4, <2>1, <2>2, <2>4, StatusSame DEF Removed
  <2>5. CASE Status[u] # "out"
    BY <1>4, <2>2, <2>3, <2>5 DEF Removed, Abstract!Next, Abstract!Step, Abstract!Become
  <2> QED
    BY <2>4, <2>5
<1>5. ASSUME NEW u \in Thread, Granted(u) PROVE Abstract!Next
  <2>1. \A t \in Thread \ {u} : Status'[t] = Status[t]
    BY <1>1, <1>5, StatusFrame DEF Granted, WaitEnded, ResultsKept
  <2>2. Waits(k, u)
    BY <1>1, <1>5, WaiterType DEF Granted, SemInv, SchedInv
  <2>3. Status[u] = "waiting" /\ Status'[u] = "granted"
    BY <1>1, <1>5, <2>2 DEF Granted, WaitEnded, Callers, Status, Waits
  <2>4. Status' = [Status EXCEPT ![u] = "granted"]
    BY <2>1, <2>3, StatusExcept
  <2> QED
    BY <1>5, <2>3, <2>4
       DEF Granted, Abstract!Next, Abstract!Give, Abstract!Waiting, Abstract!Become
<1>6. ASSUME NEW u \in Thread, Waited(u) PROVE Abstract!Next
  <2>1. \A t \in Thread \ {u} : Status'[t] = Status[t]
    BY <1>1, <1>6, StatusFrame DEF Waited, WaitBegun, ResultsKept
  <2>2. Status[u] = "out" /\ Status'[u] = "waiting"
    BY <1>1, <1>6 DEF Waited, WaitBegun, Status, Waits
  <2>3. Status' = [Status EXCEPT ![u] = "waiting"]
    BY <2>1, <2>2, StatusExcept
  <2> QED
    BY <1>6, <2>2, <2>3 DEF Waited, Abstract!Next, Abstract!Step, Abstract!Become
<1>7. ASSUME NEW u \in Thread, Returned(u) PROVE Abstract!Next
  <2>1. \A t \in Thread \ {u} : Status'[t] = Status[t]
    BY <1>1, <1>7, StatusFrame DEF Returned
  <2>2. Status[u] \in {"granted", "failed"} /\ Status'[u] = "out"
    BY <1>1, <1>7 DEF Returned, Status, Waits
  <2>3. Status' = [Status EXCEPT ![u] = "out"]
    BY <2>1, <2>2, StatusExcept
  <2> QED
    BY <1>7, <2>2, <2>3 DEF Returned, Abstract!Next, Abstract!Step, Abstract!Become
<1> QED
  BY <1>2, <1>3, <1>4, <1>5, <1>6, <1>7 DEF Effect

\* sem.c implements the abstract counting semaphore.
THEOREM SemImplements == SemSpec /\ []Careful => ImplementsSemaphore
<1>1. SemInit => Abstract!Init
  BY DEF SemInit, Abstract!Init, Status
<1>2. SemInv /\ SemInv' /\ Careful /\ Careful' /\ [SemNext]_semVars => [Abstract!Next]_<<count, Status>>
  <2>1. ASSUME SemInv, SemInv', Careful, Careful', SemNext PROVE [Abstract!Next]_<<count, Status>>
    BY <2>1, NextEffect, EffectRefines
  <2>2. ASSUME UNCHANGED semVars PROVE UNCHANGED <<count, Status>>
    BY <2>2 DEF semVars, Status
  <2> QED
    BY <2>1, <2>2
<1> QED
  BY <1>1, <1>2, SemInvariant, PTL DEF SemSpec, ImplementsSemaphore, Abstract!Spec
=============================================================================
