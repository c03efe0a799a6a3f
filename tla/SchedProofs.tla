---------------------------- MODULE SchedProofs ----------------------------
(***************************************************************************)
(* The safety properties of Sched, proved for any number of threads, any   *)
(* set of priorities, any wait queues and any time slice.                  *)
(***************************************************************************)
EXTENDS Sched, KernelProofs

\* The inductive invariant: what the C code relies on at every point where
\* interrupts are enabled.
SchedInv == Inv(k) /\ SwitchOk(k) /\ DeadOk(k)

-----------------------------------------------------------------------------
(***************************************************************************)
(* Operators that only move threads between run queue and processor leave  *)
(* what holds each thread back as it was.                                  *)
(***************************************************************************)

SameFate(x, y) ==
  /\ y.tmo = x.tmo
  /\ \A t \in Thread : y.st[t] \ {"QUEUED"} = x.st[t] \ {"QUEUED"}

\* The run queue, the cache and the processor do not matter to DeadOk.
LEMMA SameFateDead ==
  ASSUME NEW x, NEW y, SameFate(x, y), DeadOk(x)
  PROVE  DeadOk(y)
  BY DEF SameFate, DeadOk

\* Composition of such operators.
LEMMA SameFateTrans ==
  ASSUME NEW x, NEW y, NEW z, SameFate(x, y), SameFate(y, z)
  PROVE  SameFate(x, z)
  BY DEF SameFate

\* The operators that have this property.
LEMMA Movers ==
  ASSUME NEW x \in KernelState, NEW t \in Thread, NEW ok \in BOOLEAN
  PROVE  /\ SameFate(x, UpdateCache(x, ok))
         /\ SameFate(x, ReadyThread(x, t))
         /\ SameFate(x, RemoveFromReadyQ(x, t))
         /\ SameFate(x, Swap(x))
         /\ SameFate(x, IntExit(x))
         /\ SameFate(x, Reschedule(x))
<1>1. SameFate(x, UpdateCache(x, ok))
  BY DEF SameFate, UpdateCache, KernelState
<1>2. SameFate(x, ReadyThread(x, t))
  BY DEF SameFate, ReadyThread, AddToReadyQ, UpdateCache, KernelState
<1>3. SameFate(x, RemoveFromReadyQ(x, t))
  BY DEF SameFate, RemoveFromReadyQ, UpdateCache, KernelState
<1>4. SameFate(x, Swap(x))
  BY DEF SameFate, Swap, KernelState
<1>5. SameFate(x, IntExit(x))
  BY DEF SameFate, IntExit, KernelState
<1>6. SameFate(x, Reschedule(x))
  BY <1>4 DEF SameFate, Reschedule
<1> QED
  BY <1>1, <1>2, <1>3, <1>4, <1>5, <1>6

\* The end of a call: a state with the invariant, rescheduled.
LEMMA RescheduleStep ==
  ASSUME NEW x, Inv(x), DeadOk(x)
  PROVE  /\ Inv(Reschedule(x)) /\ SwitchOk(Reschedule(x)) /\ DeadOk(Reschedule(x))
         /\ Inv(IntExit(x)) /\ SwitchOk(IntExit(x)) /\ DeadOk(IntExit(x))
<1>1. x \in KernelState
  BY DEF Inv
<1>2. SameFate(x, Reschedule(x)) /\ SameFate(x, IntExit(x))
  <2>1. SameFate(x, Swap(x)) /\ SameFate(x, IntExit(x))
    BY <1>1 DEF SameFate, Swap, IntExit, KernelState
  <2> QED
    BY <2>1 DEF SameFate, Reschedule
<1> QED
  BY <1>2, RescheduleInv, IntExitInv, SameFateDead

\* _ready_thread() of another thread than the current one, then the end of
\* the call.
LEMMA ReadyStep ==
  ASSUME NEW x, NEW t \in Thread, Near(x, t), DeadOk(x)
  PROVE  /\ Inv(ReadyThread(x, t)) /\ DeadOk(ReadyThread(x, t))
         /\ ReadyThread(x, t).tick = x.tick
         /\ Inv(Reschedule(ReadyThread(x, t))) /\ SwitchOk(Reschedule(ReadyThread(x, t)))
         /\ DeadOk(Reschedule(ReadyThread(x, t)))
         /\ Inv(IntExit(ReadyThread(x, t))) /\ SwitchOk(IntExit(ReadyThread(x, t)))
         /\ DeadOk(IntExit(ReadyThread(x, t)))
<1>1. x \in KernelState
  BY DEF Near, Away
<1>2. SameFate(x, ReadyThread(x, t))
  BY <1>1, Movers
<1>3. Inv(ReadyThread(x, t)) /\ DeadOk(ReadyThread(x, t)) /\ ReadyThread(x, t).tick = x.tick
  BY <1>2, SameFateDead, ReadyThreadInv
<1> QED
  BY <1>3, RescheduleStep

-----------------------------------------------------------------------------
(***************************************************************************)
(* Init.                                                                   *)
(***************************************************************************)

\* The state main() starts in.
LEMMA BootInv ==
  ASSUME NEW prio \in [Thread -> Prio], NEW delayed \in SUBSET (Thread \ {Main})
  PROVE  /\ Inv(BootState(prio, delayed))
         /\ SwitchOk(BootState(prio, delayed))
         /\ DeadOk(BootState(prio, delayed))
<1> DEFINE x == BootState(prio, delayed)
<1>1. Main \in Thread /\ Idle \notin Thread
  BY SchedAssumption, KernelAssumption
<1>2. <<Main>> \in Seq(Thread) /\ <<>> \in Seq(Thread)
  BY <1>1
<1>3. /\ x.cur = Main /\ x.cache = Main /\ x.runq = <<Main>> /\ x.prio = prio
      /\ x.st = [t \in Thread |-> IF t = Main THEN {"QUEUED"} ELSE {"PRESTART"}]
      /\ x.tmo = [t \in Thread |-> IF t \in delayed THEN "ACTIVE" ELSE "INACTIVE"]
      /\ x.waitq = [w \in WaitQ |-> <<>>]
  BY DEF BootState
<1>4. x \in KernelState
  BY <1>1, <1>2 DEF BootState, KernelState, Flag, Timeout, SwapValue
<1> HIDE DEF x
<1>5. ToSet(x.runq) = {Main} /\ \A w \in WaitQ : ToSet(x.waitq[w]) = {}
  BY <1>3 DEF ToSet
<1>6. \A t \in Thread : IsReady(x, t) <=> t = Main
  BY <1>1, <1>3 DEF IsReady, Stopped
<1>7. RunQOk(x)
  <2>1. NoDuplicates(x.runq) /\ Sorted(x.runq, x.prio)
    BY <1>3 DEF NoDuplicates, Sorted
  <2> QED
    BY <1>3, <1>5, <1>6, <2>1 DEF RunQOk
<1>8. WaitQOk(x)
  BY <1>3, <1>5 DEF WaitQOk, NoDuplicates
<1>9. CacheOk(x) /\ SwitchOk(x)
  BY <1>3 DEF CacheOk, SwitchOk, NextUp, PriqBest
<1>10. DeadOk(x)
  BY <1>3 DEF DeadOk
<1> QED
  BY <1>1, <1>3, <1>4, <1>6, <1>7, <1>8, <1>9, <1>10 DEF Inv, x

-----------------------------------------------------------------------------
(***************************************************************************)
(* One lemma per group of calls: the critical section of each keeps the    *)
(* invariant.                                                              *)
(***************************************************************************)

\* New flags and a new timeout for a thread that is off the run queue.
LEMMA Touch ==
  ASSUME NEW x, NEW u \in Thread, Near(x, u), DeadOk(x),
         NEW S \in SUBSET Flag, "QUEUED" \notin S,
         ("PENDING" \in S) <=> ("PENDING" \in x.st[u]),
         NEW v \in Timeout,
         "DEAD" \in S => "PENDING" \notin S /\ v = "INACTIVE"
  PROVE  /\ Near([x EXCEPT !.st[u] = S, !.tmo[u] = v], u)
         /\ DeadOk([x EXCEPT !.st[u] = S, !.tmo[u] = v])
<1> DEFINE y == [x EXCEPT !.st[u] = S, !.tmo[u] = v]
<1>1. x \in KernelState
  BY DEF Near, Away
<1>2. Near(y, u)
  BY TouchNear
<1>3. \A t \in Thread : /\ y.st[t] = IF t = u THEN S ELSE x.st[t]
                        /\ y.tmo[t] = IF t = u THEN v ELSE x.tmo[t]
  BY <1>1 DEF KernelState
<1> HIDE DEF y
<1>4. DeadOk(y)
  BY <1>3 DEF DeadOk
<1> QED
  BY <1>2, <1>4 DEF y

\* A new timeout only.
LEMMA Retime ==
  ASSUME NEW x, NEW u \in Thread, Near(x, u), DeadOk(x), NEW v \in Timeout,
         "DEAD" \in x.st[u] => v = "INACTIVE"
  PROVE  /\ Near([x EXCEPT !.tmo[u] = v], u) /\ DeadOk([x EXCEPT !.tmo[u] = v])
         /\ [x EXCEPT !.tmo[u] = v].tmo[u] = v /\ [x EXCEPT !.tmo[u] = v].st = x.st
<1> DEFINE S == x.st[u]
           y == [x EXCEPT !.tmo[u] = v]
<1>1. x \in KernelState /\ "QUEUED" \notin S
  BY DEF Near, Away
<1>2. S \in SUBSET Flag /\ ("DEAD" \in S => "PENDING" \notin S)
  BY <1>1 DEF KernelState, DeadOk
<1>3. y = [x EXCEPT !.st[u] = S, !.tmo[u] = v]
  <2>1. [x.st EXCEPT ![u] = S] = x.st
    BY <1>1 DEF KernelState
  <2> QED
    BY <1>1, <2>1 DEF KernelState
<1>4. y.tmo[u] = v /\ y.st = x.st
  BY <1>1 DEF KernelState
<1>5. /\ ("PENDING" \in S) <=> ("PENDING" \in x.st[u])
      /\ "DEAD" \in S => v = "INACTIVE"
  OBVIOUS
<1> HIDE DEF S, y
<1> QED
  <2> DEFINE z == [x EXCEPT !.st[u] = S, !.tmo[u] = v]
  <2>1. Near(z, u) /\ DeadOk(z)
    BY <1>1, <1>2, <1>5, Touch
  <2>2. y = z
    BY <1>3
  <2> HIDE DEF z
  <2> QED
    BY <1>4, <2>1, <2>2 DEF y

\* New flags only.
LEMMA Reflag ==
  ASSUME NEW x, NEW u \in Thread, Near(x, u), DeadOk(x),
         NEW S \in SUBSET Flag, "QUEUED" \notin S,
         ("PENDING" \in S) <=> ("PENDING" \in x.st[u]),
         "DEAD" \in S => "PENDING" \notin S /\ x.tmo[u] = "INACTIVE"
  PROVE  /\ Near([x EXCEPT !.st[u] = S], u) /\ DeadOk([x EXCEPT !.st[u] = S])
         /\ [x EXCEPT !.st[u] = S].st[u] = S /\ [x EXCEPT !.st[u] = S].tmo = x.tmo
<1> DEFINE v == x.tmo[u]
           y == [x EXCEPT !.st[u] = S]
<1>1. x \in KernelState
  BY DEF Near, Away
<1>2. v \in Timeout
  BY <1>1 DEF KernelState
<1>3. y = [x EXCEPT !.st[u] = S, !.tmo[u] = v]
  <2>1. [x.tmo EXCEPT ![u] = v] = x.tmo
    BY <1>1 DEF KernelState
  <2> QED
    BY <1>1, <2>1 DEF KernelState
<1>4. y.st[u] = S /\ y.tmo = x.tmo
  BY <1>1 DEF KernelState
<1>5. "DEAD" \in S => "PENDING" \notin S /\ v = "INACTIVE"
  OBVIOUS
<1> HIDE DEF v, y
<1> QED
  <2> DEFINE z == [x EXCEPT !.st[u] = S, !.tmo[u] = v]
  <2>1. Near(z, u) /\ DeadOk(z)
    BY <1>2, <1>5, Touch
  <2>2. y = z
    BY <1>3
  <2> HIDE DEF z
  <2> QED
    BY <1>4, <2>1, <2>2 DEF y

\* k_thread_start() of a thread that is not ready.
LEMMA StartedInv ==
  ASSUME NEW x, NEW u \in Thread, Near(x, u), DeadOk(x)
  PROVE  /\ Inv(Reschedule(Started(x, u)))
         /\ SwitchOk(Reschedule(Started(x, u)))
         /\ DeadOk(Reschedule(Started(x, u)))
<1> DEFINE S == x.st[u] \ {"PRESTART"}
           y == [x EXCEPT !.st[u] = S]
<1>1. x \in KernelState /\ "QUEUED" \notin x.st[u]
  BY DEF Near, Away
<1>2. /\ S \in SUBSET Flag /\ "QUEUED" \notin S
      /\ ("PENDING" \in S) <=> ("PENDING" \in x.st[u])
      /\ "DEAD" \in S => "PENDING" \notin S /\ x.tmo[u] = "INACTIVE"
  BY <1>1 DEF KernelState, DeadOk
<1>3. Started(x, u) = ReadyThread(y, u)
  BY <1>1 DEF Started, KernelState
<1> HIDE DEF S
<1>4. Near(y, u) /\ DeadOk(y)
  BY <1>2, Reflag
<1> HIDE DEF y
<1> QED
  BY <1>3, <1>4, ReadyStep

\* k_thread_start().
LEMMA ThreadStartInv ==
  ASSUME SchedInv, NEW t \in Thread, NEW u \in Thread, ThreadStart(t, u)
  PROVE  SchedInv'
<1>1. ~IsReady(k, u)
  BY KernelAssumption DEF ThreadStart, Has, IsReady, Stopped
<1>2. Near(k, u) /\ DeadOk(k)
  BY <1>1, StoppedIsNear DEF SchedInv
<1> QED
  BY <1>2, StartedInv DEF ThreadStart, SchedInv

\* Another priority and lock count for a thread that is off the run queue.
LEMMA Reparam ==
  ASSUME NEW x, NEW u \in Thread, Near(x, u), NEW p \in Prio, NEW n \in Nat
  PROVE  Near([x EXCEPT !.prio[u] = p, !.locked[u] = n], u)
<1> DEFINE y == [x EXCEPT !.prio[u] = p, !.locked[u] = n]
<1>1. x \in KernelState
  BY DEF Near, Away
<1>2. /\ y \in KernelState
      /\ y.cur = x.cur /\ y.cache = x.cache /\ y.runq = x.runq
      /\ y.st = x.st /\ y.tmo = x.tmo /\ y.waitq = x.waitq
      /\ \A v \in Thread \ {u} : y.prio[v] = x.prio[v] /\ y.locked[v] = x.locked[v]
  BY <1>1 DEF KernelState
<1> HIDE DEF y
<1>3. \A v : IsReady(y, v) <=> IsReady(x, v)
  BY <1>2 DEF IsReady
<1>4. \A i \in 1 .. Len(x.runq) : x.runq[i] \in Thread \ {u}
  <2>1. x.runq \in Seq(Thread) /\ u \notin ToSet(x.runq)
    BY DEF Near, Away, KernelState
  <2> QED
    BY <2>1, ToSetIndexed
<1>5. Sorted(x.runq, x.prio)
  BY DEF Near, Away
<1>6. Sorted(y.runq, y.prio)
  BY <1>2, <1>4, <1>5 DEF Sorted
<1>7. WaitQOk(y)
  BY <1>2 DEF Near, Away, WaitQOk
<1>8. Away(y, u)
  BY <1>2, <1>3, <1>6, <1>7 DEF Near, Away
<1>9. x.cur # u /\ x.cur \in Thread \cup {Idle}
  BY <1>1 DEF Near, KernelState
<1>10. IsPreempt(y, y.cur) <=> IsPreempt(x, x.cur)
  BY <1>2, <1>9 DEF IsPreempt
<1>11. CacheOk(y) /\ IsReady(y, y.cur)
  BY <1>2, <1>3, <1>10 DEF Near, CacheOk, NextUp
<1>12. Near(y, u)
  BY <1>2, <1>8, <1>9, <1>11 DEF Near
<1> QED
  BY <1>12 DEF y

\* k_thread_create() with each kind of delay.
LEMMA ThreadCreateInv ==
  ASSUME SchedInv, NEW t \in Thread, NEW u \in Thread, NEW p \in Prio,
         NEW delay \in {"forever", "zero", "ticks"}, ThreadCreate(t, u, p, delay)
  PROVE  SchedInv'
<1> DEFINE y == [k EXCEPT !.st[u] = {"PRESTART"}, !.tmo[u] = "INACTIVE"]
           new == [k EXCEPT !.st[u] = {"PRESTART"}, !.prio[u] = p,
                            !.locked[u] = 0, !.tmo[u] = "INACTIVE"]
<1>1. /\ k \in KernelState /\ Inv(k) /\ DeadOk(k) /\ SwitchOk(k)
      /\ "DEAD" \in k.st[u] /\ ~k.tick /\ k.cur = t
  BY DEF SchedInv, Inv, ThreadCreate, Has, Running
<1>2. Near(k, u)
  <2>1. ~IsReady(k, u)
    BY <1>1, KernelAssumption DEF IsReady, Stopped
  <2> QED
    BY <1>1, <2>1, StoppedIsNear
<1>3. Near(y, u) /\ DeadOk(y)
  <2>1. "PENDING" \notin k.st[u]
    BY <1>1 DEF DeadOk
  <2>2. {"PRESTART"} \in SUBSET Flag /\ "INACTIVE" \in Timeout
    BY DEF Flag, Timeout
  <2> QED
    BY <1>1, <1>2, <2>1, <2>2, Touch
<1>4. y \in KernelState
  BY <1>3 DEF Near, Away
<1>5. new = [y EXCEPT !.prio[u] = p, !.locked[u] = 0]
  BY <1>1 DEF KernelState
<1>6. y.st[u] = {"PRESTART"} /\ y.cur = k.cur /\ y.cache = k.cache /\ y.tick = k.tick
  BY <1>1 DEF KernelState
<1> HIDE DEF y, new
<1>7. /\ new \in KernelState
      /\ new.cur = y.cur /\ new.cache = y.cache /\ new.tick = y.tick
      /\ new.st = y.st /\ new.tmo = y.tmo
  BY <1>4, <1>5 DEF KernelState
<1>9. Near(new, u)
  <2>1. 0 \in Nat
    OBVIOUS
  <2> QED
    BY <1>3, <1>5, <2>1, Reparam
<1>10. DeadOk(new)
  BY <1>3, <1>7 DEF DeadOk
<1>11. SwitchOk(new)
  BY <1>1, <1>6, <1>7 DEF SwitchOk
<1>12. CASE delay = "forever"
  <2>1. k' = new
    BY <1>12 DEF ThreadCreate, new
  <2>2. ~IsReady(new, u)
    BY <1>6, <1>7, KernelAssumption DEF IsReady, Stopped
  <2> QED
    BY <1>9, <1>10, <1>11, <2>1, <2>2, NearStopped DEF SchedInv
<1>13. CASE delay = "zero"
  <2>1. k' = Reschedule(Started(new, u))
    BY <1>13 DEF ThreadCreate, new
  <2> QED
    BY <1>9, <1>10, <2>1, StartedInv DEF SchedInv
<1>14. CASE delay = "ticks"
  <2>1. k' = [new EXCEPT !.tmo[u] = "ACTIVE"]
    BY <1>14 DEF ThreadCreate, AddThreadTimeout, new
  <2>2. "ACTIVE" \in Timeout /\ "DEAD" \notin new.st[u]
    BY <1>6, <1>7 DEF Timeout
  <2>3. Near(k', u) /\ DeadOk(k')
    BY <1>9, <1>10, <2>1, <2>2, Retime
  <2>4. ~IsReady(k', u) /\ SwitchOk(k')
    BY <1>7, <1>11, <2>1, KernelAssumption DEF IsReady, Stopped, KernelState, SwitchOk
  <2> QED
    BY <2>3, <2>4, NearStopped DEF SchedInv
<1> QED
  BY <1>12, <1>13, <1>14

\* k_thread_cancel().
LEMMA ThreadCancelInv ==
  ASSUME SchedInv, NEW t \in Thread, NEW u \in Thread, ThreadCancel(t, u)
  PROVE  SchedInv'
<1>1. /\ k \in KernelState /\ Inv(k) /\ DeadOk(k) /\ SwitchOk(k)
      /\ "PRESTART" \in k.st[u] /\ k' = [k EXCEPT !.tmo[u] = "INACTIVE"]
  BY DEF SchedInv, Inv, ThreadCancel, Has, AbortThreadTimeout
<1>2. ~IsReady(k, u)
  BY <1>1, KernelAssumption DEF IsReady, Stopped
<1>3. Near(k, u)
  BY <1>1, <1>2, StoppedIsNear
<1>4. "INACTIVE" \in Timeout
  BY DEF Timeout
<1>5. Near(k', u) /\ DeadOk(k') /\ k'.st = k.st
  BY <1>1, <1>3, <1>4, Retime
<1>6. ~IsReady(k', u)
  BY <1>1, <1>5, KernelAssumption DEF IsReady, Stopped
<1>7. SwitchOk(k')
  BY <1>1 DEF SwitchOk, KernelState
<1> QED
  BY <1>5, <1>6, <1>7, NearStopped DEF SchedInv

\* A running thread leaves the run queue with a flag or a timeout that keeps
\* it off, and swaps: k_sleep(), k_thread_suspend() and k_thread_abort() on
\* itself.
LEMMA StopCurrent ==
  ASSUME NEW x, NEW t \in Thread, Inv(x), DeadOk(x), t = x.cur,
         NEW F \in SUBSET {"SUSPENDED", "DEAD"}, NEW v \in Timeout,
         F # {} \/ v # "INACTIVE", "DEAD" \in F => v = "INACTIVE",
         NEW z, z = RemoveFromReadyQ(x, t),
         NEW y, y = [z EXCEPT !.st[t] = z.st[t] \cup F, !.tmo[t] = v]
  PROVE  /\ Inv(Swap(y)) /\ SwitchOk(Swap(y)) /\ DeadOk(Swap(y))
         /\ Swap(y).tick = x.tick
<1> DEFINE S == z.st[t] \cup F
<1>1. IsReady(x, t) /\ x \in KernelState
  BY DEF Inv
<1>2. Off(z, t) /\ z.tick = x.tick /\ z.tmo = x.tmo /\ z.st[t] = x.st[t] \ {"QUEUED"}
  BY <1>1, RemoveReady
<1>3. z \in KernelState
  BY <1>2 DEF Off, Away
<1>4. /\ S \in SUBSET Flag /\ "QUEUED" \notin S
      /\ "PENDING" \notin S /\ "PENDING" \notin z.st[t]
  <2>1. z.st[t] \subseteq Flag /\ "QUEUED" \notin z.st[t]
    BY <1>2, <1>3 DEF KernelState
  <2>2. "PENDING" \notin z.st[t]
    BY <1>1, <1>2, KernelAssumption DEF IsReady, Stopped
  <2> QED
    BY <2>1, <2>2 DEF Flag
<1>5. /\ y.tick = z.tick /\ y \in KernelState
      /\ \A u \in Thread : /\ y.st[u] = IF u = t THEN S ELSE z.st[u]
                           /\ y.tmo[u] = IF u = t THEN v ELSE z.tmo[u]
  <2>1. z.st \in [Thread -> SUBSET Flag] /\ z.tmo \in [Thread -> Timeout]
    BY <1>3 DEF KernelState
  <2> QED
    BY <1>3, <1>4, <2>1, ZenonT(60) DEF KernelState
<1>6. Off(y, t)
  <2>1. y = [z EXCEPT !.st[t] = S, !.tmo[t] = v]
    OBVIOUS
  <2>2. S \in SUBSET Flag /\ "QUEUED" \notin S /\ (("PENDING" \in S) <=> ("PENDING" \in z.st[t]))
    BY <1>4
  <2> HIDE DEF S
  <2>3. Off([z EXCEPT !.st[t] = S, !.tmo[t] = v], t)
    BY <1>2, <2>2, TouchOff, ZenonT(60)
  <2> QED
    BY <2>1, <2>3
<1>7. ~IsReady(y, t)
  <2>1. F \subseteq y.st[t] /\ y.tmo[t] = v
    BY <1>5
  <2> QED
    BY <2>1, KernelAssumption DEF IsReady, Stopped
<1>8. Inv(Swap(y)) /\ SwitchOk(Swap(y)) /\ Swap(y).tick = x.tick
  <2>1. Inv(Swap(y)) /\ Swap(y).cur = Swap(y).cache /\ Swap(y).tick = y.tick
    BY <1>6, <1>7, SwapOff, ZenonT(60)
  <2>2. SwitchOk(Swap(y))
    BY <2>1 DEF SwitchOk
  <2> QED
    BY <1>2, <1>5, <2>1, <2>2
<1>9. DeadOk(y)
  <2>1. DeadOk(z)
    BY <1>1, Movers, SameFateDead
  <2>2. "DEAD" \notin z.st[t]
    BY <1>1, <1>2, KernelAssumption DEF IsReady, Stopped
  <2>3. ASSUME NEW u \in Thread, "DEAD" \in y.st[u]
        PROVE  "PENDING" \notin y.st[u] /\ y.tmo[u] = "INACTIVE"
    <3>1. CASE u = t
      BY <1>4, <1>5, <2>2, <2>3, <3>1
    <3>2. CASE u # t
      BY <1>5, <2>1, <2>3, <3>2 DEF DeadOk
    <3> QED
      BY <3>1, <3>2
  <2> QED
    BY <2>3 DEF DeadOk
<1>10. SameFate(y, Swap(y))
  BY <1>5 DEF SameFate, Swap, KernelState
<1> QED
  BY <1>8, <1>9, <1>10, SameFateDead

\* k_sleep().
LEMMA SleepInv ==
  ASSUME SchedInv, NEW t \in Thread, Sleep(t)
  PROVE  SchedInv'
<1> DEFINE z == RemoveFromReadyQ(k, t)
           y == [z EXCEPT !.st[t] = z.st[t] \cup {}, !.tmo[t] = "ACTIVE"]
<1>1. /\ k \in KernelState /\ Inv(k) /\ DeadOk(k) /\ t = k.cur
      /\ k' = Swap([z EXCEPT !.tmo[t] = "ACTIVE"])
  BY DEF SchedInv, Inv, Sleep, Running, AddThreadTimeout
<1>2. z \in KernelState
  <2>1. IsReady(k, t)
    BY <1>1 DEF Inv
  <2>2. Off(z, t)
    BY <1>1, <2>1, RemoveReady
  <2> QED
    BY <2>2 DEF Off, Away
<1>3. {} \in SUBSET {"SUSPENDED", "DEAD"} /\ "ACTIVE" \in Timeout
  BY DEF Timeout
<1>4. Inv(Swap(y)) /\ SwitchOk(Swap(y)) /\ DeadOk(Swap(y))
  BY <1>1, <1>3, StopCurrent
<1> HIDE DEF z
<1>5. [z EXCEPT !.tmo[t] = "ACTIVE"] = y
  <2>1. [z.st EXCEPT ![t] = z.st[t] \cup {}] = z.st
    BY <1>2 DEF KernelState
  <2> QED
    BY <1>2, <2>1 DEF KernelState
<1> HIDE DEF y
<1> QED
  BY <1>1, <1>4, <1>5 DEF SchedInv

\* Taking any thread but the first off a list leaves the first where it is.
LEMMA PriqRemoveHead ==
  ASSUME NEW q \in Seq(Thread), NEW t \in Thread, q # <<>>, t # Head(q)
  PROVE  PriqRemove(q, t) # <<>> /\ Head(PriqRemove(q, t)) = Head(q)
<1>1. CASE t \notin ToSet(q)
  BY <1>1 DEF PriqRemove
<1>2. CASE t \in ToSet(q)
  <2> DEFINE p == CHOOSE i \in 1 .. Len(q) : q[i] = t
             r == PriqRemove(q, t)
  <2>1. Len(q) \in Nat /\ p \in 1 .. Len(q) /\ q[p] = t
    BY <1>2, ToSetIndexed
  <2>2. r = RemoveAt(q, p)
    BY <1>2 DEF PriqRemove
  <2> HIDE DEF p, r
  <2>3. r \in Seq(Thread) /\ Len(r) = Len(q) - 1
          /\ \A i \in 1 .. Len(q) - 1 : r[i] = IF i < p THEN q[i] ELSE q[i + 1]
    BY <2>1, <2>2, RemoveAtIndexed
  <2>4. Head(q) = q[1]
    OBVIOUS
  <2>5. 1 < p /\ 1 \in 1 .. Len(q) - 1
    BY <2>1, <2>4
  <2>6. r[1] = q[1] /\ Len(r) >= 1
    BY <2>1, <2>3, <2>5
  <2>7. r # <<>> /\ Head(r) = r[1]
    BY <2>3, <2>6
  <2> QED
    BY <2>4, <2>6, <2>7 DEF r
<1> QED
  BY <1>1, <1>2

\* Suspending another ready thread needs no switch.
LEMMA RemoveKeepsSwitch ==
  ASSUME NEW x, NEW t \in Thread, Inv(x), SwitchOk(x), ~x.tick, t # x.cur, IsReady(x, t)
  PROVE  RemoveFromReadyQ(x, t).cache = x.cur
<1> DEFINE q == PriqRemove(x.runq, t)
           z == [x EXCEPT !.runq = q, !.st[t] = @ \ {"QUEUED"}]
           y == RemoveFromReadyQ(x, t)
<1>1. /\ x \in KernelState /\ CacheOk(x) /\ IsReady(x, x.cur) /\ x.cur = x.cache
      /\ RunQOk(x)
  BY DEF Inv, SwitchOk
<1>2. "QUEUED" \in x.st[t] /\ t \in ToSet(x.runq)
  BY <1>1 DEF RunQOk
<1>3. y.cache = IF ShouldPreempt(z, FALSE) THEN NextUp(z) ELSE z.cur
  BY <1>1, <1>2 DEF RemoveFromReadyQ, UpdateCache, KernelState
<1>4. z.cur = x.cur /\ z.runq = q /\ z.prio = x.prio /\ z.locked = x.locked /\ z.tmo = x.tmo
      /\ \A u \in Thread : z.st[u] = IF u = t THEN x.st[t] \ {"QUEUED"} ELSE x.st[u]
  BY <1>1 DEF KernelState
<1> HIDE DEF z, q, y
<1>5. x.cur \in Thread \cup {Idle} /\ x.runq \in Seq(Thread)
  BY <1>1 DEF KernelState
<1>6. IsReady(z, z.cur) /\ (IsPreempt(z, z.cur) <=> IsPreempt(x, x.cur))
  BY <1>1, <1>4, <1>5 DEF IsReady, IsPreempt
<1>7. CASE IsPreempt(x, x.cur)
  <2>1. x.cur = NextUp(x)
    BY <1>1, <1>7 DEF CacheOk
  <2>2. x.runq # <<>>
    BY <1>2 DEF ToSet
  <2>3. Head(x.runq) = x.cur
    BY <2>1, <2>2 DEF NextUp, PriqBest
  <2>4. q # <<>> /\ Head(q) = x.cur
    BY <1>5, <2>2, <2>3, PriqRemoveHead DEF q
  <2>5. NextUp(z) = x.cur
    BY <1>4, <2>4 DEF NextUp, PriqBest
  <2> QED
    BY <1>3, <1>4, <2>5 DEF y
<1>8. CASE ~IsPreempt(x, x.cur)
  BY <1>3, <1>4, <1>6, <1>8 DEF ShouldPreempt, y
<1> QED
  BY <1>7, <1>8

\* k_thread_suspend().
LEMMA ThreadSuspendInv ==
  ASSUME SchedInv, NEW t \in Thread, NEW u \in Thread, ThreadSuspend(t, u)
  PROVE  SchedInv'
<1> DEFINE z == RemoveFromReadyQ(k, u)
<1>1. /\ k \in KernelState /\ Inv(k) /\ DeadOk(k) /\ SwitchOk(k) /\ t = k.cur /\ ~k.tick
      /\ k' = IF t = u THEN Swap(Suspended(u)) ELSE Suspended(u)
  BY DEF SchedInv, Inv, ThreadSuspend, Running
<1>2. ASSUME IsReady(k, u)
      PROVE  /\ Suspended(u) = [z EXCEPT !.st[u] = z.st[u] \cup {"SUSPENDED"}]
             /\ z \in KernelState /\ z.tmo = k.tmo
  <2>1. (u # k.cur => Near(z, u)) /\ (u = k.cur => Off(z, u)) /\ z.tmo = k.tmo
    BY <1>1, <1>2, RemoveReady
  <2> QED
    BY <1>2, <2>1 DEF Suspended, Near, Off, Away
<1>3. CASE t = u
  <2> DEFINE y == [z EXCEPT !.st[u] = z.st[u] \cup {"SUSPENDED"}, !.tmo[u] = "INACTIVE"]
  <2>1. IsReady(k, u) /\ k.tmo[u] = "INACTIVE"
    BY <1>1, <1>3, KernelAssumption DEF Inv, IsReady
  <2>2. {"SUSPENDED"} \in SUBSET {"SUSPENDED", "DEAD"} /\ "INACTIVE" \in Timeout
    BY DEF Timeout
  <2>3. Inv(Swap(y)) /\ SwitchOk(Swap(y)) /\ DeadOk(Swap(y))
    BY <1>1, <1>3, <2>2, StopCurrent
  <2>4. Suspended(u) = y
    <3> HIDE DEF z
    <3>1. [z.tmo EXCEPT ![u] = "INACTIVE"] = z.tmo
      BY <1>1, <1>2, <2>1 DEF KernelState
    <3> QED
      BY <1>2, <2>1, <3>1, ZenonT(60) DEF KernelState
  <2> HIDE DEF y
  <2> QED
    BY <1>1, <1>3, <2>3, <2>4 DEF SchedInv
<1>4. CASE t # u /\ IsReady(k, u)
  <2>1. Near(z, u) /\ z.cur = k.cur /\ z.tick = k.tick /\ z.tmo = k.tmo
          /\ z.st[u] = k.st[u] \ {"QUEUED"}
    BY <1>1, <1>4, RemoveReady
  <2>2. z.cache = k.cur
    BY <1>1, <1>4, RemoveKeepsSwitch
  <2>3. DeadOk(z)
    BY <1>1, Movers, SameFateDead
  <2>4. k' = [z EXCEPT !.st[u] = z.st[u] \cup {"SUSPENDED"}] /\ z \in KernelState
    BY <1>1, <1>2, <1>4
  <2> HIDE DEF z
  <2> DEFINE S == z.st[u] \cup {"SUSPENDED"}
  <2>5. /\ S \in SUBSET Flag /\ "QUEUED" \notin S
        /\ ("PENDING" \in S) <=> ("PENDING" \in z.st[u])
        /\ "DEAD" \in S => "PENDING" \notin S /\ z.tmo[u] = "INACTIVE"
    BY <2>1, <2>3, <2>4 DEF KernelState, Flag, DeadOk
  <2>6. "SUSPENDED" \in S /\ k' = [z EXCEPT !.st[u] = S]
    BY <2>4
  <2> HIDE DEF S
  <2>7. Near(k', u) /\ DeadOk(k') /\ k'.st[u] = S
    <3>1. Near(z, u)
      BY <2>1
    <3> QED
      BY <2>3, <2>5, <2>6, <3>1, Reflag
  <2>8. ~IsReady(k', u)
    BY <2>6, <2>7, KernelAssumption DEF IsReady, Stopped
  <2>9. SwitchOk(k')
    BY <2>1, <2>2, <2>4 DEF SwitchOk, KernelState
  <2> QED
    BY <2>7, <2>8, <2>9, NearStopped DEF SchedInv
<1>5. CASE t # u /\ ~IsReady(k, u)
  <2> DEFINE S == k.st[u] \cup {"SUSPENDED"}
  <2>1. k' = [k EXCEPT !.st[u] = S] /\ "SUSPENDED" \in S
    BY <1>1, <1>5 DEF Suspended
  <2>2. Near(k, u)
    BY <1>1, <1>5, StoppedIsNear
  <2>3. /\ S \in SUBSET Flag /\ "QUEUED" \notin S
        /\ ("PENDING" \in S) <=> ("PENDING" \in k.st[u])
        /\ "DEAD" \in S => "PENDING" \notin S /\ k.tmo[u] = "INACTIVE"
    BY <1>1, <2>2 DEF KernelState, Flag, DeadOk, Near, Away
  <2> HIDE DEF S
  <2> DEFINE y == [k EXCEPT !.st[u] = S]
  <2>4. Near(k', u) /\ DeadOk(k') /\ k'.st[u] = S
    <3>1. DeadOk(k)
      BY <1>1
    <3>2. Near(y, u) /\ DeadOk(y) /\ y.st[u] = S
      BY <2>2, <2>3, <3>1, Reflag
    <3>3. k' = y
      BY <2>1
    <3> HIDE DEF y
    <3> QED
      BY <3>2, <3>3
  <2>5. ~IsReady(k', u)
    BY <2>1, <2>4, KernelAssumption DEF IsReady, Stopped
  <2>6. SwitchOk(k')
    BY <1>1, <2>1 DEF SwitchOk, KernelState
  <2> QED
    BY <2>4, <2>5, <2>6, NearStopped DEF SchedInv
<1> QED
  BY <1>3, <1>4, <1>5

\* k_thread_resume() of a suspended thread, by a thread or an interrupt.
LEMMA ResumedInv ==
  ASSUME NEW x, Inv(x), DeadOk(x), NEW u \in Thread, "SUSPENDED" \in x.st[u]
  PROVE  /\ Inv(Reschedule(Resumed(x, u))) /\ SwitchOk(Reschedule(Resumed(x, u)))
         /\ DeadOk(Reschedule(Resumed(x, u)))
         /\ Inv(IntExit(Resumed(x, u))) /\ SwitchOk(IntExit(Resumed(x, u)))
         /\ DeadOk(IntExit(Resumed(x, u)))
<1> DEFINE S == x.st[u] \ {"SUSPENDED"}
           y == [x EXCEPT !.st[u] = S]
<1>1. x \in KernelState /\ Inv(x) /\ DeadOk(x)
  BY DEF Inv
<1>2. Near(x, u)
  <2>1. ~IsReady(x, u)
    BY KernelAssumption DEF IsReady, Stopped
  <2> QED
    BY <1>1, <2>1, StoppedIsNear
<1>3. /\ S \in SUBSET Flag /\ "QUEUED" \notin S
      /\ ("PENDING" \in S) <=> ("PENDING" \in x.st[u])
      /\ "DEAD" \in S => "PENDING" \notin S /\ x.tmo[u] = "INACTIVE"
  BY <1>1, <1>2 DEF KernelState, DeadOk, Near, Away
<1>4. Resumed(x, u) = ReadyThread(y, u)
  BY <1>1 DEF Resumed, KernelState
<1> HIDE DEF S
<1>5. Near(y, u) /\ DeadOk(y)
  BY <1>1, <1>2, <1>3, Reflag
<1> HIDE DEF y
<1> QED
  BY <1>4, <1>5, ReadyStep

\* _unpend_thread_no_timeout() and DeadOk.
LEMMA UnpendDead ==
  ASSUME NEW x \in KernelState, NEW t \in Thread, DeadOk(x)
  PROVE  DeadOk(UnpendNoTimeout(x, t))
  BY DEF UnpendNoTimeout, DeadOk, KernelState

\* k_thread_abort() on another thread than the current one.
LEMMA AbortedInv ==
  ASSUME NEW x, Inv(x), DeadOk(x), NEW u \in Thread, u # x.cur
  PROVE  Inv(Aborted(x, u)) /\ DeadOk(Aborted(x, u))
<1> DEFINE z == RemoveFromReadyQ(x, u)
           n == UnpendNoTimeout(x, u)
           m == [n EXCEPT !.tmo[u] = "INACTIVE"]
           off == IF IsReady(x, u) THEN z ELSE m
<1>1. x \in KernelState /\ Inv(x) /\ DeadOk(x)
  BY DEF Inv
<1>2. Aborted(x, u) = [off EXCEPT !.st[u] = @ \cup {"DEAD"}]
  BY DEF Aborted, Unpend, AbortThreadTimeout
<1>3. /\ Near(off, u) /\ DeadOk(off) /\ off.tmo[u] = "INACTIVE"
      /\ "PENDING" \notin off.st[u]
  <2>1. CASE IsReady(x, u)
    <3>1. Near(z, u) /\ z.tmo = x.tmo /\ z.st[u] = x.st[u] \ {"QUEUED"}
      BY <1>1, <2>1, RemoveReady
    <3>2. DeadOk(z)
      BY <1>1, Movers, SameFateDead
    <3>3. x.tmo[u] = "INACTIVE" /\ "PENDING" \notin x.st[u]
      BY <2>1, KernelAssumption DEF IsReady, Stopped
    <3>4. off = z
      BY <2>1
    <3> HIDE DEF z, off
    <3> QED
      BY <3>1, <3>2, <3>3, <3>4
  <2>2. CASE ~IsReady(x, u)
    <3>1. Near(x, u)
      BY <1>1, <2>2, StoppedIsNear
    <3>2. Near(n, u) /\ n.st[u] = x.st[u] \ {"PENDING"}
      BY <3>1, UnpendNear
    <3>3. DeadOk(n)
      BY <1>1, UnpendDead
    <3>4. "INACTIVE" \in Timeout
      BY DEF Timeout
    <3> HIDE DEF n
    <3>5. Near(m, u) /\ DeadOk(m) /\ m.tmo[u] = "INACTIVE" /\ m.st = n.st
      BY <3>2, <3>3, <3>4, Retime
    <3>6. off = m
      BY <2>2
    <3> HIDE DEF m, off
    <3> QED
      BY <3>2, <3>5, <3>6
  <2> QED
    BY <2>1, <2>2
<1> HIDE DEF off
<1> DEFINE S == off.st[u] \cup {"DEAD"}
           y == [off EXCEPT !.st[u] = S]
<1>4. off \in KernelState /\ "QUEUED" \notin off.st[u]
  BY <1>3 DEF Near, Away
<1>5. /\ S \in SUBSET Flag /\ "QUEUED" \notin S /\ "PENDING" \notin S /\ "DEAD" \in S
  BY <1>3, <1>4 DEF KernelState, Flag
<1>6. Aborted(x, u) = y
  BY <1>2, <1>4 DEF KernelState
<1> HIDE DEF S
<1>7. Near(y, u) /\ DeadOk(y) /\ y.st[u] = S
  BY <1>3, <1>5, Reflag
<1> HIDE DEF y
<1>8. ~IsReady(y, u)
  BY <1>5, <1>7, KernelAssumption DEF IsReady, Stopped
<1> QED
  BY <1>6, <1>7, <1>8, NearStopped

\* k_thread_abort() on the running thread, from itself.
LEMMA AbortSelfInv ==
  ASSUME NEW x, Inv(x), DeadOk(x), NEW u \in Thread, u = x.cur
  PROVE  /\ Inv(Swap(Aborted(x, u))) /\ SwitchOk(Swap(Aborted(x, u)))
         /\ DeadOk(Swap(Aborted(x, u)))
         /\ Aborted(x, u) \in KernelState /\ "DEAD" \in Aborted(x, u).st[u]
         /\ Aborted(x, u).cur = u /\ Aborted(x, u).tick = x.tick
<1> DEFINE z == RemoveFromReadyQ(x, u)
           y == [z EXCEPT !.st[u] = z.st[u] \cup {"DEAD"}, !.tmo[u] = "INACTIVE"]
<1>1. x \in KernelState /\ Inv(x) /\ DeadOk(x) /\ IsReady(x, u)
  BY DEF Inv
<1>2. x.tmo[u] = "INACTIVE"
  BY <1>1, KernelAssumption DEF IsReady
<1>3. {"DEAD"} \in SUBSET {"SUSPENDED", "DEAD"} /\ "INACTIVE" \in Timeout
  BY DEF Timeout
<1>4. Inv(Swap(y)) /\ SwitchOk(Swap(y)) /\ DeadOk(Swap(y))
  BY <1>1, <1>3, StopCurrent
<1>5. Off(z, u) /\ z.tmo = x.tmo /\ z.tick = x.tick /\ z.cur = x.cur
  BY <1>1, RemoveReady DEF RemoveFromReadyQ, UpdateCache, KernelState
<1>6. Aborted(x, u) = [z EXCEPT !.st[u] = @ \cup {"DEAD"}]
  BY <1>1 DEF Aborted
<1> HIDE DEF z
<1>7. z \in KernelState
  BY <1>5 DEF Off, Away
<1>8. Aborted(x, u) = y
  <2>1. [z.tmo EXCEPT ![u] = "INACTIVE"] = z.tmo
    BY <1>2, <1>5, <1>7 DEF KernelState
  <2> QED
    BY <1>6, <1>7, <2>1, ZenonT(60) DEF KernelState
<1>9. y.cur = u /\ y.tick = x.tick /\ y \in KernelState /\ "DEAD" \in y.st[u]
  <2>1. z.st[u] \cup {"DEAD"} \in SUBSET Flag
    BY <1>7 DEF KernelState, Flag
  <2>2. z.st \in [Thread -> SUBSET Flag] /\ z.tmo \in [Thread -> Timeout]
    BY <1>7 DEF KernelState
  <2> QED
    BY <1>3, <1>5, <1>7, <2>1, <2>2 DEF KernelState
<1> HIDE DEF y
<1> QED
  BY <1>4, <1>8, <1>9

\* k_thread_abort() of the thread that was interrupted, outside the clock
\* interrupt: the switch is made when the interrupt returns.
LEMMA AbortInterruptedInv ==
  ASSUME NEW x, Inv(x), DeadOk(x), NEW u \in Thread, u = x.cur, ~x.tick
  PROVE  /\ Inv(IntExit(Aborted(x, u))) /\ SwitchOk(IntExit(Aborted(x, u)))
         /\ DeadOk(IntExit(Aborted(x, u)))
<1> DEFINE y == Aborted(x, u)
           s == Swap(y)
           e == IntExit(y)
<1>1. /\ Inv(s) /\ SwitchOk(s) /\ DeadOk(s) /\ y \in KernelState /\ "DEAD" \in y.st[u]
      /\ y.cur = u /\ ~y.tick
  BY AbortSelfInv
<1> HIDE DEF y
<1>2. s.cur = y.cache /\ s.st = y.st /\ IsReady(s, s.cur) /\ s \in KernelState
  BY <1>1 DEF Inv, Swap, KernelState
<1>3. y.cache # y.cur
  BY <1>1, <1>2, KernelAssumption DEF IsReady, Stopped
<1>4. y.ret \in [Thread -> SwapValue] /\ s.slice \in Nat /\ s.tick \in BOOLEAN
  BY <1>1, <1>2 DEF KernelState
<1> DEFINE r == [s EXCEPT !.ret = y.ret, !.slice = s.slice, !.tick = s.tick]
<1>5. e = r
  BY <1>1, <1>3 DEF IntExit, Swap, KernelState
<1>6. Inv(r)
  BY <1>1, <1>4, OtherFields
<1>7. r.tick = s.tick /\ r.cur = s.cur /\ r.cache = s.cache /\ r.st = s.st /\ r.tmo = s.tmo
  BY <1>2 DEF KernelState
<1> HIDE DEF r, s, e
<1>8. SwitchOk(r) /\ DeadOk(r)
  BY <1>1, <1>7 DEF SwitchOk, DeadOk
<1>9. Inv(e) /\ SwitchOk(e) /\ DeadOk(e)
  BY <1>5, <1>6, <1>8
<1> QED
  BY <1>9 DEF e, y

\* The same inside the clock interrupt: that thread stays the current one.
LEMMA AbortedCurrent ==
  ASSUME NEW x, Inv(x), DeadOk(x), NEW u \in Thread, u = x.cur, x.tick,
         NEW e, e = IntExit(Aborted(x, u))
  PROVE  e.tick /\ e.cur = u /\ "DEAD" \in e.st[u]
<1>1. /\ "DEAD" \in Aborted(x, u).st[u] /\ Aborted(x, u).cur = u
      /\ Aborted(x, u).tick = x.tick
  BY AbortSelfInv
<1> QED
  BY <1>1 DEF IntExit

\* k_wakeup(), by a thread or an interrupt.
LEMMA WokenInv ==
  ASSUME NEW x, Inv(x), DeadOk(x), NEW u \in Thread
  PROVE  Inv(Woken(x, u)) /\ DeadOk(Woken(x, u))
<1> DEFINE y == [x EXCEPT !.tmo[u] = "INACTIVE"]
<1>1. x \in KernelState /\ Inv(x) /\ DeadOk(x)
  BY DEF Inv
<1>2. CASE "PENDING" \in x.st[u] \/ x.tmo[u] = "INACTIVE"
  BY <1>1, <1>2 DEF Woken
<1>3. CASE ~("PENDING" \in x.st[u] \/ x.tmo[u] = "INACTIVE")
  <2>1. ~IsReady(x, u)
    BY <1>3, KernelAssumption DEF IsReady
  <2>2. Near(x, u) /\ "INACTIVE" \in Timeout
    BY <1>1, <2>1, StoppedIsNear DEF Timeout
  <2>3. Near(y, u) /\ DeadOk(y)
    BY <1>1, <2>2, Retime
  <2>4. Woken(x, u) = ReadyThread(y, u)
    BY <1>3 DEF Woken, AbortThreadTimeout
  <2> HIDE DEF y
  <2> QED
    BY <2>3, <2>4, ReadyStep
<1> QED
  BY <1>2, <1>3

\* Putting the thread back with the priority it has.
LEMMA RequeueSame ==
  ASSUME NEW x, NEW t \in Thread, Inv(x), IsReady(x, t)
  PROVE  LET y == [x EXCEPT !.runq = PriqAdd(PriqRemove(@, t), t, x.prio)]
         IN  /\ y \in KernelState /\ RunQOk(y) /\ WaitQOk(y)
             /\ y.cur = x.cur /\ y.tick = x.tick /\ y.st = x.st /\ y.tmo = x.tmo
             /\ IsReady(y, y.cur)
<1> DEFINE p == x.prio[t]
           pr == [x.prio EXCEPT ![t] = p]
           z == [x EXCEPT !.prio[t] = p, !.runq = PriqAdd(PriqRemove(@, t), t, pr)]
           y == [x EXCEPT !.runq = PriqAdd(PriqRemove(@, t), t, x.prio)]
<1>1. x \in KernelState
  BY DEF Inv
<1>2. p \in Prio /\ pr = x.prio
  BY <1>1 DEF KernelState
<1>3. z = y
  BY <1>1, <1>2 DEF KernelState
<1>4. y.tmo = x.tmo
  BY <1>1 DEF KernelState
<1>5. /\ z \in KernelState /\ RunQOk(z) /\ WaitQOk(z)
      /\ z.cur = x.cur /\ z.tick = x.tick /\ z.st = x.st
      /\ IsReady(z, z.cur)
  BY <1>2, Requeue
<1> HIDE DEF y, z
<1>6. /\ y \in KernelState /\ RunQOk(y) /\ WaitQOk(y)
      /\ y.cur = x.cur /\ y.tick = x.tick /\ y.st = x.st /\ y.tmo = x.tmo
      /\ IsReady(y, y.cur)
  BY <1>3, <1>4, <1>5
<1> QED
  BY <1>6 DEF y

\* update_cache(1) and _reschedule() from a thread.
LEMMA ForcedStep ==
  ASSUME NEW x \in KernelState, RunQOk(x), WaitQOk(x), ~x.tick, DeadOk(x)
  PROVE  /\ Inv(Reschedule(UpdateCache(x, TRUE)))
         /\ SwitchOk(Reschedule(UpdateCache(x, TRUE)))
         /\ DeadOk(Reschedule(UpdateCache(x, TRUE)))
<1>1. /\ Inv(Reschedule(UpdateCache(x, TRUE)))
      /\ SwitchOk(Reschedule(UpdateCache(x, TRUE)))
  BY ForcedRescheduleInv
<1>2. UpdateCache(x, TRUE) \in KernelState
  BY UpdateCacheFrame
<1>3. SameFate(x, UpdateCache(x, TRUE))
  BY DEF SameFate, UpdateCache, KernelState
<1>4. SameFate(UpdateCache(x, TRUE), Reschedule(UpdateCache(x, TRUE)))
  <2> DEFINE y == UpdateCache(x, TRUE)
  <2> HIDE DEF y
  <2>1. y \in KernelState
    BY <1>2 DEF y
  <2>2. SameFate(y, Reschedule(y))
    BY <2>1 DEF SameFate, Reschedule, Swap, KernelState
  <2> QED
    BY <2>2 DEF y
<1> QED
  BY <1>1, <1>3, <1>4, SameFateDead

\* k_yield().
LEMMA YieldInv ==
  ASSUME SchedInv, NEW t \in Thread, Yield(t)
  PROVE  SchedInv'
<1> DEFINE y == [k EXCEPT !.runq = PriqAdd(PriqRemove(@, t), t, k.prio)]
<1>1. /\ Inv(k) /\ DeadOk(k) /\ t = k.cur /\ ~k.tick /\ IsReady(k, t)
      /\ k' = Reschedule(UpdateCache(y, TRUE))
  BY DEF SchedInv, Inv, Yield, Yielded, Running
<1>2. /\ y \in KernelState /\ RunQOk(y) /\ WaitQOk(y)
      /\ y.tick = k.tick /\ y.st = k.st /\ y.tmo = k.tmo
  BY <1>1, RequeueSame
<1> HIDE DEF y
<1>3. DeadOk(y)
  BY <1>1, <1>2 DEF DeadOk
<1>4. Inv(k') /\ SwitchOk(k') /\ DeadOk(k')
  BY <1>1, <1>2, <1>3, ForcedStep
<1> QED
  BY <1>4 DEF SchedInv

\* k_thread_priority_set().
LEMMA ThreadPrioritySetInv ==
  ASSUME SchedInv, NEW t \in Thread, NEW u \in Thread, NEW p \in Prio,
         ThreadPrioritySet(t, u, p)
  PROVE  SchedInv'
<1>1. /\ k \in KernelState /\ Inv(k) /\ DeadOk(k) /\ SwitchOk(k) /\ t = k.cur /\ ~k.tick
      /\ k' = PrioritySet(k, u, p)
  BY DEF SchedInv, Inv, ThreadPrioritySet, Running
<1>2. CASE IsReady(k, u)
  <2> DEFINE y == [k EXCEPT !.prio[u] = p,
                            !.runq = PriqAdd(PriqRemove(@, u), u, [k.prio EXCEPT ![u] = p])]
  <2>1. k' = Reschedule(UpdateCache(y, TRUE))
    BY <1>1, <1>2 DEF PrioritySet, Reprioritized
  <2>2. /\ y \in KernelState /\ RunQOk(y) /\ WaitQOk(y)
        /\ y.tick = k.tick /\ y.st = k.st
    <3>1. Inv(k)
      BY <1>1
    <3> QED
      BY <1>2, <3>1, Requeue
  <2>3. y.tmo = k.tmo
    BY <1>1 DEF KernelState
  <2> HIDE DEF y
  <2>4. DeadOk(y)
    BY <1>1, <2>2, <2>3 DEF DeadOk
  <2>5. Inv(k') /\ SwitchOk(k') /\ DeadOk(k')
    BY <1>1, <2>1, <2>2, <2>4, ForcedStep
  <2> QED
    BY <2>5 DEF SchedInv
<1>3. CASE ~IsReady(k, u)
  <2> DEFINE n == k.locked[u]
             y == [k EXCEPT !.prio[u] = p, !.locked[u] = n]
  <2>1. Near(k, u) /\ n \in Nat
    BY <1>1, <1>3, StoppedIsNear DEF KernelState
  <2>2. Near(y, u)
    BY <2>1, Reparam
  <2>3. k' = y
    <3>1. k' = [k EXCEPT !.prio[u] = p]
      BY <1>1, <1>3 DEF PrioritySet
    <3>2. [k.locked EXCEPT ![u] = n] = k.locked
      BY <1>1 DEF KernelState
    <3> QED
      BY <1>1, <3>1, <3>2 DEF KernelState
  <2>4. y.st = k.st /\ y.tmo = k.tmo /\ y.cur = k.cur /\ y.cache = k.cache /\ y.tick = k.tick
    BY <1>1 DEF KernelState
  <2> HIDE DEF y
  <2>5. ~IsReady(y, u) /\ DeadOk(y) /\ SwitchOk(y)
    BY <1>1, <1>3, <2>4 DEF IsReady, DeadOk, SwitchOk
  <2>6. Inv(y)
    BY <2>2, <2>5, NearStopped
  <2> QED
    BY <2>3, <2>5, <2>6 DEF SchedInv
<1> QED
  BY <1>2, <1>3

\* k_sched_lock().
LEMMA LockSchedInv ==
  ASSUME SchedInv, NEW t \in Thread, LockSched(t)
  PROVE  SchedInv'
<1>1. /\ k \in KernelState /\ RunQOk(k) /\ WaitQOk(k) /\ CacheOk(k) /\ IsReady(k, k.cur)
      /\ DeadOk(k) /\ t = k.cur /\ ~k.tick /\ k.cur = k.cache
      /\ k' = [k EXCEPT !.locked[t] = @ + 1]
  BY DEF SchedInv, Inv, LockSched, Running, SchedLock, SwitchOk
<1>2. /\ k' \in KernelState
      /\ k'.cur = k.cur /\ k'.cache = k.cache /\ k'.runq = k.runq /\ k'.tick = k.tick
      /\ k'.st = k.st /\ k'.tmo = k.tmo /\ k'.waitq = k.waitq /\ k'.prio = k.prio
      /\ k'.locked[t] = k.locked[t] + 1 /\ k.locked[t] \in Nat
  <2>1. k.locked \in [Thread -> Nat] /\ k.locked[t] + 1 \in Nat
    BY <1>1 DEF KernelState
  <2> QED
    BY <1>1, <2>1 DEF KernelState
<1>3. \A u : IsReady(k', u) <=> IsReady(k, u)
  BY <1>2 DEF IsReady
<1>4. RunQOk(k') /\ WaitQOk(k') /\ DeadOk(k')
  BY <1>1, <1>2, <1>3 DEF RunQOk, WaitQOk, DeadOk
<1>5. ~IsPreempt(k', t)
  BY <1>2, KernelAssumption DEF IsPreempt
<1>6. CacheOk(k') /\ SwitchOk(k')
  BY <1>1, <1>2, <1>3, <1>5 DEF CacheOk, SwitchOk
<1> QED
  BY <1>1, <1>2, <1>3, <1>4, <1>6 DEF SchedInv, Inv

\* k_sched_unlock().
LEMMA UnlockSchedInv ==
  ASSUME SchedInv, NEW t \in Thread, UnlockSched(t)
  PROVE  SchedInv'
<1> DEFINE y == [k EXCEPT !.locked[k.cur] = @ - 1]
<1>1. /\ k \in KernelState /\ RunQOk(k) /\ WaitQOk(k) /\ DeadOk(k) /\ t = k.cur /\ ~k.tick
      /\ k.locked[t] > 0 /\ k' = Reschedule(UpdateCache(y, TRUE))
  BY DEF SchedInv, Inv, UnlockSched, Running, SchedUnlock, Unlocked
<1>2. k.locked \in [Thread -> Nat] /\ k.locked[t] - 1 \in Nat
  BY <1>1 DEF KernelState
<1>3. /\ y \in KernelState /\ y.runq = k.runq /\ y.tick = k.tick
      /\ y.st = k.st /\ y.tmo = k.tmo /\ y.waitq = k.waitq /\ y.prio = k.prio
  BY <1>1, <1>2 DEF KernelState
<1> HIDE DEF y
<1>4. \A u : IsReady(y, u) <=> IsReady(k, u)
  BY <1>3 DEF IsReady
<1>5. RunQOk(y) /\ WaitQOk(y) /\ DeadOk(y)
  BY <1>1, <1>3, <1>4 DEF RunQOk, WaitQOk, DeadOk
<1>6. Inv(k') /\ SwitchOk(k') /\ DeadOk(k')
  BY <1>1, <1>3, <1>5, ForcedStep
<1> QED
  BY <1>6 DEF SchedInv

-----------------------------------------------------------------------------
(***************************************************************************)
(* The system clock interrupt.                                             *)
(***************************************************************************)

\* Steps of the clock interrupt that mark timeouts or choose one.
LEMMA ClockStep ==
  ASSUME NEW x, Inv(x), DeadOk(x), NEW y \in KernelState,
         y.cur = x.cur, y.cache = x.cache, y.runq = x.runq, y.st = x.st, y.waitq = x.waitq,
         y.prio = x.prio, y.locked = x.locked, y.tick,
         \A t \in Thread : (y.tmo[t] = "INACTIVE") <=> (x.tmo[t] = "INACTIVE")
  PROVE  Inv(y) /\ SwitchOk(y) /\ DeadOk(y)
<1>1. /\ x \in KernelState /\ RunQOk(x) /\ WaitQOk(x) /\ CacheOk(x) /\ IsReady(x, x.cur)
      /\ DeadOk(x)
  BY DEF Inv
<1>2. \A t \in Thread \cup {Idle} : IsReady(y, t) <=> IsReady(x, t)
  BY DEF IsReady
<1>3. RunQOk(y) /\ WaitQOk(y) /\ DeadOk(y)
  BY <1>1, <1>2 DEF RunQOk, WaitQOk, DeadOk
<1>4. x.cur \in Thread \cup {Idle}
  BY <1>1 DEF KernelState
<1>5. CacheOk(y) /\ IsReady(y, y.cur) /\ SwitchOk(y)
  BY <1>1, <1>2, <1>4 DEF CacheOk, SwitchOk, IsPreempt, NextUp
<1> QED
  BY <1>3, <1>5 DEF Inv

\* A due timeout leaves the timeout queue.
LEMMA DequeuedInv ==
  ASSUME NEW x, Inv(x), DeadOk(x), NEW t \in Active(x), NEW n \in Thread \cup {Idle}, x.tick
  PROVE  /\ Inv(Dequeued(x, t, n)) /\ SwitchOk(Dequeued(x, t, n)) /\ DeadOk(Dequeued(x, t, n))
<1> DEFINE y == Dequeued(x, t, n)
<1>1. x \in KernelState /\ t \in Thread /\ x.tmo[t] = "ACTIVE"
  BY DEF Inv, Active
<1>2. /\ y \in KernelState /\ y.tick
      /\ y.cur = x.cur /\ y.cache = x.cache /\ y.runq = x.runq
      /\ y.st = x.st /\ y.waitq = x.waitq /\ y.prio = x.prio /\ y.locked = x.locked
      /\ \A u \in Thread : y.tmo[u] = IF u = t THEN "EXPIRED" ELSE x.tmo[u]
  BY <1>1 DEF Dequeued, KernelState, Timeout
<1> HIDE DEF y
<1>3. \A u \in Thread : (y.tmo[u] = "INACTIVE") <=> (x.tmo[u] = "INACTIVE")
  BY <1>1, <1>2
<1>4. Inv(y) /\ SwitchOk(y) /\ DeadOk(y)
  BY <1>2, <1>3, ClockStep
<1> QED
  BY <1>4 DEF y

\* The interrupt begins, and finds something due or not.
LEMMA TickStartInv ==
  ASSUME NEW x, Inv(x), DeadOk(x), TickStart(x)
  PROVE  SchedInv'
<1> DEFINE y == [x EXCEPT !.tick = TRUE]
<1>1. x \in KernelState
  BY DEF Inv
<1>2. /\ y \in KernelState /\ y.tick /\ y.tmo = x.tmo
      /\ y.cur = x.cur /\ y.cache = x.cache /\ y.runq = x.runq
      /\ y.st = x.st /\ y.waitq = x.waitq /\ y.prio = x.prio /\ y.locked = x.locked
  BY <1>1 DEF KernelState
<1>3. \/ k' = y
      \/ \E t \in Active(x) : \E n \in (Active(x) \ {t}) \cup {Idle} : k' = Dequeued(y, t, n)
  BY DEF TickStart
<1> HIDE DEF y
<1>4. Inv(y) /\ SwitchOk(y) /\ DeadOk(y)
  BY <1>2, ClockStep
<1>5. CASE k' = y
  BY <1>4, <1>5 DEF SchedInv
<1>6. ASSUME NEW t \in Active(x), NEW n \in (Active(x) \ {t}) \cup {Idle}, k' = Dequeued(y, t, n)
      PROVE  SchedInv'
  <2>1. t \in Active(y) /\ n \in Thread \cup {Idle}
    BY <1>2 DEF Active
  <2>2. Inv(k') /\ SwitchOk(k') /\ DeadOk(k')
    BY <1>2, <1>4, <1>6, <2>1, DequeuedInv
  <2> QED
    BY <2>2 DEF SchedInv
<1> QED
  BY <1>3, <1>5, <1>6

\* The loop over the timeout queue goes on, or ends.
LEMMA TickDequeueInv ==
  ASSUME SchedInv, Careful, TickDequeue
  PROVE  SchedInv'
<1>1. k \in KernelState /\ Inv(k) /\ DeadOk(k) /\ k.tick
  BY DEF SchedInv, Inv, TickDequeue
<1>2. CASE k' = [k EXCEPT !.moving = Idle]
  <2>1. /\ k' \in KernelState /\ k'.tick /\ k'.tmo = k.tmo
        /\ k'.cur = k.cur /\ k'.cache = k.cache /\ k'.runq = k.runq
        /\ k'.st = k.st /\ k'.waitq = k.waitq /\ k'.prio = k.prio /\ k'.locked = k.locked
    BY <1>1, <1>2 DEF KernelState
  <2>2. Inv(k') /\ SwitchOk(k') /\ DeadOk(k')
    BY <1>1, <2>1, ClockStep
  <2> QED
    BY <2>2 DEF SchedInv
<1>3. ASSUME NEW n \in (Active(k) \ {k.moving}) \cup {Idle}, k' = Dequeued(k, k.moving, n)
      PROVE  SchedInv'
  <2>1. k.moving \in Active(k) /\ n \in Thread \cup {Idle}
    BY <1>1 DEF Active, Careful, TickDequeue, KernelState
  <2>2. Inv(k') /\ SwitchOk(k') /\ DeadOk(k')
    BY <1>1, <1>3, <2>1, DequeuedInv
  <2> QED
    BY <2>2 DEF SchedInv
<1> QED
  BY <1>2, <1>3 DEF TickDequeue

\* An expired timeout is chosen.
LEMMA TickPickInv ==
  ASSUME SchedInv, NEW t \in Thread, TickPick(t)
  PROVE  SchedInv'
<1>1. k \in KernelState /\ Inv(k) /\ DeadOk(k) /\ k.tick /\ k' = [k EXCEPT !.expiring = t]
  BY DEF SchedInv, Inv, TickPick
<1>2. /\ k' \in KernelState /\ k'.tick /\ k'.tmo = k.tmo
      /\ k'.cur = k.cur /\ k'.cache = k.cache /\ k'.runq = k.runq
      /\ k'.st = k.st /\ k'.waitq = k.waitq /\ k'.prio = k.prio /\ k'.locked = k.locked
  BY <1>1 DEF KernelState
<1>3. Inv(k') /\ SwitchOk(k') /\ DeadOk(k')
  BY <1>1, <1>2, ClockStep
<1> QED
  BY <1>3 DEF SchedInv

\* One expired timeout is handled.
LEMMA TickExpireInv ==
  ASSUME SchedInv, Careful, NEW t \in Thread, TickExpire(t)
  PROVE  SchedInv'
<1> DEFINE a == [k EXCEPT !.tmo[t] = "INACTIVE"]
           b == UnpendNoTimeout(a, t)
           S == b.st[t] \ {"PRESTART"}
           c == [b EXCEPT !.st[t] = S]
<1>1. k \in KernelState /\ Inv(k) /\ DeadOk(k) /\ k.tick /\ k.tmo[t] = "EXPIRED"
  BY KernelAssumption DEF SchedInv, Inv, TickExpire, Careful
<1>2. Near(k, t)
  <2>1. ~IsReady(k, t)
    BY <1>1, KernelAssumption DEF IsReady
  <2> QED
    BY <1>1, <2>1, StoppedIsNear
<1>3. Near(a, t) /\ DeadOk(a) /\ a.tmo[t] = "INACTIVE" /\ a.tick
  <2>1. "INACTIVE" \in Timeout /\ DeadOk(k)
    BY <1>1 DEF Timeout
  <2>2. Near(a, t) /\ DeadOk(a) /\ a.tmo[t] = "INACTIVE"
    BY <1>2, <2>1, Retime
  <2>3. a.tick
    BY <1>1 DEF KernelState
  <2> QED
    BY <2>2, <2>3
<1> DEFINE h == ReadyThread([b EXCEPT !.st[t] = @ \ {"PRESTART"}], t)
<1>4. k' = [h EXCEPT !.expiring = Idle]
  BY DEF TickExpire, HandleExpired
<1> HIDE DEF a
<1>5. Near(b, t) /\ b.tmo = a.tmo /\ b.tick = a.tick
  BY <1>3, UnpendNear
<1>6. DeadOk(b)
  <2>1. a \in KernelState
    BY <1>3 DEF Near, Away
  <2> QED
    BY <1>3, <2>1, UnpendDead
<1> HIDE DEF b
<1>7. b \in KernelState /\ "QUEUED" \notin b.st[t]
  BY <1>5 DEF Near, Away
<1>8. /\ S \in SUBSET Flag /\ "QUEUED" \notin S
      /\ ("PENDING" \in S) <=> ("PENDING" \in b.st[t])
      /\ "DEAD" \in S => "PENDING" \notin S /\ b.tmo[t] = "INACTIVE"
  BY <1>6, <1>7 DEF KernelState, DeadOk
<1>9. h = ReadyThread(c, t) /\ c.tick = b.tick
  BY <1>7 DEF KernelState
<1> HIDE DEF h
<1> HIDE DEF S
<1>10. Near(c, t) /\ DeadOk(c)
  BY <1>5, <1>6, <1>8, Reflag
<1> HIDE DEF c
<1>11. Inv(h) /\ DeadOk(h) /\ h.tick
  BY <1>3, <1>5, <1>9, <1>10, ReadyStep
<1>12. h \in KernelState
  BY <1>11 DEF Inv
<1>13. /\ k' \in KernelState /\ k'.tick /\ k'.tmo = h.tmo
       /\ k'.cur = h.cur /\ k'.cache = h.cache /\ k'.runq = h.runq
       /\ k'.st = h.st /\ k'.waitq = h.waitq /\ k'.prio = h.prio /\ k'.locked = h.locked
  BY <1>4, <1>11, <1>12 DEF KernelState
<1>14. Inv(k') /\ SwitchOk(k') /\ DeadOk(k')
  BY <1>11, <1>13, ClockStep
<1> QED
  BY <1>14 DEF SchedInv

\* The time slice is accounted and the interrupt returns.
LEMMA TickEndInv ==
  ASSUME SchedInv, TickEnd
  PROVE  SchedInv'
<1> DEFINE m == [k EXCEPT !.slice = 0]
           sliced == IF ~IsTimeSlicing(k.cur) THEN k
                     ELSE IF k.slice + 1 < SliceTicks THEN [k EXCEPT !.slice = @ + 1]
                     ELSE MoveToEndOfPrioQ(m, k.cur)
<1>1. k \in KernelState /\ Inv(k) /\ DeadOk(k) /\ k' = IntExit([sliced EXCEPT !.tick = FALSE])
  BY DEF SchedInv, Inv, TickEnd
<1>2. k.slice \in Nat /\ k.slice + 1 \in Nat /\ k.ret \in [Thread -> SwapValue]
        /\ k.tick \in BOOLEAN
  BY <1>1 DEF KernelState
<1>3. Inv(sliced) /\ DeadOk(sliced)
  <2>1. CASE ~IsTimeSlicing(k.cur)
    BY <1>1, <2>1
  <2>2. CASE IsTimeSlicing(k.cur) /\ k.slice + 1 < SliceTicks
    <3> DEFINE y == [k EXCEPT !.ret = k.ret, !.slice = k.slice + 1, !.tick = k.tick]
    <3>1. Inv(y)
      BY <1>1, <1>2, OtherFields
    <3>2. sliced = y /\ y.st = k.st /\ y.tmo = k.tmo
      BY <1>1, <2>2 DEF KernelState
    <3>3. DeadOk(y)
      BY <1>1, <3>2 DEF DeadOk
    <3> HIDE DEF y, sliced
    <3> QED
      BY <3>1, <3>2, <3>3
  <2>3. CASE IsTimeSlicing(k.cur) /\ ~(k.slice + 1 < SliceTicks)
    <3> DEFINE y == [k EXCEPT !.ret = k.ret, !.slice = 0, !.tick = k.tick]
               t == k.cur
               z == [m EXCEPT !.runq = PriqAdd(PriqRemove(@, t), t, m.prio)]
    <3>1. t \in Thread
      BY <1>1, <2>3 DEF IsTimeSlicing, KernelState
    <3>2. Inv(m) /\ m.cur = t /\ m.st = k.st /\ m.tmo = k.tmo
      <4>1. 0 \in Nat
        OBVIOUS
      <4>2. Inv(y)
        BY <1>1, <1>2, <4>1, OtherFields
      <4>3. m = y /\ m.cur = t /\ m.st = k.st /\ m.tmo = k.tmo
        BY <1>1 DEF KernelState
      <4> HIDE DEF m, y
      <4> QED
        BY <4>2, <4>3
    <3>3. sliced = MoveToEndOfPrioQ(m, t)
      BY <2>3
    <3> HIDE DEF m, t
    <3>4. IsReady(m, t) /\ m \in KernelState /\ "QUEUED" \in m.st[t]
      <4>1. IsReady(m, t) /\ m \in KernelState /\ RunQOk(m)
        BY <3>2 DEF Inv
      <4> QED
        BY <3>1, <4>1 DEF RunQOk
    <3>5. /\ z \in KernelState /\ RunQOk(z) /\ WaitQOk(z)
          /\ z.st = m.st /\ z.tmo = m.tmo /\ IsReady(z, z.cur)
      BY <3>1, <3>2, <3>4, RequeueSame
    <3>6. sliced = UpdateCache(z, FALSE)
      <4>1. [m.st EXCEPT ![t] = @ \cup {"QUEUED"}] = m.st
        BY <3>1, <3>4 DEF KernelState
      <4>2. [m EXCEPT !.runq = PriqAdd(PriqRemove(@, t), t, m.prio),
                      !.st[t] = @ \cup {"QUEUED"}] = z
        BY <3>4, <4>1 DEF KernelState
      <4> QED
        BY <3>3, <4>2 DEF MoveToEndOfPrioQ
    <3> HIDE DEF z, sliced
    <3>7. Inv(sliced)
      BY <3>5, <3>6, UpdateCacheInv
    <3>8. SameFate(z, sliced)
      BY <3>5, <3>6 DEF SameFate, UpdateCache, KernelState
    <3>9. DeadOk(z)
      BY <1>1, <3>2, <3>5 DEF DeadOk
    <3> QED
      BY <3>7, <3>8, <3>9, SameFateDead
  <2> QED
    BY <2>1, <2>2, <2>3
<1> HIDE DEF sliced
<1> DEFINE y == [sliced EXCEPT !.ret = sliced.ret, !.slice = sliced.slice, !.tick = FALSE]
<1>4. sliced \in KernelState
  BY <1>3 DEF Inv
<1>5. sliced.ret \in [Thread -> SwapValue] /\ sliced.slice \in Nat /\ FALSE \in BOOLEAN
  BY <1>4 DEF KernelState
<1>6. Inv(y)
  BY <1>3, <1>5, OtherFields
<1>7. y = [sliced EXCEPT !.tick = FALSE] /\ y.st = sliced.st /\ y.tmo = sliced.tmo
  BY <1>4 DEF KernelState
<1> HIDE DEF y
<1>8. DeadOk(y)
  BY <1>3, <1>7 DEF DeadOk
<1>9. Inv(k') /\ SwitchOk(k') /\ DeadOk(k')
  BY <1>1, <1>6, <1>7, <1>8, RescheduleStep
<1> QED
  BY <1>9 DEF SchedInv

-----------------------------------------------------------------------------
(***************************************************************************)
(* Interrupts, also between the two critical sections of a call.           *)
(***************************************************************************)

\* An interrupt that finds any state with the invariant.
LEMMA InterruptInv ==
  ASSUME NEW x, Inv(x), DeadOk(x), Interrupt(x), Careful, Careful'
  PROVE  SchedInv'
<1>1. PICK u \in Thread : IsrResume(x, u) \/ IsrWakeup(x, u) \/ IsrAbort(x, u)
  BY DEF Interrupt
<1>2. CASE IsrResume(x, u)
  BY <1>2, ResumedInv DEF IsrResume, SchedInv, Careful
<1>3. CASE IsrWakeup(x, u)
  BY <1>3, WokenInv, RescheduleStep DEF IsrWakeup, SchedInv
<1>4. CASE IsrAbort(x, u)
  <2>1. CASE u # x.cur
    BY <1>4, <2>1, AbortedInv, RescheduleStep DEF IsrAbort, SchedInv
  <2>2. CASE u = x.cur /\ ~x.tick
    BY <1>4, <2>2, AbortInterruptedInv DEF IsrAbort, SchedInv
  <2>3. CASE u = x.cur /\ x.tick
    <3>1. k'.tick /\ k'.cur = u /\ "DEAD" \in k'.st[u]
      BY <1>4, <2>3, AbortedCurrent DEF IsrAbort
    <3> QED
      BY <3>1, KernelAssumption DEF Careful, Has
  <2> QED
    BY <2>1, <2>2, <2>3
<1> QED
  BY <1>1, <1>2, <1>3, <1>4

\* update_cache() from a state in which all but the cache is right.
LEMMA CacheStep ==
  ASSUME NEW x \in KernelState, RunQOk(x), WaitQOk(x), DeadOk(x), IsReady(x, x.cur)
  PROVE  Inv(UpdateCache(x, TRUE)) /\ DeadOk(UpdateCache(x, TRUE))
<1>1. Inv(UpdateCache(x, TRUE))
  BY UpdateCacheInv
<1>2. SameFate(x, UpdateCache(x, TRUE))
  BY DEF SameFate, UpdateCache, KernelState
<1> QED
  BY <1>1, <1>2, SameFateDead

\* What k_yield(), k_sched_unlock() and k_thread_priority_set() leave when they
\* enable interrupts for a moment.
LEMMA BetweenInv ==
  ASSUME SchedInv, NEW t \in Thread, Running(t), NEW x \in Between(t)
  PROVE  Inv(x) /\ DeadOk(x)
<1>1. Inv(k) /\ k \in KernelState /\ DeadOk(k) /\ t = k.cur /\ IsReady(k, t)
  BY DEF SchedInv, Inv, Running
<1>2. CASE x = Yielded(k)
  <2> DEFINE y == [k EXCEPT !.runq = PriqAdd(PriqRemove(@, t), t, k.prio)]
  <2>1. x = UpdateCache(y, TRUE)
    BY <1>1, <1>2 DEF Yielded
  <2>2. /\ y \in KernelState /\ RunQOk(y) /\ WaitQOk(y)
        /\ y.st = k.st /\ y.tmo = k.tmo /\ IsReady(y, y.cur)
    BY <1>1, RequeueSame
  <2> HIDE DEF y
  <2>3. DeadOk(y)
    BY <1>1, <2>2 DEF DeadOk
  <2> QED
    BY <2>1, <2>2, <2>3, CacheStep
<1>3. CASE x = Unlocked(k) /\ k.locked[t] # 0
  <2> DEFINE y == [k EXCEPT !.locked[t] = @ - 1]
  <2>1. x = UpdateCache(y, TRUE)
    BY <1>1, <1>3 DEF Unlocked
  <2>2. k.locked \in [Thread -> Nat] /\ k.locked[t] - 1 \in Nat
    BY <1>1, <1>3 DEF KernelState
  <2>3. /\ y \in KernelState /\ y.cur = k.cur /\ y.runq = k.runq
        /\ y.st = k.st /\ y.tmo = k.tmo /\ y.waitq = k.waitq /\ y.prio = k.prio
    BY <1>1, <2>2 DEF KernelState
  <2> HIDE DEF y
  <2>4. \A u : IsReady(y, u) <=> IsReady(k, u)
    BY <2>3 DEF IsReady
  <2>5. RunQOk(k) /\ WaitQOk(k)
    BY <1>1 DEF Inv
  <2>6. RunQOk(y) /\ WaitQOk(y) /\ DeadOk(y)
    BY <1>1, <2>3, <2>4, <2>5 DEF RunQOk, WaitQOk, DeadOk
  <2> QED
    BY <1>1, <2>1, <2>3, <2>4, <2>6, CacheStep
<1>4. ASSUME NEW u \in Thread, NEW p \in Prio, IsReady(k, u), x = Reprioritized(k, u, p)
      PROVE  Inv(x) /\ DeadOk(x)
  <2> DEFINE y == [k EXCEPT !.prio[u] = p,
                            !.runq = PriqAdd(PriqRemove(@, u), u, [k.prio EXCEPT ![u] = p])]
  <2>1. x = UpdateCache(y, TRUE)
    BY <1>4 DEF Reprioritized
  <2>2. y \in KernelState /\ RunQOk(y) /\ WaitQOk(y) /\ y.st = k.st /\ IsReady(y, y.cur)
    <3>1. Inv(k)
      BY <1>1
    <3> QED
      BY <1>4, <3>1, Requeue, ZenonT(60)
  <2>3. y.tmo = k.tmo
    BY <1>1 DEF KernelState
  <2> HIDE DEF y
  <2>4. DeadOk(y)
    BY <1>1, <2>2, <2>3 DEF DeadOk
  <2> QED
    BY <2>1, <2>2, <2>4, CacheStep
<1> QED
  BY <1>2, <1>3, <1>4 DEF Between

\* An interrupt between the critical sections of these calls.
LEMMA InterruptedCallInv ==
  ASSUME SchedInv, NEW t \in Thread, InterruptedCall(t), Careful, Careful'
  PROVE  SchedInv'
<1>1. PICK x \in Between(t) : Interrupt(x) \/ TickStart(x)
  BY DEF InterruptedCall
<1>2. Inv(x) /\ DeadOk(x)
  BY BetweenInv DEF InterruptedCall
<1> QED
  BY <1>1, <1>2, InterruptInv, TickStartInv

-----------------------------------------------------------------------------
(***************************************************************************)
(* The theorems.                                                           *)
(***************************************************************************)

\* Every step of a thread, of an interrupt or of the clock keeps the invariant.
LEMMA NextInv ==
  ASSUME SchedInv, [Next]_k, Careful, Careful'
  PROVE  SchedInv'
<1>1. CASE UNCHANGED k
  BY <1>1 DEF SchedInv
<1>2. CASE Tick
  BY <1>2, TickStartInv, TickDequeueInv, TickPickInv, TickExpireInv, TickEndInv
  DEF Tick, SchedInv
<1>3. CASE Interrupt(k)
  BY <1>3, InterruptInv DEF SchedInv
<1>4. ASSUME NEW t \in Thread, Call(t) PROVE SchedInv'
  <2>1. CASE Yield(t)
    BY <2>1, YieldInv
  <2>2. CASE Sleep(t)
    BY <2>2, SleepInv
  <2>3. CASE LockSched(t)
    BY <2>3, LockSchedInv
  <2>4. CASE UnlockSched(t)
    BY <2>4, UnlockSchedInv
  <2>5. ASSUME NEW u \in Thread, ThreadStart(t, u) PROVE SchedInv'
    BY <2>5, ThreadStartInv
  <2>6. ASSUME NEW u \in Thread, ThreadCancel(t, u) PROVE SchedInv'
    BY <2>6, ThreadCancelInv
  <2>7. ASSUME NEW u \in Thread, ThreadSuspend(t, u) PROVE SchedInv'
    BY <2>7, ThreadSuspendInv
  <2>8. ASSUME NEW u \in Thread, ThreadResume(t, u) PROVE SchedInv'
    BY <2>8, ResumedInv DEF ThreadResume, Has, SchedInv, Careful
  <2>9. ASSUME NEW u \in Thread, ThreadAbort(t, u) PROVE SchedInv'
    <3>1. CASE t = u
      BY <2>9, <3>1, AbortSelfInv DEF ThreadAbort, Running, SchedInv
    <3>2. CASE t # u
      BY <2>9, <3>2, AbortedInv, RescheduleStep DEF ThreadAbort, Running, SchedInv
    <3> QED
      BY <3>1, <3>2
  <2>10. ASSUME NEW u \in Thread, Wakeup(t, u) PROVE SchedInv'
    BY <2>10, WokenInv, RescheduleStep DEF Wakeup, SchedInv
  <2>11. ASSUME NEW u \in Thread, NEW p \in Prio, ThreadPrioritySet(t, u, p) PROVE SchedInv'
    BY <2>11, ThreadPrioritySetInv
  <2>12. ASSUME NEW u \in Thread, NEW p \in Prio, NEW delay \in {"forever", "zero", "ticks"},
                ThreadCreate(t, u, p, delay)
         PROVE  SchedInv'
    BY <2>12, ThreadCreateInv
  <2> QED
    BY <1>4, <2>1, <2>2, <2>3, <2>4, <2>5, <2>6, <2>7, <2>8, <2>9, <2>10, <2>11, <2>12 DEF Call
<1>5. ASSUME NEW t \in Thread, InterruptedCall(t) PROVE SchedInv'
  BY <1>5, InterruptedCallInv
<1> QED
  BY <1>1, <1>2, <1>3, <1>4, <1>5 DEF Next

\* As long as the calls are careful (nothing is resumed that is not suspended,
\* no interrupt deals with a thread whose timeout the clock interrupt holds, or
\* terminates the thread under it) the invariant holds.
THEOREM SchedInvariant == Spec /\ []Careful => []SchedInv
<1>1. Init => SchedInv
  BY BootInv DEF Init, SchedInv
<1>2. SchedInv /\ Careful /\ Careful' /\ [Next]_k => SchedInv'
  BY NextInv
<1> QED
  BY <1>1, <1>2, PTL DEF Spec

\* The kernel's state keeps its type.
THEOREM TypeCorrect == Spec /\ []Careful => []TypeOK
<1>1. SchedInv => TypeOK
  BY DEF SchedInv, Inv, TypeOK
<1> QED
  BY <1>1, SchedInvariant, PTL

\* The run queue holds exactly the ready threads, in order, at every point
\* where interrupts are enabled.
THEOREM RunQueueIsExact == Spec /\ []Careful => []RunQueueExact
<1>1. SchedInv => RunQueueExact
  BY DEF SchedInv, Inv, RunQueueExact
<1> QED
  BY <1>1, SchedInvariant, PTL

\* The processor runs a ready thread, and the best one unless the current
\* thread may not be preempted.
THEOREM BestThreadAlwaysRuns == Spec /\ []Careful => []BestThreadRuns
<1>1. SchedInv => BestThreadRuns
  BY DEF SchedInv, Inv, CacheOk, SwitchOk, BestThreadRuns
<1> QED
  BY <1>1, SchedInvariant, PTL

\* k_thread_abort() takes a thread off every queue of the kernel for good.
THEOREM DeadStaysOffQueues == Spec /\ []Careful => []DeadOffQueues
<1>1. SchedInv => DeadOffQueues
  <2> SUFFICES ASSUME SchedInv, NEW t \in Thread, "DEAD" \in k.st[t]
               PROVE  /\ t \notin ToSet(k.runq)
                      /\ \A w \in WaitQ : t \notin ToSet(k.waitq[w])
                      /\ k.tmo[t] = "INACTIVE"
    BY DEF DeadOffQueues, Has
  <2>1. RunQOk(k) /\ WaitQOk(k) /\ DeadOk(k)
    BY DEF SchedInv, Inv
  <2>2. ~IsReady(k, t)
    BY KernelAssumption DEF IsReady, Stopped
  <2>3. "PENDING" \notin k.st[t] /\ k.tmo[t] = "INACTIVE"
    BY <2>1 DEF DeadOk
  <2> QED
    BY <2>1, <2>2, <2>3 DEF RunQOk, WaitQOk
<1> QED
  BY <1>1, SchedInvariant, PTL

-----------------------------------------------------------------------------
(***************************************************************************)
(* A thread that may not be preempted keeps the processor.                 *)
(***************************************************************************)

\* The current thread t is the one to run next and may not be preempted.
Holds(x, t) ==
  x \in KernelState /\ x.cur = t /\ x.cache = t /\ IsReady(x, t) /\ ~IsPreempt(x, t)

\* update_cache(0) leaves the processor to such a thread.
LEMMA HoldsReady ==
  ASSUME NEW x, NEW t \in Thread, Holds(x, t), NEW u \in Thread
  PROVE  ReadyThread(x, u).cache = t /\ ReadyThread(x, u).cur = t
<1> DEFINE q == PriqAdd(x.runq, u, x.prio)
           y == [x EXCEPT !.runq = q, !.st[u] = @ \cup {"QUEUED"}]
<1>1. ReadyThread(x, u) = IF IsReady(x, u) THEN UpdateCache(y, FALSE) ELSE x
  BY DEF ReadyThread, AddToReadyQ, Holds, KernelState
<1> HIDE DEF q
<1>2. y.cur = t /\ y.cache = t /\ IsReady(y, t) /\ ~IsPreempt(y, t)
  BY DEF Holds, KernelState, IsReady, IsPreempt, Stopped
<1>3. ~ShouldPreempt(y, FALSE)
  BY <1>2 DEF ShouldPreempt
<1>4. UpdateCache(y, FALSE).cache = t /\ UpdateCache(y, FALSE).cur = t
  BY <1>2, <1>3 DEF Holds, KernelState, UpdateCache
<1> QED
  BY <1>1, <1>4 DEF Holds

LEMMA HoldsRemove ==
  ASSUME NEW x, NEW t \in Thread, Holds(x, t), NEW u \in Thread \ {t}
  PROVE  RemoveFromReadyQ(x, u).cache = t /\ RemoveFromReadyQ(x, u).cur = t
<1> DEFINE q == PriqRemove(x.runq, u)
           y == [x EXCEPT !.runq = q, !.st[u] = @ \ {"QUEUED"}]
<1>1. RemoveFromReadyQ(x, u) = IF "QUEUED" \in x.st[u] THEN UpdateCache(y, u = x.cur) ELSE x
  <2>1. y = [x EXCEPT !.runq = PriqRemove(@, u), !.st[u] = @ \ {"QUEUED"}]
    BY DEF Holds, KernelState
  <2> HIDE DEF y
  <2> QED
    BY <2>1 DEF RemoveFromReadyQ
<1> HIDE DEF q
<1>2. y.cur = t /\ y.cache = t /\ IsReady(y, t) /\ ~IsPreempt(y, t)
  BY DEF Holds, KernelState, IsReady, IsPreempt, Stopped
<1>3. ~ShouldPreempt(y, u = x.cur)
  BY <1>2 DEF ShouldPreempt, Holds
<1>4. UpdateCache(y, u = x.cur).cache = t /\ UpdateCache(y, u = x.cur).cur = t
  BY <1>2, <1>3 DEF Holds, KernelState, UpdateCache
<1> QED
  BY <1>1, <1>4 DEF Holds

\* The end of a call or of an interrupt that leaves the processor to t.
LEMMA HoldsSwitch ==
  ASSUME NEW x, NEW t, x.cur = t, x.cache = t
  PROVE  /\ Reschedule(x).cache = t /\ IntExit(x).cache = t
         /\ Reschedule(x).cur = t /\ IntExit(x).cur = t
  BY DEF Reschedule, IntExit

\* Other threads' fields do not matter.
LEMMA HoldsTouch ==
  ASSUME NEW x, NEW t \in Thread, Holds(x, t), NEW u \in Thread \ {t},
         NEW S \in SUBSET Flag, NEW v \in Timeout
  PROVE  /\ Holds([x EXCEPT !.st[u] = S], t)
         /\ Holds([x EXCEPT !.tmo[u] = v], t)
         /\ Holds([x EXCEPT !.tmo[u] = v, !.st[u] = S], t)
         /\ \A p \in Prio, n \in Nat :
              Holds([x EXCEPT !.st[u] = S, !.prio[u] = p, !.locked[u] = n, !.tmo[u] = v], t)
<1> USE DEF Holds, KernelState, IsReady, IsPreempt
<1>1. Holds([x EXCEPT !.st[u] = S], t)
  OBVIOUS
<1>2. Holds([x EXCEPT !.tmo[u] = v], t)
  OBVIOUS
<1>3. Holds([x EXCEPT !.tmo[u] = v, !.st[u] = S], t)
  OBVIOUS
<1>4. ASSUME NEW p \in Prio, NEW n \in Nat
      PROVE  Holds([x EXCEPT !.st[u] = S, !.prio[u] = p, !.locked[u] = n, !.tmo[u] = v], t)
  OBVIOUS
<1> QED
  BY <1>1, <1>2, <1>3, <1>4

\* Threads that are not ready are not the current one.
LEMMA HoldsOther ==
  ASSUME NEW x, NEW t \in Thread, Holds(x, t), NEW u \in Thread,
         x.st[u] \cap Stopped # {} \/ x.tmo[u] # "INACTIVE"
  PROVE  u # t
  BY KernelAssumption DEF Holds, IsReady

LEMMA StartedHolds ==
  ASSUME NEW x, NEW t \in Thread, Holds(x, t), NEW u \in Thread
  PROVE  /\ "PRESTART" \in x.st[u] => Started(x, u).cache = t /\ Started(x, u).cur = t
         /\ "SUSPENDED" \in x.st[u] => Resumed(x, u).cache = t /\ Resumed(x, u).cur = t
         /\ Woken(x, u).cache = t /\ Woken(x, u).cur = t
<1>1. x \in KernelState /\ "INACTIVE" \in Timeout
  BY DEF Holds, Timeout
<1>2. ASSUME NEW flag \in {"PRESTART", "SUSPENDED"}, flag \in x.st[u]
      PROVE  Holds([x EXCEPT !.st[u] = @ \ {flag}], t)
  <2> DEFINE S == x.st[u] \ {flag}
  <2>1. u # t
    BY <1>2, HoldsOther DEF Stopped
  <2>2. S \in SUBSET Flag /\ [x EXCEPT !.st[u] = @ \ {flag}] = [x EXCEPT !.st[u] = S]
    BY <1>1 DEF KernelState
  <2> HIDE DEF S
  <2> QED
    BY <1>1, <2>1, <2>2, HoldsTouch
<1>3. CASE "PENDING" \in x.st[u] \/ x.tmo[u] = "INACTIVE"
  BY <1>2, <1>3, HoldsReady DEF Started, Resumed, Woken, Holds
<1>4. CASE ~("PENDING" \in x.st[u] \/ x.tmo[u] = "INACTIVE")
  <2>1. u # t
    BY <1>4, HoldsOther
  <2>2. x.st[u] \in SUBSET Flag
    BY <1>1 DEF KernelState
  <2>3. Holds([x EXCEPT !.tmo[u] = "INACTIVE"], t)
    BY <1>1, <2>1, <2>2, HoldsTouch
  <2> QED
    BY <1>2, <1>4, <2>3, HoldsReady DEF Started, Resumed, Woken, AbortThreadTimeout
<1> QED
  BY <1>3, <1>4

LEMMA UnpendHolds ==
  ASSUME NEW x, NEW t \in Thread, Holds(x, t), NEW u \in Thread \ {t}, Near(x, u),
         NEW y, y = UnpendNoTimeout(x, u)
  PROVE  Holds(y, t)
<1>1. y \in KernelState
  BY UnpendNear DEF Near, Away
<1> QED
  BY <1>1 DEF Holds, UnpendNoTimeout, KernelState, IsReady, IsPreempt

\* k_thread_suspend() and k_thread_abort() of another thread.
LEMMA AbortedHolds ==
  ASSUME NEW x, Inv(x), NEW t \in Thread, Holds(x, t), NEW u \in Thread \ {t}
  PROVE  Aborted(x, u).cache = t /\ Aborted(x, u).cur = t
<1>1. CASE IsReady(x, u)
  <2> DEFINE r == RemoveFromReadyQ(x, u)
  <2>1. r.cache = t /\ r.cur = t
    BY HoldsRemove
  <2>2. Near(r, u)
    BY <1>1, RemoveReady DEF Holds
  <2>3. Aborted(x, u) = [r EXCEPT !.st[u] = @ \cup {"DEAD"}]
    BY <1>1 DEF Aborted
  <2> HIDE DEF r
  <2> QED
    BY <2>1, <2>2, <2>3 DEF Near, Away, KernelState
<1>2. CASE ~IsReady(x, u)
  BY <1>2 DEF Aborted, Unpend, UnpendNoTimeout, AbortThreadTimeout, Holds, KernelState
<1> QED
  BY <1>1, <1>2

LEMMA SuspendedHolds ==
  ASSUME Inv(k), NEW t \in Thread, Holds(k, t), NEW u \in Thread \ {t}
  PROVE  Suspended(u).cache = t /\ Suspended(u).cur = t
<1>1. CASE IsReady(k, u)
  <2> DEFINE r == RemoveFromReadyQ(k, u)
  <2>1. r.cache = t /\ r.cur = t
    BY HoldsRemove
  <2>2. Near(r, u)
    BY <1>1, RemoveReady DEF Holds
  <2>3. Suspended(u) = [r EXCEPT !.st[u] = @ \cup {"SUSPENDED"}]
    BY <1>1 DEF Suspended
  <2> HIDE DEF r
  <2> QED
    BY <2>1, <2>2, <2>3 DEF Near, Away, KernelState
<1>2. CASE ~IsReady(k, u)
  BY <1>2 DEF Suspended, Holds, KernelState
<1> QED
  BY <1>1, <1>2

\* A thread that suspends or aborts itself, or goes to sleep, is not ready.
LEMMA StopsItself ==
  ASSUME Inv(k), NEW t \in Thread, k.cur = t
  PROVE  /\ ~IsReady(Swap(Suspended(t)), t)
         /\ ~IsReady(Swap(Aborted(k, t)), t)
         /\ ~IsReady(Swap(AddThreadTimeout(RemoveFromReadyQ(k, t), t)), t)
<1> DEFINE r == RemoveFromReadyQ(k, t)
<1>1. IsReady(k, t)
  BY DEF Inv
<1>2. r \in KernelState
  BY <1>1, RemoveReady DEF Off, Away
<1>3. Suspended(t) = [r EXCEPT !.st[t] = @ \cup {"SUSPENDED"}]
  BY <1>1 DEF Suspended
<1>4. Aborted(k, t) = [r EXCEPT !.st[t] = @ \cup {"DEAD"}]
  BY <1>1 DEF Aborted
<1> HIDE DEF r
<1>5. /\ "SUSPENDED" \in Swap(Suspended(t)).st[t]
      /\ "DEAD" \in Swap(Aborted(k, t)).st[t]
      /\ Swap(AddThreadTimeout(r, t)).tmo[t] = "ACTIVE"
  BY <1>2, <1>3, <1>4 DEF Swap, AddThreadTimeout, KernelState
<1> QED
  BY <1>5, KernelAssumption DEF IsReady, Stopped, r

\* The clock interrupt begins.
LEMMA TickStartHolds ==
  ASSUME NEW x, TickStart(x), NEW t \in Thread, Holds(x, t)
  PROVE  k'.cache = t /\ k'.cur = t
  BY DEF TickStart, Dequeued, Holds, KernelState

\* The clock interrupt.
LEMMA TickHolds ==
  ASSUME SchedInv, Careful, Tick, NEW t \in Thread, Holds(k, t)
  PROVE  k'.cache = t /\ k'.cur = t
<1>1. k \in KernelState /\ Inv(k)
  BY DEF SchedInv, Inv
<1>2. CASE TickStart(k)
  BY <1>2, TickStartHolds
<1>3. CASE TickEnd
  <2>1. ~IsTimeSlicing(k.cur)
    BY DEF IsTimeSlicing, Holds
  <2>2. k' = IntExit([k EXCEPT !.tick = FALSE])
    BY <1>3, <2>1 DEF TickEnd
  <2> QED
    BY <1>1, <2>2 DEF IntExit, Holds, KernelState
<1>4. ASSUME NEW u \in Thread, TickExpire(u)
      PROVE  k'.cache = t /\ k'.cur = t
  <2> DEFINE a == [k EXCEPT !.tmo[u] = "INACTIVE"]
             b == UnpendNoTimeout(a, u)
             S == b.st[u] \ {"PRESTART"}
             c == [b EXCEPT !.st[u] = S]
             h == ReadyThread([b EXCEPT !.st[u] = @ \ {"PRESTART"}], u)
  <2>1. k.tmo[u] = "EXPIRED" /\ "INACTIVE" \in Timeout /\ {} \in SUBSET Flag
    BY <1>4, KernelAssumption DEF TickExpire, Timeout, Careful
  <2>2. u # t
    BY <2>1, HoldsOther
  <2>3. Holds(a, t)
    BY <2>1, <2>2, HoldsTouch
  <2>4. Near(a, u)
    <3>1. ~IsReady(k, u)
      BY <2>1, KernelAssumption DEF IsReady
    <3>2. Near(k, u) /\ DeadOk(k)
      BY <1>1, <3>1, StoppedIsNear DEF SchedInv
    <3> QED
      BY <2>1, <3>2, Retime
  <2>5. k' = [h EXCEPT !.expiring = Idle]
    BY <1>4 DEF TickExpire, HandleExpired
  <2> HIDE DEF a
  <2>6. Holds(b, t)
    BY <2>2, <2>3, <2>4, UnpendHolds
  <2> HIDE DEF b
  <2>7. S \in SUBSET Flag /\ h = ReadyThread(c, u)
    BY <2>6 DEF Holds, KernelState
  <2> HIDE DEF S, h
  <2>8. Holds(c, t)
    BY <2>1, <2>2, <2>6, <2>7, HoldsTouch
  <2> HIDE DEF c
  <2>9. h.cache = t /\ h.cur = t
    BY <2>7, <2>8, HoldsReady
  <2> QED
    BY <2>5, <2>9
<1>5. CASE TickDequeue \/ \E u \in Thread : TickPick(u)
  BY <1>1, <1>5 DEF TickDequeue, TickPick, Dequeued, Holds, KernelState
<1> QED
  BY <1>2, <1>3, <1>4, <1>5 DEF Tick

\* An interrupt leaves the processor to such a thread, or terminates it.
LEMMA InterruptHolds ==
  ASSUME NEW x, Inv(x), DeadOk(x), Careful, Interrupt(x), NEW t \in Thread, Holds(x, t)
  PROVE  k'.cache = t \/ ~IsReady(k', t)
<1>1. PICK u \in Thread : IsrResume(x, u) \/ IsrWakeup(x, u) \/ IsrAbort(x, u)
  BY DEF Interrupt
<1>2. CASE IsrResume(x, u)
  BY <1>2, StartedHolds, HoldsSwitch DEF IsrResume, Careful
<1>3. CASE IsrWakeup(x, u)
  BY <1>3, StartedHolds, HoldsSwitch DEF IsrWakeup
<1>4. CASE IsrAbort(x, u) /\ u # t
  BY <1>4, AbortedHolds, HoldsSwitch DEF IsrAbort
<1>5. CASE IsrAbort(x, u) /\ u = t
  <2>1. "DEAD" \in Aborted(x, t).st[t] /\ Aborted(x, t) \in KernelState
    BY AbortSelfInv DEF Holds
  <2>2. k'.st = Aborted(x, t).st
    BY <1>5, <2>1 DEF IsrAbort, IntExit, KernelState
  <2> QED
    BY <2>1, <2>2, KernelAssumption DEF IsReady, Stopped
<1> QED
  BY <1>1, <1>2, <1>3, <1>4, <1>5

LEMMA ThreadCreateHolds ==
  ASSUME NEW t \in Thread, NEW u \in Thread, NEW p \in Prio,
         NEW delay \in {"forever", "zero", "ticks"}, Holds(k, t), ThreadCreate(t, u, p, delay)
  PROVE  k'.cache = t
<1> DEFINE new == [k EXCEPT !.st[u] = {"PRESTART"}, !.prio[u] = p,
                            !.locked[u] = 0, !.tmo[u] = "INACTIVE"]
<1>1. u # t
  BY HoldsOther DEF ThreadCreate, Has, Stopped
<1>2. Holds(new, t)
  <2>1. {"PRESTART"} \in SUBSET Flag /\ "INACTIVE" \in Timeout /\ 0 \in Nat
    BY DEF Flag, Timeout
  <2> QED
    BY <1>1, <2>1, HoldsTouch
<1>3. "PRESTART" \in new.st[u]
  BY DEF Holds, KernelState
<1>4. k' \in {new, Reschedule(Started(new, u)), AddThreadTimeout(new, u)}
  BY DEF ThreadCreate
<1> HIDE DEF new
<1>5. Reschedule(Started(new, u)).cache = t
  BY <1>2, <1>3, StartedHolds, HoldsSwitch
<1>6. new.cache = t /\ AddThreadTimeout(new, u).cache = t
  BY <1>2 DEF Holds, AddThreadTimeout, KernelState
<1> QED
  BY <1>4, <1>5, <1>6

\* The calls that do not reschedule whatever the current thread is.
LEMMA CallHolds ==
  ASSUME SchedInv, Careful, NEW t \in Thread, Call(t), Holds(k, t)
  PROVE  \/ k'.cache = t \/ ~IsReady(k', t)
         \/ Yield(t) \/ UnlockSched(t)
         \/ \E u \in Thread, p \in Prio : ThreadPrioritySet(t, u, p)
<1>1. k \in KernelState /\ Inv(k) /\ k.cur = t
  BY DEF SchedInv, Inv, Holds
<1>2. CASE Sleep(t)
  BY <1>1, <1>2, StopsItself DEF Sleep
<1>3. CASE LockSched(t)
  BY <1>1, <1>3 DEF LockSched, SchedLock, Holds, KernelState
<1>4. ASSUME NEW u \in Thread, ThreadStart(t, u) PROVE k'.cache = t
  BY <1>4, StartedHolds, HoldsSwitch DEF ThreadStart, Has
<1>5. ASSUME NEW u \in Thread, ThreadCancel(t, u) PROVE k'.cache = t
  BY <1>1, <1>5 DEF ThreadCancel, AbortThreadTimeout, Holds, KernelState
<1>6. ASSUME NEW u \in Thread, ThreadSuspend(t, u) PROVE k'.cache = t \/ ~IsReady(k', t)
  BY <1>1, <1>6, StopsItself, SuspendedHolds DEF ThreadSuspend
<1>7. ASSUME NEW u \in Thread, ThreadResume(t, u) PROVE k'.cache = t
  BY <1>7, StartedHolds, HoldsSwitch DEF ThreadResume, Has, Careful
<1>8. ASSUME NEW u \in Thread, ThreadAbort(t, u) PROVE k'.cache = t \/ ~IsReady(k', t)
  BY <1>1, <1>8, StopsItself, AbortedHolds, HoldsSwitch DEF ThreadAbort
<1>9. ASSUME NEW u \in Thread, Wakeup(t, u) PROVE k'.cache = t
  BY <1>9, StartedHolds, HoldsSwitch DEF Wakeup
<1> QED
  BY <1>2, <1>3, <1>4, <1>5, <1>6, <1>7, <1>8, <1>9, ThreadCreateHolds DEF Call

\* These calls do not change the current thread before they switch.
LEMMA BetweenCurrent ==
  ASSUME Inv(k), NEW t \in Thread, Running(t), NEW x \in Between(t)
  PROVE  x.cur = t
<1>1. k \in KernelState /\ k.cur = t
  BY DEF Inv, Running
<1>2. Yielded(k).cur = t /\ Unlocked(k).cur = t
  BY <1>1 DEF Yielded, Unlocked, UpdateCache, KernelState
<1>3. ASSUME NEW u \in Thread, NEW p \in Prio
      PROVE  Reprioritized(k, u, p).cur = t
  BY <1>1 DEF Reprioritized, UpdateCache, KernelState
<1> QED
  BY <1>2, <1>3 DEF Between

\* A thread that may not be preempted loses the processor only in calls of its
\* own, whatever becomes ready, times out or is terminated meanwhile.
THEOREM NonPreemptibleRuns == Spec /\ []Careful => NonPreemptibleKeepsCpu
<1>1. ASSUME SchedInv, Careful, [Next]_k
      PROVE  [KeepsCpu]_k
  <2> SUFFICES ASSUME Next, ~IsPreempt(k, k.cur), k.cache = k.cur, k'.cache # k.cur,
                      IsReady(k', k.cur)
               PROVE  \/ Yield(k.cur) \/ UnlockSched(k.cur)
                      \/ \E u \in Thread, p \in Prio : ThreadPrioritySet(k.cur, u, p)
                      \/ InterruptedGivingUp(k.cur)
    BY <1>1 DEF KeepsCpu
  <2>1. k.cur \in Thread /\ Holds(k, k.cur) /\ Inv(k) /\ DeadOk(k)
    BY <1>1 DEF SchedInv, Inv, Holds, KernelState, IsPreempt
  <2>2. ~Tick /\ ~Interrupt(k)
    BY <1>1, <2>1, TickHolds, InterruptHolds
  <2>3. PICK t \in Thread : Call(t) \/ InterruptedCall(t)
    BY <2>2 DEF Next
  <2>4. t = k.cur
    BY <2>3 DEF Call, InterruptedCall, Yield, Sleep, LockSched, UnlockSched, ThreadStart,
       ThreadCancel, ThreadSuspend, ThreadResume, ThreadAbort, Wakeup, ThreadPrioritySet,
       ThreadCreate, Running
  <2>5. CASE InterruptedCall(t)
    <3>1. PICK x \in Between(t) : Interrupt(x) \/ TickStart(x)
      BY <2>5 DEF InterruptedCall
    <3>2. Inv(x) /\ DeadOk(x) /\ x.cur = t
      BY <1>1, <2>1, <2>4, <2>5, BetweenInv, BetweenCurrent DEF InterruptedCall
    <3>3. CASE x.cache # t \/ IsPreempt(x, t)
      BY <2>4, <2>5, <3>1, <3>3 DEF InterruptedGivingUp, InterruptedCall
    <3>4. CASE x.cache = t /\ ~IsPreempt(x, t)
      <4>1. Holds(x, t)
        BY <3>2, <3>4 DEF Holds, Inv
      <4> QED
        BY <1>1, <2>4, <3>1, <3>2, <4>1, InterruptHolds, TickStartHolds
    <3> QED
      BY <3>3, <3>4
  <2>6. CASE Call(t)
    BY <1>1, <2>1, <2>4, <2>6, CallHolds
  <2> QED
    BY <2>3, <2>5, <2>6
<1> QED
  BY <1>1, SchedInvariant, PTL DEF Spec, NonPreemptibleKeepsCpu

-----------------------------------------------------------------------------
(***************************************************************************)
(* Waiting: what the scheduler's operators do to the threads on the wait   *)
(* queues, to their order and to what their _Swap() returns.  The proofs   *)
(* about kernel objects rest on these lemmas.                              *)
(***************************************************************************)

Waits(x, t) == "PENDING" \in x.st[t]

\* From x to y no wait begins or ends.
WaitsKept(x, y) ==
  /\ y.waitq = x.waitq /\ y.prio = x.prio
  /\ \A t \in Thread : Waits(y, t) <=> Waits(x, t)

\* The wait of thread u, if there is one, ends, and no other.
WaitEnded(x, y, u) ==
  /\ y.prio = x.prio
  /\ y.waitq = [w \in WaitQ |-> PriqRemove(x.waitq[w], u)]
  /\ \A t \in Thread : Waits(y, t) <=> t # u /\ Waits(x, t)

\* Thread u begins to wait on w.
WaitBegun(x, y, u, w) ==
  /\ y.prio = x.prio
  /\ y.waitq = [x.waitq EXCEPT ![w] = PriqAdd(x.waitq[w], u, x.prio)]
  /\ \A t \in Thread : Waits(y, t) <=> t = u \/ Waits(x, t)

\* Nobody's return value changes but that of c.
RetKept(x, y, c) == \A t \in Thread : t # c => y.ret[t] = x.ret[t]

-----------------------------------------------------------------------------
(***************************************************************************)
(* The order of a wait queue.                                              *)
(***************************************************************************)

Precedes(q, u, v) == \E i, j \in 1 .. Len(q) : i < j /\ q[i] = u /\ q[j] = v

\* Where _priq_dumb_add() puts a thread.
LEMMA PriqAddIndexed ==
  ASSUME NEW q \in Seq(Thread), NEW t \in Thread, NEW prio \in [Thread -> Int]
  PROVE  \E p \in 1 .. Len(q) + 1 :
           /\ InsertedAt(PriqAdd(q, t, prio), q, p, t)
           /\ \A i \in 1 .. Len(q) : i < p => prio[q[i]] <= prio[t]
           /\ p <= Len(q) => prio[t] < prio[q[p]]
<1> DEFINE n == Len(q)
           S == {i \in 1 .. n : prio[t] < prio[q[i]]} \cup {n + 1}
           p == Min(S)
<1>1. n \in Nat /\ \A i \in 1 .. n : q[i] \in Thread /\ prio[q[i]] \in Int
  BY ToSetIndexed
<1>2. p \in S /\ \A y \in S : p <= y
  <2>1. S \in SUBSET Nat /\ S # {}
    BY <1>1
  <2> QED
    BY <2>1, MinIsLeast
<1>3. PriqAdd(q, t, prio) = InsertAt(q, p, t)
  BY DEF PriqAdd
<1> HIDE DEF p
<1>4. p \in 1 .. n + 1
  BY <1>1, <1>2
<1>5. \A i \in 1 .. n : i < p => prio[q[i]] <= prio[t]
  BY <1>1, <1>2
<1>6. p <= n => prio[t] < prio[q[p]]
  BY <1>1, <1>2
<1> HIDE DEF S
<1>7. InsertedAt(InsertAt(q, p, t), q, p, t)
  <2>1. p \in Nat /\ 1 <= p /\ p <= Len(q) + 1
    BY <1>1, <1>4
  <2> QED
    BY <2>1, InsertAtIndexed
<1> QED
  BY <1>3, <1>4, <1>5, <1>6, <1>7

\* A thread comes behind all that are not lower and before all that are.
LEMMA PriqAddOrder ==
  ASSUME NEW q \in Seq(Thread), NEW t \in Thread, NEW prio \in [Thread -> Int],
         Sorted(q, prio), NEW u, NEW v, Precedes(PriqAdd(q, t, prio), u, v)
  PROVE  \/ Precedes(q, u, v)
         \/ v = t /\ u \in ToSet(q) /\ prio[u] <= prio[t]
         \/ u = t /\ v \in ToSet(q) /\ prio[t] < prio[v]
<1> DEFINE n == Len(q)
           r == PriqAdd(q, t, prio)
<1>1. PICK p \in 1 .. n + 1 : /\ InsertedAt(r, q, p, t)
                              /\ \A i \in 1 .. n : i < p => prio[q[i]] <= prio[t]
                              /\ p <= n => prio[t] < prio[q[p]]
  BY PriqAddIndexed
<1>2. /\ Len(r) = n + 1
      /\ \A i \in 1 .. n + 1 : r[i] = IF i < p THEN q[i] ELSE IF i = p THEN t ELSE q[i - 1]
  BY <1>1 DEF InsertedAt
<1>3. /\ n \in Nat /\ \A i \in 1 .. n : q[i] \in Thread /\ q[i] \in ToSet(q)
      /\ prio[t] \in Int /\ \A i \in 1 .. n : prio[q[i]] \in Int
  BY ToSetIndexed
<1>4. \A i, j \in 1 .. n : i < j => prio[q[i]] <= prio[q[j]]
  BY DEF Sorted
<1> HIDE DEF r
<1>5. PICK i \in 1 .. n + 1, j \in 1 .. n + 1 : i < j /\ r[i] = u /\ r[j] = v
  BY <1>2 DEF Precedes, r
<1>6. \A a, b \in 1 .. n : a < b => Precedes(q, q[a], q[b])
  BY DEF Precedes
<1> HIDE DEF n
<1>7. CASE j < p
  BY <1>1, <1>2, <1>3, <1>5, <1>6, <1>7
<1>8. CASE j = p
  BY <1>1, <1>2, <1>3, <1>5, <1>8
<1>9. CASE j > p
  <2>1. j - 1 \in 1 .. n /\ v = q[j - 1]
    BY <1>1, <1>2, <1>3, <1>5, <1>9
  <2>2. CASE i < p
    <3>1. i \in 1 .. n /\ i < j - 1 /\ u = q[i]
      BY <1>1, <1>2, <1>3, <1>5, <1>9, <2>2
    <3> QED
      BY <1>6, <2>1, <3>1
  <2>3. CASE i = p
    <3>1. u = t
      BY <1>1, <1>2, <2>3, <1>5
    <3>2. p <= j - 1 /\ p \in 1 .. n
      BY <1>3, <1>9, <2>1
    <3> DEFINE m == j - 1
    <3>5. m \in 1 .. n /\ p <= m
      BY <2>1, <3>2
    <3> HIDE DEF m
    <3>6. prio[q[p]] <= prio[q[m]]
      BY <1>3, <1>4, <3>2, <3>5
    <3>3. prio[t] < prio[q[p]] /\ v = q[m]
      BY <1>1, <1>3, <2>1, <3>2 DEF m
    <3>4. prio[t] < prio[q[m]]
      BY <1>3, <3>2, <3>3, <3>5, <3>6
    <3> QED
      BY <1>3, <3>1, <3>3, <3>4, <3>5
  <2>4. CASE i > p
    <3>1. i - 1 \in 1 .. n /\ i - 1 < j - 1 /\ ~(i < p) /\ i # p
      BY <1>1, <1>3, <1>5, <2>1, <2>4
    <3>2. u = q[i - 1]
      BY <1>2, <1>5, <3>1
    <3> QED
      BY <1>6, <2>1, <3>1, <3>2
  <2> QED
    BY <1>1, <2>2, <2>3, <2>4
<1> QED
  BY <1>1, <1>7, <1>8, <1>9

\* Taking a thread out leaves the others in their order.
LEMMA PriqRemoveOrder ==
  ASSUME NEW q \in Seq(Thread), NEW t \in Thread, NEW u, NEW v,
         Precedes(PriqRemove(q, t), u, v)
  PROVE  Precedes(q, u, v)
<1>1. CASE t \notin ToSet(q)
  BY <1>1 DEF PriqRemove
<1>2. CASE t \in ToSet(q)
  <2> DEFINE n == Len(q)
             p == CHOOSE i \in 1 .. Len(q) : q[i] = t
             r == PriqRemove(q, t)
  <2>1. n \in Nat /\ p \in 1 .. n
    BY <1>2, ToSetIndexed
  <2>2. r = RemoveAt(q, p)
    BY <1>2 DEF PriqRemove
  <2> HIDE DEF p, r
  <2>3. /\ Len(r) = n - 1
        /\ \A i \in 1 .. n - 1 : r[i] = IF i < p THEN q[i] ELSE q[i + 1]
    BY <2>1, <2>2, RemoveAtIndexed
  <2>4. PICK i \in 1 .. n - 1, j \in 1 .. n - 1 : i < j /\ r[i] = u /\ r[j] = v
    BY <2>3 DEF Precedes, r
  <2> DEFINE a == IF i < p THEN i ELSE i + 1
             b == IF j < p THEN j ELSE j + 1
  <2>5. a \in 1 .. n /\ b \in 1 .. n /\ a < b /\ q[a] = u /\ q[b] = v
    BY <2>1, <2>3, <2>4
  <2> QED
    BY <2>5 DEF Precedes
<1> QED
  BY <1>1, <1>2

\* The first precedes the others.
LEMMA FirstPrecedes ==
  ASSUME NEW q \in Seq(Thread), q # <<>>, NEW u \in ToSet(q), u # q[1]
  PROVE  Precedes(q, q[1], u)
<1>1. PICK i \in 1 .. Len(q) : q[i] = u
  BY ToSetIndexed
<1>2. 1 \in 1 .. Len(q) /\ 1 < i
  BY <1>1
<1> QED
  BY <1>1, <1>2 DEF Precedes

-----------------------------------------------------------------------------
\* The operators that only move threads between run queue and processor.
LEMMA WaitsMovers ==
  ASSUME NEW x \in KernelState, NEW t \in Thread, NEW ok \in BOOLEAN
  PROVE  /\ WaitsKept(x, UpdateCache(x, ok)) /\ UpdateCache(x, ok).ret = x.ret
         /\ WaitsKept(x, ReadyThread(x, t)) /\ ReadyThread(x, t).ret = x.ret
         /\ WaitsKept(x, RemoveFromReadyQ(x, t)) /\ RemoveFromReadyQ(x, t).ret = x.ret
<1>1. WaitsKept(x, UpdateCache(x, ok)) /\ UpdateCache(x, ok).ret = x.ret
  BY DEF WaitsKept, Waits, UpdateCache, KernelState
<1>2. WaitsKept(x, ReadyThread(x, t)) /\ ReadyThread(x, t).ret = x.ret
  BY DEF WaitsKept, Waits, ReadyThread, AddToReadyQ, UpdateCache, KernelState
<1>3. WaitsKept(x, RemoveFromReadyQ(x, t)) /\ RemoveFromReadyQ(x, t).ret = x.ret
  BY DEF WaitsKept, Waits, RemoveFromReadyQ, UpdateCache, KernelState
<1> QED
  BY <1>1, <1>2, <1>3

\* The switches.
LEMMA WaitsSwitches ==
  ASSUME NEW x \in KernelState
  PROVE  /\ WaitsKept(x, Swap(x)) /\ RetKept(x, Swap(x), x.cur)
         /\ WaitsKept(x, Reschedule(x)) /\ RetKept(x, Reschedule(x), x.cur)
         /\ WaitsKept(x, IntExit(x)) /\ IntExit(x).ret = x.ret
         /\ \A isr \in BOOLEAN : WaitsKept(x, Leave(isr, x)) /\ RetKept(x, Leave(isr, x), x.cur)
         /\ x.cur \in Thread => Swap(x).ret[x.cur] = "EAGAIN"
<1>1. WaitsKept(x, Swap(x)) /\ RetKept(x, Swap(x), x.cur)
  BY DEF WaitsKept, RetKept, Waits, Swap, KernelState
<1>2. WaitsKept(x, Reschedule(x)) /\ RetKept(x, Reschedule(x), x.cur)
  BY <1>1 DEF WaitsKept, RetKept, Reschedule
<1>3. WaitsKept(x, IntExit(x)) /\ IntExit(x).ret = x.ret
  BY DEF WaitsKept, Waits, IntExit, KernelState
<1>4. \A isr \in BOOLEAN : WaitsKept(x, Leave(isr, x)) /\ RetKept(x, Leave(isr, x), x.cur)
  BY <1>2, <1>3 DEF RetKept, Leave
<1>5. x.cur \in Thread => Swap(x).ret[x.cur] = "EAGAIN"
  BY KernelAssumption DEF Swap, KernelState
<1> QED
  BY <1>1, <1>2, <1>3, <1>4, <1>5

\* Composition.
LEMMA WaitsTrans ==
  ASSUME NEW x, NEW y, NEW z, NEW u, NEW w, NEW c
  PROVE  /\ WaitsKept(x, y) /\ WaitsKept(y, z) => WaitsKept(x, z)
         /\ WaitEnded(x, y, u) /\ WaitsKept(y, z) => WaitEnded(x, z, u)
         /\ WaitsKept(x, y) /\ WaitEnded(y, z, u) => WaitEnded(x, z, u)
         /\ WaitBegun(x, y, u, w) /\ WaitsKept(y, z) => WaitBegun(x, z, u, w)
         /\ WaitsKept(x, y) /\ WaitBegun(y, z, u, w) => WaitBegun(x, z, u, w)
         /\ RetKept(x, y, c) /\ RetKept(y, z, c) => RetKept(x, z, c)
  BY DEF WaitsKept, WaitEnded, WaitBegun, RetKept

-----------------------------------------------------------------------------
(***************************************************************************)
(* Ending a wait.                                                          *)
(***************************************************************************)

\* _unpend_thread() of a thread that is not ready.
LEMMA UnpendStep ==
  ASSUME NEW x, NEW u \in Thread, Inv(x), DeadOk(x), ~IsReady(x, u), NEW y, y = Unpend(x, u)
  PROVE  /\ Near(y, u) /\ DeadOk(y) /\ WaitEnded(x, y, u)
         /\ y.cur = x.cur /\ y.tick = x.tick /\ y.ret = x.ret /\ y.tmo[u] = "INACTIVE"
         /\ y.st[u] = x.st[u] \ {"PENDING"}
<1> DEFINE z == UnpendNoTimeout(x, u)
<1>1. Near(x, u) /\ x \in KernelState
  BY StoppedIsNear DEF Inv
<1>2. /\ Near(z, u) /\ z.tick = x.tick /\ z.cur = x.cur
      /\ z.st[u] = x.st[u] \ {"PENDING"} /\ z.tmo = x.tmo
  BY <1>1, UnpendNear
<1>3. z \in KernelState
  BY <1>2 DEF Near, Away
<1>4. WaitEnded(x, z, u) /\ z.ret = x.ret
      /\ \A t \in Thread : z.st[t] = IF t = u THEN x.st[u] \ {"PENDING"} ELSE x.st[t]
  BY <1>1 DEF WaitEnded, Waits, UnpendNoTimeout, KernelState
<1>5. y = [z EXCEPT !.tmo[u] = "INACTIVE"]
  BY DEF Unpend, AbortThreadTimeout
<1> HIDE DEF z
<1>6. DeadOk(z)
  BY <1>2, <1>4 DEF DeadOk
<1>7. Near(y, u) /\ DeadOk(y) /\ y.tmo[u] = "INACTIVE" /\ y.st = z.st
  <2>1. "INACTIVE" \in Timeout
    BY DEF Timeout
  <2>2. /\ Near([z EXCEPT !.tmo[u] = "INACTIVE"], u) /\ DeadOk([z EXCEPT !.tmo[u] = "INACTIVE"])
        /\ [z EXCEPT !.tmo[u] = "INACTIVE"].tmo[u] = "INACTIVE"
        /\ [z EXCEPT !.tmo[u] = "INACTIVE"].st = z.st
    BY <1>2, <1>6, <2>1, Retime
  <2> QED
    BY <1>5, <2>2
<1>8. WaitsKept(z, y) /\ y.ret = z.ret /\ y.cur = z.cur /\ y.tick = z.tick
  BY <1>3, <1>5 DEF WaitsKept, Waits, KernelState
<1>9. WaitEnded(x, y, u)
  BY <1>4, <1>8, WaitsTrans
<1> QED
  BY <1>2, <1>4, <1>7, <1>8, <1>9

\* The first thread of a wait queue.
LEMMA WaiterType ==
  ASSUME NEW x, Inv(x), NEW w \in WaitQ, HasWaiter(x, w), NEW t, t = Waiter(x, w)
  PROVE  /\ t \in Thread /\ t \in ToSet(x.waitq[w]) /\ Waits(x, t) /\ ~IsReady(x, t)
         /\ t # x.cur /\ t = x.waitq[w][1] /\ 1 \in 1 .. Len(x.waitq[w])
<1>1. x \in KernelState /\ WaitQOk(x) /\ IsReady(x, x.cur)
  BY DEF Inv
<1>2. x.waitq[w] \in Seq(Thread) /\ x.waitq[w] # <<>>
  BY <1>1 DEF KernelState, HasWaiter
<1>3. t = x.waitq[w][1] /\ 1 \in 1 .. Len(x.waitq[w])
  BY <1>2 DEF Waiter
<1>4. t \in ToSet(x.waitq[w]) /\ t \in Thread
  BY <1>2, <1>3, ToSetIndexed
<1>5. Waits(x, t)
  BY <1>1, <1>4 DEF WaitQOk, Waits
<1>6. ~IsReady(x, t)
  BY <1>4, <1>5, KernelAssumption DEF IsReady, Stopped, Waits
<1> QED
  BY <1>1, <1>3, <1>4, <1>5, <1>6

\* A call that hands something to the first waiter, before it reschedules.
LEMMA WakeFirstStep ==
  ASSUME NEW x, Inv(x), DeadOk(x), NEW w \in WaitQ, HasWaiter(x, w),
         NEW value \in SwapValue, NEW y, y = WakeFirst(x, w, value)
  PROVE  /\ Inv(y) /\ DeadOk(y) /\ WaitEnded(x, y, Waiter(x, w))
         /\ y.cur = x.cur /\ y.tick = x.tick
         /\ y.ret = [x.ret EXCEPT ![Waiter(x, w)] = value]
<1> DEFINE t == Waiter(x, w)
           z == Unpend(x, t)
           r == ReadyThread(z, t)
<1>1. t \in Thread /\ ~IsReady(x, t) /\ x \in KernelState
  BY WaiterType DEF Inv
<1>2. y = [r EXCEPT !.ret[t] = value]
  BY DEF WakeFirst
<1> HIDE DEF t
<1>3. Near(z, t) /\ DeadOk(z) /\ WaitEnded(x, z, t)
        /\ z.cur = x.cur /\ z.tick = x.tick /\ z.ret = x.ret
  BY <1>1, UnpendStep
<1> HIDE DEF z
<1>4. z \in KernelState
  BY <1>3 DEF Near, Away
<1>5. Inv(r) /\ DeadOk(r) /\ r.cur = z.cur /\ r.tick = z.tick
  BY <1>1, <1>3, ReadyThreadInv, ReadyStep
<1>6. WaitsKept(z, r) /\ r.ret = z.ret
  BY <1>1, <1>4, WaitsMovers
<1> HIDE DEF r
<1>7. r \in KernelState
  BY <1>5 DEF Inv
<1> DEFINE ret == [x.ret EXCEPT ![t] = value]
<1>8. ret \in [Thread -> SwapValue]
  BY <1>1 DEF KernelState
<1>9. y = [r EXCEPT !.ret = ret, !.slice = r.slice, !.tick = r.tick]
  BY <1>2, <1>3, <1>6, <1>7 DEF KernelState
<1>10. y.ret = ret /\ y.cur = r.cur /\ y.tick = r.tick /\ WaitsKept(r, y)
        /\ y.st = r.st /\ y.tmo = r.tmo
  BY <1>7, <1>9 DEF WaitsKept, Waits, KernelState
<1>11. r.slice \in Nat /\ r.tick \in BOOLEAN
  BY <1>7 DEF KernelState
<1>12. Inv(y)
  <2> DEFINE s == r.slice
             b == r.tick
  <2>1. s \in Nat /\ b \in BOOLEAN /\ y = [r EXCEPT !.ret = ret, !.slice = s, !.tick = b]
    BY <1>9, <1>11
  <2> HIDE DEF s, b, ret
  <2>2. Inv([r EXCEPT !.ret = ret, !.slice = s, !.tick = b])
    BY <1>5, <1>8, <2>1, OtherFields
  <2> QED
    BY <2>1, <2>2
<1>13. DeadOk(y)
  BY <1>5, <1>10 DEF DeadOk
<1>14. WaitEnded(x, y, t)
  <2>1. WaitEnded(x, r, t)
    BY <1>3, <1>6, WaitsTrans
  <2> QED
    BY <1>10, <2>1, WaitsTrans
<1> QED
  BY <1>3, <1>5, <1>10, <1>12, <1>13, <1>14 DEF t

-----------------------------------------------------------------------------
(***************************************************************************)
(* Beginning one.                                                          *)
(***************************************************************************)

\* Thread t, off the run queue, joins wait queue w; v is its timeout.
Joined(x, t, w, v) ==
  [x EXCEPT !.st[t] = @ \cup {"PENDING"}, !.tmo[t] = v,
            !.waitq[w] = PriqAdd(@, t, x.prio)]

\* pend() of the current thread.
LEMMA JoinOff ==
  ASSUME NEW x, NEW t \in Thread, Off(x, t), ~Waits(x, t), NEW w \in WaitQ,
         NEW v \in Timeout, NEW y, y = Joined(x, t, w, v)
  PROVE  Off(y, t) /\ ~IsReady(y, t) /\ WaitBegun(x, y, t, w) /\ y.ret = x.ret
           /\ y.cur = x.cur /\ y.tick = x.tick
<1> DEFINE q == PriqAdd(x.waitq[w], t, x.prio)
<1>1. x \in KernelState /\ WaitQOk(x) /\ x.prio \in [Thread -> Int]
  BY KernelAssumption DEF Off, Away, KernelState
<1>2. \A v1 \in WaitQ : x.waitq[v1] \in Seq(Thread) /\ NoDuplicates(x.waitq[v1])
                        /\ ToSet(x.waitq[v1]) \subseteq Thread /\ t \notin ToSet(x.waitq[v1])
  BY <1>1, ToSetIndexed DEF KernelState, WaitQOk, Waits
<1>3. q \in Seq(Thread) /\ ToSet(q) = ToSet(x.waitq[w]) \cup {t} /\ NoDuplicates(q)
  BY <1>1, <1>2, PriqAddProperties
<1> DEFINE st2  == [x.st EXCEPT ![t] = @ \cup {"PENDING"}]
           tmo2 == [x.tmo EXCEPT ![t] = v]
           wq2  == [x.waitq EXCEPT ![w] = q]
<1>4. y = [x EXCEPT !.st = st2, !.tmo = tmo2, !.waitq = wq2]
  BY <1>1 DEF Joined, KernelState
<1>5. WaitBegun(x, y, t, w)
  BY <1>1, <1>4 DEF WaitBegun, Waits, KernelState
<1> HIDE DEF q
<1>13. /\ st2 \in [Thread -> SUBSET Flag] /\ tmo2 \in [Thread -> Timeout]
       /\ wq2 \in [WaitQ -> Seq(Thread)]
       /\ \A u \in Thread : st2[u] = IF u = t THEN x.st[t] \cup {"PENDING"} ELSE x.st[u]
       /\ \A u \in Thread \ {t} : tmo2[u] = x.tmo[u]
       /\ \A v1 \in WaitQ : wq2[v1] = IF v1 = w THEN q ELSE x.waitq[v1]
  BY <1>1, <1>3 DEF KernelState, Flag
<1> HIDE DEF st2, tmo2, wq2
<1>6. y \in KernelState
  BY <1>1, <1>4, <1>13 DEF KernelState
<1>7. /\ y.runq = x.runq /\ y.cur = x.cur /\ y.cache = x.cache /\ y.tick = x.tick
      /\ y.prio = x.prio /\ y.ret = x.ret
      /\ \A u \in Thread : y.st[u] = IF u = t THEN x.st[t] \cup {"PENDING"} ELSE x.st[u]
      /\ \A u \in Thread \ {t} : y.tmo[u] = x.tmo[u]
      /\ \A v1 \in WaitQ : y.waitq[v1] = IF v1 = w THEN q ELSE x.waitq[v1]
  BY <1>1, <1>4, <1>13 DEF KernelState
<1>8. WaitQOk(y)
  <2>1. \A v1 \in WaitQ : NoDuplicates(y.waitq[v1])
    BY <1>2, <1>3, <1>7
  <2>2. \A v1 \in WaitQ : ToSet(y.waitq[v1]) = ToSet(x.waitq[v1]) \cup (IF v1 = w THEN {t} ELSE {})
    BY <1>3, <1>7
  <2>3. \A v1 \in WaitQ : \A u \in ToSet(y.waitq[v1]) : "PENDING" \in y.st[u]
    <3> SUFFICES ASSUME NEW v1 \in WaitQ, NEW u \in ToSet(y.waitq[v1])
                 PROVE  "PENDING" \in y.st[u]
      OBVIOUS
    <3>1. u \in Thread /\ (u = t \/ u \in ToSet(x.waitq[v1]))
      BY <1>2, <2>2
    <3>2. u # t => "PENDING" \in x.st[u]
      BY <1>1, <3>1 DEF WaitQOk
    <3> QED
      BY <1>7, <3>1, <3>2
  <2>4. \A u \in Thread : "PENDING" \in y.st[u] => \E v1 \in WaitQ : u \in ToSet(y.waitq[v1])
    BY <1>1, <1>7, <2>2 DEF WaitQOk
  <2>5. \A v1, v2 \in WaitQ : v1 # v2 => ToSet(y.waitq[v1]) \cap ToSet(y.waitq[v2]) = {}
    <3> SUFFICES ASSUME NEW v1 \in WaitQ, NEW v2 \in WaitQ, v1 # v2,
                        NEW u \in ToSet(y.waitq[v1]), u \in ToSet(y.waitq[v2])
                 PROVE  FALSE
      OBVIOUS
    <3>1. u \in ToSet(x.waitq[v1]) \/ (v1 = w /\ u = t)
      BY <2>2
    <3>2. u \in ToSet(x.waitq[v2]) \/ (v2 = w /\ u = t)
      BY <2>2
    <3>3. u # t
      BY <1>2, <3>1, <3>2
    <3>4. ToSet(x.waitq[v1]) \cap ToSet(x.waitq[v2]) = {}
      BY <1>1 DEF WaitQOk
    <3> QED
      BY <3>1, <3>2, <3>3, <3>4
  <2> QED
    BY <2>1, <2>3, <2>4, <2>5 DEF WaitQOk
<1>9. \A u \in Thread \ {t} : IsReady(y, u) <=> IsReady(x, u)
  BY <1>7 DEF IsReady
<1>10. Away(y, t)
  BY <1>6, <1>7, <1>8, <1>9 DEF Off, Away
<1>11. Off(y, t)
  BY <1>7, <1>10 DEF Off, NextUp
<1>12. ~IsReady(y, t)
  BY <1>7, KernelAssumption DEF IsReady, Stopped
<1> QED
  BY <1>5, <1>7, <1>11, <1>12

\* _pend_current_thread().
LEMMA PendCurrentStep ==
  ASSUME NEW x, NEW t \in Thread, Inv(x), DeadOk(x), x.cur = t, NEW w \in WaitQ,
         NEW forever \in BOOLEAN, NEW y, y = PendCurrent(x, w, forever)
  PROVE  /\ Inv(y) /\ DeadOk(y) /\ y.cur = y.cache /\ y.tick = x.tick
         /\ WaitBegun(x, y, t, w) /\ RetKept(x, y, t) /\ y.ret[t] = "EAGAIN"
<1> DEFINE a == RemoveFromReadyQ(x, t)
           v == IF forever THEN a.tmo[t] ELSE "ACTIVE"
           b == Joined(a, t, w, v)
<1>1. x \in KernelState /\ IsReady(x, t)
  BY DEF Inv
<1>2. /\ Off(a, t) /\ a.cur = x.cur /\ a.tick = x.tick /\ a.tmo = x.tmo /\ a.prio = x.prio
      /\ a.st[t] = x.st[t] \ {"QUEUED"}
  BY <1>1, RemoveReady
<1>3. WaitsKept(x, a) /\ a.ret = x.ret /\ SameFate(x, a)
  BY <1>1, WaitsMovers, Movers
<1>4. a \in KernelState
  BY <1>2 DEF Off, Away
<1>5. Pend(x, t, w, forever) = b
  <2>1. a.waitq = x.waitq
    BY <1>3 DEF WaitsKept
  <2> HIDE DEF a
  <2>2. Pend(x, t, w, forever) =
          [(IF forever THEN [a EXCEPT !.st[t] = @ \cup {"PENDING"}]
            ELSE [[a EXCEPT !.st[t] = @ \cup {"PENDING"}] EXCEPT !.tmo[t] = "ACTIVE"])
             EXCEPT !.waitq[w] = PriqAdd(@, t, x.prio)]
    BY DEF Pend, AddThreadTimeout, a
  <2> DEFINE q  == PriqAdd(a.waitq[w], t, a.prio)
             s2 == [a.st EXCEPT ![t] = @ \cup {"PENDING"}]
             w2 == [a.waitq EXCEPT ![w] = q]
  <2>3. [a.tmo EXCEPT ![t] = v] = IF forever THEN a.tmo ELSE [a.tmo EXCEPT ![t] = "ACTIVE"]
    BY <1>4 DEF KernelState
  <2> DEFINE m2 == [a.tmo EXCEPT ![t] = v]
  <2>4. b = [a EXCEPT !.st = s2, !.tmo = m2, !.waitq = w2]
    BY <1>4 DEF Joined, KernelState
  <2>5. Pend(x, t, w, forever) = [a EXCEPT !.st = s2, !.waitq = w2,
           !.tmo = IF forever THEN a.tmo ELSE [a.tmo EXCEPT ![t] = "ACTIVE"]]
    <3>1. [a EXCEPT !.st[t] = @ \cup {"PENDING"}] = [a EXCEPT !.st = s2]
      BY <1>4 DEF KernelState
    <3>2. CASE forever
      <4>1. Pend(x, t, w, forever) = [[a EXCEPT !.st = s2] EXCEPT !.waitq = w2]
        BY <1>2, <1>4, <2>1, <2>2, <3>1, <3>2 DEF KernelState
      <4> HIDE DEF s2, w2
      <4> QED
        BY <1>4, <3>2, <4>1 DEF KernelState
    <3>3. CASE ~forever
      <4> DEFINE m3 == [a.tmo EXCEPT ![t] = "ACTIVE"]
      <4>1. Pend(x, t, w, forever)
              = [[[a EXCEPT !.st = s2] EXCEPT !.tmo = m3] EXCEPT !.waitq = w2]
        BY <1>2, <1>4, <2>1, <2>2, <3>1, <3>3 DEF KernelState
      <4> HIDE DEF s2, w2, m3
      <4>2. Pend(x, t, w, forever) = [a EXCEPT !.st = s2, !.waitq = w2, !.tmo = m3]
        BY <1>4, <4>1 DEF KernelState
      <4> QED
        BY <3>3, <4>2 DEF m3
    <3> QED
      BY <3>2, <3>3
  <2> HIDE DEF s2, w2, m2, b
  <2>6. Pend(x, t, w, forever) = [a EXCEPT !.st = s2, !.tmo = m2, !.waitq = w2]
    <3>1. m2 = IF forever THEN a.tmo ELSE [a.tmo EXCEPT ![t] = "ACTIVE"]
      BY <2>3 DEF m2
    <3> QED
      BY <1>4, <2>5, <3>1 DEF KernelState
  <2> QED
    BY <2>4, <2>6
<1> HIDE DEF a
<1>6. v \in Timeout /\ ~Waits(a, t) /\ "DEAD" \notin x.st[t]
  BY <1>1, <1>2, <1>4, KernelAssumption DEF Timeout, Waits, IsReady, Stopped, KernelState
<1>7. Off(b, t) /\ ~IsReady(b, t) /\ WaitBegun(a, b, t, w) /\ b.ret = a.ret
        /\ b.cur = a.cur /\ b.tick = a.tick
  <2> HIDE DEF v
  <2> QED
    BY <1>2, <1>6, JoinOff
<1>8. /\ \A u \in Thread : b.st[u] = IF u = t THEN a.st[t] \cup {"PENDING"} ELSE a.st[u]
      /\ \A u \in Thread \ {t} : b.tmo[u] = a.tmo[u]
  BY <1>4 DEF Joined, KernelState
<1> HIDE DEF b, v
<1>9. DeadOk(a)
  BY <1>3, SameFateDead
<1>10. DeadOk(b)
  BY <1>2, <1>6, <1>8, <1>9 DEF DeadOk
<1>11. b \in KernelState
  BY <1>7 DEF Off, Away
<1>12. y = Swap(b)
  BY <1>5 DEF PendCurrent
<1>13. Inv(y) /\ y.cur = y.cache /\ y.tick = b.tick
  BY <1>7, <1>12, SwapOff
<1>14. /\ WaitsKept(b, y) /\ RetKept(b, y, t) /\ y.ret[t] = "EAGAIN"
       /\ SameFate(b, y)
  BY <1>2, <1>7, <1>11, <1>12, WaitsSwitches, Movers
<1>15. DeadOk(y)
  BY <1>10, <1>14, SameFateDead
<1>16. WaitBegun(x, y, t, w)
  <2>1. WaitBegun(x, b, t, w)
    BY <1>3, <1>7, WaitsTrans
  <2> QED
    BY <1>14, <2>1, WaitsTrans
<1>17. RetKept(x, y, t)
  BY <1>3, <1>7, <1>14 DEF RetKept
<1> QED
  BY <1>2, <1>7, <1>13, <1>14, <1>15, <1>16, <1>17

-----------------------------------------------------------------------------
(***************************************************************************)
(* The wait queues before and after.                                       *)
(***************************************************************************)

\* A thread that does not wait is on no wait queue.
LEMMA NotQueued ==
  ASSUME NEW x \in KernelState, WaitQOk(x), NEW u \in Thread, ~Waits(x, u)
  PROVE  \A w \in WaitQ : u \notin ToSet(x.waitq[w]) /\ PriqRemove(x.waitq[w], u) = x.waitq[w]
  BY DEF WaitQOk, Waits, PriqRemove

\* A wait that ends leaves the other threads in their queues and their order.
LEMMA EndedQueues ==
  ASSUME NEW x \in KernelState, WaitQOk(x), NEW u \in Thread, NEW y, WaitEnded(x, y, u),
         NEW w \in WaitQ
  PROVE  /\ ToSet(y.waitq[w]) = ToSet(x.waitq[w]) \ {u}
         /\ \A a, b : Precedes(y.waitq[w], a, b) => Precedes(x.waitq[w], a, b)
<1>1. x.waitq[w] \in Seq(Thread) /\ NoDuplicates(x.waitq[w])
  BY DEF KernelState, WaitQOk
<1>2. y.waitq[w] = PriqRemove(x.waitq[w], u)
  BY DEF WaitEnded
<1> QED
  BY <1>1, <1>2, PriqRemoveProperties, PriqRemoveOrder

\* A wait that begins adds one thread to one queue.
LEMMA BegunQueues ==
  ASSUME NEW x \in KernelState, WaitQOk(x), NEW u \in Thread, ~Waits(x, u),
         NEW w \in WaitQ, NEW y, WaitBegun(x, y, u, w)
  PROVE  /\ ToSet(y.waitq[w]) = ToSet(x.waitq[w]) \cup {u}
         /\ \A v \in WaitQ \ {w} : y.waitq[v] = x.waitq[v]
         /\ Sorted(x.waitq[w], x.prio) =>
              \A a, b : Precedes(y.waitq[w], a, b) =>
                \/ Precedes(x.waitq[w], a, b)
                \/ b = u /\ a \in ToSet(x.waitq[w]) /\ x.prio[a] <= x.prio[u]
                \/ a = u /\ b \in ToSet(x.waitq[w]) /\ x.prio[u] < x.prio[b]
<1>1. /\ x.waitq[w] \in Seq(Thread) /\ NoDuplicates(x.waitq[w]) /\ u \notin ToSet(x.waitq[w])
      /\ x.prio \in [Thread -> Int] /\ x.waitq \in [WaitQ -> Seq(Thread)]
  BY KernelAssumption DEF KernelState, WaitQOk, Waits
<1>2. /\ y.waitq[w] = PriqAdd(x.waitq[w], u, x.prio)
      /\ \A v \in WaitQ \ {w} : y.waitq[v] = x.waitq[v]
  BY <1>1 DEF WaitBegun
<1> QED
  BY <1>1, <1>2, PriqAddProperties, PriqAddOrder

\* _remove_thread_from_ready_q() of a ready thread leaves a state of the kernel.
LEMMA RemovedType ==
  ASSUME NEW x, Inv(x), NEW t \in Thread, IsReady(x, t), NEW y, y = RemoveFromReadyQ(x, t)
  PROVE  y \in KernelState /\ WaitsKept(x, y) /\ y.ret = x.ret /\ y.cur = x.cur
<1>1. Near(y, t) \/ Off(y, t)
  BY RemoveReady
<1>2. y.cur = x.cur
  BY RemoveReady
<1>3. x \in KernelState
  BY DEF Inv
<1> QED
  BY <1>1, <1>2, <1>3, WaitsMovers DEF Near, Off, Away

\* _ready_thread() of a thread that has left the run queue, and the end of the
\* call or of the interrupt.
LEMMA ReadyWaits ==
  ASSUME NEW x, NEW u \in Thread, Near(x, u), NEW r, r = ReadyThread(x, u)
  PROVE  /\ WaitsKept(x, Reschedule(r)) /\ RetKept(x, Reschedule(r), x.cur)
         /\ WaitsKept(x, IntExit(r)) /\ IntExit(r).ret = x.ret
<1>1. x \in KernelState
  BY DEF Near, Away
<1>2. r \in KernelState /\ r.cur = x.cur
  BY ReadyThreadInv DEF Inv
<1>3. WaitsKept(x, r) /\ r.ret = x.ret
  BY <1>1, WaitsMovers
<1>4. /\ WaitsKept(r, Reschedule(r)) /\ RetKept(r, Reschedule(r), r.cur)
      /\ WaitsKept(r, IntExit(r)) /\ IntExit(r).ret = r.ret
  BY <1>2, WaitsSwitches
<1>5. WaitsKept(x, Reschedule(r)) /\ WaitsKept(x, IntExit(r))
  BY <1>3, <1>4, WaitsTrans
<1> QED
  BY <1>2, <1>3, <1>4, <1>5 DEF RetKept

\* New flags for a thread that is not ready.
LEMMA Reflagged ==
  ASSUME NEW u \in Thread, SchedInv, ~IsReady(k, u), NEW flag \in {"PRESTART", "SUSPENDED"}
  PROVE  LET x == [k EXCEPT !.st[u] = @ \ {flag}]
         IN  Near(x, u) /\ WaitsKept(k, x) /\ x.ret = k.ret /\ x.cur = k.cur
<1> DEFINE S == k.st[u] \ {flag}
           y == [k EXCEPT !.st[u] = S]
<1>1. Near(k, u) /\ DeadOk(k) /\ k \in KernelState /\ "QUEUED" \notin k.st[u]
  BY StoppedIsNear DEF SchedInv, Near, Away
<1>2. /\ S \in SUBSET Flag /\ "QUEUED" \notin S
      /\ ("PENDING" \in S) <=> ("PENDING" \in k.st[u])
      /\ "DEAD" \in S => "PENDING" \notin S /\ k.tmo[u] = "INACTIVE"
  BY <1>1 DEF KernelState, DeadOk
<1>3. WaitsKept(k, y) /\ y.ret = k.ret /\ y.cur = k.cur
  BY <1>1, <1>2 DEF WaitsKept, Waits, KernelState
<1>4. y = [k EXCEPT !.st[u] = @ \ {flag}]
  BY <1>1 DEF KernelState
<1> HIDE DEF S
<1>5. Near(y, u)
  BY <1>1, <1>2, Reflag
<1> HIDE DEF y
<1> QED
  BY <1>3, <1>4, <1>5

-----------------------------------------------------------------------------
(***************************************************************************)
(* The scheduler's own operations.                                         *)
(***************************************************************************)

\* k_thread_start(), k_thread_resume(), k_wakeup(), k_thread_suspend(), k_sleep()
\* and k_yield() begin and end no wait.
LEMMA CallWaits ==
  ASSUME SchedInv, Careful, Careful', NEW t \in Thread, NEW u \in Thread,
         \/ ThreadStart(t, u) \/ ThreadResume(t, u) \/ Wakeup(t, u)
         \/ ThreadSuspend(t, u) \/ Sleep(t) \/ Yield(t)
  PROVE  WaitsKept(k, k') /\ RetKept(k, k', t) /\ SchedInv'
<1>1. k \in KernelState /\ Inv(k)
  BY DEF SchedInv, Inv
<1>2. SchedInv'
  BY NextInv DEF Next, Call
<1>3. k.cur = t
  BY DEF ThreadStart, ThreadResume, Wakeup, ThreadSuspend, Sleep, Yield, Running
<1>4. CASE ThreadStart(t, u)
  <2> DEFINE x == [k EXCEPT !.st[u] = @ \ {"PRESTART"}]
  <2>1. ~IsReady(k, u)
    BY <1>4, KernelAssumption DEF ThreadStart, Has, IsReady, Stopped
  <2>2. Near(x, u) /\ WaitsKept(k, x) /\ x.ret = k.ret /\ x.cur = k.cur
    BY <2>1, Reflagged
  <2>3. k' = Reschedule(ReadyThread(x, u))
    BY <1>4 DEF ThreadStart, Started
  <2> HIDE DEF x
  <2>4. WaitsKept(x, k') /\ RetKept(x, k', x.cur)
    BY <2>2, <2>3, ReadyWaits
  <2>5. WaitsKept(k, k')
    BY <2>2, <2>4, WaitsTrans
  <2> QED
    BY <1>2, <1>3, <2>2, <2>4, <2>5 DEF RetKept
<1>5. CASE ThreadResume(t, u)
  <2> DEFINE x == [k EXCEPT !.st[u] = @ \ {"SUSPENDED"}]
  <2>1. ~IsReady(k, u)
    BY <1>5, KernelAssumption DEF ThreadResume, Has, IsReady, Stopped, Careful
  <2>2. Near(x, u) /\ WaitsKept(k, x) /\ x.ret = k.ret /\ x.cur = k.cur
    BY <2>1, Reflagged
  <2>3. k' = Reschedule(ReadyThread(x, u))
    BY <1>5 DEF ThreadResume, Resumed
  <2> HIDE DEF x
  <2>4. WaitsKept(x, k') /\ RetKept(x, k', x.cur)
    BY <2>2, <2>3, ReadyWaits
  <2>5. WaitsKept(k, k')
    BY <2>2, <2>4, WaitsTrans
  <2> QED
    BY <1>2, <1>3, <2>2, <2>4, <2>5 DEF RetKept
<1>6. CASE Wakeup(t, u)
  <2> DEFINE x == Woken(k, u)
  <2>1. x \in KernelState
    BY WokenInv DEF SchedInv, Inv
  <2>2. WaitsKept(k, x) /\ x.ret = k.ret /\ x.cur = k.cur
    BY <1>1 DEF Woken, AbortThreadTimeout, ReadyThread, AddToReadyQ, UpdateCache,
       WaitsKept, Waits, KernelState
  <2>3. k' = Reschedule(x)
    BY <1>6 DEF Wakeup
  <2> HIDE DEF x
  <2>4. WaitsKept(x, k') /\ RetKept(x, k', x.cur)
    BY <2>1, <2>3, WaitsSwitches
  <2>5. WaitsKept(k, k')
    BY <2>2, <2>4, WaitsTrans
  <2> QED
    BY <1>2, <1>3, <2>2, <2>4, <2>5 DEF RetKept
<1>7. CASE ThreadSuspend(t, u)
  <2> DEFINE r == IF IsReady(k, u) THEN RemoveFromReadyQ(k, u) ELSE k
             x == [r EXCEPT !.st[u] = @ \cup {"SUSPENDED"}]
  <2>1. r \in KernelState /\ WaitsKept(k, r) /\ r.ret = k.ret /\ r.cur = k.cur
    BY <1>1, RemovedType DEF WaitsKept
  <2>2. x = Suspended(u)
    BY DEF Suspended
  <2> HIDE DEF r
  <2>3. x \in KernelState /\ WaitsKept(r, x) /\ x.ret = r.ret /\ x.cur = r.cur
    BY <2>1 DEF WaitsKept, Waits, KernelState, Flag
  <2> HIDE DEF x
  <2>4. k' = Swap(x) \/ k' = x
    BY <1>7, <2>2 DEF ThreadSuspend
  <2>5. WaitsKept(x, k') /\ RetKept(x, k', x.cur)
    BY <2>3, <2>4, WaitsSwitches DEF WaitsKept, RetKept
  <2>6. WaitsKept(k, x)
    BY <2>1, <2>3, WaitsTrans
  <2>7. WaitsKept(k, k')
    BY <2>5, <2>6, WaitsTrans
  <2> QED
    BY <1>2, <1>3, <2>1, <2>3, <2>5, <2>7 DEF RetKept
<1>8. CASE Sleep(t)
  <2> DEFINE r == RemoveFromReadyQ(k, t)
             x == [r EXCEPT !.tmo[t] = "ACTIVE"]
  <2>1. IsReady(k, t)
    BY <1>1, <1>3 DEF Inv
  <2>2. r \in KernelState /\ WaitsKept(k, r) /\ r.ret = k.ret /\ r.cur = k.cur
    BY <1>1, <2>1, RemovedType
  <2>3. k' = Swap(x)
    BY <1>8 DEF Sleep, AddThreadTimeout
  <2> HIDE DEF r
  <2>4. x \in KernelState /\ WaitsKept(r, x) /\ x.ret = r.ret /\ x.cur = r.cur
    BY <2>2 DEF WaitsKept, Waits, KernelState, Timeout
  <2> HIDE DEF x
  <2>5. WaitsKept(x, k') /\ RetKept(x, k', x.cur)
    BY <2>3, <2>4, WaitsSwitches
  <2>6. WaitsKept(k, x)
    BY <2>2, <2>4, WaitsTrans
  <2>7. WaitsKept(k, k')
    BY <2>5, <2>6, WaitsTrans
  <2> QED
    BY <1>2, <1>3, <2>2, <2>4, <2>5, <2>7 DEF RetKept
<1>9. CASE Yield(t)
  BY <1>1, <1>2, <1>3, <1>9 DEF Yield, Yielded, UpdateCache,
     Reschedule, Swap, WaitsKept, RetKept, Waits, KernelState
<1> QED
  BY <1>4, <1>5, <1>6, <1>7, <1>8, <1>9

\* What an interrupt does to other threads, k_thread_abort() aside.
LEMMA IsrWaits ==
  ASSUME SchedInv, Careful, Careful', NEW u \in Thread, IsrResume(k, u) \/ IsrWakeup(k, u)
  PROVE  WaitsKept(k, k') /\ k'.ret = k.ret /\ SchedInv'
<1>1. k \in KernelState
  BY DEF SchedInv, Inv
<1>2. SchedInv'
  BY NextInv DEF Next, Interrupt
<1>3. CASE IsrResume(k, u)
  <2> DEFINE x == [k EXCEPT !.st[u] = @ \ {"SUSPENDED"}]
  <2>1. ~IsReady(k, u)
    BY <1>3, KernelAssumption DEF IsrResume, IsReady, Stopped, Careful
  <2>2. Near(x, u) /\ WaitsKept(k, x) /\ x.ret = k.ret
    BY <2>1, Reflagged
  <2>3. k' = IntExit(ReadyThread(x, u))
    BY <1>3 DEF IsrResume, Resumed
  <2> HIDE DEF x
  <2>4. WaitsKept(x, k') /\ k'.ret = x.ret
    BY <2>2, <2>3, ReadyWaits
  <2> QED
    BY <1>2, <2>2, <2>4, WaitsTrans
<1>4. CASE IsrWakeup(k, u)
  BY <1>1, <1>2, <1>4 DEF IsrWakeup, Woken, AbortThreadTimeout, ReadyThread, AddToReadyQ,
     UpdateCache, IntExit, WaitsKept, Waits, KernelState
<1> QED
  BY <1>3, <1>4

\* A timeout ends the wait it belongs to, whether it has been ended or not.
LEMMA ExpireWaits ==
  ASSUME SchedInv, Careful, Careful', NEW u \in Thread, TickExpire(u)
  PROVE  WaitEnded(k, k', u) /\ k'.ret = k.ret /\ SchedInv'
<1>1. k \in KernelState
  BY DEF SchedInv, Inv
<1>2. SchedInv'
  BY NextInv DEF Next, Tick
<1> DEFINE h == HandleExpired(k, u)
<1>3. WaitEnded(k, h, u) /\ h.ret = k.ret
  BY <1>1 DEF HandleExpired, UnpendNoTimeout, ReadyThread, AddToReadyQ,
     UpdateCache, WaitEnded, Waits, KernelState
<1>4. k' = [h EXCEPT !.expiring = Idle]
  BY DEF TickExpire
<1> HIDE DEF h
<1>5. k'.prio = h.prio /\ k'.waitq = h.waitq /\ k'.st = h.st /\ k'.ret = h.ret
  BY <1>4
<1> QED
  BY <1>2, <1>3, <1>5 DEF WaitEnded, Waits

\* The rest of the clock interrupt.
LEMMA TickWaits ==
  ASSUME SchedInv, Careful, Careful',
         TickStart(k) \/ TickEnd \/ TickDequeue \/ \E t \in Thread : TickPick(t)
  PROVE  WaitsKept(k, k') /\ k'.ret = k.ret /\ SchedInv'
<1>1. k \in KernelState
  BY DEF SchedInv, Inv
<1>2. SchedInv'
  BY NextInv DEF Next, Tick
<1>3. CASE TickStart(k)
  BY <1>1, <1>2, <1>3 DEF TickStart, Dequeued, WaitsKept, Waits, KernelState
<1>4. CASE TickEnd
  BY <1>1, <1>2, <1>4 DEF TickEnd, MoveToEndOfPrioQ, UpdateCache, IntExit,
     WaitsKept, Waits, KernelState
<1>5. CASE TickDequeue \/ \E t \in Thread : TickPick(t)
  BY <1>1, <1>2, <1>5 DEF TickDequeue, TickPick, Dequeued, WaitsKept, Waits, KernelState
<1> QED
  BY <1>3, <1>4, <1>5

\* k_thread_abort() ends the wait of the thread, if there is one.
LEMMA AbortWaits ==
  ASSUME SchedInv, Careful, Careful', NEW u \in Thread,
         IsrAbort(k, u) \/ \E t \in Thread : Running(t) /\ ThreadAbort(t, u)
  PROVE  /\ WaitEnded(k, k', u) /\ RetKept(k, k', k.cur) /\ SchedInv'
         /\ IsrAbort(k, u) => k'.ret = k.ret
<1> DEFINE x == Aborted(k, u)
<1>1. k \in KernelState /\ WaitQOk(k)
  BY DEF SchedInv, Inv
<1>2. SchedInv'
  BY NextInv DEF Next, Interrupt, Call
<1>3. WaitEnded(k, x, u) /\ x.ret = k.ret /\ x.cur = k.cur /\ x \in KernelState
  <2> DEFINE r == IF IsReady(k, u) THEN RemoveFromReadyQ(k, u) ELSE Unpend(k, u)
  <2>1. r \in KernelState /\ WaitEnded(k, r, u) /\ r.ret = k.ret /\ r.cur = k.cur
    <3>1. CASE IsReady(k, u)
      <4>1. ~Waits(k, u)
        BY <3>1, KernelAssumption DEF IsReady, Stopped, Waits
      <4>2. \A w \in WaitQ : PriqRemove(k.waitq[w], u) = k.waitq[w]
        BY <1>1, <4>1, NotQueued
      <4>3. r \in KernelState /\ WaitsKept(k, r) /\ r.ret = k.ret /\ r.cur = k.cur
        BY <3>1, RemovedType DEF SchedInv
      <4>4. k.waitq = [w \in WaitQ |-> PriqRemove(k.waitq[w], u)]
        BY <1>1, <4>2 DEF KernelState
      <4> HIDE DEF r
      <4> QED
        BY <4>1, <4>3, <4>4 DEF WaitsKept, WaitEnded
    <3>2. CASE ~IsReady(k, u)
      <4>1. r = Unpend(k, u)
        BY <3>2
      <4> HIDE DEF r
      <4> QED
        BY <3>2, <4>1, UnpendStep DEF SchedInv, Near, Away
    <3> QED
      BY <3>1, <3>2
  <2>2. x = [r EXCEPT !.st[u] = @ \cup {"DEAD"}]
    BY DEF Aborted
  <2> HIDE DEF r, x
  <2>3. WaitsKept(r, x) /\ x.ret = r.ret /\ x.cur = r.cur /\ x \in KernelState
    BY <2>1, <2>2 DEF WaitsKept, Waits, KernelState, Flag
  <2> QED
    BY <2>1, <2>3, WaitsTrans
<1>4. \A y \in {Swap(x), Reschedule(x), IntExit(x)} : WaitsKept(x, y) /\ RetKept(x, y, x.cur)
  BY <1>3, WaitsSwitches DEF RetKept
<1>5. IntExit(x).ret = x.ret
  BY <1>3, WaitsSwitches
<1>6. k' \in {Swap(x), Reschedule(x), IntExit(x)} /\ (IsrAbort(k, u) => k' = IntExit(x))
  BY DEF IsrAbort, ThreadAbort
<1> HIDE DEF x
<1>7. WaitEnded(k, k', u)
  BY <1>3, <1>4, <1>6, WaitsTrans
<1> QED
  BY <1>2, <1>3, <1>4, <1>5, <1>6, <1>7 DEF RetKept
=============================================================================
