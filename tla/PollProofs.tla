----------------------------- MODULE PollProofs -----------------------------
(***************************************************************************)
(* Polling.  What k_poll() promises whatever the calls in progress, and    *)
(* what it promises when no two of them poll the same object.              *)
(***************************************************************************)
EXTENDS Poll, SchedProofs, FiniteSetTheorems

-----------------------------------------------------------------------------
(***************************************************************************)
(* The invariant.                                                          *)
(***************************************************************************)

Node == Polled \cup Event

\* The list of o: its head and the events for o.
Ring(o) == {o} \cup (Poller \X {o})

\* The pointers lead from a node to nodes of the same list.
RingsClosed(d) ==
  /\ d \in [next: [Node -> Node], prev: [Node -> Node]]
  /\ \A o \in Polled : \A n \in Ring(o) : d.next[n] \in Ring(o) /\ d.prev[n] \in Ring(o)

PollCall ==
  [pc: {"out", "scan", "waiting", "clear", "woken"}, objects: Seq(Polled), nowait: BOOLEAN,
   i: Nat, last: Nat, polling: BOOLEAN]

\* k_poll() registers its events in their order, until the first that is ready.
CallOk(p) ==
  /\ p \in PollCall
  /\ NoDuplicates(p.objects)
  /\ p.last <= p.i /\ p.i <= Len(p.objects)
  /\ p.nowait => p.last = 0
  /\ p.pc = "scan" /\ p.polling /\ ~p.nowait => p.last = p.i
  /\ p.pc = "waiting" => p.last = Len(p.objects)
  /\ p.pc = "out" => p.last = 0

\* The events t has registered and not cleared.
Pledged(t) == {<<t, poll[t].objects[j]>> : j \in 1 .. poll[t].last}

\* A poller sleeps in k_poll() only, and finds -EAGAIN unless somebody says
\* otherwise.
SleepOk(t) == Waits(k, t) => poll[t].pc = "waiting" /\ k.ret[t] = "EAGAIN"

\* The call of t has been told that an event is ready.
Told(t) ==
  \/ poll[t].pc = "scan" /\ ~poll[t].polling
  \/ poll[t].pc = "clear"
  \/ poll[t].pc \in {"waiting", "woken"} /\ ~Waits(k, t) /\ k.ret[t] = "OK"

ThreadOk(t) ==
  /\ CallOk(poll[t]) /\ SleepOk(t)
  /\ Told(t) => EventsOf(t) \cap ready # {}

PollInv ==
  /\ SchedInv
  /\ met \subseteq Polled /\ registered \subseteq Event /\ ready \subseteq Event
  /\ RingsClosed(lists)
  /\ poll \in [Poller -> PollCall]
  /\ \A t \in Poller : ThreadOk(t)
  /\ \A e \in registered : e \in Pledged(e[1])

-----------------------------------------------------------------------------
(***************************************************************************)
(* The kernel's part of a step.                                            *)
(***************************************************************************)

\* For t nothing happens, or its timeout.
Calm(t) ==
  /\ Waits(k', t) => Waits(k, t) /\ (k'.tmo[t] # "EXPIRED" => k.tmo[t] # "EXPIRED")
  /\ poll[t].pc # "out" => k'.ret[t] = k.ret[t]

\* The thread that runs does not wait.
LEMMA RunnerAwake ==
  ASSUME SchedInv, NEW t \in Thread, k.cur = t
  PROVE  ~Waits(k, t)
  BY KernelAssumption DEF SchedInv, Inv, IsReady, Stopped, Waits

LEMMA ElsewhereCalm ==
  ASSUME SchedInv, Careful, Careful', Elsewhere
  PROVE  SchedInv' /\ \A t \in Poller : Calm(t)
<1>1. k \in KernelState /\ Poller \subseteq Thread
  BY PollAssumption DEF SchedInv, Inv
<1>2. CASE TickStart(k) \/ TickEnd \/ TickDequeue \/ \E u \in Thread : TickPick(u)
  <2>1. WaitsKept(k, k') /\ k'.ret = k.ret /\ SchedInv'
    BY <1>2, TickWaits
  <2>2. \A t \in Thread : k'.tmo[t] # "EXPIRED" => k.tmo[t] # "EXPIRED"
    <3>1. CASE TickStart(k)
      BY <1>1, <3>1 DEF TickStart, Dequeued, KernelState
    <3>2. CASE TickEnd
      BY <1>1, <3>2 DEF TickEnd, AllHandled, KernelState
    <3>3. CASE TickDequeue \/ \E u \in Thread : TickPick(u)
      BY <1>1, <3>3 DEF TickDequeue, TickPick, Dequeued, KernelState
    <3> QED
      BY <1>2, <3>1, <3>2, <3>3
  <2> QED
    BY <1>1, <2>1, <2>2 DEF Calm, WaitsKept
<1>3. ASSUME NEW u \in Thread, TickExpire(u)
      PROVE  SchedInv' /\ \A t \in Poller : Calm(t)
  <2>1. WaitEnded(k, k', u) /\ k'.ret = k.ret /\ SchedInv'
    BY <1>3, ExpireWaits
  <2>2. \A t \in Thread \ {u} : k'.tmo[t] = k.tmo[t]
    BY <1>1, <1>3 DEF TickExpire, HandleExpired, UnpendNoTimeout, ReadyThread, AddToReadyQ,
       UpdateCache, KernelState
  <2> QED
    BY <1>1, <2>1, <2>2 DEF Calm, WaitEnded
<1>4. ASSUME NEW c \in Thread, NEW u \in Thread, Idling(c), Sleep(c) \/ Yield(c) \/ ThreadStart(c, u)
      PROVE  SchedInv' /\ \A t \in Poller : Calm(t)
  <2>1. WaitsKept(k, k') /\ RetKept(k, k', c) /\ SchedInv'
    BY <1>4, CallWaits
  <2>2. ~Waits(k, c)
    BY <1>4, RunnerAwake DEF Idling, Running
  <2>3. \A t \in Thread \ {c} : k'.tmo[t] = k.tmo[t]
    <3>1. CASE Sleep(c)
      BY <1>1, <3>1 DEF Sleep, AddThreadTimeout, RemoveFromReadyQ, UpdateCache, Swap, KernelState
    <3>2. CASE Yield(c)
      BY <1>1, <3>2 DEF Yield, Yielded, UpdateCache, Reschedule, Swap, KernelState
    <3>3. CASE ThreadStart(c, u)
      BY <1>1, <3>3 DEF ThreadStart, Started, ReadyThread, AddToReadyQ, UpdateCache,
         Reschedule, Swap, KernelState
    <3> QED
      BY <1>4, <3>1, <3>2, <3>3
  <2>4. c \in Poller => poll[c].pc = "out"
    BY <1>4 DEF Idling
  <2> QED
    BY <1>1, <2>1, <2>2, <2>3, <2>4 DEF Calm, WaitsKept, RetKept
<1> QED
  BY <1>2, <1>3, <1>4 DEF Elsewhere, Tick

\* Whoever makes a call does not poll: an interrupt, or a thread outside k_poll().
Caller(isr) == isr \/ \E c \in Thread : Idling(c)

LEMMA LeaveKeeps ==
  ASSUME NEW x \in KernelState, NEW isr \in BOOLEAN, NEW y, y = Leave(isr, x)
  PROVE  WaitsKept(x, y) /\ RetKept(x, y, x.cur) /\ SameFate(x, y)
<1>1. SameFate(x, IntExit(x)) /\ SameFate(x, Reschedule(x))
  BY SchedAssumption, Movers
<1> QED
  BY <1>1, WaitsSwitches DEF Leave

\* The end of a call that wakes nobody.
LEMMA LeaveCalm ==
  ASSUME SchedInv, NEW isr \in BOOLEAN, Caller(isr), k' = Leave(isr, k)
  PROVE  SchedInv' /\ \A t \in Poller : Calm(t)
<1>1. k \in KernelState /\ Poller \subseteq Thread /\ Inv(k) /\ DeadOk(k)
  BY PollAssumption DEF SchedInv, Inv
<1>2. SchedInv'
  BY <1>1, RescheduleStep DEF Leave, SchedInv
<1>3. WaitsKept(k, k') /\ RetKept(k, k', k.cur) /\ SameFate(k, k')
  BY <1>1, LeaveKeeps
<1>4. isr => k'.ret = k.ret
  BY <1>1, WaitsSwitches DEF Leave
<1>5. ~isr /\ k.cur \in Poller => poll[k.cur].pc = "out"
  BY DEF Caller, Idling, Running
<1> QED
  BY <1>1, <1>2, <1>3, <1>4, <1>5 DEF Calm, WaitsKept, RetKept, SameFate

\* signal_poll_event() wakes u.
LEMMA WakeCalm ==
  ASSUME SchedInv, NEW isr \in BOOLEAN, Caller(isr), NEW u \in Poller, Waits(k, u),
         NEW value \in SwapValue,
         k' = Leave(isr, ReadyThread([Unpend(k, u) EXCEPT !.ret[u] = value], u))
  PROVE  /\ SchedInv' /\ ~Waits(k', u) /\ k'.ret[u] = value
         /\ \A t \in Poller \ {u} : Calm(t)
<1> DEFINE x == Unpend(k, u)
           y == [x EXCEPT !.ret[u] = value]
           z == ReadyThread(y, u)
<1>1. k \in KernelState /\ Poller \subseteq Thread /\ Inv(k) /\ DeadOk(k) /\ u \in Thread
  BY PollAssumption DEF SchedInv, Inv
<1>2. ~IsReady(k, u) /\ u # k.cur
  BY <1>1, RunnerAwake, KernelAssumption DEF IsReady, Stopped, Waits
<1>3. /\ Near(x, u) /\ DeadOk(x) /\ WaitEnded(k, x, u) /\ x.cur = k.cur /\ x.ret = k.ret
  BY <1>1, <1>2, UnpendStep
<1>4. \A t \in Thread \ {u} : x.tmo[t] = k.tmo[t]
  BY <1>1 DEF Unpend, UnpendNoTimeout, AbortThreadTimeout, KernelState
<1>5. k' = Leave(isr, z)
  OBVIOUS
<1> HIDE DEF x
<1>6. x \in KernelState
  BY <1>3 DEF Near, Away
<1>7. /\ y \in KernelState /\ WaitsKept(x, y) /\ y.tmo = x.tmo /\ y.cur = x.cur /\ y.st = x.st
      /\ y.ret[u] = value /\ \A t \in Thread \ {u} : y.ret[t] = x.ret[t]
  BY <1>1, <1>6 DEF WaitsKept, Waits, KernelState
<1>8. Near(y, u)
  <2>1. /\ y.runq = x.runq /\ y.prio = x.prio /\ y.waitq = x.waitq /\ y.cache = x.cache
        /\ y.locked = x.locked
    BY <1>6 DEF KernelState
  <2> HIDE DEF y
  <2> QED
    BY <1>3, <1>7, <2>1 DEF Near, Away, CacheOk, NextUp, IsReady, IsPreempt, WaitQOk
<1>9. DeadOk(y)
  BY <1>3, <1>7 DEF DeadOk
<1> HIDE DEF y
<1>10. z \in KernelState /\ Inv(z) /\ DeadOk(z) /\ z.cur = y.cur
  BY <1>1, <1>8, <1>9, ReadyThreadInv, ReadyStep DEF Inv
<1>11. WaitsKept(y, z) /\ z.ret = y.ret /\ SameFate(y, z)
  BY <1>1, <1>7, WaitsMovers, Movers
<1> HIDE DEF z
<1>12. SchedInv'
  BY <1>5, <1>10, RescheduleStep DEF Leave, SchedInv
<1>13. WaitsKept(z, k') /\ RetKept(z, k', z.cur) /\ SameFate(z, k')
  BY <1>5, <1>10, LeaveKeeps
<1>14. isr => k'.ret = z.ret
  BY <1>5, <1>10, WaitsSwitches DEF Leave
<1>15. ~isr /\ k.cur \in Poller => poll[k.cur].pc = "out"
  BY DEF Caller, Idling, Running
<1>16. \A t \in Thread : Waits(k', t) <=> t # u /\ Waits(k, t)
  BY <1>3, <1>7, <1>11, <1>13 DEF WaitEnded, WaitsKept
<1>17. \A t \in Thread \ {u} : k'.tmo[t] = k.tmo[t]
  BY <1>4, <1>7, <1>11, <1>13 DEF SameFate
<1>18. k'.ret[u] = value
  BY <1>1, <1>2, <1>3, <1>7, <1>10, <1>11, <1>13 DEF RetKept
<1>19. \A t \in Poller \ {u} : poll[t].pc # "out" => k'.ret[t] = k.ret[t]
  BY <1>1, <1>3, <1>7, <1>10, <1>11, <1>13, <1>14, <1>15 DEF RetKept
<1> QED
  BY <1>1, <1>12, <1>16, <1>17, <1>18, <1>19 DEF Calm

\* The running thread t goes to sleep in k_poll().
LEMMA PendCalm ==
  ASSUME SchedInv, NEW t \in Poller, Running(t), NEW forever \in BOOLEAN,
         k' = PendCurrent(k, PollQ, forever)
  PROVE  /\ SchedInv' /\ Waits(k', t) /\ k'.ret[t] = "EAGAIN"
         /\ \A u \in Poller \ {t} : Calm(u)
<1>1. /\ k \in KernelState /\ Poller \subseteq Thread /\ Inv(k) /\ DeadOk(k) /\ t \in Thread
      /\ k.cur = t /\ ~k.tick /\ PollQ \in WaitQ
  BY PollAssumption DEF SchedInv, Inv, Running
<1>2. /\ Inv(k') /\ DeadOk(k') /\ k'.cur = k'.cache /\ k'.tick = k.tick
      /\ WaitBegun(k, k', t, PollQ) /\ RetKept(k, k', t) /\ k'.ret[t] = "EAGAIN"
  BY <1>1, PendCurrentStep
<1>3. \A u \in Thread \ {t} : k'.tmo[u] = k.tmo[u]
  BY <1>1 DEF PendCurrent, Pend, AddThreadTimeout, RemoveFromReadyQ, UpdateCache, Swap, KernelState
<1>4. SchedInv'
  BY <1>2 DEF SchedInv, SwitchOk
<1> QED
  BY <1>1, <1>2, <1>3, <1>4 DEF Calm, WaitBegun, RetKept

-----------------------------------------------------------------------------
(***************************************************************************)
(* The lists.                                                              *)
(***************************************************************************)

\* Heads and events are different nodes, and each belongs to one list.
LEMMA RingFacts ==
  /\ \A o \in Polled : o \in Ring(o) /\ Ring(o) \subseteq Node
  /\ \A e \in Event : /\ e[1] \in Poller /\ e[2] \in Polled /\ e = <<e[1], e[2]>>
                      /\ e \in Ring(e[2]) /\ e # e[2] /\ e \in Node /\ e \notin Polled
  /\ \A t \in Poller, o \in Polled : <<t, o>> \in Event
  /\ \A o \in Polled : \A n \in Ring(o) : n # o => n \in Event /\ n[2] = o
  /\ \A o, v \in Polled : o # v => Ring(o) \cap Ring(v) = {}
<1>1. Polled \cap Event = {}
  BY PollAssumption DEF Event
<1>2. \A e \in Event : /\ e[1] \in Poller /\ e[2] \in Polled /\ e = <<e[1], e[2]>>
                       /\ e \in Ring(e[2]) /\ e # e[2] /\ e \in Node /\ e \notin Polled
  BY <1>1 DEF Event, Ring, Node
<1>3. \A o \in Polled : \A n \in Ring(o) : n # o => n \in Event /\ n[2] = o
  BY DEF Ring, Event
<1>4. \A o, v \in Polled : o # v => Ring(o) \cap Ring(v) = {}
  BY <1>1 DEF Ring, Event
<1>5. \A o \in Polled : o \in Ring(o) /\ Ring(o) \subseteq Node
  BY DEF Ring, Node, Event
<1> QED
  BY <1>2, <1>3, <1>4, <1>5 DEF Event

\* Both list operations write within the list of the event.
LEMMA UnlinkClosed ==
  ASSUME NEW d, RingsClosed(d), NEW e \in Event, NEW c, c = Unlink(d, e)
  PROVE  /\ RingsClosed(c)
         /\ \A v \in Polled \ {e[2]} : \A n \in Ring(v) : c.next[n] = d.next[n] /\ c.prev[n] = d.prev[n]
         /\ \A n \in Node :
              /\ c.next[n] = IF n = d.prev[e] THEN d.next[e] ELSE d.next[n]
              /\ c.prev[n] = IF n = d.next[e] THEN d.prev[e] ELSE d.prev[n]
<1>1. d \in [next: [Node -> Node], prev: [Node -> Node]]
  BY DEF RingsClosed
<1>2. /\ e \in Node /\ e[2] \in Polled /\ d.next[e] \in Ring(e[2]) /\ d.prev[e] \in Ring(e[2])
      /\ d.next[e] \in Node /\ d.prev[e] \in Node
  BY RingFacts DEF RingsClosed
<1>3. c \in [next: [Node -> Node], prev: [Node -> Node]]
  BY <1>1, <1>2 DEF Unlink
<1>4. \A n \in Node :
              /\ c.next[n] = IF n = d.prev[e] THEN d.next[e] ELSE d.next[n]
              /\ c.prev[n] = IF n = d.next[e] THEN d.prev[e] ELSE d.prev[n]
  BY <1>1, <1>2 DEF Unlink
<1>5. \A v \in Polled \ {e[2]} : \A n \in Ring(v) : c.next[n] = d.next[n] /\ c.prev[n] = d.prev[n]
  BY <1>2, <1>4, RingFacts
<1>6. \A n \in Ring(e[2]) : c.next[n] \in Ring(e[2]) /\ c.prev[n] \in Ring(e[2])
  BY <1>2, <1>4, RingFacts DEF RingsClosed
<1>7. \A v \in Polled : \A n \in Ring(v) : c.next[n] \in Ring(v) /\ c.prev[n] \in Ring(v)
  BY <1>5, <1>6 DEF RingsClosed
<1> QED
  BY <1>3, <1>4, <1>5, <1>7 DEF RingsClosed

LEMMA InsertClosed ==
  ASSUME NEW d, RingsClosed(d), NEW e \in Event, NEW at \in Ring(e[2]),
         NEW c, c = InsertBefore(d, at, e)
  PROVE  /\ RingsClosed(c)
         /\ \A v \in Polled \ {e[2]} : \A n \in Ring(v) : c.next[n] = d.next[n] /\ c.prev[n] = d.prev[n]
         /\ \A n \in Node :
              /\ c.next[n] = IF n = d.prev[at] THEN e ELSE IF n = e THEN at ELSE d.next[n]
              /\ c.prev[n] = IF n = at THEN e ELSE IF n = e THEN d.prev[at] ELSE d.prev[n]
<1>1. d \in [next: [Node -> Node], prev: [Node -> Node]]
  BY DEF RingsClosed
<1>2. /\ e \in Node /\ e[2] \in Polled /\ at \in Node /\ d.prev[at] \in Ring(e[2])
      /\ d.prev[at] \in Node /\ e \in Ring(e[2])
  BY RingFacts DEF RingsClosed
<1>3. c \in [next: [Node -> Node], prev: [Node -> Node]]
  BY <1>1, <1>2 DEF InsertBefore
<1>4. \A n \in Node :
              /\ c.next[n] = IF n = d.prev[at] THEN e ELSE IF n = e THEN at ELSE d.next[n]
              /\ c.prev[n] = IF n = at THEN e ELSE IF n = e THEN d.prev[at] ELSE d.prev[n]
  BY <1>1, <1>2 DEF InsertBefore
<1>5. \A v \in Polled \ {e[2]} : \A n \in Ring(v) : c.next[n] = d.next[n] /\ c.prev[n] = d.prev[n]
  BY <1>2, <1>4, RingFacts
<1>6. \A n \in Ring(e[2]) : c.next[n] \in Ring(e[2]) /\ c.prev[n] \in Ring(e[2])
  BY <1>2, <1>4, RingFacts DEF RingsClosed
<1>7. \A v \in Polled : \A n \in Ring(v) : c.next[n] \in Ring(v) /\ c.prev[n] \in Ring(v)
  BY <1>5, <1>6 DEF RingsClosed
<1> QED
  BY <1>3, <1>4, <1>5, <1>7 DEF RingsClosed

\* The head of a list is an event for its object.
LEMMA HeadIsEvent ==
  ASSUME NEW d, RingsClosed(d), NEW o \in Polled, NEW e, e = PeekHead(d, o)
  PROVE  /\ e # Null => e \in Event /\ e[2] = o /\ e = d.next[o]
         /\ e = Null <=> d.next[o] = o
<1>1. d.next[o] \in Ring(o)
  BY RingFacts DEF RingsClosed
<1>2. d.next[o] # o => d.next[o] \in Event /\ d.next[o][2] = o
  BY <1>1, RingFacts
<1>3. Null \notin Event
  BY PollAssumption DEF Event
<1> QED
  BY <1>2, <1>3 DEF PeekHead

-----------------------------------------------------------------------------
(***************************************************************************)
(* The walk over a list.                                                   *)
(***************************************************************************)

\* One step of it: v is where it is after i - 1 steps.
Walked(d, o, i, v) == IF i > 1 /\ v = o THEN o ELSE d.next[v]

LEMMA WalkExists ==
  ASSUME NEW d, NEW o, NEW n \in Nat
  PROVE  \E f : f = [i \in 0 .. n |-> IF i = 0 THEN o ELSE Walked(d, o, i, f[i - 1])]
<1> DEFINE Run(f, m) == [i \in 0 .. m |-> IF i = 0 THEN o ELSE Walked(d, o, i, f[i - 1])]
           S == {j \in 0 .. n : ~\E f : f = Run(f, j)}
<1>1. SUFFICES ASSUME S # {} PROVE FALSE
  OBVIOUS
<1>2. PICK j : j = Min(S)
  OBVIOUS
<1>3. j \in S /\ \A i \in S : j <= i
  <2>1. S \in SUBSET Nat
    OBVIOUS
  <2> HIDE DEF S
  <2> QED
    BY <1>1, <1>2, <2>1, MinIsLeast
<1>4. j \in 0 .. n /\ j \in Int /\ ~\E f : f = Run(f, j)
  BY <1>3
<1>5. j # 0 => j - 1 \in 0 .. n /\ j - 1 \notin S
  <2>1. j \in Int /\ \A i \in S : j <= i
    BY <1>3, <1>4
  <2> HIDE DEF S
  <2>2. j - 1 \notin S
    BY <2>1
  <2> QED
    BY <1>4, <2>2
<1>6. j # 0 => \E f : f = Run(f, j - 1)
  BY <1>5
<1> HIDE DEF S
<1>7. CASE j = 0
  <2> DEFINE f == [i \in 0 .. 0 |-> o]
  <2>1. f = Run(f, 0)
    OBVIOUS
  <2> QED
    BY <1>4, <1>7, <2>1
<1>8. CASE j # 0
  <2>1. PICK f : f = Run(f, j - 1)
    BY <1>6, <1>8
  <2> DEFINE g == [i \in 0 .. j |-> IF i = j THEN Walked(d, o, j, f[j - 1]) ELSE f[i]]
  <2>2. ASSUME NEW i \in 0 .. j - 1
        PROVE  f[i] = IF i = 0 THEN o ELSE Walked(d, o, i, f[i - 1])
    BY <2>1, <2>2
  <2>3. ASSUME NEW i \in 0 .. j
        PROVE  g[i] = IF i = 0 THEN o ELSE Walked(d, o, i, g[i - 1])
    <3>1. j \in Int /\ j >= 1
      BY <1>4, <1>8
    <3>2. CASE i = j
      <4>1. i - 1 \in 0 .. j /\ i - 1 # j
        BY <3>1, <3>2
      <4> QED
        BY <3>1, <3>2, <4>1
    <3>3. CASE i # j
      <4>1. i \in 0 .. j - 1 /\ g[i] = f[i]
        BY <3>1, <3>3
      <4>2. i # 0 => i - 1 \in 0 .. j /\ i - 1 # j
        BY <3>1, <3>3
      <4>3. i # 0 => g[i - 1] = f[i - 1]
        BY <4>2
      <4> QED
        BY <2>2, <4>1, <4>3
    <3> QED
      BY <3>2, <3>3
  <2>4. g = Run(g, j)
    BY <2>3
  <2> QED
    BY <1>4, <2>4
<1> QED
  BY <1>7, <1>8

\* A walk of n steps over the list of o finds s.
IsWalk(d, o, n, f, s) ==
  /\ n \in Nat /\ n >= 1
  /\ \A i \in 0 .. n : f[i] = IF i = 0 THEN o ELSE Walked(d, o, i, f[i - 1])
  /\ s = [i \in 1 .. Cardinality({i \in 1 .. n : f[i] # o}) |-> f[i]]

LEMMA LinkedIsWalk ==
  ASSUME NEW d, RingsClosed(d), NEW o \in Polled
  PROVE  \E n, f : IsWalk(d, o, n, f, Linked(d, o))
<1> DEFINE n == Cardinality(DOMAIN d.next)
           f == CHOOSE f : f = [i \in 0 .. n |-> IF i = 0 THEN o ELSE Walked(d, o, i, f[i - 1])]
<1>1. DOMAIN d.next = Node
  BY DEF RingsClosed
<1>2. IsFiniteSet(Node)
  <2>1. IsFiniteSet(Event)
    BY PollAssumption, FS_Product DEF Event
  <2> QED
    BY <2>1, PollAssumption, FS_Union DEF Node
<1>3. n \in Nat /\ n >= 1
  <2>1. n \in Nat /\ n # 0
    BY <1>1, <1>2, FS_CardinalityType, FS_EmptySet DEF Node
  <2> QED
    BY <2>1
<1>4. Linked(d, o) = [i \in 1 .. Cardinality({i \in 1 .. n : f[i] # o}) |-> f[i]]
  BY DEF Linked, Walked
<1> HIDE DEF n
<1>5. f = [i \in 0 .. n |-> IF i = 0 THEN o ELSE Walked(d, o, i, f[i - 1])]
  BY <1>3, WalkExists
<1> HIDE DEF f
<1>6. \A i \in 0 .. n : f[i] = IF i = 0 THEN o ELSE Walked(d, o, i, f[i - 1])
  BY <1>5
<1>7. IsWalk(d, o, n, f, Linked(d, o))
  BY <1>3, <1>4, <1>6 DEF IsWalk
<1> QED
  BY <1>7

\* The walk does not leave the list.
LEMMA LinkedInRing ==
  ASSUME NEW d, RingsClosed(d), NEW o \in Polled, NEW s, s = Linked(d, o)
  PROVE  Len(s) \in Nat /\ \A i \in 1 .. Len(s) : s[i] \in Ring(o)
<1>1. PICK n, f : IsWalk(d, o, n, f, s)
  BY LinkedIsWalk
<1>0. /\ n \in Nat /\ n >= 1
      /\ \A i \in 0 .. n : f[i] = IF i = 0 THEN o ELSE Walked(d, o, i, f[i - 1])
      /\ s = [i \in 1 .. Cardinality({i \in 1 .. n : f[i] # o}) |-> f[i]]
  BY <1>1 DEF IsWalk
<1> DEFINE S == {i \in 1 .. n : f[i] # o}
<1>2. Cardinality(S) \in Nat /\ Cardinality(S) <= n
  <2>1. IsFiniteSet(1 .. n) /\ Cardinality(1 .. n) = n
    BY <1>0, FS_Interval
  <2> QED
    BY <2>1, FS_Subset, FS_CardinalityType
<1>3. PICK m : m = Cardinality(S)
  OBVIOUS
<1>4. s = [i \in 1 .. m |-> f[i]] /\ m \in Nat /\ m <= n
  BY <1>0, <1>2, <1>3
<1> HIDE DEF S
<1>5. \A i \in 0 .. n : f[i] \in Ring(o)
  <2> DEFINE B == {i \in 0 .. n : f[i] \notin Ring(o)}
  <2>1. SUFFICES ASSUME B # {} PROVE FALSE
    OBVIOUS
  <2>2. PICK j : j = Min(B)
    OBVIOUS
  <2>3. j \in B /\ \A i \in B : j <= i
    <3>1. B \in SUBSET Nat
      BY <1>0
    <3> HIDE DEF B
    <3> QED
      BY <2>1, <2>2, <3>1, MinIsLeast
  <2>4. j \in 0 .. n /\ f[j] \notin Ring(o)
    BY <2>3
  <2>5. j # 0 => j - 1 \in 0 .. n /\ f[j - 1] \in Ring(o)
    BY <1>0, <2>3, <2>4
  <2>6. o \in Ring(o)
    BY RingFacts
  <2>7. j # 0
    BY <1>0, <2>4, <2>6
  <2>8. f[j] = Walked(d, o, j, f[j - 1])
    BY <1>0, <2>4, <2>7
  <2>9. Walked(d, o, j, f[j - 1]) \in Ring(o)
    BY <2>5, <2>6, <2>7 DEF Walked, RingsClosed
  <2> QED
    BY <2>4, <2>8, <2>9
<1>6. Len(s) = m
  BY <1>4
<1>7. \A i \in 1 .. m : s[i] = f[i] /\ i \in 0 .. n
  <2>1. n \in Nat
    BY <1>0
  <2> QED
    BY <1>4, <2>1
<1> QED
  BY <1>4, <1>5, <1>6, <1>7

\* A list that is empty, and one that holds the event e and nothing else.
Bare(d, o) == d.next[o] = o /\ d.prev[o] = o

Single(d, e) ==
  /\ d.next[e[2]] = e /\ d.prev[e[2]] = e
  /\ d.next[e] = e[2] /\ d.prev[e] = e[2]

\* What a walk over them finds.
LEMMA LinkedBare ==
  ASSUME NEW d, RingsClosed(d), NEW o \in Polled, Bare(d, o)
  PROVE  Linked(d, o) = <<>>
<1>1. PICK n, f : IsWalk(d, o, n, f, Linked(d, o))
  BY LinkedIsWalk
<1>0. /\ n \in Nat /\ n >= 1
      /\ \A i \in 0 .. n : f[i] = IF i = 0 THEN o ELSE Walked(d, o, i, f[i - 1])
      /\ Linked(d, o) = [i \in 1 .. Cardinality({i \in 1 .. n : f[i] # o}) |-> f[i]]
  BY <1>1 DEF IsWalk
<1>2. \A i \in 0 .. n : f[i] = o
  <2> DEFINE B == {i \in 0 .. n : f[i] # o}
  <2>1. SUFFICES ASSUME B # {} PROVE FALSE
    OBVIOUS
  <2>2. PICK j : j = Min(B)
    OBVIOUS
  <2>3. j \in B /\ \A i \in B : j <= i
    <3>1. B \in SUBSET Nat
      BY <1>0
    <3> HIDE DEF B
    <3> QED
      BY <2>1, <2>2, <3>1, MinIsLeast
  <2>4. j \in 0 .. n /\ f[j] # o
    BY <2>3
  <2>5. j # 0 => j - 1 \in 0 .. n /\ f[j - 1] = o
    BY <1>0, <2>3, <2>4
  <2> QED
    BY <1>0, <2>4, <2>5 DEF Walked, Bare
<1>3. {i \in 1 .. n : f[i] # o} = {}
  BY <1>2
<1>4. Linked(d, o) = [i \in 1 .. 0 |-> f[i]]
  BY <1>0, <1>3, FS_EmptySet
<1> QED
  BY <1>4

LEMMA LinkedSingle ==
  ASSUME NEW d, RingsClosed(d), NEW e \in Event, Single(d, e)
  PROVE  Linked(d, e[2]) = <<e>>
<1> DEFINE o == e[2]
<1>1. o \in Polled /\ e # o
  BY RingFacts
<1>2. PICK n, f : IsWalk(d, o, n, f, Linked(d, o))
  BY <1>1, LinkedIsWalk
<1>0. /\ n \in Nat /\ n >= 1
      /\ \A i \in 0 .. n : f[i] = IF i = 0 THEN o ELSE Walked(d, o, i, f[i - 1])
      /\ Linked(d, o) = [i \in 1 .. Cardinality({i \in 1 .. n : f[i] # o}) |-> f[i]]
  BY <1>2 DEF IsWalk
<1>3. f[0] = o /\ f[1] = e
  BY <1>0 DEF Walked, Single
<1>4. \A i \in 2 .. n : f[i] = o
  <2> DEFINE B == {i \in 2 .. n : f[i] # o}
  <2>1. SUFFICES ASSUME B # {} PROVE FALSE
    OBVIOUS
  <2>2. PICK j : j = Min(B)
    OBVIOUS
  <2>3. j \in B /\ \A i \in B : j <= i
    <3>1. B \in SUBSET Nat
      BY <1>0
    <3> HIDE DEF B
    <3> QED
      BY <2>1, <2>2, <3>1, MinIsLeast
  <2>4. j \in 2 .. n /\ f[j] # o
    BY <2>3
  <2>5. j # 2 => j - 1 \in 2 .. n /\ f[j - 1] = o
    BY <1>0, <2>3, <2>4
  <2>6. f[j] = Walked(d, o, j, f[j - 1])
    BY <1>0, <2>4
  <2>7. f[j - 1] \in {o, e}
    BY <1>3, <2>4, <2>5
  <2>8. Walked(d, o, j, f[j - 1]) = o
    BY <2>4, <2>7 DEF Walked, Single
  <2> QED
    BY <2>4, <2>6, <2>8
<1>5. {i \in 1 .. n : f[i] # o} = {1}
  BY <1>1, <1>0, <1>3, <1>4
<1>6. Linked(d, o) = [i \in 1 .. 1 |-> f[i]]
  BY <1>0, <1>5, FS_Singleton
<1> QED
  BY <1>3, <1>6

-----------------------------------------------------------------------------
(***************************************************************************)
(* The steps.                                                              *)
(***************************************************************************)

LEMMA PollInvInit == PollInit => PollInv
<1> SUFFICES ASSUME PollInit PROVE PollInv
  OBVIOUS
<1>1. SchedInv /\ \A t \in Thread : ~Waits(k, t)
  <2>1. PICK prio \in [Thread -> Prio], delayed \in SUBSET (Thread \ {Main}) :
          k = BootState(prio, delayed)
    BY DEF PollInit, Init
  <2>2. SchedInv
    BY <2>1, BootInv DEF SchedInv
  <2>3. \A t \in Thread : ~Waits(k, t)
    BY <2>1 DEF BootState, Waits
  <2> QED
    BY <2>2, <2>3
<1>2. RingsClosed(lists)
  <2>1. lists = [next |-> [n \in Node |-> n], prev |-> [n \in Node |-> n]]
    BY DEF PollInit, Rings, Node
  <2> QED
    BY <2>1, RingFacts DEF RingsClosed
<1>3. NotPolling \in PollCall /\ CallOk(NotPolling)
  BY DEF NotPolling, PollCall, CallOk, NoDuplicates
<1>4. poll \in [Poller -> PollCall] /\ \A t \in Poller : poll[t] = NotPolling
  BY <1>3 DEF PollInit
<1>5. \A t \in Poller : ThreadOk(t)
  <2>1. NotPolling.pc = "out"
    BY DEF NotPolling
  <2> QED
    BY <1>1, <1>3, <1>4, <2>1, PollAssumption DEF ThreadOk, SleepOk, Told
<1> QED
  BY <1>1, <1>2, <1>4, <1>5 DEF PollInv, PollInit

\* A poller the step does not touch.
LEMMA ThreadFrame ==
  ASSUME PollInv, NEW t \in Poller, Calm(t), poll'[t] = poll[t],
         EventsOf(t) \cap ready \subseteq ready'
  PROVE  ThreadOk(t)'
<1>1. CallOk(poll[t]) /\ SleepOk(t) /\ (Told(t) => EventsOf(t) \cap ready # {})
  BY DEF PollInv, ThreadOk
<1>2. CallOk(poll[t])'
  BY <1>1
<1>3. SleepOk(t)'
  BY <1>1 DEF SleepOk, Calm
<1>4. Told(t)' => Told(t)
  BY <1>1 DEF Told, SleepOk, Calm
<1>5. EventsOf(t)' = EventsOf(t)
  BY DEF EventsOf
<1> QED
  BY <1>1, <1>2, <1>3, <1>4, <1>5 DEF ThreadOk

\* A step of the rest of the system.
LEMMA ElsewhereInv ==
  ASSUME PollInv, Careful, Careful', Elsewhere
  PROVE  PollInv'
<1>1. SchedInv' /\ \A t \in Poller : Calm(t)
  BY ElsewhereCalm DEF PollInv
<1>2. UNCHANGED <<met, lists, registered, ready, poll>>
  BY DEF Elsewhere, pollVars
<1>3. \A t \in Poller : ThreadOk(t)'
  BY <1>1, <1>2, ThreadFrame
<1> QED
  BY <1>1, <1>2, <1>3 DEF PollInv, Pledged

\* A step that leaves the kernel alone.
LEMMA StillCalm ==
  ASSUME UNCHANGED k, NEW t
  PROVE  Calm(t)
  BY DEF Calm

LEMMA LowerInv ==
  ASSUME PollInv, NEW o \in Polled, Lower(o)
  PROVE  PollInv'
<1>1. UNCHANGED <<k, lists, registered, ready, poll>> /\ met' \subseteq met
  BY DEF Lower
<1>2. \A t \in Poller : ThreadOk(t)'
  BY <1>1, StillCalm, ThreadFrame
<1> QED
  BY <1>1, <1>2 DEF PollInv, SchedInv, Pledged

LEMMA PollStartInv ==
  ASSUME PollInv, NEW t \in Poller, NEW nowait \in BOOLEAN,
         NEW objects \in Seq(Polled), NoDuplicates(objects), PollStart(t, objects, nowait)
  PROVE  PollInv'
<1>1. /\ UNCHANGED <<k, met, lists, registered>> /\ ready' \subseteq ready
      /\ ready' = ready \ {<<t, o>> : o \in Polled} /\ t = k.cur /\ poll[t].pc = "out"
      /\ t \in Thread /\ SchedInv
  BY PollAssumption DEF PollStart, Running, PollInv
<1> DEFINE p == [NotPolling EXCEPT !.pc = "scan", !.objects = objects,
                                   !.nowait = nowait, !.polling = TRUE]
<1>2. p \in PollCall /\ CallOk(p)
  <2>1. /\ p.pc = "scan" /\ p.objects = objects /\ p.nowait = nowait /\ p.polling = TRUE
        /\ p.i = 0 /\ p.last = 0
    BY DEF NotPolling
  <2>2. p \in PollCall
    BY DEF NotPolling, PollCall
  <2> HIDE DEF p
  <2> QED
    BY <2>1, <2>2 DEF CallOk
<1>3. poll' = [poll EXCEPT ![t] = p]
  BY DEF PollStart
<1>4. poll'[t] = p /\ (\A u \in Poller \ {t} : poll'[u] = poll[u]) /\ poll' \in [Poller -> PollCall]
  BY <1>2, <1>3 DEF PollInv
<1>5. p.pc = "scan" /\ p.polling /\ p.last = 0
  BY DEF NotPolling
<1> HIDE DEF p
<1>6. ThreadOk(t)'
  BY <1>1, <1>2, <1>4, <1>5, RunnerAwake DEF ThreadOk, SleepOk, Told
<1>7. ASSUME NEW u \in Poller \ {t} PROVE ThreadOk(u)'
  <2>1. EventsOf(u) \cap ready \subseteq ready'
    BY <1>1 DEF EventsOf
  <2> QED
    BY <1>1, <1>4, <2>1, StillCalm, ThreadFrame
<1>8. \A e \in registered : e[1] # t
  <2>1. poll[t].last = 0
    BY <1>1 DEF PollInv, ThreadOk, CallOk
  <2> QED
    BY <2>1 DEF PollInv, Pledged
<1>9. \A e \in registered' : e \in Pledged(e[1])'
  <2> SUFFICES ASSUME NEW e \in registered PROVE e \in Pledged(e[1])'
    BY <1>1
  <2>1. e[1] \in Poller \ {t} /\ e \in Pledged(e[1])
    BY <1>8, RingFacts DEF PollInv
  <2> QED
    BY <1>4, <2>1 DEF Pledged
<1> QED
  BY <1>1, <1>4, <1>6, <1>7, <1>9 DEF PollInv, SchedInv

\* add_event() inserts within the list, at its end when there is nothing on it.
LEMMA AddEventInserts ==
  ASSUME RingsClosed(lists), NEW e \in Event
  PROVE  \E at \in Ring(e[2]) :
           /\ AddEvent(e) = InsertBefore(lists, at, e)
           /\ Bare(lists, e[2]) => at = e[2]
<1> DEFINE s == Linked(lists, e[2])
           lower == {i \in 1 .. Len(s) : k.prio[e[1]] < k.prio[s[i][1]]}
           at == IF lower = {} THEN e[2] ELSE s[Min(lower)]
<1>1. e[2] \in Polled /\ e[2] \in Ring(e[2])
  BY RingFacts
<1>2. Len(s) \in Nat /\ \A i \in 1 .. Len(s) : s[i] \in Ring(e[2])
  BY <1>1, LinkedInRing
<1>3. AddEvent(e) = InsertBefore(lists, at, e)
  BY DEF AddEvent
<1>4. Bare(lists, e[2]) => lower = {}
  BY <1>1, LinkedBare
<1> HIDE DEF s
<1>5. lower # {} => Min(lower) \in lower
  <2>1. lower \in SUBSET Nat
    BY <1>2
  <2> HIDE DEF lower
  <2> QED
    BY <2>1, MinIsLeast
<1>6. at \in Ring(e[2])
  BY <1>1, <1>2, <1>5
<1> QED
  BY <1>3, <1>4, <1>6

\* The progress of one call changes, and of no other.
LEMMA CallsFrame ==
  ASSUME PollInv, NEW t \in Poller, NEW q, poll' = [poll EXCEPT ![t] = q], CallOk(q)
  PROVE  /\ poll' \in [Poller -> PollCall] /\ poll'[t] = q
         /\ \A u \in Poller \ {t} : poll'[u] = poll[u]
  BY DEF PollInv, CallOk

LEMMA CallType ==
  ASSUME NEW p \in PollCall
  PROVE  /\ \A a, b \in Nat : [p EXCEPT !.i = a, !.last = b] \in PollCall
         /\ \A a \in Nat, c \in BOOLEAN : [p EXCEPT !.i = a, !.polling = c] \in PollCall
         /\ \A a \in Nat : [p EXCEPT !.i = a] \in PollCall
         /\ \A b \in Nat, w \in {"out", "scan", "waiting", "clear", "woken"} : [p EXCEPT !.pc = w, !.last = b] \in PollCall
         /\ \A c \in BOOLEAN : [p EXCEPT !.pc = "waiting", !.polling = c] \in PollCall
         /\ \A c \in BOOLEAN : [p EXCEPT !.polling = c] \in PollCall
<1>1. \A a, b \in Nat : [p EXCEPT !.i = a, !.last = b] \in PollCall
  BY DEF PollCall
<1>2. \A a \in Nat, c \in BOOLEAN : [p EXCEPT !.i = a, !.polling = c] \in PollCall
  BY DEF PollCall
<1>3. \A a \in Nat : [p EXCEPT !.i = a] \in PollCall
  BY DEF PollCall
<1>4. \A b \in Nat, w \in {"out", "scan", "waiting", "clear", "woken"} : [p EXCEPT !.pc = w, !.last = b] \in PollCall
  BY DEF PollCall
<1>5. \A c \in BOOLEAN : [p EXCEPT !.pc = "waiting", !.polling = c] \in PollCall
  BY DEF PollCall
<1>6. \A c \in BOOLEAN : [p EXCEPT !.polling = c] \in PollCall
  BY DEF PollCall
<1> QED
  BY <1>1, <1>2, <1>3, <1>4, <1>5, <1>6

\* The event k_poll() looks at.
LEMMA ScanEvent ==
  ASSUME PollInv, NEW t \in Poller, poll[t].i < Len(poll[t].objects),
         NEW o, o = poll[t].objects[poll[t].i + 1]
  PROVE  o \in Polled /\ <<t, o>> \in Event /\ <<t, o>> \in EventsOf(t)
<1>1. /\ poll[t].objects \in Seq(Polled) /\ poll[t].i \in Nat
  BY DEF PollInv, PollCall
<1>2. poll[t].i + 1 \in 1 .. Len(poll[t].objects)
  BY <1>1
<1>3. o \in Polled /\ o \in ToSet(poll[t].objects)
  BY <1>1, <1>2, ToSetIndexed
<1> QED
  BY <1>3 DEF Event, EventsOf

LEMMA PollScanInv ==
  ASSUME PollInv, NEW t \in Poller, PollScan(t)
  PROVE  PollInv'
<1> DEFINE p == poll[t]
<1>1. PICK o : o = p.objects[p.i + 1]
  OBVIOUS
<1>2. PICK e : e = <<t, o>>
  OBVIOUS
<1>3. p \in PollCall /\ CallOk(p) /\ p.i \in Nat /\ p.last \in Nat /\ Len(p.objects) \in Nat
  BY DEF PollInv, ThreadOk, PollCall
<1>4. /\ p.pc = "scan" /\ p.i < Len(p.objects) /\ UNCHANGED <<k, met>> /\ k.cur = t
      /\ t \in Thread /\ SchedInv
  BY PollAssumption DEF PollScan, Running, PollInv
<1>5. o \in Polled /\ e \in Event /\ e \in EventsOf(t) /\ e[1] = t
  BY <1>1, <1>2, <1>4, ScanEvent
<1>6. ~Waits(k, t) /\ \A u : Calm(u)
  BY <1>4, RunnerAwake, StillCalm
<1>7. ASSUME NEW q, poll' = [poll EXCEPT ![t] = q], CallOk(q), q.pc = "scan",
             q.objects = p.objects, q.polling \/ EventsOf(t) \cap ready' # {}, ready \subseteq ready',
             ready' \subseteq Event, registered' \subseteq Event, RingsClosed(lists'),
             \A g \in registered' : \/ g \in registered /\ q.last >= p.last
                                    \/ g = e /\ q.last = p.i + 1
      PROVE  PollInv'
  <2>1. /\ poll' \in [Poller -> PollCall] /\ poll'[t] = q
        /\ \A u \in Poller \ {t} : poll'[u] = poll[u]
    BY <1>7, CallsFrame
  <2>2. ThreadOk(t)'
    <3>1. EventsOf(t)' = EventsOf(t)
      BY <1>7, <2>1 DEF EventsOf
    <3>2. Told(t)' => EventsOf(t) \cap ready' # {}
      BY <1>7, <2>1 DEF Told
    <3> QED
      BY <1>4, <1>6, <1>7, <2>1, <3>1, <3>2 DEF ThreadOk, SleepOk
  <2>3. \A u \in Poller \ {t} : ThreadOk(u)'
    BY <1>6, <1>7, <2>1, ThreadFrame
  <2>4. \A g \in registered' : g \in Pledged(g[1])'
    <3> SUFFICES ASSUME NEW g \in registered' PROVE g \in Pledged(g[1])'
      OBVIOUS
    <3>1. q.last \in Nat
      BY <1>7 DEF CallOk, PollCall
    <3>2. CASE g = e /\ q.last = p.i + 1
      <4>1. p.i + 1 \in 1 .. q.last
        BY <1>3, <3>2
      <4> QED
        BY <1>1, <1>2, <1>5, <1>7, <2>1, <3>2, <4>1 DEF Pledged
    <3>3. CASE g \in registered /\ q.last >= p.last
      <4>1. g[1] \in Poller /\ g \in Pledged(g[1])
        BY <3>3, RingFacts DEF PollInv
      <4>2. CASE g[1] = t
        <5>1. 1 .. p.last \subseteq 1 .. q.last
          BY <1>3, <3>1, <3>3
        <5> QED
          BY <1>7, <2>1, <4>1, <4>2, <5>1 DEF Pledged
      <4>3. CASE g[1] # t
        BY <2>1, <4>1, <4>3 DEF Pledged
      <4> QED
        BY <4>2, <4>3
    <3> QED
      BY <1>7, <3>2, <3>3
  <2> QED
    BY <1>4, <1>7, <2>1, <2>2, <2>3, <2>4 DEF PollInv, SchedInv
<1>8. CASE /\ o \in met
           /\ ready' = ready \cup {e} /\ registered' = registered \ {e}
           /\ poll' = [poll EXCEPT ![t].i = @ + 1, ![t].polling = FALSE]
           /\ UNCHANGED lists
  <2> DEFINE q == [p EXCEPT !.i = @ + 1, !.polling = FALSE]
  <2>1. poll' = [poll EXCEPT ![t] = q]
    BY <1>8 DEF PollInv
  <2>2. /\ q \in PollCall /\ q.pc = "scan" /\ q.objects = p.objects /\ q.last = p.last
        /\ ~q.polling /\ q.i = p.i + 1 /\ q.nowait = p.nowait
    <3>1. q \in PollCall
      <4>1. p.i + 1 \in Nat /\ p.last + 1 \in Nat /\ p \in PollCall
        BY <1>3
      <4> HIDE DEF p
      <4> QED
        BY <4>1, CallType
    <3>2. q.pc = "scan" /\ q.objects = p.objects /\ q.last = p.last /\ q.i = p.i + 1
      BY <1>3, <1>4 DEF PollCall
    <3>3. ~q.polling /\ q.nowait = p.nowait
      BY <1>3 DEF PollCall
    <3> QED
      BY <3>1, <3>2, <3>3
  <2> HIDE DEF q
  <2>3. CallOk(q)
    BY <1>3, <1>4, <2>2 DEF CallOk
  <2>4. EventsOf(t) \cap ready' # {} /\ ready \subseteq ready' /\ ready' \subseteq Event
    BY <1>5, <1>8 DEF PollInv
  <2>5. registered' \subseteq Event /\ RingsClosed(lists')
        /\ \A g \in registered' : g \in registered /\ q.last >= p.last
    BY <1>3, <1>8, <2>2 DEF PollInv
  <2> QED
    BY <1>7, <2>1, <2>2, <2>3, <2>4, <2>5
<1>9. CASE /\ o \notin met /\ p.polling /\ ~p.nowait
           /\ lists' = AddEvent(e) /\ registered' = registered \cup {e}
           /\ poll' = [poll EXCEPT ![t].i = @ + 1, ![t].last = @ + 1]
           /\ UNCHANGED ready
  <2> DEFINE q == [p EXCEPT !.i = @ + 1, !.last = @ + 1]
  <2>1. poll' = [poll EXCEPT ![t] = q]
    BY <1>9 DEF PollInv
  <2>2. /\ q \in PollCall /\ q.pc = "scan" /\ q.objects = p.objects /\ q.last = p.last + 1
        /\ q.polling /\ q.i = p.i + 1 /\ q.nowait = p.nowait
    <3>1. q \in PollCall
      <4>1. p.i + 1 \in Nat /\ p.last + 1 \in Nat /\ p \in PollCall
        BY <1>3
      <4> HIDE DEF p
      <4> QED
        BY <4>1, CallType
    <3>2. q.pc = "scan" /\ q.objects = p.objects /\ q.last = p.last + 1 /\ q.i = p.i + 1
      BY <1>3, <1>4 DEF PollCall
    <3>3. q.polling /\ q.nowait = p.nowait
      BY <1>3, <1>9 DEF PollCall
    <3> QED
      BY <3>1, <3>2, <3>3
  <2> HIDE DEF q
  <2>3. CallOk(q) /\ q.last = p.i + 1
    BY <1>3, <1>4, <1>9, <2>2 DEF CallOk
  <2>4. RingsClosed(lists')
    BY <1>5, <1>9, AddEventInserts, InsertClosed DEF PollInv
  <2>5. registered' \subseteq Event /\ ready' \subseteq Event /\ ready \subseteq ready'
        /\ \A g \in registered' : g = e \/ (g \in registered /\ q.last >= p.last)
    BY <1>3, <1>5, <1>9, <2>2 DEF PollInv
  <2> QED
    BY <1>7, <2>1, <2>2, <2>3, <2>4, <2>5
<1>10. CASE /\ o \notin met /\ (~p.polling \/ p.nowait)
            /\ poll' = [poll EXCEPT ![t].i = @ + 1]
            /\ UNCHANGED <<lists, registered, ready>>
  <2> DEFINE q == [p EXCEPT !.i = @ + 1]
  <2>1. poll' = [poll EXCEPT ![t] = q]
    BY <1>10 DEF PollInv
  <2>2. /\ q \in PollCall /\ q.pc = "scan" /\ q.objects = p.objects /\ q.last = p.last
        /\ q.polling = p.polling /\ q.i = p.i + 1 /\ q.nowait = p.nowait
    BY <1>3, <1>4 DEF PollCall
  <2> HIDE DEF q
  <2>3. CallOk(q)
    BY <1>3, <1>4, <1>10, <2>2 DEF CallOk
  <2>4. q.polling \/ EventsOf(t) \cap ready' # {}
    BY <1>4, <1>10, <2>2 DEF PollInv, ThreadOk, Told
  <2>5. registered' \subseteq Event /\ ready' \subseteq Event /\ ready \subseteq ready'
        /\ RingsClosed(lists') /\ \A g \in registered' : g \in registered /\ q.last >= p.last
    BY <1>3, <1>10, <2>2 DEF PollInv
  <2> QED
    BY <1>7, <2>1, <2>2, <2>3, <2>4, <2>5
<1> QED
  BY <1>1, <1>2, <1>8, <1>9, <1>10 DEF PollScan

\* One round of clear_event_registrations(): what becomes of the call, and of
\* the events it has registered.
LEMMA ClearRound ==
  ASSUME PollInv, NEW t \in Poller, NEW pc \in {"clear", "woken"}, Clear(t, pc)
  PROVE  \E q : /\ poll' = [poll EXCEPT ![t] = q] /\ CallOk(q)
                /\ IF poll[t].last <= 1 THEN q = NotPolling
                   ELSE q.pc = pc /\ q.objects = poll[t].objects /\ q.last = poll[t].last - 1
                /\ \/ poll[t].last = 0 /\ UNCHANGED <<lists, registered>>
                   \/ \E e \in Event : /\ e = <<t, poll[t].objects[poll[t].last]>>
                                       /\ poll[t].last \in 1 .. Len(poll[t].objects)
                                       /\ lists' = Unlink(lists, e) /\ registered' = registered \ {e}
<1>1. PICK p : p = poll[t]
  OBVIOUS
<1>2. p \in PollCall /\ CallOk(p) /\ p.i \in Nat /\ p.last \in Nat /\ p.objects \in Seq(Polled)
  BY <1>1 DEF PollInv, ThreadOk, PollCall
<1>3. CallOk(NotPolling)
  BY DEF NotPolling, PollCall, CallOk, NoDuplicates
<1>4. CASE p.last = 0
  <2>1. poll' = [poll EXCEPT ![t] = NotPolling] /\ UNCHANGED <<lists, registered>>
    BY <1>1, <1>4 DEF Clear
  <2>2. poll[t].last = 0 /\ poll[t].last <= 1
    BY <1>1, <1>4
  <2>3. PICK q : q = NotPolling
    OBVIOUS
  <2>4. poll' = [poll EXCEPT ![t] = q] /\ CallOk(q)
    BY <1>3, <2>1, <2>3
  <2> QED
    BY <2>1, <2>2, <2>3, <2>4
<1>5. CASE p.last # 0
  <2> DEFINE r == [p EXCEPT !.pc = pc, !.last = p.last - 1]
             q == IF p.last = 1 THEN NotPolling ELSE r
             e == <<t, p.objects[p.last]>>
  <2>1. p.last \in 1 .. Len(p.objects)
    BY <1>2, <1>5 DEF CallOk
  <2>2. e \in Event
    BY <1>2, <2>1 DEF Event
  <2>3. lists' = Unlink(lists, e) /\ registered' = registered \ {e} /\ poll' = [poll EXCEPT ![t] = q]
    BY <1>1, <1>5 DEF Clear
  <2>4. r \in PollCall
    <3>1. p.last - 1 \in Nat /\ pc \in {"out", "scan", "waiting", "clear", "woken"}
      BY <1>2, <1>5
    <3> QED
      BY <1>2, <3>1, CallType
  <2>5. r.pc = pc /\ r.objects = p.objects /\ r.last = p.last - 1 /\ r.i = p.i /\ r.nowait = p.nowait
    BY <1>2 DEF PollCall
  <2> HIDE DEF r, e
  <2>6. CallOk(r)
    BY <1>2, <1>5, <2>1, <2>4, <2>5 DEF CallOk
  <2>7. p.last <= 1 <=> p.last = 1
    BY <1>2, <1>5
  <2>8. \E g \in Event : /\ g = <<t, poll[t].objects[poll[t].last]>>
                         /\ poll[t].last \in 1 .. Len(poll[t].objects)
                         /\ lists' = Unlink(lists, g) /\ registered' = registered \ {g}
    BY <1>1, <2>1, <2>2, <2>3 DEF e
  <2>9. CallOk(q) /\ IF p.last <= 1 THEN q = NotPolling
                     ELSE q.pc = pc /\ q.objects = p.objects /\ q.last = p.last - 1
    BY <1>3, <2>5, <2>6, <2>7
  <2> HIDE DEF q
  <2> QED
    BY <1>1, <2>3, <2>8, <2>9
<1> QED
  BY <1>4, <1>5

LEMMA ClearInv ==
  ASSUME PollInv, NEW t \in Poller, Running(t), NEW pc \in {"clear", "woken"}, Clear(t, pc),
         UNCHANGED <<k, met, ready>>,
         pc = "clear" => poll[t].last = 0 \/ EventsOf(t) \cap ready # {},
         pc = "woken" => poll[t].pc \in {"waiting", "woken"}
  PROVE  PollInv'
<1>1. PICK q : /\ poll' = [poll EXCEPT ![t] = q] /\ CallOk(q)
               /\ IF poll[t].last <= 1 THEN q = NotPolling
                  ELSE q.pc = pc /\ q.objects = poll[t].objects /\ q.last = poll[t].last - 1
               /\ \/ poll[t].last = 0 /\ UNCHANGED <<lists, registered>>
                  \/ \E e \in Event : /\ e = <<t, poll[t].objects[poll[t].last]>>
                                      /\ poll[t].last \in 1 .. Len(poll[t].objects)
                                      /\ lists' = Unlink(lists, e) /\ registered' = registered \ {e}
  BY ClearRound
<1>2. /\ poll' \in [Poller -> PollCall] /\ poll'[t] = q
      /\ \A u \in Poller \ {t} : poll'[u] = poll[u]
  BY <1>1, CallsFrame
<1>3. /\ t \in Thread /\ SchedInv /\ k.cur = t /\ poll[t].last \in Nat
      /\ registered \subseteq Event /\ RingsClosed(lists)
  BY PollAssumption DEF Running, PollInv, PollCall
<1>4. ~Waits(k, t) /\ \A u : Calm(u)
  BY <1>3, RunnerAwake, StillCalm
<1>5. ThreadOk(t)'
  <2>1. SleepOk(t)'
    BY <1>4 DEF SleepOk
  <2>2. CASE poll[t].last <= 1
    <3>1. q.pc = "out"
      BY <1>1, <2>2 DEF NotPolling
    <3> QED
      BY <1>1, <1>2, <2>1, <3>1 DEF ThreadOk, Told
  <2>3. CASE ~(poll[t].last <= 1)
    <3>1. q.pc = pc /\ q.objects = poll[t].objects
      BY <1>1, <2>3
    <3>2. EventsOf(t)' = EventsOf(t)
      BY <1>2, <3>1 DEF EventsOf
    <3>3. Told(t)' => EventsOf(t) \cap ready # {}
      BY <1>2, <1>3, <2>3, <3>1 DEF Told, PollInv, ThreadOk
    <3> QED
      BY <1>1, <1>2, <2>1, <3>2, <3>3 DEF ThreadOk
  <2> QED
    BY <2>2, <2>3
<1>6. \A u \in Poller \ {t} : ThreadOk(u)'
  BY <1>2, <1>4, ThreadFrame
<1>7. RingsClosed(lists') /\ registered' \subseteq registered
  BY <1>1, <1>3, UnlinkClosed
<1>8. \A g \in registered' : g \in Pledged(g[1])'
  <2> SUFFICES ASSUME NEW g \in registered' PROVE g \in Pledged(g[1])'
    OBVIOUS
  <2>1. g[1] \in Poller /\ g \in Pledged(g[1])
    BY <1>3, <1>7, RingFacts DEF PollInv
  <2>2. CASE g[1] = t
    <3>1. PICK j \in 1 .. poll[t].last : g = <<t, poll[t].objects[j]>>
      BY <2>1, <2>2 DEF Pledged
    <3>2. j # poll[t].last /\ poll[t].last # 0
      BY <1>1, <1>3, <3>1
    <3>3. j \in 1 .. poll[t].last - 1 /\ ~(poll[t].last <= 1)
      BY <1>3, <3>1, <3>2
    <3> QED
      BY <1>1, <1>2, <2>2, <3>1, <3>3 DEF Pledged
  <2>3. CASE g[1] # t
    BY <1>2, <2>1, <2>3 DEF Pledged
  <2> QED
    BY <2>2, <2>3
<1> QED
  BY <1>2, <1>5, <1>6, <1>7, <1>8 DEF PollInv, SchedInv

LEMMA PollClearInv ==
  ASSUME PollInv, NEW t \in Poller, PollClear(t)
  PROVE  PollInv'
<1>1. Running(t) /\ UNCHANGED <<k, met, ready>>
  BY DEF PollClear
<1>2. CASE poll[t].pc = "clear" /\ Clear(t, "clear")
  <2>1. EventsOf(t) \cap ready # {}
    BY <1>2 DEF PollInv, ThreadOk, Told
  <2> QED
    BY <1>1, <1>2, <2>1, ClearInv
<1>3. CASE poll[t].pc \in {"waiting", "woken"} /\ Clear(t, "woken")
  BY <1>1, <1>3, ClearInv
<1> QED
  BY <1>2, <1>3 DEF PollClear

LEMMA PollDecideInv ==
  ASSUME PollInv, NEW t \in Poller, NEW forever \in BOOLEAN, PollDecide(t, forever)
  PROVE  PollInv'
<1>1. /\ Running(t) /\ poll[t].pc = "scan" /\ poll[t].i = Len(poll[t].objects)
      /\ UNCHANGED <<met, ready>>
  BY DEF PollDecide
<1>2. CASE poll[t].polling /\ ~poll[t].nowait
  <2>1. PICK p : p = poll[t]
    OBVIOUS
  <2>2. p \in PollCall /\ CallOk(p)
    BY <2>1 DEF PollInv, ThreadOk
  <2> DEFINE q == [p EXCEPT !.pc = "waiting", !.polling = FALSE]
  <2>3. /\ k' = PendCurrent(k, PollQ, forever) /\ UNCHANGED <<lists, registered>>
        /\ poll' = [poll EXCEPT ![t].pc = "waiting", ![t].polling = FALSE]
    BY <1>2 DEF PollDecide
  <2>4. poll' = [poll EXCEPT ![t] = q]
    BY <2>1, <2>3 DEF PollInv
  <2>5. q \in PollCall
    BY <2>2, CallType
  <2>6. /\ q.pc = "waiting" /\ q.objects = p.objects /\ q.i = p.i /\ q.last = p.last
        /\ q.nowait = p.nowait
    BY <2>2 DEF PollCall
  <2> HIDE DEF q
  <2>7. CallOk(q)
    BY <1>1, <1>2, <2>1, <2>2, <2>5, <2>6 DEF CallOk
  <2>8. /\ poll' \in [Poller -> PollCall] /\ poll'[t] = q
        /\ \A u \in Poller \ {t} : poll'[u] = poll[u]
    BY <2>4, <2>7, CallsFrame
  <2>9. /\ SchedInv' /\ Waits(k', t) /\ k'.ret[t] = "EAGAIN"
        /\ \A u \in Poller \ {t} : Calm(u)
    BY <1>1, <2>3, PendCalm DEF PollInv
  <2>10. ThreadOk(t)'
    BY <2>6, <2>7, <2>8, <2>9 DEF ThreadOk, SleepOk, Told
  <2>11. \A u \in Poller \ {t} : ThreadOk(u)'
    BY <1>1, <2>8, <2>9, ThreadFrame
  <2>12. \A u \in Poller : Pledged(u)' = Pledged(u)
    BY <2>1, <2>6, <2>8 DEF Pledged
  <2>13. \A g \in registered' : g \in Pledged(g[1])'
    BY <2>3, <2>12, RingFacts DEF PollInv
  <2> QED
    BY <1>1, <2>3, <2>8, <2>9, <2>10, <2>11, <2>13 DEF PollInv
<1>3. CASE ~(poll[t].polling /\ ~poll[t].nowait)
  <2>1. Clear(t, "clear") /\ UNCHANGED k
    BY <1>3 DEF PollDecide
  <2>2. poll[t].last = 0 \/ EventsOf(t) \cap ready # {}
    BY <1>1, <1>3 DEF PollInv, ThreadOk, CallOk, Told
  <2> QED
    BY <1>1, <2>1, <2>2, ClearInv
<1> QED
  BY <1>2, <1>3

\* What signal_poll_event() does to the call that registered e.
Signalled(e) ==
  LET t == e[1]
  IN  \/ /\ e \in registered /\ Waits(k, t) /\ k.tmo[t] = "EXPIRED"
         /\ Calm(t) /\ poll'[t] = poll[t] /\ UNCHANGED <<registered, ready>>
      \/ /\ e \notin registered
         /\ Calm(t) /\ poll'[t] = poll[t] /\ UNCHANGED registered /\ ready' = ready \cup {e}
      \/ /\ e \in registered /\ ~Waits(k', t)
         /\ poll'[t] = [poll[t] EXCEPT !.polling = FALSE]
         /\ registered' = registered \ {e} /\ ready' = ready \cup {e}

LEMMA SignalStep ==
  ASSUME PollInv, NEW isr \in BOOLEAN, Caller(isr), NEW e \in Event,
         NEW result \in {"OK", "EINTR"}, Signal(isr, e, result)
  PROVE  /\ SchedInv' /\ Signalled(e) /\ poll' \in [Poller -> PollCall]
         /\ \A t \in Poller \ {e[1]} : Calm(t) /\ poll'[t] = poll[t]
<1>1. PICK t : t = e[1]
  OBVIOUS
<1>2. t \in Poller /\ poll \in [Poller -> PollCall] /\ poll[t] \in PollCall /\ SchedInv
  BY <1>1, RingFacts DEF PollInv
<1>3. CASE e \in registered /\ Waits(k, t) /\ k.tmo[t] = "EXPIRED"
  <2>1. UNCHANGED <<k, registered, ready, poll>>
    BY <1>1, <1>3 DEF Signal, Waits
  <2>2. \A u : Calm(u)
    BY <2>1, StillCalm
  <2> QED
    BY <1>1, <1>2, <1>3, <2>1, <2>2 DEF Signalled, SchedInv
<1>4. CASE ~(e \in registered /\ Waits(k, t) /\ k.tmo[t] = "EXPIRED")
  <2>1. /\ k' = Leave(isr, IF e \in registered /\ Waits(k, t)
                             THEN ReadyThread([Unpend(k, t) EXCEPT !.ret[t] = result], t) ELSE k)
        /\ poll' = IF e \in registered THEN [poll EXCEPT ![t].polling = FALSE] ELSE poll
        /\ registered' = registered \ {e} /\ ready' = ready \cup {e}
    BY <1>1, <1>4 DEF Signal, Waits
  <2>2. CASE e \notin registered
    <3>1. k' = Leave(isr, k) /\ UNCHANGED <<poll, registered>> /\ ready' = ready \cup {e}
      BY <2>1, <2>2
    <3>2. SchedInv' /\ \A u \in Poller : Calm(u)
      BY <1>2, <3>1, LeaveCalm
    <3>3. Signalled(e)
      BY <1>1, <1>2, <2>2, <3>1, <3>2 DEF Signalled
    <3> QED
      BY <1>2, <3>1, <3>2, <3>3
  <2>3. CASE e \in registered
    <3>1. poll' = [poll EXCEPT ![t].polling = FALSE]
      BY <2>1, <2>3
    <3>2. poll'[t] = [poll[t] EXCEPT !.polling = FALSE] /\ \A u \in Poller \ {t} : poll'[u] = poll[u]
      BY <1>2, <3>1
    <3>3. poll' \in [Poller -> PollCall]
      <4>1. [poll[t] EXCEPT !.polling = FALSE] \in PollCall
        BY <1>2, CallType
      <4> QED
        BY <1>2, <3>1, <4>1
    <3>4. SchedInv' /\ ~Waits(k', t) /\ \A u \in Poller \ {t} : Calm(u)
      <4>1. CASE Waits(k, t)
        <5>1. k' = Leave(isr, ReadyThread([Unpend(k, t) EXCEPT !.ret[t] = result], t))
          BY <2>1, <2>3, <4>1
        <5>2. result \in SwapValue
          BY DEF SwapValue
        <5> QED
          BY <1>2, <4>1, <5>1, <5>2, WakeCalm
      <4>2. CASE ~Waits(k, t)
        <5>1. k' = Leave(isr, k)
          BY <2>1, <4>2
        <5>2. SchedInv' /\ \A u \in Poller : Calm(u)
          BY <1>2, <5>1, LeaveCalm
        <5> QED
          BY <1>2, <4>2, <5>2 DEF Calm
      <4> QED
        BY <4>1, <4>2
    <3>5. Signalled(e)
      BY <1>1, <2>1, <2>3, <3>2, <3>4 DEF Signalled
    <3> QED
      BY <1>1, <3>2, <3>3, <3>4, <3>5
  <2> QED
    BY <2>2, <2>3
<1> QED
  BY <1>3, <1>4

LEMMA HandleEventsInv ==
  ASSUME PollInv, NEW isr \in BOOLEAN, Caller(isr), NEW o \in Polled,
         NEW result \in {"OK", "EINTR"}, HandleEvents(isr, o, result), met' \subseteq Polled
  PROVE  PollInv'
<1>1. PICK e : e = PeekHead(lists, o)
  OBVIOUS
<1>2. CASE e = Null
  <2>1. UNCHANGED <<k, lists, registered, ready, poll>>
    BY <1>1, <1>2 DEF HandleEvents
  <2>2. \A t \in Poller : ThreadOk(t)'
    BY <2>1, StillCalm, ThreadFrame
  <2> QED
    BY <2>1, <2>2 DEF PollInv, SchedInv, Pledged
<1>3. CASE e # Null
  <2>1. e \in Event /\ lists' = Unlink(lists, e) /\ Signal(isr, e, result)
    BY <1>1, <1>3, HeadIsEvent DEF HandleEvents, PollInv
  <2>2. /\ SchedInv' /\ Signalled(e) /\ poll' \in [Poller -> PollCall]
        /\ \A t \in Poller \ {e[1]} : Calm(t) /\ poll'[t] = poll[t]
    BY <2>1, SignalStep
  <2>3. RingsClosed(lists')
    BY <2>1, UnlinkClosed DEF PollInv
  <2>4. ready \subseteq ready' /\ ready' \subseteq Event /\ registered' \subseteq registered
    BY <2>1, <2>2 DEF Signalled, PollInv
  <2>5. \A t \in Poller \ {e[1]} : ThreadOk(t)'
    BY <2>2, <2>4, ThreadFrame
  <2>6. PICK t : t = e[1]
    OBVIOUS
  <2>7. PICK p : p = poll[t]
    OBVIOUS
  <2>8. t \in Poller /\ p \in PollCall /\ CallOk(p)
    BY <2>1, <2>6, <2>7, RingFacts DEF PollInv, ThreadOk
  <2>9. ThreadOk(t)' /\ poll'[t].objects = p.objects /\ poll'[t].last = p.last
    <3>1. CASE Calm(t) /\ poll'[t] = poll[t]
      BY <2>4, <2>7, <2>8, <3>1, ThreadFrame
    <3>2. CASE /\ e \in registered /\ ~Waits(k', t)
               /\ poll'[t] = [p EXCEPT !.polling = FALSE] /\ e \in ready'
      <4> DEFINE q == [p EXCEPT !.polling = FALSE]
      <4>1. q \in PollCall
        BY <2>8, CallType
      <4>2. /\ q.pc = p.pc /\ q.objects = p.objects /\ q.i = p.i /\ q.last = p.last
            /\ q.nowait = p.nowait /\ ~q.polling
        BY <2>8 DEF PollCall
      <4> HIDE DEF q
      <4>3. CallOk(q)
        BY <2>8, <4>1, <4>2 DEF CallOk
      <4>4. e \in EventsOf(t)
        <5>1. PICK j \in 1 .. p.last : e = <<t, p.objects[j]>>
          BY <2>6, <2>7, <3>2 DEF PollInv, Pledged
        <5>2. j \in 1 .. Len(p.objects) /\ p.objects \in Seq(Polled)
          BY <2>8, <5>1 DEF CallOk, PollCall
        <5> QED
          BY <2>7, <5>1, <5>2, ToSetIndexed DEF EventsOf
      <4>5. EventsOf(t)' = EventsOf(t)
        BY <2>7, <3>2, <4>2 DEF EventsOf, q
      <4>6. poll'[t] = q
        BY <3>2 DEF q
      <4> QED
        BY <3>2, <4>2, <4>3, <4>4, <4>5, <4>6 DEF ThreadOk, SleepOk
    <3> QED
      BY <2>2, <2>6, <2>7, <3>1, <3>2 DEF Signalled
  <2>10. \A u \in Poller : Pledged(u)' = Pledged(u)
    BY <2>2, <2>6, <2>7, <2>9 DEF Pledged
  <2>11. \A g \in registered' : g \in Pledged(g[1])'
    BY <2>4, <2>10, RingFacts DEF PollInv
  <2>12. \A u \in Poller : ThreadOk(u)'
    BY <2>5, <2>6, <2>9
  <2> QED
    BY <2>2, <2>3, <2>4, <2>11, <2>12 DEF PollInv
<1> QED
  BY <1>2, <1>3

LEMMA PollInvNext ==
  ASSUME PollInv, Careful, Careful', [PollNext]_<<k, pollVars>>
  PROVE  PollInv'
<1>1. CASE UNCHANGED <<k, pollVars>>
  <2>1. UNCHANGED <<k, met, lists, registered, ready, poll>>
    BY <1>1 DEF pollVars
  <2>2. \A t \in Poller : ThreadOk(t)'
    BY <2>1, StillCalm, ThreadFrame
  <2> QED
    BY <2>1, <2>2 DEF PollInv, SchedInv, Pledged
<1>2. ASSUME NEW o \in Polled, NEW isr \in BOOLEAN, Caller(isr),
             Raise(isr, o) \/ CancelWait(isr, o)
      PROVE  PollInv'
  <2>1. met' \subseteq Polled
    BY <1>2 DEF Raise, CancelWait, PollInv
  <2>2. \E result \in {"OK", "EINTR"} : HandleEvents(isr, o, result)
    BY <1>2 DEF Raise, CancelWait
  <2> QED
    BY <1>2, <2>1, <2>2, HandleEventsInv
<1>3. ASSUME NEW o \in Polled,
             \/ Lower(o) \/ Raise(TRUE, o) \/ CancelWait(TRUE, o)
             \/ \E t \in Thread : Idling(t) /\ (Raise(FALSE, o) \/ CancelWait(FALSE, o))
      PROVE  PollInv'
  BY <1>2, <1>3, LowerInv DEF Caller
<1>4. ASSUME NEW t \in Poller, NEW objects \in UNION {SetToSeqs(s) : s \in SUBSET Polled \ {{}}},
             NEW nowait \in BOOLEAN, PollStart(t, objects, nowait)
      PROVE  PollInv'
  <2>1. PICK s \in SUBSET Polled : objects \in SetToSeqs(s)
    OBVIOUS
  <2>2. objects \in Seq(Polled) /\ NoDuplicates(objects)
    <3>1. IsFiniteSet(s)
      BY PollAssumption, FS_Subset
    <3>2. Cardinality(s) \in Nat
      BY <3>1, FS_CardinalityType
    <3>3. PICK n : n = Cardinality(s)
      OBVIOUS
    <3>4. objects \in [1 .. n -> s] /\ \A i, j \in 1 .. n : i # j => objects[i] # objects[j]
      BY <2>1, <3>3 DEF SetToSeqs
    <3>5. objects \in Seq(Polled) /\ Len(objects) = n
      BY <3>2, <3>3, <3>4
    <3> QED
      BY <3>4, <3>5 DEF NoDuplicates
  <2> QED
    BY <1>4, <2>2, PollStartInv
<1> QED
  BY <1>1, <1>3, <1>4, ElsewhereInv, PollScanInv, PollClearInv, PollDecideInv DEF PollNext

\* The invariant the results below rest on: the progress of every k_poll() agrees with
\* its events, its sleep and what it has been told, the links of the lists stay within
\* the nodes of the same object, and only an event that k_poll() still has to clear
\* names a poller; whatever is polled by whom.  It holds, and so does what follows, as
\* long as the calls are careful.
THEOREM PollInvariant == PollSpec /\ []Careful => []PollInv
<1>1. PollInit => PollInv
  BY PollInvInit
<1>2. PollInv /\ Careful /\ Careful' /\ [PollNext]_<<k, pollVars>> => PollInv'
  BY PollInvNext
<1> QED
  BY <1>1, <1>2, PTL DEF PollSpec

\* The events, the lists and the progress of each k_poll() keep their types,
\* whatever is polled by whom.
THEOREM PollTypeCorrect == PollSpec /\ []Careful => []PollTypeOK
<1>1. PollInv => PollTypeOK
  <2> SUFFICES ASSUME PollInv PROVE PollTypeOK
    OBVIOUS
  <2>1. \A t \in Poller :
          /\ poll[t].pc \in {"out", "scan", "waiting", "clear", "woken"}
          /\ poll[t].i \in 0 .. Len(poll[t].objects) /\ poll[t].last \in 0 .. poll[t].i
    BY DEF PollInv, ThreadOk, CallOk, PollCall
  <2>2. lists \in [next: [Polled \cup Event -> Polled \cup Event],
                   prev: [Polled \cup Event -> Polled \cup Event]]
    BY DEF PollInv, RingsClosed, Node
  <2> QED
    BY <2>1, <2>2 DEF PollInv, PollTypeOK, TypeOK, SchedInv, Inv
<1> QED
  BY <1>1, PollInvariant, PTL

\* A k_poll() that returns 0 has marked one of its events as ready, also when
\* the event came between two rounds of its loops and from an interrupt.
THEOREM SuccessIsShown == PollSpec /\ []Careful => []SuccessHasEvent
<1>1. PollInv => SuccessHasEvent
  BY DEF PollInv, ThreadOk, Told, Waits, SuccessHasEvent
<1> QED
  BY <1>1, PollInvariant, PTL

-----------------------------------------------------------------------------
(***************************************************************************)
(* One poller for each object.                                             *)
(***************************************************************************)

\* No two calls in progress poll the same object: "Only one thread can poll on
\* a semaphore or a FIFO at a time", doc/kernel/other/polling.rst:126.
Unshared ==
  \A t, u \in Poller : t # u => ToSet(poll[t].objects) \cap ToSet(poll[u].objects) = {}

\* The call of t counts on being told when one of its events happens.
Counting(t) ==
  \/ poll[t].pc = "scan" /\ poll[t].polling /\ ~poll[t].nowait
  \/ Undecided(t)

RingOk(o) ==
  Bare(lists, o) \/ \E t \in Poller : <<t, o>> \in Pledged(t) /\ Single(lists, <<t, o>>)

\* An event that is not cleared yet can be unlinked, once more too.
Unlinkable(e) == lists.next[e] = e[2] /\ lists.prev[e] = e[2]

Waiting(e) == Single(lists, e) /\ e \in registered /\ e[2] \notin met

RingsOk ==
  /\ \A o \in Polled : RingOk(o)
  /\ \A t \in Poller : \A e \in Pledged(t) : Unlinkable(e)
  /\ \A t \in Poller : Counting(t) => \A e \in Pledged(t) : Waiting(e)

LEMMA PledgedFacts ==
  ASSUME PollInv, NEW t \in Poller, NEW e \in Pledged(t)
  PROVE  e \in Event /\ e[1] = t /\ e[2] \in Polled /\ e[2] \in ToSet(poll[t].objects)
<1>1. PICK p : p = poll[t]
  OBVIOUS
<1>2. p \in PollCall /\ CallOk(p)
  BY <1>1 DEF PollInv, ThreadOk
<1>3. PICK j \in 1 .. p.last : e = <<t, p.objects[j]>>
  BY <1>1 DEF Pledged
<1>4. j \in 1 .. Len(p.objects) /\ p.objects \in Seq(Polled)
  BY <1>2, <1>3 DEF CallOk, PollCall
<1> QED
  BY <1>1, <1>3, <1>4, ToSetIndexed DEF Event

\* An object's only poller.
LEMMA OnlyPoller ==
  ASSUME PollInv, Unshared, NEW t \in Poller, NEW u \in Poller, NEW g \in Pledged(u),
         g[2] \in ToSet(poll[t].objects)
  PROVE  u = t
  BY PledgedFacts DEF Unshared

\* The call of t in a step that concerns others.
LEMMA CountingFrame ==
  ASSUME NEW t \in Poller, Calm(t), poll'[t] = poll[t], Counting(t)'
  PROVE  Counting(t)
  BY DEF Calm, Counting, Undecided, Waits

\* A step that leaves the lists alone.
LEMMA RingsFrame ==
  ASSUME RingsOk, UNCHANGED lists, met' \subseteq met,
         \A t \in Poller : Pledged(t)' = Pledged(t),
         \A t \in Poller : Counting(t)' =>
            Pledged(t) = {} \/ (Counting(t) /\ Pledged(t) \cap registered \subseteq registered')
  PROVE  RingsOk'
<1>1. \A o \in Polled : RingOk(o)'
  BY DEF RingsOk, RingOk
<1>2. \A t \in Poller : \A e \in Pledged(t)' : Unlinkable(e)'
  BY DEF RingsOk, Unlinkable
<1>3. \A t \in Poller : Counting(t)' => \A e \in Pledged(t)' : Waiting(e)'
  BY DEF RingsOk, Waiting
<1> QED
  BY <1>1, <1>2, <1>3 DEF RingsOk

LEMMA RingsInit == PollInit => RingsOk
<1> SUFFICES ASSUME PollInit PROVE RingsOk
  OBVIOUS
<1>1. lists = [next |-> [n \in Node |-> n], prev |-> [n \in Node |-> n]]
  BY DEF PollInit, Rings, Node
<1>2. \A o \in Polled : Bare(lists, o)
  BY <1>1 DEF Bare, Node
<1>3. \A t \in Poller : Pledged(t) = {}
  BY DEF PollInit, Pledged, NotPolling
<1> QED
  BY <1>2, <1>3 DEF RingsOk, RingOk

LEMMA ElsewhereRings ==
  ASSUME PollInv, RingsOk, Careful, Careful', Elsewhere
  PROVE  RingsOk'
<1>1. \A t \in Poller : Calm(t)
  BY ElsewhereCalm DEF PollInv
<1>2. UNCHANGED <<met, lists, registered, ready, poll>>
  BY DEF Elsewhere, pollVars
<1>3. \A t \in Poller : Pledged(t)' = Pledged(t) /\ (Counting(t)' => Counting(t))
  BY <1>1, <1>2, CountingFrame DEF Pledged
<1> QED
  BY <1>2, <1>3, RingsFrame

LEMMA LowerRings ==
  ASSUME RingsOk, NEW o \in Polled, Lower(o)
  PROVE  RingsOk'
<1>1. UNCHANGED <<k, lists, registered, ready, poll>> /\ met' \subseteq met
  BY DEF Lower
<1>2. \A t \in Poller : Pledged(t)' = Pledged(t) /\ (Counting(t)' => Counting(t))
  BY <1>1, StillCalm, CountingFrame DEF Pledged
<1> QED
  BY <1>1, <1>2, RingsFrame

LEMMA PollStartRings ==
  ASSUME PollInv, RingsOk, NEW t \in Poller, NEW nowait, NEW objects, PollStart(t, objects, nowait)
  PROVE  RingsOk'
<1>1. UNCHANGED <<k, met, lists, registered>> /\ poll[t].pc = "out"
  BY DEF PollStart
<1>2. poll'[t].last = 0 /\ \A u \in Poller \ {t} : poll'[u] = poll[u]
  BY DEF PollStart, PollInv, NotPolling
<1>3. poll[t].last = 0
  BY <1>1 DEF PollInv, ThreadOk, CallOk
<1>4. Pledged(t) = {} /\ Pledged(t)' = {}
  BY <1>2, <1>3 DEF Pledged
<1>5. \A u \in Poller \ {t} : Pledged(u)' = Pledged(u) /\ (Counting(u)' => Counting(u))
  BY <1>1, <1>2, StillCalm, CountingFrame DEF Pledged
<1> QED
  BY <1>1, <1>4, <1>5, RingsFrame

\* A step that changes the list of o and no other.
OtherRings(o) ==
  \A v \in Polled \ {o} : \A n \in Ring(v) :
    lists'.next[n] = lists.next[n] /\ lists'.prev[n] = lists.prev[n]

LEMMA RingChanged ==
  ASSUME RingsOk, NEW o \in Polled, OtherRings(o), met' \subseteq met \cup {o}, RingOk(o)',
         \A t \in Poller : \A g \in Pledged(t)' : g \in Event /\ g[1] = t,
         \A t \in Poller : \A g \in Event : g[2] # o => (g \in Pledged(t)' <=> g \in Pledged(t)),
         \A t \in Poller : \A g \in Pledged(t)' : g[2] = o => Unlinkable(g)',
         \A t \in Poller : Counting(t)' => \A g \in Pledged(t)' :
           IF g[2] = o THEN Waiting(g)' ELSE Counting(t) /\ (g \in registered => g \in registered')
  PROVE  RingsOk'
<1>1. \A g \in Event : g[2] # o =>
        /\ lists'.next[g] = lists.next[g] /\ lists'.prev[g] = lists.prev[g]
        /\ lists'.next[g[2]] = lists.next[g[2]] /\ lists'.prev[g[2]] = lists.prev[g[2]]
  BY RingFacts DEF OtherRings
<1>2. ASSUME NEW v \in Polled, v # o PROVE RingOk(v)'
  <2>1. CASE Bare(lists, v)
    <3>1. Bare(lists, v)'
      BY <1>2, <2>1, RingFacts DEF OtherRings, Bare
    <3> QED
      BY <3>1 DEF RingOk
  <2>2. CASE ~Bare(lists, v)
    <3>1. PICK t \in Poller : <<t, v>> \in Pledged(t) /\ Single(lists, <<t, v>>)
      BY <2>2 DEF RingsOk, RingOk
    <3>2. PICK g : g = <<t, v>>
      OBVIOUS
    <3>3. g \in Event /\ g[2] = v
      BY <3>2, RingFacts
    <3>4. g \in Pledged(t)' /\ Single(lists, g)'
      BY <1>1, <1>2, <3>1, <3>2, <3>3 DEF Single
    <3> QED
      BY <3>2, <3>4 DEF RingOk
  <2> QED
    BY <2>1, <2>2
<1>3. ASSUME NEW t \in Poller, NEW g \in Pledged(t)' PROVE Unlinkable(g)'
  <2>1. CASE g[2] = o
    BY <1>3, <2>1
  <2>2. CASE g[2] # o
    BY <1>1, <1>3, <2>2 DEF RingsOk, Unlinkable
  <2> QED
    BY <2>1, <2>2
<1>4. ASSUME NEW t \in Poller, Counting(t)', NEW g \in Pledged(t)' PROVE Waiting(g)'
  <2>1. CASE g[2] = o
    BY <1>4, <2>1
  <2>2. CASE g[2] # o
    <3>1. g \in Event /\ Counting(t) /\ g \in Pledged(t) /\ (g \in registered => g \in registered')
      BY <1>4, <2>2
    <3>2. Single(lists, g) /\ g \in registered /\ g[2] \notin met
      BY <3>1 DEF RingsOk, Waiting
    <3>3. Single(lists, g)'
      BY <1>1, <2>2, <3>1, <3>2 DEF Single
    <3> QED
      BY <2>2, <3>1, <3>2, <3>3 DEF Waiting
  <2> QED
    BY <2>1, <2>2
<1> QED
  BY <1>2, <1>3, <1>4 DEF RingsOk

LEMMA PollScanRings ==
  ASSUME PollInv, RingsOk, Unshared, NEW t \in Poller, PollScan(t)
  PROVE  RingsOk'
<1>1. PICK p : p = poll[t]
  OBVIOUS
<1>2. PICK o : o = p.objects[p.i + 1]
  OBVIOUS
<1>3. PICK e : e = <<t, o>>
  OBVIOUS
<1>4. /\ p \in PollCall /\ CallOk(p) /\ p.i \in Nat /\ p.last \in Nat /\ Len(p.objects) \in Nat
      /\ p.pc = "scan" /\ p.i < Len(p.objects) /\ UNCHANGED <<k, met>>
      /\ poll \in [Poller -> PollCall]
  BY <1>1 DEF PollInv, ThreadOk, PollCall, PollScan
<1>5. o \in Polled /\ e \in Event /\ e[1] = t /\ e[2] = o
  BY <1>1, <1>2, <1>3, <1>4, ScanEvent
<1>6. \A u : Calm(u)
  BY <1>4, StillCalm
<1>7. CASE /\ lists' = lists /\ poll'[t].objects = p.objects /\ poll'[t].last = p.last
           /\ poll'[t].pc = "scan" /\ (poll'[t].polling => p.polling) /\ poll'[t].nowait = p.nowait
           /\ \A u \in Poller \ {t} : poll'[u] = poll[u]
           /\ registered' = registered \/ (registered' = registered \ {e} /\ ~poll'[t].polling)
  <2>1. \A u \in Poller : Pledged(u)' = Pledged(u)
    BY <1>1, <1>7 DEF Pledged
  <2>2. \A u \in Poller \ {t} : (Counting(u)' => Counting(u)) /\ Pledged(u) \cap registered \subseteq registered'
    BY <1>5, <1>6, <1>7, CountingFrame, PledgedFacts
  <2>3. Counting(t)' => Counting(t) /\ registered' = registered
    BY <1>1, <1>4, <1>7 DEF Counting, Undecided
  <2> QED
    BY <1>4, <1>7, <2>1, <2>2, <2>3, RingsFrame
<1>8. CASE /\ o \notin met /\ p.polling /\ ~p.nowait
           /\ lists' = AddEvent(e) /\ registered' = registered \cup {e}
           /\ poll' = [poll EXCEPT ![t].i = @ + 1, ![t].last = @ + 1]
  <2>1. p.last = p.i /\ NoDuplicates(p.objects)
    BY <1>4, <1>8 DEF CallOk
  <2>2. /\ poll'[t].objects = p.objects /\ poll'[t].last = p.last + 1
        /\ \A u \in Poller \ {t} : poll'[u] = poll[u]
    BY <1>1, <1>4, <1>8 DEF PollCall
  <2>3. Pledged(t)' = Pledged(t) \cup {e} /\ \A u \in Poller \ {t} : Pledged(u)' = Pledged(u)
    <3>1. 1 .. p.last + 1 = (1 .. p.last) \cup {p.i + 1}
      BY <1>4, <2>1
    <3> QED
      BY <1>1, <1>2, <1>3, <2>2, <3>1 DEF Pledged
  <2>4. o \in ToSet(p.objects)
    <3>1. p.i + 1 \in 1 .. Len(p.objects) /\ p.objects \in Seq(Polled)
      BY <1>4 DEF PollCall
    <3> QED
      BY <1>2, <3>1, ToSetIndexed
  <2>5. \A u \in Poller : \A g \in Pledged(u) : g[2] # o
    <3> SUFFICES ASSUME NEW u \in Poller, NEW g \in Pledged(u), g[2] = o PROVE FALSE
      OBVIOUS
    <3>1. u = t
      BY <1>1, <2>4, OnlyPoller
    <3>2. PICK j \in 1 .. p.last : g = <<t, p.objects[j]>>
      BY <1>1, <3>1 DEF Pledged
    <3>3. j \in 1 .. Len(p.objects) /\ p.i + 1 \in 1 .. Len(p.objects) /\ j # p.i + 1
      BY <1>4, <2>1, <3>2
    <3> QED
      BY <1>2, <2>1, <3>2, <3>3 DEF NoDuplicates
  <2>6. Bare(lists, o)
    BY <1>5, <2>5 DEF RingsOk, RingOk
  <2>7. lists' = InsertBefore(lists, o, e)
    BY <1>5, <1>8, <2>6, AddEventInserts DEF PollInv
  <2>8. /\ \A v \in Polled \ {o} : \A n \in Ring(v) : lists'.next[n] = lists.next[n]
                                                   /\ lists'.prev[n] = lists.prev[n]
        /\ \A n \in Node :
             /\ lists'.next[n] = IF n = lists.prev[o] THEN e ELSE IF n = e THEN o ELSE lists.next[n]
             /\ lists'.prev[n] = IF n = o THEN e ELSE IF n = e THEN lists.prev[o] ELSE lists.prev[n]
    <3>1. o \in Ring(e[2])
      BY <1>5, RingFacts
    <3> QED
      BY <1>5, <2>7, <3>1, InsertClosed DEF PollInv
  <2>9. Single(lists, e)'
    <3>1. e \in Node /\ o \in Node /\ e # o
      BY <1>5, RingFacts DEF Node
    <3> QED
      BY <1>5, <2>6, <2>8, <3>1 DEF Single, Bare
  <2>10. RingOk(o)' /\ Unlinkable(e)' /\ Waiting(e)'
    BY <1>3, <1>4, <1>5, <1>8, <2>3, <2>9 DEF RingOk, Single, Unlinkable, Waiting
  <2>11. OtherRings(o)
    BY <2>8 DEF OtherRings
  <2>12. \A u \in Poller : \A g \in Pledged(u)' : g \in Event /\ g[1] = u
    BY <1>5, <2>3, PledgedFacts
  <2>13. \A u \in Poller : \A g \in Pledged(u)' : g[2] = o => g = e
    BY <2>3, <2>5
  <2>14. \A u \in Poller : \A g \in Event : g[2] # o => (g \in Pledged(u)' <=> g \in Pledged(u))
    BY <1>5, <2>3
  <2>15. \A u \in Poller : Counting(u)' => Counting(u)
    <3>1. Counting(t)
      BY <1>1, <1>4, <1>8 DEF Counting
    <3> QED
      BY <1>6, <2>2, <3>1, CountingFrame
  <2>16. registered \subseteq registered' /\ met' \subseteq met \cup {o}
    BY <1>4, <1>8
  <2> QED
    BY <1>5, <2>10, <2>11, <2>12, <2>13, <2>14, <2>15, <2>16, RingChanged
<1>9. CASE /\ o \in met
           /\ ready' = ready \cup {e} /\ registered' = registered \ {e}
           /\ poll' = [poll EXCEPT ![t].i = @ + 1, ![t].polling = FALSE]
           /\ UNCHANGED lists
  <2> DEFINE q == [p EXCEPT !.i = p.i + 1, !.polling = FALSE]
  <2>1. poll'[t] = q /\ \A u \in Poller \ {t} : poll'[u] = poll[u]
    BY <1>1, <1>4, <1>9
  <2>2. q.objects = p.objects /\ q.last = p.last /\ q.pc = "scan"
    BY <1>4 DEF PollCall
  <2>3. ~q.polling /\ q.nowait = p.nowait
    BY <1>4 DEF PollCall
  <2> HIDE DEF q
  <2> QED
    BY <1>7, <1>9, <2>1, <2>2, <2>3
<1>10. CASE /\ o \notin met /\ (~p.polling \/ p.nowait)
            /\ poll' = [poll EXCEPT ![t].i = @ + 1]
            /\ UNCHANGED <<lists, registered, ready>>
  <2> DEFINE q == [p EXCEPT !.i = p.i + 1]
  <2>1. poll'[t] = q /\ \A u \in Poller \ {t} : poll'[u] = poll[u]
    BY <1>1, <1>4, <1>10
  <2>2. q.objects = p.objects /\ q.last = p.last /\ q.pc = "scan"
    BY <1>4 DEF PollCall
  <2>3. q.polling = p.polling /\ q.nowait = p.nowait
    BY <1>4 DEF PollCall
  <2> HIDE DEF q
  <2> QED
    BY <1>7, <1>10, <2>1, <2>2, <2>3
<1> QED
  BY <1>1, <1>2, <1>3, <1>8, <1>9, <1>10 DEF PollScan

\* Unlinking a registered event, linked or not, leaves the list of its object
\* empty and the other lists as they are.
LEMMA UnlinkRing ==
  ASSUME RingsClosed(lists), NEW e \in Event, Unlinkable(e), lists' = Unlink(lists, e)
  PROVE  Bare(lists, e[2])' /\ OtherRings(e[2]) /\ Unlinkable(e)'
<1>1. e[2] \in Polled /\ e \in Node /\ e[2] \in Node /\ e # e[2]
  BY RingFacts DEF Node
<1>2. /\ \A v \in Polled \ {e[2]} : \A n \in Ring(v) :
           lists'.next[n] = lists.next[n] /\ lists'.prev[n] = lists.prev[n]
      /\ \A n \in Node :
           /\ lists'.next[n] = IF n = lists.prev[e] THEN lists.next[e] ELSE lists.next[n]
           /\ lists'.prev[n] = IF n = lists.next[e] THEN lists.prev[e] ELSE lists.prev[n]
  BY UnlinkClosed
<1>3. OtherRings(e[2])
  BY <1>2 DEF OtherRings
<1>4. Bare(lists, e[2])' /\ Unlinkable(e)'
  BY <1>1, <1>2 DEF Unlinkable, Bare
<1> QED
  BY <1>3, <1>4

LEMMA ClearRings ==
  ASSUME PollInv, RingsOk, Unshared, NEW t \in Poller, NEW pc \in {"clear", "woken"},
         Clear(t, pc), UNCHANGED <<k, met, ready>>
  PROVE  RingsOk'
<1>1. PICK q : /\ poll' = [poll EXCEPT ![t] = q] /\ CallOk(q)
               /\ IF poll[t].last <= 1 THEN q = NotPolling
                  ELSE q.pc = pc /\ q.objects = poll[t].objects /\ q.last = poll[t].last - 1
               /\ \/ poll[t].last = 0 /\ UNCHANGED <<lists, registered>>
                  \/ \E e \in Event : /\ e = <<t, poll[t].objects[poll[t].last]>>
                                      /\ poll[t].last \in 1 .. Len(poll[t].objects)
                                      /\ lists' = Unlink(lists, e) /\ registered' = registered \ {e}
  BY ClearRound
<1>2. /\ poll' \in [Poller -> PollCall] /\ poll'[t] = q
      /\ \A u \in Poller \ {t} : poll'[u] = poll[u]
  BY <1>1, CallsFrame
<1>3. NotPolling.pc = "out" /\ NotPolling.last = 0
  BY DEF NotPolling
<1>4. ~Counting(t)'
  BY <1>1, <1>2, <1>3 DEF Counting, Undecided
<1>5. \A u \in Poller \ {t} : Pledged(u)' = Pledged(u) /\ (Counting(u)' => Counting(u))
  BY <1>2, StillCalm, CountingFrame DEF Pledged
<1>6. CASE poll[t].last = 0
  <2>1. q.last = 0 /\ UNCHANGED <<lists, registered>>
    BY <1>1, <1>3, <1>6
  <2>2. Pledged(t)' = Pledged(t)
    BY <1>2, <1>6, <2>1 DEF Pledged
  <2> QED
    BY <1>4, <1>5, <2>1, <2>2, RingsFrame
<1>7. CASE poll[t].last # 0
  <2>1. PICK e \in Event : /\ e = <<t, poll[t].objects[poll[t].last]>>
                           /\ poll[t].last \in 1 .. Len(poll[t].objects)
                           /\ lists' = Unlink(lists, e) /\ registered' = registered \ {e}
    BY <1>1, <1>7
  <2>2. PICK p : p = poll[t]
    OBVIOUS
  <2>3. p.last \in Nat /\ Len(p.objects) \in Nat /\ p.last >= 1 /\ p.last <= Len(p.objects)
        /\ NoDuplicates(p.objects)
    BY <2>1, <2>2 DEF PollInv, ThreadOk, CallOk, PollCall
  <2>4. e \in Pledged(t) /\ e[1] = t /\ e[2] \in Polled /\ e[2] \in ToSet(poll[t].objects)
    <3>1. e \in Pledged(t)
      BY <2>1, <2>2, <2>3 DEF Pledged
    <3> QED
      BY <3>1, PledgedFacts
  <2>5. Pledged(t)' = {<<t, p.objects[j]>> : j \in 1 .. p.last - 1}
    <3>1. CASE p.last <= 1
      <4>1. q.last = 0 /\ p.last = 1
        BY <1>1, <1>3, <2>2, <2>3, <3>1
      <4> QED
        BY <1>2, <4>1 DEF Pledged
    <3>2. CASE ~(p.last <= 1)
      <4>1. q.last = p.last - 1 /\ q.objects = p.objects
        BY <1>1, <2>2, <3>2
      <4> QED
        BY <1>2, <4>1 DEF Pledged
    <3> QED
      BY <3>1, <3>2
  <2>6. Pledged(t)' = Pledged(t) \ {e}
    <3>1. 1 .. p.last - 1 = (1 .. p.last) \ {p.last}
      BY <2>3
    <3>2. \A j \in 1 .. p.last : <<t, p.objects[j]>> = e => j = p.last
      BY <2>1, <2>2, <2>3 DEF NoDuplicates
    <3>3. Pledged(t) = {<<t, p.objects[j]>> : j \in 1 .. p.last}
      BY <2>2 DEF Pledged
    <3>4. e = <<t, p.objects[p.last]>>
      BY <2>1, <2>2
    <3> QED
      BY <2>5, <3>1, <3>2, <3>3, <3>4
  <2>7. \A u \in Poller : \A g \in Pledged(u) : g[2] = e[2] => g = e
    BY <2>1, <2>4, OnlyPoller, PledgedFacts, RingFacts
  <2>8. Bare(lists, e[2])' /\ OtherRings(e[2])
    BY <2>1, <2>4, UnlinkRing DEF PollInv, RingsOk
  <2>9. RingOk(e[2])' /\ met' \subseteq met \cup {e[2]}
    BY <2>8 DEF RingOk
  <2>10. \A u \in Poller : \A g \in Pledged(u)' : g \in Event /\ g[1] = u /\ g[2] # e[2]
    BY <1>5, <2>4, <2>6, <2>7, PledgedFacts
  <2>11. \A u \in Poller : \A g \in Event : g[2] # e[2] => (g \in Pledged(u)' <=> g \in Pledged(u))
    BY <1>5, <2>6
  <2>12. \A u \in Poller : Counting(u)' => Counting(u)
    BY <1>4, <1>5
  <2>13. \A g \in registered : g[2] # e[2] => g \in registered'
    BY <2>1
  <2> QED
    BY <2>4, <2>8, <2>9, <2>10, <2>11, <2>12, <2>13, RingChanged
<1> QED
  BY <1>6, <1>7

LEMMA PollDecideRings ==
  ASSUME PollInv, RingsOk, Unshared, NEW t \in Poller, NEW forever \in BOOLEAN,
         PollDecide(t, forever)
  PROVE  RingsOk'
<1>1. CASE poll[t].polling /\ ~poll[t].nowait
  <2>1. /\ Running(t) /\ poll[t].pc = "scan" /\ k' = PendCurrent(k, PollQ, forever)
        /\ UNCHANGED <<met, lists, registered>>
        /\ poll' = [poll EXCEPT ![t].pc = "waiting", ![t].polling = FALSE]
    BY <1>1 DEF PollDecide
  <2>2. \A u \in Poller \ {t} : Calm(u)
    BY <2>1, PendCalm DEF PollInv
  <2>3. \A u \in Poller \ {t} : poll'[u] = poll[u]
    BY <2>1 DEF PollInv
  <2>4. poll'[t].objects = poll[t].objects /\ poll'[t].last = poll[t].last
    BY <2>1 DEF PollInv, PollCall
  <2>5. \A u \in Poller : Pledged(u)' = Pledged(u)
    BY <2>3, <2>4 DEF Pledged
  <2>6. Counting(t)
    BY <1>1, <2>1 DEF Counting
  <2>7. \A u \in Poller : Counting(u)' => Counting(u)
    BY <2>2, <2>3, <2>6, CountingFrame
  <2> QED
    BY <2>1, <2>5, <2>7, RingsFrame
<1>2. CASE ~(poll[t].polling /\ ~poll[t].nowait)
  BY <1>2, ClearRings DEF PollDecide
<1> QED
  BY <1>1, <1>2

LEMMA HandleEventsRings ==
  ASSUME PollInv, RingsOk, Unshared, NEW isr \in BOOLEAN, Caller(isr), NEW o \in Polled,
         NEW result \in {"OK", "EINTR"}, HandleEvents(isr, o, result), met' \subseteq met \cup {o}
  PROVE  RingsOk'
<1>1. PICK e : e = PeekHead(lists, o)
  OBVIOUS
<1>2. CASE e = Null
  <2>1. UNCHANGED <<k, lists, registered, ready, poll>> /\ lists.next[o] = o
    BY <1>1, <1>2, HeadIsEvent DEF HandleEvents, PollInv
  <2>2. \A t \in Poller : Pledged(t)' = Pledged(t) /\ (Counting(t)' => Counting(t))
    BY <2>1, StillCalm, CountingFrame DEF Pledged
  <2>3. OtherRings(o) /\ RingOk(o)'
    BY <2>1 DEF OtherRings, RingsOk, RingOk, Pledged
  <2>4. \A t \in Poller : \A g \in Pledged(t) : g \in Event /\ g[1] = t
    BY PledgedFacts
  <2>5. \A t \in Poller : \A g \in Pledged(t) : Unlinkable(g)'
    BY <2>1 DEF RingsOk, Unlinkable
  <2>6. \A t \in Poller : Counting(t) => \A g \in Pledged(t) : g[2] # o
    BY <2>1, PledgedFacts, RingFacts DEF RingsOk, Waiting, Single
  <2> QED
    BY <2>1, <2>2, <2>3, <2>4, <2>5, <2>6, RingChanged
<1>3. CASE e # Null
  <2>1. e \in Event /\ lists' = Unlink(lists, e) /\ Signal(isr, e, result) /\ e[2] = o
        /\ e = lists.next[o]
    BY <1>1, <1>3, HeadIsEvent DEF HandleEvents, PollInv
  <2>2. PICK t : t = e[1]
    OBVIOUS
  <2>3. t \in Poller /\ e # o /\ e = <<t, o>>
    BY <2>1, <2>2, RingFacts
  <2>4. e \in Pledged(t) /\ Unlinkable(e)
    <3>1. PICK u \in Poller : <<u, o>> \in Pledged(u) /\ Single(lists, <<u, o>>)
      BY <2>1, <2>3 DEF RingsOk, RingOk, Bare
    <3>2. e = <<u, o>>
      BY <2>1, <3>1 DEF Single
    <3> QED
      BY <2>2, <3>1, <3>2 DEF RingsOk
  <2>5. Bare(lists, o)' /\ OtherRings(o) /\ Unlinkable(e)'
    BY <2>1, <2>4, UnlinkRing DEF PollInv
  <2>6. /\ Signalled(e) /\ \A u \in Poller \ {t} : Calm(u) /\ poll'[u] = poll[u]
    BY <2>1, <2>2, SignalStep
  <2>7. poll'[t].objects = poll[t].objects /\ poll'[t].last = poll[t].last
    BY <2>2, <2>3, <2>6 DEF Signalled, PollInv, PollCall
  <2>8. \A u \in Poller : Pledged(u)' = Pledged(u)
    BY <2>6, <2>7 DEF Pledged
  <2>9. \A u \in Poller : \A g \in Pledged(u) : g[2] = o => g = e
    <3>1. o \in ToSet(poll[t].objects)
      BY <2>1, <2>3, <2>4, PledgedFacts
    <3> QED
      BY <2>1, <2>3, <3>1, OnlyPoller, PledgedFacts, RingFacts
  <2>10. ~Counting(t)'
    <3>1. CASE e \in registered /\ Waits(k, t) /\ k.tmo[t] = "EXPIRED" /\ Calm(t) /\ poll'[t] = poll[t]
      <4>1. poll[t].pc = "waiting"
        BY <2>3, <3>1 DEF PollInv, ThreadOk, SleepOk
      <4> QED
        BY <3>1, <4>1 DEF Counting, Undecided, Calm, Waits
    <3>2. CASE e \notin registered /\ Calm(t) /\ poll'[t] = poll[t]
      <4>1. ~Counting(t)
        BY <2>3, <2>4, <3>2 DEF RingsOk, Waiting
      <4> QED
        BY <2>3, <3>2, <4>1, CountingFrame
    <3>3. CASE ~Waits(k', t) /\ poll'[t] = [poll[t] EXCEPT !.polling = FALSE]
      <4>1. ~poll'[t].polling
        BY <2>3, <3>3 DEF PollInv, PollCall
      <4> QED
        BY <3>3, <4>1 DEF Counting, Undecided, Waits
    <3> QED
      BY <2>2, <2>6, <3>1, <3>2, <3>3 DEF Signalled
  <2>11. \A u \in Poller : Counting(u)' => Counting(u) /\ u # t
    BY <2>6, <2>10, CountingFrame
  <2>12. registered \ {e} \subseteq registered'
    BY <2>6 DEF Signalled
  <2>13. RingOk(o)'
    BY <2>5 DEF RingOk
  <2>14. \A u \in Poller : \A g \in Pledged(u)' : g \in Event /\ g[1] = u
    BY <2>8, PledgedFacts
  <2>15. \A u \in Poller : \A g \in Pledged(u)' : g[2] = o => g = e /\ u = t
    BY <2>2, <2>8, <2>9, <2>14
  <2> QED
    BY <2>1, <2>5, <2>8, <2>11, <2>12, <2>13, <2>14, <2>15, RingChanged
<1> QED
  BY <1>2, <1>3

LEMMA RingsNext ==
  ASSUME PollInv, RingsOk, Unshared, Careful, Careful', [PollNext]_<<k, pollVars>>
  PROVE  RingsOk'
<1>1. CASE UNCHANGED <<k, pollVars>>
  <2>1. UNCHANGED <<k, met, lists, registered, ready, poll>>
    BY <1>1 DEF pollVars
  <2>2. \A t \in Poller : Pledged(t)' = Pledged(t) /\ (Counting(t)' => Counting(t))
    BY <2>1, StillCalm, CountingFrame DEF Pledged
  <2> QED
    BY <2>1, <2>2, RingsFrame
<1>2. ASSUME NEW o \in Polled, NEW isr \in BOOLEAN, Caller(isr),
             Raise(isr, o) \/ CancelWait(isr, o)
      PROVE  RingsOk'
  <2>1. met' \subseteq met \cup {o}
    BY <1>2 DEF Raise, CancelWait
  <2>2. \E result \in {"OK", "EINTR"} : HandleEvents(isr, o, result)
    BY <1>2 DEF Raise, CancelWait
  <2> QED
    BY <1>2, <2>1, <2>2, HandleEventsRings
<1>3. ASSUME NEW o \in Polled,
             \/ Lower(o) \/ Raise(TRUE, o) \/ CancelWait(TRUE, o)
             \/ \E t \in Thread : Idling(t) /\ (Raise(FALSE, o) \/ CancelWait(FALSE, o))
      PROVE  RingsOk'
  BY <1>2, <1>3, LowerRings DEF Caller
<1>4. ASSUME NEW t \in Poller, PollClear(t) PROVE RingsOk'
  BY <1>4, ClearRings DEF PollClear
<1>5. ASSUME NEW t \in Poller, NEW objects, NEW nowait, PollStart(t, objects, nowait) PROVE RingsOk'
  BY <1>5, PollStartRings
<1> QED
  BY <1>1, <1>3, <1>4, <1>5, ElsewhereRings, PollScanRings, PollDecideRings DEF PollNext

\* While no two calls in progress poll the same object, the list of an object is
\* empty or holds the event of its one poller, although clear_event_registration()
\* also unlinks events that signal_poll_event() has taken off their lists.
THEOREM RingsStayOk == PollSpec /\ []Careful /\ []Unshared => []RingsOk
<1>1. PollInit => RingsOk
  BY RingsInit
<1>2. PollInv /\ Unshared /\ RingsOk /\ Careful /\ Careful' /\ [PollNext]_<<k, pollVars>> => RingsOk'
  BY RingsNext
<1> QED
  BY <1>1, <1>2, PollInvariant, PTL DEF PollSpec

\* What the walks over the lists find.
LEMMA ListedEvents ==
  ASSUME PollInv, RingsOk
  PROVE  /\ \A e \in Event : Single(lists, e) => Listed(e[2]) = {e}
         /\ \A o \in Polled : \A g \in Listed(o) : \E t \in Poller : g \in Pledged(t)
<1>1. ASSUME NEW e \in Event, Single(lists, e) PROVE Listed(e[2]) = {e}
  <2>1. Linked(lists, e[2]) = <<e>>
    BY <1>1, LinkedSingle DEF PollInv
  <2> QED
    BY <2>1 DEF Listed, ToSet
<1>2. ASSUME NEW o \in Polled, NEW g \in Listed(o) PROVE \E t \in Poller : g \in Pledged(t)
  <2>1. ~Bare(lists, o)
    <3> SUFFICES ASSUME Bare(lists, o) PROVE FALSE
      OBVIOUS
    <3>1. Linked(lists, o) = <<>>
      BY LinkedBare DEF PollInv
    <3> QED
      BY <1>2, <3>1 DEF Listed, ToSet
  <2>2. PICK t \in Poller : <<t, o>> \in Pledged(t) /\ Single(lists, <<t, o>>)
    BY <2>1 DEF RingsOk, RingOk
  <2>3. PICK e : e = <<t, o>>
    OBVIOUS
  <2>4. e \in Event /\ e[2] = o
    BY <2>3, RingFacts
  <2>5. Listed(o) = {e}
    BY <1>1, <2>2, <2>3, <2>4
  <2> QED
    BY <1>2, <2>2, <2>3, <2>5
<1> QED
  BY <1>1, <1>2

\* The events of a call that waits are all registered.
LEMMA WaitingCall ==
  ASSUME PollInv, RingsOk, NEW t \in Poller, Undecided(t), NEW e \in EventsOf(t)
  PROVE  e \in Event /\ e \in Pledged(t) /\ Waiting(e)
<1>1. PICK p : p = poll[t]
  OBVIOUS
<1>2. p \in PollCall /\ CallOk(p) /\ p.pc = "waiting"
  BY <1>1 DEF PollInv, ThreadOk, Undecided
<1>3. p.objects \in Seq(Polled) /\ p.last = Len(p.objects)
  BY <1>2 DEF CallOk, PollCall
<1>4. PICK o \in ToSet(p.objects) : e = <<t, o>>
  BY <1>1 DEF EventsOf
<1>5. PICK j \in 1 .. Len(p.objects) : p.objects[j] = o
  BY <1>3, <1>4, ToSetIndexed
<1>6. e \in Pledged(t)
  BY <1>1, <1>3, <1>4, <1>5 DEF Pledged
<1> QED
  BY <1>6, PledgedFacts DEF RingsOk, Counting

\* A poller that waits can be found on the list of each of its objects.
THEOREM WaitersAreListed == PollSpec /\ []Careful /\ []Unshared => []WaitersListed
<1>1. PollInv /\ RingsOk => WaitersListed
  BY ListedEvents, WaitingCall DEF WaitersListed, Waiting
<1> QED
  BY <1>1, PollInvariant, RingsStayOk, PTL

\* When k_poll() returns it has left no event on a list and none that names it
\* as its poller.
THEOREM NothingIsLeftBehind == PollSpec /\ []Careful /\ []Unshared => []NothingLeftBehind
<1>1. PollInv /\ RingsOk => NothingLeftBehind
  <2> SUFFICES ASSUME PollInv, RingsOk, NEW e \in Event,
                      e \in registered \cup UNION {Listed(o) : o \in Polled}
               PROVE  poll[e[1]].pc # "out" /\ e \in EventsOf(e[1])
    BY DEF NothingLeftBehind
  <2>1. PICK t \in Poller : e \in Pledged(t)
    <3>1. CASE e \in registered
      BY <3>1, RingFacts DEF PollInv
    <3>2. CASE e \notin registered
      BY <3>2, ListedEvents
    <3> QED
      BY <3>1, <3>2
  <2>2. e[1] = t /\ e[2] \in ToSet(poll[t].objects) /\ e = <<t, e[2]>>
    BY <2>1, PledgedFacts, RingFacts
  <2>3. poll[t].last # 0
    BY <2>1 DEF Pledged
  <2> QED
    BY <2>2, <2>3 DEF PollInv, ThreadOk, CallOk, EventsOf
<1> QED
  BY <1>1, PollInvariant, RingsStayOk, PTL

\* No lost wakeup: while a poller waits, the condition of none of its objects is
\* met, also when it was met between two rounds of k_poll() or by an interrupt.
THEOREM NoConditionIsMissed == PollSpec /\ []Careful /\ []Unshared => []NoMissedCondition
<1>1. PollInv /\ RingsOk => NoMissedCondition
  BY WaitingCall DEF NoMissedCondition, Waiting
<1> QED
  BY <1>1, PollInvariant, RingsStayOk, PTL

\* An application in which one thread polls needs no such promise.
THEOREM OnePollerIsServed ==
  ASSUME \A t, u \in Poller : t = u
  PROVE  PollSpec /\ []Careful => [](WaitersListed /\ NothingLeftBehind /\ NoMissedCondition)
<1>1. Unshared
  BY DEF Unshared
<1> QED
  BY <1>1, WaitersAreListed, NothingIsLeftBehind, NoConditionIsMissed, PTL
=============================================================================
