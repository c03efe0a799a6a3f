-------------------------------- MODULE Pipe --------------------------------
(***************************************************************************)
(* Pipes: kernel/pipes.c.  A call takes the waiting threads it can serve   *)
(* in full off their wait queue, under irq_lock(); it then copies, with    *)
(* interrupts enabled and only the scheduler locked, to or from each of    *)
(* them, to or from the first of those it has to leave in the queue, and   *)
(* the ring buffer, and waits for the rest.  In call[t]:                   *)
(*   write    in k_pipe_put() or k_pipe_block_put(), copying               *)
(*   direct   in k_pipe_get(), copying from the waiting writers            *)
(*   refill   in k_pipe_get(), copying from them into the ring buffer      *)
(*   wait     waiting for the rest, or about to return                     *)
(* An interrupt between two copies can only end waits: a copy and what     *)
(* follows it up to the next one is a step.  The bytes of a message are    *)
(* their positions in it.  A call with K_NO_WAIT that finds less than its  *)
(* minimum changes nothing.  k_pipe_block_put() is called only when a      *)
(* descriptor is free: the wait for one is that of the mailboxes.          *)
(***************************************************************************)
EXTENDS Transfer

CONSTANTS
  Sizes,        \* the sizes a ring buffer may have
  MaxXfer,      \* bound on the bytes of a call
  Program       \* who uses the pipe, and the descriptors not in use elsewhere

ASSUME PipeAssumption ==
  /\ Sizes \subseteq Nat /\ MaxXfer \in Nat \ {0}
  /\ Program \subseteq [users: SUBSET User, free: SUBSET Async]

VARIABLES
  pipe,         \* the ring buffer
  left,         \* left[s]: the bytes thread or descriptor s has still to write
  want,         \* want[t]: the bytes t has still to read (bytes_to_xfer of both)
  sem,          \* sem[d]: the thread whose semaphore descriptor d has
  work,         \* the local variables of the call that is copying
  slack,        \* history: slack[t]: how many bytes t's call may leave undone
  users         \* the threads that use the pipe; they never change

pipeVars == <<pipe, left, want, sem, work, slack, users>>

Byte == 1 .. MaxXfer

\* The descriptor whose request it is, the working set and the waiter.
NoWork == [for |-> NoThread, xfer |-> <<>>, waiter |-> NoThread, wait |-> "forever"]

EmptyPipe(size) ==
  [size |-> size, buffer |-> [i \in 0 .. size - 1 |-> 0], read |-> 0, write |-> 0, used |-> 0]

PipeInit(size, program) ==
  /\ pipe = EmptyPipe(size)
  /\ users = program.users /\ free = program.free
  /\ left = [s \in Thread |-> <<>>] /\ want = [t \in User |-> 0]
  /\ sem = [d \in Async |-> NoThread]
  /\ work = NoWork /\ slack = [t \in User |-> 0]

-----------------------------------------------------------------------------
\* What is left of a message of which n bytes were copied.
Rest(s, n) == SubSeq(s, n + 1, Len(s))

Least(m, n) == IF m < n THEN m ELSE n

\* Mutant: copy only up to the end of the ring buffer's memory.
RoomToEnd(p) == Least(p.size - p.used, p.size - p.write)

\* pipe_buffer_put() copies twice: up to the end, and from the beginning.
Room(p) == p.size - p.used

\* Mutant: the second copy starts with the first byte again.
BufferedAgain(p, s) ==
  LET n == Least(Room(p), Len(s))
  IN  IF n = 0 THEN p
      ELSE [p EXCEPT !.used = @ + n, !.write = (@ + n) % p.size,
                     !.buffer = [i \in DOMAIN @ |->
                                   IF (i - p.write) % p.size >= n THEN @[i]
                                   ELSE s[IF i >= p.write THEN i - p.write + 1 ELSE i + 1]]]

Buffered(p, s) ==
  LET n == Least(Room(p), Len(s))
  IN  IF n = 0 THEN p
      ELSE [p EXCEPT !.used = @ + n, !.write = (@ + n) % p.size,
                     !.buffer = [i \in DOMAIN @ |->
                                   LET j == (i - p.write) % p.size
                                   IN  IF j < n THEN s[j + 1] ELSE @[i]]]

\* pipe_buffer_get() of n bytes; what was read is not looked at again.
Unbuffered(p, n) ==
  IF n = 0 THEN p
  ELSE [p EXCEPT !.used = @ - n, !.read = (@ + n) % p.size,
                 !.buffer = [i \in DOMAIN @ |->
                               IF (i - p.read) % p.size < n THEN 0 ELSE @[i]]]

\* need[x] is bytes_to_xfer of the descriptor of x: of the first i waiting
\* threads, all bytes.
Needed(w, need) ==
  LET sum[i \in 0 .. Len(k.waitq[w])] ==
        IF i = 0 THEN 0 ELSE sum[i - 1] + need[k.waitq[w][i]]
  IN  sum

\* pipe_xfer_prepare() of n bytes for s by the current thread, and
\* _sched_lock(): as many as are served by n bytes leave the wait queue.
Prepare(s, w, need, space, n, min, wait) ==
  LET q   == k.waitq[w]
      sum == Needed(w, need)
      m   == Max({i \in 0 .. Len(q) : sum[i] <= n})
      unpended[i \in 0 .. m] == IF i = 0 THEN k ELSE Unpend(unpended[i - 1], q[i])
  IN  /\ wait = "no" => sum[Len(q)] + space >= min
      /\ work' = [for |-> s, xfer |-> SubSeq(q, 1, m), wait |-> wait,
                  waiter |-> IF m < Len(q) THEN q[m + 1] ELSE NoThread]
      /\ k' = SchedLock(unpended[m])

\* How much a call may leave undone: with K_NO_WAIT what its minimum allows.
Slack(n, min, wait) == CASE wait = "no" -> n - min [] wait = "some" -> n [] wait = "forever" -> 0

\* A wait for "some" time or for ever; _sched_unlock_no_reschedule() leaves the
\* cache as it was.
UnlockNoReschedule(x) == [x EXCEPT !.locked[x.cur] = @ - 1]

\* The caller has copied what it could and waits for the rest, or goes on.
WaitForRest(t, w) ==
  /\ Goto(t, "wait") /\ UNCHANGED slack
  /\ k' = IF work.wait = "no" THEN SchedUnlock(k)
          ELSE PendCurrent(UnlockNoReschedule(k), w, work.wait = "forever")

Complete(t) ==
  /\ Goto(t, "out") /\ slack' = [slack EXCEPT ![t] = 0]
  /\ k' = SchedUnlock(k)

Copying(t, where) == Running(t) /\ call[t] = where

-----------------------------------------------------------------------------
\* k_pipe_put(), and k_pipe_block_put() for a descriptor s it has got, up to
\* the copying.
Put(t, s, n, min, wait) ==
  /\ Outside(t)
  /\ s = t \/ (s \in free /\ min = n /\ wait = "forever")
  /\ Prepare(s, RxQ, want, pipe.size - pipe.used, n, min, wait)
  /\ left' = [left EXCEPT ![s] = [i \in 1 .. n |-> i]]
  /\ slack' = [slack EXCEPT ![t] = Slack(n, min, wait)]
  /\ IF s = t THEN UNCHANGED <<free, owed, sem>>
     ELSE /\ free' = free \ {s} /\ sem' = [sem EXCEPT ![s] = t]
          /\ owed' = [owed EXCEPT ![t] = @ + 1]
  /\ Goto(t, "write") /\ UNCHANGED <<pipe, want>>

\* To a reader of the working set, which is then ready.
PutDirect(t) ==
  LET r == Head(work.xfer)
      n == Least(want[r], Len(left[work.for]))
  IN  /\ Copying(t, "write") /\ work.xfer # <<>>
      /\ want' = [want EXCEPT ![r] = @ - n]
      /\ left' = [left EXCEPT ![work.for] = Rest(@, n)]
      /\ work' = [work EXCEPT !.xfer = Tail(@)]
      /\ k' = ReadyThread(k, r)
      /\ UNCHANGED <<call, free, owed, pipe, sem, slack>>

\* pipe_async_finish().
Finished(s) ==
  /\ free' = free \cup {s} /\ sem' = [sem EXCEPT ![s] = NoThread]
  /\ owed' = [owed EXCEPT ![sem[s]] = @ - 1]

\* To the reader left in the queue, to the ring buffer, and the end.
PutFinish(t) ==
  LET s == work.for
      r == work.waiter
      n == IF r = NoThread THEN 0 ELSE Least(want[r], Len(left[s]))
      m == Least(Room(pipe), Len(left[s]) - n)
  IN  /\ Copying(t, "write") /\ work.xfer = <<>>
      /\ want' = IF n = 0 THEN want ELSE [want EXCEPT ![r] = @ - n]
      /\ pipe' = Buffered(pipe, Rest(left[s], n))
      /\ left' = [left EXCEPT ![s] = Rest(@, n + m)]
      /\ work' = NoWork
      /\ \/ /\ left'[s] = <<>> /\ Complete(t)
            /\ IF s \in Async THEN Finished(s) ELSE UNCHANGED <<free, sem, owed>>
         \/ /\ left'[s] # <<>> /\ s \in Async
            /\ k' = Reschedule(Pend([UnlockNoReschedule(k) EXCEPT !.prio[s] = k.prio[t]],
                                    s, TxQ, TRUE))
            /\ Goto(t, "out") /\ UNCHANGED <<free, sem, owed, slack>>
         \/ /\ left'[s] # <<>> /\ s \in User /\ WaitForRest(t, TxQ)
            /\ UNCHANGED <<free, sem, owed>>

-----------------------------------------------------------------------------
\* Where a reader that still wants n bytes goes on: to copy from the waiting
\* writers or, served or at their end, to refill the ring buffer.
Onward(n, w) == IF n > 0 /\ (w.xfer # <<>> \/ w.waiter # NoThread) THEN "direct" ELSE "refill"

\* k_pipe_get() up to the copying from the waiting writers: the bytes in the
\* ring buffer come first.
Get(t, n, min, wait) ==
  LET m == Least(pipe.used, n)
  IN  /\ Outside(t)
      /\ Prepare(t, TxQ, [s \in Thread |-> Len(left[s])], pipe.used, n, min, wait)
      /\ pipe' = Unbuffered(pipe, m)
      /\ want' = [want EXCEPT ![t] = n - m]
      /\ slack' = [slack EXCEPT ![t] = Slack(n, min, wait)]
      /\ Goto(t, Onward(n - m, work')) /\ UNCHANGED <<free, owed, left, sem>>

\* pipe_thread_ready().
ThreadReady(s) ==
  IF s \in Async THEN Finished(s) /\ UNCHANGED k
  ELSE k' = ReadyThread(k, s) /\ UNCHANGED <<free, sem, owed>>

\* From a writer of the working set, which is then ready unless the reader was
\* served first: the ring buffer takes the rest.
GetDirect(t) ==
  LET s == Head(work.xfer)
      n == Least(want[t], Len(left[s]))
  IN  /\ Copying(t, "direct") /\ work.xfer # <<>>
      /\ want' = [want EXCEPT ![t] = @ - n]
      /\ left' = [left EXCEPT ![s] = Rest(@, n)]
      /\ IF n = want[t] THEN UNCHANGED <<k, work, free, sem, owed>>
         ELSE ThreadReady(s) /\ work' = [work EXCEPT !.xfer = Tail(@)]
      /\ Goto(t, Onward(want[t] - n, work')) /\ UNCHANGED <<pipe, slack>>

\* From the writer left in the queue.
GetFromWaiter(t) ==
  LET s == work.waiter
      n == Least(want[t], Len(left[s]))
  IN  /\ Copying(t, "direct") /\ work.xfer = <<>>
      /\ want' = [want EXCEPT ![t] = @ - n]
      /\ left' = [left EXCEPT ![s] = Rest(@, n)]
      /\ Goto(t, "refill") /\ UNCHANGED <<k, free, owed, pipe, sem, work, slack>>

\* From a writer of the working set into the ring buffer.
GetRefill(t) ==
  LET s == Head(work.xfer)
  IN  /\ Copying(t, "refill") /\ work.xfer # <<>>
      /\ pipe' = Buffered(pipe, left[s])
      /\ left' = [left EXCEPT ![s] = Rest(@, Least(Room(pipe), Len(@)))]
      /\ work' = [work EXCEPT !.xfer = Tail(@)]
      /\ ThreadReady(s) /\ UNCHANGED <<call, want, slack>>

\* From the writer left in the queue into the ring buffer, and the end.
GetFinish(t) ==
  LET s == work.waiter
  IN  /\ Copying(t, "refill") /\ work.xfer = <<>>
      /\ IF s = NoThread THEN UNCHANGED <<pipe, left>>
         ELSE /\ pipe' = Buffered(pipe, left[s])
              /\ left' = [left EXCEPT ![s] = Rest(@, Least(Room(pipe), Len(@)))]
      /\ work' = NoWork
      /\ IF want[t] = 0 THEN Complete(t) ELSE WaitForRest(t, RxQ)
      /\ UNCHANGED <<free, owed, want, sem>>

\* A call returns with what was copied in the meantime.
Return(t) ==
  /\ Running(t) /\ call[t] = "wait" /\ Goto(t, "out")
  /\ left' = [left EXCEPT ![t] = <<>>] /\ want' = [want EXCEPT ![t] = 0]
  /\ slack' = [slack EXCEPT ![t] = 0]
  /\ UNCHANGED <<k, free, owed, pipe, sem, work>>

-----------------------------------------------------------------------------
WorkingSet == ToSet(work.xfer) \cup ({work.waiter} \ {NoThread})

\* A call with nobody in its working set touches nothing that an interrupt
\* could: the clock's is taken before or after it.
PipeElsewhere ==
  /\ \/ Tick /\ (work.for # NoThread => WorkingSet # {})
     \/ \E t, u \in User : Outside(t) /\ (Yield(t) \/ ThreadStart(t, u))
  /\ UNCHANGED <<call, free, owed, pipeVars>>

\* The minimum matters only to a call that does not wait: the others' results
\* are what they have copied compared with it.
PipeCall ==
  \E t \in users :
       \/ PutDirect(t) \/ PutFinish(t) \/ Return(t)
       \/ GetDirect(t) \/ GetFromWaiter(t) \/ GetRefill(t) \/ GetFinish(t)
       \/ \E n \in 1 .. MaxXfer :
            \/ \E s \in {t} \cup free : Put(t, s, n, n, "forever")
            \/ Put(t, t, n, n, "some") \/ Get(t, n, n, "some") \/ Get(t, n, n, "forever")
            \/ \E min \in 1 .. n : Put(t, t, n, min, "no") \/ Get(t, n, min, "no")

PipeNext == PipeElsewhere \/ (PipeCall /\ UNCHANGED users)

-----------------------------------------------------------------------------
PipeType ==
  /\ pipe \in UNION {[size: {size}, buffer: [0 .. size - 1 -> 0 .. MaxXfer], used: 0 .. size,
                      read: 0 .. size, write: 0 .. size] : size \in Sizes}
  /\ \A s \in Thread : ToSet(left[s]) \subseteq Byte
  /\ want \in [User -> 0 .. MaxXfer] /\ slack \in [User -> 0 .. MaxXfer]
  /\ users \subseteq User /\ sem \in [Async -> User \cup {NoThread}]
  /\ work.for \in Thread \cup {NoThread} /\ work.waiter \in Thread \cup {NoThread}

\* Nobody waits in vain: with no copying in progress writers wait only at a
\* full ring buffer and readers only at an empty one, so never both, and each
\* for at least one byte.  While a call copies, all whose memory it may still
\* touch are in their calls, although they may have timed out, and the caller
\* keeps the processor.  A call that is going to return has done what it had to:
\* all of it when it was to wait for ever, its minimum when it was not to wait.
PipeServes ==
  type = "pipe" =>
    /\ work.for = NoThread =>
         /\ \A s \in ToSet(k.waitq[TxQ]) : left[s] # <<>> /\ pipe.used = pipe.size
         /\ \A t \in ToSet(k.waitq[RxQ]) : want[t] > 0 /\ pipe.used = 0
         /\ k.waitq[TxQ] = <<>> \/ k.waitq[RxQ] = <<>>
         /\ \A t \in User : call[t] = "wait" /\ Queued(t) => Len(left[t]) + want[t] <= slack[t]
    /\ work.for # NoThread =>
         /\ k.cur \in User /\ call[k.cur] \in {"write", "direct", "refill"}
         /\ \A s \in WorkingSet : s \in Async \ free \/ (s \in User /\ call[s] = "wait")
    /\ \A t \in User : owed[t] = Cardinality({d \in Async \ free : sem[d] = t})
    /\ \A d \in free : left[d] = <<>> /\ d \notin ToSet(k.waitq[TxQ])

PipeStream == [i \in 1 .. pipe.used |-> pipe.buffer[(pipe.read + i - 1) % pipe.size]]

\* Whose request is in progress: a thread that writes for a descriptor is not
\* in a call of its own.
Busy ==
  {t \in users : call[t] # "out" /\ (call[t] = "write" => work.for = t)}
    \cup {d \in Async : sem[d] # NoThread}

Stream == INSTANCE StreamAbstract
            WITH size <- pipe.size, stream <- PipeStream, busy <- Busy,
                 slack <- [s \in Thread |-> IF s \in User THEN slack[s] ELSE 0],
                 Writer <- Thread, Reader <- User

\* A pipe is a stream: whatever waits time out while bytes are copied, none is
\* lost, doubled or overtaken, through the ring buffer or past it, none is
\* accepted that the pipe has no room for, bytes move only to and from requests
\* in progress, and one ends with bytes left over only as it said it might.
ImplementsStream == Stream!Spec
=============================================================================
