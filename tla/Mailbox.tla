------------------------------ MODULE Mailbox ------------------------------
(***************************************************************************)
(* Mailboxes: kernel/mailbox.c.  A sender and a receiver meet: whichever   *)
(* comes second finds the other in the mailbox's tx or rx queue.  The      *)
(* message stays in the sender's memory until the receiver disposes of it; *)
(* so long a synchronous sender waits, off every queue, and an             *)
(* asynchronous message has a dummy thread that waits in its place.        *)
(* call[t] says where thread t is:                                         *)
(*   put      in k_mbox_put(), waiting for a receiver or for its disposal  *)
(*   alloc    in k_mbox_async_put(), waiting for a free descriptor         *)
(*   get      in k_mbox_get(), waiting for a sender                        *)
(*   consume  in k_mbox_get(), with a message                              *)
(*   hold     outside, with a message whose data it has not retrieved      *)
(*   notify   disposing, before the asynchronous sender's semaphore        *)
(* A call with K_NO_WAIT that finds nobody changes nothing.                *)
(***************************************************************************)
EXTENDS Transfer

CONSTANTS
  Named,        \* the threads that messages are addressed to or asked from
  FreeQ         \* the wait queue of async_msg_free, the stack of unused descriptors

ASSUME MailboxAssumption == Named \subseteq User /\ FreeQ \in WaitQ \ {TxQ, RxQ}

VARIABLES
  tx,           \* tx[s]: the transmit descriptor of a thread or dummy thread
  rx,           \* rx[t]: the receive descriptor of t
  async         \* async[t]: the asynchronous descriptor that t was handed

mailboxVars == <<tx, rx, async>>

\* A descriptor's sender, addressee, whether there is data, the semaphore
\* (that of a thread), and, as history, whether a receiver has taken it.
TxMsg == [source: User \cup {NoThread}, target: User \cup {NoThread}, size: {0, 1},
          sem: User \cup {NoThread}, taken: BOOLEAN]

\* sync is _syncing_thread; sem is the local async_sem of the disposal.
RxMsg == [source: User \cup {NoThread}, sync: Thread \cup {NoThread}, size: {0, 1},
          buffer: BOOLEAN, sem: User \cup {NoThread}]

NoTx == [source |-> NoThread, target |-> NoThread, size |-> 0, sem |-> NoThread, taken |-> FALSE]
NoRx == [source |-> NoThread, sync |-> NoThread, size |-> 0, buffer |-> FALSE, sem |-> NoThread]

MailboxInit ==
  /\ tx = [s \in Thread |-> NoTx] /\ rx = [t \in User |-> NoRx]
  /\ async = [t \in User |-> NoThread]

-----------------------------------------------------------------------------
\* mbox_message_match() of message m and a receiver t that asks for source.
Compatible(m, t, source) == m.target \in {NoThread, t} /\ source \in {NoThread, m.source}

\* The descriptors after a match.
Taken(m, t) == [m EXCEPT !.target = t, !.taken = TRUE]

Received(r, m, s) ==
  [r EXCEPT !.source = m.source, !.sync = s, !.size = IF m.size < @ THEN m.size ELSE @]

\* The first compatible receiver, and the first compatible sender.
Receivers(m) ==
  SelectSeq(k.waitq[RxQ], LAMBDA t : Compatible(m, t, rx[t].source))

\* Mutant: look at the first sender only.
SendersFirst(t, source) ==
  SelectSeq(k.waitq[TxQ], LAMBDA s : s = Head(k.waitq[TxQ]) /\ Compatible(tx[s], t, source))

Senders(t, source) == SelectSeq(k.waitq[TxQ], LAMBDA s : Compatible(tx[s], t, source))

\* Mutant: wake the receiver up and do not tell it why.
MatchedUntold(x, t) == ReadyThread(Unpend(x, t), t)

\* The receiver becomes ready.
Matched(x, t) == [ReadyThread(Unpend(x, t), t) EXCEPT !.ret[t] = "OK"]

\* _pend_current_thread() without a wait queue, for ever.
PendUnqueued(x) ==
  Swap([RemoveFromReadyQ(x, x.cur) EXCEPT !.st[x.cur] = @ \cup {"PENDING"}])

\* k_mbox_put().
MboxPut(t, target, size, forever) ==
  LET m == [NoTx EXCEPT !.source = t, !.target = target, !.size = size]
      receivers == Receivers(m)
      r == Head(receivers)
  IN  /\ Outside(t) /\ Goto(t, "put")
      /\ IF receivers # <<>>
           THEN /\ rx' = [rx EXCEPT ![r] = Received(@, m, t)]
                /\ tx' = [tx EXCEPT ![t] = Taken(m, r)]
                /\ k' = PendUnqueued(Matched(k, r))
           ELSE /\ tx' = [tx EXCEPT ![t] = m]
                /\ k' = PendCurrent(k, TxQ, forever)
                /\ UNCHANGED rx
      /\ UNCHANGED <<async, free, owed>>

PutReturn(t) ==
  /\ Running(t) /\ call[t] = "put" /\ Goto(t, "out")
  /\ tx' = [tx EXCEPT ![t] = NoTx] /\ k' = Swapped(k, t)
  /\ UNCHANGED <<rx, async, free, owed>>

\* k_mbox_async_put() of message m by t, once it has the descriptor d.
AsyncSend(t, d, m, x0) ==
  LET x == [x0 EXCEPT !.prio[d] = x0.prio[t]]
      receivers == Receivers(m)
      r == Head(receivers)
      sent == [tx EXCEPT ![t] = NoTx]
  IN  /\ IF receivers # <<>>
           THEN /\ rx' = [rx EXCEPT ![r] = Received(@, m, d)]
                /\ tx' = [sent EXCEPT ![d] = Taken(m, r)]
                /\ k' = Reschedule(Matched(x, r))
           ELSE /\ tx' = [sent EXCEPT ![d] = m]
                /\ k' = Pend(x, d, TxQ, TRUE)
                /\ UNCHANGED rx
      /\ owed' = IF m.sem = NoThread THEN owed ELSE [owed EXCEPT ![m.sem] = @ + 1]

\* mbox_async_alloc() takes a free descriptor or waits for one, for ever.
MboxAsyncPut(t, target, size, sem) ==
  LET m == [NoTx EXCEPT !.source = t, !.target = target, !.size = size, !.sem = sem]
  IN  /\ Outside(t) /\ UNCHANGED async
      /\ \/ \E d \in free :
              free' = free \ {d} /\ AsyncSend(t, d, m, k) /\ UNCHANGED call
         \/ /\ free = {} /\ Goto(t, "alloc")
            /\ tx' = [tx EXCEPT ![t] = m] /\ k' = PendCurrent(k, FreeQ, TRUE)
            /\ UNCHANGED <<rx, free, owed>>

\* The sender was handed a descriptor.
AsyncAllocated(t) ==
  /\ Running(t) /\ call[t] = "alloc" /\ Goto(t, "out")
  /\ AsyncSend(t, async[t], tx[t], Swapped(k, t))
  /\ async' = [async EXCEPT ![t] = NoThread] /\ UNCHANGED free

\* Mutant: leave the sender's timeout running.
DetachedTimed(x, s) == UnpendNoTimeout(x, s)

\* The sender leaves the tx queue and is not readied.
Detached(x, s) == Unpend(x, s)

\* k_mbox_get() by a receiver with room for the data.
MboxGet(t, source, buffer, forever) ==
  LET asked == [NoRx EXCEPT !.source = source, !.size = 1, !.buffer = buffer]
      senders == Senders(t, source)
      s == Head(senders)
  IN  /\ Outside(t)
      /\ IF senders # <<>>
           THEN /\ rx' = [rx EXCEPT ![t] = Received(asked, tx[s], s)]
                /\ tx' = [tx EXCEPT ![s] = Taken(@, t)]
                /\ k' = Detached(k, s) /\ Goto(t, "consume")
           ELSE /\ rx' = [rx EXCEPT ![t] = asked]
                /\ k' = PendCurrent(k, RxQ, forever) /\ Goto(t, "get")
                /\ UNCHANGED tx
      /\ UNCHANGED <<async, free, owed>>

GetReturn(t) ==
  /\ Running(t) /\ call[t] = "get"
  /\ IF k.ret[t] = "OK" THEN Goto(t, "consume") /\ UNCHANGED rx
     ELSE Goto(t, "out") /\ rx' = [rx EXCEPT ![t] = NoRx]
  /\ k' = Swapped(k, t)
  /\ UNCHANGED <<tx, async, free, owed>>

-----------------------------------------------------------------------------
\* Mutant: forget the semaphore.
AsyncSemNone(s) == NoThread

\* Read before the descriptor is freed, and may be used for another message.
AsyncSem(s) == tx[s].sem

\* mbox_async_free(): k_stack_push() hands the descriptor to the first who waits.
AsyncFree(d) ==
  LET t == Head(k.waitq[FreeQ])
  IN  IF k.waitq[FreeQ] = <<>> THEN free' = free \cup {d} /\ UNCHANGED <<k, async>>
      ELSE k' = Reschedule(Matched(k, t)) /\ async' = [async EXCEPT ![t] = d] /\ UNCHANGED free

\* mbox_message_dispose() of a message of which so much was retrieved.
Dispose(t, size) ==
  LET s == rx[t].sync
      done == [rx EXCEPT ![t] = NoRx]
  IN  /\ IF s \in Async
           THEN /\ AsyncFree(s) /\ tx' = [tx EXCEPT ![s] = NoTx]
                /\ rx' = [done EXCEPT ![t].sem = AsyncSem(s)]
                /\ Goto(t, IF AsyncSem(s) = NoThread THEN "out" ELSE "notify")
           ELSE /\ k' = Reschedule(ReadyThread([k EXCEPT !.ret[s] = "OK",
                                                        !.st[s] = @ \ {"PENDING"}], s))
                /\ tx' = [tx EXCEPT ![s].size = size]
                /\ rx' = done /\ Goto(t, "out")
                /\ UNCHANGED <<free, async>>
      /\ UNCHANGED owed

\* mbox_message_data_check().
Consume(t) ==
  /\ Running(t) /\ call[t] = "consume"
  /\ IF rx[t].buffer \/ rx[t].size = 0 THEN Dispose(t, rx[t].size)
     ELSE Goto(t, "hold") /\ UNCHANGED <<k, mailboxVars, free, owed>>

\* k_mbox_data_get(), into a buffer or to discard the data.
DataGet(t, discard) ==
  /\ Running(t) /\ call[t] = "hold"
  /\ Dispose(t, IF discard THEN 0 ELSE rx[t].size)

\* Mutant: give the semaphore again.
NotifyAgain(t) ==
  /\ Running(t) /\ call[t] = "notify"
  /\ owed' = [owed EXCEPT ![rx[t].sem] = @ - 1]
  /\ UNCHANGED <<k, call, mailboxVars, free>>

\* The rest of an asynchronous disposal: k_sem_give().
Notify(t) ==
  /\ Running(t) /\ call[t] = "notify" /\ Goto(t, "out")
  /\ owed' = [owed EXCEPT ![rx[t].sem] = @ - 1]
  /\ rx' = [rx EXCEPT ![t] = NoRx]
  /\ UNCHANGED <<k, tx, async, free>>

-----------------------------------------------------------------------------
\* The clock, threads that start each other and, outside the mailbox's calls,
\* give up the processor.
MailboxElsewhere ==
  /\ \/ Tick
     \/ \E t \in User, u \in User : call[t] \in {"out", "hold"} /\ (Yield(t) \/ ThreadStart(t, u))
  /\ UNCHANGED <<call, mailboxVars, free, owed>>

\* A message without data is disposed of as one retrieved into a buffer: to
\* send one synchronously, to anybody and for ever, is enough.
MailboxNext ==
  \/ MailboxElsewhere
  \/ \E t \in User :
       \/ PutReturn(t) \/ GetReturn(t) \/ Consume(t) \/ Notify(t) \/ AsyncAllocated(t)
       \/ MboxPut(t, NoThread, 0, TRUE)
       \/ \E discard \in BOOLEAN : DataGet(t, discard)
       \/ \E other \in Named \cup {NoThread} :
            \/ \E buffer, forever \in BOOLEAN : MboxGet(t, other, buffer, forever)
            \/ \E forever \in BOOLEAN : MboxPut(t, other, 1, forever)
            \/ \E sem \in {t, NoThread} : MboxAsyncPut(t, other, 1, sem)

-----------------------------------------------------------------------------
\* The receivers that have not disposed of the message of s.
Holding(s) == {t \in User : rx[t].sync = s}

\* Nobody waits for somebody who is there: a sender and a receiver that go
\* together are never both on their queues (the searches of mbox_message_put
\* and k_mbox_get, whatever others time out or are matched in between).
NoPairLeftWaiting ==
  type = "mailbox" =>
    \A s \in ToSet(k.waitq[TxQ]), t \in ToSet(k.waitq[RxQ]) : ~Compatible(tx[s], t, rx[t].source)

\* The data is there until it is disposed of: a synchronous sender whose
\* message one receiver has (never two) is still in k_mbox_put(), and nothing,
\* no timeout either, will take it out but that receiver.  A sender nobody has
\* a message of is on the tx queue or on its way out.
SenderKept ==
  \A s \in User :
    /\ Cardinality(Holding(s)) <= 1
    /\ Holding(s) # {} => /\ call[s] = "put" /\ ~Queued(s) /\ k.tmo[s] = "INACTIVE"
                          /\ s \notin ToSet(k.waitq[TxQ])
    /\ call[s] = "put" /\ Holding(s) = {} => s \in ToSet(k.waitq[TxQ]) \/ Queued(s)

\* Both sides are told the same: a call that is going to return has the result
\* OK exactly if a message was passed, so no sender repeats as timed out what
\* somebody has received.
ResultsAgree ==
  \A t \in User : Queued(t) =>
    /\ call[t] = "put" => (k.ret[t] = "OK" <=> tx[t].taken)
    /\ call[t] = "get" => (k.ret[t] = "OK" <=> rx[t].sync # NoThread)

\* Every asynchronous descriptor is in one place, nobody waits for one while
\* one is free, and every semaphore given with one is still to be given or has
\* been given once, also when the descriptor is used again between its release
\* and the notification (mbox_async_alloc, mbox_async_free, k_sem_give).
AsyncAccounted ==
  type = "mailbox" =>
    /\ \A d \in Async :
         Cardinality(Holding(d)) + Cardinality({t \in User : async[t] = d})
           + (IF d \in free THEN 1 ELSE 0) + (IF d \in ToSet(k.waitq[TxQ]) THEN 1 ELSE 0) = 1
    /\ k.waitq[FreeQ] # <<>> => free = {}
    /\ \A t \in User :
         owed[t] = Cardinality({d \in Async \ free : tx[d].sem = t})
                     + Cardinality({u \in User : call[u] = "notify" /\ rx[u].sem = t})
=============================================================================
