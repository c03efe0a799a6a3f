------------------------------- MODULE WorkQ -------------------------------
(***************************************************************************)
(* A work queue: kernel/work_q.c, the inline k_work_submit_to_queue() of   *)
(* include/kernel.h, and the alerts of kernel/alert.c, which are delivered *)
(* by a work item.  Threads, the worker and interrupts interleave between  *)
(* the atomic operations and critical sections of the code, the reading of *)
(* the list's tail by k_queue_append() among them.  The list is the        *)
(* sequence of its items and, of the items outside it, those whose next    *)
(* pointer is not null; DataQueue has the pointers themselves.  Interrupts *)
(* do not preempt the clock interrupt.                                     *)
(***************************************************************************)
EXTENDS Integers, Sequences, SequencesExt

CONSTANTS
  Work,         \* the work items,
  Delayed,      \*   those that belong to a delayed work item,
  AlertWork,    \*   and that of the alert
  NoWork,       \* the null pointer
  MaxSent,      \* bound on alerts that have been sent and not delivered
  MaxPending    \* max_num_pending_alerts

ASSUME WorkQAssumption ==
  /\ Delayed \subseteq Work /\ AlertWork \in Work \ Delayed /\ NoWork \notin Work
  /\ MaxSent \in Nat \ {0} /\ MaxPending \in Nat \ {0}

VARIABLES
  queue,        \* work_q->queue
  chained,      \* the items that left it with another one behind them
  pending,      \* the items with K_WORK_STATE_PENDING set
  submitting,   \* the items a submission has marked and not queued yet
  seen,         \* <<w, n>>: the submission of w has read that n is the tail
  worker,       \* the work queue's thread: where it is, and with which item
  attached,     \* the delayed items whose work_q is not null
  counting,     \* the delayed items whose timeout is running
  sends         \* the alert: send_count, whether a sender has to submit, sem

workVars == <<queue, chained, pending, submitting, seen, worker, attached, counting, sends>>

WorkQInit ==
  /\ queue = <<>> /\ chained = {} /\ pending = {} /\ submitting = {} /\ seen = {}
  /\ worker = [pc |-> "get", work |-> NoWork]
  /\ attached = {} /\ counting = {}
  /\ sends = [count |-> 0, owed |-> FALSE, sem |-> 0]

-----------------------------------------------------------------------------
\* sys_sfnode_init() and sys_sflist_insert() of w after prev, into the items q:
\* first without prev; last if nothing comes after prev, in the list or not.
\* Behind an item that left the list with a successor nobody will find w.
Inserted(q, prev, w) ==
  IF prev = NoWork THEN <<w>> \o q
  ELSE IF prev \in ToSet(q) THEN InsertAt(q, 1 + CHOOSE i \in 1 .. Len(q) : q[i] = prev, w)
  ELSE IF prev \in chained THEN q
  ELSE Append(q, w)

Lost(q, prev) == prev \in chained \ ToSet(q)

LastOf(q) == IF q = <<>> THEN NoWork ELSE Last(q)

\* queue_insert(), when the list holds q: a waiting worker is handed the item.
Put(q, prev, w) ==
  IF worker.pc = "wait"
    THEN /\ worker' = [pc |-> "test", work |-> w]
         /\ queue' = q /\ UNCHANGED chained
    ELSE /\ queue' = Inserted(q, prev, w)
         /\ chained' = IF Lost(q, prev) THEN chained \cup {w} ELSE chained \ {w}
         /\ UNCHANGED worker

\* k_work_submit_to_queue(): mark the item, read the tail, and lock interrupts.
WorkSubmit(w) ==
  /\ w \notin pending
  /\ pending' = pending \cup {w} /\ submitting' = submitting \cup {w}
  /\ UNCHANGED <<queue, chained, seen, worker, attached, counting>>

WorkPeek(w) ==
  /\ w \in submitting /\ \A pair \in seen : pair[1] # w
  /\ seen' = seen \cup {<<w, LastOf(queue)>>}
  /\ UNCHANGED <<queue, chained, pending, submitting, worker, attached, counting, sends>>

WorkAppend(w, prev) ==
  /\ <<w, prev>> \in seen /\ seen' = seen \ {<<w, prev>>}
  /\ submitting' = submitting \ {w}
  /\ Put(queue, prev, w)
  /\ UNCHANGED <<pending, attached, counting, sends>>

\* The same with interrupts locked, of an item that is not pending.
SubmitLocked(q, w) == Put(q, LastOf(q), w)

-----------------------------------------------------------------------------
(***************************************************************************)
(* Delayed work.                                                           *)
(***************************************************************************)

\* k_delayed_work_cancel() returns 0 for an attached item unless it has just
\* left the queue for the worker.
Cancellable(w) == w \in pending => w \in ToSet(queue)

\* k_queue_remove(): the list without the first node that is w.
Unqueued(w) ==
  IF w \in ToSet(queue) THEN RemoveAt(queue, CHOOSE i \in 1 .. Len(queue) : queue[i] = w)
  ELSE queue

\* A pending item leaves the queue, another one's timeout is aborted.
Cancelled(w) ==
  [queue    |-> Unqueued(w),
   pending  |-> pending \ {w},
   counting |-> IF w \in pending THEN counting ELSE counting \ {w}]

\* Mutant: detach the item and leave it in the queue.
DelayedCancelQueued(w) ==
  /\ w \in attached /\ Cancellable(w)
  /\ attached' = attached \ {w} /\ counting' = counting \ {w}
  /\ UNCHANGED <<queue, chained, pending, submitting, seen, worker, sends>>

DelayedCancel(w) ==
  /\ w \in attached /\ Cancellable(w)
  /\ queue' = Cancelled(w).queue /\ pending' = Cancelled(w).pending
  /\ attached' = attached \ {w} /\ counting' = Cancelled(w).counting
  /\ UNCHANGED <<chained, submitting, seen, worker, sends>>

DelayedSubmit(w, delay) ==
  /\ w \in attached => Cancellable(w)
  /\ attached' = attached \cup {w}
  /\ IF delay
       THEN /\ counting' = counting \cup {w}
            /\ queue' = Cancelled(w).queue /\ pending' = Cancelled(w).pending
            /\ UNCHANGED <<chained, worker>>
       ELSE /\ counting' = Cancelled(w).counting
            /\ SubmitLocked(Cancelled(w).queue, w) /\ pending' = pending \cup {w}
  /\ UNCHANGED <<submitting, seen, sends>>

\* The clock interrupt: work_timeout().
WorkTimeout(w) ==
  /\ w \in counting /\ counting' = counting \ {w}
  /\ IF w \in pending THEN UNCHANGED <<queue, chained, worker>> ELSE SubmitLocked(queue, w)
  /\ pending' = pending \cup {w}
  /\ UNCHANGED <<submitting, seen, attached, sends>>

-----------------------------------------------------------------------------
(***************************************************************************)
(* The worker: work_q_main().                                              *)
(***************************************************************************)

\* Mutant: the last item first.
WorkerGetLast ==
  /\ worker.pc = "get" /\ queue # <<>>
  /\ worker' = [pc |-> "test", work |-> Last(queue)] /\ queue' = Front(queue)
  /\ UNCHANGED <<chained, pending, submitting, seen, attached, counting, sends>>

\* The item's next pointer stays.
WorkerGet ==
  /\ worker.pc = "get" /\ queue # <<>>
  /\ worker' = [pc |-> "test", work |-> Head(queue)] /\ queue' = Tail(queue)
  /\ chained' = IF Len(queue) > 1 THEN chained \cup {Head(queue)} ELSE chained
  /\ UNCHANGED <<pending, submitting, seen, attached, counting, sends>>

WorkerWait ==
  /\ worker.pc = "get" /\ queue = <<>>
  /\ worker' = [pc |-> "wait", work |-> NoWork]
  /\ UNCHANGED <<queue, chained, pending, submitting, seen, attached, counting, sends>>

\* Mutant: reset the pending state when the handler has returned, not before.
WorkerTestLate ==
  /\ worker.pc = "test" /\ worker' = [worker EXCEPT !.pc = "run"]
  /\ UNCHANGED <<queue, chained, pending, submitting, seen, attached, counting, sends>>

WorkerTest ==
  /\ worker.pc = "test"
  /\ pending' = pending \ {worker.work}
  /\ worker' = IF worker.work \in pending THEN [worker EXCEPT !.pc = "run"]
               ELSE [pc |-> "get", work |-> NoWork]
  /\ UNCHANGED <<queue, chained, submitting, seen, attached, counting, sends>>

\* The handler of an item other than the alert's returns.
WorkerDone ==
  /\ worker.pc = "run" /\ worker.work # AlertWork
  /\ worker' = [pc |-> "get", work |-> NoWork]
  /\ UNCHANGED <<queue, chained, pending, submitting, seen, attached, counting, sends>>

-----------------------------------------------------------------------------
(***************************************************************************)
(* The alert, with a handler.                                              *)
(***************************************************************************)

\* The handler has been called: what it does not handle is kept for
\* k_alert_recv().
Delivered(unhandled) ==
  [sends EXCEPT !.count = @ - 1,
                !.sem = IF unhandled /\ @ < MaxPending THEN @ + 1 ELSE @]

\* Mutant: stop when the count has been zero already.
AlertDeliverPast(unhandled) ==
  /\ worker.pc = "run" /\ worker.work = AlertWork
  /\ sends' = Delivered(unhandled)
  /\ worker' = IF sends.count = 0 THEN [pc |-> "get", work |-> NoWork] ELSE worker
  /\ UNCHANGED <<queue, chained, pending, submitting, seen, attached, counting>>

\* Mutant: deliver one alert only.
AlertDeliverOne(unhandled) ==
  /\ worker.pc = "run" /\ worker.work = AlertWork
  /\ sends' = Delivered(unhandled)
  /\ worker' = [pc |-> "get", work |-> NoWork]
  /\ UNCHANGED <<queue, chained, pending, submitting, seen, attached, counting>>

\* One round of _alert_deliver(): the handler, then atomic_dec().
AlertDeliver(unhandled) ==
  /\ worker.pc = "run" /\ worker.work = AlertWork
  /\ sends' = Delivered(unhandled)
  /\ worker' = IF sends.count = 1 THEN [pc |-> "get", work |-> NoWork] ELSE worker
  /\ UNCHANGED <<queue, chained, pending, submitting, seen, attached, counting>>

\* k_alert_send(): atomic_inc(), and the first sender submits the item.
AlertSend ==
  /\ sends.count < MaxSent
  /\ sends' = [sends EXCEPT !.count = @ + 1, !.owed = @ \/ sends.count = 0]
  /\ UNCHANGED <<queue, chained, pending, submitting, seen, worker, attached, counting>>

AlertSubmit ==
  /\ sends.owed /\ sends' = [sends EXCEPT !.owed = FALSE]
  /\ IF AlertWork \in pending
       THEN UNCHANGED <<queue, chained, pending, submitting, seen, worker, attached, counting>>
       ELSE WorkSubmit(AlertWork)

\* k_alert_recv() of a pending alert: k_sem_take().
AlertRecv ==
  /\ sends.sem > 0 /\ sends' = [sends EXCEPT !.sem = @ - 1]
  /\ UNCHANGED <<queue, chained, pending, submitting, seen, worker, attached, counting>>

-----------------------------------------------------------------------------
WorkerStep ==
  \/ WorkerGet \/ WorkerWait \/ WorkerTest \/ WorkerDone
  \/ \E unhandled \in BOOLEAN : AlertDeliver(unhandled)

WorkQNext ==
  \/ WorkerStep \/ AlertSend \/ AlertSubmit \/ AlertRecv
  \/ \E w \in Work : WorkPeek(w) \/ \E prev \in Work \cup {NoWork} : WorkAppend(w, prev)
  \/ \E w \in Work \ (Delayed \cup {AlertWork}) : WorkSubmit(w) /\ UNCHANGED sends
  \/ \E w \in Delayed :
       \/ DelayedCancel(w) \/ WorkTimeout(w)
       \/ \E delay \in BOOLEAN : DelayedSubmit(w, delay)

\* The worker runs, the clock ticks, and those who submit are not stopped half
\* way.
WorkQFairness ==
  /\ WF_workVars(WorkerStep) /\ WF_workVars(AlertSubmit)
  /\ \A w \in Work : /\ WF_workVars(WorkPeek(w))
                     /\ WF_workVars(\E prev \in Work \cup {NoWork} : WorkAppend(w, prev))
  /\ \A w \in Delayed : WF_workVars(WorkTimeout(w))

WorkQSpec == WorkQInit /\ [][WorkQNext]_workVars /\ WorkQFairness

\* While a submission is between its reading of the tail and its lock, the
\* item it read does not leave the list with another one behind it.  The code
\* does nothing to bring this about.
AppendsSafe == \A pair \in seen : ~Lost(queue, pair[2])

\* The behaviours in which it happens to be so.
CarefulWorkQSpec == WorkQInit /\ [][WorkQNext /\ AppendsSafe']_workVars /\ WorkQFairness

-----------------------------------------------------------------------------
\* The queue, the flags and the worker's place have their types, and send_count
\* and the semaphore of the alert stay in their bounds (_alert_deliver).
WorkQTypeOK ==
  /\ queue \in Seq(Work) /\ chained \subseteq Work
  /\ pending \subseteq Work /\ submitting \subseteq Work
  /\ seen \subseteq submitting \X (Work \cup {NoWork})
  /\ worker \in [pc: {"get", "wait", "test", "run"}, work: Work \cup {NoWork}]
  /\ attached \subseteq Delayed /\ counting \subseteq Delayed
  /\ sends \in [count: 0 .. MaxSent, owed: BOOLEAN, sem: 0 .. MaxPending]

\* The pending flag is exact: an item that has it is in one place on its way
\* to its handler, and only such an item (k_work_submit_to_queue, work_q_main
\* and k_delayed_work_cancel between each other's steps), as long as AppendsSafe.
PendingExact ==
  /\ \A i, j \in 1 .. Len(queue) : queue[i] = queue[j] => i = j
  /\ \A w \in Work :
       LET places == <<w \in ToSet(queue), w \in submitting,
                       worker.pc = "test" /\ worker.work = w>>
       IN  IF w \in pending THEN \E i \in 1 .. 3 : \A j \in 1 .. 3 : places[j] <=> i = j
           ELSE \A i \in 1 .. 3 : ~places[i]

\* A delayed item that was cancelled, and not submitted again, neither counts
\* down nor waits for its handler, and one that counts down is not queued too:
\* no countdown ends for an item that is detached or would run twice.  (An item
\* already queued is cancelled too, as tests and code have it, against
\* doc/kernel/threads/workqueues.rst:121-125.)
CancelIsFinal ==
  \A w \in Delayed :
    /\ w \in counting \cup pending => w \in attached
    /\ w \notin counting \cap pending

\* No alert is forgotten: while alerts are to be delivered, the item that
\* delivers them is queued, being handled, or about to be submitted, whenever
\* the last delivery and the next send meet.
AlertIsServed ==
  sends.count > 0 =>
    sends.owed \/ AlertWork \in pending \/ (worker.pc = "run" /\ worker.work = AlertWork)

Resubmit(w) == w \in Delayed /\ \E delay \in BOOLEAN : DelayedSubmit(w, delay)

Runs(w) == worker.pc = "run" /\ worker.work = w

\* What is submitted is done: the handler of an item that is queued or counts
\* down runs, unless the item is cancelled or keeps being submitted again, as
\* long as AppendsSafe and the worker comes back from its handlers (alerts sent
\* as fast as _alert_deliver() delivers them keep it for ever).
SubmittedIsRun ==
  []<>(worker.pc \in {"get", "wait"}) =>
    \A w \in Work :
      \/ []<><<Resubmit(w)>>_workVars
      \/ w \in pending \cup counting ~> Runs(w) \/ w \in Delayed \ attached
=============================================================================
