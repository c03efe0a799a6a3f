# Formal model of the Sakura kernel

This directory holds a TLA+ model of the kernel of this repository: the real-time
kernel under `kernel/` (a Zephyr 1.13 derivative) as it is built for the Cortex-M4
board, that is uniprocessor, with preemption, time slicing and the list
implementations of the queues (`CONFIG_SCHED_DUMB`, `CONFIG_WAITQ_DUMB`), without
SMP, user mode, tickless kernel and meta-IRQ priorities. Polling (`CONFIG_POLL`) is
modelled by itself; the objects are modelled as they are built without it. TLC checks
the models on small instances; TLAPS proves the central theorems about the scheduler,
semaphores, mutexes, timers, the objects that pass data, work queues and polling for all
of them.

## 1. Inventory

### 1.1 Components, state and operations

| Component | Source | State | Operations |
|---|---|---|---|
| Scheduler | `kernel/sched.c`, `kernel/include/ksched.h` | run queue, its cache, `_current`, priority and lock count of each thread, slice | ready, remove, pend, unpend, reschedule, yield, sleep, wakeup, priority set, lock, unlock |
| Threads | `kernel/thread.c`, `arch/arm/core/thread_abort.c` | `thread_state` bits | create, start, cancel, suspend, resume, abort |
| Timeouts, clock | `kernel/include/timeout_q.h`, `kernel/sys_clock.c` | delta list, `_INACTIVE`/`_EXPIRED`, slice counter | add, abort, tick announce, handle expired, time slicing |
| Context switch | `arch/arm/core/swap.c`, `exc_exit.S` | saved interrupt key, return value | `__swap`, return from interrupt |
| Semaphore | `kernel/sem.c` | count, limit, wait queue | init, give, take, reset |
| Mutex | `kernel/mutex.c` | owner, lock count, saved priority, wait queue | init, lock, unlock |
| Timer | `kernel/timer.c` | timeout, period, status | start, stop, expiry, status get and sync |
| Queue, FIFO, LIFO | `kernel/queue.c`, `include/misc/list_gen.h` | list, waiters | insert, append, prepend, append list, get, remove, cancel |
| Message queue, stack | `kernel/msg_q.c`, `kernel/stack.c` | ring or array, waiters | put, get, purge; push, pop |
| Polling | `kernel/poll.c` | registrations, signals | poll, signal |
| Work queue, alert | `kernel/work_q.c`, `kernel/alert.c` | pending flag, timeout, counts | submit, cancel, send, receive |
| Mailbox | `kernel/mailbox.c` | senders, receivers, asynchronous descriptors | put, asynchronous put, get, data get |
| Pipe | `kernel/pipes.c` | ring buffer, asynchronous descriptors, waiters | put, asynchronous put, get |
| Memory | `kernel/mem_slab.c`, `kernel/mempool.c` | free lists, waiters | alloc, free |

Everything above the scheduler uses it in one way: under `irq_lock()` an operation
looks at its object and then either pends the current thread on a wait queue (with a
timeout or for ever) and swaps, or takes the first waiter off a wait queue, makes it
ready, sets the value its `_Swap()` will return, and reschedules. Interrupt handlers
make the same calls, except those that wait. The clock interrupt removes threads from
wait queues behind the objects' backs.

### 1.2 What is hard here

* A critical section ends where interrupts are enabled, and some operations consist
  of several: `k_yield()`, `k_sched_unlock()`, `_thread_priority_set()`, the mutex
  calls, the clock interrupt.
* `ready_q.cache` is a decision taken at one place and used at another.
* A timeout expires, is handled later, and meanwhile an interrupt may have given the
  thread what it waited for, or terminated it; the clock interrupt keeps pointers to
  timeouts while interrupts are enabled.
* A swap may happen in the middle of an operation that holds both the scheduler lock
  and the interrupt lock (`adjust_owner_prio()`).
* Lists are walked while what the walk calls changes them (`_handle_expired_timeouts()`),
  changed with a pointer read before interrupts were locked (`k_queue_append()`), or
  changed without locking at all (`k_queue_remove()`).
* `k_poll()`, the worker of a work queue and the disposal of a mailbox message enable
  interrupts between steps that belong together; a pipe call copies, with only the
  scheduler locked, to and from threads whose waits may end meanwhile.
* A thread can be in several of the states ready, pending, sleeping, suspended, not
  started and dead at once, and each call has to undo the right ones.

The file `PROJECT.json` lists these hazards at their lines with the properties that
watch over them.

## 2. Modules

| Module | What it models |
|---|---|
| `Kernel` | the functions of `sched.c`, `ksched.h` and `timeout_q.h` as operators on one record, the state of the kernel; no variables |
| `Sched` | threads, interrupts and the clock: one action per call |
| `Sem` | semaphores on top of `Sched` |
| `SemAbstract` | what a semaphore promises, without a scheduler |
| `Mutex` | mutexes with priority inheritance on top of `Sched` |
| `DList` | the doubly linked lists of `misc/dlist.h` with their pointers |
| `TimeoutQ` | `_timeout_q`: the delta list, add and abort |
| `Timers` | `timer.c` and `handle_timeouts()`, node by node |
| `TimerAbstract` | what timers promise: ticks left |
| `Object` | what the objects that pass data have in common: waiting, hand-over, return |
| `MsgQ`, `Stack`, `Slab`, `DataQueue` | `msg_q.c`, `stack.c`, `mem_slab.c`, `queue.c`, each on `Object` |
| `Objects` | the four composed: one object of any kind, and its properties |
| `ChannelAbstract` | the bounded channel each of the four promises to be |
| `Poll` | `poll.c` on `Sched` and `DList` |
| `WorkQ` | `work_q.c` and `alert.c`, on a list whose tail is read before interrupts are locked |
| `Transfer` | what mailboxes and pipes have in common: the two wait queues of senders and receivers, asynchronous descriptors |
| `Mailbox`, `Pipe` | `mailbox.c`, `pipes.c`, each on `Transfer` |
| `Transfers` | the two composed: a mailbox or a pipe |
| `StreamAbstract` | the bounded stream of bytes a pipe promises to be |
| `MC*` | the instances TLC checks |
| `KernelProofs` | lemmas about the operators of `Kernel` |
| `SchedProofs` | the inductive invariant of `Sched` and its theorems; what each call of the scheduler does to waits: who begins, who ends, who keeps its return value |
| `SemProofs` | the invariant of `Sem`, the order of service, the refinement of `SemAbstract` |
| `MutexProofs` | the invariants of `Mutex`, and what it promises while `adjust_owner_prio()` does not switch |
| `WorkQProofs` | the invariant of `WorkQ` and its safety theorems |
| `ObjectsProofs` | lemmas about ring, stack, free list and linked list, the invariant of `Objects`, the refinement of `ChannelAbstract` |
| `TimersProofs` | what links do to the lists of `TimeoutQ` and to the sums of deltas along them, the invariant of `Timers`, the refinement of `TimerAbstract` |
| `PollProofs` | what links do to the lists of `Poll`, its invariants, and what it promises while no two calls poll one object |

**The record `k`.** `cur` is `_current`, `cache` is `ready_q.cache`, `runq` the run
queue, and per thread `prio`, `st` (the bits of `thread_state`), `locked` (how often
the scheduler is locked; the code counts down from 0 in a byte), `tmo` (the timeout:
`INACTIVE`, `ACTIVE` in the timeout queue, `EXPIRED`), `ret` (what `_Swap()` will
return). `waitq` gives each object's wait queue, `slice` is `_time_slice_elapsed`, `tick`
says that the clock interrupt is being served, and `moving` and `expiring` are the pointers
to timeouts that its two loops keep while interrupts are enabled. The idle thread is a value of
its own, always ready and never queued, as in the code.

**Steps.** What the code does under `irq_lock()` is one action: the operators of
`Kernel` are composed inside it, up to the switch at its end. `Reschedule` is
`_reschedule()`, which swaps only at thread level; `IntExit` is the switch made when
an interrupt returns to a thread. `Swap` sets the return value of the outgoing
thread to `-EAGAIN`, as `__swap()` does; `IntExit` does not.

**Interrupts.** Calls the code accepts at interrupt level have a second action. It may
happen while a thread runs and also between the steps of the clock interrupt, since a
nested interrupt of higher priority can arrive there. Those steps are the stretches in which
`handle_timeouts()` has interrupts locked: `TickStart` and `TickDequeue` move one due timeout
to the expired list and keep a pointer to the next one in the queue (`sys_clock.c:218-245`);
`TickPick` is the loop of `_handle_expired_timeouts()` coming to a timeout, `TickExpire` its
handling under `irq_lock()`, without another look at its state (`timeout_q.h:83-95,110-117`);
`TickEnd` does the time slicing and returns. `InterruptedCall` is an interrupt between the two
critical sections of `k_yield()`, `k_sched_unlock()` or `k_thread_priority_set()`. It makes
the switch that is due when it returns; if it readies a thread while the current one may not
be preempted, it takes the decision back.

**Careful.** Some calls the kernel accepts and does not withstand. `Spec` has them; `Careful`
says that none has been made, `CarefulSpec` is `Spec` restricted to such behaviours, and the
properties of queues are about those. It has three parts. Only suspended threads are resumed
(the constant `SuspendedOnly`, which `ThreadResume` and `IsrResume` test: `k_thread_resume()`
has no such test). The timeout that the clock interrupt is about to look at is still in the
state it was in when the pointer to it was kept: no nested interrupt wakes up, aborts or gives
something to its thread in that window. And the thread that the clock interrupt interrupted is
not terminated by a nested interrupt. Section 4 says what happens otherwise.

**Semaphores.** `SemTake` finds a unit, `SemWait` pends, and `SemReturn` is the
return from `k_sem_take()` of a thread that waited, which reads `ret`. `ahead` is a
history variable: the pairs of waiting threads of which the first began to wait before
the second.

**Mutexes.** `pc[t]` is the place of a thread in `k_mutex_lock()` or
`k_mutex_unlock()`. Raising or restoring the owner's priority may switch in the
middle, with interrupts locked; they are locked again when the thread is back, so
neither the clock nor other interrupts interfere until it has pended or handed over.
A null owner, which only that switch can leave to `LockWait`, or a release during a
timed-out wait to `LockExpired`, is not followed further: the thread stays in `fault`. `held` and `base`
are history variables.

**Timers.** `q` is the timeout queue: `next` and `prev` of every node, list heads
included, and the delta of every timeout. `clock` is the clock interrupt: its phase
(`off`, `dequeue`, `handle`), the node it is at and the ticks it still has to consume;
`TickAnnounce`, `Dequeue` and `Handle` are one round each of the loops of
`handle_timeouts()`. Reading the next node after the handler, as the code does, is part
of `Handle`. A walk that has taken a list head for a timeout stops there. `status` keeps
only whether it is zero. `k_timer_stop()` has two actions, one per critical section. The
functions an application has called on expiry or stop (`timer.c:66-69`) use no timers.
`KeepsDeadlines` maps the delta list to the ticks each timer has left (`Left`, which is
`_timeout_remaining_get()`), as `TimerAbstract` counts them down: `Start` gives a timer
exactly the duration it was started with, an announcement takes its ticks off every timer,
those that reach zero expire before the interrupt returns (`serving`), and a periodic one goes
on with its period. `PeriodicLast` says that of the timers due in one announcement only the
one handled last is periodic, which is what the walk over the expired list needs;
`CarefulTimersSpec` is `TimersSpec` where this is so.

**Objects.** `obj` is the object, a record whose `type` selects the module; `call[t]` is
the call thread `t` waits in and `swap_data[t]` what it is handed, or what it wants to
put. An operation's `isr` says who calls it, and so how its critical section ends (`Leave`):
by `Reschedule` in a thread, by `IntExit` in an interrupt. A ring slot that was read and a node's pointer
that will be written first are reset, so that they do not tell states apart.
`k_queue_append()` and `k_queue_remove()` by a thread have the moments at which interrupts
are open: `QueueAppendPeek` reads the tail, `QueueAppendLocked` is `queue_insert()`;
`QueueFind` has found the node and the one before it, `QueueUnlink` unlinks it, `QueueSettle`
puts the tail right. `arg[t]` holds the locals in between. `QueueAppend` and `QueueRemove` are
the same calls made by an interrupt that no other interrupts. The code does not withstand
everything that may come in between, and two conditions say what is left out. `AppendsSafe`:
the node read as tail does not leave the list with another one behind it before the lock.
`Undisturbed`: while a thread is inside `k_queue_remove()` nobody else uses the queue.
`CarefulObjectsSpec` is `ObjectsSpec` under both and `Careful` (`UsedWithCare`); `AppendSpec`
is without `AppendsSafe`. The refinement maps all four kinds to `ChannelAbstract`: the buffer's
contents in the order they will leave, and for each thread whether it reads, writes, has
been served or has failed. Items of a slab or a queue are `unique` there: what is put, two
items at once included, is nowhere in the channel already and goes to one place.

**Polling.** An object is `met` or not; a `k_poll_event` is a poller and an object, and
its node is in `lists`. `poll[t]` holds the locals of `k_poll()`. Each round of its
loops is an action, since interrupts are enabled between rounds.

**Work queues.** `WorkQ` does not repeat the scheduler: threads, interrupts and the worker
interleave between the atomic operations and critical sections of the code. A submission is
`WorkSubmit` (the flag), `WorkPeek` (`k_queue_append()` reads the tail; `seen` remembers it)
and `WorkAppend` (`queue_insert()`, which hands the item to a worker that waits). `queue` is
the list as a sequence; `chained` are the items outside it whose next pointer is not null, so
that an insertion behind one of them is lost, as in `DataQueue`. `AppendsSafe` says that no
submission has read such an item, and `CarefulWorkQSpec` restricts `WorkQSpec` to it. Delayed
items are submitted, cancelled and expire with interrupts locked, and their timeouts expire
at any time. `sends` is the alert: its count, whether a sender has still to submit the work
item, and the semaphore of `k_alert_recv()`.

**Mailboxes.** `tx` and `rx` are the message descriptors of senders and receivers, `free`
the asynchronous ones that are not in use; a dummy thread is a thread nobody starts.
`k_mbox_async_put()` waits on `FreeQ` when there is none (the stack `async_msg_free`, with
`K_FOREVER`), at the place `alloc`; a disposal hands its descriptor to the first that waits
(`async`), with the reschedule of `k_stack_push()`, before it gives the semaphore.
`taken` and `owed` are history. `type` says whether there is a mailbox or a pipe.

**Pipes.** `pipe` is the ring buffer with its indices, `left` and `want` what writers and
readers have still to transfer, `work` the locals of the call that is copying: its working
set, which `pipe_xfer_prepare()` took off the wait queue, and the waiter it left there. A
copy, with what follows it up to the next one, is an action, and the clock interrupt may
come between any two. It is taken only while there is somebody in the working set: a call
with nobody there touches nothing the clock could change. A byte is its position in its
message. `min_xfer` only decides whether a call with `K_NO_WAIT` fails at once, and
what a call returns. `slack` is history, how much a call is allowed to leave undone.
`ImplementsStream` maps the ring buffer to the stream of `StreamAbstract`, and the calls in
progress to its `busy`: bytes move only between calls in progress, a call ends with its last
byte or, with no more undone than its `slack`, gives up, and no byte that was accepted is
dropped with it. `Program` fixes
who uses the pipe and how many of the asynchronous descriptors, which all pipes share, are
not in use elsewhere.

**What is abstracted.** Time, outside `Timers`: a tick may expire any set of active timeouts, which
covers every assignment of durations. The order in which the expired list is handled
is left open. Wait queues name the object instead of being reached through list
links. Stacks, entry points, tracing, thread monitoring and asserts leave no trace in
the state. Where the code asserts something of its caller (a matching
`k_sched_unlock()`, only the owner unlocks), the action has it as a guard. Threads are
created only in the object of a terminated one. `Sem`, `Mutex` and the object modules do not take `InterruptedCall` (their own
calls have one critical section per action). Threads are aborted in `Sched`, `Sem` and
`Objects`, suspended in `Sched` and `Sem`; `Mutex`, `Poll` and `Transfers` have neither: a
terminated owner keeps its mutex, a terminated poller its registrations, a terminated
receiver its sender, and a terminated reader its place in a working set, by design of the
interfaces.

## 3. What the passing runs check

| Run | Instance | Properties |
|---|---|---|
| `sched` | `CarefulSpec`; 3 threads, priorities -1, 0, 1, lock depth 2, slices of 2 ticks; 1,745,388 states | `TypeOK`, `RunQueueExact`, `BestThreadRuns`, `DeadOffQueues`, `NonPreemptibleKeepsCpu` |
| `slice` | 3 threads, priorities 0 and 1; 5,584 states | `SliceIsFair` |
| `sem` | `CarefulSemSpec`; 3 threads, priorities 0 and 1, limit 2; 852,814 states | `SemTypeOK`, `WaitQueuesExact`, `NoUnitBesideWaiter`, `ServedInOrder`, `ImplementsSemaphore` |
| `mutex` | `CarefulMutexSpec`; 2 users and a bystander, priorities 0 to 2, no timeouts, and 3 users of one priority with timeouts; 960,072 states | `MutexTypeOK`, `MutualExclusion`, `WaiterHasOwner`, `OwnerInherits`, `PriorityRestored` |
| `timers` | `CarefulTimersSpec`; 3 timers, durations 0, 1 and 3, periods 0 and 2, announcements of 1 and 2 ticks; 90,740 states | `TimersTypeOK`, `WaiterHasTimer`, `KeepsDeadlines` |
| `objects` | `CarefulObjectsSpec`; 3 threads, 3 items, room for 2; each of the four objects; 373,889 states | `ObjectsTypeOK`, `WaitersAgree`, `ImplementsChannel`, `QueueKeepsItems` |
| `poll` | `CarefulPollSpec`; one poller, a second thread, 2 objects, 2 priorities; 121,642 states | `PollTypeOK`, `WaitersListed`, `NothingLeftBehind`, `NoMissedCondition`, `SuccessHasEvent` |
| `workq` | `CarefulWorkQSpec`; a plain item, 2 delayed ones, an alert with up to 2 sends; 137,828 states | `WorkQTypeOK`, `PendingExact`, `CancelIsFinal`, `AlertIsServed`, `SubmittedIsRun` |
| `transfers` | 3 threads, one asynchronous descriptor, timeouts; a mailbox with one named thread, or a pipe with a ring buffer of 0 or 2 bytes and calls of 1 or 2; 1,747,610 states | `TransfersTypeOK`, `NoPairLeftWaiting`, `SenderKept`, `ResultsAgree`, `AsyncAccounted`, `PipeServes`, `ImplementsStream` |

* `RunQueueExact`: the run queue holds exactly the ready threads, once each, sorted.
* `BestThreadRuns`: outside the clock interrupt a ready thread runs, and no ready
  thread of higher priority waits behind a preemptible one.
* `DeadOffQueues`: a terminated thread is on no queue and has no running timeout.
* `NonPreemptibleKeepsCpu`: a cooperative or locked thread that stays ready stops being the
  next to run only in its own call of `k_yield()`, `k_thread_priority_set()` or
  `k_sched_unlock()`. An interrupt in the middle of such a call counts only if the call has
  by then chosen another thread or made the caller preemptible.
* `SliceIsFair`: a ready preemptible thread that nobody outranks runs eventually.
* `WaitQueuesExact`, `NoUnitBesideWaiter`, `ServedInOrder`: pending threads are on one
  wait queue, no unit lies beside a waiter, and the best and longest waiter is served.
* `ImplementsSemaphore`: `Sem` refines `SemAbstract`, with `Status` as the mapping: a
  unit goes to one thread or into the count, and a wait ends once, with one result.
* `MutualExclusion`, `WaiterHasOwner`, `OwnerInherits`, `PriorityRestored`: the mutex
  has one holder, which it knows; waiters have somebody to wait for; the holder runs at
  the waiters' priority, up to the ceiling; and gives it back.
* `WaiterHasTimer`, `KeepsDeadlines`: nobody waits for a timer that will not expire, and
  `Timers` refines `TimerAbstract`: a timer expires in the announcement that covers the
  duration it was started with, and then every period, whatever happens to the timeouts
  around it in the list.
* `WaitersAgree`, `ImplementsChannel`, `QueueKeepsItems`: nobody waits beside an item or
  a free place, and readers and writers of a message queue never wait together; the four
  objects refine `ChannelAbstract`, so no item is lost, doubled, overtaken or given to a
  thread that has stopped waiting; and the linked list finds what was put into it.
* `WaitersListed`, `NothingLeftBehind`, `NoMissedCondition`, `SuccessHasEvent`: the events
  of a waiting poller are on their objects' lists, a call that has returned left none
  there, no condition is met unnoticed, and success is never reported without an event.
* `PendingExact`, `CancelIsFinal`, `AlertIsServed`, `SubmittedIsRun`: the pending flag
  says where an item is, a cancelled item neither counts down nor is queued, alerts that
  were sent have a work item on its way, and a submitted item's handler runs.
* `NoPairLeftWaiting`, `SenderKept`, `ResultsAgree`, `AsyncAccounted`: a sender and a
  receiver that go together never both wait, a sender stays in its call until its message
  is disposed of, both sides report the same, and every asynchronous descriptor and
  semaphore is accounted for, those handed to a sender that waited for one included.
* `PipeServes`, `ImplementsStream`: writers wait only at a full ring buffer and readers at
  an empty one, a call reaches only memory of threads that are still in their calls, and
  none returns before it has done what it was asked to; and `Transfers` refines
  `StreamAbstract`: no byte is lost, doubled or overtaken, in the ring buffer or past it,
  whatever waits end while it is copied, and a call that ends leaves undone only what it may.

**Bounds.** Three threads are the current one, one that competes with it and one more
that a call or an interrupt acts upon meanwhile. Three priorities give a cooperative
and two preemptible ones (`sched`), or an inherited one between two others (`mutex`).
Depth 2 tells an inner unlock from the outer one, a limit of 2 a full semaphore from
one with a single unit, and slices of 2 ticks a slice that has begun from one that ends.
`SchedPrio` threads other than `Main` are interchangeable in `sched`, which uses that
symmetry for safety properties only; `timers`, `objects` and `transfers` use it in the same
way. The mutex runs take part of the full instance (three users over several priorities
with timeouts), because the full one violates `MutualExclusion`, see below. Three timers
make a first, a middle and a last node of the list, and announcements of 2 ticks consume
several deltas at once; periodic timers run beside others as long as `PeriodicLast` allows,
since otherwise `timers_periodic` below is reached. A ring of 2 with 3
items wraps around and fills up; the queue's list holds up to 3. One poller polls an
object, as the documentation asks. Two sends of an alert make the last delivery meet a
new send; two delayed items stand in the queue together. In the mailbox one thread is
named so that some messages are for it and some for anybody; a message without data is
disposed of in the same step as one that goes to a buffer, so only one kind of it is sent:
synchronous, to anybody and without a timeout. Pipe
calls of 1 and 2 bytes serve a waiter in full, in part, or several waiters; a ring of 2
wraps around, one of 0 makes every copy direct. With all three threads there is a call
that copies and two it serves; with the descriptor, two threads. One priority is enough
for what these properties say.

**Deadlock** is checked in every passing run: interrupts can always arrive, so none of
them may stop.

**Fairness.** `slice` assumes weak fairness of `Tick`: the hardware clock keeps
interrupting and its handler finishes; no fairness of threads. `workq` assumes weak
fairness of the worker's steps, of the timeouts of delayed items, and of the second half
of a submission that has marked its item: the worker is a thread that is scheduled, the
clock ticks, and nobody is stopped for ever inside `k_work_submit_to_queue()`. That the
worker comes back from its handlers is a condition in `SubmittedIsRun`, because
`_alert_deliver()` need not end while alerts are sent.

## 4. Where the code and its documentation differ

Each of these runs checks one sentence of the documentation or of a comment and ends in a
counterexample; `PROJECT.json` quotes the sentence with its place.

| Run | Property | What happens |
|---|---|---|
| `mutex_inherit` | `MutualExclusion` | the swap inside `adjust_owner_prio()` lets two threads hold the mutex |
| `timers_periodic` | `HandlesOnlyExpired` | a periodic timer that rearms itself leads the walk over the expired list into `_timeout_q` |
| `queue_append` | `QueueKeepsItems` | an item appended behind a node that has been taken with another one behind it is lost |

`mutex_inherit`: the owner, raised by a waiter, unlocks the mutex; the count drops to
zero, its old priority is restored, and that switches to a third thread although
scheduler and interrupts are locked. The third thread finds a count of zero and takes the
mutex. Later the first thread continues and hands the mutex to the waiter.

`timers_periodic`: two timers expire in one tick, the first of them periodic. Its handler
puts it back into `_timeout_q` before the walk reads its next pointer, which now leads to
a running timeout or to the head of `_timeout_q`.

`queue_append`: a thread reads the tail; before it locks interrupts another item is appended
behind that node, and then the node is taken off the list, with its next pointer set. The
thread's item is linked between the two, behind a node the list's head no longer leads to. If
the node is simply taken while it is the last one, its next pointer is null, the list's
insertion appends (`list_gen.h:149-150`), and nothing is lost.

Differences that can be read off the models without a run of their own:

* `k_thread_resume()` of a ready thread that is not suspended queues it twice (`Resumed`
  readies unconditionally; `kernel.h:1102` promises no effect). With `SuspendedOnly` false
  `RunQueueExact` fails in the second state.
* `_handle_one_expired_timeout()` reads its thread before it locks interrupts and does not
  look again (`timeout_q.h:85-92`). A thread that a nested interrupt wakes up in that window
  is readied twice; one that it gives an object to, or aborts, is unlinked from a wait queue
  it has left. Likewise `handle_timeouts()` goes on with a pointer to the next timeout that it
  kept across `irq_unlock()` (`sys_clock.c:244-245`). `Careful` excludes both; under `Spec`
  `RunQueueExact`, `WaitQueuesExact` and `DeadOffQueues` fail.
* If an interrupt inside the clock interrupt aborts the interrupted thread,
  `handle_time_slicing()` may put it back into the run queue (`sys_clock.c:290`). `Careful`
  excludes it; under `Spec` `DeadOffQueues` fails in the fourth state.
* The comment at `sys_clock.c:162-164` says that a timeout is marked `_EXPIRED` so that an
  interrupt that releases an object "will not give the object to that thread". It does: the
  thread is still in the wait queue and `_unpend_first_thread()` takes the first one whatever
  its timeout (`sched.c:300-341`). In `Sem` it is given the unit and returns success. This is
  harmless outside the window above, and `ImplementsSemaphore` holds.
* An inner `k_sched_unlock()` switches although the lock is still held (`Unlocked` forces
  the cache); `kernel.h:1211-1213` asks for as many unlocks as locks "before the thread
  becomes preemptible". `NonPreemptibleKeepsCpu` therefore leaves out every unlock.
* An interrupt between the two halves of `k_yield()` takes a cooperative thread's yield
  back (`InterruptedCall`).
* A waiter whose priority is raised keeps its place in the wait queue (`PrioritySet`).
* `k_wakeup()` of a thread whose start is delayed cancels the start (`Woken`).
* `k_thread_priority_set()` may switch away a caller that is not preemptible, where
  `kernel.h:1020-1026` makes that a condition of being switched; `NonPreemptibleKeepsCpu`
  leaves these calls out too.
* A `CONFIG_PRIORITY_CEILING` of 0 limits elevation to priority 0 where `mutexes.rst`
  speaks of unlimited elevation (`NewPrioForInheritance`).
* A `k_mutex_lock()` whose wait timed out uses a null owner if the mutex was released
  meanwhile (`LockExpired`, which leads to `fault`).
* `k_queue_remove()` walks and changes the list without `irq_lock()` (`kernel.h:1978-1981`),
  and is documented as callable by interrupts, while `queue.c:299` says that the list
  functions "must be always protected by irq_lock". Whatever uses the queue between its steps
  meets a broken list: after the only node was unlinked the head is null and the tail is not,
  and the next append is lost. `Undisturbed` excludes such uses.
* `k_work_submit_to_queue()` appends with interrupts enabled (`kernel.h:2635`), so the loss of
  `queue_append` is also that of a work item, which then stays pending and is never handled:
  under `WorkQSpec`, without `AppendsSafe`, `PendingExact` fails in the seventh state.
* `workqueues.rst:121-125` and `kernel.h:2733,2741` say that cancelling a delayed item whose
  timeout has expired has no effect on it and returns `-EINPROGRESS`. `k_delayed_work_cancel()`
  takes an item that is still in the queue off it and returns 0, which the tests expect;
  `CancelIsFinal` states what the code does.
* With two pollers of one object, `clear_event_registration()` unlinks an event that is
  off its list already and can cut off the other's event; `polling.rst:126` says that a
  second poller gets `-EADDRINUSE`, which `register_event()` never returns.
* `queue_insert()` returns `-ENOMEM` with interrupts locked (`queue.c:166`), and
  `k_stack_alloc_init()` allocates a byte per entry where an entry has four (`stack.c:64`);
  memory allocation is not modelled.
* A sender whose message `k_mbox_get()` has taken is not pending any more, so suspending
  and resuming it makes `k_mbox_put()` return before the message is processed.
* `k_pipe_block_put()` ends with `_sched_unlock_no_reschedule()`, which leaves the cache
  alone, and then pends only its dummy thread (`pipes.c:541`): a reader of higher priority
  it has served does not run until something else updates the cache. `Transfers` with two
  priorities reaches such a state, in which `BestThreadRuns` fails, after nine steps.

## 5. What is proved

The modules `*Proofs` are checked by TLAPS. The theorems hold for every set of threads,
every set of integer priorities, every slice length and lock bound, every limit of a
semaphore, every ceiling, every nesting depth, every set of work items, any number of
alerts, every finite set of data items, every capacity of a message queue or stack, every finite
set of pollers and of polled objects, and every finite set of timers with any durations,
periods and announcements. They rest on the assumptions named in the modules, which TLC
evaluates on every instance: `KernelAssumption` and `SchedAssumption` (the idle thread is not an application
thread, the main thread is one, numbers are numbers), `SemAssumption` (the semaphore is a
wait queue, its limit is not zero: `k_sem_init()` asserts that), `MutexAssumption` (the
mutex is a wait queue, the null owner is no thread, the ceiling is a priority),
`ObjectAssumption` (the object has a wait queue and room for one item at least, items are
finitely many, as memory is, and the null pointer is none of them), `WorkQAssumption`
(delayed items and the alert's item are different items), `PollAssumption` (pollers are
threads, pollers and objects are finitely many, and the head of a list is not one of the
events on it), `TimeoutQAssumption` (timers are finitely many, and list heads and the null
pointer are none of them) and `TimersAssumption` (durations and periods are natural numbers,
the null pointer is no number).

`Careful`, `UsedWithCare`, `AppendsSafe` and `PeriodicLast` (section 2) are conditions on
behaviours: they say which calls are not made while the kernel is at a place where it does not
withstand them. Section 4 says what the code does without them. The assumption that goes with
`PeriodicLast` is not one on the application's calls but on when timers fall due.

| Theorem | States |
|---|---|
| `SchedInvariant` | `Spec /\ []Careful => []SchedInv` |
| `TypeCorrect` | `Spec /\ []Careful => []TypeOK` |
| `RunQueueIsExact` | `Spec /\ []Careful => []RunQueueExact` |
| `BestThreadAlwaysRuns` | `Spec /\ []Careful => []BestThreadRuns` |
| `DeadStaysOffQueues` | `Spec /\ []Careful => []DeadOffQueues` |
| `NonPreemptibleRuns` | `Spec /\ []Careful => NonPreemptibleKeepsCpu` |
| `SemInvariant` | `SemSpec /\ []Careful => []SemInv` |
| `SemTypeCorrect` | `SemSpec /\ []Careful => []SemTypeOK` |
| `SemQueuesExact` | `SemSpec /\ []Careful => []WaitQueuesExact` |
| `NoLostWakeup` | `SemSpec /\ []Careful => []NoUnitBesideWaiter` |
| `ServesInOrder` | `SemSpec /\ []Careful => ServedInOrder` |
| `SemImplements` | `SemSpec /\ []Careful => ImplementsSemaphore`, the refinement of `SemAbstract` |
| `WorkQTypeCorrect` | `WorkQSpec => []WorkQTypeOK` |
| `PendingIsExact` | `WorkQSpec /\ []AppendsSafe => []PendingExact` |
| `CancelledStays` | `WorkQSpec => []CancelIsFinal` |
| `AlertsAreServed` | `WorkQSpec => []AlertIsServed` |
| `MutexInvariant` | `MutexSpec /\ []Careful => []TypeInv` |
| `MutexTypeCorrect` | `MutexSpec /\ []Careful => []MutexTypeOK` |
| `MutexUnswapped` | `MutexSpec /\ []Careful /\ []Unswapped => []MutexInv` |
| `ExclusiveUnlessSwapped` | `MutexSpec /\ []Careful /\ []Unswapped => []MutualExclusion` |
| `OwnedUnlessSwapped` | `MutexSpec /\ []Careful /\ []Unswapped => []WaiterHasOwner` |
| `InheritsUnlessSwapped` | `MutexSpec /\ []Careful /\ []Unswapped => []OwnerInherits` |
| `RestoredUnlessSwapped` | `MutexSpec /\ []Careful /\ []Unswapped => []PriorityRestored` |
| `EqualsNeverSwap` | `MutexSpec /\ []Careful /\ Level => []Unswapped` |
| `EqualsAreSafe` | `MutexSpec /\ []Careful /\ Level =>` all four, always |
| `ObjectsInvariant` | `ObjectsSpec /\ UsedWithCare => []ObjectsInv` |
| `ObjectsTypeCorrect` | `ObjectsSpec /\ UsedWithCare => []ObjectsTypeOK` |
| `WaitersAreRight` | `ObjectsSpec /\ UsedWithCare => []WaitersAgree` |
| `QueueLosesNothing` | `ObjectsSpec /\ UsedWithCare => QueueKeepsItems` |
| `ObjectsImplement` | `ObjectsSpec /\ UsedWithCare => ImplementsChannel`, the refinement of `ChannelAbstract` |
| `PollInvariant` | `PollSpec /\ []Careful => []PollInv` |
| `PollTypeCorrect` | `PollSpec /\ []Careful => []PollTypeOK` |
| `SuccessIsShown` | `PollSpec /\ []Careful => []SuccessHasEvent` |
| `RingsStayOk` | `PollSpec /\ []Careful /\ []Unshared => []RingsOk` |
| `WaitersAreListed` | `PollSpec /\ []Careful /\ []Unshared => []WaitersListed` |
| `NothingIsLeftBehind` | `PollSpec /\ []Careful /\ []Unshared => []NothingLeftBehind` |
| `NoConditionIsMissed` | `PollSpec /\ []Careful /\ []Unshared => []NoMissedCondition` |
| `OnePollerIsServed` | with one poller, `PollSpec /\ []Careful =>` the last three, always |
| `TimersInvariant` | `TimersSpec /\ []PeriodicLast => []TimersInv` |
| `TimersTypeCorrect` | `TimersSpec /\ []PeriodicLast => []TimersTypeOK` |
| `WaitersHaveTimers` | `TimersSpec /\ []PeriodicLast => []WaiterHasTimer` |
| `HandledHaveExpired` | `TimersSpec /\ []PeriodicLast => []HandlesOnlyExpired` |
| `DeadlinesAreKept` | `TimersSpec /\ []PeriodicLast => KeepsDeadlines`, the refinement of `TimerAbstract` |

### Scheduler

**The invariant.** `SchedInv` is the conjunction of the type, `RunQOk`, `WaitQOk`,
`CacheOk`, the readiness of the current thread or a cache that leads away from it,
`SwitchOk` and `DeadOk`. None of the properties is inductive alone. The run queue stays
exact only if `_THREAD_QUEUED` agrees with membership, since `RemoveFromReadyQ` tests
the flag while its callers test readiness. `BestThreadRuns` needs `CacheOk`: a switch
goes to the cache and not to the head of the queue, and between two critical sections
the cache may be the current thread (it may not be preempted) or the best one (it was
forced). During the clock interrupt the two may differ, and `SwitchOk` says that
nothing else leaves a switch undone. `DeadOk` is needed because a terminated thread
whose timeout were still running would be readied by the tick. Where the invariant needs
`Careful` is `TickExpire`, which readies the thread it chose before whatever it does now,
`TickDequeue`, which marks the timeout it kept a pointer to, `TickEnd`, which requeues the
interrupted thread, and the two resumes.

**The argument.** `KernelProofs` shows what each operator of `Kernel` does to the
parts of the invariant: inserting into a sorted duplicate-free list keeps it so and
adds one element, removal is its inverse, readying and removing a thread move it in and
out of the run queue exactly, a swap or a return from interrupt restores `SwitchOk`.
`SchedProofs` has one lemma per action. The lemmas on resumed, aborted and woken
threads are stated for any state with the invariant, because interrupts make these
calls on the current state and on the states between two critical sections
(`BetweenInv`). `NonPreemptibleRuns` follows from the invariant and the frames of the
operators: whatever updates the cache without forcing it leaves the current thread there
when it may not be preempted, and what forces it is a call of that thread. For an interrupt
in the middle of a call this is shown state by state: if the call has not yet chosen another
thread and the caller is still not preemptible, the interrupt leaves it the cache.

### Semaphores

`SemInv` adds to `SchedInv` the range of the count, `NoUnitBesideWaiter`, `Callers`
(who waits is in the semaphore's queue, in `k_sem_take()`, with `-EAGAIN` as the value to
return) and `InOrder` (the queue is in the order of service). `NoUnitBesideWaiter` is
inductive only with `Callers`: a thread that waits on nothing the semaphore knows would
not be seen by a give. `SchedProofs` states once, for every operator of `Kernel`, which
waits it begins and ends and whose return values it may change, and that lists keep the
order of those that stay. `SemProofs` then sums up each action as one of six effects:
nothing happened to the waits, a wait timed out, was removed by an abort, was granted, has
begun, or a call returned. The invariant, the action property `ServedInOrder` and the
refinement are each proved from these effects, so that the scheduler is looked at once.
In the refinement a suspended, resumed, preempted or reprioritized thread is a stuttering
step; the step that grants, ends or begins a wait maps to the abstract one.

### Work queues

`WorkQInv` says place by place what `PendingExact` counts: an item is pending exactly when
it is in the queue, in the hands of a submitter that has marked it, or taken by the worker
that has not yet cleared the flag, and never in two of these (`Placed`); and that the
alerts not yet delivered have exactly one carrier (`AlertCarried`). "Exactly one" is what
makes it inductive: with two, the last delivery of one would leave the other with a count
of zero, and the next send would submit an item that is already queued. All this holds in
every behaviour of `WorkQSpec`, except that an item marked as pending need not be anywhere:
that it is (`NoneLost`) needs `AppendsSafe`, since it is `WorkAppend` behind an item that has
left the list which loses one. The other three theorems therefore have no condition.

### Mutexes

The code violates `MutualExclusion` (run `mutex_inherit`, section 4), so no theorem can
state it of every behaviour. What is proved is where the fault lies.

`TypeInv` holds in every behaviour: besides the types it says that a thread inside a call
has locked the scheduler exactly once and has the processor unless it has swapped.

`Unswapped` says that no thread is at a place it reaches only by being switched out inside
`adjust_owner_prio()`. `MutexUnswapped` shows that as long as this holds so does
`MutexInv`: whoever waits is in the mutex's queue (`Waiting`); the owner has been handed
the mutex or has returned with it, with the right depth (`Ownership`, `Holding`); only the
owner's priority differs from its own, and the saved one is its own (`Priorities`); the
queue is sorted (`Line`), and the owner has inherited from every waiter (`Inheritance`).
The four properties follow. `Inheritance` has to speak of a thread whose wait timed out
and that is about to lower the owner: what it will lower it to was computed before others
ran, and is still low enough for those that wait. `Line` is needed because the code reads
the best waiter off the head of the queue; it holds because no waiter's priority changes,
which in turn needs `Waiting` (an owner does not wait). TLC checked `MutexInv` beforehand
with three users, all priorities and timeouts, on the behaviours without the switch.

`EqualsNeverSwap` shows that the condition is met when all threads have one priority and
the ceiling is not below it: then inheritance has nothing to do, and `EqualsAreSafe` states
the four properties without further condition, timeouts and nested locks included. It is
also why the runs of section 3 with one priority are not exceptional. With two priorities
and no timeouts the switch does occur, in the run `mutex`, and is harmless in that
instance; this stays with TLC.

### Objects that pass data

`ObjectsInv` adds to `SchedInv` that whoever waits is in the object's queue (`InLine`), in
`get` beside an empty buffer or in `put` beside a full one, with `-EAGAIN` to return
(`WaiterOk`), and that the object has its shape (`ObjectOk`). For a message queue this is
`RingOk`: the write index is as far behind the read index as the count says, and the slots
in between hold messages. For a slab, the free list has no block twice and is as long as
the count of used blocks leaves it. For a queue, `IsList`: there is a sequence without
repetition that the pointers spell from head to tail and that ends in the null pointer.
Without it a get could not be followed: it makes the node after the first one the head, and
only the shape says that the tail is reset exactly when there is none.

The proof first shows what the operators on pointers do to that sequence: `Inserted` splices
a node in (`InsertedList`), `Gotten` takes the first off (`GottenList`), `Unlinked` followed by
`Settled` any one (`RemovedList`), `AppendedList` adds two (`AppendedPair`). That `QueueBuffer`, the walk
from the head, finds it (`WalkFindsList`), and that the purge's loop wakes exactly those who
wait (`PurgeLoop`), are inductions over a recursive function; they are carried out by the
least index at which the claim would fail.

Every step then has one of a dozen effects on waits and buffer (`Effect`, `NextEffect`): an
item or two put in, got out or removed, handed to one reader or two, a writer's item moved
in behind one that was read, a purge, a wait begun, expired or left, or nothing. The
invariant follows from the effects (`WaitersKept`), and so does the refinement
(`EffectRefines`): each is a step of `ChannelAbstract`, or leaves its state as it is.
`UsedWithCare` enters twice. Between the steps of a removal the list does not have its shape;
the invariant then says what the pointers spell once the removal is finished, and
`Undisturbed` that nobody looks before. And an append that has read its tail keeps a node that
is in the list or has a null next pointer, from `AppendsSafe`, so that the insertion adds the
item at some place of the sequence.

### Polling

`PollInv` holds in every behaviour. Besides `SchedInv` and the types it says that the links
of a list stay among its head and the events for its object (`RingsClosed`), how far each
call has come (`CallOk`: what is registered is a prefix of the events, all of them while the
poller waits), that a poller sleeps nowhere but in `k_poll()` and with `-EAGAIN` to return
(`SleepOk`), that a call which has been told of an event has one that is ready, and that an
event names a poller only while its call has still to clear it (`Pledged`). `Told` is what
makes `SuccessHasEvent` inductive: it covers the round in which the condition was found, the
wait that a signal has ended and the return, each of which reads the value the one before
left.

The other three properties are false when two calls poll one object (section 4): the second
unlinking of an event goes by pointers it kept from the first. `Unshared` says that no two
calls in progress poll the same object, which is what `polling.rst:126` asks. Under it
`RingsOk` is preserved: a list is empty or holds one event, that of the call in progress, and
every event of the call can be unlinked without harm, linked or not (`Unlinkable`); the
events of a call that has not been told anything are linked, registered and not met. The
last is the reason there is no lost wakeup: `k_poll()` tests the condition and registers in
one critical section, and from then on whatever makes the condition true finds the event.
`OnePollerIsServed` is the case of the run `poll`, where `Unshared` holds by itself. TLC
checked the properties beforehand with two pollers, under the condition.

### Timers

Once a periodic timer has led the walk over the expired list into `_timeout_q` (run
`timers_periodic`, section 4) nothing is promised, so the theorems say what is enough to
prevent it. `PeriodicLast` says that of the timers an announcement makes due only the first
may be periodic. The expired list is built from the front, so this one is handled last and the
walk ends with it; the condition fails exactly when a periodic timer falls due in one
announcement with another that stood before it in `_timeout_q`.

`TimersInv` says that there is a sequence of timers without repetition which the pointers
spell from the head of `_timeout_q` and back, with deltas that are not negative, and in each
phase of the interrupt how far it has come (`Shape`). Between two interrupts no timer is
active that is not in the sequence, and the first delta is not zero (`Resting`). While the
interrupt moves what is due it is at the first timer of the queue, and those already moved
make up the expired list (`Dequeuing`). While it walks that list it is at the i-th, those
before it are inactive, those from it on are expired (`Handling`). `WaiterHasTimer`
is inductive only with this: a timer that is being handled still counts as active, and that
an expiry or a stop ends the activity of one timer and no other depends on the lists.

The proof has three layers. On pointers, inserting and unlinking a node insert and
remove it in the sequence and leave other lists alone (`RingInsert`, `RingUnlink`,
`RingFrame`), and the walk `Linked` finds the sequence (`LinkedIsList`). On sums,
inserting a timer and taking its delta off its successor's, removing one and giving its
delta to the successor, and taking ticks off the first one shift the sums of deltas as they
should (`SumInsert`, `SumDelete`, `SumConsume`); the sums are a recursive function, and the
inductions are carried out by the least index at which the claim would fail. Together these
give what `_add_timeout()`, `_abort_timeout()` and a step of `handle_timeouts()` do to the
ticks left of every timer (`AddAdds`, `AbortAborts`, `MoveMoves`): those of one timer change
and no other's. The refinement follows: an announcement is the abstract `Elapse`, moving
what is due changes nothing, since the ticks left already count what is announced, handling a
timeout is `Expire`, and the interrupt returns when nothing is due any more. Starting a timer
gives it exactly its duration, and leaves the others what they had.

TLC checked the invariant beforehand on the instance of the run `timers`, in which several
timers are periodic.

### Model-checked only

* Liveness, `SliceIsFair` and `SubmittedIsRun`: the prover has no rule for fairness.
* `Transfers`: a `k_mbox_put()` that finds its receiver pends in no wait queue
  (`PendUnqueued`), so `SchedInv` is not an invariant there and the lemmas about it do not
  apply.

## 6. Not modelled

* Interrupts inside the clock interrupt that use timers or delayed work: the walk in
  `handle_timeouts()` keeps a pointer that they can make stale. Expiry and stop functions of
  timers that start or stop timers (`timer.c:66-69`): those of an expiring timer meet the same
  walk as the run `timers_periodic`.
* What becomes of the kernel after a call that is not `Careful`, or a use of a queue outside
  `UsedWithCare`: the models go on with duplicates in a queue or a lost item, where the code's
  lists may be tied in knots. Only the first violation says something about the code.
* The delta of a timeout that is aborted while it is on the expired list: `_abort_timeout()`
  adds its `_EXPIRED`, -2, to the delta of the next node (`timeout_q.h:126-131`): another
  expired timeout, whose delta is set to `_INACTIVE` when it is handled, or, after the last
  one, whatever memory lies behind the head of the local list. `AbortThreadTimeout` only has
  the state of the timeout that is aborted.
* The window in `__swap()` after interrupts are enabled and before PendSV runs.
* The build of queues and semaphores with `CONFIG_POLL`, as far as `k_queue_poll()` and
  its retries go; queue nodes allocated by the kernel.
* Threads aborted or suspended in `k_poll()`, the mutex, mailbox and pipe calls.
* Memory pools, and with them the memory blocks of mailbox and pipe messages; pipe calls
  made by interrupt handlers (`pipes.rst:49` rules them out); `k_pipe_alloc_init()`. The wait of
  `k_pipe_block_put()` for a free descriptor, which is that of the mailboxes.
* SMP, user mode, memory domains, tickless operation, the red-black and multi-queue
  variants of the queues: not in the configuration of the board.
* Drivers, boards, other architectures, subsystems (Bluetooth, networking, USB, file
  systems, logging, shell), the POSIX layer and vendored code: users of the kernel or
  register-level I/O.

## 7. Plan

Done: `Kernel`, `Sched`, `Sem`, `Mutex`, `Timers`, `Objects`, `Poll`, `WorkQ`, `Mailbox`,
`Pipe`, with the abstractions of semaphores, timers, channels and streams; the proofs about
`Sched`, `Sem`, `Mutex`, `Timers`, `Objects`, `WorkQ` and `Poll`.

1. Proofs: `SenderKept` for the mailbox, over a weaker invariant of the scheduler.
2. The waiting protocol of memory pools.
3. The interrupted `__swap()` in `Kernel`.

## 8. Running

    tlc -workers 2 -config MCSched.cfg MCSched
    tlc -workers 2 -config MCSem.cfg MCSem
    tlc -workers 2 -config MCMutex.cfg MCMutex
    tlc -workers 2 -config MCTimers.cfg MCTimers
    tlc -workers 2 -config MCObjects.cfg MCObjects
    tlc -workers 2 -config MCPoll.cfg MCPoll
    tlc -workers 2 -config MCWorkQ.cfg MCWorkQ
    tlc -workers 2 -config MCTransfers.cfg MCTransfers
    tlapm SchedProofs.tla
    tlapm SemProofs.tla
    tlapm MutexProofs.tla
    tlapm WorkQProofs.tla
    tlapm ObjectsProofs.tla
    tlapm PollProofs.tla
    tlapm TimersProofs.tla

`tlapm` checks one module at a time: `KernelProofs.tla` holds lemmas that `SchedProofs.tla`
cites, and `SchedProofs.tla` those that the proofs about objects do. The other `.cfg` files
name their property; the module is the one whose name they begin with (`MCSlice` belongs to
`MCSched`, `MCQueueAppend` to `MCObjects`).
