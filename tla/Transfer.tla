------------------------------ MODULE Transfer ------------------------------
(***************************************************************************)
(* What mailboxes and pipes have in common: senders and receivers on two   *)
(* wait queues, and descriptors of asynchronous messages, each with a      *)
(* dummy thread that waits in its sender's place.  type says which of the  *)
(* two it is, call[t] where thread t is in its calls.                      *)
(***************************************************************************)
EXTENDS Sched

CONSTANTS
  TxQ, RxQ,     \* the wait queues of senders and receivers
  Async,        \* the dummy threads of the asynchronous message descriptors
  NoThread      \* the null pointer

ASSUME TransferAssumption ==
  /\ TxQ \in WaitQ /\ RxQ \in WaitQ /\ TxQ # RxQ
  /\ Async \subseteq Thread \ {Main}
  /\ NoThread \notin Thread

User == Thread \ Async

VARIABLES
  type,         \* "mailbox" or "pipe"
  call,
  free,         \* the unused asynchronous descriptors
  owed          \* history: owed[t]: semaphores t expects for what it sent

\* A dummy thread is never ready: _THREAD_DUMMY does what PRESTART does to a
\* thread nobody starts.
TransferInit ==
  /\ Init /\ \A d \in Async : k.tmo[d] = "INACTIVE"
  /\ call = [t \in User |-> "out"]
  /\ owed = [t \in User |-> 0]

Outside(t) == Running(t) /\ call[t] = "out"

Goto(t, there) == call' = [call EXCEPT ![t] = there]

Queued(t) == t \in ToSet(k.runq)
=============================================================================
