------------------------------- MODULE Object -------------------------------
(***************************************************************************)
(* What the objects that pass data between threads have in common: a wait  *)
(* queue, the call a thread waits in, the data handed to it through        *)
(* base.swap_data, and what else happens to threads in the meantime.  The  *)
(* object's own fields are the record obj; obj.type says which object it   *)
(* is, and the modules MsgQ, Stack, Slab and DataQueue define the rest.    *)
(***************************************************************************)
EXTENDS Sched

CONSTANTS
  ObjectQ,      \* the wait queue of the object
  Item,         \* messages, data words, memory blocks, queue nodes
  NoData,       \* the null pointer
  MaxItems      \* how many the object's buffer holds

ASSUME ObjectAssumption ==
  /\ ObjectQ \in WaitQ
  /\ IsFiniteSet(Item) /\ NoData \notin Item
  /\ MaxItems \in Nat \ {0}

VARIABLES
  obj,          \* the object
  call,         \* call[t]: the call t waits in, or "out"
  swap_data     \* swap_data[t]: thread->base.swap_data

waiting == <<call, swap_data>>

ObjectInit ==
  /\ Init
  /\ call = [t \in Thread |-> "out"]
  /\ swap_data = [t \in Thread |-> NoData]

Outside(t) == Running(t) /\ call[t] = "out"

\* A thread that was woken up and has not returned yet; its result is OK.
Granted(t, name) == call[t] = name /\ "PENDING" \notin k.st[t] /\ k.ret[t] = "OK"

-----------------------------------------------------------------------------
(***************************************************************************)
(* The parts of the objects' calls that are alike; isr says whether an     *)
(* interrupt makes the call.                                               *)
(***************************************************************************)

\* The first waiting thread becomes ready, with data in its swap_data.
Hand(isr, data) ==
  /\ swap_data' = [swap_data EXCEPT ![Waiter(k, ObjectQ)] = data]
  /\ k' = Leave(isr, WakeFirst(k, ObjectQ, "OK"))
  /\ UNCHANGED call

\* Mutant: store the data although a thread waits for it.
GiveToObject(isr, data, stored) == obj' = stored /\ UNCHANGED <<k, waiting>>

\* To the first waiting thread or, when nobody waits, into the object.
Give(isr, data, stored) ==
  IF HasWaiter(k, ObjectQ)
    THEN Hand(isr, data) /\ UNCHANGED obj
    ELSE obj' = stored /\ UNCHANGED <<k, waiting>>

\* The current thread waits in a call, with data in its swap_data.
WaitIn(t, name, data) ==
  /\ Outside(t)
  /\ \E forever \in BOOLEAN : k' = PendCurrent(k, ObjectQ, forever)
  /\ call' = [call EXCEPT ![t] = name]
  /\ swap_data' = [swap_data EXCEPT ![t] = data]
  /\ UNCHANGED obj

\* A thread that waited returns with k.ret[t] and, if that is OK, the data.
ReturnFrom(t, name) ==
  /\ Running(t) /\ call[t] = name
  /\ call' = [call EXCEPT ![t] = "out"]
  /\ swap_data' = [swap_data EXCEPT ![t] = NoData]
  /\ k' = Swapped(k, t)
  /\ UNCHANGED obj

-----------------------------------------------------------------------------
\* The clock, threads that start each other or give up the processor, and
\* aborts: an aborted thread never returns from its call.
Elsewhere ==
  /\ \/ /\ Tick \/ \E t, u \in Thread : Outside(t) /\ (ThreadStart(t, u) \/ Yield(t))
        /\ UNCHANGED waiting
     \/ \E u \in Thread :
          /\ IsrAbort(k, u) \/ \E t \in Thread : Outside(t) /\ ThreadAbort(t, u)
          /\ call' = [call EXCEPT ![u] = "out"]
          /\ swap_data' = [swap_data EXCEPT ![u] = NoData]
  /\ UNCHANGED obj
=============================================================================
