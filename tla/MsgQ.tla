-------------------------------- MODULE MsgQ --------------------------------
(***************************************************************************)
(* Message queues: kernel/msg_q.c.  Readers and writers wait on one wait   *)
(* queue; a message is copied into a ring of slots, or straight into the   *)
(* memory a waiting reader points to.                                      *)
(***************************************************************************)
EXTENDS Object

Slot == 0 .. MaxItems - 1

MsgqInit ==
  obj = [type |-> "msgq", slot |-> [i \in Slot |-> NoData],
         read |-> 0, write |-> 0, used |-> 0]

\* Mutant: never wrap around.
AdvanceOn(p) == p + 1

\* Mutant: wrap around a slot too early.
AdvanceShort(p) == IF p + 2 >= MaxItems THEN 0 ELSE p + 1

Advance(p) == IF p + 1 = MaxItems THEN 0 ELSE p + 1

Stored(q, m) == [q EXCEPT !.slot[q.write] = m, !.write = Advance(@), !.used = @ + 1]

\* A slot that has been read is written before it is read again.
Fetched(q) == [q EXCEPT !.slot[q.read] = NoData, !.read = Advance(@), !.used = @ - 1]

MsgqPut(isr, m) == obj.used < MaxItems /\ Give(isr, m, Stored(obj, m))

\* The room a reader makes goes to the first waiting writer.
MsgqGet(isr) ==
  /\ obj.used > 0
  /\ IF HasWaiter(k, ObjectQ)
       THEN /\ Hand(isr, NoData)
            /\ obj' = Stored(Fetched(obj), swap_data[Waiter(k, ObjectQ)])
       ELSE obj' = Fetched(obj) /\ UNCHANGED <<k, waiting>>

\* All waiting threads, in the order of the wait queue.
MsgqPurge(isr) ==
  LET woken[i \in 0 .. Len(k.waitq[ObjectQ])] ==
        IF i = 0 THEN k ELSE WakeFirst(woken[i - 1], ObjectQ, "ENOMSG")
  IN  /\ k' = Leave(isr, woken[Len(k.waitq[ObjectQ])])
      /\ obj' = [obj EXCEPT !.used = 0, !.read = obj.write, !.slot = [i \in Slot |-> NoData]]
      /\ UNCHANGED waiting

MsgqPutWait(t, m) == obj.used = MaxItems /\ WaitIn(t, "put", m)

MsgqGetWait(t) == obj.used = 0 /\ WaitIn(t, "get", NoData)

MsgqReturn(t) == ReturnFrom(t, "put") \/ ReturnFrom(t, "get")

MsgqCalls(isr) == MsgqGet(isr) \/ MsgqPurge(isr) \/ \E m \in Item : MsgqPut(isr, m)

MsgqNext ==
  \/ MsgqCalls(TRUE)
  \/ \E t \in Thread :
       \/ Outside(t) /\ MsgqCalls(FALSE)
       \/ MsgqReturn(t) \/ MsgqGetWait(t) \/ \E m \in Item : MsgqPutWait(t, m)

-----------------------------------------------------------------------------

MsgqType == [type: {"msgq"}, slot: [Slot -> Item \cup {NoData}],
             read: Slot, write: Slot, used: 0 .. MaxItems]

\* What the ring holds, in order.
MsgqBuffer ==
  [i \in 1 .. obj.used |->
     LET p == obj.read + i - 1 IN obj.slot[IF p < MaxItems THEN p ELSE p - MaxItems]]
=============================================================================
