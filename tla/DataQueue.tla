----------------------------- MODULE DataQueue -----------------------------
(***************************************************************************)
(* Queues, and with them FIFOs and LIFOs: kernel/queue.c in the build      *)
(* without CONFIG_POLL, on the singly linked list of misc/sflist.h and     *)
(* misc/list_gen.h.  obj has the list's head and tail and the next pointer *)
(* of every node; a node that leaves the list keeps its next pointer.      *)
(***************************************************************************)
EXTENDS Object

\* arg[t]: the locals prev and data (or node) of t in k_queue_append() and
\* k_queue_remove(), which hold them while interrupts are not locked.
VARIABLE arg

NoArg == [prev |-> NoData, data |-> NoData]

QueueInit ==
  obj = [type |-> "queue", head |-> NoData, tail |-> NoData, next |-> [n \in Item |-> NoData]]

Prepended(q, n) ==
  [q EXCEPT !.head = n, !.next[n] = q.head, !.tail = IF @ = NoData THEN n ELSE @]

AppendedList(q, first, last) ==
  IF q.tail = NoData
    THEN [q EXCEPT !.head = first, !.tail = last]
    ELSE [q EXCEPT !.next[q.tail] = first, !.tail = last]

\* The list takes n after prev: first without one, last if prev was last.
Inserted(q, prev, n) ==
  LET new == [q EXCEPT !.next[n] = NoData]
  IN  IF prev = NoData THEN Prepended(new, n)
      ELSE IF new.next[prev] = NoData THEN AppendedList(new, n, n)
      ELSE [new EXCEPT !.next[n] = new.next[prev], !.next[prev] = n]

\* Mutant: forget that the last node may be the only one.
GottenKeepingTail(q) == [q EXCEPT !.head = q.next[q.head]]

Gotten(q) ==
  [q EXCEPT !.head = q.next[q.head], !.tail = IF @ = q.head THEN q.next[q.head] ELSE @]

\* The nodes from the head on; one too many if the list has a cycle.
QueueBuffer ==
  LET at[i \in 1 .. Cardinality(Item) + 1] ==
        IF i = 1 THEN obj.head
        ELSE IF at[i - 1] = NoData THEN NoData ELSE obj.next[at[i - 1]]
  IN  SubSeq(at, 1, Cardinality({i \in DOMAIN at : at[i] # NoData}))

\* The node before n in the list.
Before(n) ==
  LET list == QueueBuffer
      i    == CHOOSE j \in 1 .. Len(list) : list[j] = n
  IN  IF i = 1 THEN NoData ELSE list[i - 1]

\* sys_sflist_remove(): the node is unlinked, and then the tail put right and
\* the node's pointer cleared.
Unlinked(q, prev, n) ==
  IF prev = NoData THEN [q EXCEPT !.head = q.next[n]] ELSE [q EXCEPT !.next[prev] = q.next[n]]

Settled(q, prev, n) ==
  [q EXCEPT !.tail = IF @ # n THEN @ ELSE IF prev = NoData THEN q.head ELSE prev,
            !.next[n] = NoData]

\* The nodes the application may put in: not listed, not on their way in or to
\* a thread that waits for one.
Unlisted ==
  LET listed == ToSet(QueueBuffer)
  IN  {n \in Item : n \notin listed /\ \A t \in Thread : n \notin {swap_data[t], arg[t].data}}

-----------------------------------------------------------------------------

QueueInsert(isr, prev, n) == Give(isr, n, Inserted(obj, prev, n)) /\ n \in Unlisted

QueueAppend(isr, n) == QueueInsert(isr, obj.tail, n)

QueuePrepend(isr, n) == QueueInsert(isr, NoData, n)

\* A list of two nodes: as many as there are threads waiting go to those.
QueueAppendList(isr, m, n) ==
  LET linked == [obj EXCEPT !.next = [@ EXCEPT ![m] = n, ![n] = NoData]]
      q      == k.waitq[ObjectQ]
      one    == WakeFirst(k, ObjectQ, "OK")
  IN  /\ m # n
      /\ swap_data' = [t \in Thread |-> IF Len(q) >= 1 /\ t = q[1] THEN m
                                        ELSE IF Len(q) >= 2 /\ t = q[2] THEN n
                                        ELSE swap_data[t]]
      /\ obj' = CASE Len(q) = 0 -> AppendedList(linked, m, n)
                  [] Len(q) = 1 -> AppendedList(linked, n, n)
                  [] OTHER      -> linked
      /\ k' = Leave(isr, CASE Len(q) = 0 -> k
                           [] Len(q) = 1 -> one
                           [] OTHER      -> WakeFirst(one, ObjectQ, "OK"))
      /\ UNCHANGED call /\ {m, n} \subseteq Unlisted

QueueGet == obj.head # NoData /\ obj' = Gotten(obj) /\ UNCHANGED <<k, waiting>>

QueueGetWait(t) == obj.head = NoData /\ WaitIn(t, "get", NoData)

\* The first waiting thread returns with no data.
QueueCancelWait(isr) == HasWaiter(k, ObjectQ) /\ Hand(isr, NoData) /\ UNCHANGED obj

QueueRemove(n) ==
  /\ n \in ToSet(QueueBuffer)
  /\ obj' = Settled(Unlinked(obj, Before(n), n), Before(n), n)
  /\ UNCHANGED <<k, waiting>>

\* The calls that lock interrupts throughout, and the two that do not, made by
\* an interrupt that no other interrupts.
QueueCalls(isr) ==
  \/ QueueGet \/ QueueCancelWait(isr)
  \/ \E n \in Item :
       \/ QueuePrepend(isr, n) \/ (isr /\ (QueueAppend(isr, n) \/ QueueRemove(n)))
       \/ \E m \in ToSet(QueueBuffer) : QueueInsert(isr, m, n)
       \/ \E m \in Item : QueueAppendList(isr, m, n)

-----------------------------------------------------------------------------
(***************************************************************************)
(* A thread's k_queue_append() and k_queue_remove() with the moments at    *)
(* which interrupts are open and other threads may run.                    *)
(***************************************************************************)

Calls(t, name, prev, n) ==
  call' = [call EXCEPT ![t] = name] /\ arg' = [arg EXCEPT ![t] = [prev |-> prev, data |-> n]]

\* The tail is read before queue_insert() locks interrupts.
QueueAppendPeek(t, n) ==
  /\ Outside(t) /\ n \in Unlisted
  /\ Calls(t, "append", obj.tail, n) /\ UNCHANGED <<k, swap_data, obj>>

QueueAppendLocked(t, n) ==
  /\ Running(t) /\ call[t] = "append" /\ n = arg[t].data
  /\ IF HasWaiter(k, ObjectQ)
       THEN /\ k' = Reschedule(WakeFirst(k, ObjectQ, "OK"))
            /\ swap_data' = [swap_data EXCEPT ![Waiter(k, ObjectQ)] = n]
            /\ UNCHANGED obj
       ELSE obj' = Inserted(obj, arg[t].prev, n) /\ UNCHANGED <<k, swap_data>>
  /\ Calls(t, "out", NoData, NoData)

\* The walk has found n and the node before it.
QueueFind(t, n) ==
  /\ Outside(t) /\ n \in ToSet(QueueBuffer)
  /\ Calls(t, "remove", Before(n), n) /\ UNCHANGED <<k, swap_data, obj>>

QueueUnlink(t) ==
  /\ Running(t) /\ call[t] = "remove"
  /\ obj' = Unlinked(obj, arg[t].prev, arg[t].data)
  /\ Calls(t, "settle", arg[t].prev, arg[t].data) /\ UNCHANGED <<k, swap_data>>

QueueSettle(t) ==
  /\ Running(t) /\ call[t] = "settle"
  /\ obj' = Settled(obj, arg[t].prev, arg[t].data)
  /\ Calls(t, "out", NoData, NoData) /\ UNCHANGED <<k, swap_data>>

\* All but the removal's last steps and the return from a wait.
QueueUse ==
  \/ /\ QueueCalls(TRUE) \/ \E t \in Thread : (Outside(t) /\ QueueCalls(FALSE)) \/ QueueGetWait(t)
     /\ UNCHANGED arg
  \/ \E t \in Thread, n \in Item :
       QueueAppendPeek(t, n) \/ QueueAppendLocked(t, n) \/ QueueFind(t, n)

QueueNext ==
  \/ QueueUse
  \/ \E t \in Thread : QueueUnlink(t) \/ QueueSettle(t) \/ (ReturnFrom(t, "get") /\ UNCHANGED arg)

-----------------------------------------------------------------------------
(***************************************************************************)
(* What its users must see to, because the code does not.                  *)
(***************************************************************************)

\* While a k_queue_append() is between its reading of the tail and its lock,
\* the node it read does not leave the list with another one behind it.
AppendsSafe ==
  \A t \in Thread : call[t] = "append" =>
    LET prev == arg[t].prev
    IN  prev \in ToSet(QueueBuffer) \cup {NoData} \/ obj.next[prev] = NoData

\* While a thread is in k_queue_remove(), nobody aborts it and nobody else
\* uses the queue.
Undisturbed ==
  \A t \in Thread : call[t] \in {"remove", "settle"} =>
    ~QueueUse /\ (call'[t] = call[t] \/ QueueUnlink(t) \/ QueueSettle(t))

-----------------------------------------------------------------------------

\* A call that gives the queue the item n.
QueuePut(n) ==
  /\ \/ n \in Unlisted /\ \E isr \in BOOLEAN :
          \/ \E prev \in ToSet(QueueBuffer) \cup {obj.tail, NoData} : QueueInsert(isr, prev, n)
          \/ \E m \in Unlisted \ {n} : QueueAppendList(isr, m, n) \/ QueueAppendList(isr, n, m)
     \/ \E t \in Thread : QueueAppendLocked(t, n)
  /\ QueueUse

\* When a call that gives the queue an item is over, the item is in the list,
\* as a reader will find it from the head, or in the hands of a waiting thread.
PutArrives ==
  obj.type = "queue" =>
    \A n \in Item : \/ n \in ToSet(QueueBuffer') \/ \E t \in Thread : swap_data'[t] = n
                    \/ ~QueuePut(n)

\* No item is lost on its way into a queue by k_queue_insert(), _append(),
\* _prepend() or _append_list(), if the users see to AppendsSafe and
\* Undisturbed; the run queue_append shows what happens without the first.
QueueKeepsItems == [][PutArrives]_<<obj, swap_data>>

QueueType == [type: {"queue"}, head: Item \cup {NoData}, tail: Item \cup {NoData},
              next: [Item -> Item \cup {NoData}]]
=============================================================================
