---------------------------- MODULE WorkQProofs ----------------------------
(***************************************************************************)
(* The safety properties of WorkQ, proved for any set of work items and    *)
(* any number of alerts.                                                   *)
(***************************************************************************)
EXTENDS WorkQ, SequenceTheorems, TLAPS

-----------------------------------------------------------------------------
(***************************************************************************)
(* The queue.                                                              *)
(***************************************************************************)

NoDuplicates(q) == \A i, j \in 1 .. Len(q) : q[i] = q[j] => i = j

\* ToSet in terms of indices.
LEMMA ToSetIndexed ==
  ASSUME NEW q \in Seq(Work)
  PROVE  /\ \A x : (x \in ToSet(q)) <=> (\E i \in 1 .. Len(q) : q[i] = x)
         /\ ToSet(q) \subseteq Work
         /\ Len(q) \in Nat
  BY DEF ToSet

\* A sequence r that is q with w after the p-th item.
LEMMA SplicedQueue ==
  ASSUME NEW q \in Seq(Work), NEW w \in Work, NoDuplicates(q), w \notin ToSet(q),
         NEW p \in 0 .. Len(q), NEW r \in Seq(Work), Len(r) = Len(q) + 1,
         \A i \in 1 .. Len(q) + 1 : r[i] = IF i <= p THEN q[i] ELSE IF i = p + 1 THEN w ELSE q[i - 1]
  PROVE  NoDuplicates(r) /\ ToSet(r) = ToSet(q) \cup {w}
<1>1. PICK n : n = Len(q)
  OBVIOUS
<1>2. n \in Nat /\ p \in 0 .. n /\ \A x : (x \in ToSet(q)) <=> (\E i \in 1 .. n : q[i] = x)
  BY <1>1, ToSetIndexed
<1>3. \A i, j \in 1 .. n : q[i] = q[j] => i = j
  BY <1>1 DEF NoDuplicates
<1>4. \A i \in 1 .. n + 1 : r[i] = IF i <= p THEN q[i] ELSE IF i = p + 1 THEN w ELSE q[i - 1]
  BY <1>1
<1>5. Len(r) = n + 1 /\ \A x : (x \in ToSet(r)) <=> (\E i \in 1 .. n + 1 : r[i] = x)
  BY <1>1, ToSetIndexed
<1>6. ASSUME NEW i \in 1 .. n + 1
      PROVE  \/ i = p + 1 /\ r[i] = w
             \/ i <= p /\ i \in 1 .. n /\ r[i] = q[i]
             \/ i > p + 1 /\ i - 1 \in 1 .. n /\ r[i] = q[i - 1]
  BY <1>2, <1>4
<1>7. \A i \in 1 .. n : q[i] # w
  BY <1>2
<1>8. ASSUME NEW i \in 1 .. n + 1, NEW j \in 1 .. n + 1, r[i] = r[j] PROVE i = j
  <2>1. CASE i = p + 1 \/ j = p + 1
    BY <1>2, <1>6, <1>7, <1>8, <2>1
  <2>2. CASE i # p + 1 /\ j # p + 1
    BY <1>2, <1>3, <1>6, <1>8, <2>2
  <2> QED
    BY <2>1, <2>2
<1>9. ASSUME NEW x \in ToSet(q) PROVE x \in ToSet(r)
  <2>1. PICK i \in 1 .. n : q[i] = x
    BY <1>2
  <2>2. CASE i <= p
    BY <1>2, <1>4, <1>5, <2>1, <2>2
  <2>3. CASE i > p
    <3>1. i + 1 \in 1 .. n + 1 /\ ~(i + 1 <= p) /\ i + 1 # p + 1 /\ (i + 1) - 1 = i
      BY <1>2, <2>3
    <3>2. r[i + 1] = q[(i + 1) - 1]
      BY <1>4, <3>1
    <3> QED
      BY <1>5, <2>1, <3>1, <3>2
  <2> QED
    BY <1>2, <2>2, <2>3
<1>10. w \in ToSet(r)
  <2>1. p + 1 \in 1 .. n + 1 /\ ~(p + 1 <= p)
    BY <1>2
  <2>2. r[p + 1] = w
    BY <1>4, <2>1
  <2> QED
    BY <1>5, <2>1, <2>2
<1>11. ASSUME NEW x \in ToSet(r) PROVE x \in ToSet(q) \cup {w}
  <2>1. PICK i \in 1 .. n + 1 : r[i] = x
    BY <1>5
  <2> QED
    BY <1>2, <1>6, <2>1
<1> QED
  BY <1>5, <1>8, <1>9, <1>10, <1>11 DEF NoDuplicates

\* sys_sflist_insert() of an item that is not in the queue.
LEMMA InsertedQueue ==
  ASSUME NEW q \in Seq(Work), NEW w \in Work, NoDuplicates(q), w \notin ToSet(q),
         NEW prev \in Work \cup {NoWork}, chained \subseteq Work
  PROVE  /\ Inserted(q, prev, w) \in Seq(Work) /\ NoDuplicates(Inserted(q, prev, w))
         /\ ToSet(Inserted(q, prev, w)) = IF Lost(q, prev) THEN ToSet(q) ELSE ToSet(q) \cup {w}
<1> USE WorkQAssumption
<1>1. Len(q) \in Nat /\ ToSet(q) \subseteq Work
  BY ToSetIndexed
<1>2. CASE prev = NoWork
  <2>1. PICK r : r = <<w>> \o q
    OBVIOUS
  <2>2. /\ r \in Seq(Work) /\ Len(r) = 1 + Len(q)
        /\ \A i \in 1 .. 1 + Len(q) : r[i] = IF i <= 1 THEN <<w>>[i] ELSE q[i - 1]
    <3>1. <<w>> \in Seq(Work) /\ Len(<<w>>) = 1
      OBVIOUS
    <3> QED
      BY <2>1, <3>1, ConcatProperties
  <2>3. \A i \in 1 .. Len(q) + 1 : r[i] = IF i <= 0 THEN q[i] ELSE IF i = 0 + 1 THEN w ELSE q[i - 1]
    BY <1>1, <2>2
  <2>4. 0 \in 0 .. Len(q) /\ Len(r) = Len(q) + 1
    BY <1>1, <2>2
  <2>5. NoDuplicates(r) /\ ToSet(r) = ToSet(q) \cup {w}
    BY <2>2, <2>3, <2>4, SplicedQueue
  <2>6. Inserted(q, prev, w) = r
    BY <1>2, <2>1 DEF Inserted
  <2> QED
    BY <1>2, <2>2, <2>5, <2>6 DEF Lost
<1>3. CASE prev # NoWork /\ prev \in ToSet(q)
  <2>1. PICK p : p = CHOOSE i \in 1 .. Len(q) : q[i] = prev
    OBVIOUS
  <2>2. p \in 1 .. Len(q)
    <3>1. \E i \in 1 .. Len(q) : q[i] = prev
      BY <1>3, ToSetIndexed
    <3> QED
      BY <2>1, <3>1
  <2>3. PICK a : a = SubSeq(q, 1, p)
    OBVIOUS
  <2>4. PICK b : b = SubSeq(q, p + 1, Len(q))
    OBVIOUS
  <2>5. PICK r : r = (a \o <<w>>) \o b
    OBVIOUS
  <2>6. Inserted(q, prev, w) = r
    <3>1. (1 + p) - 1 = p /\ 1 + p = p + 1
      BY <2>2
    <3> QED
      BY <1>3, <2>1, <2>3, <2>4, <2>5, <3>1 DEF Inserted, InsertAt
  <2>7. a \in Seq(Work) /\ Len(a) = p /\ \A i \in 1 .. p : a[i] = q[i]
    BY <1>1, <2>2, <2>3, SubSeqProperties
  <2>8. b \in Seq(Work) /\ Len(b) = Len(q) - p /\ \A i \in 1 .. Len(q) - p : b[i] = q[p + i]
    BY <1>1, <2>2, <2>4, SubSeqProperties
  <2>9. PICK c : c = a \o <<w>>
    OBVIOUS
  <2>10. c \in Seq(Work) /\ Len(c) = p + 1 /\ \A i \in 1 .. p + 1 : c[i] = IF i <= p THEN q[i] ELSE w
    <3>1. <<w>> \in Seq(Work) /\ Len(<<w>>) = 1 /\ <<w>>[1] = w
      OBVIOUS
    <3>2. /\ c \in Seq(Work) /\ Len(c) = p + 1
          /\ \A i \in 1 .. p + 1 : c[i] = IF i <= p THEN a[i] ELSE <<w>>[i - p]
      BY <2>7, <2>9, <3>1, ConcatProperties
    <3> QED
      BY <2>2, <2>7, <3>1, <3>2
  <2>11. /\ r \in Seq(Work) /\ Len(r) = (p + 1) + (Len(q) - p)
         /\ \A i \in 1 .. (p + 1) + (Len(q) - p) : r[i] = IF i <= p + 1 THEN c[i] ELSE b[i - (p + 1)]
    <3>1. r = c \o b
      BY <2>5, <2>9
    <3> QED
      BY <2>8, <2>10, <3>1, ConcatProperties
  <2>12. PICK n : n = Len(q)
    OBVIOUS
  <2>13. Len(r) = n + 1 /\ n \in Nat /\ p \in 1 .. n
    BY <1>1, <2>2, <2>11, <2>12
  <2>14. ASSUME NEW i \in 1 .. n + 1
         PROVE  r[i] = IF i <= p THEN q[i] ELSE IF i = p + 1 THEN w ELSE q[i - 1]
    <3>1. r[i] = IF i <= p + 1 THEN c[i] ELSE b[i - (p + 1)]
      BY <2>11, <2>12, <2>13
    <3>2. CASE i <= p + 1
      BY <2>10, <2>13, <3>1, <3>2
    <3>3. CASE i > p + 1
      <4>1. i - (p + 1) \in 1 .. n - p /\ p + (i - (p + 1)) = i - 1
        BY <2>13, <3>3
      <4>2. b[i - (p + 1)] = q[p + (i - (p + 1))]
        BY <2>8, <2>12, <4>1
      <4> QED
        BY <2>13, <3>1, <3>3, <4>1, <4>2
    <3> QED
      BY <2>13, <3>2, <3>3
  <2>15. NoDuplicates(r) /\ ToSet(r) = ToSet(q) \cup {w}
    <3>1. p \in 0 .. Len(q) /\ Len(r) = Len(q) + 1 /\ r \in Seq(Work)
      BY <1>1, <2>2, <2>11, <2>12, <2>13
    <3>2. \A i \in 1 .. Len(q) + 1 : r[i] = IF i <= p THEN q[i] ELSE IF i = p + 1 THEN w ELSE q[i - 1]
      BY <2>12, <2>14
    <3> QED
      BY <3>1, <3>2, SplicedQueue
  <2> QED
    BY <1>3, <2>6, <2>11, <2>15 DEF Lost
<1>4. CASE prev # NoWork /\ prev \notin ToSet(q) /\ prev \in chained
  BY <1>4 DEF Inserted, Lost
<1>5. CASE prev # NoWork /\ prev \notin ToSet(q) /\ prev \notin chained
  <2>1. PICK r : r = Append(q, w)
    OBVIOUS
  <2>2. /\ r \in Seq(Work) /\ Len(r) = Len(q) + 1
        /\ \A i \in 1 .. Len(q) + 1 : r[i] = IF i = Len(q) + 1 THEN w ELSE q[i]
    BY <2>1, AppendProperties
  <2>3. \A i \in 1 .. Len(q) + 1 :
          r[i] = IF i <= Len(q) THEN q[i] ELSE IF i = Len(q) + 1 THEN w ELSE q[i - 1]
    BY <1>1, <2>2
  <2>4. Len(q) \in 0 .. Len(q)
    BY <1>1
  <2>5. NoDuplicates(r) /\ ToSet(r) = ToSet(q) \cup {w}
    BY <2>2, <2>3, <2>4, SplicedQueue
  <2> QED
    BY <1>5, <2>1, <2>2, <2>5 DEF Inserted, Lost
<1> QED
  BY <1>2, <1>3, <1>4, <1>5

\* What queue_insert() leaves: the waiting worker has the item, or it is in the
\* queue, or it is lost.
HasPut(q, prev, w) ==
  /\ queue' \in Seq(Work) /\ NoDuplicates(queue') /\ chained' \subseteq Work
  /\ \/ worker.pc = "wait" /\ worker' = [pc |-> "test", work |-> w] /\ ToSet(queue') = ToSet(q)
     \/ worker' = worker /\ ToSet(queue') = ToSet(q) \cup {w}
     \/ worker' = worker /\ ToSet(queue') = ToSet(q) /\ Lost(q, prev)

LEMMA PutItem ==
  ASSUME NEW q \in Seq(Work), NEW w \in Work, NoDuplicates(q), w \notin ToSet(q),
         NEW prev \in Work \cup {NoWork}, chained \subseteq Work, Put(q, prev, w)
  PROVE  HasPut(q, prev, w)
<1>1. CASE worker.pc = "wait"
  BY <1>1 DEF Put, HasPut
<1>2. CASE worker.pc # "wait"
  <2>1. queue' = Inserted(q, prev, w) /\ worker' = worker /\ chained' \subseteq Work
    BY <1>2 DEF Put
  <2>2. /\ Inserted(q, prev, w) \in Seq(Work) /\ NoDuplicates(Inserted(q, prev, w))
        /\ ToSet(Inserted(q, prev, w)) = IF Lost(q, prev) THEN ToSet(q) ELSE ToSet(q) \cup {w}
    BY InsertedQueue
  <2> QED
    BY <2>1, <2>2 DEF HasPut
<1> QED
  BY <1>1, <1>2

\* Behind the last item nothing is lost.
LEMMA PutLast ==
  ASSUME NEW q \in Seq(Work), NEW w \in Work, NoDuplicates(q), w \notin ToSet(q),
         chained \subseteq Work, SubmitLocked(q, w)
  PROVE  HasPut(q, LastOf(q), w) /\ ~Lost(q, LastOf(q))
<1>1. (LastOf(q) \in ToSet(q) /\ LastOf(q) \in Work) \/ LastOf(q) = NoWork
  <2>1. CASE q = <<>>
    BY <2>1 DEF LastOf
  <2>2. CASE q # <<>>
    <3>1. Len(q) \in 1 .. Len(q)
      BY <2>2, LenProperties
    <3>2. LastOf(q) = q[Len(q)]
      BY <2>2 DEF LastOf, Last
    <3> QED
      BY <3>1, <3>2, ToSetIndexed
  <2> QED
    BY <2>1, <2>2
<1>2. ~Lost(q, LastOf(q))
  BY <1>1, WorkQAssumption DEF Lost
<1>3. LastOf(q) \in Work \cup {NoWork}
  BY <1>1
<1> QED
  BY <1>2, <1>3, PutItem DEF SubmitLocked

\* What the worker takes off the queue, and what it leaves.
LEMMA TailQueue ==
  ASSUME NEW q \in Seq(Work), NoDuplicates(q), q # <<>>
  PROVE  /\ Tail(q) \in Seq(Work) /\ NoDuplicates(Tail(q)) /\ Head(q) \in Work
         /\ Head(q) \in ToSet(q) /\ ToSet(Tail(q)) = ToSet(q) \ {Head(q)}
<1> DEFINE r == Tail(q)
           n == Len(q)
<1>1. /\ r \in Seq(Work) /\ Len(r) = n - 1 /\ n \in Nat /\ n > 0 /\ Head(q) = q[1]
      /\ \A i \in 1 .. n - 1 : r[i] = q[i + 1]
  BY HeadTailProperties, LenProperties
<1>2. \A x : (x \in ToSet(q)) <=> (\E i \in 1 .. n : q[i] = x)
  BY ToSetIndexed
<1>4. \A i, j \in 1 .. n : q[i] = q[j] => i = j
  BY DEF NoDuplicates
<1>5. ToSet(q) \subseteq Work
  BY ToSetIndexed
<1> HIDE DEF r, n
<1>3. \A x : (x \in ToSet(r)) <=> (\E i \in 1 .. n - 1 : r[i] = x)
  BY <1>1, ToSetIndexed
<1>6. \A i, j \in 1 .. n - 1 : r[i] = r[j] => i = j
  BY <1>1, <1>4
<1>7. ASSUME NEW x \in ToSet(q), x # Head(q) PROVE x \in ToSet(r)
  <2>1. PICK i \in 1 .. n : q[i] = x
    BY <1>2
  <2>2. i - 1 \in 1 .. n - 1 /\ r[i - 1] = q[(i - 1) + 1] /\ (i - 1) + 1 = i
    BY <1>1, <1>7, <2>1
  <2> QED
    BY <1>3, <2>1, <2>2
<1>8. ASSUME NEW x \in ToSet(r) PROVE x \in ToSet(q) /\ x # Head(q)
  <2>1. PICK i \in 1 .. n - 1 : r[i] = x
    BY <1>3
  <2>2. i + 1 \in 1 .. n /\ q[i + 1] = x /\ i + 1 # 1 /\ 1 \in 1 .. n
    BY <1>1, <2>1
  <2> QED
    BY <1>1, <1>2, <1>4, <2>2
<1>9. Head(q) \in ToSet(q)
  BY <1>1, <1>2
<1> QED
  BY <1>1, <1>5, <1>6, <1>7, <1>8, <1>9 DEF NoDuplicates, r

\* k_queue_remove().
LEMMA UnqueuedQueue ==
  ASSUME NEW w \in Work, queue \in Seq(Work), NoDuplicates(queue)
  PROVE  /\ Unqueued(w) \in Seq(Work) /\ NoDuplicates(Unqueued(w))
         /\ ToSet(Unqueued(w)) = ToSet(queue) \ {w}
<1>1. CASE w \notin ToSet(queue)
  BY <1>1 DEF Unqueued
<1>2. CASE w \in ToSet(queue)
  <2> DEFINE q == queue
             n == Len(queue)
             p == CHOOSE i \in 1 .. Len(queue) : queue[i] = w
             a == SubSeq(q, 1, p - 1)
             b == SubSeq(q, p + 1, n)
             r == a \o b
  <2>1. n \in Nat /\ p \in 1 .. n /\ q[p] = w
    BY <1>2, ToSetIndexed
  <2>2. Unqueued(w) = r
    BY <1>2 DEF Unqueued, RemoveAt
  <2> HIDE DEF p
  <2>3. a \in Seq(Work) /\ Len(a) = p - 1 /\ \A i \in 1 .. p - 1 : a[i] = q[i]
    BY <2>1, SubSeqProperties
  <2>4. b \in Seq(Work) /\ Len(b) = n - p /\ \A i \in 1 .. n - p : b[i] = q[p + i]
    BY <2>1, SubSeqProperties
  <2> HIDE DEF a, b
  <2>5. r \in Seq(Work) /\ Len(r) = Len(a) + Len(b)
          /\ \A i \in 1 .. Len(a) + Len(b) : r[i] = IF i <= Len(a) THEN a[i] ELSE b[i - Len(a)]
    BY <2>3, <2>4, ConcatProperties
  <2> HIDE DEF r
  <2>6. ASSUME NEW i \in 1 .. n - 1
        PROVE  r[i] = IF i < p THEN q[i] ELSE q[i + 1]
    <3>1. CASE i < p
      <4>1. i \in 1 .. Len(a) + Len(b) /\ i <= Len(a) /\ i \in 1 .. p - 1
        BY <2>1, <2>3, <2>4, <3>1
      <4> QED
        BY <2>3, <2>5, <3>1, <4>1
    <3>2. CASE i >= p
      <4>1. i - (p - 1) \in 1 .. n - p /\ p + (i - (p - 1)) = i + 1 /\ ~(i < p)
        BY <2>1, <3>2
      <4>2. r[i] = b[i - (p - 1)]
        <5>1. i \in 1 .. Len(a) + Len(b) /\ ~(i <= Len(a)) /\ Len(a) = p - 1
          BY <2>1, <2>3, <2>4, <3>2
        <5> QED
          BY <2>5, <5>1
      <4>3. b[i - (p - 1)] = q[p + (i - (p - 1))]
        BY <2>4, <4>1
      <4> QED
        BY <4>1, <4>2, <4>3
    <3> QED
      BY <2>1, <3>1, <3>2
  <2>7. r \in Seq(Work) /\ Len(r) = n - 1
    BY <2>1, <2>3, <2>4, <2>5
  <2>8. \A x : (x \in ToSet(q)) <=> (\E i \in 1 .. n : q[i] = x)
    BY ToSetIndexed
  <2>9. \A x : (x \in ToSet(r)) <=> (\E i \in 1 .. n - 1 : r[i] = x)
    BY <2>7, ToSetIndexed
  <2>10. \A i, j \in 1 .. n : q[i] = q[j] => i = j
    BY DEF NoDuplicates
  <2> HIDE DEF n, q
  <2>11. \A i, j \in 1 .. n - 1 : r[i] = r[j] => i = j
    BY <2>1, <2>6, <2>10
  <2>12. ASSUME NEW x \in ToSet(q), x # w PROVE x \in ToSet(r)
    <3>1. PICK i \in 1 .. n : q[i] = x
      BY <2>8
    <3>2. CASE i < p
      BY <2>1, <2>6, <2>9, <3>1, <3>2
    <3>3. CASE i > p
      <4>1. i - 1 \in 1 .. n - 1 /\ r[i - 1] = q[(i - 1) + 1] /\ (i - 1) + 1 = i
        BY <2>1, <2>6, <3>3
      <4> QED
        BY <2>9, <3>1, <4>1
    <3> QED
      BY <2>1, <2>12, <3>1, <3>2, <3>3
  <2>13. ASSUME NEW x \in ToSet(r) PROVE x \in ToSet(q) /\ x # w
    <3>1. PICK i \in 1 .. n - 1 : r[i] = x
      BY <2>9
    <3> QED
      BY <2>1, <2>6, <2>8, <2>10, <3>1
  <2> QED
    BY <2>2, <2>7, <2>11, <2>12, <2>13 DEF NoDuplicates, q
<1> QED
  BY <1>1, <1>2

-----------------------------------------------------------------------------
(***************************************************************************)
(* The inductive invariant.                                                *)
(***************************************************************************)

Testing(w) == worker.pc = "test" /\ worker.work = w

\* An item on its way is pending and in one place, and a pending one is on its
\* way: PendingExact, place by place.
Placed ==
  /\ NoDuplicates(queue)
  /\ \A w \in Work :
       /\ w \in ToSet(queue) \/ w \in submitting \/ Testing(w) => w \in pending
       /\ ~(w \in ToSet(queue) /\ w \in submitting)
       /\ ~(w \in ToSet(queue) /\ Testing(w))
       /\ ~(w \in submitting /\ Testing(w))

NoneLost == \A w \in pending : w \in ToSet(queue) \/ w \in submitting \/ Testing(w)

\* An idle worker has no item, a delayed one is submitted with interrupts
\* locked, and a submission has read one tail.
Local ==
  /\ worker.pc \in {"get", "wait"} <=> worker.work = NoWork
  /\ submitting \cap Delayed = {}
  /\ \A a, b \in seen : a[1] = b[1] => a = b

\* The alerts that have been sent and not delivered have exactly one carrier:
\* a sender, the pending item or the handler that runs.
AlertCarried ==
  /\ sends.count > 0 <=> sends.owed \/ AlertWork \in pending \/ Runs(AlertWork)
  /\ ~(sends.owed /\ AlertWork \in pending)
  /\ ~(sends.owed /\ Runs(AlertWork))
  /\ ~(AlertWork \in pending /\ Runs(AlertWork))

WorkQInv ==
  /\ WorkQTypeOK
  /\ Placed
  /\ CancelIsFinal
  /\ AlertCarried
  /\ Local

\* What a step keeps: all of it, and that none is lost if appends are safe.
Kept == WorkQInv' /\ (AppendsSafe /\ NoneLost => NoneLost')

\* A submission marks the item.
LEMMA SubmitKeeps ==
  ASSUME NEW w \in Work \ (Delayed \cup {AlertWork}), WorkQInv, WorkSubmit(w), UNCHANGED sends
  PROVE  Kept
<1> USE WorkQAssumption
<1>1. queue' \in Seq(Work) /\ NoDuplicates(queue') /\ ToSet(queue') = ToSet(queue)
  BY DEF WorkSubmit, WorkQInv, WorkQTypeOK, Placed, ToSet
<1>2. WorkQTypeOK'
  BY <1>1 DEF WorkSubmit, WorkQInv, WorkQTypeOK, AlertCarried, Runs
<1>3. Placed'
  BY <1>1 DEF WorkSubmit, WorkQInv, WorkQTypeOK, Placed, Testing, CancelIsFinal
<1>4. CancelIsFinal'
  BY <1>1 DEF WorkSubmit, WorkQInv, WorkQTypeOK, Placed, Testing, CancelIsFinal
<1>5. AlertCarried'
  BY <1>1 DEF WorkSubmit, WorkQInv, WorkQTypeOK, Placed, Testing, AlertCarried, Runs
<1>6. Local'
  BY <1>1 DEF WorkSubmit, WorkQInv, WorkQTypeOK, Local
<1>7. AppendsSafe /\ NoneLost => NoneLost'
  BY <1>1 DEF WorkSubmit, WorkQInv, WorkQTypeOK, Placed, Testing, CancelIsFinal, NoneLost
<1> QED
  BY <1>2, <1>3, <1>4, <1>5, <1>6, <1>7 DEF WorkQInv, Kept

\* The submission reads the tail.
LEMMA PeekKeeps ==
  ASSUME NEW w \in Work, WorkQInv, WorkPeek(w)
  PROVE  Kept
<1> USE WorkQAssumption
<1>1. LastOf(queue) \in Work \cup {NoWork}
  <2>1. CASE queue = <<>>
    BY <2>1 DEF LastOf
  <2>2. CASE queue # <<>>
    BY <2>2, LenProperties DEF LastOf, Last, WorkQInv, WorkQTypeOK
  <2> QED
    BY <2>1, <2>2
<1>2. WorkQTypeOK'
  BY <1>1 DEF WorkPeek, WorkQInv, WorkQTypeOK
<1>3. Local'
  BY DEF WorkPeek, WorkQInv, WorkQTypeOK, Local
<1>4. (Placed /\ CancelIsFinal /\ AlertCarried)' /\ (NoneLost => NoneLost')
  BY DEF WorkPeek, WorkQInv, Placed, CancelIsFinal, AlertCarried, NoneLost, Testing, Runs, NoDuplicates, ToSet
<1> QED
  BY <1>2, <1>3, <1>4 DEF WorkQInv, Kept

\* The submission inserts it, or hands it over.
LEMMA AppendKeeps ==
  ASSUME NEW w \in Work, NEW prev \in Work \cup {NoWork}, WorkQInv, WorkAppend(w, prev)
  PROVE  Kept
<1> USE WorkQAssumption
<1>1. /\ HasPut(queue, prev, w) /\ w \in submitting
      /\ AppendsSafe => ~Lost(queue, prev)
  <2>1. w \in submitting
    BY DEF WorkAppend, WorkQInv, WorkQTypeOK
  <2>2. w \notin ToSet(queue) /\ NoDuplicates(queue) /\ queue \in Seq(Work) /\ chained \subseteq Work
    BY <2>1 DEF WorkQInv, WorkQTypeOK, Placed
  <2>3. HasPut(queue, prev, w)
    BY <2>2, PutItem DEF WorkAppend
  <2>4. AppendsSafe => ~Lost(queue, prev)
    BY DEF WorkAppend, AppendsSafe
  <2> QED
    BY <2>1, <2>3, <2>4
<1>2. WorkQTypeOK'
  BY <1>1 DEF WorkAppend, WorkQInv, WorkQTypeOK, HasPut, Local
<1>3. Placed'
  BY <1>1 DEF WorkAppend, WorkQInv, WorkQTypeOK, HasPut, Placed, Testing
<1>4. CancelIsFinal'
  BY DEF WorkAppend, WorkQInv, CancelIsFinal
<1>5. AlertCarried'
  BY <1>1 DEF WorkAppend, WorkQInv, WorkQTypeOK, HasPut, AlertCarried, Runs
<1>6. Local'
  BY <1>1 DEF WorkAppend, WorkQInv, WorkQTypeOK, HasPut, Local
<1>7. AppendsSafe /\ NoneLost => NoneLost'
  BY <1>1 DEF WorkAppend, WorkQInv, WorkQTypeOK, HasPut, Placed, Testing, NoneLost
<1> QED
  BY <1>2, <1>3, <1>4, <1>5, <1>6, <1>7 DEF WorkQInv, Kept

\* k_delayed_work_cancel().
LEMMA CancelKeeps ==
  ASSUME NEW w \in Delayed, WorkQInv, DelayedCancel(w)
  PROVE  Kept
<1> USE WorkQAssumption
<1>1. queue' \in Seq(Work) /\ NoDuplicates(queue') /\ ToSet(queue') = ToSet(queue) \ {w}
  BY UnqueuedQueue DEF DelayedCancel, Cancelled, WorkQInv, WorkQTypeOK, Placed
<1>2. WorkQTypeOK'
  BY <1>1 DEF DelayedCancel, Cancelled, Cancellable, WorkQInv, WorkQTypeOK, AlertCarried, Runs
<1>3. Placed'
  BY <1>1 DEF DelayedCancel, Cancelled, Cancellable, WorkQInv, WorkQTypeOK, Placed, Testing, CancelIsFinal
<1>4. CancelIsFinal'
  BY <1>1 DEF DelayedCancel, Cancelled, Cancellable, WorkQInv, WorkQTypeOK, Placed, Testing, CancelIsFinal
<1>5. AlertCarried'
  BY <1>1 DEF DelayedCancel, Cancelled, Cancellable, WorkQInv, WorkQTypeOK, Placed, Testing, AlertCarried, Runs
<1>6. Local'
  BY <1>1 DEF DelayedCancel, Cancelled, Cancellable, WorkQInv, WorkQTypeOK, Local
<1>7. AppendsSafe /\ NoneLost => NoneLost'
  BY <1>1 DEF DelayedCancel, Cancelled, Cancellable, WorkQInv, WorkQTypeOK, Placed, Testing, CancelIsFinal, NoneLost
<1> QED
  BY <1>2, <1>3, <1>4, <1>5, <1>6, <1>7 DEF WorkQInv, Kept

\* k_delayed_work_submit_to_queue() with a delay.
LEMMA SubmitDelayedKeeps ==
  ASSUME NEW w \in Delayed, WorkQInv, DelayedSubmit(w, TRUE)
  PROVE  Kept
<1> USE WorkQAssumption
<1>1. queue' \in Seq(Work) /\ NoDuplicates(queue') /\ ToSet(queue') = ToSet(queue) \ {w}
  BY UnqueuedQueue DEF DelayedSubmit, Cancelled, WorkQInv, WorkQTypeOK, Placed
<1>2. WorkQTypeOK'
  BY <1>1 DEF DelayedSubmit, Cancelled, Cancellable, WorkQInv, WorkQTypeOK, AlertCarried, Runs
<1>3. Placed'
  BY <1>1 DEF DelayedSubmit, Cancelled, Cancellable, WorkQInv, WorkQTypeOK, Placed, Testing, CancelIsFinal
<1>4. CancelIsFinal'
  BY <1>1 DEF DelayedSubmit, Cancelled, Cancellable, WorkQInv, WorkQTypeOK, Placed, Testing, CancelIsFinal
<1>5. AlertCarried'
  BY <1>1 DEF DelayedSubmit, Cancelled, Cancellable, WorkQInv, WorkQTypeOK, Placed, Testing, AlertCarried, Runs
<1>6. Local'
  BY <1>1 DEF DelayedSubmit, Cancelled, Cancellable, WorkQInv, WorkQTypeOK, Local
<1>7. AppendsSafe /\ NoneLost => NoneLost'
  BY <1>1 DEF DelayedSubmit, Cancelled, Cancellable, WorkQInv, WorkQTypeOK, Placed, Testing, CancelIsFinal, NoneLost
<1> QED
  BY <1>2, <1>3, <1>4, <1>5, <1>6, <1>7 DEF WorkQInv, Kept

\* k_delayed_work_submit_to_queue() without a delay.
LEMMA SubmitAtOnceKeeps ==
  ASSUME NEW w \in Delayed, WorkQInv, DelayedSubmit(w, FALSE)
  PROVE  Kept
<1> USE WorkQAssumption
<1>1. PICK q : q = Unqueued(w)
  OBVIOUS
<1>2. q \in Seq(Work) /\ NoDuplicates(q) /\ ToSet(q) = ToSet(queue) \ {w} /\ chained \subseteq Work
  BY <1>1, UnqueuedQueue DEF WorkQInv, WorkQTypeOK, Placed
<1>3. HasPut(q, LastOf(q), w) /\ ~Lost(q, LastOf(q))
  BY <1>1, <1>2, PutLast DEF DelayedSubmit, Cancelled
<1>4. w \notin submitting /\ ~Testing(w)
  BY DEF DelayedSubmit, Cancellable, WorkQInv, Local, Placed, CancelIsFinal
<1>5. WorkQTypeOK'
  BY <1>3 DEF DelayedSubmit, Cancelled, WorkQInv, WorkQTypeOK, HasPut, Local
<1>6. Placed'
  BY <1>2, <1>3, <1>4 DEF DelayedSubmit, WorkQInv, WorkQTypeOK, HasPut, Placed, Testing
<1>7. CancelIsFinal'
  BY DEF DelayedSubmit, Cancelled, WorkQInv, CancelIsFinal
<1>8. AlertCarried'
  BY <1>3 DEF DelayedSubmit, WorkQInv, WorkQTypeOK, HasPut, AlertCarried, Runs
<1>9. Local'
  BY <1>3 DEF DelayedSubmit, WorkQInv, WorkQTypeOK, HasPut, Local
<1>10. NoneLost => NoneLost'
  BY <1>2, <1>3 DEF DelayedSubmit, WorkQInv, WorkQTypeOK, HasPut, Placed, Testing, NoneLost
<1> QED
  BY <1>5, <1>6, <1>7, <1>8, <1>9, <1>10 DEF WorkQInv, Kept

\* work_timeout().
LEMMA TimeoutKeeps ==
  ASSUME NEW w \in Delayed, WorkQInv, WorkTimeout(w)
  PROVE  Kept
<1> USE WorkQAssumption
<1>1. w \notin pending /\ w \notin ToSet(queue) /\ w \notin submitting /\ ~Testing(w) /\ w \in attached
  BY DEF WorkTimeout, WorkQInv, Placed, CancelIsFinal
<1>2. HasPut(queue, LastOf(queue), w) /\ ~Lost(queue, LastOf(queue))
  BY <1>1, PutLast DEF WorkTimeout, WorkQInv, WorkQTypeOK, Placed
<1>3. WorkQTypeOK'
  BY <1>2 DEF WorkTimeout, WorkQInv, WorkQTypeOK, HasPut, Local
<1>4. Placed'
  BY <1>1, <1>2 DEF WorkTimeout, WorkQInv, WorkQTypeOK, HasPut, Placed, Testing
<1>5. CancelIsFinal'
  BY <1>1 DEF WorkTimeout, WorkQInv, CancelIsFinal
<1>6. AlertCarried'
  BY <1>2 DEF WorkTimeout, WorkQInv, WorkQTypeOK, HasPut, AlertCarried, Runs
<1>7. Local'
  BY <1>2 DEF WorkTimeout, WorkQInv, WorkQTypeOK, HasPut, Local
<1>8. NoneLost => NoneLost'
  BY <1>2 DEF WorkTimeout, WorkQInv, WorkQTypeOK, HasPut, Placed, Testing, NoneLost
<1> QED
  BY <1>3, <1>4, <1>5, <1>6, <1>7, <1>8 DEF WorkQInv, Kept

\* The worker takes an item.
LEMMA GetKeeps ==
  ASSUME WorkQInv, WorkerGet
  PROVE  Kept
<1> USE WorkQAssumption
<1>1. queue' \in Seq(Work) /\ NoDuplicates(queue') /\ Head(queue) \in ToSet(queue) /\ ToSet(queue') = ToSet(queue) \ {Head(queue)} /\ Head(queue) \in Work
  BY TailQueue DEF WorkerGet, WorkQInv, WorkQTypeOK, Placed
<1>2. WorkQTypeOK'
  BY <1>1 DEF WorkerGet, WorkQInv, WorkQTypeOK, AlertCarried, Runs
<1>3. Placed'
  BY <1>1 DEF WorkerGet, WorkQInv, WorkQTypeOK, Placed, Testing, CancelIsFinal
<1>4. CancelIsFinal'
  BY <1>1 DEF WorkerGet, WorkQInv, WorkQTypeOK, Placed, Testing, CancelIsFinal
<1>5. AlertCarried'
  BY <1>1 DEF WorkerGet, WorkQInv, WorkQTypeOK, Placed, Testing, AlertCarried, Runs
<1>6. Local'
  BY <1>1 DEF WorkerGet, WorkQInv, WorkQTypeOK, Local
<1>7. AppendsSafe /\ NoneLost => NoneLost'
  BY <1>1 DEF WorkerGet, WorkQInv, WorkQTypeOK, Placed, Testing, CancelIsFinal, NoneLost
<1> QED
  BY <1>2, <1>3, <1>4, <1>5, <1>6, <1>7 DEF WorkQInv, Kept

\* The worker waits.
LEMMA WaitKeeps ==
  ASSUME WorkQInv, WorkerWait
  PROVE  Kept
<1>1. WorkQTypeOK' /\ Local' /\ CancelIsFinal'
  BY DEF WorkerWait, WorkQInv, WorkQTypeOK, Local, CancelIsFinal
<1>2. Placed' /\ (NoneLost => NoneLost')
  BY DEF WorkerWait, WorkQInv, Placed, NoneLost, Testing, NoDuplicates, ToSet
<1>3. AlertCarried'
  BY DEF WorkerWait, WorkQInv, AlertCarried, Runs
<1> QED
  BY <1>1, <1>2, <1>3 DEF WorkQInv, Kept

\* The worker tests and clears the pending flag.
LEMMA TestKeeps ==
  ASSUME WorkQInv, WorkerTest
  PROVE  Kept
<1> USE WorkQAssumption
<1>1. queue' \in Seq(Work) /\ NoDuplicates(queue') /\ ToSet(queue') = ToSet(queue)
  BY DEF WorkerTest, WorkQInv, WorkQTypeOK, Placed, ToSet
<1>2. WorkQTypeOK'
  BY <1>1 DEF WorkerTest, WorkQInv, WorkQTypeOK, AlertCarried, Runs
<1>3. Placed'
  BY <1>1 DEF WorkerTest, WorkQInv, WorkQTypeOK, Placed, Testing, CancelIsFinal
<1>4. CancelIsFinal'
  BY <1>1 DEF WorkerTest, WorkQInv, WorkQTypeOK, Placed, Testing, CancelIsFinal
<1>5. AlertCarried'
  BY <1>1 DEF WorkerTest, WorkQInv, WorkQTypeOK, Placed, Testing, AlertCarried, Runs
<1>6. Local'
  BY <1>1 DEF WorkerTest, WorkQInv, WorkQTypeOK, Local
<1>7. AppendsSafe /\ NoneLost => NoneLost'
  BY <1>1 DEF WorkerTest, WorkQInv, WorkQTypeOK, Placed, Testing, CancelIsFinal, NoneLost
<1> QED
  BY <1>2, <1>3, <1>4, <1>5, <1>6, <1>7 DEF WorkQInv, Kept

\* A handler returns.
LEMMA DoneKeeps ==
  ASSUME WorkQInv, WorkerDone
  PROVE  Kept
<1> USE WorkQAssumption
<1>1. queue' \in Seq(Work) /\ NoDuplicates(queue') /\ ToSet(queue') = ToSet(queue)
  BY DEF WorkerDone, WorkQInv, WorkQTypeOK, Placed, ToSet
<1>2. WorkQTypeOK'
  BY <1>1 DEF WorkerDone, WorkQInv, WorkQTypeOK, AlertCarried, Runs
<1>3. Placed'
  BY <1>1 DEF WorkerDone, WorkQInv, WorkQTypeOK, Placed, Testing, CancelIsFinal
<1>4. CancelIsFinal'
  BY <1>1 DEF WorkerDone, WorkQInv, WorkQTypeOK, Placed, Testing, CancelIsFinal
<1>5. AlertCarried'
  BY <1>1 DEF WorkerDone, WorkQInv, WorkQTypeOK, Placed, Testing, AlertCarried, Runs
<1>6. Local'
  BY <1>1 DEF WorkerDone, WorkQInv, WorkQTypeOK, Local
<1>7. AppendsSafe /\ NoneLost => NoneLost'
  BY <1>1 DEF WorkerDone, WorkQInv, WorkQTypeOK, Placed, Testing, CancelIsFinal, NoneLost
<1> QED
  BY <1>2, <1>3, <1>4, <1>5, <1>6, <1>7 DEF WorkQInv, Kept

\* A round of _alert_deliver().
LEMMA DeliverKeeps ==
  ASSUME NEW unhandled \in BOOLEAN, WorkQInv, AlertDeliver(unhandled)
  PROVE  Kept
<1> USE WorkQAssumption
<1>1. queue' \in Seq(Work) /\ NoDuplicates(queue') /\ ToSet(queue') = ToSet(queue)
  BY DEF AlertDeliver, Delivered, WorkQInv, WorkQTypeOK, Placed, ToSet
<1>2. WorkQTypeOK'
  <2>1. sends.count \in 1 .. MaxSent /\ sends.sem \in 0 .. MaxPending /\ sends.owed \in BOOLEAN
    BY DEF AlertDeliver, WorkQInv, WorkQTypeOK, AlertCarried, Runs
  <2>2. sends' = [count |-> sends.count - 1, owed |-> sends.owed,
                  sem |-> IF unhandled /\ sends.sem < MaxPending THEN sends.sem + 1
                          ELSE sends.sem]
    BY DEF AlertDeliver, Delivered, WorkQInv, WorkQTypeOK
  <2>3. sends.count - 1 \in 0 .. MaxSent
          /\ (IF unhandled /\ sends.sem < MaxPending THEN sends.sem + 1 ELSE sends.sem)
               \in 0 .. MaxPending
    BY <2>1
  <2>4. sends' \in [count: 0 .. MaxSent, owed: BOOLEAN, sem: 0 .. MaxPending]
    BY <2>1, <2>2, <2>3
  <2> QED
    BY <1>1, <2>4 DEF AlertDeliver, WorkQInv, WorkQTypeOK
<1>3. Placed'
  BY <1>1 DEF AlertDeliver, Delivered, WorkQInv, WorkQTypeOK, Placed, Testing, CancelIsFinal
<1>4. CancelIsFinal'
  BY <1>1 DEF AlertDeliver, Delivered, WorkQInv, WorkQTypeOK, Placed, Testing, CancelIsFinal
<1>5. AlertCarried'
  BY <1>1 DEF AlertDeliver, Delivered, WorkQInv, WorkQTypeOK, Placed, Testing, AlertCarried, Runs
<1>6. Local'
  BY <1>1 DEF AlertDeliver, Delivered, WorkQInv, WorkQTypeOK, Local
<1>7. AppendsSafe /\ NoneLost => NoneLost'
  BY <1>1 DEF AlertDeliver, Delivered, WorkQInv, WorkQTypeOK, Placed, Testing, CancelIsFinal, NoneLost
<1> QED
  BY <1>2, <1>3, <1>4, <1>5, <1>6, <1>7 DEF WorkQInv, Kept

\* k_alert_send().
LEMMA SendKeeps ==
  ASSUME WorkQInv, AlertSend
  PROVE  Kept
<1> USE WorkQAssumption
<1>1. queue' \in Seq(Work) /\ NoDuplicates(queue') /\ ToSet(queue') = ToSet(queue)
  BY DEF AlertSend, WorkQInv, WorkQTypeOK, Placed, ToSet
<1>2. WorkQTypeOK' /\ sends'.count = sends.count + 1
        /\ sends'.owed = (sends.owed \/ sends.count = 0)
  <2>1. sends' = [count |-> sends.count + 1, owed |-> sends.owed \/ sends.count = 0,
                  sem |-> sends.sem]
    BY DEF AlertSend, WorkQInv, WorkQTypeOK
  <2>2. sends.count + 1 \in 0 .. MaxSent /\ sends.sem \in 0 .. MaxPending
    BY DEF AlertSend, WorkQInv, WorkQTypeOK
  <2>3. sends' \in [count: 0 .. MaxSent, owed: BOOLEAN, sem: 0 .. MaxPending]
    BY <2>1, <2>2, Zenon
  <2> QED
    BY <1>1, <2>1, <2>3 DEF AlertSend, WorkQInv, WorkQTypeOK
<1>3. Placed'
  BY <1>1 DEF AlertSend, WorkQInv, WorkQTypeOK, Placed, Testing, CancelIsFinal
<1>4. CancelIsFinal'
  BY <1>1 DEF AlertSend, WorkQInv, WorkQTypeOK, Placed, Testing, CancelIsFinal
<1>5. AlertCarried'
  <2>1. sends'.count > 0 /\ (sends.count = 0 <=> ~(sends.count > 0))
    <3>1. sends.count \in Nat /\ sends'.count = sends.count + 1
      BY <1>2 DEF WorkQInv, WorkQTypeOK
    <3> QED
      BY <3>1
  <2>2. UNCHANGED <<pending, worker>>
    BY DEF AlertSend
  <2> QED
    BY <1>2, <2>1, <2>2, Zenon DEF WorkQInv, AlertCarried, Runs
<1>6. Local'
  BY <1>1 DEF AlertSend, WorkQInv, WorkQTypeOK, Local
<1>7. AppendsSafe /\ NoneLost => NoneLost'
  BY <1>1 DEF AlertSend, WorkQInv, WorkQTypeOK, Placed, Testing, CancelIsFinal, NoneLost
<1> QED
  BY <1>2, <1>3, <1>4, <1>5, <1>6, <1>7 DEF WorkQInv, Kept

\* The first sender submits the alert's item.
LEMMA AlertSubmitKeeps ==
  ASSUME WorkQInv, AlertSubmit
  PROVE  Kept
<1> USE WorkQAssumption
<1>1. queue' \in Seq(Work) /\ NoDuplicates(queue') /\ ToSet(queue') = ToSet(queue)
  BY DEF AlertSubmit, WorkSubmit, WorkQInv, WorkQTypeOK, Placed, ToSet
<1>2. WorkQTypeOK'
  <2>1. sends' \in [count: 0 .. MaxSent, owed: BOOLEAN, sem: 0 .. MaxPending]
    BY DEF AlertSubmit, WorkQInv, WorkQTypeOK
  <2>2. /\ chained' = chained /\ seen' = seen /\ worker' = worker
        /\ attached' = attached /\ counting' = counting
        /\ submitting \subseteq submitting' /\ submitting' \subseteq Work /\ pending' \subseteq Work
    BY DEF AlertSubmit, WorkSubmit, WorkQInv, WorkQTypeOK
  <2> QED
    BY <1>1, <2>1, <2>2 DEF WorkQInv, WorkQTypeOK
<1>3. Placed'
  BY <1>1 DEF AlertSubmit, WorkSubmit, WorkQInv, WorkQTypeOK, Placed, Testing, CancelIsFinal
<1>4. CancelIsFinal'
  BY <1>1 DEF AlertSubmit, WorkSubmit, WorkQInv, WorkQTypeOK, Placed, Testing, CancelIsFinal
<1>5. AlertCarried'
  BY <1>1 DEF AlertSubmit, WorkSubmit, WorkQInv, WorkQTypeOK, Placed, Testing, AlertCarried, Runs
<1>6. Local'
  BY <1>1 DEF AlertSubmit, WorkSubmit, WorkQInv, WorkQTypeOK, Local
<1>7. AppendsSafe /\ NoneLost => NoneLost'
  BY <1>1 DEF AlertSubmit, WorkSubmit, WorkQInv, WorkQTypeOK, Placed, Testing, CancelIsFinal, NoneLost
<1> QED
  BY <1>2, <1>3, <1>4, <1>5, <1>6, <1>7 DEF WorkQInv, Kept

\* k_alert_recv().
LEMMA RecvKeeps ==
  ASSUME WorkQInv, AlertRecv
  PROVE  Kept
<1> USE WorkQAssumption
<1>1. queue' \in Seq(Work) /\ NoDuplicates(queue') /\ ToSet(queue') = ToSet(queue)
  BY DEF AlertRecv, WorkQInv, WorkQTypeOK, Placed, ToSet
<1>2. WorkQTypeOK'
  BY <1>1 DEF AlertRecv, WorkQInv, WorkQTypeOK, AlertCarried, Runs
<1>3. Placed'
  BY <1>1 DEF AlertRecv, WorkQInv, WorkQTypeOK, Placed, Testing, CancelIsFinal
<1>4. CancelIsFinal'
  BY <1>1 DEF AlertRecv, WorkQInv, WorkQTypeOK, Placed, Testing, CancelIsFinal
<1>5. AlertCarried'
  BY <1>1 DEF AlertRecv, WorkQInv, WorkQTypeOK, Placed, Testing, AlertCarried, Runs
<1>6. Local'
  BY <1>1 DEF AlertRecv, WorkQInv, WorkQTypeOK, Local
<1>7. AppendsSafe /\ NoneLost => NoneLost'
  BY <1>1 DEF AlertRecv, WorkQInv, WorkQTypeOK, Placed, Testing, CancelIsFinal, NoneLost
<1> QED
  BY <1>2, <1>3, <1>4, <1>5, <1>6, <1>7 DEF WorkQInv, Kept

\* A step of the work queue.
LEMMA WorkQStep ==
  ASSUME WorkQInv, [WorkQNext]_workVars
  PROVE  Kept
<1>1. CASE WorkerStep
  BY <1>1, GetKeeps, WaitKeeps, TestKeeps, DoneKeeps, DeliverKeeps DEF WorkerStep
<1>2. CASE AlertSend \/ AlertSubmit \/ AlertRecv
  BY <1>2, SendKeeps, AlertSubmitKeeps, RecvKeeps
<1>3. CASE \E w \in Work : WorkPeek(w) \/ \E prev \in Work \cup {NoWork} : WorkAppend(w, prev)
  BY <1>3, PeekKeeps, AppendKeeps
<1>4. CASE \E w \in Work \ (Delayed \cup {AlertWork}) : WorkSubmit(w) /\ UNCHANGED sends
  BY <1>4, SubmitKeeps
<1>5. ASSUME NEW w \in Delayed,
             DelayedCancel(w) \/ WorkTimeout(w) \/ \E delay \in BOOLEAN : DelayedSubmit(w, delay)
      PROVE  Kept
  BY <1>5, CancelKeeps, TimeoutKeeps, SubmitDelayedKeeps, SubmitAtOnceKeeps
<1>6. CASE UNCHANGED workVars
  BY <1>6 DEF workVars, Kept, WorkQInv, WorkQTypeOK, Placed, NoneLost, Local, CancelIsFinal, AlertCarried,
              Testing, Runs, NoDuplicates, ToSet
<1> QED
  BY <1>1, <1>2, <1>3, <1>4, <1>5, <1>6 DEF WorkQNext

LEMMA WorkQInitially == WorkQInit => WorkQInv /\ NoneLost
<1>1. ToSet(<<>>) = {}
  BY DEF ToSet
<1> QED
  BY <1>1, WorkQAssumption DEF WorkQInit, WorkQInv, WorkQTypeOK, Placed, NoneLost, Local, CancelIsFinal,
     AlertCarried, Testing, Runs, NoDuplicates

LEMMA WorkQInvariant == WorkQSpec => []WorkQInv
<1>1. WorkQInv /\ [WorkQNext]_workVars => WorkQInv'
  BY WorkQStep DEF Kept
<1> QED
  BY <1>1, WorkQInitially, PTL DEF WorkQSpec

LEMMA PlacedIsExact == ASSUME Placed, NoneLost PROVE PendingExact
<1>1. ASSUME NEW w \in Work
      PROVE  LET places == <<w \in ToSet(queue), w \in submitting,
                             worker.pc = "test" /\ worker.work = w>>
             IN  IF w \in pending THEN \E i \in 1 .. 3 : \A j \in 1 .. 3 : places[j] <=> i = j
                 ELSE \A i \in 1 .. 3 : ~places[i]
  <2> DEFINE places == <<w \in ToSet(queue), w \in submitting,
                         worker.pc = "test" /\ worker.work = w>>
  <2>1. /\ places[1] = (w \in ToSet(queue)) /\ places[2] = (w \in submitting)
        /\ places[3] = (worker.pc = "test" /\ worker.work = w)
    OBVIOUS
  <2>2. /\ w \in pending <=> places[1] \/ places[2] \/ places[3]
        /\ ~(places[1] /\ places[2]) /\ ~(places[1] /\ places[3]) /\ ~(places[2] /\ places[3])
    BY <2>1 DEF Placed, NoneLost, Testing
  <2> HIDE DEF places
  <2>3. /\ 1 .. 3 = {1, 2, 3} /\ 1 # 2 /\ 1 # 3 /\ 2 # 3
    OBVIOUS
  <2>4. w \in pending => \E i \in 1 .. 3 : \A j \in 1 .. 3 : places[j] <=> i = j
    BY <2>2, <2>3, Zenon
  <2>5. w \notin pending => \A i \in 1 .. 3 : ~places[i]
    BY <2>2, <2>3, Zenon
  <2> QED
    BY <2>4, <2>5 DEF places
<1> QED
  BY <1>1 DEF PendingExact, Placed, NoDuplicates

-----------------------------------------------------------------------------
\* The queue, the flags and the alert's counters keep their types and bounds:
\* _alert_deliver() never counts below zero (work_q.c, alert.c).
THEOREM WorkQTypeCorrect == WorkQSpec => []WorkQTypeOK
  BY WorkQInvariant, PTL DEF WorkQInv

\* Every pending item is in exactly one place on its way to its handler, and
\* no other item is (k_work_submit_to_queue, work_q_main), as long as no tail
\* that k_queue_append() has read leaves the list with an item behind it.
THEOREM PendingIsExact == WorkQSpec /\ []AppendsSafe => []PendingExact
<1>1. WorkQInv /\ NoneLost /\ AppendsSafe /\ [WorkQNext]_workVars => NoneLost'
  BY WorkQStep DEF Kept
<1>2. WorkQInv /\ NoneLost => PendingExact
  BY PlacedIsExact DEF WorkQInv
<1> QED
  BY <1>1, <1>2, WorkQInitially, WorkQInvariant, PTL DEF WorkQSpec

\* A cancelled delayed item stays cancelled, and none counts down while it is
\* pending (k_delayed_work_cancel, work_timeout), whatever becomes of appends.
THEOREM CancelledStays == WorkQSpec => []CancelIsFinal
  BY WorkQInvariant, PTL DEF WorkQInv

\* An alert that has been sent always has a carrier (k_alert_send against the
\* last atomic_dec() of _alert_deliver).
THEOREM AlertsAreServed == WorkQSpec => []AlertIsServed
<1>1. WorkQInv => AlertIsServed
  BY DEF WorkQInv, AlertCarried, AlertIsServed, Runs
<1> QED
  BY <1>1, WorkQInvariant, PTL
=============================================================================
