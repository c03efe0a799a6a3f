---------------------------- MODULE KernelProofs ----------------------------
(***************************************************************************)
(* Lemmas about the scheduler's operators, for every set of threads, of    *)
(* priorities and of wait queues.                                          *)
(***************************************************************************)
EXTENDS Kernel, SequenceTheorems, WellFoundedInduction, TLAPS

-----------------------------------------------------------------------------
(***************************************************************************)
(* Lists.                                                                  *)
(***************************************************************************)

\* A non-empty set of natural numbers has a least element, the one Min picks:
\* the loop of _priq_dumb_add() stops at the first thread of lower priority.
LEMMA MinIsLeast ==
  ASSUME NEW S \in SUBSET Nat, S # {}
  PROVE  /\ Min(S) \in S
         /\ \A y \in S : Min(S) <= y
<1>1. \E x \in S : \A y \in S : ~ (<<y, x>> \in OpToRel(<, Nat))
  BY NatLessThanWellFounded, WFMin
<1>2. \A x, y \in Nat : x < y => <<x, y>> \in OpToRel(<, Nat)
  BY DEF OpToRel
<1>3. \E x \in S : \A y \in S : ~ (y < x)
  BY <1>1, <1>2
<1>4. \E x \in S : \A y \in S : x <= y
  BY <1>3
<1> QED
  BY <1>4 DEF Min

\* r is q with t inserted at index p.
InsertedAt(r, q, p, t) ==
  /\ r \in Seq(Thread)
  /\ Len(r) = Len(q) + 1
  /\ \A i \in 1 .. Len(q) + 1 :
       r[i] = IF i < p THEN q[i] ELSE IF i = p THEN t ELSE q[i - 1]

\* What sys_dlist_insert_before() does to the list, index by index.
LEMMA InsertAtIndexed ==
  ASSUME NEW q \in Seq(Thread), NEW t \in Thread, NEW p \in Nat,
         1 <= p, p <= Len(q) + 1
  PROVE  InsertedAt(InsertAt(q, p, t), q, p, t)
<1> DEFINE a == SubSeq(q, 1, p - 1)
           b == SubSeq(q, p, Len(q))
           c == a \o <<t>>
<1>1. Len(q) \in Nat /\ p \in Nat
  OBVIOUS
<1>2. a \in Seq(Thread) /\ Len(a) = p - 1 /\ \A i \in 1 .. p - 1 : a[i] = q[i]
  BY <1>1, SubSeqProperties
<1>3. b \in Seq(Thread) /\ Len(b) = Len(q) - p + 1
        /\ \A i \in 1 .. Len(q) - p + 1 : b[i] = q[p + i - 1]
  BY <1>1, SubSeqProperties
<1>4. <<t>> \in Seq(Thread) /\ Len(<<t>>) = 1 /\ <<t>>[1] = t
  OBVIOUS
<1>5. InsertAt(q, p, t) = c \o b
  BY DEF InsertAt
<1> HIDE DEF a, b
<1>6. c \in Seq(Thread) /\ Len(c) = p
        /\ \A i \in 1 .. p : c[i] = IF i < p THEN q[i] ELSE t
  BY <1>1, <1>2, <1>4
<1> HIDE DEF c
<1>7. c \o b \in Seq(Thread) /\ Len(c \o b) = Len(c) + Len(b)
        /\ \A i \in 1 .. Len(c) + Len(b) :
             (c \o b)[i] = IF i <= Len(c) THEN c[i] ELSE b[i - Len(c)]
  BY <1>3, <1>6, ConcatProperties
<1> QED
  <2>1. InsertAt(q, p, t) \in Seq(Thread) /\ Len(InsertAt(q, p, t)) = Len(q) + 1
    BY <1>1, <1>3, <1>5, <1>6, <1>7
  <2>2. ASSUME NEW i \in 1 .. Len(q) + 1
        PROVE  InsertAt(q, p, t)[i] = IF i < p THEN q[i] ELSE IF i = p THEN t ELSE q[i - 1]
    <3>1. CASE i <= p
      BY <1>1, <1>3, <1>5, <1>6, <1>7, <3>1
    <3>2. CASE i > p
      <4>1. i - p \in 1 .. Len(q) - p + 1 /\ p + (i - p) - 1 = i - 1
        BY <1>1, <3>2
      <4>2. (c \o b)[i] = b[i - p]
        BY <1>1, <1>3, <1>6, <1>7, <3>2
      <4>3. b[i - p] = q[p + (i - p) - 1]
        BY <1>3, <4>1
      <4> QED
        BY <1>1, <1>5, <3>2, <4>1, <4>2, <4>3
    <3> QED
      BY <1>1, <3>1, <3>2
  <2> QED
    BY <2>1, <2>2 DEF InsertedAt

\* What sys_dlist_remove() does to the list, index by index.
LEMMA RemoveAtIndexed ==
  ASSUME NEW T, NEW q \in Seq(T), NEW p \in 1 .. Len(q)
  PROVE  /\ RemoveAt(q, p) \in Seq(T)
         /\ Len(RemoveAt(q, p)) = Len(q) - 1
         /\ \A i \in 1 .. Len(q) - 1 :
              RemoveAt(q, p)[i] = IF i < p THEN q[i] ELSE q[i + 1]
<1> DEFINE a == SubSeq(q, 1, p - 1)
           b == SubSeq(q, p + 1, Len(q))
<1>1. Len(q) \in Nat /\ p \in Nat
  OBVIOUS
<1>2. a \in Seq(T) /\ Len(a) = p - 1 /\ \A i \in 1 .. p - 1 : a[i] = q[i]
  BY <1>1, SubSeqProperties
<1>3. b \in Seq(T) /\ Len(b) = Len(q) - p
        /\ \A i \in 1 .. Len(q) - p : b[i] = q[p + i]
  BY <1>1, SubSeqProperties
<1>4. RemoveAt(q, p) = a \o b
  BY DEF RemoveAt
<1> HIDE DEF a, b
<1>5. a \o b \in Seq(T) /\ Len(a \o b) = Len(a) + Len(b)
        /\ \A i \in 1 .. Len(a) + Len(b) :
             (a \o b)[i] = IF i <= Len(a) THEN a[i] ELSE b[i - Len(a)]
  BY <1>2, <1>3, ConcatProperties
<1>6. ASSUME NEW i \in 1 .. Len(q) - 1
      PROVE  RemoveAt(q, p)[i] = IF i < p THEN q[i] ELSE q[i + 1]
  <2>1. CASE i < p
    BY <1>1, <1>2, <1>3, <1>4, <1>5, <2>1
  <2>2. CASE i >= p
    <3>1. i - (p - 1) \in 1 .. Len(q) - p /\ p + (i - (p - 1)) = i + 1
      BY <1>1, <2>2
    <3>2. (a \o b)[i] = b[i - (p - 1)]
      BY <1>1, <1>2, <1>3, <1>5, <2>2
    <3>3. b[i - (p - 1)] = q[p + (i - (p - 1))]
      BY <1>3, <3>1
    <3>4. RemoveAt(q, p)[i] = q[i + 1] /\ ~(i < p)
      BY <1>1, <1>4, <2>2, <3>1, <3>2, <3>3
    <3> QED
      BY <3>4
  <2> QED
    BY <1>1, <2>1, <2>2
<1> QED
  BY <1>1, <1>2, <1>3, <1>4, <1>5, <1>6

\* Inserting t behind what is not lower and before what is not higher keeps a
\* list sorted.
LEMMA SortedInsertion ==
  ASSUME NEW n \in Nat, NEW q, NEW r, NEW t, NEW p \in 1 .. n + 1, NEW prio,
         \A i \in 1 .. n + 1 : prio[r[i]] \in Int,
         \A i \in 1 .. n : prio[q[i]] \in Int,
         \A i, j \in 1 .. n : i < j => prio[q[i]] <= prio[q[j]],
         \A i \in 1 .. n : i < p => prio[q[i]] <= prio[t],
         \A i \in 1 .. n : i >= p => prio[t] <= prio[q[i]],
         \A i \in 1 .. n + 1 : r[i] = IF i < p THEN q[i] ELSE IF i = p THEN t ELSE q[i - 1]
  PROVE  \A i, j \in 1 .. n + 1 : i < j => prio[r[i]] <= prio[r[j]]
  OBVIOUS

\* Deleting position p of a list of n elements without duplicates.
LEMMA Deletion ==
  ASSUME NEW n \in Nat, NEW q, NEW r, NEW p \in 1 .. n,
         \A i, j \in 1 .. n : q[i] = q[j] => i = j,
         \A i \in 1 .. n - 1 : r[i] = IF i < p THEN q[i] ELSE q[i + 1]
  PROVE  /\ \A x : (\E i \in 1 .. n - 1 : r[i] = x) <=> (x # q[p] /\ \E i \in 1 .. n : q[i] = x)
         /\ \A i, j \in 1 .. n - 1 : r[i] = r[j] => i = j
         /\ \A prio : (\A i, j \in 1 .. n : i < j => prio[q[i]] <= prio[q[j]])
              => \A i, j \in 1 .. n - 1 : i < j => prio[r[i]] <= prio[r[j]]
<1>1. ASSUME NEW x, NEW i \in 1 .. n, q[i] = x, x # q[p]
      PROVE  \E j \in 1 .. n - 1 : r[j] = x
  <2>1. CASE i < p
    BY <1>1, <2>1
  <2>2. CASE i > p
    <3>1. i - 1 \in 1 .. n - 1 /\ r[i - 1] = x
      BY <1>1, <2>2
    <3> QED
      BY <3>1
  <2> QED
    BY <1>1, <2>1, <2>2
<1>2. ASSUME NEW i \in 1 .. n - 1
      PROVE  r[i] # q[p] /\ \E j \in 1 .. n : q[j] = r[i]
  OBVIOUS
<1> QED
  BY <1>1, <1>2

\* ToSet in terms of indices.
LEMMA ToSetIndexed ==
  ASSUME NEW T, NEW q \in Seq(T)
  PROVE  /\ \A x : (x \in ToSet(q)) <=> (\E i \in 1 .. Len(q) : q[i] = x)
         /\ ToSet(q) \subseteq T
         /\ Len(q) \in Nat
         /\ \A i \in 1 .. Len(q) : q[i] \in T
  BY DEF ToSet

\* _priq_dumb_add() of a thread that is not in the list: the list gains that
\* thread, stays free of duplicates, and stays sorted if it was.
LEMMA PriqAddProperties ==
  ASSUME NEW q \in Seq(Thread), NEW t \in Thread, NEW prio \in [Thread -> Int],
         t \notin ToSet(q), NoDuplicates(q)
  PROVE  /\ PriqAdd(q, t, prio) \in Seq(Thread)
         /\ ToSet(PriqAdd(q, t, prio)) = ToSet(q) \cup {t}
         /\ NoDuplicates(PriqAdd(q, t, prio))
         /\ Sorted(q, prio) => Sorted(PriqAdd(q, t, prio), prio)
<1> DEFINE n == Len(q)
           S == {i \in 1 .. n : prio[t] < prio[q[i]]} \cup {n + 1}
           p == Min(S)
           r == PriqAdd(q, t, prio)
<1>1. n \in Nat /\ \A i \in 1 .. n : q[i] \in Thread /\ prio[q[i]] \in Int
  BY ToSetIndexed
<1>2. p \in S /\ \A y \in S : p <= y
  <2>1. S \in SUBSET Nat /\ S # {}
    BY <1>1
  <2> QED
    BY <2>1, MinIsLeast
<1>3. r = InsertAt(q, p, t)
  BY DEF PriqAdd
<1> HIDE DEF p, r
<1>4. p \in 1 .. n + 1
  BY <1>1, <1>2
<1>5. \A i \in 1 .. n : i < p => prio[q[i]] <= prio[t]
  BY <1>1, <1>2
<1>6. p <= n => prio[t] < prio[q[p]]
  BY <1>1, <1>2
<1> HIDE DEF S
<1>7. /\ r \in Seq(Thread)
      /\ Len(r) = n + 1
      /\ \A i \in 1 .. n + 1 : r[i] = IF i < p THEN q[i] ELSE IF i = p THEN t ELSE q[i - 1]
  <2>1. p \in Nat /\ 1 <= p /\ p <= Len(q) + 1
    BY <1>1, <1>4
  <2>2. InsertedAt(InsertAt(q, p, t), q, p, t)
    BY <2>1, InsertAtIndexed
  <2> QED
    BY <1>3, <2>2 DEF InsertedAt
<1>8. \A x : (x \in ToSet(r)) <=> (\E i \in 1 .. n + 1 : r[i] = x)
  <2>1. r \in Seq(Thread) /\ Len(r) = n + 1
    BY <1>7
  <2>2. \A x : (x \in ToSet(r)) <=> (\E i \in 1 .. Len(r) : r[i] = x)
    BY <2>1, ToSetIndexed
  <2> QED
    BY <2>1, <2>2
<1>9. \A x : (x \in ToSet(q)) <=> (\E i \in 1 .. n : q[i] = x)
  BY ToSetIndexed
<1>10. \A i, j \in 1 .. n : q[i] = q[j] => i = j
  BY DEF NoDuplicates
<1>11. \A i \in 1 .. n : q[i] # t
  BY <1>9
<1> HIDE DEF n
<1>12. ToSet(r) = ToSet(q) \cup {t}
  <2>1. ASSUME NEW x \in ToSet(r) PROVE x \in ToSet(q) \cup {t}
    <3>1. PICK i \in 1 .. n + 1 : r[i] = x
      BY <1>8
    <3>2. CASE i < p
      BY <1>1, <1>4, <1>7, <1>9, <3>1, <3>2
    <3>3. CASE i = p
      BY <1>4, <1>7, <3>1, <3>3
    <3>4. CASE i > p
      <4>1. i - 1 \in 1 .. n /\ q[i - 1] = x
        BY <1>1, <1>4, <1>7, <3>1, <3>4
      <4> QED
        BY <1>9, <4>1
    <3> QED
      BY <1>1, <1>4, <3>2, <3>3, <3>4
  <2>2. t \in ToSet(r)
    <3>1. p \in 1 .. n + 1 /\ r[p] = t
      BY <1>1, <1>4, <1>7
    <3> QED
      BY <1>8, <3>1
  <2>3. ASSUME NEW x \in ToSet(q) PROVE x \in ToSet(r)
    <3>1. PICK i \in 1 .. n : q[i] = x
      BY <1>9
    <3>2. CASE i < p
      BY <1>1, <1>4, <1>7, <1>8, <3>1, <3>2
    <3>3. CASE i >= p
      <4>1. i + 1 \in 1 .. n + 1 /\ r[i + 1] = q[(i + 1) - 1] /\ (i + 1) - 1 = i
        BY <1>1, <1>4, <1>7, <3>3
      <4> QED
        BY <1>8, <3>1, <4>1
    <3> QED
      BY <1>1, <1>4, <3>2, <3>3
  <2> QED
    BY <2>1, <2>2, <2>3
<1>13. NoDuplicates(r)
  <2>1. SUFFICES ASSUME NEW i \in 1 .. n + 1, NEW j \in 1 .. n + 1, i < j
                 PROVE  r[i] # r[j]
    BY <1>1, <1>7 DEF NoDuplicates
  <2>2. CASE j < p
    <3>1. i \in 1 .. n /\ j \in 1 .. n /\ i # j /\ r[i] = q[i] /\ r[j] = q[j]
      BY <1>1, <1>4, <1>7, <2>1, <2>2
    <3> QED
      BY <1>10, <3>1
  <2>3. CASE j = p
    BY <1>1, <1>4, <1>7, <1>11, <2>1, <2>3
  <2>4. CASE j > p
    <3>1. j - 1 \in 1 .. n /\ r[j] = q[j - 1]
      BY <1>1, <1>4, <1>7, <2>4
    <3>2. CASE i < p
      <4>1. i \in 1 .. n /\ i # j - 1 /\ r[i] = q[i]
        BY <1>1, <1>4, <1>7, <2>4, <3>2
      <4> QED
        BY <1>10, <3>1, <4>1
    <3>3. CASE i = p
      BY <1>4, <1>7, <1>11, <3>1, <3>3
    <3>4. CASE i > p
      <4>1. i - 1 \in 1 .. n /\ i - 1 # j - 1
        BY <1>1, <1>4, <2>1, <3>4
      <4>2. r[i] = q[i - 1]
        BY <1>1, <1>4, <1>7, <3>4
      <4> QED
        BY <1>10, <3>1, <4>1, <4>2
    <3> QED
      BY <1>4, <3>2, <3>3, <3>4
  <2> QED
    BY <1>4, <2>2, <2>3, <2>4
<1>14. ASSUME Sorted(q, prio) PROVE Sorted(r, prio)
  <2>1. \A i, j \in 1 .. n : i < j => prio[q[i]] <= prio[q[j]]
    BY <1>14 DEF Sorted, n
  <2>2. \A i \in 1 .. n : i >= p => prio[t] <= prio[q[i]]
    BY <1>1, <1>4, <1>6, <2>1
  <2>3. \A i \in 1 .. n + 1 : prio[r[i]] \in Int
    BY <1>1, <1>4, <1>7
  <2>4. \A i, j \in 1 .. n + 1 : i < j => prio[r[i]] <= prio[r[j]]
    BY <1>1, <1>4, <1>5, <1>7, <2>1, <2>2, <2>3, SortedInsertion
  <2> QED
    BY <1>7, <2>4 DEF Sorted
<1> QED
  BY <1>7, <1>12, <1>13, <1>14 DEF r

\* _priq_dumb_remove() of a thread from a list without duplicates: the list
\* loses that thread, and stays sorted if it was.
LEMMA PriqRemoveProperties ==
  ASSUME NEW q \in Seq(Thread), NEW t \in Thread, NoDuplicates(q)
  PROVE  /\ PriqRemove(q, t) \in Seq(Thread)
         /\ ToSet(PriqRemove(q, t)) = ToSet(q) \ {t}
         /\ NoDuplicates(PriqRemove(q, t))
         /\ \A prio : Sorted(q, prio) => Sorted(PriqRemove(q, t), prio)
<1>1. CASE t \notin ToSet(q)
  BY <1>1 DEF PriqRemove
<1>2. CASE t \in ToSet(q)
  <2> DEFINE n == Len(q)
             p == CHOOSE i \in 1 .. Len(q) : q[i] = t
             r == PriqRemove(q, t)
  <2>1. n \in Nat /\ p \in 1 .. n /\ q[p] = t
    BY <1>2, ToSetIndexed
  <2>2. r = RemoveAt(q, p)
    BY <1>2 DEF PriqRemove
  <2> HIDE DEF p, r
  <2>3. /\ r \in Seq(Thread)
        /\ Len(r) = n - 1
        /\ \A i \in 1 .. n - 1 : r[i] = IF i < p THEN q[i] ELSE q[i + 1]
    BY <2>1, <2>2, RemoveAtIndexed
  <2>4. \A i, j \in 1 .. n : q[i] = q[j] => i = j
    BY DEF NoDuplicates
  <2>5. \A x : (x \in ToSet(r)) <=> (\E i \in 1 .. n - 1 : r[i] = x)
    BY <2>3, ToSetIndexed
  <2>6. \A x : (x \in ToSet(q)) <=> (\E i \in 1 .. n : q[i] = x)
    BY ToSetIndexed
  <2>7. \A prio : Sorted(q, prio) => \A i, j \in 1 .. n : i < j => prio[q[i]] <= prio[q[j]]
    BY DEF Sorted
  <2> HIDE DEF n
  <2>8. /\ \A x : (\E i \in 1 .. n - 1 : r[i] = x) <=> (x # q[p] /\ \E i \in 1 .. n : q[i] = x)
        /\ \A i, j \in 1 .. n - 1 : r[i] = r[j] => i = j
        /\ \A prio : (\A i, j \in 1 .. n : i < j => prio[q[i]] <= prio[q[j]])
             => \A i, j \in 1 .. n - 1 : i < j => prio[r[i]] <= prio[r[j]]
    BY <2>1, <2>3, <2>4, Deletion
  <2>9. ToSet(r) = ToSet(q) \ {t}
    BY <2>1, <2>5, <2>6, <2>8
  <2>10. NoDuplicates(r)
    BY <2>3, <2>8 DEF NoDuplicates
  <2>11. \A prio : Sorted(q, prio) => Sorted(r, prio)
    BY <2>3, <2>7, <2>8 DEF Sorted
  <2> QED
    BY <2>3, <2>9, <2>10, <2>11 DEF r
<1> QED
  BY <1>1, <1>2
-----------------------------------------------------------------------------
(***************************************************************************)
(* The kernel's state.  Inv is what holds between critical sections; the   *)
(* other predicates describe the state inside one, after thread t has been *)
(* taken off the run queue (Away), t being another thread than the current *)
(* one (Near) or the current one (Off).                                    *)
(***************************************************************************)

Inv(x) ==
  /\ x \in KernelState
  /\ RunQOk(x)
  /\ WaitQOk(x)
  /\ CacheOk(x)
  /\ IsReady(x, x.cur)

Away(x, t) ==
  /\ x \in KernelState
  /\ WaitQOk(x)
  /\ NoDuplicates(x.runq)
  /\ Sorted(x.runq, x.prio)
  /\ t \notin ToSet(x.runq)
  /\ "QUEUED" \notin x.st[t]
  /\ \A u \in Thread \ {t} : (u \in ToSet(x.runq)) <=> IsReady(x, u)
  /\ \A u \in Thread \ {t} : (u \in ToSet(x.runq)) <=> ("QUEUED" \in x.st[u])

Near(x, t) == Away(x, t) /\ t # x.cur /\ IsReady(x, x.cur) /\ CacheOk(x)

Off(x, t) == Away(x, t) /\ t = x.cur /\ x.cache = NextUp(x)

\* The next thread comes from the run queue or is the idle thread.
LEMMA NextUpType ==
  ASSUME NEW x, x.runq \in Seq(Thread)
  PROVE  /\ NextUp(x) \in Thread \cup {Idle}
         /\ NextUp(x) # Idle => NextUp(x) \in ToSet(x.runq)
<1>1. CASE x.runq = <<>>
  BY <1>1 DEF NextUp, PriqBest
<1>2. CASE x.runq # <<>>
  <2>1. 1 \in 1 .. Len(x.runq) /\ x.runq[1] = Head(x.runq)
    BY <1>2
  <2> QED
    BY <1>2, <2>1, ToSetIndexed DEF NextUp, PriqBest
<1> QED
  BY <1>1, <1>2

\* A thread that is not ready is on no run queue.
LEMMA StoppedIsNear ==
  ASSUME NEW x, NEW t \in Thread, Inv(x), ~IsReady(x, t)
  PROVE  Near(x, t)
  BY DEF Inv, RunQOk, Near, Away

\* A thread off the run queue may change its flags and its timeout, as long as
\* it is not queued and stays on its wait queue.
LEMMA TouchAway ==
  ASSUME NEW x, NEW t \in Thread, Away(x, t),
         NEW S \in SUBSET Flag, "QUEUED" \notin S,
         ("PENDING" \in S) <=> ("PENDING" \in x.st[t]),
         NEW v \in Timeout
  PROVE  Away([x EXCEPT !.st[t] = S, !.tmo[t] = v], t)
<1> DEFINE y == [x EXCEPT !.st[t] = S, !.tmo[t] = v]
<1>1. x \in KernelState
  BY DEF Away
<1>2. y \in KernelState
  BY <1>1 DEF KernelState
<1>3. /\ y.runq = x.runq /\ y.waitq = x.waitq /\ y.prio = x.prio
      /\ y.st[t] = S
      /\ \A u \in Thread \ {t} : y.st[u] = x.st[u] /\ y.tmo[u] = x.tmo[u]
  BY <1>1 DEF KernelState
<1> HIDE DEF y
<1>4. \A u \in Thread \ {t} : IsReady(y, u) <=> IsReady(x, u)
  BY <1>3 DEF IsReady
<1>5. \A w \in WaitQ : ToSet(x.waitq[w]) \subseteq Thread
  BY <1>1, ToSetIndexed DEF KernelState
<1>6. \A u \in Thread : ("PENDING" \in y.st[u]) <=> ("PENDING" \in x.st[u])
  BY <1>3
<1>7. WaitQOk(x)
  BY DEF Away
<1>8. WaitQOk(y)
  BY <1>3, <1>5, <1>6, <1>7 DEF WaitQOk
<1>9. Away(y, t)
  BY <1>2, <1>3, <1>4, <1>8 DEF Away
<1> QED
  BY <1>9 DEF y

\* The same for another thread than the current one.
LEMMA TouchNear ==
  ASSUME NEW x, NEW t \in Thread, Near(x, t),
         NEW S \in SUBSET Flag, "QUEUED" \notin S,
         ("PENDING" \in S) <=> ("PENDING" \in x.st[t]),
         NEW v \in Timeout
  PROVE  Near([x EXCEPT !.st[t] = S, !.tmo[t] = v], t)
<1> DEFINE y == [x EXCEPT !.st[t] = S, !.tmo[t] = v]
<1>1. Away(y, t)
  BY TouchAway DEF Near
<1>2. x \in KernelState
  BY DEF Near, Away
<1>3. /\ y.runq = x.runq /\ y.cur = x.cur /\ y.cache = x.cache
      /\ y.prio = x.prio /\ y.locked = x.locked
      /\ \A u \in Thread \ {t} : y.st[u] = x.st[u] /\ y.tmo[u] = x.tmo[u]
  BY <1>2 DEF KernelState
<1> HIDE DEF y
<1>4. x.cur # t /\ x.cur \in Thread \cup {Idle}
  BY <1>2 DEF Near, KernelState
<1>5. IsReady(y, y.cur) <=> IsReady(x, x.cur)
  BY <1>3, <1>4 DEF IsReady
<1>6. IsPreempt(y, y.cur) <=> IsPreempt(x, x.cur)
  BY <1>3 DEF IsPreempt
<1>7. NextUp(y) = NextUp(x)
  BY <1>3 DEF NextUp
<1>8. CacheOk(y)
  BY <1>3, <1>5, <1>6, <1>7 DEF Near, CacheOk
<1>9. Near(y, t)
  BY <1>1, <1>3, <1>4, <1>5, <1>8 DEF Near
<1> QED
  BY <1>9 DEF y

\* _ready_thread(): the thread is queued if nothing else holds it back.
LEMMA ReadyThreadInv ==
  ASSUME NEW x, NEW t \in Thread, Near(x, t)
  PROVE  /\ Inv(ReadyThread(x, t))
         /\ ReadyThread(x, t).cur = x.cur
         /\ ReadyThread(x, t).tick = x.tick
<1>1. x \in KernelState
  BY DEF Near, Away
<1>2. CASE ~IsReady(x, t)
  <2>1. RunQOk(x)
    BY <1>2 DEF RunQOk, Near, Away
  <2>2. ReadyThread(x, t) = x
    BY <1>2 DEF ReadyThread
  <2> QED
    BY <2>1, <2>2 DEF Near, Away, Inv
<1>3. CASE IsReady(x, t)
  <2> DEFINE q == PriqAdd(x.runq, t, x.prio)
             z == [x EXCEPT !.runq = q, !.st[t] = @ \cup {"QUEUED"}]
             y == UpdateCache(z, FALSE)
  <2>1. x.prio \in [Thread -> Int]
    BY <1>1, KernelAssumption DEF KernelState
  <2>2. /\ q \in Seq(Thread)
        /\ ToSet(q) = ToSet(x.runq) \cup {t}
        /\ NoDuplicates(q)
        /\ Sorted(q, x.prio)
    BY <1>1, <2>1, PriqAddProperties DEF Near, Away, KernelState
  <2> HIDE DEF q
  <2>3. z \in KernelState
    BY <1>1, <2>2 DEF KernelState, Flag
  <2>4. /\ z.runq = q /\ z.cur = x.cur /\ z.tick = x.tick /\ z.waitq = x.waitq
        /\ z.prio = x.prio /\ z.tmo = x.tmo /\ z.locked = x.locked
        /\ \A u \in Thread : z.st[u] = IF u = t THEN x.st[t] \cup {"QUEUED"} ELSE x.st[u]
    BY <1>1 DEF KernelState
  <2> HIDE DEF z
  <2>5. NextUp(z) \in Thread \cup {Idle} /\ z.cur \in Thread \cup {Idle}
    BY <2>3, NextUpType DEF KernelState
  <2>6. /\ y \in KernelState
        /\ y.cache = IF ShouldPreempt(z, FALSE) THEN NextUp(z) ELSE z.cur
        /\ y.runq = z.runq /\ y.cur = z.cur /\ y.tick = z.tick /\ y.waitq = z.waitq
        /\ y.prio = z.prio /\ y.tmo = z.tmo /\ y.locked = z.locked /\ y.st = z.st
    BY <2>3, <2>5 DEF UpdateCache, KernelState
  <2> HIDE DEF y
  <2>7. \A u \in Thread : IsReady(y, u) <=> IsReady(x, u)
    BY <2>4, <2>6 DEF IsReady, Stopped
  <2>8. IsReady(y, y.cur)
    BY <1>1, <2>4, <2>6, <2>7 DEF Near, IsReady, KernelState
  <2>9. RunQOk(y)
    <3>1. NoDuplicates(y.runq) /\ Sorted(y.runq, y.prio)
      BY <2>2, <2>4, <2>6
    <3>2. ASSUME NEW u \in Thread
          PROVE  /\ (u \in ToSet(y.runq)) <=> IsReady(y, u)
                 /\ (u \in ToSet(y.runq)) <=> ("QUEUED" \in y.st[u])
      BY <1>3, <2>2, <2>4, <2>6, <2>7 DEF Near, Away
    <3> QED
      BY <3>1, <3>2 DEF RunQOk
  <2>10. WaitQOk(y)
    <3>1. \A w \in WaitQ : ToSet(x.waitq[w]) \subseteq Thread
      BY <1>1, ToSetIndexed DEF KernelState
    <3>2. \A u \in Thread : ("PENDING" \in y.st[u]) <=> ("PENDING" \in x.st[u])
      BY <2>4, <2>6
    <3> QED
      BY <2>4, <2>6, <3>1, <3>2 DEF WaitQOk, Near, Away
  <2>11. CacheOk(y)
    BY <2>6, <2>8 DEF CacheOk, ShouldPreempt, IsReady, IsPreempt, NextUp
  <2>12. Inv(y) /\ y.cur = x.cur /\ y.tick = x.tick
    BY <2>4, <2>6, <2>8, <2>9, <2>10, <2>11 DEF Inv
  <2>13. ReadyThread(x, t) = y
    BY <1>3 DEF ReadyThread, AddToReadyQ, y, z, q
  <2> QED
    BY <2>12, <2>13
<1> QED
  BY <1>2, <1>3

\* update_cache() in any case: only the cache changes.
LEMMA UpdateCacheFrame ==
  ASSUME NEW x \in KernelState, NEW ok \in BOOLEAN
  PROVE  /\ UpdateCache(x, ok) \in KernelState
         /\ UpdateCache(x, ok) = [x EXCEPT !.cache = UpdateCache(x, ok).cache]
         /\ UpdateCache(x, ok).cache = IF ShouldPreempt(x, ok) THEN NextUp(x) ELSE x.cur
<1>1. NextUp(x) \in Thread \cup {Idle} /\ x.cur \in Thread \cup {Idle}
  BY NextUpType DEF KernelState
<1> QED
  BY <1>1 DEF UpdateCache, KernelState

\* A change of the cache disturbs nothing but CacheOk.
LEMMA CacheFrame ==
  ASSUME NEW x \in KernelState, NEW c \in Thread \cup {Idle},
         NEW y, y = [x EXCEPT !.cache = c]
  PROVE  /\ y \in KernelState /\ y.cache = c
         /\ y.cur = x.cur /\ y.tick = x.tick /\ y.runq = x.runq /\ y.st = x.st
         /\ y.tmo = x.tmo /\ y.prio = x.prio /\ y.locked = x.locked /\ y.waitq = x.waitq
         /\ \A u : IsReady(y, u) <=> IsReady(x, u)
         /\ \A u : IsPreempt(y, u) <=> IsPreempt(x, u)
         /\ NextUp(y) = NextUp(x)
         /\ RunQOk(y) <=> RunQOk(x)
         /\ WaitQOk(y) <=> WaitQOk(x)
<1>1. /\ y \in KernelState /\ y.cache = c
      /\ y.cur = x.cur /\ y.tick = x.tick /\ y.runq = x.runq /\ y.st = x.st
      /\ y.tmo = x.tmo /\ y.prio = x.prio /\ y.locked = x.locked /\ y.waitq = x.waitq
  BY DEF KernelState
<1>2. \A u : IsReady(y, u) <=> IsReady(x, u)
  BY <1>1 DEF IsReady
<1>3. \A u : IsPreempt(y, u) <=> IsPreempt(x, u)
  BY <1>1 DEF IsPreempt
<1>4. NextUp(y) = NextUp(x)
  BY <1>1 DEF NextUp
<1>5. RunQOk(y) <=> RunQOk(x)
  BY <1>1, <1>2 DEF RunQOk
<1>6. WaitQOk(y) <=> WaitQOk(x)
  BY <1>1 DEF WaitQOk
<1> QED
  BY <1>1, <1>2, <1>3, <1>4, <1>5, <1>6

\* y is x after a switch to the cached thread.
Switched(x, y) ==
  /\ y \in KernelState /\ y.cur = x.cache /\ y.cache = x.cache /\ y.tick = x.tick
  /\ y.runq = x.runq /\ y.st = x.st /\ y.tmo = x.tmo /\ y.prio = x.prio
  /\ y.locked = x.locked /\ y.waitq = x.waitq

\* A switch to the cached thread, when the cache is what it should be or was
\* set to the best thread unconditionally.
LEMMA SwitchInv ==
  ASSUME NEW x \in KernelState, RunQOk(x), WaitQOk(x), x.cache = NextUp(x),
         NEW y, Switched(x, y)
  PROVE  Inv(y) /\ y.cur = y.cache /\ y.tick = x.tick
<1>1. /\ y \in KernelState /\ y.cur = x.cache /\ y.cache = x.cache /\ y.tick = x.tick
      /\ y.runq = x.runq /\ y.st = x.st /\ y.tmo = x.tmo /\ y.prio = x.prio
      /\ y.locked = x.locked /\ y.waitq = x.waitq
  BY DEF Switched
<1>2. \A u : IsReady(y, u) <=> IsReady(x, u)
  BY <1>1 DEF IsReady
<1>3. NextUp(y) = NextUp(x)
  BY <1>1 DEF NextUp
<1>4. RunQOk(y) /\ WaitQOk(y)
  BY <1>1, <1>2 DEF RunQOk, WaitQOk
<1>5. IsReady(y, y.cur)
  <2>1. x.runq \in Seq(Thread)
    BY DEF KernelState
  <2>2. CASE y.cur = Idle
    BY <2>2 DEF IsReady
  <2>3. CASE y.cur # Idle
    <3>1. y.cur \in ToSet(x.runq) /\ y.cur \in Thread
      BY <1>1, <2>1, <2>3, NextUpType
    <3> QED
      BY <1>2, <3>1 DEF RunQOk
  <2> QED
    BY <2>2, <2>3
<1>6. CacheOk(y)
  BY <1>1, <1>3 DEF CacheOk
<1> QED
  BY <1>1, <1>4, <1>5, <1>6 DEF Inv

\* _Swap() when the cache holds the best ready thread.
LEMMA SwapInv ==
  ASSUME NEW x \in KernelState, RunQOk(x), WaitQOk(x), x.cache = NextUp(x)
  PROVE  Inv(Swap(x)) /\ Swap(x).cur = Swap(x).cache /\ Swap(x).tick = x.tick
<1> DEFINE r == IF x.cur = Idle THEN x.ret ELSE [x.ret EXCEPT ![x.cur] = "EAGAIN"]
<1>1. r \in [Thread -> SwapValue]
  BY DEF KernelState, SwapValue
<1>2. Swap(x) = [x EXCEPT !.cur = x.cache, !.ret = r, !.slice = 0]
  BY DEF Swap
<1> HIDE DEF r
<1> DEFINE y == [x EXCEPT !.cur = x.cache, !.ret = r, !.slice = 0]
<1>3. Switched(x, y)
  <2>1. y \in KernelState
    BY <1>1 DEF KernelState
  <2> QED
    BY <2>1 DEF Switched, KernelState
<1> HIDE DEF y
<1>4. Inv(y) /\ y.cur = y.cache /\ y.tick = x.tick
  BY <1>3, SwitchInv
<1> QED
  BY <1>2, <1>4 DEF y

\* The switch on return from an interrupt.
LEMMA IntExitInv ==
  ASSUME NEW x, Inv(x)
  PROVE  Inv(IntExit(x)) /\ SwitchOk(IntExit(x)) /\ IntExit(x).tick = x.tick
<1>1. CASE ~(~x.tick /\ x.cache # x.cur)
  BY <1>1 DEF IntExit, SwitchOk
<1>2. CASE ~x.tick /\ x.cache # x.cur
  <2>1. x \in KernelState /\ RunQOk(x) /\ WaitQOk(x) /\ x.cache = NextUp(x)
    BY <1>2 DEF Inv, CacheOk
  <2>2. Switched(x, IntExit(x))
    BY <1>2, <2>1 DEF IntExit, Switched, KernelState
  <2>3. Inv(IntExit(x)) /\ IntExit(x).cur = IntExit(x).cache /\ IntExit(x).tick = x.tick
    BY <2>1, <2>2, SwitchInv
  <2> QED
    BY <2>3 DEF SwitchOk
<1> QED
  BY <1>1, <1>2

\* _reschedule() at the end of a call that leaves the cache right.
LEMMA RescheduleInv ==
  ASSUME NEW x, Inv(x)
  PROVE  Inv(Reschedule(x)) /\ SwitchOk(Reschedule(x)) /\ Reschedule(x).tick = x.tick
<1>1. CASE ~(~x.tick /\ x.cache # x.cur)
  BY <1>1 DEF Reschedule, SwitchOk
<1>2. CASE ~x.tick /\ x.cache # x.cur
  <2>1. x \in KernelState /\ RunQOk(x) /\ WaitQOk(x) /\ x.cache = NextUp(x)
    BY <1>2 DEF Inv, CacheOk
  <2>2. Reschedule(x) = Swap(x)
    BY <1>2 DEF Reschedule
  <2> QED
    BY <2>1, <2>2, SwapInv DEF SwitchOk
<1> QED
  BY <1>1, <1>2

\* update_cache(1) and _reschedule(): k_yield(), k_sched_unlock(), and
\* _thread_priority_set(), called by a thread.
LEMMA ForcedRescheduleInv ==
  ASSUME NEW x \in KernelState, RunQOk(x), WaitQOk(x), ~x.tick
  PROVE  /\ Inv(Reschedule(UpdateCache(x, TRUE)))
         /\ SwitchOk(Reschedule(UpdateCache(x, TRUE)))
         /\ Reschedule(UpdateCache(x, TRUE)).tick = x.tick
<1> DEFINE y == UpdateCache(x, TRUE)
<1>1. y = [x EXCEPT !.cache = NextUp(x)]
  BY DEF UpdateCache, ShouldPreempt
<1>2. NextUp(x) \in Thread \cup {Idle} /\ x.runq \in Seq(Thread)
  BY NextUpType DEF KernelState
<1> HIDE DEF y
<1>3. /\ y \in KernelState /\ RunQOk(y) /\ WaitQOk(y) /\ y.cache = NextUp(y)
      /\ y.tick = x.tick /\ y.cur = x.cur /\ y.runq = x.runq
  BY <1>1, <1>2, CacheFrame
<1>4. CASE y.cache # y.cur
  <2>1. Reschedule(y) = Swap(y)
    BY <1>3, <1>4 DEF Reschedule
  <2> QED
    BY <1>3, <2>1, SwapInv DEF SwitchOk, y
<1>5. CASE y.cache = y.cur
  <2>1. Reschedule(y) = y
    BY <1>5 DEF Reschedule
  <2>2. IsReady(y, y.cur)
    <3>1. CASE y.cur = Idle
      BY <3>1 DEF IsReady
    <3>2. CASE y.cur # Idle
      <4>1. y.cur \in ToSet(y.runq) /\ y.cur \in Thread
        BY <1>2, <1>3, <1>5, <3>2, NextUpType
      <4> QED
        BY <1>3, <4>1 DEF RunQOk
    <3> QED
      BY <3>1, <3>2
  <2>3. CacheOk(y)
    BY <1>3, <1>5 DEF CacheOk
  <2>4. Inv(y) /\ SwitchOk(y)
    BY <1>3, <1>5, <2>2, <2>3 DEF Inv, SwitchOk
  <2> QED
    BY <1>3, <2>1, <2>4 DEF y
<1> QED
  BY <1>4, <1>5

\* The same as TouchNear for the current thread.
LEMMA TouchOff ==
  ASSUME NEW x, NEW t \in Thread, Off(x, t),
         NEW S \in SUBSET Flag, "QUEUED" \notin S,
         ("PENDING" \in S) <=> ("PENDING" \in x.st[t]),
         NEW v \in Timeout
  PROVE  Off([x EXCEPT !.st[t] = S, !.tmo[t] = v], t)
<1> DEFINE y == [x EXCEPT !.st[t] = S, !.tmo[t] = v]
<1>1. Away(y, t)
  BY TouchAway DEF Off
<1>2. x \in KernelState
  BY DEF Off, Away
<1>3. y.runq = x.runq /\ y.cur = x.cur /\ y.cache = x.cache
  BY <1>2 DEF KernelState
<1> HIDE DEF y
<1>4. Off(y, t)
  BY <1>1, <1>3 DEF Off, NextUp
<1> QED
  BY <1>4 DEF y

\* _remove_thread_from_ready_q() of a ready thread, the current one or not.
LEMMA RemoveReady ==
  ASSUME NEW x, NEW t \in Thread, Inv(x), IsReady(x, t),
         NEW y, y = RemoveFromReadyQ(x, t)
  PROVE  /\ t # x.cur => Near(y, t)
         /\ t = x.cur => Off(y, t)
         /\ y.cur = x.cur /\ y.tick = x.tick /\ y.tmo = x.tmo /\ y.prio = x.prio
         /\ y.st[t] = x.st[t] \ {"QUEUED"}
<1> DEFINE q == PriqRemove(x.runq, t)
           z == [x EXCEPT !.runq = q, !.st[t] = @ \ {"QUEUED"}]
<1>1. x \in KernelState /\ RunQOk(x) /\ WaitQOk(x) /\ CacheOk(x) /\ IsReady(x, x.cur)
  BY DEF Inv
<1>2. "QUEUED" \in x.st[t]
  BY <1>1 DEF RunQOk
<1>3. y = UpdateCache(z, t = x.cur)
  BY <1>2 DEF RemoveFromReadyQ
<1>4. /\ q \in Seq(Thread)
      /\ ToSet(q) = ToSet(x.runq) \ {t}
      /\ NoDuplicates(q)
      /\ Sorted(q, x.prio)
  <2>1. x.runq \in Seq(Thread) /\ NoDuplicates(x.runq) /\ Sorted(x.runq, x.prio)
    BY <1>1 DEF RunQOk, KernelState
  <2> QED
    BY <2>1, PriqRemoveProperties
<1> HIDE DEF q
<1>5. z \in KernelState
  BY <1>1, <1>4 DEF KernelState
<1>6. /\ z.runq = q /\ z.cur = x.cur /\ z.tick = x.tick /\ z.waitq = x.waitq
      /\ z.prio = x.prio /\ z.tmo = x.tmo /\ z.locked = x.locked
      /\ \A u \in Thread : z.st[u] = IF u = t THEN x.st[t] \ {"QUEUED"} ELSE x.st[u]
  BY <1>1 DEF KernelState
<1> HIDE DEF z
<1>7. /\ y \in KernelState
      /\ y.runq = z.runq /\ y.cur = z.cur /\ y.tick = z.tick /\ y.waitq = z.waitq
      /\ y.prio = z.prio /\ y.tmo = z.tmo /\ y.locked = z.locked /\ y.st = z.st
      /\ y.cache = IF ShouldPreempt(z, t = x.cur) THEN NextUp(z) ELSE z.cur
  <2>1. (t = x.cur) \in BOOLEAN
    OBVIOUS
  <2>2. /\ y \in KernelState
        /\ y = [z EXCEPT !.cache = y.cache]
        /\ y.cache = IF ShouldPreempt(z, t = x.cur) THEN NextUp(z) ELSE z.cur
    BY <1>3, <1>5, <2>1, UpdateCacheFrame
  <2>3. y.cache \in Thread \cup {Idle}
    BY <2>2 DEF KernelState
  <2> QED
    BY <1>5, <2>2, <2>3, CacheFrame
<1>8. \A u \in Thread : IsReady(y, u) <=> IsReady(x, u)
  BY <1>6, <1>7 DEF IsReady, Stopped
<1>9. WaitQOk(y)
  <2>1. \A w \in WaitQ : ToSet(x.waitq[w]) \subseteq Thread
    BY <1>1, ToSetIndexed DEF KernelState
  <2>2. \A u \in Thread : ("PENDING" \in y.st[u]) <=> ("PENDING" \in x.st[u])
    BY <1>6, <1>7
  <2> QED
    BY <1>1, <1>6, <1>7, <2>1, <2>2 DEF WaitQOk
<1>10. Away(y, t)
  BY <1>1, <1>4, <1>6, <1>7, <1>8, <1>9 DEF Away, RunQOk
<1>11. ASSUME t = x.cur PROVE Off(y, t)
  BY <1>6, <1>7, <1>10, <1>11 DEF Off, ShouldPreempt, NextUp
<1>12. ASSUME t # x.cur PROVE Near(y, t)
  <2>1. IsReady(y, y.cur)
    BY <1>1, <1>6, <1>7, <1>8 DEF IsReady, KernelState
  <2>2. /\ IsReady(z, z.cur) <=> IsReady(y, y.cur)
        /\ IsPreempt(z, z.cur) <=> IsPreempt(y, y.cur)
        /\ NextUp(z) = NextUp(y)
    BY <1>7 DEF IsReady, IsPreempt, NextUp
  <2>3. CacheOk(y)
    BY <1>7, <1>12, <2>1, <2>2 DEF CacheOk, ShouldPreempt
  <2> QED
    BY <1>6, <1>7, <1>10, <1>12, <2>1, <2>3 DEF Near
<1> QED
  BY <1>6, <1>7, <1>11, <1>12

\* _Swap() once the current thread has left the run queue and is not ready.
LEMMA SwapOff ==
  ASSUME NEW x, NEW t \in Thread, Off(x, t), ~IsReady(x, t)
  PROVE  Inv(Swap(x)) /\ Swap(x).cur = Swap(x).cache /\ Swap(x).tick = x.tick
<1>1. RunQOk(x)
  BY DEF Off, Away, RunQOk
<1> QED
  BY <1>1, SwapInv DEF Off, Away

\* The other threads' calls on a thread that is kept from running.
LEMMA NearStopped ==
  ASSUME NEW x, NEW t \in Thread, Near(x, t), ~IsReady(x, t)
  PROVE  Inv(x)
<1>1. RunQOk(x)
  BY DEF Near, Away, RunQOk
<1> QED
  BY <1>1 DEF Inv, Near, Away

\* _unpend_thread_no_timeout() of another thread, pending or not.
LEMMA UnpendNear ==
  ASSUME NEW x, NEW t \in Thread, Near(x, t), NEW y, y = UnpendNoTimeout(x, t)
  PROVE  /\ Near(y, t) /\ y.tick = x.tick /\ y.cur = x.cur
         /\ y.st[t] = x.st[t] \ {"PENDING"} /\ y.tmo = x.tmo
<1>1. x \in KernelState /\ WaitQOk(x) /\ x.cur # t /\ x.cur \in Thread \cup {Idle}
  BY DEF Near, Away, KernelState
<1>2. \A w \in WaitQ : x.waitq[w] \in Seq(Thread) /\ NoDuplicates(x.waitq[w])
  BY <1>1 DEF KernelState, WaitQOk
<1>3. \A w \in WaitQ : /\ PriqRemove(x.waitq[w], t) \in Seq(Thread)
                       /\ ToSet(PriqRemove(x.waitq[w], t)) = ToSet(x.waitq[w]) \ {t}
                       /\ NoDuplicates(PriqRemove(x.waitq[w], t))
  BY <1>2, PriqRemoveProperties
<1> DEFINE r == [w \in WaitQ |-> PriqRemove(x.waitq[w], t)]
<1>4. y = [x EXCEPT !.waitq = r, !.st[t] = @ \ {"PENDING"}]
  BY <1>1 DEF UnpendNoTimeout, KernelState
<1>5. r \in [WaitQ -> Seq(Thread)]
  BY <1>3
<1>6. \A w \in WaitQ : ToSet(r[w]) = ToSet(x.waitq[w]) \ {t} /\ NoDuplicates(r[w])
  BY <1>3
<1> HIDE DEF r
<1>7. y \in KernelState
  <2>1. [x.st EXCEPT ![t] = @ \ {"PENDING"}] \in [Thread -> SUBSET Flag]
    BY <1>1 DEF KernelState
  <2>2. y = [x EXCEPT !.waitq = r, !.st = [x.st EXCEPT ![t] = @ \ {"PENDING"}]]
    BY <1>1, <1>4 DEF KernelState
  <2> QED
    BY <1>1, <1>5, <2>1, <2>2 DEF KernelState
<1>8. /\ y.runq = x.runq /\ y.cur = x.cur /\ y.cache = x.cache /\ y.tick = x.tick
      /\ y.prio = x.prio /\ y.locked = x.locked /\ y.tmo = x.tmo /\ y.waitq = r
      /\ \A u \in Thread : y.st[u] = IF u = t THEN x.st[t] \ {"PENDING"} ELSE x.st[u]
  BY <1>1, <1>4 DEF KernelState
<1>9. \A w \in WaitQ : ToSet(x.waitq[w]) \subseteq Thread
  BY <1>2, ToSetIndexed
<1>10. WaitQOk(y)
  <2>1. \A w \in WaitQ : \A u \in ToSet(y.waitq[w]) : "PENDING" \in y.st[u]
    BY <1>1, <1>6, <1>8, <1>9 DEF WaitQOk
  <2>2. \A u \in Thread : "PENDING" \in y.st[u] => \E w \in WaitQ : u \in ToSet(y.waitq[w])
    BY <1>1, <1>6, <1>8 DEF WaitQOk
  <2>3. \A v, w \in WaitQ : v # w => ToSet(y.waitq[v]) \cap ToSet(y.waitq[w]) = {}
    BY <1>1, <1>6, <1>8 DEF WaitQOk
  <2> QED
    BY <1>6, <1>8, <2>1, <2>2, <2>3 DEF WaitQOk
<1>11. \A u \in Thread \ {t} : IsReady(y, u) <=> IsReady(x, u)
  BY <1>8 DEF IsReady
<1>12. Away(y, t)
  BY <1>7, <1>8, <1>10, <1>11 DEF Near, Away
<1>13. IsReady(y, y.cur) <=> IsReady(x, x.cur)
  BY <1>1, <1>8, <1>11 DEF IsReady
<1>14. CacheOk(y)
  BY <1>8, <1>13 DEF Near, CacheOk, IsPreempt, NextUp
<1> QED
  BY <1>1, <1>8, <1>12, <1>13, <1>14 DEF Near

\* Taking a ready thread off the run queue and putting it back, with the same
\* or another priority: k_yield(), _thread_priority_set() and
\* _move_thread_to_end_of_prio_q() before the cache is updated.
LEMMA Requeue ==
  ASSUME NEW x, NEW t \in Thread, NEW p \in Prio, Inv(x), IsReady(x, t)
  PROVE  LET y == [x EXCEPT !.prio[t] = p,
                            !.runq = PriqAdd(PriqRemove(@, t), t, [x.prio EXCEPT ![t] = p])]
         IN  /\ y \in KernelState /\ RunQOk(y) /\ WaitQOk(y)
             /\ y.cur = x.cur /\ y.tick = x.tick /\ y.st = x.st
             /\ IsReady(y, y.cur)
<1> DEFINE y  == [x EXCEPT !.prio[t] = p,
                           !.runq = PriqAdd(PriqRemove(@, t), t, [x.prio EXCEPT ![t] = p])]
           pr == [x.prio EXCEPT ![t] = p]
           q  == PriqRemove(x.runq, t)
           r  == PriqAdd(q, t, pr)
<1>1. x \in KernelState /\ RunQOk(x) /\ WaitQOk(x) /\ IsReady(x, x.cur)
  BY DEF Inv
<1>2. /\ pr \in [Thread -> Prio] /\ pr \in [Thread -> Int]
      /\ \A u \in Thread : pr[u] = IF u = t THEN p ELSE x.prio[u]
  BY <1>1, KernelAssumption DEF KernelState
<1>3. x.runq \in Seq(Thread) /\ NoDuplicates(x.runq) /\ Sorted(x.runq, x.prio)
  BY <1>1 DEF RunQOk, KernelState
<1>4. /\ q \in Seq(Thread) /\ ToSet(q) = ToSet(x.runq) \ {t} /\ NoDuplicates(q)
      /\ Sorted(q, x.prio)
  BY <1>3, PriqRemoveProperties
<1>5. y = [x EXCEPT !.prio = pr, !.runq = r]
  BY <1>1 DEF KernelState
<1> HIDE DEF pr, q, y
<1>6. Sorted(q, pr)
  <2>1. \A i \in 1 .. Len(q) : q[i] \in ToSet(q) /\ q[i] \in Thread
    BY <1>4, ToSetIndexed
  <2>2. \A i \in 1 .. Len(q) : q[i] # t
    BY <1>4, <2>1
  <2>3. \A i \in 1 .. Len(q) : pr[q[i]] = x.prio[q[i]]
    BY <1>2, <2>1, <2>2
  <2> QED
    BY <1>4, <2>3 DEF Sorted
<1>7. /\ r \in Seq(Thread) /\ ToSet(r) = ToSet(q) \cup {t} /\ NoDuplicates(r)
      /\ Sorted(r, pr)
  BY <1>2, <1>4, <1>6, PriqAddProperties
<1> HIDE DEF r
<1>8. /\ y \in KernelState /\ y.runq = r /\ y.prio = pr
      /\ y.cur = x.cur /\ y.tick = x.tick /\ y.st = x.st /\ y.tmo = x.tmo
      /\ y.waitq = x.waitq
  BY <1>1, <1>2, <1>5, <1>7 DEF KernelState
<1>9. \A u : IsReady(y, u) <=> IsReady(x, u)
  BY <1>8 DEF IsReady
<1>10. t \in ToSet(x.runq)
  BY <1>1 DEF RunQOk
<1>11. ToSet(r) = ToSet(x.runq)
  BY <1>4, <1>7, <1>10
<1>12. RunQOk(y)
  BY <1>1, <1>7, <1>8, <1>9, <1>11 DEF RunQOk
<1>13. WaitQOk(y)
  BY <1>1, <1>8 DEF WaitQOk
<1> QED
  BY <1>1, <1>8, <1>9, <1>12, <1>13 DEF y

\* update_cache() while the current thread is ready.
LEMMA UpdateCacheInv ==
  ASSUME NEW x \in KernelState, NEW ok \in BOOLEAN,
         RunQOk(x), WaitQOk(x), IsReady(x, x.cur)
  PROVE  /\ Inv(UpdateCache(x, ok))
         /\ UpdateCache(x, ok).tick = x.tick /\ UpdateCache(x, ok).cur = x.cur
<1> DEFINE y == UpdateCache(x, ok)
<1>1. /\ y \in KernelState /\ y = [x EXCEPT !.cache = y.cache]
      /\ y.cache = IF ShouldPreempt(x, ok) THEN NextUp(x) ELSE x.cur
  BY UpdateCacheFrame
<1> DEFINE c == y.cache
<1>2. y = [x EXCEPT !.cache = c] /\ c \in Thread \cup {Idle}
  BY <1>1 DEF KernelState
<1> HIDE DEF y, c
<1>3. /\ y.cur = x.cur /\ y.tick = x.tick
      /\ \A u : IsReady(y, u) <=> IsReady(x, u)
      /\ \A u : IsPreempt(y, u) <=> IsPreempt(x, u)
      /\ NextUp(y) = NextUp(x)
      /\ RunQOk(y) /\ WaitQOk(y)
  BY <1>2, CacheFrame
<1>4. CacheOk(y)
  BY <1>1, <1>3 DEF CacheOk, ShouldPreempt
<1> QED
  BY <1>1, <1>3, <1>4 DEF Inv, y

\* A field the queues do not depend on may change.
LEMMA OtherFields ==
  ASSUME NEW x, Inv(x), NEW r \in [Thread -> SwapValue], NEW s \in Nat, NEW b \in BOOLEAN
  PROVE  Inv([x EXCEPT !.ret = r, !.slice = s, !.tick = b])
<1> DEFINE y == [x EXCEPT !.ret = r, !.slice = s, !.tick = b]
<1>1. x \in KernelState
  BY DEF Inv
<1>2. /\ y \in KernelState /\ y.cur = x.cur /\ y.cache = x.cache /\ y.tick = b
      /\ y.runq = x.runq /\ y.st = x.st /\ y.tmo = x.tmo /\ y.prio = x.prio
      /\ y.locked = x.locked /\ y.waitq = x.waitq
  BY <1>1 DEF KernelState
<1> HIDE DEF y
<1>3. /\ \A u : IsReady(y, u) <=> IsReady(x, u)
      /\ \A u : IsPreempt(y, u) <=> IsPreempt(x, u)
      /\ NextUp(y) = NextUp(x)
  BY <1>2 DEF IsReady, IsPreempt, NextUp
<1> QED
  BY <1>2, <1>3 DEF Inv, RunQOk, WaitQOk, CacheOk, y

=============================================================================
