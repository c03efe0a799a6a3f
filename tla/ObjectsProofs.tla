--------------------------- MODULE ObjectsProofs ---------------------------
(***************************************************************************)
(* Message queues, stacks, slabs and queues.                               *)
(***************************************************************************)
EXTENDS Objects, SchedProofs, FiniteSetTheorems

-----------------------------------------------------------------------------
(***************************************************************************)
(* The singly linked list of a queue.                                      *)
(***************************************************************************)

\* From the head on, the pointers of q make up the list l.
IsChain(q, l) ==
  /\ l \in Seq(Item) /\ NoDuplicates(l)
  /\ q.head = IF l = <<>> THEN NoData ELSE l[1]
  /\ \A i \in 1 .. Len(l) : q.next[l[i]] = IF i = Len(l) THEN NoData ELSE l[i + 1]

\* The pointers of q make up the list l, and the tail is its last node.
IsList(q, l) ==
  /\ IsChain(q, l)
  /\ q.tail = IF l = <<>> THEN NoData ELSE l[Len(l)]

\* There are no more places in a list without duplicates than there are items.
LEMMA ListLength ==
  ASSUME NEW l \in Seq(Item), NoDuplicates(l)
  PROVE  Len(l) \in Nat /\ Cardinality(Item) \in Nat /\ Len(l) <= Cardinality(Item)
<1> DEFINE n == Len(l)
<1>1. l \in [1 .. n -> Item] /\ n \in Nat
  BY LenProperties
<1>2. l \in Injection(1 .. n, Item)
  BY <1>1 DEF NoDuplicates, Injection, IsInjective
<1> HIDE DEF n
<1>3. Cardinality(1 .. n) <= Cardinality(Item)
  BY <1>2, FS_Injection, ObjectAssumption
<1>4. Cardinality(1 .. n) = IF 1 > n THEN 0 ELSE n - 1 + 1
  BY <1>1, FS_Interval
<1> QED
  BY <1>1, <1>3, <1>4, FS_CardinalityType, ObjectAssumption DEF n

\* The walk from the head finds the list.
LEMMA WalkFindsList ==
  ASSUME NEW l, IsChain(obj, l)
  PROVE  QueueBuffer = l
<1> DEFINE n == Len(l)
           N == Cardinality(Item) + 1
           Walk(f) == [i \in 1 .. N |->
                         IF i = 1 THEN obj.head
                         ELSE IF f[i - 1] = NoData THEN NoData ELSE obj.next[f[i - 1]]]
           g == [i \in 1 .. N |-> IF i <= n THEN l[i] ELSE NoData]
<1>1. /\ n \in Nat /\ N \in Nat /\ n < N /\ 1 \in 1 .. N
      /\ l \in Seq(Item) /\ NoData \notin Item /\ \A i \in 1 .. n : l[i] \in Item
      /\ obj.head = IF n = 0 THEN NoData ELSE l[1]
      /\ \A i \in 1 .. n : obj.next[l[i]] = IF i = n THEN NoData ELSE l[i + 1]
  BY ListLength, ObjectAssumption DEF IsList, IsChain
<1>2. ASSUME NEW i \in 1 .. N
      PROVE  g[i] = IF i = 1 THEN obj.head
                    ELSE IF g[i - 1] = NoData THEN NoData ELSE obj.next[g[i - 1]]
  BY <1>1
<1>3. g = Walk(g)
  BY <1>2
<1>4. ASSUME NEW f, f = Walk(f)
      PROVE  f = g
  <2> DEFINE S == {i \in 1 .. N : f[i] # g[i]}
  <2>1. DOMAIN f = 1 .. N /\ f = [i \in 1 .. N |-> f[i]]
    BY <1>4
  <2>2. \A i \in 1 .. N : f[i] = IF i = 1 THEN obj.head
                    ELSE IF f[i - 1] = NoData THEN NoData ELSE obj.next[f[i - 1]]
    BY <1>4
  <2>3. S = {}
    <3> SUFFICES ASSUME S # {} PROVE FALSE
      OBVIOUS
    <3> DEFINE m == Min(S)
    <3>1. S \in SUBSET Nat
      BY <1>1
    <3>2. m \in S /\ \A y \in S : m <= y
      BY <3>1, MinIsLeast
    <3> HIDE DEF m
    <3>3. m \in 1 .. N /\ f[m] # g[m]
      BY <3>2
    <3>4. m # 1
      BY <1>2, <2>2, <3>3
    <3>5. m - 1 \in 1 .. N /\ ~(m <= m - 1)
      BY <1>1, <3>3, <3>4
    <3>6. f[m - 1] = g[m - 1]
      BY <3>2, <3>5
    <3> QED
      BY <1>2, <2>2, <3>3, <3>4, <3>6
  <2>4. \A i \in 1 .. N : f[i] = g[i]
    BY <2>3
  <2> QED
    BY <2>1, <2>4
<1> HIDE DEF g
<1>5. (CHOOSE f : f = Walk(f)) = g
  BY <1>3, <1>4
<1>6. QueueBuffer = SubSeq(g, 1, Cardinality({i \in DOMAIN g : g[i] # NoData}))
  BY <1>5 DEF QueueBuffer
<1>7. {i \in DOMAIN g : g[i] # NoData} = 1 .. n
  BY <1>1 DEF g
<1>8. Cardinality(1 .. n) = n
  <2> HIDE DEF n
  <2>1. Cardinality(1 .. n) = IF 1 > n THEN 0 ELSE n - 1 + 1
    BY <1>1, FS_Interval
  <2> QED
    BY <1>1, <2>1
<1>9. \A i \in 1 .. n : g[i] = l[i]
  BY <1>1 DEF g
<1>10. SubSeq(g, 1, n) \in Seq(Item) /\ Len(SubSeq(g, 1, n)) = n
       /\ \A i \in 1 .. n : SubSeq(g, 1, n)[i] = l[i]
  BY <1>1, <1>9, SubSeqProperties
<1>11. SubSeq(g, 1, n) = l
  BY <1>1, <1>10, SeqEqual
<1> QED
  BY <1>6, <1>7, <1>8, <1>11

\* The list l with n at position p.
Spliced(l, p, n) ==
  [i \in 1 .. Len(l) + 1 |-> IF i < p THEN l[i] ELSE IF i = p THEN n ELSE l[i - 1]]

LEMMA SplicedList ==
  ASSUME NEW l \in Seq(Item), NoDuplicates(l), NEW n \in Item, n \notin ToSet(l),
         NEW p \in 1 .. Len(l) + 1, NEW r, r = Spliced(l, p, n)
  PROVE  /\ r \in Seq(Item) /\ NoDuplicates(r) /\ Len(r) = Len(l) + 1 /\ r # <<>>
         /\ \A i \in 1 .. Len(l) + 1 : r[i] = IF i < p THEN l[i] ELSE IF i = p THEN n ELSE l[i - 1]
         /\ RemoveAt(r, p) = l /\ n \in ToSet(r)
<1> DEFINE m == Len(l)
<1>1. /\ m \in Nat /\ p \in 1 .. m + 1
      /\ \A i \in 1 .. m : l[i] \in Item /\ l[i] # n
      /\ \A i, j \in 1 .. m : l[i] = l[j] => i = j
  BY ToSetIndexed DEF NoDuplicates
<1> HIDE DEF m
<1>2. r = [i \in 1 .. m + 1 |-> IF i < p THEN l[i] ELSE IF i = p THEN n ELSE l[i - 1]]
  BY DEF Spliced, m
<1>3. \A i \in 1 .. m + 1 : r[i] = IF i < p THEN l[i] ELSE IF i = p THEN n ELSE l[i - 1]
  BY <1>2
<1>4. \A i \in 1 .. m + 1 : r[i] \in Item
  BY <1>1, <1>3
<1>5. r \in Seq(Item) /\ Len(r) = m + 1
  BY <1>1, <1>2, <1>4
<1>6. \A i, j \in 1 .. m + 1 : r[i] = r[j] => i = j
  BY <1>1, <1>3
<1>7. /\ RemoveAt(r, p) \in Seq(Item) /\ Len(RemoveAt(r, p)) = m
      /\ \A i \in 1 .. m : RemoveAt(r, p)[i] = IF i < p THEN r[i] ELSE r[i + 1]
  <2>1. p \in 1 .. Len(r) /\ Len(r) - 1 = m
    BY <1>1, <1>5
  <2> QED
    BY <1>5, <2>1, RemoveAtIndexed
<1>8. \A i \in 1 .. m : RemoveAt(r, p)[i] = l[i]
  <2> SUFFICES ASSUME NEW i \in 1 .. m PROVE RemoveAt(r, p)[i] = l[i]
    OBVIOUS
  <2>1. i \in 1 .. m + 1 /\ i + 1 \in 1 .. m + 1 /\ (i + 1) - 1 = i
    BY <1>1
  <2>2. CASE i < p
    BY <1>3, <1>7, <2>1, <2>2
  <2>3. CASE ~(i < p)
    <3>1. ~(i + 1 < p) /\ i + 1 # p
      BY <1>1, <2>3
    <3>2. RemoveAt(r, p)[i] = r[i + 1] /\ r[i + 1] = l[(i + 1) - 1]
      BY <1>3, <1>7, <2>1, <2>3, <3>1
    <3> QED
      BY <2>1, <3>2
  <2> QED
    BY <2>2, <2>3
<1>9. RemoveAt(r, p) = l
  BY <1>7, <1>8, SeqEqual DEF m
<1>10. r[p] = n
  BY <1>1, <1>3
<1>11. n \in ToSet(r)
  BY <1>1, <1>5, <1>10, ToSetIndexed
<1> QED
  BY <1>1, <1>3, <1>5, <1>6, <1>9, <1>11 DEF NoDuplicates, m

\* sys_sflist_insert(): first without a predecessor, behind it with one.
LEMMA InsertedList ==
  ASSUME NEW q \in QueueType, NEW l, IsList(q, l), NEW n \in Item, n \notin ToSet(l),
         NEW prev \in ToSet(l) \cup {NoData}, NEW y, y = Inserted(q, prev, n)
  PROVE  y \in QueueType /\ \E p \in 1 .. Len(l) + 1 : IsList(y, Spliced(l, p, n))
<1> DEFINE m == Len(l)
           new == [q EXCEPT !.next[n] = NoData]
<1>1. /\ m \in Nat /\ l \in Seq(Item) /\ NoData \notin Item
      /\ \A i \in 1 .. m : l[i] \in Item /\ l[i] # n
      /\ \A i, j \in 1 .. m : l[i] = l[j] => i = j
      /\ q.head = IF m = 0 THEN NoData ELSE l[1]
      /\ q.tail = IF m = 0 THEN NoData ELSE l[m]
      /\ \A i \in 1 .. m : q.next[l[i]] = IF i = m THEN NoData ELSE l[i + 1]
      /\ NoDuplicates(l)
  BY ToSetIndexed, ObjectAssumption DEF IsList, IsChain, NoDuplicates
<1>2. /\ q.next \in [Item -> Item \cup {NoData}] /\ q.head \in Item \cup {NoData}
      /\ q.tail \in Item \cup {NoData}
  BY DEF QueueType
<1>3. /\ new \in QueueType /\ new.head = q.head /\ new.tail = q.tail
      /\ new.next = [q.next EXCEPT ![n] = NoData]
  BY DEF QueueType
<1> HIDE DEF new, m
<1>4. ASSUME NEW p \in 1 .. m + 1, y \in QueueType,
             y.head = IF p = 1 THEN n ELSE l[1],
             y.tail = IF p = m + 1 THEN n ELSE l[m],
             y.next[n] = (IF p = m + 1 THEN NoData ELSE l[p]),
             \A i \in 1 .. m :
               y.next[l[i]] = IF i + 1 = p THEN n ELSE IF i = m THEN NoData ELSE l[i + 1]
      PROVE  y \in QueueType /\ \E j \in 1 .. Len(l) + 1 : IsList(y, Spliced(l, j, n))
  <2> DEFINE r == Spliced(l, p, n)
  <2>1. /\ r \in Seq(Item) /\ NoDuplicates(r) /\ Len(r) = m + 1 /\ r # <<>>
        /\ \A i \in 1 .. m + 1 : r[i] = IF i < p THEN l[i] ELSE IF i = p THEN n ELSE l[i - 1]
    BY <1>1, SplicedList DEF m
  <2> HIDE DEF r
  <2>2. y.head = r[1] /\ y.tail = r[m + 1]
    BY <1>1, <1>4, <2>1
  <2>3. ASSUME NEW i \in 1 .. m + 1
        PROVE  y.next[r[i]] = IF i = m + 1 THEN NoData ELSE r[i + 1]
    <3>1. CASE i < p
      BY <1>1, <1>4, <2>1, <3>1
    <3>2. CASE i = p
      BY <1>1, <1>4, <2>1, <3>2
    <3>3. CASE i > p
      <4>1. r[i] = l[i - 1] /\ i - 1 \in 1 .. m /\ (i - 1) + 1 = i
        BY <1>1, <2>1, <3>3
      <4>2. y.next[l[i - 1]] = IF i - 1 = m THEN NoData ELSE l[i]
        BY <1>1, <1>4, <4>1, <3>3
      <4>3. i # m + 1 => r[i + 1] = l[i]
        BY <1>1, <2>1, <3>3
      <4> QED
        BY <1>1, <4>1, <4>2, <4>3
    <3> QED
      BY <1>1, <3>1, <3>2, <3>3
  <2>4. IsList(y, r)
    BY <2>1, <2>2, <2>3 DEF IsList, IsChain
  <2> QED
    BY <1>4, <2>4 DEF r, m
<1>5. CASE prev = NoData
  <2>1. y = [new EXCEPT !.head = n, !.next[n] = new.head, !.tail = IF @ = NoData THEN n ELSE @]
    BY <1>5 DEF Inserted, Prepended, new
  <2>2. /\ y \in QueueType /\ y.head = n /\ y.next = [new.next EXCEPT ![n] = q.head]
        /\ y.tail = IF q.tail = NoData THEN n ELSE q.tail
    <3> DEFINE f == [new.next EXCEPT ![n] = q.head]
               t == IF q.tail = NoData THEN n ELSE q.tail
    <3>1. f \in [Item -> Item \cup {NoData}] /\ t \in Item \cup {NoData} /\ n \in Item \cup {NoData}
      BY <1>2, <1>3
    <3>2. y = [type |-> "queue", head |-> n, tail |-> t, next |-> f]
      BY <1>3, <2>1 DEF QueueType
    <3> HIDE DEF f, t
    <3>3. y \in QueueType /\ y.head = n /\ y.tail = t /\ y.next = f
      BY <3>1, <3>2 DEF QueueType
    <3> QED
      BY <3>3 DEF f, t
  <2>3. y.next[n] = q.head /\ \A i \in 1 .. m : y.next[l[i]] = q.next[l[i]]
    BY <1>1, <1>2, <1>3, <2>2
  <2>4. 1 \in 1 .. m + 1 /\ \A i \in 1 .. m : i + 1 # 1
    BY <1>1
  <2>5. y.tail = (IF 1 = m + 1 THEN n ELSE l[m]) /\ y.next[n] = (IF 1 = m + 1 THEN NoData ELSE l[1])
    BY <1>1, <2>2, <2>3
  <2> QED
    BY <1>1, <1>4, <2>2, <2>3, <2>4, <2>5
<1>6. CASE prev # NoData
  <2>1. PICK j \in 1 .. m : prev = l[j]
    BY <1>1, <1>6, ToSetIndexed DEF m
  <2>2. prev \in Item /\ prev # n /\ new.next[prev] = q.next[prev]
        /\ q.next[prev] = (IF j = m THEN NoData ELSE l[j + 1])
    BY <1>1, <1>2, <1>3, <2>1
  <2>3. CASE j = m
    <3>1. y = [new EXCEPT !.next[new.tail] = n, !.tail = n]
      BY <1>1, <1>3, <1>6, <2>1, <2>2, <2>3 DEF Inserted, AppendedList, new
    <3>2. /\ y \in QueueType /\ y.head = q.head /\ y.tail = n
          /\ y.next = [new.next EXCEPT ![prev] = n]
      <4> DEFINE f == [new.next EXCEPT ![prev] = n]
      <4>1. f \in [Item -> Item \cup {NoData}] /\ n \in Item \cup {NoData}
        BY <1>2, <1>3
      <4>2. new.tail = prev
        BY <1>1, <1>3, <2>1, <2>3
      <4>3. y = [type |-> "queue", head |-> new.head, tail |-> n, next |-> f]
        BY <1>3, <3>1, <4>2 DEF QueueType
      <4> HIDE DEF f
      <4>4. y \in QueueType /\ y.head = new.head /\ y.tail = n /\ y.next = f
        BY <1>2, <1>3, <4>1, <4>3 DEF QueueType
      <4> QED
        BY <1>3, <4>4 DEF f
    <3>3. y.next[n] = NoData /\ \A i \in 1 .. m : y.next[l[i]] = IF i = m THEN n ELSE q.next[l[i]]
      BY <1>1, <1>2, <1>3, <2>1, <2>2, <2>3, <3>2
    <3>4. m + 1 \in 1 .. m + 1 /\ m + 1 # 1
      BY <1>1, <2>1
    <3>5. y.head = l[1] /\ \A i \in 1 .. m :
             y.next[l[i]] = IF i + 1 = m + 1 THEN n ELSE IF i = m THEN NoData ELSE l[i + 1]
      BY <1>1, <2>1, <3>2, <3>3
    <3> QED
      BY <1>4, <3>2, <3>3, <3>4, <3>5
  <2>4. CASE j # m
    <3>1. y = [new EXCEPT !.next[n] = new.next[prev], !.next[prev] = n]
      BY <1>1, <1>6, <2>1, <2>2, <2>4 DEF Inserted, new
    <3>2. /\ y \in QueueType /\ y.head = q.head /\ y.tail = q.tail
          /\ y.next = [[new.next EXCEPT ![n] = q.next[prev]] EXCEPT ![prev] = n]
      <4> DEFINE f == [[new.next EXCEPT ![n] = q.next[prev]] EXCEPT ![prev] = n]
      <4>1. f \in [Item -> Item \cup {NoData}]
        BY <1>2, <1>3, <2>2
      <4>2. y = [type |-> "queue", head |-> new.head, tail |-> new.tail, next |-> f]
        BY <1>3, <2>2, <3>1 DEF QueueType
      <4> HIDE DEF f
      <4>3. y \in QueueType /\ y.head = new.head /\ y.tail = new.tail /\ y.next = f
        BY <1>2, <1>3, <4>1, <4>2 DEF QueueType
      <4> QED
        BY <1>3, <4>3 DEF f
    <3>3. y.next[n] = l[j + 1] /\ \A i \in 1 .. m : y.next[l[i]] = IF i = j THEN n ELSE q.next[l[i]]
      BY <1>1, <1>2, <1>3, <2>1, <2>2, <2>4, <3>2
    <3>4. j + 1 \in 1 .. m + 1 /\ j + 1 # 1 /\ j + 1 # m + 1
      BY <1>1, <2>1, <2>4
    <3>5. /\ y.head = l[1] /\ y.tail = l[m]
          /\ \A i \in 1 .. m :
               y.next[l[i]] = IF i + 1 = j + 1 THEN n ELSE IF i = m THEN NoData ELSE l[i + 1]
      BY <1>1, <2>1, <3>2, <3>3
    <3> QED
      BY <1>4, <3>2, <3>3, <3>4, <3>5
  <2> QED
    BY <2>3, <2>4
<1> QED
  BY <1>5, <1>6

\* IsList, index by index.
LEMMA ListIndexed ==
  ASSUME NEW q \in QueueType, NEW l, IsList(q, l)
  PROVE  /\ Len(l) \in Nat /\ l \in Seq(Item) /\ NoDuplicates(l) /\ NoData \notin Item
         /\ \A i \in 1 .. Len(l) : l[i] \in Item
         /\ \A i, j \in 1 .. Len(l) : l[i] = l[j] => i = j
         /\ l = <<>> <=> Len(l) = 0
         /\ q.head = IF Len(l) = 0 THEN NoData ELSE l[1]
         /\ q.tail = IF Len(l) = 0 THEN NoData ELSE l[Len(l)]
         /\ \A i \in 1 .. Len(l) : q.next[l[i]] = IF i = Len(l) THEN NoData ELSE l[i + 1]
         /\ q.next \in [Item -> Item \cup {NoData}]
         /\ q.head \in Item \cup {NoData} /\ q.tail \in Item \cup {NoData}
         /\ q.type = "queue"
  BY ObjectAssumption DEF IsList, IsChain, NoDuplicates, QueueType

\* sys_sflist_get().
LEMMA GottenList ==
  ASSUME NEW q \in QueueType, NEW l, IsList(q, l), q.head # NoData, NEW y, y = Gotten(q)
  PROVE  y \in QueueType /\ l # <<>> /\ IsList(y, Tail(l))
<1> DEFINE m == Len(l)
           h == q.next[q.head]
           t == IF q.tail = q.head THEN h ELSE q.tail
           r == Tail(l)
<1>1. /\ m \in Nat /\ m # 0 /\ l \in Seq(Item) /\ l # <<>>
      /\ \A i \in 1 .. m : l[i] \in Item
      /\ \A i, j \in 1 .. m : l[i] = l[j] => i = j
      /\ q.head = l[1] /\ q.tail = l[m]
      /\ \A i \in 1 .. m : q.next[l[i]] = IF i = m THEN NoData ELSE l[i + 1]
  BY ListIndexed
<1>2. h = (IF m = 1 THEN NoData ELSE l[2]) /\ t = (IF m = 1 THEN NoData ELSE l[m])
  <2>1. 1 \in 1 .. m /\ m \in 1 .. m
    BY <1>1
  <2>2. h = IF m = 1 THEN NoData ELSE l[2]
    <3> HIDE DEF m
    <3>1. q.next[l[1]] = IF 1 = m THEN NoData ELSE l[1 + 1]
      BY <1>1, <2>1
    <3> QED
      BY <1>1, <3>1
  <2>3. q.tail = q.head <=> m = 1
    BY <1>1, <2>1
  <2> QED
    BY <1>1, <2>2, <2>3
<1>3. h \in Item \cup {NoData} /\ t \in Item \cup {NoData} /\ q.next \in [Item -> Item \cup {NoData}]
  BY <1>1, <1>2, ListIndexed
<1>4. y = [type |-> "queue", head |-> h, tail |-> t, next |-> q.next]
  BY DEF Gotten, QueueType
<1>5. /\ r \in Seq(Item) /\ Len(r) = m - 1 /\ \A i \in 1 .. m - 1 : r[i] = l[i + 1]
  BY <1>1, HeadTailProperties
<1> HIDE DEF h, t, r, m
<1>6. y \in QueueType /\ y.head = h /\ y.tail = t /\ y.next = q.next
  BY <1>3, <1>4 DEF QueueType
<1>7. NoDuplicates(r)
  <2>1. ASSUME NEW i \in 1 .. m - 1, NEW j \in 1 .. m - 1, r[i] = r[j]
        PROVE  i = j
    <3>1. i + 1 \in 1 .. m /\ j + 1 \in 1 .. m
      BY <1>1
    <3>2. l[i + 1] = l[j + 1]
      BY <1>5, <2>1
    <3>3. i + 1 = j + 1
      BY <1>1, <3>1, <3>2
    <3> QED
      BY <1>1, <3>3
  <2> QED
    BY <1>5, <2>1 DEF NoDuplicates
<1>8. ASSUME NEW i \in 1 .. m - 1
      PROVE  y.next[r[i]] = IF i = m - 1 THEN NoData ELSE r[i + 1]
  <2>1. i + 1 \in 1 .. m /\ (i = m - 1 <=> i + 1 = m) /\ (i # m - 1 => i + 1 \in 1 .. m - 1)
    BY <1>1
  <2>2. q.next[l[i + 1]] = IF i + 1 = m THEN NoData ELSE l[(i + 1) + 1]
    BY <1>1, <2>1
  <2>3. r[i] = l[i + 1] /\ (i # m - 1 => r[i + 1] = l[(i + 1) + 1])
    BY <1>5, <2>1
  <2> QED
    BY <1>6, <2>1, <2>2, <2>3
<1>9. r = <<>> <=> m = 1
  BY <1>1, <1>5
<1>10. y.head = (IF m = 1 THEN NoData ELSE r[1]) /\ y.tail = (IF m = 1 THEN NoData ELSE r[m - 1])
  BY <1>1, <1>2, <1>5, <1>6
<1>11. IsList(y, r)
  BY <1>5, <1>7, <1>8, <1>9, <1>10 DEF IsList, IsChain
<1> QED
  BY <1>1, <1>6, <1>11 DEF r

\* sys_sflist_append_list() of two linked nodes.
LEMMA AppendedPair ==
  ASSUME NEW q \in QueueType, NEW l, IsList(q, l), NEW m \in Item, NEW n \in Item, m # n,
         m \notin ToSet(l), n \notin ToSet(l),
         NEW linked, linked = [q EXCEPT !.next = [@ EXCEPT ![m] = n, ![n] = NoData]]
  PROVE  /\ AppendedList(linked, m, n) \in QueueType
         /\ IsList(AppendedList(linked, m, n), l \o <<m, n>>)
         /\ l = <<>> => /\ AppendedList(linked, n, n) \in QueueType
                        /\ IsList(AppendedList(linked, n, n), <<n>>)
                        /\ linked \in QueueType /\ IsList(linked, <<>>)
<1> DEFINE c == Len(l)
           f == [q.next EXCEPT ![m] = n, ![n] = NoData]
           y == AppendedList(linked, m, n)
           z == AppendedList(linked, n, n)
           g == IF c = 0 THEN f ELSE [f EXCEPT ![q.tail] = m]
           h == IF c = 0 THEN m ELSE q.head
           r == l \o <<m, n>>
<1>1. /\ c \in Nat /\ l \in Seq(Item) /\ NoData \notin Item
      /\ \A i \in 1 .. c : l[i] \in Item /\ l[i] # m /\ l[i] # n
      /\ \A i, j \in 1 .. c : l[i] = l[j] => i = j
      /\ l = <<>> <=> c = 0
      /\ q.head = IF c = 0 THEN NoData ELSE l[1]
      /\ q.tail = IF c = 0 THEN NoData ELSE l[c]
      /\ \A i \in 1 .. c : q.next[l[i]] = IF i = c THEN NoData ELSE l[i + 1]
      /\ q.next \in [Item -> Item \cup {NoData}]
      /\ q.head \in Item \cup {NoData} /\ q.tail \in Item \cup {NoData}
  BY ListIndexed, ToSetIndexed
<1>2. linked = [type |-> "queue", head |-> q.head, tail |-> q.tail, next |-> f]
  BY DEF QueueType
<1>3. f \in [Item -> Item \cup {NoData}] /\ f[m] = n /\ f[n] = NoData
      /\ \A i \in 1 .. c : f[l[i]] = q.next[l[i]]
  BY <1>1
<1> HIDE DEF f, c
<1>4. /\ linked \in QueueType /\ linked.head = q.head /\ linked.tail = q.tail /\ linked.next = f
  BY <1>1, <1>2, <1>3 DEF QueueType
<1>5. y = [type |-> "queue", head |-> h, tail |-> n, next |-> g]
  <2>1. CASE c = 0
    <3>1. linked.tail = NoData
      BY <1>1, <1>2, <2>1
    <3>2. y = [linked EXCEPT !.head = m, !.tail = n]
      BY <3>1 DEF AppendedList
    <3> QED
      BY <1>4, <2>1, <3>2 DEF QueueType
  <2>2. CASE c # 0
    <3>1. linked.tail = q.tail /\ q.tail # NoData /\ linked.next = f
      BY <1>1, <1>2, <2>2
    <3>2. y = [linked EXCEPT !.next[linked.tail] = m, !.tail = n]
      BY <3>1 DEF AppendedList
    <3> QED
      BY <1>4, <2>2, <3>1, <3>2 DEF QueueType
  <2> QED
    BY <2>1, <2>2
<1>6. c = 0 => z = [type |-> "queue", head |-> n, tail |-> n, next |-> f]
  <2> SUFFICES ASSUME c = 0 PROVE z = [type |-> "queue", head |-> n, tail |-> n, next |-> f]
    OBVIOUS
  <2>1. linked.tail = NoData
    BY <1>1, <1>2
  <2>2. z = [linked EXCEPT !.head = n, !.tail = n]
    BY <2>1 DEF AppendedList
  <2> QED
    BY <1>4, <2>2 DEF QueueType
<1>7. g \in [Item -> Item \cup {NoData}] /\ h \in Item \cup {NoData}
  BY <1>1, <1>3
<1>8. g[m] = n /\ g[n] = NoData /\ \A i \in 1 .. c : g[l[i]] = IF i = c THEN m ELSE l[i + 1]
  BY <1>1, <1>3
<1>9. /\ r \in Seq(Item) /\ Len(r) = c + 2
      /\ \A i \in 1 .. c + 2 : r[i] = IF i <= c THEN l[i] ELSE <<m, n>>[i - c]
  BY <1>1, ConcatProperties DEF c
<1> HIDE DEF g, r, y
<1>10. r[c + 1] = m /\ r[c + 2] = n /\ \A i \in 1 .. c : r[i] = l[i]
  <2>1. <<m, n>>[1] = m /\ <<m, n>>[2] = n /\ (c + 1) - c = 1 /\ (c + 2) - c = 2
    BY <1>1
  <2>2. r[c + 1] = <<m, n>>[(c + 1) - c] /\ r[c + 2] = <<m, n>>[(c + 2) - c]
    BY <1>1, <1>9
  <2>3. \A i \in 1 .. c : r[i] = l[i]
    BY <1>1, <1>9
  <2> QED
    BY <2>1, <2>2, <2>3
<1>11. \A i \in 1 .. c + 2 : i \in 1 .. c \/ i = c + 1 \/ i = c + 2
  BY <1>1
<1>12. ASSUME NEW i \in 1 .. c + 2, NEW j \in 1 .. c + 2, r[i] = r[j]
       PROVE  i = j
  <2>1. \A x \in 1 .. c : r[x] # m /\ r[x] # n
    BY <1>1, <1>10
  <2>2. CASE i \in 1 .. c /\ j \in 1 .. c
    BY <1>1, <1>10, <1>12, <2>2
  <2>3. CASE i \notin 1 .. c \/ j \notin 1 .. c
    BY <1>1, <1>10, <1>11, <1>12, <2>1, <2>3
  <2> QED
    BY <2>2, <2>3
<1>13. ASSUME NEW i \in 1 .. c + 2
       PROVE  g[r[i]] = IF i = c + 2 THEN NoData ELSE r[i + 1]
  <2>1. CASE i = c + 2
    BY <1>8, <1>10, <2>1
  <2>2. CASE i = c + 1
    <3>1. i # c + 2 /\ i + 1 = c + 2
      BY <1>1, <2>2
    <3> QED
      BY <1>8, <1>10, <2>2, <3>1
  <2>3. CASE i \in 1 .. c
    <3>1. i # c + 2 /\ r[i] = l[i] /\ (i = c \/ i + 1 \in 1 .. c)
      BY <1>1, <1>10, <2>3
    <3>2. r[i + 1] = IF i = c THEN m ELSE l[i + 1]
      <4>1. CASE i = c
        BY <1>10, <4>1
      <4>2. CASE i # c
        BY <1>10, <3>1, <4>2
      <4> QED
        BY <4>1, <4>2
    <3> QED
      BY <1>8, <2>3, <3>1, <3>2
  <2> QED
    BY <1>11, <2>1, <2>2, <2>3
<1>14. h = r[1] /\ r # <<>>
  BY <1>1, <1>9, <1>10
<1>15. y \in QueueType /\ IsList(y, r)
  <2>1. y \in QueueType /\ y.head = h /\ y.tail = n /\ y.next = g
    BY <1>5, <1>7 DEF QueueType
  <2> QED
    BY <1>9, <1>10, <1>12, <1>13, <1>14, <2>1 DEF IsList, IsChain, NoDuplicates
<1>16. ASSUME l = <<>>
       PROVE  z \in QueueType /\ IsList(z, <<n>>) /\ linked \in QueueType /\ IsList(linked, <<>>)
  <2>1. z = [type |-> "queue", head |-> n, tail |-> n, next |-> f] /\ q.head = NoData /\ q.tail = NoData
    BY <1>1, <1>6, <1>16
  <2>2. z \in QueueType /\ linked \in QueueType
    BY <1>1, <1>2, <1>3, <2>1 DEF QueueType
  <2>3. <<n>> \in Seq(Item) /\ Len(<<n>>) = 1 /\ <<n>>[1] = n /\ <<n>> # <<>> /\ NoDuplicates(<<n>>)
    BY DEF NoDuplicates
  <2>4. IsList(z, <<n>>)
    BY <1>3, <2>1, <2>3 DEF IsList, IsChain
  <2>5. IsList(linked, <<>>)
    BY <1>1, <1>2, <2>1 DEF IsList, IsChain, NoDuplicates
  <2> QED
    BY <2>2, <2>4, <2>5
<1> QED
  BY <1>15, <1>16 DEF y, r

\* sys_sflist_remove(): with the node unlinked the rest can be found from the
\* head, and with the tail put right it is a list again.
LEMMA RemovedList ==
  ASSUME NEW q \in QueueType, NEW l, IsList(q, l), NEW p \in 1 .. Len(l), NEW n, n = l[p],
         NEW prev, prev = (IF p = 1 THEN NoData ELSE l[p - 1]),
         NEW x, x = Unlinked(q, prev, n), NEW y, y = Settled(x, prev, n)
  PROVE  /\ n \in Item /\ x \in QueueType /\ y \in QueueType
         /\ IsChain(x, RemoveAt(l, p)) /\ IsList(y, RemoveAt(l, p)) /\ n \notin ToSet(RemoveAt(l, p))
<1> DEFINE m == Len(l)
           after == q.next[n]
           r == RemoveAt(l, p)
<1>1. /\ m \in Nat /\ l \in Seq(Item) /\ NoData \notin Item
      /\ \A i \in 1 .. m : l[i] \in Item
      /\ \A i, j \in 1 .. m : l[i] = l[j] => i = j
      /\ l = <<>> <=> m = 0
      /\ q.head = IF m = 0 THEN NoData ELSE l[1]
      /\ q.tail = IF m = 0 THEN NoData ELSE l[m]
      /\ \A i \in 1 .. m : q.next[l[i]] = IF i = m THEN NoData ELSE l[i + 1]
      /\ q.next \in [Item -> Item \cup {NoData}]
      /\ q.head \in Item \cup {NoData} /\ q.tail \in Item \cup {NoData}
  BY ListIndexed
<1>2. p \in 1 .. m /\ l[p] = n
  OBVIOUS
<1>3. /\ r \in Seq(Item) /\ Len(r) = m - 1
      /\ \A i \in 1 .. m - 1 : r[i] = IF i < p THEN l[i] ELSE l[i + 1]
  <2>1. l \in Seq(Item) /\ p \in 1 .. Len(l)
    BY <1>1, <1>2
  <2>2. /\ RemoveAt(l, p) \in Seq(Item) /\ Len(RemoveAt(l, p)) = Len(l) - 1
        /\ \A i \in 1 .. Len(l) - 1 : RemoveAt(l, p)[i] = IF i < p THEN l[i] ELSE l[i + 1]
    BY <2>1, RemoveAtIndexed, Zenon
  <2> QED
    BY <2>2, Zenon
<1>4. /\ p = 1 => x = [q EXCEPT !.head = after]
      /\ p # 1 => x = [q EXCEPT !.next[l[p - 1]] = after]
  <2>1. p # 1 => l[p - 1] # NoData
    BY <1>1, <1>2
  <2> QED
    BY <2>1 DEF Unlinked
<1> HIDE DEF r, m
<1>5. after = (IF p = m THEN NoData ELSE l[p + 1]) /\ after \in Item \cup {NoData} /\ n \in Item
  BY <1>1, <1>2
<1>6. q.tail = n <=> p = m
  BY <1>1, <1>2
<1>7. r = <<>> <=> m = 1
  BY <1>1, <1>2, <1>3
<1>s. \A i \in 1 .. m - 1 : \E c \in 1 .. m :
        r[i] = l[c] /\ c # p /\ i = IF c < p THEN c ELSE c - 1
  <2> SUFFICES ASSUME NEW i \in 1 .. m - 1
               PROVE  \E c \in 1 .. m : r[i] = l[c] /\ c # p /\ i = IF c < p THEN c ELSE c - 1
    OBVIOUS
  <2>1. CASE i < p
    <3>1. i \in 1 .. m /\ i # p
      BY <1>1, <1>2, <2>1
    <3> QED
      BY <1>3, <2>1, <3>1
  <2>2. CASE ~(i < p)
    <3>1. i + 1 \in 1 .. m /\ i + 1 # p /\ ~(i + 1 < p) /\ i = (i + 1) - 1
      BY <1>1, <1>2, <2>2
    <3>2. r[i] = l[i + 1]
      BY <1>3, <2>2
    <3> QED
      BY <3>1, <3>2
  <2> QED
    BY <2>1, <2>2
<1>8. NoDuplicates(r)
  <2>1. ASSUME NEW i \in 1 .. m - 1, NEW j \in 1 .. m - 1, r[i] = r[j]
        PROVE  i = j
    <3>1. PICK c \in 1 .. m : r[i] = l[c] /\ c # p /\ i = IF c < p THEN c ELSE c - 1
      BY <1>s
    <3>2. PICK d \in 1 .. m : r[j] = l[d] /\ d # p /\ j = IF d < p THEN d ELSE d - 1
      BY <1>s
    <3>3. c = d
      BY <1>1, <2>1, <3>1, <3>2
    <3> QED
      BY <3>1, <3>2, <3>3
  <2> QED
    BY <1>3, <2>1 DEF NoDuplicates
<1>9. ASSUME NEW h \in Item \cup {NoData}, NEW t \in Item \cup {NoData},
             NEW f \in [Item -> Item \cup {NoData}],
             y = [type |-> "queue", head |-> h, tail |-> t, next |-> f],
             h = IF m = 1 THEN NoData ELSE r[1],
             t = IF m = 1 THEN NoData ELSE r[m - 1],
             \A i \in 1 .. m - 1 : f[r[i]] = IF i = m - 1 THEN NoData ELSE r[i + 1]
      PROVE  y \in QueueType /\ IsList(y, r)
  <2>1. y \in QueueType /\ y.head = h /\ y.tail = t /\ y.next = f
    BY <1>9 DEF QueueType
  <2> QED
    BY <1>3, <1>7, <1>8, <1>9, <2>1 DEF IsList, IsChain
<1>n. \A i \in 1 .. m - 1 : r[i] # n
  <2> SUFFICES ASSUME NEW i \in 1 .. m - 1 PROVE r[i] # n
    OBVIOUS
  <2>1. PICK c \in 1 .. m : r[i] = l[c] /\ c # p
    BY <1>s
  <2> QED
    BY <1>1, <1>2, <2>1
<1>o. n \notin ToSet(r)
  BY <1>3, <1>n, ToSetIndexed
<1>10. CASE p = 1
  <2> DEFINE t == IF q.tail = n THEN after ELSE q.tail
             f == [q.next EXCEPT ![n] = NoData]
  <2>a. x = [type |-> "queue", head |-> after, tail |-> q.tail, next |-> q.next]
    BY <1>4, <1>10 DEF QueueType
  <2>b. x \in QueueType /\ x.head = after /\ x.tail = q.tail /\ x.next = q.next /\ prev = NoData
    BY <1>1, <1>5, <1>10, <2>a DEF QueueType
  <2>1. y = [type |-> "queue", head |-> after, tail |-> t, next |-> f]
    BY <2>a, <2>b DEF QueueType, Settled
  <2>2. f \in [Item -> Item \cup {NoData}] /\ \A i \in 2 .. m : f[l[i]] = q.next[l[i]]
    BY <1>1, <1>2, <1>5, <1>10
  <2>3. t = (IF m = 1 THEN NoData ELSE l[m]) /\ t \in Item \cup {NoData}
    BY <1>1, <1>2, <1>5, <1>6, <1>10
  <2> HIDE DEF t, f
  <2>4. \A i \in 1 .. m - 1 : i + 1 \in 2 .. m /\ r[i] = l[i + 1]
    BY <1>1, <1>3, <1>10
  <2>5. \A i \in 1 .. m - 1 : f[r[i]] = IF i = m - 1 THEN NoData ELSE r[i + 1]
    BY <1>1, <2>2, <2>4
  <2>6. after = (IF m = 1 THEN NoData ELSE r[1]) /\ t = (IF m = 1 THEN NoData ELSE r[m - 1])
    BY <1>1, <1>2, <1>5, <1>10, <2>3, <2>4
  <2>7. y \in QueueType /\ IsList(y, r)
    BY <1>5, <1>9, <2>1, <2>2, <2>3, <2>5, <2>6
  <2>8. \A i \in 1 .. m - 1 : x.next[r[i]] = IF i = m - 1 THEN NoData ELSE r[i + 1]
    <3>1. \A i \in 1 .. m - 1 : f[r[i]] = q.next[r[i]]
      BY <2>2, <2>4
    <3>2. \A i \in 1 .. m - 1 : f[r[i]] = (IF i = m - 1 THEN NoData ELSE r[i + 1])
      BY <2>5
    <3> QED
      BY <2>b, <3>1, <3>2, Zenon
  <2>9. IsChain(x, r)
    BY <1>3, <1>7, <1>8, <2>6, <2>8, <2>b DEF IsChain
  <2> QED
    BY <1>5, <1>o, <2>7, <2>9, <2>b DEF m, r
<1>11. CASE p # 1
  <2> DEFINE b == l[p - 1]
             t == IF q.tail = n THEN b ELSE q.tail
             g == [q.next EXCEPT ![b] = after]
             f == [g EXCEPT ![n] = NoData]
  <2>2. p - 1 \in 1 .. m /\ b \in Item /\ b # n /\ m # 1 /\ b # NoData /\ prev = b
    BY <1>1, <1>2, <1>11
  <2>a. x = [type |-> "queue", head |-> q.head, tail |-> q.tail, next |-> g]
    BY <1>4, <1>11 DEF QueueType
  <2>b. /\ x \in QueueType /\ x.head = q.head /\ x.tail = q.tail /\ x.next = g
        /\ g \in [Item -> Item \cup {NoData}]
    <3>1. g \in [Item -> Item \cup {NoData}]
      BY <1>1, <1>5
    <3> HIDE DEF g
    <3> QED
      BY <1>1, <2>a, <3>1 DEF QueueType
  <2>1. y = [type |-> "queue", head |-> q.head, tail |-> t, next |-> f]
    <3> HIDE DEF g
    <3>1. prev # NoData
      BY <2>2
    <3>2. y = [x EXCEPT !.tail = IF @ # n THEN @ ELSE b, !.next = [@ EXCEPT ![n] = NoData]]
      BY <2>2, <3>1 DEF Settled
    <3>3. x.tail = q.tail /\ x.next = g
      BY <2>b
    <3>4. y = [x EXCEPT !.tail = t, !.next = f]
      BY <3>2, <3>3
    <3> HIDE DEF t, f
    <3> QED
      BY <2>a, <2>b, <3>4 DEF QueueType
  <2>3. /\ f \in [Item -> Item \cup {NoData}] /\ f[b] = after
        /\ \A i \in 1 .. m : i # p /\ i # p - 1 => f[l[i]] = q.next[l[i]]
    BY <1>1, <1>2, <1>5, <2>2
  <2>4. t = IF p = m THEN b ELSE l[m]
    BY <1>1, <1>2, <1>6
  <2> HIDE DEF t, f
  <2>5. \A i \in 1 .. m - 1 : f[r[i]] = IF i = m - 1 THEN NoData ELSE r[i + 1]
    <3> SUFFICES ASSUME NEW i \in 1 .. m - 1
                 PROVE  f[r[i]] = IF i = m - 1 THEN NoData ELSE r[i + 1]
      OBVIOUS
    <3>1. CASE i < p - 1
      <4>1. /\ i \in 1 .. m /\ i + 1 \in 1 .. m - 1 /\ i # p /\ i # p - 1
            /\ i < p /\ i + 1 < p /\ i # m /\ i # m - 1
        BY <1>1, <1>2, <3>1
      <4>2. r[i] = l[i] /\ r[i + 1] = l[i + 1]
        BY <1>3, <4>1
      <4>3. f[l[i]] = q.next[l[i]] /\ q.next[l[i]] = l[i + 1]
        BY <1>1, <2>3, <4>1
      <4> QED
        BY <4>1, <4>2, <4>3
    <3>2. CASE i = p - 1
      BY <1>1, <1>2, <1>3, <1>5, <2>3, <3>2
    <3>3. CASE i > p - 1
      <4>1. r[i] = l[i + 1] /\ i + 1 \in 1 .. m /\ i + 1 # p /\ i + 1 # p - 1
        BY <1>1, <1>2, <1>3, <3>3
      <4>2. f[r[i]] = IF i + 1 = m THEN NoData ELSE l[i + 1 + 1]
        BY <1>1, <2>3, <4>1
      <4>3. i # m - 1 => r[i + 1] = l[i + 1 + 1]
        BY <1>1, <1>2, <1>3, <3>3
      <4> QED
        BY <1>1, <4>2, <4>3
    <3> QED
      BY <1>1, <1>2, <3>1, <3>2, <3>3
  <2>6. q.head = r[1] /\ t = r[m - 1]
    BY <1>1, <1>2, <1>3, <1>11, <2>2, <2>4
  <2>7. q.head \in Item \cup {NoData} /\ t \in Item \cup {NoData}
    BY <1>1, <1>2, <2>2, <2>4
  <2>8. y \in QueueType /\ IsList(y, r)
    BY <1>9, <2>1, <2>2, <2>3, <2>5, <2>6, <2>7
  <2>9. \A i \in 1 .. m - 1 : f[r[i]] = g[r[i]]
    <3>1. \A i \in 1 .. m - 1 : r[i] \in Item /\ r[i] # n
      BY <1>3, <1>n
    <3> HIDE DEF g
    <3> QED
      BY <2>b, <3>1 DEF f
  <2>10. IsChain(x, r)
    <3>1. \A i \in 1 .. m - 1 : x.next[r[i]] = IF i = m - 1 THEN NoData ELSE r[i + 1]
      BY <2>5, <2>9, <2>b
    <3>2. r # <<>>
      BY <1>1, <1>2, <1>7, <2>2
    <3> QED
      BY <1>3, <1>8, <2>6, <2>b, <3>1, <3>2 DEF IsChain
  <2> QED
    BY <1>5, <1>o, <2>8, <2>10, <2>b DEF m, r
<1> QED
  BY <1>10, <1>11

\* The walk of sys_sflist_find_and_remove() ends at n, behind the node before it.
LEMMA FoundInList ==
  ASSUME NEW l \in Seq(Item), QueueBuffer = l, NEW n \in ToSet(l)
  PROVE  \E p \in 1 .. Len(l) : l[p] = n /\ Before(n) = IF p = 1 THEN NoData ELSE l[p - 1]
<1>1. \E j \in 1 .. Len(l) : l[j] = n
  BY ToSetIndexed
<1>2. PICK p : p = CHOOSE j \in 1 .. Len(l) : l[j] = n
  OBVIOUS
<1>3. p \in 1 .. Len(l) /\ l[p] = n
  BY <1>1, <1>2
<1>4. Before(n) = IF p = 1 THEN NoData ELSE l[p - 1]
  BY <1>2 DEF Before
<1> QED
  BY <1>3, <1>4

\* A node that has left the list and has no successor stands for its end.
LEMMA InsertedAtEnd ==
  ASSUME NEW q \in QueueType, NEW l, IsList(q, l), NEW n \in Item, n \notin ToSet(l),
         NEW prev \in Item, q.next[prev] = NoData
  PROVE  Inserted(q, prev, n) = Inserted(q, q.tail, n)
<1> DEFINE new == [q EXCEPT !.next[n] = NoData]
           m == Len(l)
<1>1. /\ m \in Nat /\ NoData \notin Item /\ \A i \in 1 .. m : l[i] \in Item
      /\ q.head = IF m = 0 THEN NoData ELSE l[1]
      /\ q.tail = IF m = 0 THEN NoData ELSE l[m]
      /\ \A i \in 1 .. m : q.next[l[i]] = IF i = m THEN NoData ELSE l[i + 1]
      /\ q.next \in [Item -> Item \cup {NoData}]
  BY ListIndexed
<1>2. /\ new.next = [q.next EXCEPT ![n] = NoData] /\ new.head = q.head /\ new.tail = q.tail
      /\ new.next[prev] = NoData /\ new.next[n] = NoData
      /\ new = [type |-> "queue", head |-> q.head, tail |-> q.tail, next |-> new.next]
  BY <1>1 DEF QueueType
<1> HIDE DEF m, new
<1>3. prev # NoData
  BY <1>1
<1>4. Inserted(q, prev, n) = AppendedList(new, n, n)
  BY <1>2, <1>3 DEF Inserted, new
<1>5. CASE m = 0
  <2>1. new.tail = NoData /\ new.head = NoData /\ q.tail = NoData
    BY <1>1, <1>2, <1>5
  <2>2. Inserted(q, q.tail, n) = Prepended(new, n)
    BY <2>1 DEF Inserted, new
  <2>3. new.next \in [Item -> Item \cup {NoData}] /\ [new.next EXCEPT ![n] = NoData] = new.next
    <3>1. new.next \in [Item -> Item \cup {NoData}]
      BY <1>1, <1>2
    <3> QED
      BY <1>2, <3>1
  <2>4. PICK f : f = new.next
    OBVIOUS
  <2>5. new = [type |-> "queue", head |-> NoData, tail |-> NoData, next |-> f]
    BY <1>2, <2>1, <2>4
  <2>6. f \in [Item -> Item \cup {NoData}] /\ [f EXCEPT ![n] = NoData] = f
    BY <2>3, <2>4
  <2>7. Prepended(new, n) = [type |-> "queue", head |-> n, tail |-> n, next |-> f]
    <3>1. new \in QueueType /\ new.head = NoData /\ new.tail = NoData /\ new.next = f
      BY <2>5, <2>6 DEF QueueType
    <3>2. Prepended(new, n) = [new EXCEPT !.head = n, !.next = [f EXCEPT ![n] = NoData], !.tail = n]
      BY <3>1 DEF Prepended
    <3>3. Prepended(new, n) = [new EXCEPT !.head = n, !.next = f, !.tail = n]
      BY <2>6, <3>2
    <3> QED
      BY <3>1, <3>3 DEF QueueType
  <2>8. AppendedList(new, n, n) = [type |-> "queue", head |-> n, tail |-> n, next |-> f]
    BY <2>5 DEF AppendedList
  <2> QED
    BY <1>4, <2>2, <2>7, <2>8
<1>6. CASE m # 0
  <2>1. m \in 1 .. m
    BY <1>1, <1>6
  <2>2. q.tail = l[m] /\ q.tail \in Item /\ q.next[q.tail] = NoData
    BY <1>1, <1>6, <2>1
  <2>3. q.tail # NoData /\ new.next[q.tail] = NoData
    BY <1>1, <1>2, <2>2
  <2>4. Inserted(q, q.tail, n) = AppendedList(new, n, n)
    BY <2>3 DEF Inserted, new
  <2> QED
    BY <1>4, <2>4
<1> QED
  BY <1>5, <1>6

-----------------------------------------------------------------------------
(***************************************************************************)
(* What the steps do to the threads.                                       *)
(***************************************************************************)

\* Whoever waits is in the object's wait queue.
InLine == \A t \in Thread : Waits(k, t) => t \in ToSet(k.waitq[ObjectQ])

CallNames == {"out", "get", "put", "append", "remove", "settle"}

CallTypes ==
  /\ call \in [Thread -> CallNames]
  /\ swap_data \in [Thread -> Item \cup {NoData}]

Base == SchedInv /\ InLine /\ CallTypes

\* Thread t is in a call that may wait; every other call is as good as none.
Held(t) == call[t] \in {"get", "put"}

CallKept(t) == call'[t] = call[t] \/ (~Waits(k, t) /\ ~Held(t) /\ ~Held(t)')

\* An interrupt, or a thread that does not wait, makes the call.
Caller(isr) == isr \/ \E t \in Thread : Running(t) /\ ~Held(t)

\* Thread t is where it was.
Kept(t) ==
  /\ CallKept(t) /\ swap_data'[t] = swap_data[t]
  /\ Waits(k', t) <=> Waits(k, t)
  /\ Held(t) => k'.ret[t] = k.ret[t]

Others(S) == \A t \in Thread \ S : Kept(t)

\* The wait of t ends with a result and d in swap_data.
Ended(t, result, d) ==
  /\ Waits(k, t) /\ ~Waits(k', t) /\ k'.ret[t] = result
  /\ call'[t] = call[t] /\ swap_data'[t] = d

\* Thread t returns, or never will.
Left(t) == ~Waits(k', t) /\ call'[t] = "out" /\ swap_data'[t] = NoData

Began(t, name, d) ==
  /\ ~Waits(k, t) /\ call[t] = "out"
  /\ Waits(k', t) /\ k'.ret[t] = "EAGAIN" /\ call'[t] = name /\ swap_data'[t] = d

LEMMA BaseFacts ==
  ASSUME Base
  PROVE  /\ k \in KernelState /\ Inv(k) /\ DeadOk(k) /\ SwitchOk(k) /\ WaitQOk(k)
         /\ ObjectQ \in WaitQ /\ SchedInv
         /\ \A t \in Thread : Waits(k, t) <=> t \in ToSet(k.waitq[ObjectQ])
         /\ k.waitq[ObjectQ] \in Seq(Thread) /\ ToSet(k.waitq[ObjectQ]) \subseteq Thread
<1>1. k \in KernelState /\ Inv(k) /\ DeadOk(k) /\ SwitchOk(k) /\ WaitQOk(k) /\ ObjectQ \in WaitQ
  BY ObjectAssumption DEF Base, SchedInv, Inv
<1>2. k.waitq[ObjectQ] \in Seq(Thread)
  BY <1>1 DEF KernelState
<1> QED
  BY <1>1, <1>2, ToSetIndexed DEF Base, InLine, WaitQOk, Waits

\* The current thread does not wait.
LEMMA CurrentOutside ==
  ASSUME SchedInv, NEW t \in Thread, Running(t)
  PROVE  ~Waits(k, t)
  BY KernelAssumption DEF SchedInv, Inv, IsReady, Stopped, Waits, Running

\* Whatever begins, ends or keeps waits leaves the others in line.
LEMMA LineKept ==
  ASSUME Base, NEW u \in Thread,
         \/ WaitsKept(k, k') \/ WaitEnded(k, k', u)
         \/ ~Waits(k, u) /\ WaitBegun(k, k', u, ObjectQ)
  PROVE  InLine'
<1>1. k \in KernelState /\ WaitQOk(k) /\ ObjectQ \in WaitQ
  BY BaseFacts
<1>2. CASE WaitsKept(k, k')
  BY <1>2 DEF Base, InLine, WaitsKept
<1>3. CASE WaitEnded(k, k', u)
  <2>1. ToSet(k'.waitq[ObjectQ]) = ToSet(k.waitq[ObjectQ]) \ {u}
    BY <1>1, <1>3, EndedQueues
  <2> QED
    BY <1>3, <2>1 DEF Base, InLine, WaitEnded
<1>4. CASE ~Waits(k, u) /\ WaitBegun(k, k', u, ObjectQ)
  <2>1. ToSet(k'.waitq[ObjectQ]) = ToSet(k.waitq[ObjectQ]) \cup {u}
    BY <1>1, <1>4, BegunQueues
  <2> QED
    BY <1>4, <2>1 DEF Base, InLine, WaitBegun
<1> QED
  BY <1>2, <1>3, <1>4

\* The end of a call or of an interrupt.
LEMMA LeaveStep ==
  ASSUME NEW x, Inv(x), DeadOk(x), x.cur = k.cur, NEW isr \in BOOLEAN,
         Caller(isr), k' = Leave(isr, x)
  PROVE  /\ SchedInv' /\ WaitsKept(x, k')
         /\ \A t \in Thread : Held(t) \/ t # k.cur => k'.ret[t] = x.ret[t]
<1>1. x \in KernelState
  BY DEF Inv
<1>2. SchedInv'
  BY RescheduleStep DEF SchedInv, Leave
<1>3. WaitsKept(x, k') /\ RetKept(x, k', x.cur)
  BY <1>1, WaitsSwitches
<1>4. isr => k'.ret = x.ret
  BY <1>1, WaitsSwitches DEF Leave
<1> QED
  BY <1>2, <1>3, <1>4 DEF RetKept, Caller, Running

\* The first waiting thread becomes ready; whoever made the call may be out.
HandOver(isr, d) ==
  /\ k' = Leave(isr, WakeFirst(k, ObjectQ, "OK"))
  /\ swap_data' = [swap_data EXCEPT ![Waiter(k, ObjectQ)] = d]
  /\ call' \in [Thread -> CallNames] /\ \A t \in Thread : CallKept(t)

LEMMA HandIsOver ==
  ASSUME Base, NEW isr, NEW d, Hand(isr, d)
  PROVE  HandOver(isr, d)
  BY DEF Hand, HandOver, CallKept, Base, CallTypes

\* An item, or nothing, is handed to the first waiting thread.
LEMMA HandEffect ==
  ASSUME Base, HasWaiter(k, ObjectQ), NEW isr \in BOOLEAN, Caller(isr),
         NEW d \in Item \cup {NoData}, HandOver(isr, d), NEW u, u = Waiter(k, ObjectQ)
  PROVE  Base' /\ u \in Thread /\ Ended(u, "OK", d) /\ Others({u})
<1> DEFINE x == WakeFirst(k, ObjectQ, "OK")
<1>1. /\ k \in KernelState /\ Inv(k) /\ DeadOk(k) /\ ObjectQ \in WaitQ
      /\ call \in [Thread -> CallNames]
      /\ swap_data \in [Thread -> Item \cup {NoData}]
      /\ \A t \in Thread : Waits(k, t) <=> t \in ToSet(k.waitq[ObjectQ])
  BY BaseFacts DEF Base, CallTypes
<1>2. "OK" \in SwapValue
  BY DEF SwapValue
<1>3. u \in Thread /\ Waits(k, u) /\ u # k.cur
  BY <1>1, WaiterType
<1>4. /\ Inv(x) /\ DeadOk(x) /\ WaitEnded(k, x, u) /\ x.cur = k.cur
      /\ x.ret = [k.ret EXCEPT ![u] = "OK"]
  <2>1. x = WakeFirst(k, ObjectQ, "OK")
    OBVIOUS
  <2> HIDE DEF x
  <2> QED
    BY <1>1, <1>2, <2>1, WakeFirstStep
<1>5. /\ k' = Leave(isr, x) /\ swap_data' = [swap_data EXCEPT ![u] = d]
      /\ call' \in [Thread -> CallNames] /\ \A t \in Thread : CallKept(t)
  BY DEF HandOver
<1> HIDE DEF x
<1>6. /\ SchedInv' /\ WaitsKept(x, k')
      /\ \A t \in Thread : Held(t) \/ t # k.cur => k'.ret[t] = x.ret[t]
  BY <1>4, <1>5, LeaveStep
<1>7. WaitEnded(k, k', u)
  BY <1>4, <1>6, WaitsTrans
<1>8. InLine'
  BY <1>3, <1>7, LineKept
<1>9. CallTypes'
  BY <1>1, <1>5 DEF CallTypes
<1>10. \A t \in Thread : x.ret[t] = IF t = u THEN "OK" ELSE k.ret[t]
  BY <1>1, <1>4 DEF KernelState
<1>11. Ended(u, "OK", d)
  BY <1>1, <1>3, <1>5, <1>6, <1>7, <1>10 DEF Ended, WaitEnded, CallKept
<1>12. ASSUME NEW t \in Thread \ {u}
       PROVE  Kept(t)
  BY <1>1, <1>3, <1>5, <1>6, <1>7, <1>10, <1>12 DEF Kept, WaitEnded
<1> QED
  BY <1>3, <1>6, <1>8, <1>9, <1>11, <1>12 DEF Base, Others

\* Nothing happens to a wait, even if a call without one begins or ends.
LEMMA CallsEffect ==
  ASSUME Base, k' = k, swap_data' = swap_data, call' \in [Thread -> CallNames],
         \A t \in Thread : CallKept(t)
  PROVE  Base' /\ Others({})
  BY DEF Base, SchedInv, InLine, CallTypes, Others, Kept

LEMMA QuietEffect ==
  ASSUME Base, UNCHANGED <<k, waiting>>
  PROVE  Base' /\ Others({})
  BY CallsEffect DEF Base, CallTypes, CallKept, waiting

\* The current thread starts to wait.
LEMMA WaitInEffect ==
  ASSUME Base, NEW t \in Thread, NEW name \in {"get", "put"}, NEW d \in Item \cup {NoData},
         WaitIn(t, name, d)
  PROVE  Base' /\ Began(t, name, d) /\ Others({t})
<1>1. /\ k \in KernelState /\ Inv(k) /\ DeadOk(k) /\ ObjectQ \in WaitQ
      /\ call \in [Thread -> CallNames]
      /\ swap_data \in [Thread -> Item \cup {NoData}]
  BY BaseFacts DEF Base, CallTypes
<1>2. /\ Outside(t) /\ k.cur = t /\ call[t] = "out"
      /\ call' = [call EXCEPT ![t] = name] /\ swap_data' = [swap_data EXCEPT ![t] = d]
  BY DEF WaitIn, Outside, Running
<1>3. PICK forever \in BOOLEAN : k' = PendCurrent(k, ObjectQ, forever)
  BY DEF WaitIn
<1>4. /\ Inv(k') /\ DeadOk(k') /\ k'.cur = k'.cache
      /\ WaitBegun(k, k', t, ObjectQ) /\ RetKept(k, k', t) /\ k'.ret[t] = "EAGAIN"
  BY <1>1, <1>2, <1>3, PendCurrentStep
<1>5. SchedInv'
  BY <1>4 DEF SchedInv, SwitchOk
<1>6. ~Waits(k, t)
  BY <1>2, CurrentOutside DEF Base, Outside
<1>7. InLine'
  BY <1>4, <1>6, LineKept
<1>8. CallTypes'
  BY <1>1, <1>2 DEF CallTypes, CallNames
<1>9. Began(t, name, d)
  BY <1>1, <1>2, <1>4, <1>6 DEF Began, WaitBegun
<1>10. ASSUME NEW u \in Thread \ {t}
       PROVE  Kept(u)
  BY <1>1, <1>2, <1>4, <1>10 DEF Kept, WaitBegun, RetKept, CallKept
<1> QED
  BY <1>5, <1>7, <1>8, <1>9, <1>10 DEF Base, Others

\* A thread returns from its call.
LEMMA ReturnEffect ==
  ASSUME Base, NEW t \in Thread, NEW name \in {"get", "put"}, ReturnFrom(t, name)
  PROVE  Base' /\ ~Waits(k, t) /\ Left(t) /\ Others({t})
<1>1. /\ k \in KernelState /\ Inv(k) /\ DeadOk(k) /\ SwitchOk(k) /\ ObjectQ \in WaitQ
      /\ call \in [Thread -> CallNames]
      /\ swap_data \in [Thread -> Item \cup {NoData}]
  BY BaseFacts DEF Base, CallTypes
<1>2. /\ Running(t) /\ call' = [call EXCEPT ![t] = "out"]
      /\ swap_data' = [swap_data EXCEPT ![t] = NoData]
      /\ k' = [k EXCEPT !.ret[t] = "EAGAIN"]
  BY DEF ReturnFrom, Swapped
<1>3. ~Waits(k, t)
  BY <1>2, CurrentOutside DEF Base
<1>4. k' = [k EXCEPT !.ret = [k.ret EXCEPT ![t] = "EAGAIN"], !.slice = k.slice, !.tick = k.tick]
  BY <1>1, <1>2 DEF KernelState
<1>5. "EAGAIN" \in SwapValue
  BY DEF SwapValue
<1>6. [k.ret EXCEPT ![t] = "EAGAIN"] \in [Thread -> SwapValue] /\ k.slice \in Nat /\ k.tick \in BOOLEAN
  BY <1>1, <1>5 DEF KernelState
<1>7. Inv(k')
  BY <1>1, <1>4, <1>6, OtherFields
<1>8. /\ k'.st = k.st /\ k'.waitq = k.waitq /\ k'.prio = k.prio /\ k'.tmo = k.tmo
      /\ k'.tick = k.tick /\ k'.cur = k.cur /\ k'.cache = k.cache
      /\ \A u \in Thread \ {t} : k'.ret[u] = k.ret[u]
  BY <1>1, <1>2 DEF KernelState
<1>9. SchedInv'
  BY <1>1, <1>7, <1>8 DEF SchedInv, SwitchOk, DeadOk
<1>10. WaitsKept(k, k')
  BY <1>8 DEF WaitsKept, Waits
<1>11. InLine'
  BY <1>10, LineKept
<1>12. CallTypes'
  BY <1>1, <1>2 DEF CallTypes, CallNames
<1>13. Left(t)
  BY <1>1, <1>2, <1>3, <1>10 DEF Left, WaitsKept
<1>14. ASSUME NEW u \in Thread \ {t}
       PROVE  Kept(u)
  BY <1>1, <1>2, <1>8, <1>10, <1>14 DEF Kept, WaitsKept, CallKept
<1> QED
  BY <1>3, <1>9, <1>11, <1>12, <1>13, <1>14 DEF Base, Others

\* The clock, starts, yields and aborts: nothing happens to the waits, one
\* times out, or a thread is gone.
LEMMA ElsewhereEffect ==
  ASSUME Base, Elsewhere, Careful, Careful'
  PROVE  /\ Base'
         /\ \/ Others({})
            \/ \E u \in Thread : Others({u}) /\ (Ended(u, k.ret[u], swap_data[u]) \/ Left(u))
<1>1. /\ k \in KernelState /\ SchedInv
      /\ call \in [Thread -> CallNames]
      /\ swap_data \in [Thread -> Item \cup {NoData}]
  BY BaseFacts DEF Base, CallTypes
<1>2. ASSUME WaitsKept(k, k'), SchedInv', UNCHANGED waiting,
             \A t \in Thread : Held(t) => k'.ret[t] = k.ret[t]
      PROVE  Base' /\ Others({})
  <2>1. InLine'
    BY <1>2 DEF Base, InLine, WaitsKept
  <2>2. CallTypes' /\ \A t \in Thread : Kept(t)
    BY <1>1, <1>2 DEF CallTypes, waiting, Kept, WaitsKept, CallKept
  <2> QED
    BY <1>2, <2>1, <2>2 DEF Base, Others
<1>3. CASE (TickStart(k) \/ TickEnd \/ TickDequeue \/ \E t \in Thread : TickPick(t)) /\ UNCHANGED waiting
  BY <1>1, <1>2, <1>3, TickWaits
<1>4. ASSUME NEW t \in Thread, NEW u \in Thread, Outside(t), ThreadStart(t, u) \/ Yield(t),
             UNCHANGED waiting
      PROVE  Base' /\ Others({})
  <2>1. WaitsKept(k, k') /\ RetKept(k, k', t) /\ SchedInv'
    BY <1>1, <1>4, CallWaits
  <2> QED
    BY <1>2, <1>4, <2>1 DEF RetKept, Outside, Held
<1>5. ASSUME NEW u \in Thread, TickExpire(u), UNCHANGED waiting
      PROVE  Base' /\ (Others({}) \/ (Others({u}) /\ Ended(u, k.ret[u], swap_data[u])))
  <2>1. WaitEnded(k, k', u) /\ k'.ret = k.ret /\ SchedInv'
    BY <1>1, <1>5, ExpireWaits
  <2>2. InLine'
    BY <2>1, LineKept
  <2>3. CallTypes' /\ \A t \in Thread \ {u} : Kept(t)
    BY <1>1, <1>5, <2>1 DEF CallTypes, waiting, Kept, WaitEnded, CallKept
  <2>4. Kept(u) \/ Ended(u, k.ret[u], swap_data[u])
    BY <1>5, <2>1 DEF waiting, Kept, Ended, WaitEnded, CallKept
  <2> QED
    BY <2>1, <2>2, <2>3, <2>4 DEF Base, Others
<1>6. ASSUME NEW u \in Thread,
             IsrAbort(k, u) \/ \E t \in Thread : Outside(t) /\ ThreadAbort(t, u),
             call' = [call EXCEPT ![u] = "out"], swap_data' = [swap_data EXCEPT ![u] = NoData]
      PROVE  Base' /\ Others({u}) /\ Left(u)
  <2>1. IsrAbort(k, u) \/ \E t \in Thread : Running(t) /\ ThreadAbort(t, u)
    BY <1>6 DEF Outside
  <2>2. /\ WaitEnded(k, k', u) /\ RetKept(k, k', k.cur) /\ SchedInv'
        /\ IsrAbort(k, u) => k'.ret = k.ret
    BY <1>1, <2>1, AbortWaits
  <2>3. \A t \in Thread : Held(t) => k'.ret[t] = k.ret[t]
    BY <1>6, <2>2 DEF RetKept, Outside, Running, Held
  <2>4. InLine'
    BY <2>2, LineKept
  <2>5. CallTypes' /\ Left(u)
    BY <1>1, <1>6, <2>2 DEF CallTypes, CallNames, Left, WaitEnded
  <2>6. ASSUME NEW t \in Thread \ {u}
        PROVE  Kept(t)
    BY <1>1, <1>6, <2>2, <2>3, <2>6 DEF Kept, WaitEnded, CallKept
  <2> QED
    BY <2>2, <2>4, <2>5, <2>6 DEF Base, Others
<1> QED
  BY <1>3, <1>4, <1>5, <1>6 DEF Elsewhere, Tick

\* Waking the first thread of a wait queue takes it off the front.
LEMMA RemoveHead ==
  ASSUME NEW q \in Seq(Thread), q # <<>>, NoDuplicates(q), NEW r, r = PriqRemove(q, Head(q))
  PROVE  /\ r \in Seq(Thread) /\ Len(r) = Len(q) - 1
         /\ \A i \in 1 .. Len(q) - 1 : r[i] = q[i + 1]
<1>1. 1 \in 1 .. Len(q) /\ q[1] = Head(q) /\ Head(q) \in ToSet(q)
  BY ToSetIndexed
<1> DEFINE p == CHOOSE i \in 1 .. Len(q) : q[i] = Head(q)
<1>2. p \in 1 .. Len(q) /\ q[p] = q[1]
  BY <1>1
<1>3. p = 1
  BY <1>1, <1>2 DEF NoDuplicates
<1>4. r = RemoveAt(q, 1)
  BY <1>1, <1>3 DEF PriqRemove
<1>5. /\ RemoveAt(q, 1) \in Seq(Thread) /\ Len(RemoveAt(q, 1)) = Len(q) - 1
      /\ \A i \in 1 .. Len(q) - 1 : RemoveAt(q, 1)[i] = IF i < 1 THEN q[i] ELSE q[i + 1]
  BY <1>1, RemoveAtIndexed
<1> QED
  BY <1>1, <1>4, <1>5

Lined(x) == \A t \in Thread : Waits(x, t) => t \in ToSet(x.waitq[ObjectQ])

\* One thread after the other is woken.
LEMMA WakeNext ==
  ASSUME NEW x, Inv(x), DeadOk(x), Lined(x), HasWaiter(x, ObjectQ), NEW value \in SwapValue,
         NEW y, y = WakeFirst(x, ObjectQ, value), NEW u, u = Waiter(x, ObjectQ)
  PROVE  /\ Inv(y) /\ DeadOk(y) /\ Lined(y) /\ y.cur = x.cur
         /\ u \in Thread /\ Waits(x, u) /\ u # x.cur /\ u = x.waitq[ObjectQ][1]
         /\ \A t \in Thread : Waits(y, t) <=> t # u /\ Waits(x, t)
         /\ \A t \in Thread : y.ret[t] = IF t = u THEN value ELSE x.ret[t]
         /\ x.waitq[ObjectQ] \in Seq(Thread) /\ y.waitq[ObjectQ] \in Seq(Thread)
         /\ Len(y.waitq[ObjectQ]) = Len(x.waitq[ObjectQ]) - 1
         /\ \A i \in 1 .. Len(x.waitq[ObjectQ]) - 1 : y.waitq[ObjectQ][i] = x.waitq[ObjectQ][i + 1]
<1>1. ObjectQ \in WaitQ /\ x \in KernelState /\ WaitQOk(x)
  BY ObjectAssumption DEF Inv
<1>2. /\ u \in Thread /\ u \in ToSet(x.waitq[ObjectQ]) /\ Waits(x, u)
      /\ u # x.cur /\ u = x.waitq[ObjectQ][1]
  BY <1>1, WaiterType
<1>3. /\ Inv(y) /\ DeadOk(y) /\ WaitEnded(x, y, u) /\ y.cur = x.cur
      /\ y.ret = [x.ret EXCEPT ![u] = value]
  BY <1>1, WakeFirstStep
<1>4. \A t \in Thread : y.ret[t] = IF t = u THEN value ELSE x.ret[t]
  BY <1>1, <1>2, <1>3 DEF KernelState
<1>5. x.waitq[ObjectQ] \in Seq(Thread) /\ NoDuplicates(x.waitq[ObjectQ]) /\ x.waitq[ObjectQ] # <<>>
  BY <1>1 DEF KernelState, WaitQOk, HasWaiter
<1>6. y.waitq[ObjectQ] = PriqRemove(x.waitq[ObjectQ], Head(x.waitq[ObjectQ]))
  BY <1>1, <1>3 DEF WaitEnded, Waiter
<1>7. /\ y.waitq[ObjectQ] \in Seq(Thread)
      /\ Len(y.waitq[ObjectQ]) = Len(x.waitq[ObjectQ]) - 1
      /\ \A i \in 1 .. Len(x.waitq[ObjectQ]) - 1 : y.waitq[ObjectQ][i] = x.waitq[ObjectQ][i + 1]
  BY <1>5, <1>6, RemoveHead
<1>8. ToSet(y.waitq[ObjectQ]) = ToSet(x.waitq[ObjectQ]) \ {u}
  <2>1. \A t \in Thread : \A z : WaitEnded(x, z, t) =>
          ToSet(z.waitq[ObjectQ]) = ToSet(x.waitq[ObjectQ]) \ {t}
    BY <1>1, EndedQueues
  <2> QED
    BY <1>2, <1>3, <2>1
<1>9. \A t \in Thread : Waits(y, t) <=> t # u /\ Waits(x, t)
  BY <1>3 DEF WaitEnded
<1>10. Lined(y)
  BY <1>8, <1>9 DEF Lined
<1> QED
  BY <1>2, <1>3, <1>4, <1>5, <1>7, <1>9, <1>10

\* From a state in which some waits are over to the end of the call.
LEMMA LeaveEffect ==
  ASSUME Base, NEW x, Inv(x), DeadOk(x), Lined(x), x.cur = k.cur, NEW isr \in BOOLEAN,
         Caller(isr), k' = Leave(isr, x), CallTypes'
  PROVE  /\ Base'
         /\ \A t \in Thread : Waits(k', t) <=> Waits(x, t)
         /\ \A t \in Thread : Held(t) \/ t # k.cur => k'.ret[t] = x.ret[t]
<1>1. /\ SchedInv' /\ WaitsKept(x, k')
      /\ \A t \in Thread : Held(t) \/ t # k.cur => k'.ret[t] = x.ret[t]
  BY LeaveStep
<1>2. InLine'
  BY <1>1 DEF InLine, Lined, WaitsKept
<1> QED
  BY <1>1, <1>2 DEF Base, WaitsKept

\* Two items are handed to the first two waiting threads.
HandTwo(isr, u, v, m, n) ==
  /\ Len(k.waitq[ObjectQ]) >= 2 /\ u = k.waitq[ObjectQ][1] /\ v = k.waitq[ObjectQ][2]
  /\ k' = Leave(isr, WakeFirst(WakeFirst(k, ObjectQ, "OK"), ObjectQ, "OK"))
  /\ call' = call /\ swap_data' \in [Thread -> Item \cup {NoData}]
  /\ swap_data'[u] = m /\ (u # v => swap_data'[v] = n)
  /\ \A t \in Thread \ {u, v} : swap_data'[t] = swap_data[t]

LEMMA HandTwoEffect ==
  ASSUME Base, NEW isr \in BOOLEAN, Caller(isr),
         NEW m \in Item, NEW n \in Item, NEW u, NEW v, HandTwo(isr, u, v, m, n)
  PROVE  /\ Base' /\ u \in Thread /\ v \in Thread /\ u # v
         /\ Ended(u, "OK", m) /\ Ended(v, "OK", n) /\ Others({u, v})
<1>1. /\ Len(k.waitq[ObjectQ]) >= 2 /\ u = k.waitq[ObjectQ][1] /\ v = k.waitq[ObjectQ][2]
      /\ k' = Leave(isr, WakeFirst(WakeFirst(k, ObjectQ, "OK"), ObjectQ, "OK"))
      /\ call' = call /\ swap_data' \in [Thread -> Item \cup {NoData}]
      /\ swap_data'[u] = m /\ (u # v => swap_data'[v] = n)
      /\ \A t \in Thread \ {u, v} : swap_data'[t] = swap_data[t]
  BY DEF HandTwo
<1>2. PICK x : x = WakeFirst(k, ObjectQ, "OK")
  OBVIOUS
<1>3. PICK y : y = WakeFirst(x, ObjectQ, "OK")
  OBVIOUS
<1>4. /\ Inv(k) /\ DeadOk(k) /\ Lined(k) /\ k.waitq[ObjectQ] \in Seq(Thread)
      /\ call \in [Thread -> CallNames]
      /\ swap_data \in [Thread -> Item \cup {NoData}]
  BY BaseFacts DEF Base, CallTypes, InLine, Lined
<1>5. "OK" \in SwapValue
  BY DEF SwapValue
<1>6. HasWaiter(k, ObjectQ)
  BY <1>1, <1>4 DEF HasWaiter
<1>7. u = Waiter(k, ObjectQ)
  BY <1>1, <1>4, <1>6 DEF HasWaiter, Waiter
<1>8. /\ Inv(x) /\ DeadOk(x) /\ Lined(x) /\ x.cur = k.cur
      /\ u \in Thread /\ Waits(k, u) /\ u # k.cur
      /\ \A t \in Thread : Waits(x, t) <=> t # u /\ Waits(k, t)
      /\ \A t \in Thread : x.ret[t] = IF t = u THEN "OK" ELSE k.ret[t]
      /\ x.waitq[ObjectQ] \in Seq(Thread)
      /\ Len(x.waitq[ObjectQ]) = Len(k.waitq[ObjectQ]) - 1
      /\ \A i \in 1 .. Len(k.waitq[ObjectQ]) - 1 : x.waitq[ObjectQ][i] = k.waitq[ObjectQ][i + 1]
  BY <1>1, <1>4, <1>5, <1>6, <1>7, <1>2, WakeNext
<1>9. HasWaiter(x, ObjectQ) /\ x.waitq[ObjectQ][1] = v
  BY <1>1, <1>4, <1>8 DEF HasWaiter
<1>10. v = Waiter(x, ObjectQ)
  BY <1>1, <1>8, <1>9 DEF HasWaiter, Waiter
<1>11. /\ Inv(y) /\ DeadOk(y) /\ Lined(y) /\ y.cur = x.cur
       /\ v \in Thread /\ Waits(x, v) /\ v # x.cur
       /\ \A t \in Thread : Waits(y, t) <=> t # v /\ Waits(x, t)
       /\ \A t \in Thread : y.ret[t] = IF t = v THEN "OK" ELSE x.ret[t]
  BY <1>1, <1>5, <1>8, <1>9, <1>10, <1>3, WakeNext
<1>12. CallTypes'
  BY <1>1, <1>4 DEF CallTypes
<1>13. k' = Leave(isr, y)
  BY <1>1, <1>2, <1>3
<1>14. /\ Base'
       /\ \A t \in Thread : Waits(k', t) <=> Waits(y, t)
       /\ \A t \in Thread : Held(t) \/ t # k.cur => k'.ret[t] = y.ret[t]
  BY <1>1, <1>8, <1>11, <1>12, <1>13, LeaveEffect
<1>15. u # v
  BY <1>1, <1>8, <1>11
<1>16. /\ Waits(k, u) /\ ~Waits(k', u) /\ k'.ret[u] = "OK"
       /\ Waits(k, v) /\ ~Waits(k', v) /\ k'.ret[v] = "OK"
       /\ \A t \in Thread \ {u, v} : /\ Waits(k', t) <=> Waits(k, t)
                                     /\ Held(t) => k'.ret[t] = k.ret[t]
  BY <1>8, <1>11, <1>14, <1>15
<1>17. /\ call' = call /\ swap_data'[u] = m /\ swap_data'[v] = n
       /\ \A t \in Thread \ {u, v} : swap_data'[t] = swap_data[t]
  BY <1>1, <1>15
<1>18. Ended(u, "OK", m) /\ Ended(v, "OK", n)
  BY <1>16, <1>17 DEF Ended
<1>19. Others({u, v})
  BY <1>16, <1>17 DEF Others, Kept, CallKept
<1> QED
  BY <1>8, <1>11, <1>14, <1>15, <1>18, <1>19

\* The first i waiting threads have been woken.
Reached(x, i) ==
  /\ Inv(x) /\ DeadOk(x) /\ Lined(x) /\ x.cur = k.cur
  /\ x.waitq[ObjectQ] \in Seq(Thread) /\ Len(x.waitq[ObjectQ]) = Len(k.waitq[ObjectQ]) - i
  /\ \A t \in Thread : Waits(x, t) => Waits(k, t)
  /\ \A t \in Thread : ~Waits(x, t) => x.ret[t] = IF Waits(k, t) THEN "ENOMSG" ELSE k.ret[t]

LEMMA ReachedNext ==
  ASSUME NEW x, NEW i \in 1 .. Len(k.waitq[ObjectQ]), k.waitq[ObjectQ] \in Seq(Thread),
         Reached(x, i - 1), NEW y, y = WakeFirst(x, ObjectQ, "ENOMSG")
  PROVE  Reached(y, i)
<1>1. "ENOMSG" \in SwapValue
  BY DEF SwapValue
<1>2. Len(k.waitq[ObjectQ]) \in Nat
  OBVIOUS
<1>3. HasWaiter(x, ObjectQ)
  <2>1. Len(x.waitq[ObjectQ]) # 0
    BY <1>2 DEF Reached
  <2> QED
    BY <2>1 DEF HasWaiter, Reached
<1>4. PICK u : u = Waiter(x, ObjectQ)
  OBVIOUS
<1>5. Inv(x) /\ DeadOk(x) /\ Lined(x) /\ x.cur = k.cur
  BY DEF Reached
<1>6. Len(x.waitq[ObjectQ]) = Len(k.waitq[ObjectQ]) - (i - 1)
  BY DEF Reached
<1>7. /\ \A t \in Thread : Waits(x, t) => Waits(k, t)
      /\ \A t \in Thread : ~Waits(x, t) => x.ret[t] = IF Waits(k, t) THEN "ENOMSG" ELSE k.ret[t]
  BY DEF Reached
<1>8. /\ Inv(y) /\ DeadOk(y) /\ Lined(y) /\ y.cur = x.cur
      /\ u \in Thread /\ Waits(x, u)
      /\ \A t \in Thread : Waits(y, t) <=> t # u /\ Waits(x, t)
      /\ \A t \in Thread : y.ret[t] = IF t = u THEN "ENOMSG" ELSE x.ret[t]
      /\ y.waitq[ObjectQ] \in Seq(Thread)
      /\ Len(y.waitq[ObjectQ]) = Len(x.waitq[ObjectQ]) - 1
  BY <1>1, <1>3, <1>4, <1>5, WakeNext
<1>9. Len(y.waitq[ObjectQ]) = Len(x.waitq[ObjectQ]) - 1
  BY <1>8
<1>10. Len(y.waitq[ObjectQ]) = Len(k.waitq[ObjectQ]) - i
  <2>1. \A a, b : \A c \in Nat : b = c - (i - 1) /\ a = b - 1 => a = c - i
    OBVIOUS
  <2> QED
    BY <1>2, <1>6, <1>9, <2>1, Zenon
<1>11. \A t \in Thread : Waits(y, t) => Waits(k, t)
  BY <1>7, <1>8
<1>12. \A t \in Thread : ~Waits(y, t) => y.ret[t] = IF Waits(k, t) THEN "ENOMSG" ELSE k.ret[t]
  BY <1>7, <1>8
<1> QED
  BY <1>5, <1>8, <1>10, <1>11, <1>12 DEF Reached

\* The loop of k_msgq_purge() ends with nobody waiting.
LEMMA PurgeLoop ==
  ASSUME Base, NEW isr \in BOOLEAN, MsgqPurge(isr)
  PROVE  \E x : k' = Leave(isr, x) /\ Reached(x, Len(k.waitq[ObjectQ]))
<1> DEFINE n == Len(k.waitq[ObjectQ])
           Run(f, m) == [i \in 0 .. m |-> IF i = 0 THEN k ELSE WakeFirst(f[i - 1], ObjectQ, "ENOMSG")]
           woken == CHOOSE f : f = Run(f, n)
<1>1. k' = Leave(isr, woken[n])
  BY DEF MsgqPurge
<1>2. k.waitq[ObjectQ] \in Seq(Thread) /\ n \in Nat
  BY BaseFacts
<1> HIDE DEF n
<1>3. ASSUME NEW m \in 0 .. n
      PROVE  \E f : f = Run(f, m)
  <2> DEFINE S == {j \in 0 .. n : ~\E f : f = Run(f, j)}
  <2>1. SUFFICES ASSUME S # {} PROVE FALSE
    OBVIOUS
  <2>2. PICK j : j = Min(S)
    OBVIOUS
  <2>3. S \in SUBSET Nat
    BY <1>2
  <2>4. j \in S /\ \A i \in S : j <= i
    <3> HIDE DEF S
    <3> QED
      BY <2>1, <2>2, <2>3, MinIsLeast
  <2>5. j \in 0 .. n /\ j \in Int /\ ~\E f : f = Run(f, j)
    BY <1>2, <2>4
  <2>6. j # 0 => j - 1 \in 0 .. n /\ j - 1 \notin S
    <3>1. j \in Int /\ \A i \in S : j <= i
      BY <2>5, <2>4
    <3> HIDE DEF S
    <3>2. j - 1 \notin S
      BY <3>1
    <3> QED
      BY <1>2, <2>5, <3>2
  <2>7. j # 0 => \E f : f = Run(f, j - 1)
    BY <2>6
  <2> HIDE DEF S
  <2>8. CASE j = 0
    <3> DEFINE f == [i \in 0 .. 0 |-> k]
    <3>1. f = Run(f, 0)
      OBVIOUS
    <3> QED
      BY <2>5, <2>8, <3>1
  <2>9. CASE j # 0
    <3>1. PICK f : f = Run(f, j - 1)
      BY <2>7, <2>9
    <3> DEFINE W(x) == WakeFirst(x, ObjectQ, "ENOMSG")
               g == [i \in 0 .. j |-> IF i = j THEN W(f[j - 1]) ELSE f[i]]
    <3>2. ASSUME NEW i \in 0 .. j - 1
          PROVE  f[i] = IF i = 0 THEN k ELSE W(f[i - 1])
      BY <3>1, <3>2
    <3> HIDE DEF W
    <3>3. ASSUME NEW i \in 0 .. j
          PROVE  g[i] = IF i = 0 THEN k ELSE W(g[i - 1])
      <4>1. j \in Int /\ j >= 1
        BY <2>5, <2>9
      <4>2. CASE i = j
        <5>1. i - 1 \in 0 .. j /\ i - 1 # j
          BY <4>1, <4>2
        <5> QED
          BY <4>1, <4>2, <5>1
      <4>3. CASE i # j
        <5>1. i \in 0 .. j - 1 /\ g[i] = f[i]
          BY <4>1, <4>3
        <5>2. i # 0 => i - 1 \in 0 .. j /\ i - 1 # j
          BY <4>1, <4>3
        <5>3. i # 0 => g[i - 1] = f[i - 1]
          BY <5>2
        <5> QED
          BY <3>2, <5>1, <5>3
      <4> QED
        BY <4>2, <4>3
    <3>4. g = [i \in 0 .. j |-> IF i = 0 THEN k ELSE W(g[i - 1])]
      BY <3>3
    <3>5. g = Run(g, j)
      BY <3>4 DEF W
    <3> QED
      BY <2>5, <3>5
  <2> QED
    BY <2>8, <2>9
<1>4. woken = Run(woken, n)
  <2>1. n \in 0 .. n
    BY <1>2
  <2> QED
    BY <1>3, <2>1
<1> HIDE DEF woken
<1>5. \A i \in 0 .. n : woken[i] = IF i = 0 THEN k ELSE WakeFirst(woken[i - 1], ObjectQ, "ENOMSG")
  BY <1>4
<1>6. \A i \in 0 .. n : Reached(woken[i], i)
  <2> DEFINE S == {j \in 0 .. n : ~Reached(woken[j], j)}
  <2>1. SUFFICES ASSUME S # {} PROVE FALSE
    OBVIOUS
  <2>2. PICK j : j = Min(S)
    OBVIOUS
  <2>3. S \in SUBSET Nat
    BY <1>2
  <2>4. j \in S /\ \A i \in S : j <= i
    <3> HIDE DEF S
    <3> QED
      BY <2>1, <2>2, <2>3, MinIsLeast
  <2>5. j \in 0 .. n /\ j \in Int /\ ~Reached(woken[j], j)
    BY <1>2, <2>4
  <2>6. j # 0 => j - 1 \in 0 .. n /\ j - 1 \notin S /\ j \in 1 .. n
    BY <1>2, <2>4, <2>5
  <2>7. j # 0 => Reached(woken[j - 1], j - 1)
    BY <2>6
  <2> HIDE DEF S
  <2>8. CASE j = 0
    <3>1. woken[j] = k
      BY <1>5, <2>5, <2>8
    <3>2. Inv(k) /\ DeadOk(k) /\ Lined(k)
      BY BaseFacts DEF Base, InLine, Lined
    <3>3. Len(k.waitq[ObjectQ]) = Len(k.waitq[ObjectQ]) - j
      BY <1>2, <2>8
    <3>4. \A t \in Thread : ~Waits(k, t) => k.ret[t] = IF Waits(k, t) THEN "ENOMSG" ELSE k.ret[t]
      OBVIOUS
    <3>5. Reached(k, j)
      BY <1>2, <3>2, <3>3, <3>4 DEF Reached
    <3> QED
      BY <2>5, <3>1, <3>5
  <2>9. CASE j # 0
    <3>1. woken[j] = WakeFirst(woken[j - 1], ObjectQ, "ENOMSG")
      BY <1>5, <2>5, <2>9
    <3>2. Reached(woken[j], j)
      BY <1>2, <2>6, <2>7, <2>9, <3>1, ReachedNext DEF n
    <3> QED
      BY <2>5, <3>2
  <2> QED
    BY <2>8, <2>9
<1>7. Reached(woken[n], n)
  BY <1>2, <1>6
<1> QED
  BY <1>1, <1>7 DEF n

\* All waiting threads are told that there is no message.
LEMMA PurgeEffect ==
  ASSUME Base, NEW isr \in BOOLEAN, Caller(isr), MsgqPurge(isr)
  PROVE  /\ Base'
         /\ \A t \in Thread : \/ Waits(k, t) /\ Ended(t, "ENOMSG", swap_data[t])
                              \/ ~Waits(k, t) /\ Kept(t)
<1>1. PICK x : k' = Leave(isr, x) /\ Reached(x, Len(k.waitq[ObjectQ]))
  BY PurgeLoop
<1>2. call' = call /\ swap_data' = swap_data
  BY DEF MsgqPurge, waiting
<1>3. /\ k.waitq[ObjectQ] \in Seq(Thread) /\ Inv(k) /\ CallTypes
      /\ Inv(x) /\ DeadOk(x) /\ Lined(x) /\ x.cur = k.cur
      /\ x.waitq[ObjectQ] \in Seq(Thread)
      /\ Len(x.waitq[ObjectQ]) = Len(k.waitq[ObjectQ]) - Len(k.waitq[ObjectQ])
      /\ \A t \in Thread : ~Waits(x, t) => x.ret[t] = IF Waits(k, t) THEN "ENOMSG" ELSE k.ret[t]
  BY <1>1, BaseFacts DEF Reached, Base
<1>4. \A t \in Thread : ~Waits(x, t)
  <2>1. Len(x.waitq[ObjectQ]) = 0
    BY <1>3
  <2>2. ToSet(x.waitq[ObjectQ]) = {}
    BY <1>3, <2>1, ToSetIndexed
  <2> QED
    BY <1>3, <2>2 DEF Lined
<1>5. CallTypes'
  BY <1>2, <1>3 DEF CallTypes
<1>6. /\ Base'
      /\ \A t \in Thread : Waits(k', t) <=> Waits(x, t)
      /\ \A t \in Thread : Held(t) \/ t # k.cur => k'.ret[t] = x.ret[t]
  BY <1>1, <1>3, <1>5, LeaveEffect
<1>7. ASSUME NEW t \in Thread, Waits(k, t)
      PROVE  Ended(t, "ENOMSG", swap_data[t]) /\ t # k.cur
  <2>1. t # k.cur
    BY <1>3, <1>7, KernelAssumption DEF Inv, IsReady, Stopped, Waits
  <2> QED
    BY <1>2, <1>3, <1>4, <1>6, <1>7, <2>1 DEF Ended
<1>8. ASSUME NEW t \in Thread, ~Waits(k, t)
      PROVE  Kept(t)
  BY <1>2, <1>3, <1>4, <1>6, <1>8 DEF Kept, CallKept
<1> QED
  BY <1>6, <1>7, <1>8

-----------------------------------------------------------------------------
(***************************************************************************)
(* The objects, and what they hold.                                        *)
(***************************************************************************)

Wrapped(p) == IF p < MaxItems THEN p ELSE p - MaxItems

\* The messages are in the used slots from read on, up to write.
Ring(q) == [i \in 1 .. q.used |-> q.slot[Wrapped(q.read + i - 1)]]

RingOk(q) ==
  /\ q \in MsgqType
  /\ q.write = Wrapped(q.read + q.used)
  /\ \A i \in 1 .. q.used : q.slot[Wrapped(q.read + i - 1)] \in Item

MsgqOk == RingOk(obj)

StackOk == obj \in [type: {"stack"}, word: Seq(Item)] /\ Len(obj.word) <= MaxItems

SlabOk ==
  /\ obj \in [type: {"slab"}, free: Seq(Item), used: 0 .. Cardinality(Item)]
  /\ NoDuplicates(obj.free) /\ obj.used + Len(obj.free) = Cardinality(Item)

QueueOk == obj \in QueueType /\ \E l : IsChain(obj, l)

ObjectOk == MsgqOk \/ StackOk \/ SlabOk \/ QueueOk

LEMMA SeqFromFunction ==
  ASSUME NEW T, NEW n \in Nat, NEW f \in [1 .. n -> T]
  PROVE  f \in Seq(T) /\ Len(f) = n
  OBVIOUS

LEMMA RingHolds ==
  ASSUME NEW q, RingOk(q)
  PROVE  /\ q.type = "msgq" /\ q.used \in Nat /\ Ring(q) \in Seq(Item) /\ Len(Ring(q)) = q.used
         /\ \A i \in 1 .. q.used : Ring(q)[i] = q.slot[Wrapped(q.read + i - 1)]
<1>1. q.type = "msgq" /\ q.used \in Nat
  BY ObjectAssumption DEF RingOk, MsgqType
<1>2. Ring(q) \in [1 .. q.used -> Item]
  BY DEF Ring, RingOk
<1>3. Ring(q) \in Seq(Item) /\ Len(Ring(q)) = q.used
  BY <1>1, <1>2, SeqFromFunction
<1> QED
  BY <1>1, <1>3 DEF Ring

LEMMA MsgqHolds ==
  ASSUME MsgqOk
  PROVE  /\ obj.type = "msgq" /\ obj.used \in Nat /\ Buffer = Ring(obj)
         /\ Buffer \in Seq(Item) /\ Len(Buffer) = obj.used
         /\ Buffer = <<>> <=> obj.used = 0
<1>1. /\ obj.type = "msgq" /\ obj.used \in Nat /\ Ring(obj) \in Seq(Item)
      /\ Len(Ring(obj)) = obj.used
  BY RingHolds DEF MsgqOk
<1>2. Buffer = Ring(obj)
  BY <1>1 DEF Buffer, MsgqBuffer, Wrapped, Ring
<1> QED
  BY <1>1, <1>2

LEMMA MsgqHoldsRing ==
  ASSUME RingOk(obj')
  PROVE  MsgqOk' /\ Buffer' = Ring(obj')
<1>1. obj'.type = "msgq"
  BY RingHolds
<1> QED
  BY <1>1 DEF MsgqOk, RingOk, Buffer, MsgqBuffer, Wrapped, Ring

LEMMA StackHolds ==
  ASSUME StackOk
  PROVE  /\ obj.type = "stack" /\ Buffer \in Seq(Item) /\ Len(Buffer) = Len(obj.word)
         /\ Buffer = <<>> <=> obj.word = <<>>
         /\ obj.word \in Seq(Item)
         /\ \A i \in 1 .. Len(obj.word) : Buffer[i] = obj.word[(Len(obj.word) - i) + 1]
<1>1. obj.type = "stack" /\ obj.word \in Seq(Item) /\ Len(obj.word) \in Nat
  BY DEF StackOk
<1>2. Buffer = [i \in 1 .. Len(obj.word) |-> obj.word[(Len(obj.word) - i) + 1]]
  BY <1>1 DEF Buffer, Reverse
<1>3. Buffer \in [1 .. Len(obj.word) -> Item]
  BY <1>1, <1>2
<1>4. Buffer \in Seq(Item) /\ Len(Buffer) = Len(obj.word)
  BY <1>1, <1>3, SeqFromFunction
<1> QED
  BY <1>1, <1>2, <1>4

LEMMA SlabHolds ==
  ASSUME SlabOk
  PROVE  obj.type = "slab" /\ Buffer = obj.free /\ Buffer \in Seq(Item)
  BY DEF SlabOk, Buffer

\* A queue holds the list that its pointers make up.
HoldsItsList == \A l : obj \in QueueType /\ IsChain(obj, l) => Buffer = l

LEMMA ListIsBuffer == HoldsItsList
<1> SUFFICES ASSUME NEW l, obj \in QueueType, IsChain(obj, l) PROVE Buffer = l
  BY DEF HoldsItsList
<1>1. obj.type = "queue"
  BY DEF QueueType
<1> QED
  BY <1>1, WalkFindsList DEF Buffer

LEMMA QueueHolds ==
  ASSUME QueueOk
  PROVE  obj.type = "queue" /\ IsChain(obj, Buffer)
  BY ListIsBuffer DEF HoldsItsList, QueueOk, QueueType

\* The buffer of a queue is the list of its nodes, whichever list that is.
LEMMA QueueHoldsList ==
  ASSUME obj' \in QueueType, NEW r, IsChain(obj', r)
  PROVE  QueueOk' /\ Buffer' = r
<1>1. QueueOk'
  BY DEF QueueOk, IsList, IsChain
<1>2. HoldsItsList'
  BY ListIsBuffer, PTL
<1>3. obj' \in QueueType /\ IsChain(obj', r) => Buffer' = r
  BY <1>2 DEF HoldsItsList, IsList, IsChain
<1> QED
  BY <1>1, <1>3

LEMMA ObjectHolds ==
  ASSUME ObjectOk
  PROVE  Buffer \in Seq(Item) /\ Len(Buffer) \in Nat
<1>1. Buffer \in Seq(Item)
  BY MsgqHolds, StackHolds, SlabHolds, QueueHolds DEF ObjectOk, IsList, IsChain
<1> QED
  BY <1>1

\* An object that stays as it is holds what it held.
LEMMA BufferSame ==
  ASSUME obj' = obj, ObjectOk
  PROVE  Buffer' = Buffer /\ ObjectOk' /\ Rule' = Rule
<1>1. ASSUME QueueOk PROVE Buffer' = Buffer
  <2>1. obj \in QueueType /\ IsChain(obj, Buffer)
    BY <1>1, QueueHolds DEF QueueOk
  <2>2. obj' \in QueueType /\ IsChain(obj', Buffer)
    BY <2>1
  <2> QED
    BY <2>2, QueueHoldsList
<1>2. ASSUME ~QueueOk PROVE Buffer' = Buffer
  <2>1. MsgqBuffer' = MsgqBuffer /\ Reverse(obj'.word) = Reverse(obj.word)
    BY DEF MsgqBuffer
  <2>2. obj.type \in {"msgq", "stack", "slab"}
    BY <1>2 DEF ObjectOk, MsgqOk, RingOk, MsgqType, StackOk, SlabOk
  <2> QED
    BY <2>1, <2>2 DEF Buffer
<1>3. ObjectOk'
  BY DEF ObjectOk, MsgqOk, RingOk, StackOk, SlabOk, QueueOk, IsList, IsChain
<1> QED
  BY <1>1, <1>2, <1>3 DEF Rule

LEMMA OneMore ==
  ASSUME NEW B \in Seq(Item), NEW C \in Seq(Item), Len(C) = Len(B) + 1, NEW p \in 1 .. Len(B) + 1,
         \A i \in 1 .. Len(B) : B[i] = IF i < p THEN C[i] ELSE C[i + 1]
  PROVE  RemoveAt(C, p) = B
<1>1. Len(B) \in Nat /\ Len(C) - 1 = Len(B) /\ p \in 1 .. Len(C)
  OBVIOUS
<1>2. /\ RemoveAt(C, p) \in Seq(Item) /\ Len(RemoveAt(C, p)) = Len(C) - 1
      /\ \A i \in 1 .. Len(C) - 1 : RemoveAt(C, p)[i] = IF i < p THEN C[i] ELSE C[i + 1]
  BY <1>1, RemoveAtIndexed
<1>3. Len(RemoveAt(C, p)) = Len(B) /\ \A i \in 1 .. Len(B) : RemoveAt(C, p)[i] = B[i]
  BY <1>1, <1>2
<1> QED
  BY <1>2, <1>3, SeqEqual

LEMMA OneLess ==
  ASSUME NEW B \in Seq(Item), NEW C \in Seq(Item), Len(B) = Len(C) + 1,
         \A i \in 1 .. Len(C) : C[i] = B[i + 1]
  PROVE  B # <<>> /\ C = Tail(B)
<1>1. B # <<>> /\ Len(C) \in Nat
  OBVIOUS
<1>2. /\ Tail(B) \in Seq(Item) /\ Len(Tail(B)) = Len(C)
      /\ \A i \in 1 .. Len(C) : Tail(B)[i] = B[i + 1]
  BY <1>1, HeadTailProperties
<1>3. \A i \in 1 .. Len(C) : C[i] = Tail(B)[i]
  BY <1>2
<1> QED
  BY <1>1, <1>2, <1>3, SeqEqual

-----------------------------------------------------------------------------
(***************************************************************************)
(* The invariant, and the steps as its proof and the refinement see them.  *)
(***************************************************************************)

\* A thread that waits has no result yet; a reader waits for an item, beside
\* an empty buffer, and a writer has one, beside a full buffer.
WaiterOk(t) ==
  /\ k.ret[t] = "EAGAIN"
  /\ \/ call[t] = "get" /\ swap_data[t] = NoData /\ Buffer = <<>>
     \/ call[t] = "put" /\ swap_data[t] \in Item /\ Len(Buffer) = MaxItems

\* A thread in k_queue_append() has an item that nobody else has; one in
\* k_queue_remove() has found its node and the one before it, or has unlinked
\* it, and what is still to be done will make the list whole.
ArgOk(t) ==
  /\ call[t] \in {"out", "get", "put"} => arg[t] = NoArg
  /\ call[t] = "append" =>
       /\ arg[t].data \in Item \ ToSet(Buffer)
       /\ \A u \in Thread : swap_data[u] # arg[t].data /\ (u # t => arg[u].data # arg[t].data)
  /\ call[t] = "remove" =>
       \E p \in 1 .. Len(Buffer) : /\ arg[t].data = Buffer[p]
                                   /\ arg[t].prev = IF p = 1 THEN NoData ELSE Buffer[p - 1]
  /\ call[t] = "settle" => IsList(Settled(obj, arg[t].prev, arg[t].data), Buffer)

Removes(t) == call[t] \in {"remove", "settle"}

ArgTypes == arg \in [Thread -> [prev: Item \cup {NoData}, data: Item \cup {NoData}]]

ArgsOk ==
  /\ ArgTypes
  /\ \A t \in Thread : ArgOk(t)
  /\ \A t \in Thread : call[t] \in {"append", "remove", "settle"} => obj.type = "queue"
  /\ \A t, u \in Thread : Removes(t) /\ Removes(u) => t = u
  /\ obj.type = "queue" /\ (\A t \in Thread : call[t] # "settle") => IsList(obj, Buffer)

ObjectsInv ==
  /\ Base
  /\ ObjectOk
  /\ ArgsOk
  /\ \A t \in Thread : call[t] = "put" => obj.type = "msgq"
  /\ \A t \in Thread : Waits(k, t) => WaiterOk(t)

NoneWaits == \A t \in Thread : ~Waits(k, t)

Places == CASE Rule.order = "fifo" -> {Len(Buffer) + 1}
            [] Rule.order = "lifo" -> {1}
            [] Rule.order = "any"  -> 1 .. Len(Buffer) + 1

\* A node or block that is put in is neither in the object nor in a thread's hands.
FreshItem(m) ==
  m \in Item /\ (Rule.unique => m \notin ToSet(Buffer) /\ \A t \in Thread : swap_data[t] # m)

Quiet == Others({}) /\ Buffer' = Buffer

PutIn ==
  /\ Others({}) /\ NoneWaits
  /\ Len(Buffer') = Len(Buffer) + 1 /\ Len(Buffer') <= Rule.capacity
  /\ \E p \in Places : RemoveAt(Buffer', p) = Buffer /\ FreshItem(Buffer'[p])

FreshPair(m, n) == FreshItem(m) /\ FreshItem(n) /\ m # n

PutPair ==
  /\ Others({}) /\ NoneWaits /\ Rule.order = "any"
  /\ \E m, n \in Item : FreshPair(m, n) /\ Buffer' = Buffer \o <<m, n>>

GotOut == Others({}) /\ NoneWaits /\ Buffer # <<>> /\ Buffer' = Tail(Buffer)

TookOut ==
  /\ Others({}) /\ NoneWaits /\ Rule.order = "any"
  /\ Len(Buffer) = Len(Buffer') + 1
  /\ \E p \in 1 .. Len(Buffer) : Buffer' = RemoveAt(Buffer, p)

\* A reader's wait ends with an item, or with none.
Handed(u) ==
  /\ call[u] = "get" /\ \E d \in Item \cup {NoData} : Ended(u, "OK", d) /\ (d = NoData \/ FreshItem(d))
  /\ Others({u}) /\ Buffer = <<>> /\ Buffer' = Buffer

\* Of two items the only reader gets the first, the other stays.
HandedOne(u) ==
  /\ call[u] = "get"
  /\ \E m, n \in Item : FreshPair(m, n) /\ Ended(u, "OK", m) /\ Buffer' = <<n>>
  /\ Others({u}) /\ \A t \in Thread \ {u} : ~Waits(k, t)
  /\ Rule.order = "any" /\ Buffer = <<>>

HandedTwo(u, v) ==
  /\ u # v /\ call[u] = "get" /\ call[v] = "get"
  /\ \E m, n \in Item : FreshPair(m, n) /\ Ended(u, "OK", m) /\ Ended(v, "OK", n)
  /\ Others({u, v}) /\ Rule.order = "any" /\ Buffer = <<>> /\ Buffer' = Buffer

\* A reader makes room for the item of a writer.
Refilled(u) ==
  /\ call[u] = "put" /\ Ended(u, "OK", NoData) /\ Others({u})
  /\ swap_data[u] \in Item /\ obj.type = "msgq" /\ Len(Buffer) = MaxItems
  /\ Buffer' = Append(Tail(Buffer), swap_data[u])

Purged ==
  /\ \A t \in Thread : \/ Waits(k, t) /\ Ended(t, "ENOMSG", swap_data[t])
                       \/ ~Waits(k, t) /\ Kept(t)
  /\ Buffer' = <<>>

Expired(u) == Ended(u, "EAGAIN", swap_data[u]) /\ Others({u}) /\ Buffer' = Buffer

Gone(u) == Left(u) /\ Others({u}) /\ Buffer' = Buffer

Entered(u) ==
  /\ \/ Began(u, "get", NoData) /\ Buffer = <<>>
     \/ (\E d \in Item : Began(u, "put", d)) /\ obj.type = "msgq" /\ Len(Buffer) = MaxItems
  /\ Others({u}) /\ Buffer' = Buffer

Effect ==
  \/ Quiet \/ PutIn \/ PutPair \/ GotOut \/ TookOut \/ Purged
  \/ \E u \in Thread : \/ Handed(u) \/ HandedOne(u) \/ Refilled(u)
                       \/ Expired(u) \/ Gone(u) \/ Entered(u)
                       \/ \E v \in Thread : HandedTwo(u, v)

\* Whatever the step, the waits that go on are as they have to be.
LEMMA WaitersKept ==
  ASSUME ObjectsInv, Effect, obj'.type = obj.type
  PROVE  /\ \A t \in Thread : call'[t] = "put" => obj'.type = "msgq"
         /\ \A t \in Thread : Waits(k', t) => WaiterOk(t)'
<1>1. /\ \A t \in Thread : call[t] = "put" => obj.type = "msgq"
      /\ \A t \in Thread : Waits(k, t) => WaiterOk(t)
      /\ Buffer \in Seq(Item) /\ MaxItems \in Nat \ {0}
  BY ObjectHolds, ObjectAssumption DEF ObjectsInv
<1>2. ASSUME NEW t \in Thread, Kept(t), Buffer' = Buffer \/ ~Waits(k, t)
                \/ (call[t] = "put" /\ Len(Buffer') = MaxItems)
      PROVE  /\ call'[t] = "put" => obj'.type = "msgq"
             /\ Waits(k', t) => WaiterOk(t)'
  <2>1. call'[t] = "put" => obj'.type = "msgq"
    BY <1>1, <1>2 DEF Kept, CallKept, Held
  <2>2. ASSUME Waits(k', t)
        PROVE  WaiterOk(t)'
    <3>1. Waits(k, t) /\ WaiterOk(t)
      BY <1>1, <1>2, <2>2 DEF Kept
    <3>2. call'[t] = call[t] /\ swap_data'[t] = swap_data[t] /\ k'.ret[t] = k.ret[t]
      BY <1>2, <3>1 DEF Kept, CallKept, Held, WaiterOk
    <3> QED
      BY <1>1, <1>2, <3>1, <3>2 DEF WaiterOk
  <2> QED
    BY <2>1, <2>2
<1>3. ASSUME NEW t \in Thread, NEW value, NEW d, Ended(t, value, d)
      PROVE  (call'[t] = "put" => obj'.type = "msgq") /\ ~Waits(k', t)
  BY <1>1, <1>3 DEF Ended
<1>4. ASSUME NEW t \in Thread, Left(t)
      PROVE  (call'[t] = "put" => obj'.type = "msgq") /\ ~Waits(k', t)
  BY <1>4 DEF Left
<1>5. ASSUME NEW t \in Thread, Entered(t)
      PROVE  (call'[t] = "put" => obj'.type = "msgq") /\ WaiterOk(t)'
  BY <1>5 DEF Entered, Began, WaiterOk
<1> SUFFICES ASSUME NEW t \in Thread
             PROVE  (call'[t] = "put" => obj'.type = "msgq") /\ (Waits(k', t) => WaiterOk(t)')
  OBVIOUS
<1>6. CASE Quiet \/ PutIn \/ PutPair \/ GotOut \/ TookOut
  BY <1>2, <1>6 DEF Quiet, PutIn, PutPair, GotOut, TookOut, Others, NoneWaits
<1>7. CASE Purged
  BY <1>2, <1>3, <1>7 DEF Purged
<1>8. ASSUME NEW u \in Thread, Handed(u) \/ HandedOne(u) \/ Expired(u)
      PROVE  (call'[t] = "put" => obj'.type = "msgq") /\ (Waits(k', t) => WaiterOk(t)')
  <2>1. CASE t = u
    BY <1>3, <1>8, <2>1 DEF Handed, HandedOne, Expired
  <2>2. CASE t # u
    BY <1>2, <1>8, <2>2 DEF Handed, HandedOne, Expired, Others
  <2> QED
    BY <2>1, <2>2
<1>9. ASSUME NEW u \in Thread, Gone(u) \/ Entered(u)
      PROVE  (call'[t] = "put" => obj'.type = "msgq") /\ (Waits(k', t) => WaiterOk(t)')
  <2>1. CASE t = u
    BY <1>4, <1>5, <1>9, <2>1 DEF Gone
  <2>2. CASE t # u
    BY <1>2, <1>9, <2>2 DEF Gone, Entered, Others
  <2> QED
    BY <2>1, <2>2
<1>10. ASSUME NEW u \in Thread, Refilled(u)
       PROVE  (call'[t] = "put" => obj'.type = "msgq") /\ (Waits(k', t) => WaiterOk(t)')
  <2>1. CASE t = u
    BY <1>3, <1>10, <2>1 DEF Refilled
  <2>2. CASE t # u
    <3>1. Buffer # <<>> /\ Len(Buffer) = MaxItems /\ swap_data[u] \in Item
      BY <1>1, <1>10 DEF Refilled
    <3>2. Tail(Buffer) \in Seq(Item) /\ Len(Tail(Buffer)) = MaxItems - 1
      BY <1>1, <3>1, HeadTailProperties
    <3>3. Len(Append(Tail(Buffer), swap_data[u])) = MaxItems - 1 + 1
      BY <3>1, <3>2, AppendProperties
    <3>4. Len(Buffer') = MaxItems
      BY <1>1, <1>10, <3>3 DEF Refilled
    <3>5. Waits(k, t) => call[t] = "put"
      BY <1>1, <3>1 DEF WaiterOk
    <3> QED
      BY <1>2, <1>10, <2>2, <3>4, <3>5 DEF Refilled, Others
  <2> QED
    BY <2>1, <2>2
<1>11. ASSUME NEW u \in Thread, NEW v \in Thread, HandedTwo(u, v)
       PROVE  (call'[t] = "put" => obj'.type = "msgq") /\ (Waits(k', t) => WaiterOk(t)')
  <2>1. CASE t \in {u, v}
    BY <1>3, <1>11, <2>1 DEF HandedTwo
  <2>2. CASE t \notin {u, v}
    BY <1>2, <1>11, <2>2 DEF HandedTwo, Others
  <2> QED
    BY <2>1, <2>2
<1> QED
  BY <1>6, <1>7, <1>8, <1>9, <1>10, <1>11 DEF Effect

-----------------------------------------------------------------------------
(***************************************************************************)
(* The steps the objects share.                                            *)
(***************************************************************************)

LEMMA NoWaiter ==
  ASSUME Base, ~HasWaiter(k, ObjectQ)
  PROVE  NoneWaits
<1>1. \A t \in Thread : Waits(k, t) <=> t \in ToSet(k.waitq[ObjectQ])
  BY BaseFacts
<1>2. ToSet(k.waitq[ObjectQ]) = {}
  BY DEF HasWaiter, ToSet
<1> QED
  BY <1>1, <1>2 DEF NoneWaits

\* Beside items in a buffer that is not full, or not a ring, nobody waits.
LEMMA NoneWaitsBeside ==
  ASSUME ObjectsInv, Buffer # <<>>, obj.type = "msgq" => Len(Buffer) # MaxItems
  PROVE  NoneWaits
  BY DEF ObjectsInv, WaiterOk, NoneWaits

LEMMA HandStep ==
  ASSUME ObjectsInv, HasWaiter(k, ObjectQ), NEW isr \in BOOLEAN,
         Caller(isr),
         NEW d \in Item \cup {NoData}, HandOver(isr, d), obj' = obj, d = NoData \/ FreshItem(d),
         obj.type = "msgq" => Len(Buffer) # MaxItems
  PROVE  Base' /\ \E u \in Thread : Handed(u)
<1>1. PICK u : u = Waiter(k, ObjectQ)
  OBVIOUS
<1>2. Base' /\ u \in Thread /\ Ended(u, "OK", d) /\ Others({u})
  BY <1>1, HandEffect DEF ObjectsInv
<1>3. WaiterOk(u) /\ (call[u] = "put" => obj.type = "msgq")
  BY <1>2 DEF ObjectsInv, Ended
<1>4. call[u] = "get" /\ Buffer = <<>>
  BY <1>3 DEF WaiterOk
<1>5. Buffer' = Buffer
  BY BufferSame DEF ObjectsInv
<1> QED
  BY <1>2, <1>4, <1>5 DEF Handed

LEMMA GiveStep ==
  ASSUME ObjectsInv, NEW isr \in BOOLEAN, Caller(isr),
         NEW d \in Item, NEW stored, Give(isr, d, stored), FreshItem(d),
         obj.type = "msgq" => Len(Buffer) # MaxItems
  PROVE  /\ Base'
         /\ \/ obj' = obj /\ \E u \in Thread : Handed(u)
            \/ obj' = stored /\ NoneWaits /\ Others({})
<1>1. CASE HasWaiter(k, ObjectQ)
  <2>1. Hand(isr, d) /\ obj' = obj
    BY <1>1 DEF Give
  <2>2. d \in Item \cup {NoData} /\ HandOver(isr, d)
    BY <2>1, HandIsOver DEF ObjectsInv
  <2>3. Base' /\ \E u \in Thread : Handed(u)
    BY <1>1, <2>1, <2>2, HandStep
  <2> QED
    BY <2>1, <2>3
<1>2. CASE ~HasWaiter(k, ObjectQ)
  <2>1. obj' = stored /\ UNCHANGED <<k, waiting>>
    BY <1>2 DEF Give
  <2>2. Base' /\ Others({})
    BY <2>1, QuietEffect DEF ObjectsInv
  <2>3. NoneWaits
    BY <1>2, NoWaiter DEF ObjectsInv
  <2> QED
    BY <2>1, <2>2, <2>3
<1> QED
  BY <1>1, <1>2

LEMMA WaitInStep ==
  ASSUME ObjectsInv, NEW t \in Thread,
         \/ WaitIn(t, "get", NoData) /\ Buffer = <<>>
         \/ /\ \E d \in Item : WaitIn(t, "put", d)
            /\ obj.type = "msgq" /\ Len(Buffer) = MaxItems
  PROVE  Base' /\ obj' = obj /\ Entered(t)
<1>1. obj' = obj /\ Buffer' = Buffer
  BY BufferSame DEF ObjectsInv, WaitIn
<1>2. CASE WaitIn(t, "get", NoData) /\ Buffer = <<>>
  <2>1. Base' /\ Began(t, "get", NoData) /\ Others({t})
    BY <1>2, WaitInEffect DEF ObjectsInv
  <2> QED
    BY <1>1, <1>2, <2>1 DEF Entered
<1>3. ASSUME NEW d \in Item, WaitIn(t, "put", d), obj.type = "msgq", Len(Buffer) = MaxItems
      PROVE  Base' /\ Entered(t)
  <2>1. Base' /\ Began(t, "put", d) /\ Others({t})
    BY <1>3, WaitInEffect DEF ObjectsInv
  <2> QED
    BY <1>1, <1>3, <2>1 DEF Entered
<1> QED
  BY <1>1, <1>2, <1>3

LEMMA ReturnStep ==
  ASSUME ObjectsInv, NEW t \in Thread, NEW name \in {"get", "put"}, ReturnFrom(t, name)
  PROVE  Base' /\ obj' = obj /\ Gone(t)
<1>1. obj' = obj /\ Buffer' = Buffer
  BY BufferSame DEF ObjectsInv, ReturnFrom
<1>2. Base' /\ Left(t) /\ Others({t})
  BY ReturnEffect DEF ObjectsInv
<1> QED
  BY <1>1, <1>2 DEF Gone

LEMMA ElsewhereStep ==
  ASSUME ObjectsInv, Elsewhere, Careful, Careful'
  PROVE  Base' /\ obj' = obj /\ Effect
<1>1. obj' = obj /\ Buffer' = Buffer
  BY BufferSame DEF ObjectsInv, Elsewhere
<1>2. /\ Base'
      /\ \/ Others({})
         \/ \E u \in Thread : Others({u}) /\ (Ended(u, k.ret[u], swap_data[u]) \/ Left(u))
  BY ElsewhereEffect DEF ObjectsInv
<1>3. CASE Others({})
  BY <1>1, <1>2, <1>3 DEF Effect, Quiet
<1>4. ASSUME NEW u \in Thread, Others({u}), Ended(u, k.ret[u], swap_data[u])
      PROVE  Effect
  <2>1. k.ret[u] = "EAGAIN"
    BY <1>4 DEF ObjectsInv, WaiterOk, Ended
  <2> QED
    BY <1>1, <1>4, <2>1 DEF Effect, Expired
<1>5. ASSUME NEW u \in Thread, Others({u}), Left(u)
      PROVE  Effect
  BY <1>1, <1>5 DEF Effect, Gone
<1> QED
  BY <1>1, <1>2, <1>3, <1>4, <1>5

-----------------------------------------------------------------------------
(***************************************************************************)
(* Stacks.                                                                 *)
(***************************************************************************)

LEMMA StackFrame ==
  ASSUME StackOk, obj' = obj
  PROVE  StackOk' /\ obj'.type = obj.type
  BY DEF StackOk

LEMMA StackPushed ==
  ASSUME StackOk, Len(obj.word) < MaxItems, NEW f \in Seq(Item), Len(f) = Len(obj.word) + 1,
         \A i \in 1 .. Len(obj.word) : f[i] = obj.word[i],
         obj' = [type |-> "stack", word |-> f], Others({}), NoneWaits
  PROVE  StackOk' /\ PutIn
<1> DEFINE w == obj.word
<1>1. /\ w \in Seq(Item) /\ Len(w) \in Nat /\ obj.type = "stack" /\ MaxItems \in Nat
      /\ Buffer \in Seq(Item) /\ Len(Buffer) = Len(w)
      /\ \A i \in 1 .. Len(w) : Buffer[i] = w[(Len(w) - i) + 1]
  BY StackHolds, ObjectAssumption
<1>2. /\ f \in Seq(Item) /\ Len(f) = Len(w) + 1 /\ Len(f) <= MaxItems
      /\ \A i \in 1 .. Len(w) : f[i] = w[i]
  BY <1>1
<1>3. StackOk' /\ obj'.word = f /\ obj'.type = "stack"
  BY <1>1, <1>2 DEF StackOk
<1>4. Buffer' = [i \in 1 .. Len(obj'.word) |-> obj'.word[(Len(obj'.word) - i) + 1]]
  BY <1>3 DEF Buffer, Reverse
<1>5. /\ Buffer' \in Seq(Item) /\ Len(Buffer') = Len(w) + 1
      /\ \A i \in 1 .. Len(w) + 1 : Buffer'[i] = f[(Len(w) + 1 - i) + 1]
  BY <1>1, <1>2, <1>3, <1>4, SeqFromFunction
<1>6. \A i \in 1 .. Len(Buffer) : Buffer[i] = IF i < 1 THEN Buffer'[i] ELSE Buffer'[i + 1]
  <2> SUFFICES ASSUME NEW i \in 1 .. Len(w) PROVE Buffer[i] = Buffer'[i + 1]
    BY <1>1
  <2>1. i + 1 \in 1 .. Len(w) + 1 /\ (Len(w) + 1 - (i + 1)) + 1 = (Len(w) - i) + 1
        /\ (Len(w) - i) + 1 \in 1 .. Len(w)
    <3>1. \A n \in Nat : \A j \in 1 .. n :
            j + 1 \in 1 .. n + 1 /\ (n + 1 - (j + 1)) + 1 = (n - j) + 1 /\ (n - j) + 1 \in 1 .. n
      OBVIOUS
    <3> QED
      BY <1>1, <3>1, Zenon
  <2> QED
    BY <1>1, <1>2, <1>5, <2>1
<1>7. Len(Buffer') = Len(Buffer) + 1 /\ 1 \in 1 .. Len(Buffer) + 1
  BY <1>1, <1>5
<1> HIDE DEF w
<1>8. RemoveAt(Buffer', 1) = Buffer
  BY <1>1, <1>5, <1>6, <1>7, OneMore
<1>9. Rule.order = "lifo" /\ Rule.capacity = MaxItems /\ ~Rule.unique
  BY <1>1 DEF Rule
<1>10. Len(Buffer') <= Rule.capacity
  BY <1>1, <1>5, <1>9 DEF w
<1>11. 1 \in Places
  BY <1>9 DEF Places
<1>12. 1 \in 1 .. Len(Buffer') /\ Buffer'[1] \in Item
  BY <1>1, <1>5, <1>7
<1>13. FreshItem(Buffer'[1])
  BY <1>9, <1>12 DEF FreshItem
<1> QED
  BY <1>3, <1>7, <1>8, <1>10, <1>11, <1>13 DEF PutIn

LEMMA StackPopped ==
  ASSUME StackOk, obj.word # <<>>, obj' = [obj EXCEPT !.word = Front(@)], Others({}), NoneWaits
  PROVE  StackOk' /\ GotOut
<1> DEFINE w == obj.word
           f == Front(w)
<1>1. /\ w \in Seq(Item) /\ Len(w) \in Nat \ {0} /\ obj.type = "stack" /\ MaxItems \in Nat
      /\ Len(w) <= MaxItems
      /\ Buffer \in Seq(Item) /\ Len(Buffer) = Len(w)
      /\ \A i \in 1 .. Len(w) : Buffer[i] = w[(Len(w) - i) + 1]
  BY StackHolds, ObjectAssumption DEF StackOk
<1>2. /\ f \in Seq(Item) /\ Len(f) = Len(w) - 1
      /\ \A i \in 1 .. Len(w) - 1 : f[i] = w[i]
  BY <1>1 DEF Front
<1>3. obj' = [type |-> "stack", word |-> f]
  BY DEF StackOk
<1> HIDE DEF f
<1>4. StackOk' /\ obj'.word = f /\ obj'.type = "stack"
  BY <1>1, <1>2, <1>3 DEF StackOk
<1>5. Buffer' = [i \in 1 .. Len(obj'.word) |-> obj'.word[(Len(obj'.word) - i) + 1]]
  BY <1>4 DEF Buffer, Reverse
<1>6. /\ Buffer' \in Seq(Item) /\ Len(Buffer') = Len(w) - 1
      /\ \A i \in 1 .. Len(w) - 1 : Buffer'[i] = f[(Len(w) - 1 - i) + 1]
  BY <1>1, <1>2, <1>4, <1>5, SeqFromFunction
<1>7. \A i \in 1 .. Len(Buffer') : Buffer'[i] = Buffer[i + 1]
  <2> SUFFICES ASSUME NEW i \in 1 .. Len(w) - 1 PROVE Buffer'[i] = Buffer[i + 1]
    BY <1>6
  <2>1. i + 1 \in 1 .. Len(w) /\ (Len(w) - 1 - i) + 1 = (Len(w) - (i + 1)) + 1
        /\ (Len(w) - 1 - i) + 1 \in 1 .. Len(w) - 1
    BY <1>1
  <2>2. Buffer'[i] = f[(Len(w) - 1 - i) + 1] /\ f[(Len(w) - 1 - i) + 1] = w[(Len(w) - 1 - i) + 1]
    BY <1>2, <1>6, <2>1
  <2>3. Buffer[i + 1] = w[(Len(w) - (i + 1)) + 1]
    BY <1>1, <2>1
  <2> QED
    BY <2>1, <2>2, <2>3
<1>8. Len(Buffer) = Len(Buffer') + 1
  BY <1>1, <1>6
<1>9. Buffer # <<>> /\ Buffer' = Tail(Buffer)
  BY <1>1, <1>6, <1>7, <1>8, OneLess
<1> QED
  BY <1>4, <1>9 DEF GotOut

LEMMA StackCallStep ==
  ASSUME ObjectsInv, StackOk, NEW isr \in BOOLEAN, Caller(isr),
         StackCalls(isr)
  PROVE  Base' /\ StackOk' /\ Effect
<1>1. obj.type = "stack"
  BY StackHolds
<1>2. CASE StackPop
  <2>1. UNCHANGED <<k, waiting>> /\ obj.word # <<>> /\ obj' = [obj EXCEPT !.word = Front(@)]
    BY <1>2 DEF StackPop
  <2>2. Base' /\ Others({})
    BY <2>1, QuietEffect DEF ObjectsInv
  <2>3. NoneWaits
    BY <1>1, <2>1, StackHolds, NoneWaitsBeside
  <2> QED
    BY <2>1, <2>2, <2>3, StackPopped DEF Effect
<1>3. ASSUME NEW d \in Item, StackPush(isr, d)
      PROVE  Base' /\ StackOk' /\ Effect
  <2> DEFINE stored == [obj EXCEPT !.word = Append(@, d)]
  <2>1. Len(obj.word) < MaxItems /\ Give(isr, d, stored) /\ FreshItem(d)
    BY <1>1, <1>3 DEF StackPush, FreshItem, Rule
  <2> HIDE DEF stored
  <2>2. /\ Base'
        /\ \/ obj' = obj /\ \E u \in Thread : Handed(u)
           \/ obj' = stored /\ NoneWaits /\ Others({})
    BY <1>1, <2>1, GiveStep
  <2>3. CASE obj' = obj /\ \E u \in Thread : Handed(u)
    BY <2>2, <2>3, StackFrame DEF Effect
  <2>4. CASE obj' = stored /\ NoneWaits /\ Others({})
    <3> DEFINE f == Append(obj.word, d)
    <3>1. obj.word \in Seq(Item)
      BY StackHolds
    <3>2. /\ f \in Seq(Item) /\ Len(f) = Len(obj.word) + 1
          /\ \A i \in 1 .. Len(obj.word) : f[i] = obj.word[i]
      BY <3>1, AppendProperties
    <3>3. obj' = [type |-> "stack", word |-> f]
      BY <2>4 DEF stored, StackOk
    <3> HIDE DEF f
    <3> QED
      BY <2>1, <2>2, <2>4, <3>2, <3>3, StackPushed DEF Effect
  <2> QED
    BY <2>2, <2>3, <2>4
<1> QED
  BY <1>2, <1>3 DEF StackCalls

LEMMA StackStep ==
  ASSUME ObjectsInv, StackOk, StackNext
  PROVE  Base' /\ StackOk' /\ Effect
<1>1. CASE StackCalls(TRUE)
  BY <1>1, StackCallStep DEF Caller
<1>2. ASSUME NEW t \in Thread, Outside(t), StackCalls(FALSE)
      PROVE  Base' /\ StackOk' /\ Effect
  BY <1>2, StackCallStep DEF Caller, Outside, Held
<1>3. ASSUME NEW t \in Thread, StackPopWait(t) \/ ReturnFrom(t, "get")
      PROVE  Base' /\ StackOk' /\ Effect
  <2>1. StackPopWait(t) => Base' /\ obj' = obj /\ Entered(t)
    BY StackHolds, WaitInStep DEF StackPopWait
  <2>2. ReturnFrom(t, "get") => Base' /\ obj' = obj /\ Gone(t)
    BY ReturnStep
  <2> QED
    BY <1>3, <2>1, <2>2, StackFrame DEF Effect
<1> QED
  BY <1>1, <1>2, <1>3 DEF StackNext

-----------------------------------------------------------------------------
(***************************************************************************)
(* Slabs.                                                                  *)
(***************************************************************************)

LEMMA SlabFrame ==
  ASSUME SlabOk, obj' = obj
  PROVE  SlabOk' /\ obj'.type = obj.type
  BY DEF SlabOk

LEMMA SlabFields ==
  ASSUME SlabOk
  PROVE  /\ obj.free \in Seq(Item) /\ Len(obj.free) \in Nat /\ Cardinality(Item) \in Nat
         /\ obj.used \in 0 .. Cardinality(Item) /\ obj.used + Len(obj.free) = Cardinality(Item)
         /\ NoDuplicates(obj.free) /\ obj.type = "slab" /\ Buffer = obj.free
         /\ Rule.order = "lifo" /\ Rule.capacity = Cardinality(Item)
<1>1. obj.type = "slab" /\ Buffer = obj.free
  BY SlabHolds
<1>2. Rule.order = "lifo" /\ Rule.capacity = Cardinality(Item)
  BY <1>1 DEF Rule
<1>3. Cardinality(Item) \in Nat
  BY FS_CardinalityType, ObjectAssumption
<1> QED
  BY <1>1, <1>2, <1>3 DEF SlabOk

\* A block that is freed becomes the first free one.
LEMMA SlabFreed ==
  ASSUME SlabOk, NEW b \in Item, b \notin ToSet(obj.free), FreshItem(b),
         NEW f \in Seq(Item), Len(f) = Len(obj.free) + 1, f[1] = b,
         \A i \in 1 .. Len(obj.free) : f[i + 1] = obj.free[i],
         obj' = [type |-> "slab", free |-> f, used |-> obj.used - 1], Others({}), NoneWaits
  PROVE  SlabOk' /\ PutIn
<1> DEFINE q == obj.free
           n == Len(q)
           c == Cardinality(Item)
<1>1. /\ q \in Seq(Item) /\ n \in Nat /\ c \in Nat /\ obj.used \in 0 .. c /\ obj.used + n = c
      /\ Buffer = q /\ Rule.order = "lifo" /\ Rule.capacity = c
  BY SlabFields
<1>2. /\ \A i, j \in 1 .. n : q[i] = q[j] => i = j
      /\ \A i \in 1 .. n : q[i] # b
  BY <1>1, SlabFields, ToSetIndexed DEF NoDuplicates
<1>3. Len(f) = n + 1 /\ \A i \in 2 .. n + 1 : i - 1 \in 1 .. n /\ f[i] = q[i - 1]
  <2>1. Len(f) = n + 1 /\ \A i \in 1 .. n : f[i + 1] = q[i]
    OBVIOUS
  <2> HIDE DEF n, q
  <2> QED
    BY <1>1, <2>1
<1> HIDE DEF q, n, c
<1>4. NoDuplicates(f)
  <2>1. ASSUME NEW i \in 1 .. n + 1, NEW j \in 1 .. n + 1, f[i] = f[j]
        PROVE  i = j
    <3>1. CASE i = 1 /\ j = 1
      BY <3>1
    <3>2. CASE i = 1 /\ j # 1
      <4>1. j \in 2 .. n + 1
        BY <1>1, <3>2
      <4> QED
        BY <1>2, <1>3, <2>1, <3>2, <4>1
    <3>3. CASE i # 1 /\ j = 1
      <4>1. i \in 2 .. n + 1
        BY <1>1, <3>3
      <4> QED
        BY <1>2, <1>3, <2>1, <3>3, <4>1
    <3>4. CASE i # 1 /\ j # 1
      <4>1. i \in 2 .. n + 1 /\ j \in 2 .. n + 1
        BY <1>1, <3>4
      <4>2. i - 1 = j - 1
        BY <1>2, <1>3, <2>1, <4>1
      <4> QED
        BY <1>1, <4>2
    <3> QED
      BY <3>1, <3>2, <3>3, <3>4
  <2> QED
    BY <1>3, <2>1 DEF NoDuplicates
<1>5. n + 1 <= c
  BY <1>3, <1>4, ListLength DEF c
<1>6. obj.used - 1 \in 0 .. c /\ obj.used - 1 + (n + 1) = c
  <2>1. obj.used \in Nat /\ c \in Nat /\ n \in Nat /\ obj.used + n = c
    BY <1>1
  <2>2. PICK x \in Nat, y \in Nat, z \in Nat : x = obj.used /\ y = n /\ z = c
    BY <2>1
  <2>3. x + y = z /\ y + 1 <= z
    BY <1>5, <2>1, <2>2
  <2>4. x - 1 \in 0 .. z /\ x - 1 + (y + 1) = z
    BY <2>3
  <2> QED
    BY <2>2, <2>4
<1>7. obj'.type = "slab" /\ obj'.free = f /\ obj'.used = obj.used - 1
  OBVIOUS
<1>8. SlabOk'
  BY <1>3, <1>4, <1>6, <1>7 DEF SlabOk, c
<1>9. Buffer' = f
  BY <1>7 DEF Buffer
<1>10. \A i \in 1 .. Len(q) : q[i] = IF i < 1 THEN f[i] ELSE f[i + 1]
  <2>1. \A i \in 1 .. n : i + 1 \in 2 .. n + 1 /\ (i + 1) - 1 = i
    BY <1>1
  <2> QED
    BY <1>3, <2>1 DEF n
<1>11. Len(f) = Len(q) + 1 /\ 1 \in 1 .. Len(q) + 1
  BY <1>1, <1>3 DEF n
<1>12. RemoveAt(f, 1) = q
  BY <1>1, <1>10, <1>11, OneMore
<1>13. 1 \in Places
  BY <1>1 DEF Places
<1> QED
  BY <1>1, <1>3, <1>5, <1>8, <1>9, <1>11, <1>12, <1>13 DEF PutIn

LEMMA SlabTaken ==
  ASSUME SlabOk, obj.free # <<>>, NEW f, f = Tail(obj.free),
         obj' = [type |-> "slab", free |-> f, used |-> obj.used + 1], Others({}), NoneWaits
  PROVE  SlabOk' /\ GotOut
<1> DEFINE q == obj.free
           n == Len(q)
           c == Cardinality(Item)
<1>1. /\ q \in Seq(Item) /\ n \in Nat /\ c \in Nat /\ obj.used \in 0 .. c /\ obj.used + n = c
      /\ Buffer = q /\ n # 0
      /\ \A i, j \in 1 .. n : q[i] = q[j] => i = j
  BY SlabFields DEF NoDuplicates
<1>2. f \in Seq(Item) /\ Len(f) = n - 1 /\ \A i \in 1 .. n - 1 : f[i] = q[i + 1]
  BY <1>1, HeadTailProperties
<1>3. obj'.type = "slab" /\ obj'.free = f /\ obj'.used = obj.used + 1
  OBVIOUS
<1> HIDE DEF q, n, c
<1>4. NoDuplicates(f)
  <2>1. \A i, j \in 1 .. n - 1 : f[i] = f[j] => i = j
    BY <1>1, <1>2
  <2> QED
    BY <1>2, <2>1 DEF NoDuplicates
<1>5. obj.used + 1 \in 0 .. c /\ obj.used + 1 + (n - 1) = c
  <2>1. \A x, y, z \in Nat : x + y = z /\ y # 0 => x + 1 \in 0 .. z /\ x + 1 + (y - 1) = z
    OBVIOUS
  <2>2. obj.used \in Nat
    BY <1>1
  <2> QED
    BY <1>1, <2>1, <2>2, Zenon
<1>6. SlabOk'
  BY <1>2, <1>3, <1>4, <1>5 DEF SlabOk, c
<1>7. Buffer' = f
  BY <1>3 DEF Buffer
<1> QED
  BY <1>1, <1>6, <1>7 DEF GotOut, q

LEMMA SlabCallStep ==
  ASSUME ObjectsInv, SlabOk, NEW isr \in BOOLEAN, Caller(isr),
         SlabCalls(isr)
  PROVE  Base' /\ SlabOk' /\ Effect
<1>1. obj.type = "slab" /\ Buffer = obj.free /\ obj.free \in Seq(Item)
  BY SlabFields
<1>2. CASE SlabAlloc
  <2> DEFINE f == Tail(obj.free)
  <2>1. /\ UNCHANGED <<k, waiting>> /\ obj.free # <<>>
        /\ obj' = [obj EXCEPT !.free = Tail(@), !.used = @ + 1]
    BY <1>2 DEF SlabAlloc
  <2>2. Base' /\ Others({})
    BY <2>1, QuietEffect DEF ObjectsInv
  <2>3. NoneWaits
    BY <1>1, <2>1, NoneWaitsBeside
  <2>4. obj' = [type |-> "slab", free |-> f, used |-> obj.used + 1]
    BY <2>1 DEF SlabOk
  <2> HIDE DEF f
  <2>5. f = Tail(obj.free)
    BY DEF f
  <2> QED
    BY <2>1, <2>2, <2>3, <2>4, <2>5, SlabTaken DEF Effect
<1>3. ASSUME NEW b \in Item, SlabFree(isr, b)
      PROVE  Base' /\ SlabOk' /\ Effect
  <2> DEFINE stored == [obj EXCEPT !.free = <<b>> \o @, !.used = @ - 1]
  <2>1. b \notin ToSet(obj.free) /\ Give(isr, b, stored) /\ FreshItem(b)
    BY <1>1, <1>3 DEF SlabFree, Allocated, FreshItem
  <2> HIDE DEF stored
  <2>2. /\ Base'
        /\ \/ obj' = obj /\ \E u \in Thread : Handed(u)
           \/ obj' = stored /\ NoneWaits /\ Others({})
    BY <1>1, <2>1, GiveStep
  <2>3. CASE obj' = obj /\ \E u \in Thread : Handed(u)
    BY <2>2, <2>3, SlabFrame DEF Effect
  <2>4. CASE obj' = stored /\ NoneWaits /\ Others({})
    <3> DEFINE f == <<b>> \o obj.free
    <3>1. /\ <<b>> \in Seq(Item) /\ Len(<<b>>) = 1 /\ <<b>>[1] = b
          /\ obj.free \in Seq(Item) /\ Len(obj.free) \in Nat
      BY <1>1
    <3>2. /\ f \in Seq(Item) /\ Len(f) = 1 + Len(obj.free)
          /\ \A i \in 1 .. 1 + Len(obj.free) :
               f[i] = IF i <= 1 THEN <<b>>[i] ELSE obj.free[i - 1]
      BY <3>1, ConcatProperties
    <3>3. obj' = [type |-> "slab", free |-> f, used |-> obj.used - 1]
      BY <2>4 DEF stored, SlabOk
    <3> HIDE DEF f
    <3>4. /\ Len(f) = Len(obj.free) + 1 /\ f[1] = b
          /\ \A i \in 1 .. Len(obj.free) : f[i + 1] = obj.free[i]
      <4> DEFINE n == Len(obj.free)
                 q == obj.free
      <4>1. /\ n \in Nat /\ Len(f) = 1 + n /\ <<b>>[1] = b
            /\ \A i \in 1 .. 1 + n : f[i] = IF i <= 1 THEN <<b>>[i] ELSE q[i - 1]
        BY <3>1, <3>2
      <4> HIDE DEF n, q
      <4>2. Len(f) = n + 1 /\ f[1] = b
        BY <4>1
      <4>3. ASSUME NEW i \in 1 .. n
            PROVE  f[i + 1] = q[i]
        <5>1. i + 1 \in 1 .. 1 + n /\ ~(i + 1 <= 1) /\ (i + 1) - 1 = i
          BY <4>1
        <5>2. f[i + 1] = IF i + 1 <= 1 THEN <<b>>[i + 1] ELSE q[(i + 1) - 1]
          BY <4>1, <5>1
        <5> QED
          BY <5>1, <5>2
      <4> QED
        BY <4>2, <4>3 DEF n, q
    <3> QED
      BY <2>1, <2>2, <2>4, <3>2, <3>3, <3>4, SlabFreed DEF Effect
  <2> QED
    BY <2>2, <2>3, <2>4
<1> QED
  BY <1>2, <1>3 DEF SlabCalls

LEMMA SlabStep ==
  ASSUME ObjectsInv, SlabOk, SlabNext
  PROVE  Base' /\ SlabOk' /\ Effect
<1>1. CASE SlabCalls(TRUE)
  BY <1>1, SlabCallStep DEF Caller
<1>2. ASSUME NEW t \in Thread, Outside(t), SlabCalls(FALSE)
      PROVE  Base' /\ SlabOk' /\ Effect
  BY <1>2, SlabCallStep DEF Caller, Outside, Held
<1>3. ASSUME NEW t \in Thread, SlabAllocWait(t) \/ ReturnFrom(t, "get")
      PROVE  Base' /\ SlabOk' /\ Effect
  <2>1. SlabAllocWait(t) => Base' /\ obj' = obj /\ Entered(t)
    BY SlabHolds, WaitInStep DEF SlabAllocWait
  <2>2. ReturnFrom(t, "get") => Base' /\ obj' = obj /\ Gone(t)
    BY ReturnStep
  <2> QED
    BY <1>3, <2>1, <2>2, SlabFrame DEF Effect
<1> QED
  BY <1>1, <1>2, <1>3 DEF SlabNext

-----------------------------------------------------------------------------
(***************************************************************************)
(* Queues.                                                                 *)
(***************************************************************************)

\* All that is new in the buffer and in the threads' hands comes from S.
Moved(S) ==
  /\ ToSet(Buffer') \subseteq ToSet(Buffer) \cup S
  /\ \A t \in Thread : swap_data'[t] \in {swap_data[t], NoData} \cup S

\* A step leaves the queue whole, and S is what it puts in.
Whole(S) == Base' /\ QueueOk' /\ Effect /\ IsList(obj', Buffer') /\ Moved(S)

LEMMA QueueFrame ==
  ASSUME QueueOk, obj' = obj
  PROVE  QueueOk' /\ obj'.type = obj.type /\ Buffer' = Buffer
<1>1. obj' \in QueueType /\ IsChain(obj', Buffer)
  BY QueueHolds DEF QueueOk
<1> QED
  BY <1>1, QueueHoldsList

LEMMA QueueFields ==
  ASSUME QueueOk
  PROVE  /\ obj \in QueueType /\ obj.type = "queue" /\ IsChain(obj, Buffer) /\ QueueBuffer = Buffer
         /\ Buffer \in Seq(Item) /\ NoDuplicates(Buffer) /\ Len(Buffer) \in Nat
         /\ Rule.order = "any" /\ Rule.capacity = Cardinality(Item)
         /\ NoData \notin Item /\ (obj.head = NoData <=> Buffer = <<>>)
<1>1. obj \in QueueType /\ obj.type = "queue" /\ IsChain(obj, Buffer)
  BY QueueHolds DEF QueueOk
<1>2. QueueBuffer = Buffer
  BY <1>1, WalkFindsList
<1>3. Rule.order = "any" /\ Rule.capacity = Cardinality(Item)
  BY <1>1 DEF Rule
<1>4. /\ Len(Buffer) \in Nat /\ Buffer \in Seq(Item) /\ NoDuplicates(Buffer) /\ NoData \notin Item
      /\ obj.head = IF Buffer = <<>> THEN NoData ELSE Buffer[1]
  BY <1>1, ObjectAssumption DEF IsChain
<1>5. Buffer # <<>> => Buffer[1] \in Item
  BY <1>4
<1>6. obj.head = NoData <=> Buffer = <<>>
  BY <1>4, <1>5
<1> QED
  BY <1>1, <1>2, <1>3, <1>4, <1>6

LEMMA QueueTail ==
  ASSUME QueueOk, IsList(obj, Buffer)
  PROVE  obj.tail \in ToSet(Buffer) \cup {NoData}
<1>1. Len(Buffer) \in Nat /\ Buffer \in Seq(Item)
      /\ obj.tail = IF Len(Buffer) = 0 THEN NoData ELSE Buffer[Len(Buffer)]
  BY QueueFields, ListIndexed
<1>2. Len(Buffer) # 0 => Len(Buffer) \in 1 .. Len(Buffer)
  BY <1>1
<1> QED
  BY <1>1, <1>2, ToSetIndexed

\* What is in a buffer that has gained n at place p, or lost what was there.
LEMMA SplicedSet ==
  ASSUME NEW l \in Seq(Item), NoDuplicates(l), NEW n \in Item, n \notin ToSet(l),
         NEW p \in 1 .. Len(l) + 1, NEW r, r = Spliced(l, p, n)
  PROVE  ToSet(r) \subseteq ToSet(l) \cup {n} /\ r[p] = n
<1>1. /\ r \in Seq(Item) /\ Len(r) = Len(l) + 1
      /\ \A i \in 1 .. Len(l) + 1 : r[i] = IF i < p THEN l[i] ELSE IF i = p THEN n ELSE l[i - 1]
  BY SplicedList
<1>2. ASSUME NEW i \in 1 .. Len(l) + 1
      PROVE  r[i] = n \/ \E j \in 1 .. Len(l) : l[j] = r[i]
  <2>1. (i < p => i \in 1 .. Len(l)) /\ (~(i < p) /\ i # p => i - 1 \in 1 .. Len(l))
    OBVIOUS
  <2> QED
    BY <1>1, <2>1
<1>3. \A x : x \in ToSet(r) <=> \E i \in 1 .. Len(l) + 1 : r[i] = x
  BY <1>1, ToSetIndexed
<1>4. \A x : x \in ToSet(l) <=> \E i \in 1 .. Len(l) : l[i] = x
  BY ToSetIndexed
<1>5. ToSet(r) \subseteq ToSet(l) \cup {n}
  BY <1>2, <1>3, <1>4
<1> QED
  BY <1>1, <1>5

LEMMA RemovedSet ==
  ASSUME NEW l \in Seq(Item), NEW p \in 1 .. Len(l)
  PROVE  ToSet(RemoveAt(l, p)) \subseteq ToSet(l)
<1> DEFINE r == RemoveAt(l, p)
           m == Len(l)
<1>1. /\ r \in Seq(Item) /\ Len(r) = m - 1
      /\ \A i \in 1 .. m - 1 : r[i] = IF i < p THEN l[i] ELSE l[i + 1]
  BY RemoveAtIndexed
<1>2. m \in Nat /\ p \in 1 .. m
  OBVIOUS
<1>3. \A x : x \in ToSet(l) <=> \E i \in 1 .. m : l[i] = x
  BY ToSetIndexed
<1> HIDE DEF r, m
<1>4. \A x : x \in ToSet(r) <=> \E i \in 1 .. m - 1 : r[i] = x
  BY <1>1, ToSetIndexed
<1>5. ASSUME NEW i \in 1 .. m - 1
      PROVE  \E j \in 1 .. m : l[j] = r[i]
  <2>1. i \in 1 .. m /\ i + 1 \in 1 .. m
    BY <1>2
  <2> QED
    BY <1>1, <2>1
<1> QED
  BY <1>3, <1>4, <1>5 DEF r

LEMMA TailSet ==
  ASSUME NEW l \in Seq(Item), l # <<>>
  PROVE  ToSet(Tail(l)) \subseteq ToSet(l)
<1> DEFINE r == Tail(l)
           m == Len(l)
<1>1. /\ r \in Seq(Item) /\ Len(r) = m - 1 /\ m \in Nat
      /\ \A i \in 1 .. m - 1 : r[i] = l[i + 1]
  BY HeadTailProperties
<1>2. \A x : x \in ToSet(l) <=> \E i \in 1 .. m : l[i] = x
  BY ToSetIndexed
<1> HIDE DEF r, m
<1>3. \A x : x \in ToSet(r) <=> \E i \in 1 .. m - 1 : r[i] = x
  BY <1>1, ToSetIndexed
<1>4. \A i \in 1 .. m - 1 : i + 1 \in 1 .. m
  BY <1>1
<1> QED
  BY <1>1, <1>2, <1>3, <1>4 DEF r

LEMMA PairSet ==
  ASSUME NEW l \in Seq(Item), NEW m \in Item, NEW n \in Item
  PROVE  ToSet(l \o <<m, n>>) \subseteq ToSet(l) \cup {m, n}
<1> DEFINE r == l \o <<m, n>>
           c == Len(l)
<1>1. /\ r \in Seq(Item) /\ Len(r) = c + 2 /\ c \in Nat
      /\ \A i \in 1 .. c : r[i] = l[i]
      /\ r[c + 1] = m /\ r[c + 2] = n
  OBVIOUS
<1>2. \A x : x \in ToSet(l) <=> \E i \in 1 .. c : l[i] = x
  BY ToSetIndexed
<1> HIDE DEF r, c
<1>3. \A x : x \in ToSet(r) <=> \E i \in 1 .. c + 2 : r[i] = x
  BY <1>1, ToSetIndexed
<1>4. \A i \in 1 .. c + 2 : i \in 1 .. c \/ i = c + 1 \/ i = c + 2
  BY <1>1
<1> QED
  BY <1>1, <1>2, <1>3, <1>4 DEF r

\* An item that is put in is in the list, at one place, among the others.
LEMMA QueuePutIn ==
  ASSUME QueueOk, IsList(obj, Buffer), NEW n \in Item, FreshItem(n),
         NEW prev \in ToSet(Buffer) \cup {NoData},
         obj' = Inserted(obj, prev, n), Others({}), NoneWaits
  PROVE  /\ QueueOk' /\ PutIn /\ n \in ToSet(Buffer') /\ IsList(obj', Buffer')
         /\ ToSet(Buffer') \subseteq ToSet(Buffer) \cup {n}
<1>1. /\ obj \in QueueType /\ Buffer \in Seq(Item) /\ NoDuplicates(Buffer) /\ obj.type = "queue"
      /\ Rule.order = "any" /\ Rule.capacity = Cardinality(Item) /\ Len(Buffer) \in Nat
  BY QueueFields
<1>2. n \notin ToSet(Buffer)
  BY <1>1 DEF FreshItem, Rule
<1>3. obj' \in QueueType /\ \E p \in 1 .. Len(Buffer) + 1 : IsList(obj', Spliced(Buffer, p, n))
  BY <1>1, <1>2, InsertedList
<1>4. PICK p \in 1 .. Len(Buffer) + 1 : IsList(obj', Spliced(Buffer, p, n))
  BY <1>3
<1>5. PICK r : r = Spliced(Buffer, p, n)
  OBVIOUS
<1>6. /\ r \in Seq(Item) /\ NoDuplicates(r) /\ Len(r) = Len(Buffer) + 1
      /\ RemoveAt(r, p) = Buffer /\ n \in ToSet(r)
  BY <1>1, <1>2, <1>5, SplicedList
<1>7. ToSet(r) \subseteq ToSet(Buffer) \cup {n} /\ r[p] = n
  BY <1>1, <1>2, <1>5, SplicedSet
<1>8. IsList(obj', r) /\ IsChain(obj', r)
  BY <1>4, <1>5 DEF IsList
<1>9. QueueOk' /\ Buffer' = r
  BY <1>3, <1>8, QueueHoldsList
<1>10. Len(r) <= Cardinality(Item)
  BY <1>6, ListLength
<1>11. p \in Places
  BY <1>1 DEF Places
<1>12. PutIn
  BY <1>1, <1>6, <1>7, <1>9, <1>10, <1>11 DEF PutIn
<1> QED
  BY <1>6, <1>7, <1>8, <1>9, <1>12

LEMMA UnlistedFresh ==
  ASSUME QueueOk, NEW n \in Unlisted
  PROVE  n \in Item /\ FreshItem(n) /\ n \notin ToSet(Buffer) /\ \A t \in Thread : arg[t].data # n
<1>1. QueueBuffer = Buffer
  BY QueueFields
<1> QED
  BY <1>1 DEF Unlisted, FreshItem

LEMMA QueueInsertStep ==
  ASSUME ObjectsInv, QueueOk, IsList(obj, Buffer), NEW isr \in BOOLEAN, Caller(isr),
         NEW n \in Item, NEW prev \in ToSet(Buffer) \cup {NoData}, QueueInsert(isr, prev, n)
  PROVE  n \in Unlisted /\ Whole({n})
<1>1. obj.type = "queue" /\ QueueBuffer = Buffer /\ swap_data \in [Thread -> Item \cup {NoData}]
  BY QueueFields DEF ObjectsInv, Base, CallTypes
<1>2. PICK stored : stored = Inserted(obj, prev, n)
  OBVIOUS
<1>3. n \in Unlisted /\ Give(isr, n, stored)
  BY <1>1, <1>2 DEF QueueInsert
<1>4. FreshItem(n)
  BY <1>3, UnlistedFresh
<1>5. /\ Base'
      /\ \/ obj' = obj /\ \E u \in Thread : Handed(u)
         \/ obj' = stored /\ NoneWaits /\ Others({})
  BY <1>1, <1>3, <1>4, GiveStep
<1>6. \A t \in Thread : swap_data'[t] \in {swap_data[t], NoData} \cup {n}
  BY <1>1, <1>3 DEF Give, Hand, waiting
<1>7. CASE obj' = obj /\ \E u \in Thread : Handed(u)
  <2>1. QueueOk' /\ Buffer' = Buffer
    BY <1>7, QueueFrame
  <2> QED
    BY <1>3, <1>5, <1>6, <1>7, <2>1 DEF Effect, Whole, Moved
<1>8. CASE obj' = stored /\ NoneWaits /\ Others({})
  <2>1. /\ QueueOk' /\ PutIn /\ IsList(obj', Buffer')
        /\ ToSet(Buffer') \subseteq ToSet(Buffer) \cup {n}
    BY <1>2, <1>4, <1>8, QueuePutIn
  <2> QED
    BY <1>3, <1>5, <1>6, <2>1 DEF Effect, Whole, Moved
<1> QED
  BY <1>5, <1>7, <1>8

LEMMA QueueHoldsWhole ==
  ASSUME obj' \in QueueType, NEW r, IsList(obj', r)
  PROVE  QueueOk' /\ Buffer' = r /\ IsList(obj', Buffer')
<1>1. IsChain(obj', r)
  BY DEF IsList
<1>2. QueueOk' /\ Buffer' = r
  BY <1>1, QueueHoldsList
<1> QED
  BY <1>2

\* Two items: to as many readers as there are, and the rest behind the others.
LEMMA QueueAppendListStep ==
  ASSUME ObjectsInv, QueueOk, IsList(obj, Buffer), NEW isr \in BOOLEAN, Caller(isr),
         NEW m \in Item, NEW n \in Item, QueueAppendList(isr, m, n)
  PROVE  {m, n} \subseteq Unlisted /\ Whole({m, n})
<1> DEFINE linked == [obj EXCEPT !.next = [@ EXCEPT ![m] = n, ![n] = NoData]]
           q == k.waitq[ObjectQ]
           one == WakeFirst(k, ObjectQ, "OK")
           two == WakeFirst(one, ObjectQ, "OK")
<1>1. /\ obj \in QueueType /\ Buffer \in Seq(Item) /\ QueueBuffer = Buffer
      /\ Rule.order = "any" /\ obj.type = "queue"
  BY QueueFields
<1>a. {m, n} \subseteq Unlisted /\ m # n
  BY DEF QueueAppendList
<1>2. m \notin ToSet(Buffer) /\ n \notin ToSet(Buffer) /\ m # n /\ FreshPair(m, n)
  BY <1>a, UnlistedFresh DEF FreshPair
<1>3. /\ AppendedList(linked, m, n) \in QueueType
      /\ IsList(AppendedList(linked, m, n), Buffer \o <<m, n>>)
      /\ Buffer = <<>> => /\ AppendedList(linked, n, n) \in QueueType
                          /\ IsList(AppendedList(linked, n, n), <<n>>)
                          /\ linked \in QueueType /\ IsList(linked, <<>>)
  <2>1. linked = [obj EXCEPT !.next = [@ EXCEPT ![m] = n, ![n] = NoData]]
    OBVIOUS
  <2> HIDE DEF linked
  <2> QED
    BY <1>1, <1>2, <2>1, AppendedPair
<1>4. /\ k' = Leave(isr, CASE Len(q) = 0 -> k [] Len(q) = 1 -> one [] OTHER -> two)
      /\ swap_data' = [t \in Thread |-> IF Len(q) >= 1 /\ t = q[1] THEN m
                                        ELSE IF Len(q) >= 2 /\ t = q[2] THEN n
                                        ELSE swap_data[t]]
      /\ obj' = CASE Len(q) = 0 -> AppendedList(linked, m, n)
                  [] Len(q) = 1 -> AppendedList(linked, n, n)
                  [] OTHER      -> linked
      /\ call' = call
  BY DEF QueueAppendList
<1>5. /\ q \in Seq(Thread) /\ Len(q) \in Nat /\ Base /\ call \in [Thread -> CallNames]
      /\ swap_data \in [Thread -> Item \cup {NoData}]
      /\ \A t \in Thread : Waits(k, t) <=> t \in ToSet(q)
      /\ Inv(k) /\ DeadOk(k) /\ Lined(k)
  BY BaseFacts DEF ObjectsInv, Base, CallTypes, InLine, Lined
<1>6. ASSUME NEW t \in Thread, Waits(k, t)
      PROVE  call[t] = "get" /\ Buffer = <<>>
  BY <1>1, <1>6 DEF ObjectsInv, WaiterOk
<1> HIDE DEF linked, one, two
<1>b. \A t \in Thread : swap_data'[t] \in {swap_data[t], NoData} \cup {m, n}
  BY <1>4
<1>7. CASE Len(q) = 0
  <2>1. q = <<>> /\ k' = Leave(isr, k) /\ obj' = AppendedList(linked, m, n)
    BY <1>4, <1>5, <1>7
  <2>2. swap_data' = swap_data
    BY <1>4, <1>5, <1>7
  <2>3. CallTypes'
    BY <1>4, <1>5, <2>2 DEF CallTypes
  <2>4. /\ Base'
        /\ \A t \in Thread : Waits(k', t) <=> Waits(k, t)
        /\ \A t \in Thread : Held(t) \/ t # k.cur => k'.ret[t] = k.ret[t]
    BY <1>5, <2>1, <2>3, LeaveEffect
  <2>5. Others({})
    BY <1>4, <2>2, <2>4 DEF Others, Kept, CallKept
  <2>6. NoneWaits
    BY <1>5, <2>1, NoWaiter DEF HasWaiter
  <2>7. QueueOk' /\ Buffer' = Buffer \o <<m, n>> /\ IsList(obj', Buffer')
    BY <1>3, <2>1, QueueHoldsWhole
  <2>8. ToSet(Buffer') \subseteq ToSet(Buffer) \cup {m, n}
    BY <1>1, <2>7, PairSet
  <2>9. PutPair
    BY <1>1, <1>2, <2>5, <2>6, <2>7 DEF PutPair
  <2> QED
    BY <1>a, <1>b, <2>4, <2>7, <2>8, <2>9 DEF Effect, Whole, Moved
<1>8. CASE Len(q) = 1
  <2>1. k' = Leave(isr, one) /\ obj' = AppendedList(linked, n, n)
    BY <1>4, <1>5, <1>8
  <2>2. HasWaiter(k, ObjectQ)
    <3>1. PICK z : z = q
      OBVIOUS
    <3>2. z \in Seq(Thread) /\ Len(z) = 1
      BY <1>5, <1>8, <3>1
    <3>3. z # <<>>
      BY <3>2
    <3> QED
      BY <3>1, <3>3, Zenon DEF HasWaiter
  <2>3. PICK u : u = Waiter(k, ObjectQ)
    OBVIOUS
  <2>4. q[1] = u /\ 1 \in 1 .. Len(q)
    BY <1>5, <1>8, <2>2, <2>3 DEF HasWaiter, Waiter
  <2>5. Hand(isr, m)
    <3>1. swap_data' = [swap_data EXCEPT ![u] = m]
      <4>1. /\ swap_data' = [t \in Thread |-> IF Len(q) >= 1 /\ t = q[1] THEN m
                                               ELSE IF Len(q) >= 2 /\ t = q[2] THEN n
                                               ELSE swap_data[t]]
            /\ Len(q) = 1 /\ q[1] = u
            /\ swap_data \in [Thread -> Item \cup {NoData}]
        BY <1>4, <1>5, <1>8, <2>4
      <4> HIDE DEF q
      <4>2. Len(q) >= 1 /\ ~(Len(q) >= 2)
        BY <4>1
      <4> QED
        BY <4>1, <4>2, Zenon
    <3> QED
      BY <1>4, <2>1, <2>3, <3>1 DEF Hand, one
  <2>6. m \in Item \cup {NoData} /\ HandOver(isr, m)
    BY <1>5, <2>5, HandIsOver
  <2>7. Base' /\ u \in Thread /\ Ended(u, "OK", m) /\ Others({u})
    BY <1>5, <2>2, <2>3, <2>5, <2>6, HandEffect
  <2>8. call[u] = "get" /\ Buffer = <<>>
    BY <1>6, <2>7 DEF Ended
  <2>9. QueueOk' /\ Buffer' = <<n>> /\ IsList(obj', Buffer')
    BY <1>3, <2>1, <2>8, QueueHoldsWhole
  <2>10. \A t \in Thread \ {u} : ~Waits(k, t)
    <3>1. \A t : t \in ToSet(q) <=> \E i \in 1 .. Len(q) : q[i] = t
      BY <1>5, ToSetIndexed
    <3>2. \A t \in ToSet(q) : t = u
      BY <1>5, <1>8, <2>4, <3>1
    <3> QED
      BY <1>5, <3>2
  <2>11. ToSet(Buffer') \subseteq ToSet(Buffer) \cup {m, n}
    BY <2>9 DEF ToSet
  <2>12. HandedOne(u)
    BY <1>1, <1>2, <2>7, <2>8, <2>9, <2>10 DEF HandedOne
  <2> QED
    BY <1>a, <1>b, <2>7, <2>9, <2>11, <2>12 DEF Effect, Whole, Moved
<1>9. CASE Len(q) # 0 /\ Len(q) # 1
  <2>1. k' = Leave(isr, two) /\ obj' = linked
    BY <1>4, <1>9
  <2>2. Len(q) >= 2 /\ Len(q) >= 1
    <3>1. Len(q) \in Nat
      BY <1>5
    <3>2. \A x \in Nat : x # 0 /\ x # 1 => x >= 2 /\ x >= 1
      OBVIOUS
    <3> QED
      BY <1>9, <3>1, <3>2, Zenon
  <2>3. PICK u, v : u = q[1] /\ v = q[2]
    OBVIOUS
  <2>4. swap_data' = [t \in Thread |-> IF t = u THEN m ELSE IF t = v THEN n ELSE swap_data[t]]
    BY <1>4, <2>2, <2>3
  <2>5. one = WakeFirst(k, ObjectQ, "OK") /\ two = WakeFirst(one, ObjectQ, "OK")
    BY DEF one, two
  <2>6. /\ Base' /\ u \in Thread /\ v \in Thread /\ u # v
        /\ Ended(u, "OK", m) /\ Ended(v, "OK", n) /\ Others({u, v})
    <3>1. Base /\ call' = call
      BY <1>4, <1>5
    <3>2. u \in Thread /\ v \in Thread
      <4>1. \A i \in 1 .. Len(q) : q[i] \in Thread
        BY <1>5
      <4>2. 1 \in 1 .. Len(q) /\ 2 \in 1 .. Len(q)
        BY <1>5, <2>2
      <4> QED
        BY <2>3, <4>1, <4>2
    <3>3. /\ swap_data' \in [Thread -> Item \cup {NoData}] /\ swap_data'[u] = m
          /\ u # v => swap_data'[v] = n
          /\ \A t \in Thread \ {u, v} : swap_data'[t] = swap_data[t]
      BY <1>5, <2>4, <3>2
    <3>4. /\ Len(k.waitq[ObjectQ]) >= 2
          /\ u = k.waitq[ObjectQ][1] /\ v = k.waitq[ObjectQ][2]
      BY <2>3, <2>2
    <3>5. k' = Leave(isr, WakeFirst(WakeFirst(k, ObjectQ, "OK"), ObjectQ, "OK"))
      BY <2>1, <2>5
    <3> HIDE DEF q
    <3>6. HandTwo(isr, u, v, m, n)
      BY <3>1, <3>3, <3>4, <3>5 DEF HandTwo
    <3> QED
      BY <3>1, <3>6, HandTwoEffect
  <2>7. call[u] = "get" /\ call[v] = "get" /\ Buffer = <<>>
    BY <1>6, <2>6 DEF Ended
  <2>8. QueueOk' /\ Buffer' = <<>> /\ IsList(obj', Buffer')
    BY <1>3, <2>1, <2>7, QueueHoldsWhole
  <2>9. HandedTwo(u, v)
    BY <1>1, <1>2, <2>6, <2>7, <2>8 DEF HandedTwo
  <2>10. ToSet(Buffer') \subseteq ToSet(Buffer) \cup {m, n}
    BY <2>7, <2>8
  <2> QED
    BY <1>a, <1>b, <2>6, <2>8, <2>9, <2>10 DEF Effect, Whole, Moved
<1> QED
  BY <1>7, <1>8, <1>9

LEMMA QueueCallStep ==
  ASSUME ObjectsInv, QueueOk, IsList(obj, Buffer), NEW isr \in BOOLEAN, Caller(isr),
         QueueCalls(isr)
  PROVE  \E S \in SUBSET Unlisted : Whole(S)
<1>1. /\ obj \in QueueType /\ obj.type = "queue" /\ QueueBuffer = Buffer
      /\ Buffer \in Seq(Item) /\ Rule.order = "any"
      /\ NoData \notin Item /\ (obj.head = NoData <=> Buffer = <<>>)
      /\ obj.tail \in ToSet(Buffer) \cup {NoData} /\ Base
      /\ swap_data \in [Thread -> Item \cup {NoData}]
  BY QueueFields, QueueTail DEF ObjectsInv, Base, CallTypes
<1>2. CASE QueueGet
  <2>1. UNCHANGED <<k, waiting>> /\ obj.head # NoData /\ obj' = Gotten(obj)
    BY <1>2 DEF QueueGet
  <2>2. Base' /\ Others({})
    BY <1>1, <2>1, QuietEffect
  <2>3. NoneWaits
    BY <1>1, <2>1, NoneWaitsBeside
  <2>4. obj' \in QueueType /\ Buffer # <<>> /\ IsList(obj', Tail(Buffer))
    BY <1>1, <2>1, GottenList
  <2>5. QueueOk' /\ Buffer' = Tail(Buffer) /\ IsList(obj', Buffer')
    BY <2>4, QueueHoldsWhole
  <2>6. ToSet(Buffer') \subseteq ToSet(Buffer)
    BY <1>1, <2>4, <2>5, TailSet
  <2>7. Moved({})
    BY <2>1, <2>6 DEF Moved, waiting
  <2>8. Whole({})
    BY <2>2, <2>3, <2>4, <2>5, <2>7 DEF Effect, GotOut, Whole
  <2> QED
    BY <2>8
<1>3. CASE QueueCancelWait(isr)
  <2>1. HasWaiter(k, ObjectQ) /\ Hand(isr, NoData) /\ obj' = obj
    BY <1>3 DEF QueueCancelWait
  <2>2. NoData \in Item \cup {NoData} /\ HandOver(isr, NoData)
    BY <1>1, <2>1, HandIsOver
  <2>3. Base' /\ \E u \in Thread : Handed(u)
    BY <1>1, <2>1, <2>2, HandStep
  <2>4. QueueOk' /\ Buffer' = Buffer
    BY <2>1, QueueFrame
  <2>5. Moved({})
    BY <1>1, <2>1, <2>4 DEF Moved, Hand
  <2>6. Whole({})
    BY <2>1, <2>3, <2>4, <2>5 DEF Effect, Whole
  <2> QED
    BY <2>6
<1>4. ASSUME NEW n \in Item, QueueRemove(n)
      PROVE  \E S \in SUBSET Unlisted : Whole(S)
  <2>1. PICK prev : prev = Before(n)
    OBVIOUS
  <2>2. PICK x : x = Unlinked(obj, prev, n)
    OBVIOUS
  <2>3. UNCHANGED <<k, waiting>> /\ n \in ToSet(Buffer) /\ obj' = Settled(x, prev, n)
    BY <1>1, <1>4, <2>1, <2>2 DEF QueueRemove
  <2>4. Base' /\ Others({})
    BY <1>1, <2>3, QuietEffect
  <2>5. Buffer # <<>>
    BY <1>1, <2>3, ToSetIndexed
  <2>6. NoneWaits
    BY <1>1, <2>5, NoneWaitsBeside
  <2>7. PICK p \in 1 .. Len(Buffer) : n = Buffer[p] /\ prev = IF p = 1 THEN NoData ELSE Buffer[p - 1]
    BY <1>1, <2>1, <2>3, FoundInList
  <2>8. obj' \in QueueType /\ IsList(obj', RemoveAt(Buffer, p))
    BY <1>1, <2>2, <2>3, <2>7, RemovedList
  <2>9. QueueOk' /\ Buffer' = RemoveAt(Buffer, p) /\ IsList(obj', Buffer')
    BY <2>8, QueueHoldsWhole
  <2>10. Len(RemoveAt(Buffer, p)) = Len(Buffer) - 1
    BY <1>1, RemoveAtIndexed
  <2>11. Len(Buffer) = Len(Buffer') + 1
    BY <1>1, <2>9, <2>10
  <2>12. ToSet(Buffer') \subseteq ToSet(Buffer)
    BY <1>1, <2>9, RemovedSet
  <2>13. Moved({})
    BY <2>3, <2>12 DEF Moved, waiting
  <2>14. TookOut
    BY <1>1, <2>4, <2>6, <2>9, <2>11 DEF TookOut
  <2>15. Whole({})
    BY <2>4, <2>9, <2>13, <2>14 DEF Effect, Whole
  <2> QED
    BY <2>15
<1>5. ASSUME NEW n \in Item,
             \/ QueueAppend(isr, n) \/ QueuePrepend(isr, n)
             \/ \E m \in ToSet(QueueBuffer) : QueueInsert(isr, m, n)
      PROVE  \E S \in SUBSET Unlisted : Whole(S)
  <2>1. \E prev \in ToSet(Buffer) \cup {NoData} : QueueInsert(isr, prev, n)
    BY <1>1, <1>5 DEF QueueAppend, QueuePrepend
  <2>2. n \in Unlisted /\ Whole({n})
    BY <2>1, QueueInsertStep
  <2> QED
    BY <2>2
<1>6. ASSUME NEW m \in Item, NEW n \in Item, QueueAppendList(isr, m, n)
      PROVE  \E S \in SUBSET Unlisted : Whole(S)
  <2>1. {m, n} \subseteq Unlisted /\ Whole({m, n})
    BY <1>6, QueueAppendListStep
  <2> QED
    BY <2>1
<1> QED
  BY <1>2, <1>3, <1>4, <1>5, <1>6 DEF QueueCalls

\* The steps of k_queue_append() and k_queue_remove() by a thread.
LEMMA CallsKept ==
  ASSUME Base, NEW t \in Thread, Running(t), ~Held(t), NEW name \in {"out", "append", "remove", "settle"},
         NEW prev, NEW n, Calls(t, name, prev, n)
  PROVE  call' \in [Thread -> CallNames] /\ \A u \in Thread : CallKept(u)
<1>1. call \in [Thread -> CallNames] /\ call' = [call EXCEPT ![t] = name] /\ ~Waits(k, t)
  BY CurrentOutside DEF Base, CallTypes, Calls
<1>2. name \in CallNames
  BY DEF CallNames
<1>3. ASSUME NEW u \in Thread
      PROVE  CallKept(u)
  <2>1. CASE u = t
    BY <1>1, <2>1 DEF CallKept, Held
  <2>2. CASE u # t
    BY <1>1, <2>2 DEF CallKept
  <2> QED
    BY <2>1, <2>2
<1> QED
  BY <1>1, <1>2, <1>3

\* A call that has only read the list changes nothing.
LEMMA QueueReadStep ==
  ASSUME ObjectsInv, QueueOk, NEW t \in Thread, NEW n \in Item,
         QueueAppendPeek(t, n) \/ QueueFind(t, n)
  PROVE  Base' /\ QueueOk' /\ Effect /\ Buffer' = Buffer /\ obj' = obj
<1>1. Running(t) /\ ~Held(t) /\ Base /\ UNCHANGED <<k, swap_data, obj>>
  BY DEF QueueAppendPeek, QueueFind, Outside, Held, ObjectsInv
<1>2. call' \in [Thread -> CallNames] /\ \A u \in Thread : CallKept(u)
  BY <1>1, CallsKept DEF QueueAppendPeek, QueueFind
<1>3. Base' /\ Others({})
  BY <1>1, <1>2, CallsEffect
<1>4. QueueOk' /\ Buffer' = Buffer
  BY <1>1, QueueFrame
<1> QED
  BY <1>1, <1>3, <1>4 DEF Effect, Quiet

\* The node that was found leaves the list.
LEMMA QueueUnlinkStep ==
  ASSUME ObjectsInv, QueueOk, IsList(obj, Buffer), NEW t \in Thread, QueueUnlink(t)
  PROVE  /\ Base' /\ QueueOk' /\ Effect /\ Moved({})
         /\ IsList(Settled(obj', arg[t].prev, arg[t].data), Buffer')
<1>1. /\ obj \in QueueType /\ obj.type = "queue" /\ Buffer \in Seq(Item) /\ Rule.order = "any" /\ Base
  BY QueueFields DEF ObjectsInv
<1>2. PICK prev, n : prev = arg[t].prev /\ n = arg[t].data
  OBVIOUS
<1>3. Running(t) /\ ~Held(t) /\ call[t] = "remove" /\ obj' = Unlinked(obj, prev, n)
      /\ UNCHANGED <<k, swap_data>>
  BY <1>2 DEF QueueUnlink, Held
<1>4. call' \in [Thread -> CallNames] /\ \A u \in Thread : CallKept(u)
  BY <1>1, <1>3, CallsKept DEF QueueUnlink
<1>5. Base' /\ Others({})
  BY <1>1, <1>3, <1>4, CallsEffect
<1>6. ArgOk(t)
  BY DEF ObjectsInv, ArgsOk
<1>7. PICK p \in 1 .. Len(Buffer) : n = Buffer[p] /\ prev = IF p = 1 THEN NoData ELSE Buffer[p - 1]
  BY <1>2, <1>3, <1>6 DEF ArgOk
<1>8. PICK y : y = Settled(obj', prev, n)
  OBVIOUS
<1>9. obj' \in QueueType /\ IsChain(obj', RemoveAt(Buffer, p)) /\ IsList(y, RemoveAt(Buffer, p))
  BY <1>1, <1>3, <1>7, <1>8, RemovedList
<1>10. QueueOk' /\ Buffer' = RemoveAt(Buffer, p)
  BY <1>9, QueueHoldsList
<1>11. Buffer # <<>>
  OBVIOUS
<1>12. NoneWaits
  BY <1>1, <1>11, NoneWaitsBeside
<1>13. Len(RemoveAt(Buffer, p)) = Len(Buffer) - 1
  BY <1>1, RemoveAtIndexed
<1>14. Len(Buffer) = Len(Buffer') + 1
  BY <1>1, <1>10, <1>13
<1>15. TookOut
  BY <1>1, <1>5, <1>10, <1>12, <1>14 DEF TookOut
<1>16. ToSet(Buffer') \subseteq ToSet(Buffer)
  BY <1>1, <1>10, RemovedSet
<1>17. Moved({})
  BY <1>3, <1>16 DEF Moved
<1> QED
  BY <1>2, <1>5, <1>8, <1>9, <1>10, <1>15, <1>17 DEF Effect

\* The list is whole again.
LEMMA QueueSettleStep ==
  ASSUME ObjectsInv, QueueOk, NEW t \in Thread, QueueSettle(t)
  PROVE  Whole({}) /\ Buffer' = Buffer
<1>1. obj \in QueueType /\ Base /\ ArgOk(t) /\ arg \in [Thread -> [prev: Item \cup {NoData}, data: Item \cup {NoData}]]
  BY QueueFields DEF ObjectsInv, ArgsOk, ArgTypes
<1>2. PICK prev, n : prev = arg[t].prev /\ n = arg[t].data
  OBVIOUS
<1>3. Running(t) /\ ~Held(t) /\ call[t] = "settle" /\ obj' = Settled(obj, prev, n)
      /\ UNCHANGED <<k, swap_data>>
  BY <1>2 DEF QueueSettle, Held
<1>4. call' \in [Thread -> CallNames] /\ \A u \in Thread : CallKept(u)
  BY <1>1, <1>3, CallsKept DEF QueueSettle
<1>5. Base' /\ Others({})
  BY <1>1, <1>3, <1>4, CallsEffect
<1>6. IsList(obj', Buffer)
  BY <1>1, <1>2, <1>3 DEF ArgOk
<1>7. obj' \in QueueType
  <2>1. prev \in Item \cup {NoData}
    BY <1>1, <1>2
  <2>2. PICK tail : tail = IF obj.tail # n THEN obj.tail ELSE IF prev = NoData THEN obj.head ELSE prev
    OBVIOUS
  <2>3. PICK f : f = [obj.next EXCEPT ![n] = NoData]
    OBVIOUS
  <2>4. tail \in Item \cup {NoData} /\ f \in [Item -> Item \cup {NoData}]
    BY <1>1, <2>1, <2>2, <2>3 DEF QueueType
  <2>5. obj' = [obj EXCEPT !.tail = tail, !.next = f]
    BY <1>3, <2>2, <2>3 DEF Settled
  <2> QED
    BY <1>1, <2>4, <2>5 DEF QueueType
<1>8. QueueOk' /\ Buffer' = Buffer /\ IsList(obj', Buffer')
  BY <1>6, <1>7, QueueHoldsWhole
<1>9. Moved({})
  BY <1>3, <1>8 DEF Moved
<1> QED
  BY <1>5, <1>8, <1>9 DEF Effect, Quiet, Whole

\* The node goes to a waiting thread, or behind the node that was the last.
LEMMA QueueLockedStep ==
  ASSUME ObjectsInv, QueueOk, IsList(obj, Buffer), AppendsSafe, NEW t \in Thread, NEW n \in Item,
         QueueAppendLocked(t, n)
  PROVE  Whole({n}) /\ (n \in ToSet(Buffer') \/ \E u \in Thread : swap_data'[u] = n)
<1>1. /\ obj \in QueueType /\ Base /\ ArgOk(t) /\ obj.type = "queue" /\ QueueBuffer = Buffer
      /\ swap_data \in [Thread -> Item \cup {NoData}]
      /\ arg \in [Thread -> [prev: Item \cup {NoData}, data: Item \cup {NoData}]]
  BY QueueFields DEF ObjectsInv, ArgsOk, ArgTypes, Base, CallTypes
<1>2. Running(t) /\ ~Held(t) /\ call[t] = "append" /\ n = arg[t].data
  BY DEF QueueAppendLocked, Held
<1>3. call' \in [Thread -> CallNames] /\ \A u \in Thread : CallKept(u)
  BY <1>1, <1>2, CallsKept DEF QueueAppendLocked
<1>4. FreshItem(n) /\ n \notin ToSet(Buffer)
  BY <1>1, <1>2 DEF ArgOk, FreshItem
<1>5. CASE HasWaiter(k, ObjectQ)
  <2>1. PICK u : u = Waiter(k, ObjectQ)
    OBVIOUS
  <2>2. /\ k' = Reschedule(WakeFirst(k, ObjectQ, "OK")) /\ obj' = obj
        /\ swap_data' = [swap_data EXCEPT ![u] = n]
    BY <1>5, <2>1 DEF QueueAppendLocked
  <2>3. PICK isr \in BOOLEAN : isr = FALSE
    OBVIOUS
  <2>4. HandOver(isr, n) /\ Caller(isr)
    BY <1>2, <1>3, <2>1, <2>2, <2>3 DEF HandOver, Leave, Caller
  <2>5. Base' /\ \E v \in Thread : Handed(v)
    BY <1>1, <1>4, <1>5, <2>2, <2>4, HandStep
  <2>6. QueueOk' /\ Buffer' = Buffer
    BY <2>2, QueueFrame
  <2>7. u \in Thread
    BY <1>1, <1>5, <2>1, BaseFacts, WaiterType
  <2>8. Moved({n}) /\ swap_data'[u] = n
    BY <1>1, <2>2, <2>6, <2>7 DEF Moved
  <2> QED
    BY <2>2, <2>5, <2>6, <2>7, <2>8 DEF Effect, Whole
<1>6. CASE ~HasWaiter(k, ObjectQ)
  <2>1. PICK prev : prev = arg[t].prev
    OBVIOUS
  <2>2. obj' = Inserted(obj, prev, n) /\ UNCHANGED <<k, swap_data>>
    BY <1>6, <2>1 DEF QueueAppendLocked
  <2>3. Base' /\ Others({})
    BY <1>1, <1>3, <2>2, CallsEffect
  <2>4. NoneWaits
    BY <1>1, <1>6, NoWaiter
  <2>5. prev \in Item \cup {NoData} /\ (prev \in ToSet(Buffer) \cup {NoData} \/ obj.next[prev] = NoData)
    BY <1>1, <1>2, <2>1 DEF AppendsSafe
  <2>6. \E last \in ToSet(Buffer) \cup {NoData} : obj' = Inserted(obj, last, n)
    <3>1. CASE prev \in ToSet(Buffer) \cup {NoData}
      BY <2>2, <3>1
    <3>2. CASE prev \in Item /\ obj.next[prev] = NoData
      <4>1. Inserted(obj, prev, n) = Inserted(obj, obj.tail, n)
        BY <1>1, <1>4, <3>2, InsertedAtEnd
      <4> QED
        BY <2>2, <4>1, QueueTail
    <3> QED
      BY <2>5, <3>1, <3>2
  <2>7. /\ QueueOk' /\ PutIn /\ n \in ToSet(Buffer') /\ IsList(obj', Buffer')
        /\ ToSet(Buffer') \subseteq ToSet(Buffer) \cup {n}
    BY <1>4, <2>3, <2>4, <2>6, QueuePutIn
  <2>8. Moved({n})
    BY <2>2, <2>7 DEF Moved
  <2> QED
    BY <2>3, <2>7, <2>8 DEF Effect, Whole
<1> QED
  BY <1>5, <1>6

-----------------------------------------------------------------------------
(***************************************************************************)
(* Message queues.                                                         *)
(***************************************************************************)

\* The slots from r on are MaxItems different ones, and Advance goes from each
\* to the next.
LEMMA RingSlots ==
  ASSUME NEW r \in Slot
  PROVE  /\ \A i \in 1 .. MaxItems : Wrapped(r + i - 1) \in Slot
         /\ \A i, j \in 1 .. MaxItems : Wrapped(r + i - 1) = Wrapped(r + j - 1) => i = j
         /\ \A i \in 1 .. MaxItems : Advance(Wrapped(r + i - 1)) = Wrapped(r + i)
         /\ \A i \in 1 .. MaxItems : Wrapped(Advance(r) + i - 1) = Wrapped(r + i)
         /\ \A i \in 0 .. MaxItems : Wrapped(r + i) \in Slot
         /\ Advance(r) \in Slot /\ Wrapped(r + 1 - 1) = r
  BY ObjectAssumption DEF Wrapped, Advance, Slot

LEMMA RingStored ==
  ASSUME NEW q, RingOk(q), q.used < MaxItems, NEW m \in Item, NEW y, y = Stored(q, m)
  PROVE  RingOk(y) /\ y.used = q.used + 1 /\ Ring(y) = Append(Ring(q), m)
<1> DEFINE u == q.used
           r == q.read
           w == q.write
           f == [q.slot EXCEPT ![w] = m]
<1>1. /\ u \in Nat /\ u + 1 \in 1 .. MaxItems /\ r \in Slot /\ w \in Slot
      /\ q.slot \in [Slot -> Item \cup {NoData}] /\ MaxItems \in Nat
      /\ u < MaxItems
  BY ObjectAssumption DEF RingOk, MsgqType
<1>2. w = Wrapped(r + u) /\ \A i \in 1 .. u : q.slot[Wrapped(r + i - 1)] \in Item
  BY DEF RingOk
<1>3. y = [type |-> "msgq", slot |-> f, read |-> r, write |-> Advance(w), used |-> u + 1]
  BY DEF Stored, RingOk, MsgqType
<1>4. f \in [Slot -> Item \cup {NoData}] /\ f[w] = m /\ \A s \in Slot \ {w} : f[s] = q.slot[s]
  BY <1>1
<1>5. Ring(q) \in Seq(Item) /\ Len(Ring(q)) = u
      /\ \A i \in 1 .. u : Ring(q)[i] = q.slot[Wrapped(r + i - 1)]
  BY RingHolds
<1> HIDE DEF u, r, w, f
<1>6. Wrapped(r + (u + 1) - 1) = w
  <2>1. r + (u + 1) - 1 = r + u
    BY <1>1 DEF Slot
  <2> QED
    BY <1>2, <2>1
<1>7. Advance(w) = Wrapped(r + (u + 1)) /\ Advance(w) \in Slot
  BY <1>1, <1>6, RingSlots
<1>8. \A i \in 1 .. u : i \in 1 .. MaxItems /\ i # u + 1
  BY <1>1
<1>9. \A i \in 1 .. u : Wrapped(r + i - 1) \in Slot /\ Wrapped(r + i - 1) # w
  BY <1>1, <1>6, <1>8, RingSlots
<1>10. \A i \in 1 .. u : f[Wrapped(r + i - 1)] = Ring(q)[i] /\ Ring(q)[i] \in Item
  BY <1>2, <1>4, <1>5, <1>9
<1>11. f[Wrapped(r + (u + 1) - 1)] = m
  BY <1>4, <1>6
<1>12. \A i \in 1 .. u + 1 : f[Wrapped(r + i - 1)] = IF i = u + 1 THEN m ELSE Ring(q)[i]
  <2>1. \A i \in 1 .. u + 1 : i = u + 1 \/ i \in 1 .. u
    BY <1>1
  <2> QED
    BY <1>8, <1>10, <1>11, <2>1
<1>13. \A i \in 1 .. u + 1 : f[Wrapped(r + i - 1)] \in Item
  <2>1. \A i \in 1 .. u + 1 : i = u + 1 \/ i \in 1 .. u
    BY <1>1
  <2> QED
    BY <1>10, <1>12, <2>1
<1>14. /\ y.type = "msgq" /\ y.slot = f /\ y.read = r /\ y.write = Advance(w) /\ y.used = u + 1
       /\ y \in MsgqType
  <2>1. u + 1 \in 0 .. MaxItems
    BY <1>1
  <2> QED
    BY <1>1, <1>3, <1>4, <1>7, <2>1 DEF MsgqType
<1>15. RingOk(y)
  BY <1>7, <1>13, <1>14 DEF RingOk
<1>16. /\ Ring(y) \in Seq(Item) /\ Len(Ring(y)) = u + 1
       /\ \A i \in 1 .. u + 1 : Ring(y)[i] = f[Wrapped(r + i - 1)]
  BY <1>14, <1>15, RingHolds
<1>17. /\ Append(Ring(q), m) \in Seq(Item) /\ Len(Append(Ring(q), m)) = u + 1
       /\ \A i \in 1 .. u : Append(Ring(q), m)[i] = Ring(q)[i]
       /\ Append(Ring(q), m)[u + 1] = m
  BY <1>5, AppendProperties
<1>18. \A i \in 1 .. u + 1 : Append(Ring(q), m)[i] = IF i = u + 1 THEN m ELSE Ring(q)[i]
  <2>1. \A i \in 1 .. u + 1 : i = u + 1 \/ i \in 1 .. u
    BY <1>1
  <2> QED
    BY <1>8, <1>17, <2>1
<1>19. \A i \in 1 .. u + 1 : Ring(y)[i] = Append(Ring(q), m)[i]
  BY <1>12, <1>16, <1>18
<1>20. Ring(y) = Append(Ring(q), m)
  BY <1>16, <1>17, <1>19, SeqEqual
<1> QED
  BY <1>14, <1>15, <1>20 DEF u

LEMMA RingFetched ==
  ASSUME NEW q, RingOk(q), q.used > 0, NEW y, y = Fetched(q)
  PROVE  RingOk(y) /\ y.used = q.used - 1 /\ Ring(q) # <<>> /\ Ring(y) = Tail(Ring(q))
<1> DEFINE u == q.used
           r == q.read
           f == [q.slot EXCEPT ![r] = NoData]
<1>1. /\ u \in Nat /\ u \in 1 .. MaxItems /\ r \in Slot /\ q.write \in Slot
      /\ q.slot \in [Slot -> Item \cup {NoData}] /\ MaxItems \in Nat
  BY ObjectAssumption DEF RingOk, MsgqType
<1>2. q.write = Wrapped(r + u) /\ \A i \in 1 .. u : q.slot[Wrapped(r + i - 1)] \in Item
  BY DEF RingOk
<1>3. y = [type |-> "msgq", slot |-> f, read |-> Advance(r), write |-> q.write, used |-> u - 1]
  BY DEF Fetched, RingOk, MsgqType
<1>4. f \in [Slot -> Item \cup {NoData}] /\ \A s \in Slot \ {r} : f[s] = q.slot[s]
  BY <1>1
<1>5. Ring(q) \in Seq(Item) /\ Len(Ring(q)) = u
      /\ \A i \in 1 .. u : Ring(q)[i] = q.slot[Wrapped(r + i - 1)]
  BY RingHolds
<1> HIDE DEF u, r, f
<1>6. Advance(r) \in Slot /\ Wrapped(r + 1 - 1) = r
  BY <1>1, RingSlots
<1>7. \A i \in 1 .. u - 1 : /\ i \in 1 .. MaxItems /\ i + 1 \in 1 .. MaxItems /\ i + 1 # 1
                            /\ i + 1 \in 1 .. u /\ r + (i + 1) - 1 = r + i
  BY <1>1 DEF Slot
<1>8. 1 \in 1 .. MaxItems
  BY <1>1
<1>9. \A i \in 1 .. u - 1 : Wrapped(r + (i + 1) - 1) \in Slot /\ Wrapped(r + (i + 1) - 1) # r
  BY <1>1, <1>6, <1>7, <1>8, RingSlots
<1>10. \A i \in 1 .. u - 1 : Wrapped(Advance(r) + i - 1) = Wrapped(r + (i + 1) - 1)
  BY <1>1, <1>7, RingSlots
<1>11. \A i \in 1 .. u - 1 : f[Wrapped(Advance(r) + i - 1)] = Ring(q)[i + 1]
  BY <1>4, <1>5, <1>7, <1>9, <1>10
<1>12. \A i \in 1 .. u - 1 : f[Wrapped(Advance(r) + i - 1)] \in Item
  BY <1>2, <1>5, <1>7, <1>11
<1>13. q.write = Wrapped(Advance(r) + (u - 1))
  <2>1. Wrapped(Advance(r) + u - 1) = Wrapped(r + u)
    BY <1>1, RingSlots
  <2>2. Advance(r) + u - 1 = Advance(r) + (u - 1)
    BY <1>1, <1>6 DEF Slot
  <2> QED
    BY <1>2, <2>1, <2>2
<1>14. /\ y.type = "msgq" /\ y.slot = f /\ y.read = Advance(r) /\ y.write = q.write /\ y.used = u - 1
       /\ y \in MsgqType
  <2>1. u - 1 \in 0 .. MaxItems
    BY <1>1
  <2> QED
    BY <1>1, <1>3, <1>4, <1>6, <2>1 DEF MsgqType
<1>15. RingOk(y)
  BY <1>12, <1>13, <1>14 DEF RingOk
<1>16. /\ Ring(y) \in Seq(Item) /\ Len(Ring(y)) = u - 1
       /\ \A i \in 1 .. u - 1 : Ring(y)[i] = f[Wrapped(Advance(r) + i - 1)]
  BY <1>14, <1>15, RingHolds
<1>17. Len(Ring(q)) = Len(Ring(y)) + 1 /\ \A i \in 1 .. Len(Ring(y)) : Ring(y)[i] = Ring(q)[i + 1]
  BY <1>1, <1>5, <1>11, <1>16
<1>18. Ring(q) # <<>> /\ Ring(y) = Tail(Ring(q))
  BY <1>5, <1>16, <1>17, OneLess
<1> QED
  BY <1>14, <1>15, <1>18 DEF u

LEMMA MsgqFrame ==
  ASSUME MsgqOk, obj' = obj
  PROVE  MsgqOk' /\ obj'.type = obj.type
  BY DEF MsgqOk, RingOk

LEMMA MsgqPutStep ==
  ASSUME ObjectsInv, MsgqOk, NEW isr \in BOOLEAN, Caller(isr),
         NEW m \in Item, MsgqPut(isr, m)
  PROVE  Base' /\ MsgqOk' /\ Effect
<1>1. /\ obj.type = "msgq" /\ obj.used \in Nat /\ Buffer = Ring(obj) /\ Buffer \in Seq(Item)
      /\ Len(Buffer) = obj.used /\ MaxItems \in Nat
  BY MsgqHolds, ObjectAssumption
<1>2. PICK stored : stored = Stored(obj, m)
  OBVIOUS
<1>3. obj.used < MaxItems /\ Give(isr, m, stored)
  BY <1>2 DEF MsgqPut
<1>4. Len(Buffer) # MaxItems
  BY <1>1, <1>3
<1>a. ~Rule.unique
  BY <1>1 DEF Rule
<1>b. FreshItem(m)
  BY <1>a DEF FreshItem
<1>5. /\ Base'
      /\ \/ obj' = obj /\ \E u \in Thread : Handed(u)
         \/ obj' = stored /\ NoneWaits /\ Others({})
  BY <1>3, <1>4, <1>b, GiveStep
<1>6. CASE obj' = obj /\ \E u \in Thread : Handed(u)
  BY <1>5, <1>6, MsgqFrame DEF Effect
<1>7. CASE obj' = stored /\ NoneWaits /\ Others({})
  <2>1. RingOk(stored) /\ Ring(stored) = Append(Ring(obj), m)
    BY <1>2, <1>3, RingStored DEF MsgqOk
  <2>2. MsgqOk' /\ Buffer' = Append(Buffer, m)
    BY <1>1, <1>7, <2>1, MsgqHoldsRing
  <2>3. /\ Append(Buffer, m) \in Seq(Item) /\ Len(Append(Buffer, m)) = Len(Buffer) + 1
        /\ \A i \in 1 .. Len(Buffer) : Append(Buffer, m)[i] = Buffer[i]
        /\ Append(Buffer, m)[Len(Buffer) + 1] = m
    BY <1>1, AppendProperties
  <2>4. PICK C : C = Append(Buffer, m)
    OBVIOUS
  <2>5. PICK p : p = Len(Buffer) + 1
    OBVIOUS
  <2>6. /\ C \in Seq(Item) /\ Len(C) = Len(Buffer) + 1 /\ p \in 1 .. Len(Buffer) + 1
        /\ \A i \in 1 .. Len(Buffer) : Buffer[i] = IF i < p THEN C[i] ELSE C[i + 1]
    <3>1. \A i \in 1 .. Len(Buffer) : i < p
      BY <1>1, <2>5
    <3>2. p \in 1 .. Len(Buffer) + 1
      BY <1>1, <2>5
    <3> QED
      BY <2>3, <2>4, <3>1, <3>2
  <2>7. RemoveAt(C, p) = Buffer
    BY <1>1, <2>6, OneMore
  <2>8. Rule.order = "fifo" /\ Rule.capacity = MaxItems
    BY <1>1 DEF Rule
  <2>9. p \in Places
    BY <2>5, <2>8 DEF Places
  <2>10. Len(C) <= MaxItems
    BY <1>1, <1>3, <2>6
  <2>11. FreshItem(Buffer'[p])
    BY <1>b, <2>2, <2>3, <2>5
  <2>12. PutIn
    BY <1>7, <2>2, <2>4, <2>6, <2>7, <2>8, <2>9, <2>10, <2>11 DEF PutIn
  <2> QED
    BY <1>5, <2>2, <2>12 DEF Effect
<1> QED
  BY <1>5, <1>6, <1>7

LEMMA MsgqGetStep ==
  ASSUME ObjectsInv, MsgqOk, NEW isr \in BOOLEAN, Caller(isr),
         MsgqGet(isr)
  PROVE  Base' /\ MsgqOk' /\ Effect
<1>1. /\ obj.type = "msgq" /\ obj.used \in Nat /\ Buffer = Ring(obj) /\ Buffer \in Seq(Item)
      /\ Len(Buffer) = obj.used /\ MaxItems \in Nat \ {0} /\ obj.used > 0 /\ Base
  BY MsgqHolds, ObjectAssumption DEF MsgqGet, ObjectsInv
<1>2. PICK y : y = Fetched(obj)
  OBVIOUS
<1>3. RingOk(y) /\ y.used = obj.used - 1 /\ Buffer # <<>> /\ Ring(y) = Tail(Buffer)
  BY <1>1, <1>2, RingFetched DEF MsgqOk
<1>4. CASE HasWaiter(k, ObjectQ)
  <2>1. PICK u : u = Waiter(k, ObjectQ)
    OBVIOUS
  <2>2. Hand(isr, NoData) /\ obj' = Stored(y, swap_data[u])
    BY <1>2, <1>4, <2>1 DEF MsgqGet
  <2>3. NoData \in Item \cup {NoData} /\ HandOver(isr, NoData)
    BY <1>1, <2>2, HandIsOver
  <2>4. Base' /\ u \in Thread /\ Ended(u, "OK", NoData) /\ Others({u})
    BY <1>1, <1>4, <2>1, <2>2, <2>3, HandEffect
  <2>5. WaiterOk(u)
    BY <2>4 DEF ObjectsInv, Ended
  <2>6. call[u] = "put" /\ swap_data[u] \in Item /\ Len(Buffer) = MaxItems
    BY <1>3, <2>5 DEF WaiterOk
  <2>7. y.used < MaxItems
    BY <1>1, <1>3, <2>6
  <2>8. RingOk(obj') /\ Ring(obj') = Append(Ring(y), swap_data[u])
    BY <1>3, <2>2, <2>6, <2>7, RingStored
  <2>9. MsgqOk' /\ Buffer' = Append(Tail(Buffer), swap_data[u])
    BY <1>3, <2>8, MsgqHoldsRing
  <2>10. Refilled(u)
    BY <1>1, <2>4, <2>6, <2>9 DEF Refilled
  <2> QED
    BY <2>4, <2>9, <2>10 DEF Effect
<1>5. CASE ~HasWaiter(k, ObjectQ)
  <2>1. obj' = y /\ UNCHANGED <<k, waiting>>
    BY <1>2, <1>5 DEF MsgqGet
  <2>2. Base' /\ Others({})
    BY <1>1, <2>1, QuietEffect
  <2>3. NoneWaits
    BY <1>1, <1>5, NoWaiter
  <2>4. MsgqOk' /\ Buffer' = Tail(Buffer)
    BY <1>3, <2>1, MsgqHoldsRing
  <2> QED
    BY <1>3, <2>2, <2>3, <2>4 DEF Effect, GotOut
<1> QED
  BY <1>4, <1>5

LEMMA MsgqPurgeStep ==
  ASSUME ObjectsInv, MsgqOk, NEW isr \in BOOLEAN, Caller(isr),
         MsgqPurge(isr)
  PROVE  Base' /\ MsgqOk' /\ Effect
<1>1. /\ Base'
      /\ \A t \in Thread : \/ Waits(k, t) /\ Ended(t, "ENOMSG", swap_data[t])
                           \/ ~Waits(k, t) /\ Kept(t)
  BY PurgeEffect DEF ObjectsInv
<1> DEFINE f == [i \in Slot |-> NoData]
<1>2. obj.write \in Slot /\ obj \in MsgqType /\ MaxItems \in Nat
  BY ObjectAssumption DEF MsgqOk, RingOk, MsgqType
<1>3. obj' = [obj EXCEPT !.used = 0, !.read = obj.write, !.slot = f]
  BY DEF MsgqPurge
<1>4. obj' = [type |-> "msgq", slot |-> f, read |-> obj.write, write |-> obj.write, used |-> 0]
  BY <1>2, <1>3 DEF MsgqType
<1>5. f \in [Slot -> Item \cup {NoData}]
  OBVIOUS
<1> HIDE DEF f
<1>6. /\ obj' \in MsgqType /\ obj'.used = 0 /\ obj'.read = obj.write /\ obj'.write = obj.write
  BY <1>2, <1>4, <1>5 DEF MsgqType
<1>7. obj.write = Wrapped(obj.write + 0)
  BY <1>2 DEF Wrapped, Slot
<1>8. RingOk(obj')
  BY <1>6, <1>7 DEF RingOk
<1>9. MsgqOk' /\ Buffer' = Ring(obj')
  BY <1>8, MsgqHoldsRing
<1>10. Ring(obj') = <<>>
  BY <1>6, <1>8, RingHolds
<1> QED
  BY <1>1, <1>9, <1>10 DEF Effect, Purged

LEMMA MsgqStep ==
  ASSUME ObjectsInv, MsgqOk, MsgqNext
  PROVE  Base' /\ MsgqOk' /\ Effect
<1>1. obj.type = "msgq" /\ (Buffer = <<>> <=> obj.used = 0) /\ Len(Buffer) = obj.used
  BY MsgqHolds
<1>a. ASSUME NEW isr \in BOOLEAN, Caller(isr), MsgqCalls(isr)
      PROVE  Base' /\ MsgqOk' /\ Effect
  BY <1>a, MsgqPutStep, MsgqGetStep, MsgqPurgeStep DEF MsgqCalls
<1>2. ASSUME NEW t \in Thread, MsgqCalls(TRUE) \/ (Outside(t) /\ MsgqCalls(FALSE))
      PROVE  Base' /\ MsgqOk' /\ Effect
  <2>1. \E isr \in BOOLEAN : Caller(isr) /\ MsgqCalls(isr)
    BY <1>2 DEF Caller, Outside, Held
  <2> QED
    BY <1>a, <2>1
<1>3. ASSUME NEW t \in Thread, MsgqReturn(t)
      PROVE  Base' /\ MsgqOk' /\ Effect
  <2>1. \E name \in {"get", "put"} : ReturnFrom(t, name)
    BY <1>3 DEF MsgqReturn
  <2>2. Base' /\ obj' = obj /\ Gone(t)
    BY <2>1, ReturnStep
  <2> QED
    BY <2>2, MsgqFrame DEF Effect
<1>4. ASSUME NEW t \in Thread, MsgqGetWait(t) \/ \E m \in Item : MsgqPutWait(t, m)
      PROVE  Base' /\ MsgqOk' /\ Effect
  <2>1. \/ WaitIn(t, "get", NoData) /\ Buffer = <<>>
        \/ /\ \E m \in Item : WaitIn(t, "put", m)
           /\ obj.type = "msgq" /\ Len(Buffer) = MaxItems
    BY <1>1, <1>4 DEF MsgqGetWait, MsgqPutWait
  <2>2. Base' /\ obj' = obj /\ Entered(t)
    BY <2>1, WaitInStep
  <2> QED
    BY <2>2, MsgqFrame DEF Effect
<1> QED
  BY <1>2, <1>3, <1>4, SchedAssumption DEF MsgqNext

-----------------------------------------------------------------------------
(***************************************************************************)
(* The invariant holds.                                                    *)
(***************************************************************************)

LEMMA TypeOfObject ==
  ASSUME ObjectOk
  PROVE  /\ obj.type = "msgq" => MsgqOk
         /\ obj.type = "stack" => StackOk
         /\ obj.type = "slab" => SlabOk
         /\ obj.type = "queue" => QueueOk
         /\ obj.type \in {"msgq", "stack", "slab", "queue"}
  BY MsgqHolds, StackHolds, SlabHolds, QueueHolds DEF ObjectOk

\* An item on its way into the queue is in nobody else's hands after the step.
Spared(t) ==
  arg[t].data \notin ToSet(Buffer') /\ \A u \in Thread : swap_data'[u] # arg[t].data

Busy(t) == call[t] \in {"append", "remove", "settle"}

ArgKept(t) ==
  IF Busy(t)' THEN call'[t] = call[t] /\ arg'[t] = arg[t] ELSE arg'[t] = NoArg

\* Nothing happens to the calls under way, unless they end.
LEMMA ArgsKept ==
  ASSUME ObjectsInv, CallTypes', obj'.type = obj.type,
         \A t \in Thread : ArgKept(t),
         \A t \in Thread : call'[t] = "append" => Spared(t),
         \/ obj' = obj /\ Buffer' = Buffer /\ \A t \in Thread : Removes(t) => call'[t] = call[t]
         \/ (\A t \in Thread : ~Removes(t)') /\ (obj.type = "queue" => IsList(obj', Buffer')),
         ArgTypes'
  PROVE  ArgsOk'
<1>1. /\ ArgTypes /\ (\A t \in Thread : ArgOk(t))
      /\ \A t \in Thread : Busy(t) => obj.type = "queue"
      /\ \A t, u \in Thread : Removes(t) /\ Removes(u) => t = u
      /\ obj.type = "queue" /\ (\A t \in Thread : call[t] # "settle") => IsList(obj, Buffer)
  BY DEF ObjectsInv, ArgsOk, Busy
<1>2. call' \in [Thread -> CallNames] /\ NoData \notin Item /\ NoArg.data = NoData
  BY ObjectAssumption DEF CallTypes, NoArg
<1>3. ASSUME NEW t \in Thread
      PROVE  ArgOk(t)'
  <2>1. ArgOk(t) /\ ArgKept(t) /\ call'[t] \in CallNames
    BY <1>1, <1>2
  <2>2. call'[t] \in {"out", "get", "put"} => arg'[t] = NoArg
    BY <2>1 DEF ArgKept, Busy
  <2>3. ASSUME call'[t] = "append"
        PROVE  /\ arg'[t].data \in Item \ ToSet(Buffer')
               /\ \A u \in Thread : /\ swap_data'[u] # arg'[t].data
                                    /\ u # t => arg'[u].data # arg'[t].data
    <3>1. call[t] = "append" /\ arg'[t] = arg[t] /\ Spared(t)
      BY <2>1, <2>3 DEF ArgKept, Busy
    <3>2. /\ arg[t].data \in Item
          /\ \A u \in Thread : u # t => arg[u].data # arg[t].data
      BY <2>1, <3>1 DEF ArgOk
    <3>3. ASSUME NEW u \in Thread, u # t
          PROVE  arg'[u].data # arg[t].data
      <4>1. arg'[u] = arg[u] \/ arg'[u] = NoArg
        BY DEF ArgKept
      <4> QED
        BY <1>2, <3>2, <3>3, <4>1
    <3> QED
      BY <3>1, <3>2, <3>3 DEF Spared
  <2>4. ASSUME Removes(t)'
        PROVE  obj' = obj /\ Buffer' = Buffer /\ call'[t] = call[t] /\ arg'[t] = arg[t]
    BY <2>1, <2>4 DEF ArgKept, Busy, Removes
  <2>5. ASSUME call'[t] = "remove"
        PROVE  \E p \in 1 .. Len(Buffer') : /\ arg'[t].data = Buffer'[p]
                                            /\ arg'[t].prev = IF p = 1 THEN NoData ELSE Buffer'[p - 1]
    BY <2>1, <2>4, <2>5 DEF ArgOk, Removes
  <2>6. ASSUME call'[t] = "settle"
        PROVE  IsList(Settled(obj', arg'[t].prev, arg'[t].data), Buffer')
    BY <2>1, <2>4, <2>6 DEF ArgOk, Removes
  <2> QED
    BY <2>2, <2>3, <2>5, <2>6 DEF ArgOk
<1>4. \A t \in Thread : Busy(t)' => obj'.type = "queue"
  BY <1>1 DEF ArgKept, Busy
<1>5. \A t, u \in Thread : Removes(t)' /\ Removes(u)' => t = u
  BY <1>1 DEF ArgKept, Busy, Removes
<1>6. ASSUME obj'.type = "queue", \A t \in Thread : call'[t] # "settle"
      PROVE  IsList(obj', Buffer')
  <2>1. CASE obj' = obj /\ Buffer' = Buffer /\ \A t \in Thread : Removes(t) => call'[t] = call[t]
    <3>1. \A t \in Thread : call[t] # "settle"
      BY <1>6, <2>1 DEF Removes
    <3> QED
      BY <1>1, <1>6, <2>1, <3>1
  <2> QED
    BY <1>6, <2>1
<1> QED
  BY <1>3, <1>4, <1>5, <1>6 DEF ArgsOk, Busy

\* Where S is what a step moves, an item that is not in S is spared.
LEMMA MovedSpares ==
  ASSUME ObjectsInv, NEW S, Moved(S), NEW t \in Thread, call[t] = "append", arg[t].data \notin S
  PROVE  Spared(t)
<1>1. /\ arg[t].data \in Item \ ToSet(Buffer) /\ arg[t].data # NoData
      /\ \A u \in Thread : swap_data[u] # arg[t].data
  BY ObjectAssumption DEF ObjectsInv, ArgsOk, ArgOk
<1> QED
  BY <1>1 DEF Moved, Spared

\* Without a call on its way out of the list, the list is whole.
LEMMA WholeBefore ==
  ASSUME ObjectsInv, obj.type = "queue", \A t \in Thread : ~Removes(t)
  PROVE  IsList(obj, Buffer)
  BY DEF ObjectsInv, ArgsOk, Removes

\* The locals are as they should be where no call begins.
LEMMA IdleArgs ==
  ASSUME ObjectsInv, CallTypes', arg' = arg,
         \A t \in Thread : call'[t] = call[t] \/ (~Busy(t) /\ ~Busy(t)')
  PROVE  ArgTypes' /\ \A t \in Thread : ArgKept(t)
<1>1. ArgTypes /\ \A t \in Thread : ArgOk(t)
  BY DEF ObjectsInv, ArgsOk
<1>2. call \in [Thread -> CallNames]
  BY DEF ObjectsInv, Base, CallTypes
<1>3. \A t \in Thread : ~Busy(t) => arg[t] = NoArg
  BY <1>1, <1>2 DEF ArgOk, Busy, CallNames
<1> QED
  BY <1>1, <1>3 DEF ArgKept, ArgTypes, Busy

LEMMA QueueCallArgs ==
  ASSUME ObjectsInv, QueueOk, \A t \in Thread : ~Removes(t), NEW isr \in BOOLEAN, Caller(isr),
         QueueCalls(isr), arg' = arg
  PROVE  Base' /\ QueueOk' /\ Effect /\ ArgsOk'
<1>1. obj.type = "queue" /\ IsList(obj, Buffer)
  BY QueueFields, WholeBefore
<1>2. PICK S \in SUBSET Unlisted : Whole(S)
  BY <1>1, QueueCallStep
<1>3. Base' /\ QueueOk' /\ Effect /\ IsList(obj', Buffer') /\ Moved(S)
  BY <1>2 DEF Whole
<1>4. call' = call
  BY DEF QueueCalls, QueueGet, QueueCancelWait, QueuePrepend, QueueAppend, QueueInsert, QueueRemove,
         QueueAppendList, Give, Hand, waiting
<1>5. CallTypes' /\ obj'.type = obj.type
  BY <1>1, <1>3 DEF Base, QueueOk, QueueType
<1>6. ArgTypes' /\ \A t \in Thread : ArgKept(t)
  BY <1>4, <1>5, IdleArgs
<1>7. ASSUME NEW t \in Thread, call'[t] = "append"
      PROVE  Spared(t)
  <2>1. arg[t].data \notin S
    BY UnlistedFresh
  <2> QED
    BY <1>3, <1>4, <1>7, <2>1, MovedSpares
<1>8. \A t \in Thread : ~Removes(t)'
  BY <1>4 DEF Removes
<1>9. ArgsOk'
  BY <1>3, <1>5, <1>6, <1>7, <1>8, ArgsKept
<1> QED
  BY <1>3, <1>9

\* A thread that begins to wait or returns from its wait.
LEMMA QueueWaitArgs ==
  ASSUME ObjectsInv, QueueOk, NEW t \in Thread, QueueGetWait(t) \/ ReturnFrom(t, "get"), arg' = arg
  PROVE  Base' /\ QueueOk' /\ Effect /\ ArgsOk'
<1>1. /\ call \in [Thread -> CallNames] /\ swap_data \in [Thread -> Item \cup {NoData}]
      /\ obj.type = "queue"
  BY QueueFields DEF ObjectsInv, Base, CallTypes
<1>2. QueueGetWait(t) => Base' /\ obj' = obj /\ Entered(t)
  BY QueueFields, WaitInStep DEF QueueGetWait
<1>3. ReturnFrom(t, "get") => Base' /\ obj' = obj /\ Gone(t)
  BY ReturnStep
<1>4. Base' /\ obj' = obj /\ Effect
  BY <1>2, <1>3 DEF Effect
<1>5. QueueOk' /\ Buffer' = Buffer
  BY <1>4, QueueFrame
<1>6. \E name \in {"get", "out"} :
        /\ ~Busy(t) /\ ~Removes(t)
        /\ call' = [call EXCEPT ![t] = name] /\ swap_data' = [swap_data EXCEPT ![t] = NoData]
  BY DEF QueueGetWait, WaitIn, ReturnFrom, Outside, Busy, Removes
<1>7. /\ \A u \in Thread : call'[u] = call[u] \/ (~Busy(u) /\ ~Busy(u)')
      /\ \A u \in Thread : Removes(u) => call'[u] = call[u]
      /\ \A u \in Thread : call'[u] = "append" => call[u] = "append"
  BY <1>1, <1>6 DEF Busy, Removes
<1>8. Moved({})
  BY <1>1, <1>5, <1>6 DEF Moved
<1>9. CallTypes' /\ obj'.type = obj.type
  BY <1>4 DEF Base
<1>10. ArgTypes' /\ \A u \in Thread : ArgKept(u)
  BY <1>7, <1>9, IdleArgs
<1>11. \A u \in Thread : call'[u] = "append" => Spared(u)
  BY <1>7, <1>8, MovedSpares
<1>12. ArgsOk'
  BY <1>4, <1>5, <1>7, <1>9, <1>10, <1>11, ArgsKept
<1> QED
  BY <1>4, <1>5, <1>12

\* A thread's call and its locals, and nobody else's.
LEMMA CallsArgs ==
  ASSUME ObjectsInv, NEW t \in Thread, NEW name \in CallNames,
         NEW prev \in Item \cup {NoData}, NEW n \in Item \cup {NoData}, Calls(t, name, prev, n)
  PROVE  /\ ArgTypes' /\ call'[t] = name /\ arg'[t].prev = prev /\ arg'[t].data = n
         /\ \A u \in Thread \ {t} : call'[u] = call[u] /\ arg'[u] = arg[u] /\ ArgKept(u)
<1>1. call \in [Thread -> CallNames] /\ ArgTypes /\ \A u \in Thread : ArgOk(u)
  BY DEF ObjectsInv, Base, CallTypes, ArgsOk
<1>2. PICK a : a = [prev |-> prev, data |-> n]
  OBVIOUS
<1>3. /\ a \in [prev: Item \cup {NoData}, data: Item \cup {NoData}]
      /\ a.prev = prev /\ a.data = n
  BY <1>2
<1>4. call' = [call EXCEPT ![t] = name] /\ arg' = [arg EXCEPT ![t] = a]
  BY <1>2 DEF Calls
<1>5. ArgTypes' /\ arg'[t] = a /\ call'[t] = name
  BY <1>1, <1>3, <1>4 DEF ArgTypes
<1>6. \A u \in Thread \ {t} : call'[u] = call[u] /\ arg'[u] = arg[u]
  BY <1>1, <1>4 DEF ArgTypes
<1>7. \A u \in Thread : ~Busy(u) => arg[u] = NoArg
  BY <1>1 DEF ArgOk, Busy, CallNames
<1>8. \A u \in Thread \ {t} : ArgKept(u)
  BY <1>6, <1>7 DEF ArgKept, Busy
<1> QED
  BY <1>3, <1>5, <1>6, <1>8

\* A call of a thread that ends leaves no locals.
LEMMA CallEndsArgs ==
  ASSUME ObjectsInv, QueueOk, QueueOk', CallTypes', NEW t \in Thread, Busy(t),
         Calls(t, "out", NoData, NoData),
         NEW S, Moved(S), IsList(obj', Buffer'), \A u \in Thread \ {t} : ~Removes(u),
         \A u \in Thread \ {t} : call[u] = "append" => arg[u].data \notin S
  PROVE  ArgsOk'
<1>1. "out" \in CallNames /\ NoData \in Item \cup {NoData}
  BY DEF CallNames
<1>2. /\ ArgTypes' /\ call'[t] = "out" /\ arg'[t].prev = NoData /\ arg'[t].data = NoData
      /\ \A u \in Thread \ {t} : call'[u] = call[u] /\ arg'[u] = arg[u] /\ ArgKept(u)
  BY <1>1, CallsArgs
<1>3. arg'[t] = NoArg
  BY <1>2 DEF ArgTypes, NoArg
<1>4. \A u \in Thread : ArgKept(u)
  BY <1>2, <1>3 DEF ArgKept, Busy
<1>5. \A u \in Thread : call'[u] = "append" => Spared(u)
  BY <1>2, MovedSpares
<1>6. \A u \in Thread : ~Removes(u)'
  BY <1>2 DEF Removes
<1>7. obj'.type = obj.type
  BY DEF QueueOk, QueueType
<1> QED
  BY <1>2, <1>4, <1>5, <1>6, <1>7, ArgsKept

LEMMA QueueLockedArgs ==
  ASSUME ObjectsInv, QueueOk, \A u \in Thread : ~Removes(u), AppendsSafe,
         NEW t \in Thread, NEW n \in Item, QueueAppendLocked(t, n)
  PROVE  Base' /\ QueueOk' /\ Effect /\ ArgsOk'
<1>1. IsList(obj, Buffer)
  BY QueueFields, WholeBefore
<1>2. Base' /\ QueueOk' /\ Effect /\ IsList(obj', Buffer') /\ Moved({n})
  BY <1>1, QueueLockedStep DEF Whole
<1>3. call[t] = "append" /\ n = arg[t].data /\ Calls(t, "out", NoData, NoData) /\ Busy(t)
  BY DEF QueueAppendLocked, Busy
<1>4. \A u \in Thread \ {t} : arg[u].data \notin {n}
  BY <1>3 DEF ObjectsInv, ArgsOk, ArgOk
<1>5. CallTypes'
  BY <1>2 DEF Base
<1>6. ArgsOk'
  BY <1>2, <1>3, <1>4, <1>5, CallEndsArgs
<1> QED
  BY <1>2, <1>6

LEMMA QueueSettleArgs ==
  ASSUME ObjectsInv, QueueOk, NEW t \in Thread, QueueSettle(t)
  PROVE  Base' /\ QueueOk' /\ Effect /\ ArgsOk'
<1>1. Base' /\ QueueOk' /\ Effect /\ IsList(obj', Buffer') /\ Moved({})
  BY QueueSettleStep DEF Whole
<1>2. Removes(t) /\ Busy(t) /\ Calls(t, "out", NoData, NoData)
  BY DEF QueueSettle, Removes, Busy
<1>3. \A u \in Thread \ {t} : ~Removes(u)
  BY <1>2 DEF ObjectsInv, ArgsOk
<1>4. CallTypes' /\ \A u \in Thread \ {t} : arg[u].data \notin {}
  BY <1>1 DEF Base
<1>5. ArgsOk'
  BY <1>1, <1>2, <1>3, <1>4, CallEndsArgs
<1> QED
  BY <1>1, <1>5

LEMMA QueueUnlinkArgs ==
  ASSUME ObjectsInv, QueueOk, NEW t \in Thread, QueueUnlink(t)
  PROVE  Base' /\ QueueOk' /\ Effect /\ ArgsOk'
<1>1. /\ call[t] = "remove" /\ Removes(t) /\ ArgTypes /\ obj.type = "queue"
      /\ Calls(t, "settle", arg[t].prev, arg[t].data)
  BY QueueFields DEF QueueUnlink, Removes, ObjectsInv, ArgsOk
<1>2. \A u \in Thread \ {t} : ~Removes(u)
  BY <1>1 DEF ObjectsInv, ArgsOk
<1>3. \A u \in Thread : call[u] # "settle"
  BY <1>1, <1>2 DEF Removes
<1>4. IsList(obj, Buffer)
  BY <1>1, <1>3 DEF ObjectsInv, ArgsOk
<1>5. /\ Base' /\ QueueOk' /\ Effect /\ Moved({})
      /\ IsList(Settled(obj', arg[t].prev, arg[t].data), Buffer')
  BY <1>4, QueueUnlinkStep
<1>6. PICK prev, n : prev = arg[t].prev /\ n = arg[t].data
  OBVIOUS
<1>7. prev \in Item \cup {NoData} /\ n \in Item \cup {NoData} /\ "settle" \in CallNames
  BY <1>1, <1>6 DEF ArgTypes, CallNames
<1>8. Calls(t, "settle", prev, n)
  BY <1>1, <1>6
<1>9. /\ ArgTypes' /\ call'[t] = "settle" /\ arg'[t].prev = prev /\ arg'[t].data = n
      /\ \A u \in Thread \ {t} : call'[u] = call[u] /\ arg'[u] = arg[u] /\ ArgKept(u)
  BY <1>7, <1>8, CallsArgs
<1>10. call' \in [Thread -> CallNames]
  BY <1>5 DEF Base, CallTypes
<1>11. ASSUME NEW u \in Thread
       PROVE  ArgOk(u)'
  <2>1. CASE u = t
    BY <1>5, <1>6, <1>9, <2>1 DEF ArgOk
  <2>2. CASE u # t /\ call[u] = "append"
    <3>1. Spared(u)
      BY <1>5, <2>2, MovedSpares
    <3>2. ArgOk(u)
      BY DEF ObjectsInv, ArgsOk
    <3>3. call'[u] = "append" /\ arg'[u] = arg[u] /\ \A v \in Thread : arg'[v].data = arg[v].data
      BY <1>6, <1>9, <2>2
    <3> QED
      BY <2>2, <3>1, <3>2, <3>3 DEF ArgOk, Spared
  <2>3. CASE u # t /\ call[u] # "append"
    <3>1. call'[u] = call[u] /\ ~Removes(u) /\ arg'[u] = arg[u] /\ ArgOk(u)
      BY <1>2, <1>9, <2>3 DEF ObjectsInv, ArgsOk
    <3> QED
      BY <2>3, <3>1 DEF ArgOk, Removes
  <2> QED
    BY <2>1, <2>2, <2>3
<1>12. \A u, v \in Thread : Removes(u)' /\ Removes(v)' => u = v
  BY <1>2, <1>9 DEF Removes
<1>13. obj'.type = "queue"
  BY <1>5 DEF QueueOk, QueueType
<1>14. ArgsOk'
  BY <1>9, <1>11, <1>12, <1>13 DEF ArgsOk
<1> QED
  BY <1>5, <1>14

\* A thread that has read the tail, or found its node.
LEMMA QueueReadArgs ==
  ASSUME ObjectsInv, QueueOk, \A u \in Thread : ~Removes(u), NEW t \in Thread, NEW n \in Item,
         QueueAppendPeek(t, n) \/ QueueFind(t, n)
  PROVE  Base' /\ QueueOk' /\ Effect /\ ArgsOk'
<1>1. Base' /\ QueueOk' /\ Effect /\ Buffer' = Buffer /\ obj' = obj /\ swap_data' = swap_data
  BY QueueReadStep DEF QueueAppendPeek, QueueFind
<1>2. /\ obj.type = "queue" /\ QueueBuffer = Buffer /\ Buffer \in Seq(Item) /\ obj \in QueueType
      /\ call[t] = "out"
  BY QueueFields DEF QueueAppendPeek, QueueFind, Outside
<1>3. IsList(obj, Buffer)
  BY <1>2, WholeBefore
<1>4. ASSUME NEW name \in {"append", "remove"}, NEW prev \in Item \cup {NoData},
             Calls(t, name, prev, n),
             name = "append" => n \in Unlisted,
             name = "remove" =>
               \E p \in 1 .. Len(Buffer) : n = Buffer[p] /\ prev = IF p = 1 THEN NoData ELSE Buffer[p - 1]
      PROVE  ArgsOk'
  <2>1. name \in CallNames /\ n \in Item \cup {NoData}
    BY DEF CallNames
  <2>2. /\ ArgTypes' /\ call'[t] = name /\ arg'[t].prev = prev /\ arg'[t].data = n
        /\ \A u \in Thread \ {t} : call'[u] = call[u] /\ arg'[u] = arg[u]
    BY <1>4, <2>1, CallsArgs
  <2>3. ArgOk(t)'
    <3>1. CASE name = "append"
      <4>1. n \notin ToSet(Buffer) /\ \A u \in Thread : swap_data[u] # n /\ arg[u].data # n
        BY <1>2, <1>4, <3>1 DEF Unlisted
      <4> QED
        BY <1>1, <2>2, <3>1, <4>1 DEF ArgOk
    <3>2. CASE name = "remove"
      BY <1>1, <1>4, <2>2, <3>2 DEF ArgOk
    <3> QED
      BY <3>1, <3>2
  <2>4. ASSUME NEW u \in Thread \ {t}
        PROVE  ArgOk(u)'
    <3>1. ArgOk(u) /\ ~Removes(u) /\ call'[u] = call[u] /\ arg'[u] = arg[u]
      BY <2>2 DEF ObjectsInv, ArgsOk
    <3>2. CASE call[u] = "append"
      <4>1. arg[u].data # n
        <5>1. CASE name = "append"
          BY <1>4, <5>1, UnlistedFresh
        <5>2. CASE name = "remove"
          <6>1. n \in ToSet(Buffer)
            BY <1>2, <1>4, <5>2, ToSetIndexed
          <6> QED
            BY <3>1, <3>2, <6>1 DEF ArgOk
        <5> QED
          BY <5>1, <5>2
      <4> QED
        BY <1>1, <2>2, <3>1, <3>2, <4>1 DEF ArgOk
    <3>3. CASE call[u] # "append"
      BY <3>1, <3>3 DEF ArgOk, Removes
    <3> QED
      BY <3>2, <3>3
  <2>5. \A u, v \in Thread : Removes(u)' /\ Removes(v)' => u = v
    BY <2>2 DEF Removes
  <2> QED
    BY <1>1, <1>2, <1>3, <2>2, <2>3, <2>4, <2>5 DEF ArgsOk
<1>5. CASE QueueAppendPeek(t, n)
  <2>1. PICK prev : prev = obj.tail
    OBVIOUS
  <2>2. prev \in Item \cup {NoData} /\ n \in Unlisted /\ Calls(t, "append", prev, n)
    BY <1>2, <1>5, <2>1 DEF QueueAppendPeek, QueueType
  <2> QED
    BY <1>1, <1>4, <2>2
<1>6. CASE QueueFind(t, n)
  <2>1. PICK prev : prev = Before(n)
    OBVIOUS
  <2>2. n \in ToSet(Buffer) /\ Calls(t, "remove", prev, n)
    BY <1>2, <1>6, <2>1 DEF QueueFind
  <2>3. PICK p \in 1 .. Len(Buffer) : n = Buffer[p] /\ prev = IF p = 1 THEN NoData ELSE Buffer[p - 1]
    BY <1>2, <2>1, <2>2, FoundInList
  <2>4. prev \in Item \cup {NoData}
    BY <1>2, <2>3
  <2> QED
    BY <1>1, <1>4, <2>2, <2>3, <2>4
<1> QED
  BY <1>5, <1>6

LEMMA QueueStep ==
  ASSUME ObjectsInv, QueueOk, QueueNext, AppendsSafe, Undisturbed
  PROVE  Base' /\ QueueOk' /\ Effect /\ ArgsOk'
<1>1. CASE QueueUse
  <2>1. \A t \in Thread : ~Removes(t)
    BY <1>1 DEF Undisturbed, Removes
  <2>2. CASE QueueCalls(TRUE) /\ arg' = arg
    BY <2>1, <2>2, QueueCallArgs DEF Caller
  <2>3. ASSUME NEW t \in Thread, Outside(t), QueueCalls(FALSE), arg' = arg
        PROVE  Base' /\ QueueOk' /\ Effect /\ ArgsOk'
    <3>1. Caller(FALSE)
      BY <2>3 DEF Caller, Outside, Held
    <3> QED
      BY <2>1, <2>3, <3>1, QueueCallArgs
  <2>4. ASSUME NEW t \in Thread, QueueGetWait(t), arg' = arg
        PROVE  Base' /\ QueueOk' /\ Effect /\ ArgsOk'
    BY <2>4, QueueWaitArgs
  <2>5. ASSUME NEW t \in Thread, NEW n \in Item,
               QueueAppendPeek(t, n) \/ QueueAppendLocked(t, n) \/ QueueFind(t, n)
        PROVE  Base' /\ QueueOk' /\ Effect /\ ArgsOk'
    BY <2>1, <2>5, QueueReadArgs, QueueLockedArgs
  <2> QED
    BY <1>1, <2>2, <2>3, <2>4, <2>5 DEF QueueUse
<1>2. ASSUME NEW t \in Thread, QueueUnlink(t) \/ QueueSettle(t) \/ (ReturnFrom(t, "get") /\ arg' = arg)
      PROVE  Base' /\ QueueOk' /\ Effect /\ ArgsOk'
  BY <1>2, QueueUnlinkArgs, QueueSettleArgs, QueueWaitArgs
<1> QED
  BY <1>1, <1>2 DEF QueueNext

\* The calls of the other objects lock interrupts throughout.
LEMMA OtherCalls ==
  ASSUME CallTypes, MsgqNext \/ StackNext \/ SlabNext
  PROVE  \A t \in Thread : call'[t] \in {call[t], "out", "get", "put"}
<1>1. call \in [Thread -> CallNames]
  BY DEF CallTypes
<1>2. ASSUME NEW isr, MsgqCalls(isr) \/ StackCalls(isr) \/ SlabCalls(isr)
      PROVE  call' = call
  BY <1>2 DEF MsgqCalls, MsgqGet, MsgqPurge, MsgqPut, StackCalls, StackPop, StackPush,
              SlabCalls, SlabAlloc, SlabFree, Give, Hand, waiting
<1>3. ASSUME NEW t \in Thread,
             \/ MsgqReturn(t) \/ MsgqGetWait(t) \/ (\E m \in Item : MsgqPutWait(t, m))
             \/ StackPopWait(t) \/ SlabAllocWait(t) \/ ReturnFrom(t, "get")
      PROVE  \E name \in {"out", "get", "put"} : call' = [call EXCEPT ![t] = name]
  BY <1>3 DEF MsgqReturn, MsgqGetWait, MsgqPutWait, StackPopWait, SlabAllocWait, ReturnFrom, WaitIn
<1> QED
  BY <1>1, <1>2, <1>3 DEF MsgqNext, StackNext, SlabNext

LEMMA OtherArgs ==
  ASSUME ObjectsInv, MsgqNext \/ StackNext \/ SlabNext, arg' = arg, Base',
         obj.type # "queue", obj'.type = obj.type
  PROVE  ArgsOk'
<1>1. CallTypes /\ CallTypes'
  BY DEF ObjectsInv, Base
<1>2. \A t \in Thread : ~Busy(t)
  BY DEF ObjectsInv, ArgsOk, Busy
<1>3. \A t \in Thread : ~Busy(t)'
  BY <1>1, <1>2, OtherCalls DEF Busy
<1>4. ArgTypes' /\ \A t \in Thread : ArgKept(t)
  BY <1>1, <1>2, <1>3, IdleArgs
<1>5. \A t \in Thread : ~Removes(t)' /\ call'[t] # "append"
  BY <1>3 DEF Busy, Removes
<1> QED
  BY <1>1, <1>4, <1>5, ArgsKept

LEMMA ElsewhereArgs ==
  ASSUME ObjectsInv, Elsewhere, Base', Buffer' = Buffer, obj' = obj,
         \A t \in Thread : Removes(t) => call'[t] = call[t],
         arg' = [t \in Thread |-> IF call'[t] = call[t] THEN arg[t] ELSE NoArg]
  PROVE  ArgsOk'
<1>1. /\ call \in [Thread -> CallNames] /\ swap_data \in [Thread -> Item \cup {NoData}]
      /\ CallTypes' /\ ArgTypes /\ \A t \in Thread : ArgOk(t)
  BY DEF ObjectsInv, Base, CallTypes, ArgsOk
<1>2. \/ UNCHANGED waiting
      \/ \E u \in Thread : /\ call' = [call EXCEPT ![u] = "out"]
                           /\ swap_data' = [swap_data EXCEPT ![u] = NoData]
  BY DEF Elsewhere
<1>3. /\ \A t \in Thread : call'[t] \in {call[t], "out"}
      /\ \A t \in Thread : swap_data'[t] \in {swap_data[t], NoData}
  BY <1>1, <1>2 DEF waiting
<1>4. NoArg \in [prev: Item \cup {NoData}, data: Item \cup {NoData}]
  BY DEF NoArg
<1>5. ArgTypes'
  BY <1>1, <1>4 DEF ArgTypes
<1>6. \A t \in Thread : ~Busy(t) => arg[t] = NoArg
  BY <1>1 DEF ArgOk, Busy, CallNames
<1>7. \A t \in Thread : ArgKept(t)
  BY <1>3, <1>6 DEF ArgKept, Busy
<1>8. Moved({})
  BY <1>3 DEF Moved
<1>9. \A t \in Thread : call'[t] = "append" => Spared(t)
  BY <1>3, <1>8, MovedSpares
<1> QED
  BY <1>1, <1>5, <1>7, <1>9, ArgsKept

\* Every step has one of the effects, and leaves the object sound.
LEMMA NextEffect ==
  ASSUME ObjectsInv, ObjectsNext, Careful, Careful', AppendsSafe, Undisturbed
  PROVE  Base' /\ ObjectOk' /\ Effect /\ obj'.type = obj.type /\ ArgsOk'
<1>1. /\ obj.type = "msgq" => MsgqOk
      /\ obj.type = "stack" => StackOk
      /\ obj.type = "slab" => SlabOk
      /\ obj.type = "queue" => QueueOk
  BY TypeOfObject DEF ObjectsInv
<1>2. CASE obj.type = "msgq" /\ MsgqNext /\ UNCHANGED arg
  <2>1. Base' /\ MsgqOk' /\ Effect
    BY <1>1, <1>2, MsgqStep
  <2>2. ObjectOk' /\ obj'.type = obj.type
    BY <1>2, <2>1 DEF ObjectOk, MsgqOk, RingOk, MsgqType
  <2> QED
    BY <1>2, <2>1, <2>2, OtherArgs
<1>3. CASE obj.type = "stack" /\ StackNext /\ UNCHANGED arg
  <2>1. Base' /\ StackOk' /\ Effect
    BY <1>1, <1>3, StackStep
  <2>2. ObjectOk' /\ obj'.type = obj.type
    BY <1>3, <2>1 DEF ObjectOk, StackOk
  <2> QED
    BY <1>3, <2>1, <2>2, OtherArgs
<1>4. CASE obj.type = "slab" /\ SlabNext /\ UNCHANGED arg
  <2>1. Base' /\ SlabOk' /\ Effect
    BY <1>1, <1>4, SlabStep
  <2>2. ObjectOk' /\ obj'.type = obj.type
    BY <1>4, <2>1 DEF ObjectOk, SlabOk
  <2> QED
    BY <1>4, <2>1, <2>2, OtherArgs
<1>a. ASSUME Base', QueueOk', Effect, ArgsOk', obj.type = "queue"
      PROVE  ObjectOk' /\ obj'.type = obj.type
  BY <1>a DEF ObjectOk, QueueOk, QueueType
<1>5. CASE obj.type = "queue" /\ QueueNext
  BY <1>1, <1>5, <1>a, QueueStep
<1>b. ASSUME NEW t \in Thread, QueueUnlink(t) \/ QueueSettle(t), Removes(t)
      PROVE  Base' /\ ObjectOk' /\ Effect /\ obj'.type = obj.type /\ ArgsOk'
  <2>1. obj.type = "queue"
    BY <1>b DEF ObjectsInv, ArgsOk, Removes
  <2> QED
    BY <1>1, <1>a, <1>b, <2>1, QueueUnlinkArgs, QueueSettleArgs
<1>6. CASE /\ Elsewhere
           /\ arg' = [t \in Thread |-> IF call'[t] = call[t] THEN arg[t] ELSE NoArg]
  <2>1. CASE \A t \in Thread : Removes(t) => call'[t] = call[t]
    <3>1. Base' /\ obj' = obj /\ Effect
      BY <1>6, ElsewhereStep
    <3>2. ObjectOk' /\ Buffer' = Buffer
      BY <3>1, BufferSame DEF ObjectsInv
    <3>3. ArgsOk'
      BY <1>6, <2>1, <3>1, <3>2, ElsewhereArgs
    <3> QED
      BY <3>1, <3>2, <3>3
  <2>2. CASE ~\A t \in Thread : Removes(t) => call'[t] = call[t]
    <3>1. \E t \in Thread : (QueueUnlink(t) \/ QueueSettle(t)) /\ Removes(t)
      BY <2>2 DEF Undisturbed, Removes
    <3> QED
      BY <1>b, <3>1
  <2> QED
    BY <2>1, <2>2
<1> QED
  BY <1>2, <1>3, <1>4, <1>5, <1>6 DEF ObjectsNext

\* What the users see to, at every step.
CarefulStep == Careful /\ Careful' /\ AppendsSafe /\ [Undisturbed]_objectVars

LEMMA ObjectsInvNext ==
  ASSUME ObjectsInv, [ObjectsNext]_objectVars, CarefulStep
  PROVE  ObjectsInv'
<1>1. CASE UNCHANGED objectVars
  <2>1. k' = k /\ obj' = obj /\ call' = call /\ swap_data' = swap_data /\ arg' = arg
    BY <1>1 DEF objectVars, waiting
  <2>2. Base'
    BY <2>1, QuietEffect DEF ObjectsInv, waiting
  <2>3. ObjectOk' /\ Buffer' = Buffer
    BY <2>1, BufferSame DEF ObjectsInv
  <2>4. ArgsOk'
    BY <2>1, <2>3 DEF ObjectsInv, ArgsOk, ArgTypes, ArgOk, Removes
  <2> QED
    BY <2>1, <2>2, <2>3, <2>4 DEF ObjectsInv, WaiterOk
<1>2. CASE ObjectsNext /\ ~UNCHANGED objectVars
  <2>1. Base' /\ ObjectOk' /\ Effect /\ obj'.type = obj.type /\ ArgsOk'
    BY <1>2, NextEffect DEF CarefulStep
  <2>2. /\ \A t \in Thread : call'[t] = "put" => obj'.type = "msgq"
        /\ \A t \in Thread : Waits(k', t) => WaiterOk(t)'
    BY <2>1, WaitersKept
  <2> QED
    BY <2>1, <2>2 DEF ObjectsInv
<1> QED
  BY <1>1, <1>2

LEMMA ObjectsInvInit ==
  ASSUME ObjectsInit
  PROVE  ObjectsInv
<1>1. /\ Init /\ call = [t \in Thread |-> "out"] /\ swap_data = [t \in Thread |-> NoData]
      /\ MsgqInit \/ StackInit \/ SlabInit \/ QueueInit
      /\ arg = [t \in Thread |-> NoArg]
  BY DEF ObjectsInit, ObjectInit
<1>2. PICK prio \in [Thread -> Prio], delayed \in SUBSET (Thread \ {Main}) :
        k = BootState(prio, delayed)
  BY <1>1 DEF Init
<1>3. SchedInv
  BY <1>2, BootInv DEF SchedInv
<1>4. NoneWaits
  BY <1>2 DEF BootState, NoneWaits, Waits
<1>5. Base
  BY <1>1, <1>3, <1>4 DEF Base, InLine, CallTypes, CallNames, NoneWaits
<1>6. ASSUME MsgqInit PROVE ObjectOk
  <2> DEFINE f == [i \in Slot |-> NoData]
  <2>1. obj = [type |-> "msgq", slot |-> f, read |-> 0, write |-> 0, used |-> 0]
    BY <1>6 DEF MsgqInit
  <2>2. f \in [Slot -> Item \cup {NoData}] /\ 0 \in Slot /\ 0 \in 0 .. MaxItems
    BY ObjectAssumption DEF Slot
  <2> HIDE DEF f
  <2>3. obj \in MsgqType /\ obj.used = 0 /\ obj.read = 0 /\ obj.write = 0
    BY <2>1, <2>2 DEF MsgqType
  <2>4. Wrapped(0 + 0) = 0
    BY ObjectAssumption DEF Wrapped
  <2> QED
    BY <2>3, <2>4 DEF ObjectOk, MsgqOk, RingOk
<1>7. ASSUME StackInit PROVE ObjectOk
  BY <1>7, ObjectAssumption DEF StackInit, ObjectOk, StackOk
<1>8. ASSUME SlabInit PROVE ObjectOk
  <2>1. PICK free \in SetToSeqs(Item) : obj = [type |-> "slab", free |-> free, used |-> 0]
    BY <1>8 DEF SlabInit
  <2> DEFINE c == Cardinality(Item)
  <2>2. free \in [1 .. c -> Item] /\ \A i, j \in 1 .. c : i # j => free[i] # free[j]
    BY DEF SetToSeqs
  <2>3. c \in Nat
    BY FS_CardinalityType, ObjectAssumption
  <2> HIDE DEF c
  <2>4. free \in Seq(Item) /\ Len(free) = c
    BY <2>2, <2>3, SeqFromFunction
  <2>5. NoDuplicates(free)
    BY <2>2, <2>4 DEF NoDuplicates
  <2>6. 0 \in 0 .. c /\ 0 + Len(free) = c
    BY <2>3, <2>4
  <2>7. obj.free = free /\ obj.used = 0
    BY <2>1
  <2>8. obj \in [type: {"slab"}, free: Seq(Item), used: 0 .. c]
    BY <2>1, <2>4, <2>6
  <2> QED
    BY <2>5, <2>6, <2>7, <2>8 DEF ObjectOk, SlabOk, c
<1>9. ASSUME QueueInit PROVE ObjectOk /\ IsList(obj, Buffer)
  <2> DEFINE f == [n \in Item |-> NoData]
  <2>1. obj = [type |-> "queue", head |-> NoData, tail |-> NoData, next |-> f]
    BY <1>9 DEF QueueInit
  <2>2. f \in [Item -> Item \cup {NoData}]
    OBVIOUS
  <2> HIDE DEF f
  <2>3. obj \in QueueType /\ obj.head = NoData /\ obj.tail = NoData
    BY <2>1, <2>2 DEF QueueType
  <2>4. IsList(obj, <<>>)
    BY <2>3 DEF IsList, IsChain, NoDuplicates
  <2>5. IsChain(obj, <<>>)
    BY <2>4 DEF IsList
  <2>6. Buffer = <<>>
    BY <2>3, <2>5, ListIsBuffer DEF HoldsItsList
  <2>7. QueueOk
    BY <2>3, <2>5 DEF QueueOk
  <2> QED
    BY <2>4, <2>6, <2>7 DEF ObjectOk
<1>10. obj.type = "queue" => IsList(obj, Buffer)
  <2>1. MsgqInit \/ StackInit \/ SlabInit => obj.type # "queue"
    BY DEF MsgqInit, StackInit, SlabInit
  <2> QED
    BY <1>1, <1>9, <2>1
<1>11. \A t \in Thread : call[t] = "out" /\ arg[t] = NoArg
  BY <1>1
<1>12. ArgTypes
  <2>1. NoArg \in [prev: Item \cup {NoData}, data: Item \cup {NoData}]
    BY DEF NoArg
  <2> HIDE DEF NoArg
  <2> QED
    BY <1>1, <2>1 DEF ArgTypes
<1>13. ArgsOk
  BY <1>10, <1>11, <1>12 DEF ArgsOk, ArgOk, Removes
<1> QED
  BY <1>1, <1>4, <1>5, <1>6, <1>7, <1>8, <1>9, <1>13 DEF ObjectsInv, NoneWaits

\* The invariant of the objects and of the threads that wait for them, where
\* users see to what the code leaves to them: no call takes a thread out of
\* the clock's hands (Careful), the tail that k_queue_append() has read does
\* not leave with a node behind it (AppendsSafe), and k_queue_remove() has the
\* queue for itself (Undisturbed).
THEOREM ObjectsInvariant == ObjectsSpec /\ UsedWithCare => []ObjectsInv
<1>1. ObjectsInit => ObjectsInv
  BY ObjectsInvInit
<1>2. /\ ObjectsInv /\ [ObjectsNext]_objectVars /\ Careful /\ Careful' /\ AppendsSafe
      /\ [Undisturbed]_objectVars
      => ObjectsInv'
  BY ObjectsInvNext DEF CarefulStep
<1> QED
  BY <1>1, <1>2, PTL DEF ObjectsSpec, UsedWithCare

\* The object, the threads' calls and their data have the types their C
\* declarations intend, for every number of threads and items, under the care
\* that ObjectsInvariant asks of the users.
THEOREM ObjectsTypeCorrect == ObjectsSpec /\ UsedWithCare => []ObjectsTypeOK
<1>1. ASSUME ObjectsInv
      PROVE  ObjectsTypeOK
  <2>1. TypeOK
    BY <1>1, BaseFacts DEF ObjectsInv, TypeOK
  <2>2. obj \in MsgqType \cup StackType \cup SlabType \cup QueueType
    <3>1. MsgqOk => obj \in MsgqType
      BY DEF MsgqOk, RingOk
    <3>2. ASSUME StackOk PROVE obj \in StackType
      <4>1. obj.word \in [1 .. Len(obj.word) -> Item] /\ Len(obj.word) \in 0 .. MaxItems
        BY <3>2, ObjectAssumption DEF StackOk
      <4>2. obj.word \in BoundedSeq(Item, MaxItems)
        BY <4>1 DEF BoundedSeq, SeqOf
      <4> QED
        BY <3>2, <4>2 DEF StackOk, StackType
    <3>3. ASSUME SlabOk PROVE obj \in SlabType
      <4>1. /\ obj.free \in Seq(Item) /\ Len(obj.free) \in Nat /\ Cardinality(Item) \in Nat
            /\ NoDuplicates(obj.free)
        BY <3>3, SlabFields
      <4>2. Len(obj.free) <= Cardinality(Item)
        BY <4>1, ListLength
      <4>3. obj.free \in [1 .. Len(obj.free) -> Item] /\ Len(obj.free) \in 0 .. Cardinality(Item)
        BY <4>1, <4>2
      <4>4. obj.free \in BoundedSeq(Item, Cardinality(Item))
        BY <4>3 DEF BoundedSeq, SeqOf
      <4> QED
        BY <3>3, <4>4 DEF SlabOk, SlabType
    <3>4. QueueOk => obj \in QueueType
      BY DEF QueueOk
    <3> QED
      BY <1>1, <3>1, <3>2, <3>3, <3>4 DEF ObjectsInv, ObjectOk
  <2>3. /\ call \in [Thread -> {"out", "get", "put", "append", "remove", "settle"}]
        /\ swap_data \in [Thread -> Item \cup {NoData}]
    BY <1>1 DEF ObjectsInv, Base, CallTypes, CallNames
  <2>4. arg \in [Thread -> [prev: Item \cup {NoData}, data: Item \cup {NoData}]]
    BY <1>1 DEF ObjectsInv, ArgsOk, ArgTypes
  <2> QED
    BY <2>1, <2>2, <2>3, <2>4 DEF ObjectsTypeOK
<1> QED
  BY <1>1, ObjectsInvariant, PTL

\* Nobody waits without need, and readers and writers never wait together
\* (k_msgq_put and k_msgq_get share one wait queue), whatever waits time out,
\* are cancelled, purged or aborted, under the care that ObjectsInvariant asks
\* of the users.
THEOREM WaitersAreRight == ObjectsSpec /\ UsedWithCare => []WaitersAgree
<1>1. ASSUME ObjectsInv
      PROVE  WaitersAgree
  <2>1. ASSUME NEW t \in ToSet(k.waitq[ObjectQ])
        PROVE  t \in Thread /\ Waits(k, t)
    BY <1>1, BaseFacts DEF ObjectsInv
  <2> QED
    BY <1>1, <2>1 DEF ObjectsInv, WaiterOk, WaitersAgree
<1> QED
  BY <1>1, ObjectsInvariant, PTL

LEMMA InsertArrives ==
  ASSUME ObjectsInv, QueueOk, IsList(obj, Buffer), NEW isr \in BOOLEAN, NEW n \in Item,
         NEW prev \in ToSet(QueueBuffer) \cup {obj.tail, NoData}, QueueInsert(isr, prev, n)
  PROVE  n \in ToSet(Buffer') \/ \E t \in Thread : swap_data'[t] = n
<1>1. /\ Base /\ QueueBuffer = Buffer /\ prev \in ToSet(Buffer) \cup {NoData}
      /\ swap_data \in [Thread -> Item \cup {NoData}]
  BY QueueFields, QueueTail DEF ObjectsInv, Base, CallTypes
<1>2. PICK stored : stored = Inserted(obj, prev, n)
  OBVIOUS
<1>3. n \in Unlisted /\ Give(isr, n, stored)
  BY <1>2 DEF QueueInsert
<1>4. FreshItem(n)
  BY <1>3, UnlistedFresh
<1>5. CASE HasWaiter(k, ObjectQ)
  <2>1. Waiter(k, ObjectQ) \in Thread
    BY <1>1, <1>5, BaseFacts, WaiterType
  <2>2. swap_data' = [swap_data EXCEPT ![Waiter(k, ObjectQ)] = n]
    BY <1>3, <1>5 DEF Give, Hand
  <2>3. swap_data'[Waiter(k, ObjectQ)] = n
    BY <1>1, <2>1, <2>2
  <2> QED
    BY <2>1, <2>3
<1>6. CASE ~HasWaiter(k, ObjectQ)
  <2>1. obj' = stored /\ UNCHANGED <<k, waiting>>
    BY <1>3, <1>6 DEF Give
  <2>2. Others({}) /\ NoneWaits
    BY <1>1, <1>6, <2>1, NoWaiter, QuietEffect
  <2> QED
    BY <1>1, <1>2, <1>4, <2>1, <2>2, QueuePutIn
<1> QED
  BY <1>5, <1>6

LEMMA PairArrives ==
  ASSUME ObjectsInv, QueueOk, IsList(obj, Buffer), NEW isr \in BOOLEAN,
         NEW m \in Item, NEW n \in Item, QueueAppendList(isr, m, n)
  PROVE  \A d \in {m, n} : d \in ToSet(Buffer') \/ \E t \in Thread : swap_data'[t] = d
<1> DEFINE linked == [obj EXCEPT !.next = [@ EXCEPT ![m] = n, ![n] = NoData]]
<1>1. PICK q : q = k.waitq[ObjectQ]
  OBVIOUS
<1>2. /\ obj \in QueueType /\ Buffer \in Seq(Item) /\ QueueBuffer = Buffer
      /\ q \in Seq(Thread) /\ Len(q) \in Nat
      /\ \A t \in Thread : Waits(k, t) <=> t \in ToSet(q)
  BY <1>1, QueueFields, BaseFacts DEF ObjectsInv
<1>3. {m, n} \subseteq Unlisted /\ m # n
  BY DEF QueueAppendList
<1>4. m \notin ToSet(Buffer) /\ n \notin ToSet(Buffer)
  BY <1>3, UnlistedFresh
<1>5. /\ swap_data' = [t \in Thread |-> IF Len(q) >= 1 /\ t = q[1] THEN m
                                        ELSE IF Len(q) >= 2 /\ t = q[2] THEN n
                                        ELSE swap_data[t]]
      /\ obj' = CASE Len(q) = 0 -> AppendedList(linked, m, n)
                  [] Len(q) = 1 -> AppendedList(linked, n, n)
                  [] OTHER      -> linked
  BY <1>1 DEF QueueAppendList
<1>6. /\ AppendedList(linked, m, n) \in QueueType
      /\ IsList(AppendedList(linked, m, n), Buffer \o <<m, n>>)
      /\ Buffer = <<>> => /\ AppendedList(linked, n, n) \in QueueType
                          /\ IsList(AppendedList(linked, n, n), <<n>>)
  <2>1. linked = [obj EXCEPT !.next = [@ EXCEPT ![m] = n, ![n] = NoData]]
    OBVIOUS
  <2> HIDE DEF linked
  <2> QED
    BY <1>2, <1>3, <1>4, <2>1, AppendedPair
<1> HIDE DEF linked
<1>7. \A i \in 1 .. Len(q) : q[i] \in Thread
  BY <1>2
<1>8. CASE Len(q) = 0
  <2>1. obj' = AppendedList(linked, m, n)
    BY <1>5, <1>8
  <2>2. Buffer' = Buffer \o <<m, n>>
    BY <1>6, <2>1, QueueHoldsWhole
  <2>3. PICK c : c = Len(Buffer)
    OBVIOUS
  <2>4. /\ Buffer' \in Seq(Item) /\ Len(Buffer') = c + 2 /\ c \in Nat
        /\ Buffer'[c + 1] = m /\ Buffer'[c + 2] = n
    BY <1>2, <2>2, <2>3
  <2>5. c + 1 \in 1 .. c + 2 /\ c + 2 \in 1 .. c + 2
    BY <2>4
  <2>6. m \in ToSet(Buffer') /\ n \in ToSet(Buffer')
    BY <2>4, <2>5, ToSetIndexed
  <2> QED
    BY <2>6
<1>9. CASE Len(q) = 1
  <2>1. obj' = AppendedList(linked, n, n) /\ 1 \in 1 .. Len(q) /\ Len(q) >= 1
    BY <1>5, <1>9
  <2>2. q[1] \in Thread
    BY <1>7, <2>1
  <2>3. swap_data'[q[1]] = m
    BY <1>5, <2>1, <2>2
  <2>4. q[1] \in ToSet(q)
    BY <1>2, <2>1, ToSetIndexed
  <2>5. Waits(k, q[1])
    BY <1>2, <2>2, <2>4
  <2>6. obj.type = "queue"
    BY QueueFields
  <2>7. Buffer = <<>>
    BY <2>2, <2>5, <2>6 DEF ObjectsInv, WaiterOk
  <2>8. Buffer' = <<n>>
    BY <1>6, <2>1, <2>7, QueueHoldsWhole
  <2>9. n \in ToSet(Buffer')
    <3>1. 1 \in DOMAIN <<n>> /\ <<n>>[1] = n
      OBVIOUS
    <3> QED
      BY <2>8, <3>1 DEF ToSet
  <2> QED
    BY <2>2, <2>3, <2>9
<1>10. CASE Len(q) # 0 /\ Len(q) # 1
  <2>1. 1 \in 1 .. Len(q) /\ 2 \in 1 .. Len(q) /\ Len(q) >= 1 /\ Len(q) >= 2
    <3>1. PICK c \in Nat : c = Len(q)
      BY <1>2
    <3>2. c # 0 /\ c # 1
      BY <1>10, <3>1
    <3>3. 1 \in 1 .. c /\ 2 \in 1 .. c /\ c >= 1 /\ c >= 2
      BY <3>2
    <3> QED
      BY <3>1, <3>3
  <2>2. q[1] \in Thread /\ q[2] \in Thread
    BY <1>7, <2>1
  <2>3. NoDuplicates(q)
    BY <1>1, BaseFacts DEF ObjectsInv, WaitQOk
  <2>4. q[1] # q[2]
    BY <1>2, <2>1, <2>3 DEF NoDuplicates
  <2>5. swap_data'[q[1]] = m /\ swap_data'[q[2]] = n
    BY <1>5, <2>1, <2>2, <2>4
  <2> QED
    BY <2>2, <2>5
<1> QED
  BY <1>8, <1>9, <1>10

\* No item is lost on its way into a queue by k_queue_append(), _prepend(),
\* _insert() or _append_list(), in an interrupt or in a thread, as long as the
\* tail that k_queue_append() has read does not leave with a node behind it,
\* and k_queue_remove() has the queue for itself.
THEOREM QueueLosesNothing == ObjectsSpec /\ UsedWithCare => QueueKeepsItems
<1>1. ObjectsInv /\ AppendsSafe /\ [Undisturbed]_objectVars /\ [ObjectsNext]_objectVars
      => [PutArrives]_<<obj, swap_data>>
  <2>1. ASSUME ObjectsInv, AppendsSafe, Undisturbed, ObjectsNext, obj.type = "queue",
               NEW n \in Item, QueuePut(n)
        PROVE  n \in ToSet(QueueBuffer') \/ \E t \in Thread : swap_data'[t] = n
    <3>1. QueueOk /\ QueueUse
      BY <2>1, TypeOfObject DEF ObjectsInv, QueuePut
    <3>2. IsList(obj, Buffer)
      <4>1. \A t \in Thread : ~Removes(t)
        BY <2>1, <3>1 DEF Undisturbed, Removes
      <4> QED
        BY <2>1, <4>1, WholeBefore
    <3>3. ASSUME NEW isr \in BOOLEAN, NEW prev \in ToSet(QueueBuffer) \cup {obj.tail, NoData},
                 QueueInsert(isr, prev, n)
          PROVE  n \in ToSet(Buffer') \/ \E t \in Thread : swap_data'[t] = n
      BY <2>1, <3>1, <3>2, <3>3, InsertArrives
    <3>4. ASSUME NEW isr \in BOOLEAN, NEW m \in Item,
                 QueueAppendList(isr, m, n) \/ QueueAppendList(isr, n, m)
          PROVE  n \in ToSet(Buffer') \/ \E t \in Thread : swap_data'[t] = n
      BY <2>1, <3>1, <3>2, <3>4, PairArrives
    <3>5. ASSUME NEW t \in Thread, QueueAppendLocked(t, n)
          PROVE  n \in ToSet(Buffer') \/ \E u \in Thread : swap_data'[u] = n
      BY <2>1, <3>1, <3>2, <3>5, QueueLockedStep
    <3>6. n \in ToSet(Buffer') \/ \E t \in Thread : swap_data'[t] = n
      <4>1. \A m \in Unlisted \ {n} : m \in Item
        BY DEF Unlisted
      <4> QED
        BY <2>1, <3>3, <3>4, <3>5, <4>1 DEF QueuePut
    <3>7. obj'.type = "queue"
      <4>1. QueueNext
        BY <3>1 DEF QueueNext
      <4>2. QueueOk'
        BY <2>1, <3>1, <4>1, QueueStep
      <4> QED
        BY <4>2 DEF QueueOk, QueueType
    <3>8. Buffer' = QueueBuffer'
      BY <3>7 DEF Buffer
    <3> QED
      BY <3>6, <3>8
  <2>2. ASSUME ObjectsInv, AppendsSafe, Undisturbed, ObjectsNext
        PROVE  PutArrives
    BY <2>1, <2>2, Zenon DEF PutArrives
  <2>3. UNCHANGED objectVars => UNCHANGED <<obj, swap_data>>
    BY DEF objectVars, waiting
  <2> QED
    BY <2>2, <2>3
<1> QED
  BY <1>1, ObjectsInvariant, PTL DEF ObjectsSpec, QueueKeepsItems, UsedWithCare

-----------------------------------------------------------------------------
(***************************************************************************)
(* The objects implement the abstract channel: every effect is a step of   *)
(* the channel, or leaves its state as it is.                              *)
(***************************************************************************)

At(what, item) == [what |-> what, item |-> item]

\* What the channel sees of a thread, case by case.
StatusTable ==
  \A t \in Thread :
    /\ call[t] \notin {"get", "put"} => ChannelStatus[t] = At("out", NoData)
    /\ call[t] = "get" /\ Waits(k, t) => ChannelStatus[t] = At("reading", NoData)
    /\ call[t] = "put" /\ Waits(k, t) => ChannelStatus[t] = At("writing", swap_data[t])
    /\ call[t] = "put" /\ ~Waits(k, t) /\ k.ret[t] = "OK" => ChannelStatus[t] = At("written", NoData)
    /\ call[t] = "get" /\ ~Waits(k, t) /\ k.ret[t] = "OK" /\ swap_data[t] # NoData
         => ChannelStatus[t] = At("got", swap_data[t])
    /\ call[t] = "get" /\ ~Waits(k, t) /\ k.ret[t] = "OK" /\ swap_data[t] = NoData
         => ChannelStatus[t] = At("failed", NoData)
    /\ call[t] \in {"get", "put"} /\ ~Waits(k, t) /\ k.ret[t] # "OK"
         => ChannelStatus[t] = At("failed", NoData)
    /\ ChannelStatus[t].item \in {swap_data[t], NoData}

LEMMA StatusOfThreads == StatusTable
<1> SUFFICES ASSUME NEW t \in Thread
             PROVE
    /\ call[t] \notin {"get", "put"} => ChannelStatus[t] = At("out", NoData)
    /\ call[t] = "get" /\ Waits(k, t) => ChannelStatus[t] = At("reading", NoData)
    /\ call[t] = "put" /\ Waits(k, t) => ChannelStatus[t] = At("writing", swap_data[t])
    /\ call[t] = "put" /\ ~Waits(k, t) /\ k.ret[t] = "OK" => ChannelStatus[t] = At("written", NoData)
    /\ call[t] = "get" /\ ~Waits(k, t) /\ k.ret[t] = "OK" /\ swap_data[t] # NoData
         => ChannelStatus[t] = At("got", swap_data[t])
    /\ call[t] = "get" /\ ~Waits(k, t) /\ k.ret[t] = "OK" /\ swap_data[t] = NoData
         => ChannelStatus[t] = At("failed", NoData)
    /\ call[t] \in {"get", "put"} /\ ~Waits(k, t) /\ k.ret[t] # "OK"
         => ChannelStatus[t] = At("failed", NoData)
    /\ ChannelStatus[t].item \in {swap_data[t], NoData}
  BY DEF StatusTable
<1> QED
  BY DEF ChannelStatus, Granted, Waits, At

LEMMA StatusNext == StatusTable'
  BY StatusOfThreads, PTL

StatusIsFunction == ChannelStatus = [t \in Thread |-> ChannelStatus[t]]

LEMMA StatusFunction == StatusIsFunction
  BY DEF ChannelStatus, StatusIsFunction

LEMMA StatusFunctionNext == StatusIsFunction'
  BY StatusFunction, PTL

LEMMA StatusKept ==
  ASSUME Base, NEW t \in Thread, Kept(t)
  PROVE  ChannelStatus'[t] = ChannelStatus[t]
<1>1. CASE Held(t)
  <2>1. call'[t] = call[t] /\ k'.ret[t] = k.ret[t] /\ swap_data'[t] = swap_data[t]
        /\ (Waits(k', t) <=> Waits(k, t))
    BY <1>1 DEF Kept, CallKept
  <2> QED
    BY <1>1, <2>1, StatusOfThreads, StatusNext DEF StatusTable, Held
<1>2. CASE ~Held(t)
  <2>1. call'[t] \notin {"get", "put"}
    BY <1>2 DEF Kept, CallKept, Held
  <2> QED
    BY <1>2, <2>1, StatusOfThreads, StatusNext DEF StatusTable, Held
<1> QED
  BY <1>1, <1>2

\* What a step leaves alone, the channel does not see change.
LEMMA StatusSame ==
  ASSUME Base, Others({})
  PROVE  ChannelStatus' = ChannelStatus
<1>1. \A t \in Thread : ChannelStatus'[t] = ChannelStatus[t]
  BY StatusKept DEF Others
<1> QED
  BY <1>1, StatusFunction, StatusFunctionNext DEF StatusIsFunction

LEMMA StatusBecomes ==
  ASSUME Base, NEW u \in Thread, Others({u}), NEW what, NEW item,
         ChannelStatus'[u] = At(what, item)
  PROVE  Channel!Become(u, what, item)
<1>1. \A t \in Thread \ {u} : ChannelStatus'[t] = ChannelStatus[t]
  BY StatusKept DEF Others
<1> QED
  BY <1>1, StatusFunction, StatusFunctionNext DEF StatusIsFunction, Channel!Become, At

\* Those who read or write in the channel are those who wait.
LEMMA DoingIs ==
  ASSUME ObjectsInv
  PROVE  /\ \A t \in Thread : t \in Channel!Doing("reading") <=> (Waits(k, t) /\ call[t] = "get")
         /\ \A t \in Thread : t \in Channel!Doing("writing") <=> (Waits(k, t) /\ call[t] = "put")
         /\ \A t \in Thread : t \in Channel!Doing("out") <=> ~Held(t)
<1>2. \A t \in Thread : Waits(k, t) => call[t] \in {"get", "put"}
  BY DEF ObjectsInv, WaiterOk
<1>3. /\ \A item : At("out", item).what = "out"
      /\ \A item : At("reading", item).what = "reading"
      /\ \A item : At("writing", item).what = "writing"
      /\ \A item : At("written", item).what = "written"
      /\ \A item : At("got", item).what = "got"
      /\ \A item : At("failed", item).what = "failed"
  BY DEF At
<1>4. ASSUME NEW t \in Thread
      PROVE  /\ ChannelStatus[t].what = "reading" <=> (Waits(k, t) /\ call[t] = "get")
             /\ ChannelStatus[t].what = "writing" <=> (Waits(k, t) /\ call[t] = "put")
             /\ ChannelStatus[t].what = "out" <=> ~Held(t)
  <2>1. CASE call[t] \notin {"get", "put"}
    BY <1>2, <1>3, <2>1, StatusOfThreads DEF StatusTable, Held
  <2>2. CASE call[t] \in {"get", "put"} /\ Waits(k, t)
    BY <1>3, <2>2, StatusOfThreads DEF StatusTable, Held
  <2>3. CASE call[t] \in {"get", "put"} /\ ~Waits(k, t)
    <3>1. \E item : ChannelStatus[t] \in {At("written", item), At("got", item), At("failed", item)}
      BY <2>3, StatusOfThreads DEF StatusTable
    <3>2. ChannelStatus[t].what \in {"written", "got", "failed"}
      BY <1>3, <3>1
    <3> QED
      BY <2>3, <3>2 DEF Held
  <2> QED
    BY <2>1, <2>2, <2>3
<1> QED
  BY <1>4 DEF Channel!Doing

\* The instance has its own copies of two operators on sequences.
LEMMA SameOperators ==
  /\ \A s, i : Channel!RemoveAt(s, i) = RemoveAt(s, i)
  /\ \A s : Channel!ToSet(s) = ToSet(s)
  BY DEF Channel!RemoveAt, RemoveAt, Channel!ToSet, ToSet

\* What nobody has, nobody has in the channel.
LEMMA FreshInChannel ==
  ASSUME NEW m, FreshItem(m)
  PROVE  Channel!Fresh(m)
<1>1. \A t \in Thread : ChannelStatus[t].item \in {swap_data[t], NoData}
  BY StatusOfThreads DEF StatusTable
<1>2. m \in Item /\ m # NoData
  BY ObjectAssumption DEF FreshItem
<1>3. Channel!ToSet(Buffer) = ToSet(Buffer)
  BY SameOperators, Zenon
<1>4. Rule.unique => m \notin Channel!ToSet(Buffer) /\ \A t \in Thread : ChannelStatus[t].item # m
  BY <1>1, <1>2, <1>3 DEF FreshItem
<1> QED
  BY <1>2, <1>4 DEF Channel!Fresh

LEMMA EffectRefines ==
  ASSUME ObjectsInv, Effect
  PROVE  \/ UNCHANGED <<Buffer, ChannelStatus>>
         \/ Channel!Put \/ Channel!PutThrough \/ Channel!PutList \/ Channel!Get
         \/ Channel!GetAndRefill \/ Channel!TakeOut \/ Channel!Purge
         \/ \E t \in Thread : Channel!Step(t)
<1>1. /\ Base /\ Buffer \in Seq(Item) /\ NoData \notin Item
      /\ \A t \in Thread : Waits(k, t) => call[t] \in {"get", "put"} /\ WaiterOk(t)
  BY ObjectHolds, ObjectAssumption DEF ObjectsInv, WaiterOk
<1>2. NoneWaits => Channel!Doing("reading") = {} /\ Channel!Doing("writing") = {}
  <2>1. Channel!Doing("reading") \subseteq Thread /\ Channel!Doing("writing") \subseteq Thread
    BY DEF Channel!Doing
  <2> QED
    BY <2>1, DoingIs DEF NoneWaits
<1>3. CASE Quiet
  BY <1>1, <1>3, StatusSame DEF Quiet
<1>4. CASE PutIn
  <2>1. PICK p \in Places : RemoveAt(Buffer', p) = Buffer /\ FreshItem(Buffer'[p])
    BY <1>4 DEF PutIn
  <2>2. p \in Channel!Place /\ Channel!RemoveAt(Buffer', p) = Buffer
    BY <2>1, SameOperators, Zenon DEF Places, Channel!Place
  <2>3. Channel!Fresh(Buffer'[p])
    BY <2>1, FreshInChannel
  <2> QED
    BY <1>1, <1>2, <1>4, <2>2, <2>3, StatusSame DEF PutIn, Channel!Put
<1>a. ASSUME NEW m \in Item, NEW n \in Item, FreshPair(m, n)
      PROVE  Channel!Fresh(m) /\ Channel!Fresh(n) /\ m # n
  BY <1>a, FreshInChannel DEF FreshPair
<1>5. CASE PutPair
  <2>1. PICK m \in Item, n \in Item : FreshPair(m, n) /\ Buffer' = Buffer \o <<m, n>>
    BY <1>5 DEF PutPair
  <2>2. ChannelStatus' = ChannelStatus /\ Rule.order = "any" /\ Channel!Doing("reading") = {}
    BY <1>1, <1>2, <1>5, StatusSame DEF PutPair
  <2>3. Channel!PutTwo(m, n)
    BY <1>a, <2>1, <2>2 DEF Channel!PutTwo
  <2> QED
    BY <2>3 DEF Channel!PutList
<1>6. CASE GotOut
  BY <1>1, <1>2, <1>6, StatusSame DEF GotOut, Channel!Get
<1>7. CASE TookOut
  <2>1. PICK p \in 1 .. Len(Buffer) : Buffer' = RemoveAt(Buffer, p)
    BY <1>7 DEF TookOut
  <2>2. Buffer' = Channel!RemoveAt(Buffer, p)
    BY <2>1, SameOperators, Zenon
  <2> QED
    BY <1>1, <1>7, <2>2, StatusSame DEF TookOut, Channel!TakeOut
<1>8. CASE Purged
  <2>1. ASSUME NEW t \in Thread
        PROVE  ChannelStatus'[t] = IF t \in Channel!Doing("reading") \cup Channel!Doing("writing")
                                     THEN At("failed", NoData) ELSE ChannelStatus[t]
    <3>1. CASE Waits(k, t)
      <4>1. t \in Channel!Doing("reading") \cup Channel!Doing("writing")
        BY <1>1, <3>1, DoingIs
      <4>2. ChannelStatus'[t] = At("failed", NoData)
        BY <1>1, <1>8, <3>1, StatusNext DEF Purged, Ended, StatusTable
      <4> QED
        BY <4>1, <4>2
    <3>2. CASE ~Waits(k, t)
      <4>1. t \notin Channel!Doing("reading") \cup Channel!Doing("writing")
        BY <3>2, DoingIs
      <4>2. ChannelStatus'[t] = ChannelStatus[t]
        BY <1>1, <1>8, <3>2, StatusKept DEF Purged
      <4> QED
        BY <4>1, <4>2
    <3> QED
      BY <3>1, <3>2
  <2>2. Channel!Purge
    BY <1>8, <2>1, StatusFunctionNext DEF StatusIsFunction, Purged, Channel!Purge, At
  <2> QED
    BY <2>2
<1>9. ASSUME NEW u \in Thread, Handed(u)
      PROVE  Channel!PutThrough \/ Channel!Step(u)
  <2>1. PICK d \in Item \cup {NoData} : Ended(u, "OK", d) /\ (d = NoData \/ FreshItem(d))
    BY <1>9 DEF Handed
  <2>2. /\ call[u] = "get" /\ Others({u}) /\ Buffer = <<>> /\ Buffer' = Buffer
        /\ u \in Channel!Doing("reading")
    BY <1>9, <2>1, DoingIs DEF Handed, Ended
  <2>3. CASE d \in Item
    <3>1. ChannelStatus'[u] = At("got", d)
      BY <1>1, <2>1, <2>2, <2>3, StatusNext DEF StatusTable, Ended
    <3>2. Channel!Become(u, "got", d)
      BY <1>1, <2>2, <3>1, StatusBecomes
    <3>3. Channel!Fresh(d)
      BY <1>1, <2>1, <2>3, FreshInChannel
    <3> QED
      BY <2>2, <2>3, <3>2, <3>3 DEF Channel!PutThrough
  <2>4. CASE d = NoData
    <3>1. ChannelStatus'[u] = At("failed", NoData)
      BY <2>1, <2>2, <2>4, StatusNext DEF StatusTable, Ended
    <3>2. Channel!Become(u, "failed", NoData)
      BY <1>1, <2>2, <3>1, StatusBecomes
    <3> QED
      BY <2>2, <3>2 DEF Channel!Step
  <2> QED
    BY <2>3, <2>4
<1>10. ASSUME NEW u \in Thread, HandedOne(u)
       PROVE  Channel!PutList
  <2>1. PICK d \in Item, e \in Item : FreshPair(d, e) /\ Ended(u, "OK", d) /\ Buffer' = <<e>>
    BY <1>10 DEF HandedOne
  <2>2. /\ call[u] = "get" /\ Others({u}) /\ Rule.order = "any" /\ Buffer = <<>>
        /\ \A t \in Thread \ {u} : ~Waits(k, t)
        /\ Waits(k, u)
    BY <1>10, <2>1 DEF HandedOne, Ended
  <2>3. Channel!Doing("reading") = {u}
    <3>1. Channel!Doing("reading") \subseteq Thread
      BY DEF Channel!Doing
    <3> QED
      BY <2>2, <3>1, DoingIs
  <2>4. ChannelStatus'[u] = At("got", d)
    BY <1>1, <2>1, <2>2, StatusNext DEF StatusTable, Ended
  <2>5. Channel!Become(u, "got", d)
    BY <1>1, <2>2, <2>4, StatusBecomes
  <2>6. Channel!PutTwo(d, e)
    BY <1>a, <2>1, <2>2, <2>3, <2>5 DEF Channel!PutTwo
  <2> QED
    BY <2>6 DEF Channel!PutList
<1>11. ASSUME NEW u \in Thread, NEW v \in Thread, HandedTwo(u, v)
       PROVE  Channel!PutList
  <2>1. PICK d \in Item, e \in Item : FreshPair(d, e) /\ Ended(u, "OK", d) /\ Ended(v, "OK", e)
    BY <1>11 DEF HandedTwo
  <2>2. Channel!Fresh(d) /\ Channel!Fresh(e) /\ d # e
    BY <1>a, <2>1
  <2>3. /\ call[u] = "get" /\ call[v] = "get" /\ Others({u, v}) /\ Rule.order = "any" /\ u # v
        /\ Buffer = <<>> /\ Buffer' = Buffer
    BY <1>11 DEF HandedTwo
  <2>4. u \in Channel!Doing("reading") /\ v \in Channel!Doing("reading")
    BY <2>1, <2>3, DoingIs DEF Ended
  <2>5. ChannelStatus'[u] = At("got", d) /\ ChannelStatus'[v] = At("got", e)
    BY <1>1, <2>1, <2>2, <2>3, StatusNext DEF StatusTable, Ended
  <2>6. \A t \in Thread \ {u, v} : ChannelStatus'[t] = ChannelStatus[t]
    BY <1>1, <2>3, StatusKept DEF Others
  <2>7. ChannelStatus' = [ChannelStatus EXCEPT ![u] = [what |-> "got", item |-> d],
                                               ![v] = [what |-> "got", item |-> e]]
    BY <2>3, <2>5, <2>6, StatusFunction, StatusFunctionNext DEF StatusIsFunction, At
  <2>8. Channel!PutTwo(d, e)
    BY <2>2, <2>3, <2>4, <2>7 DEF Channel!PutTwo
  <2> QED
    BY <2>8 DEF Channel!PutList
<1>12. ASSUME NEW u \in Thread, Refilled(u)
       PROVE  Channel!GetAndRefill
  <2>1. /\ call[u] = "put" /\ Ended(u, "OK", NoData) /\ Others({u})
        /\ obj.type = "msgq" /\ Len(Buffer) = MaxItems
        /\ Buffer' = Append(Tail(Buffer), swap_data[u])
    BY <1>12 DEF Refilled
  <2>2. Channel!Full
    BY <2>1 DEF Channel!Full, Rule
  <2>3. Waits(k, u)
    BY <2>1 DEF Ended
  <2>4. u \in Channel!Doing("writing")
    BY <2>1, <2>3, DoingIs
  <2>5. ChannelStatus[u] = At("writing", swap_data[u])
    BY <2>1, <2>3, StatusOfThreads DEF StatusTable
  <2>6. ChannelStatus[u].item = swap_data[u]
    BY <2>5 DEF At
  <2>7. ChannelStatus'[u] = At("written", NoData)
    BY <2>1, StatusNext DEF StatusTable, Ended
  <2>8. Channel!Become(u, "written", NoData)
    BY <1>1, <2>1, <2>7, StatusBecomes
  <2> QED
    BY <2>1, <2>2, <2>4, <2>6, <2>8 DEF Channel!GetAndRefill
<1>13. ASSUME NEW u \in Thread, Expired(u)
       PROVE  Channel!Step(u)
  <2>1. u \in Channel!Doing("reading") \cup Channel!Doing("writing")
    BY <1>1, <1>13, DoingIs DEF Expired, Ended
  <2>2. ChannelStatus'[u] = At("failed", NoData)
    BY <1>1, <1>13, StatusNext DEF StatusTable, Expired, Ended
  <2>3. Channel!Become(u, "failed", NoData)
    BY <1>1, <1>13, <2>2, StatusBecomes DEF Expired
  <2> QED
    BY <1>13, <2>1, <2>3 DEF Expired, Channel!Step
<1>14. ASSUME NEW u \in Thread, Gone(u)
       PROVE  UNCHANGED <<Buffer, ChannelStatus>> \/ Channel!Step(u)
  <2>1. ChannelStatus'[u] = At("out", NoData)
    BY <1>14, StatusNext DEF StatusTable, Gone, Left
  <2>2. Channel!Become(u, "out", NoData)
    BY <1>1, <1>14, <2>1, StatusBecomes DEF Gone
  <2>3. CASE ~Held(u)
    <3>1. ChannelStatus[u] = At("out", NoData)
      BY <2>3, StatusOfThreads DEF StatusTable, Held
    <3>2. \A t \in Thread : ChannelStatus'[t] = ChannelStatus[t]
      BY <1>1, <1>14, <2>1, <3>1, StatusKept DEF Gone, Others
    <3>3. ChannelStatus' = ChannelStatus
      BY <3>2, StatusFunction, StatusFunctionNext DEF StatusIsFunction
    <3> QED
      BY <1>14, <3>3 DEF Gone
  <2>4. CASE Held(u)
    BY <1>14, <2>2, <2>4, DoingIs DEF Gone, Channel!Step
  <2> QED
    BY <2>3, <2>4
<1>15. ASSUME NEW u \in Thread, Entered(u)
       PROVE  Channel!Step(u)
  <2>1. CASE Began(u, "get", NoData) /\ Buffer = <<>>
    <3>1. ChannelStatus'[u] = At("reading", NoData) /\ u \in Channel!Doing("out")
      BY <2>1, StatusNext, DoingIs DEF StatusTable, Began, Held
    <3>2. Channel!Become(u, "reading", NoData)
      BY <1>1, <1>15, <3>1, StatusBecomes DEF Entered
    <3> QED
      BY <1>15, <2>1, <3>1, <3>2 DEF Entered, Channel!Step
  <2>2. ASSUME NEW d \in Item, Began(u, "put", d), obj.type = "msgq", Len(Buffer) = MaxItems
        PROVE  Channel!Step(u)
    <3>1. ChannelStatus'[u] = At("writing", d) /\ u \in Channel!Doing("out")
      BY <2>2, StatusNext, DoingIs DEF StatusTable, Began, Held
    <3>2. Channel!Become(u, "writing", d)
      BY <1>1, <1>15, <3>1, StatusBecomes DEF Entered
    <3>3. Channel!Full
      BY <2>2 DEF Channel!Full, Rule
    <3> QED
      BY <1>15, <2>2, <3>1, <3>2, <3>3 DEF Entered, Channel!Step
  <2> QED
    BY <1>15, <2>1, <2>2 DEF Entered
<1> QED
  BY <1>3, <1>4, <1>5, <1>6, <1>7, <1>8, <1>9, <1>10, <1>11, <1>12, <1>13, <1>14, <1>15 DEF Effect

LEMMA RefinesInit ==
  ASSUME ObjectsInit
  PROVE  Channel!Init
<1>1. ObjectsInv
  BY ObjectsInvInit
<1>2. Len(Buffer) \in Nat /\ MaxItems \in Nat /\ Cardinality(Item) \in Nat
  BY <1>1, ObjectHolds, ObjectAssumption, FS_CardinalityType DEF ObjectsInv
<1>3. Rule \in [order: {"fifo", "lifo", "any"}, capacity: Nat, unique: BOOLEAN]
  BY <1>2 DEF Rule
<1>4. Len(Buffer) <= Rule.capacity
  <2>1. ASSUME MsgqOk PROVE Len(Buffer) <= Rule.capacity
    BY <1>2, <2>1, MsgqHolds DEF Rule, MsgqOk, RingOk, MsgqType
  <2>2. ASSUME StackOk PROVE Len(Buffer) <= Rule.capacity
    BY <1>2, <2>2, StackHolds DEF Rule, StackOk
  <2>3. ASSUME SlabOk PROVE Len(Buffer) <= Rule.capacity
    <3>1. obj.type = "slab" /\ Buffer \in Seq(Item) /\ NoDuplicates(Buffer)
      BY <2>3, SlabHolds DEF SlabOk
    <3> QED
      BY <3>1, ListLength DEF Rule
  <2>4. ASSUME QueueOk PROVE Len(Buffer) <= Rule.capacity
    <3>1. obj.type = "queue" /\ Buffer \in Seq(Item) /\ NoDuplicates(Buffer)
      BY <2>4, QueueHolds DEF IsList, IsChain
    <3> QED
      BY <3>1, ListLength DEF Rule
  <2> QED
    BY <1>1, <2>1, <2>2, <2>3, <2>4 DEF ObjectsInv, ObjectOk
<1>5. ChannelStatus = [t \in Thread |-> [what |-> "out", item |-> NoData]]
  <2>1. \A t \in Thread : call[t] = "out"
    BY DEF ObjectsInit, ObjectInit
  <2> QED
    BY <2>1, StatusOfThreads, StatusFunction DEF StatusTable, StatusIsFunction, At
<1> QED
  BY <1>3, <1>4, <1>5 DEF Channel!Init

\* Message queues, stacks, slabs and queues implement the abstract channel:
\* every step of theirs is one of its steps or leaves its state as it is, under
\* the care that ObjectsInvariant asks of the users.
THEOREM ObjectsImplement == ObjectsSpec /\ UsedWithCare => ImplementsChannel
<1>1. ObjectsInit => Channel!Init
  BY RefinesInit
<1>2. /\ ObjectsInv /\ [ObjectsNext]_objectVars /\ Careful /\ Careful' /\ AppendsSafe
      /\ [Undisturbed]_objectVars
      => [Channel!Next]_<<Buffer, ChannelStatus, Rule>>
  <2>1. ASSUME ObjectsInv, ObjectsNext, Careful, Careful', AppendsSafe, Undisturbed
        PROVE  [Channel!Next]_<<Buffer, ChannelStatus, Rule>>
    <3>1. Effect /\ obj'.type = obj.type
      BY <2>1, NextEffect
    <3>2. Rule' = Rule
      BY <3>1 DEF Rule
    <3>3. CASE UNCHANGED <<Buffer, ChannelStatus>>
      BY <3>2, <3>3
    <3>4. CASE ~UNCHANGED <<Buffer, ChannelStatus>>
      BY <2>1, <3>1, <3>2, <3>4, EffectRefines DEF Channel!Next
    <3> QED
      BY <3>3, <3>4
  <2>2. ASSUME ObjectsInv, UNCHANGED objectVars
        PROVE  UNCHANGED <<Buffer, ChannelStatus, Rule>>
    <3>1. k' = k /\ obj' = obj /\ call' = call /\ swap_data' = swap_data
      BY <2>2 DEF objectVars, waiting
    <3>2. Buffer' = Buffer /\ Rule' = Rule
      BY <2>2, <3>1, BufferSame DEF ObjectsInv
    <3>3. Others({})
      BY <3>1 DEF Others, Kept, CallKept
    <3>4. ChannelStatus' = ChannelStatus
      BY <2>2, <3>3, StatusSame DEF ObjectsInv
    <3> QED
      BY <3>2, <3>4
  <2> QED
    BY <2>1, <2>2
<1> QED
  BY <1>1, <1>2, ObjectsInvariant, PTL
     DEF ObjectsSpec, UsedWithCare, ImplementsChannel, Channel!Spec
=============================================================================
