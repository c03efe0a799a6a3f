---------------------------- MODULE TimersProofs ----------------------------
(***************************************************************************)
(* Timers.  The timeout queue keeps its shape and every deadline, for any  *)
(* number of timers, as long as the clock interrupt handles a periodic     *)
(* timer last.                                                             *)
(***************************************************************************)
EXTENDS Timers, FiniteSetTheorems, WellFoundedInduction, TLAPS

-----------------------------------------------------------------------------
(***************************************************************************)
(* Recursive functions.                                                    *)
(***************************************************************************)

\* The first n positive numbers.
LEMMA UpToSize ==
  ASSUME NEW n \in Nat
  PROVE  IsFiniteSet(1 .. n) /\ Cardinality(1 .. n) = n
<1>1. 1 \in Int /\ n \in Int
  OBVIOUS
<1>2. IsFiniteSet(1 .. n) /\ Cardinality(1 .. n) = IF 1 > n THEN 0 ELSE n - 1 + 1
  BY <1>1, FS_Interval
<1> QED
  BY <1>2

\* A non-empty set of natural numbers has a least element.
LEMMA LeastOf ==
  ASSUME NEW S \in SUBSET Nat, S # {}
  PROVE  \E x \in S : \A y \in S : x <= y
<1>1. \E x \in S : \A y \in S : ~ (<<y, x>> \in OpToRel(<, Nat))
  BY NatLessThanWellFounded, WFMin
<1>2. \A x, y \in Nat : x < y => <<x, y>> \in OpToRel(<, Nat)
  BY DEF OpToRel
<1>3. \E x \in S : \A y \in S : ~ (y < x)
  BY <1>1, <1>2
<1> QED
  BY <1>3

\* Where something fails for the first time.
LEMMA FirstOf ==
  ASSUME NEW n \in Nat, NEW S \in SUBSET (0 .. n), S # {}
  PROVE  \E j \in S : j \in 0 .. n /\ (j # 0 => j - 1 \in 0 .. n /\ j - 1 \notin S)
<1>1. PICK j \in S : \A y \in S : j <= y
  BY LeastOf
<1>2. j \in 0 .. n /\ (j # 0 => j - 1 \in 0 .. n)
  OBVIOUS
<1>3. j - 1 \notin S
  BY <1>1, <1>2
<1> QED
  BY <1>2, <1>3

\* f is what the step g makes of a, again and again.
Iterates(f, a, g, n) == f = [i \in 0 .. n |-> IF i = 0 THEN a ELSE g[<<i, f[i - 1]>>]]

\* The recursive function exists.
LEMMA IterateExists ==
  ASSUME NEW a, NEW g, NEW n \in Nat
  PROVE  \E f : Iterates(f, a, g, n)
<1> DEFINE S == {j \in 0 .. n : ~\E f : Iterates(f, a, g, j)}
<1>1. SUFFICES ASSUME S # {} PROVE FALSE
  OBVIOUS
<1>2. PICK j \in S : j \in 0 .. n /\ (j # 0 => j - 1 \in 0 .. n /\ j - 1 \notin S)
  <2>1. S \in SUBSET (0 .. n)
    OBVIOUS
  <2> HIDE DEF S
  <2> QED
    BY <1>1, <2>1, FirstOf
<1>3. j \in 0 .. n /\ j \in Int /\ ~\E f : Iterates(f, a, g, j)
  BY <1>2
<1>4. j # 0 => \E f : Iterates(f, a, g, j - 1)
  BY <1>2
<1> HIDE DEF S
<1>5. CASE j = 0
  <2> DEFINE f == [i \in 0 .. 0 |-> a]
  <2>1. Iterates(f, a, g, 0)
    BY DEF Iterates
  <2> QED
    BY <1>3, <1>5, <2>1
<1>6. CASE j # 0
  <2>1. PICK f : Iterates(f, a, g, j - 1)
    BY <1>4, <1>6
  <2> DEFINE h == [i \in 0 .. j |-> IF i = j THEN g[<<j, f[j - 1]>>] ELSE f[i]]
  <2>2. ASSUME NEW i \in 0 .. j - 1
        PROVE  f[i] = IF i = 0 THEN a ELSE g[<<i, f[i - 1]>>]
    BY <2>1, <2>2 DEF Iterates
  <2>3. ASSUME NEW i \in 0 .. j
        PROVE  h[i] = IF i = 0 THEN a ELSE g[<<i, h[i - 1]>>]
    <3>1. j \in Int /\ j >= 1
      BY <1>3, <1>6
    <3>2. CASE i = j
      <4>1. i - 1 \in 0 .. j /\ i - 1 # j
        BY <3>1, <3>2
      <4> QED
        BY <3>1, <3>2, <4>1
    <3>3. CASE i # j
      <4>1. i \in 0 .. j - 1 /\ h[i] = f[i]
        BY <3>1, <3>3
      <4>2. i # 0 => i - 1 \in 0 .. j /\ i - 1 # j
        BY <3>1, <3>3
      <4>3. i # 0 => h[i - 1] = f[i - 1]
        BY <4>2
      <4> QED
        BY <2>2, <4>1, <4>3
    <3> QED
      BY <3>2, <3>3
  <2>4. Iterates(h, a, g, j)
    BY <2>3 DEF Iterates
  <2> QED
    BY <1>3, <2>4
<1> QED
  BY <1>5, <1>6

-----------------------------------------------------------------------------
(***************************************************************************)
(* Sums of deltas.                                                         *)
(***************************************************************************)

\* The sum of deltas that TicksUpTo() computes.
LEMMA SumFacts ==
  ASSUME NEW x, x.delta \in [Timer -> Int], NEW s \in Seq(Timer)
  PROVE  /\ TicksUpTo(x, s, 0) = 0
         /\ \A i \in 1 .. Len(s) : TicksUpTo(x, s, i) = TicksUpTo(x, s, i - 1) + x.delta[s[i]]
<1> DEFINE n == Len(s)
           f == CHOOSE f : f = [j \in 0 .. n |-> IF j = 0 THEN 0 ELSE f[j - 1] + x.delta[s[j]]]
           g == [p \in (1 .. n) \X Int |-> p[2] + x.delta[s[p[1]]]]
<1>1. n \in Nat
  OBVIOUS
<1>2. \A i : TicksUpTo(x, s, i) = f[i]
  BY DEF TicksUpTo
<1>3. PICK h : Iterates(h, 0, g, n)
  BY <1>1, IterateExists
<1>4. \A i \in 0 .. n : h[i] = IF i = 0 THEN 0 ELSE g[<<i, h[i - 1]>>]
  BY <1>3 DEF Iterates
<1> HIDE DEF n
<1>0. h[0] = 0
  <2> HIDE DEF f, g
  <2>1. 0 \in 0 .. n
    BY <1>1
  <2> QED
    BY <1>4, <2>1
<1>5. \A i \in 0 .. n : h[i] \in Int
  <2> DEFINE S == {i \in 0 .. n : h[i] \notin Int}
  <2>1. SUFFICES ASSUME S # {} PROVE FALSE
    OBVIOUS
  <2>2. PICK j \in S : j \in 0 .. n /\ (j # 0 => j - 1 \in 0 .. n /\ j - 1 \notin S)
    <3>1. S \in SUBSET (0 .. n)
      OBVIOUS
    <3> HIDE DEF S
    <3> QED
      BY <1>1, <2>1, <3>1, FirstOf
  <2>3. j # 0
    BY <1>0, <2>2
  <2>4. h[j - 1] \in Int /\ j \in 1 .. n
    BY <2>2, <2>3
  <2>5. h[j] = h[j - 1] + x.delta[s[j]]
    BY <1>4, <2>3, <2>4
  <2>6. x.delta[s[j]] \in Int
    BY <2>4 DEF n
  <2> QED
    BY <2>2, <2>4, <2>5, <2>6
<1>6. \A i \in 1 .. n : h[i] = h[i - 1] + x.delta[s[i]]
  <2> TAKE i \in 1 .. n
  <2>1. i - 1 \in 0 .. n /\ i \in 0 .. n /\ i # 0
    BY <1>1
  <2>2. h[i - 1] \in Int
    BY <1>5, <2>1
  <2> QED
    BY <1>4, <2>1, <2>2
<1>7. h = [j \in 0 .. n |-> IF j = 0 THEN 0 ELSE h[j - 1] + x.delta[s[j]]]
  <2>1. h = [i \in 0 .. n |-> IF i = 0 THEN 0 ELSE g[<<i, h[i - 1]>>]]
    BY <1>3 DEF Iterates
  <2>2. \A j \in 0 .. n : h[j] = IF j = 0 THEN 0 ELSE h[j - 1] + x.delta[s[j]]
    BY <1>0, <1>1, <1>6
  <2> HIDE DEF g
  <2> QED
    BY <2>1, <2>2
<1>8. f = [j \in 0 .. n |-> IF j = 0 THEN 0 ELSE f[j - 1] + x.delta[s[j]]]
  BY <1>7
<1> HIDE DEF f
<1>9. f[0] = 0 /\ \A i \in 1 .. n : f[i] = f[i - 1] + x.delta[s[i]]
  BY <1>1, <1>8
<1> QED
  BY <1>2, <1>9 DEF n

\* The sums are the only numbers that begin with 0 and grow by the deltas.
GrowsBy(x, s, g) ==
  /\ g \in [0 .. Len(s) -> Int] /\ g[0] = 0
  /\ \A i \in 1 .. Len(s) : g[i] = g[i - 1] + x.delta[s[i]]

\* What grows by the deltas is the sum.
LEMMA SumUnique ==
  ASSUME NEW x, x.delta \in [Timer -> Int], NEW s \in Seq(Timer), NEW g, GrowsBy(x, s, g)
  PROVE  \A i \in 0 .. Len(s) : TicksUpTo(x, s, i) = g[i]
<1> DEFINE S == {i \in 0 .. Len(s) : TicksUpTo(x, s, i) # g[i]}
<1>1. SUFFICES ASSUME S # {} PROVE FALSE
  OBVIOUS
<1>2. PICK j \in S : j \in 0 .. Len(s) /\ (j # 0 => j - 1 \in 0 .. Len(s) /\ j - 1 \notin S)
  <2>1. S \in SUBSET (0 .. Len(s)) /\ Len(s) \in Nat
    OBVIOUS
  <2> HIDE DEF S
  <2> QED
    BY <1>1, <2>1, FirstOf
<1>3. j # 0
  BY <1>2, SumFacts DEF GrowsBy
<1>4. j \in 1 .. Len(s) /\ TicksUpTo(x, s, j - 1) = g[j - 1]
  BY <1>2, <1>3
<1>5. TicksUpTo(x, s, j) = TicksUpTo(x, s, j - 1) + x.delta[s[j]]
  BY <1>4, SumFacts
<1>6. g[j] = g[j - 1] + x.delta[s[j]]
  BY <1>4 DEF GrowsBy
<1>7. TicksUpTo(x, s, j) = g[j]
  BY <1>4, <1>5, <1>6
<1> QED
  BY <1>2, <1>7

\* The sum is an integer.
LEMMA SumType ==
  ASSUME NEW x, x.delta \in [Timer -> Int], NEW s \in Seq(Timer)
  PROVE  \A i \in 0 .. Len(s) : TicksUpTo(x, s, i) \in Int
<1> DEFINE S == {i \in 0 .. Len(s) : TicksUpTo(x, s, i) \notin Int}
<1>1. SUFFICES ASSUME S # {} PROVE FALSE
  OBVIOUS
<1>2. PICK j \in S : j \in 0 .. Len(s) /\ (j # 0 => j - 1 \in 0 .. Len(s) /\ j - 1 \notin S)
  <2>1. S \in SUBSET (0 .. Len(s)) /\ Len(s) \in Nat
    OBVIOUS
  <2> HIDE DEF S
  <2> QED
    BY <1>1, <2>1, FirstOf
<1>3. j # 0
  BY <1>2, SumFacts
<1>4. j \in 1 .. Len(s) /\ TicksUpTo(x, s, j - 1) \in Int
  BY <1>2, <1>3
<1>5. TicksUpTo(x, s, j) = TicksUpTo(x, s, j - 1) + x.delta[s[j]]
  BY <1>4, SumFacts
<1>6. x.delta[s[j]] \in Int
  BY <1>4
<1>7. TicksUpTo(x, s, j) \in Int
  BY <1>4, <1>5, <1>6
<1> QED
  BY <1>2, <1>7

\* A later timeout does not expire earlier.
LEMMA SumGrows ==
  ASSUME NEW x, x.delta \in [Timer -> Int], NEW s \in Seq(Timer),
         \A i \in 1 .. Len(s) : x.delta[s[i]] >= 0
  PROVE  \A i \in 1 .. Len(s) : TicksUpTo(x, s, i) >= x.delta[s[1]]
<1> DEFINE S == {i \in 0 .. Len(s) : i # 0 /\ ~(TicksUpTo(x, s, i) >= x.delta[s[1]])}
<1>1. SUFFICES ASSUME S # {} PROVE FALSE
  OBVIOUS
<1>2. PICK j \in S : j \in 0 .. Len(s) /\ (j # 0 => j - 1 \in 0 .. Len(s) /\ j - 1 \notin S)
  <2>1. S \in SUBSET (0 .. Len(s)) /\ Len(s) \in Nat
    OBVIOUS
  <2> HIDE DEF S
  <2> QED
    BY <1>1, <2>1, FirstOf
<1>3. j \in 1 .. Len(s) /\ j - 1 \in 0 .. Len(s)
  BY <1>2
<1>4. TicksUpTo(x, s, j) = TicksUpTo(x, s, j - 1) + x.delta[s[j]]
  BY <1>3, SumFacts
<1>5. TicksUpTo(x, s, j - 1) \in Int /\ x.delta[s[j]] \in Int /\ x.delta[s[j]] >= 0
  BY <1>3, SumType
<1>6. x.delta[s[1]] \in Int
  BY <1>3
<1>7. CASE j = 1
  <2>1. TicksUpTo(x, s, j - 1) = 0
    BY <1>7, SumFacts
  <2> QED
    BY <1>2, <1>4, <1>5, <1>6, <1>7, <2>1
<1>8. CASE j # 1
  <2>1. TicksUpTo(x, s, j - 1) >= x.delta[s[1]]
    BY <1>2, <1>3, <1>8
  <2> QED
    BY <1>2, <1>4, <1>5, <1>6, <2>1
<1> QED
  BY <1>7, <1>8

-----------------------------------------------------------------------------
(***************************************************************************)
(* Lists.                                                                  *)
(***************************************************************************)

\* The i-th node of the ring of the head h and the nodes s.
At(h, s, i) == IF i \in 1 .. Len(s) THEN s[i] ELSE h

Distinct(s) == s \in Seq(Timer) /\ \A i, j \in 1 .. Len(s) : s[i] = s[j] => i = j

IsRing(x, h, s) ==
  \A i \in 0 .. Len(s) :
    x.next[At(h, s, i)] = At(h, s, i + 1) /\ x.prev[At(h, s, i + 1)] = At(h, s, i)

ListHead == {Queue, Expired}

\* The list head's neighbours are the ends of the list.
LEMMA RingEnds ==
  ASSUME NEW x, NEW h \in ListHead, NEW s, Distinct(s), IsRing(x, h, s)
  PROVE  /\ s = <<>> => x.next[h] = h /\ x.prev[h] = h
         /\ s # <<>> => x.next[h] = s[1] /\ x.prev[h] = s[Len(s)]
         /\ \A i \in 1 .. Len(s) :
              /\ x.next[s[i]] = IF i = Len(s) THEN h ELSE s[i + 1]
              /\ x.prev[s[i]] = IF i = 1 THEN h ELSE s[i - 1]
<1>1. s \in Seq(Timer) /\ Len(s) \in Nat
  BY DEF Distinct
<1>2. At(h, s, 0) = h /\ At(h, s, Len(s) + 1) = h /\ \A i \in 1 .. Len(s) : At(h, s, i) = s[i]
  BY <1>1 DEF At
<1>3. x.next[h] = At(h, s, 1) /\ x.prev[h] = At(h, s, Len(s))
  <2>1. 0 \in 0 .. Len(s) /\ Len(s) \in 0 .. Len(s) /\ 0 + 1 = 1
    BY <1>1
  <2>2. x.next[At(h, s, 0)] = At(h, s, 0 + 1)
    BY <2>1 DEF IsRing
  <2>3. x.prev[At(h, s, Len(s) + 1)] = At(h, s, Len(s))
    BY <2>1 DEF IsRing
  <2> QED
    BY <1>2, <2>1, <2>2, <2>3
<1>4. s # <<>> => 1 \in 1 .. Len(s) /\ Len(s) \in 1 .. Len(s)
  BY <1>1
<1>5. ASSUME NEW i \in 1 .. Len(s)
      PROVE  /\ x.next[s[i]] = IF i = Len(s) THEN h ELSE s[i + 1]
             /\ x.prev[s[i]] = IF i = 1 THEN h ELSE s[i - 1]
  <2>1. i \in 0 .. Len(s) /\ i - 1 \in 0 .. Len(s) /\ (i - 1) + 1 = i
    BY <1>1
  <2>2. x.next[At(h, s, i)] = At(h, s, i + 1) /\ x.prev[At(h, s, i)] = At(h, s, i - 1)
    <3>1. x.next[At(h, s, i)] = At(h, s, i + 1)
      BY <2>1 DEF IsRing
    <3>2. x.prev[At(h, s, (i - 1) + 1)] = At(h, s, i - 1)
      BY <2>1 DEF IsRing
    <3> QED
      BY <2>1, <3>1, <3>2
  <2>3. At(h, s, i + 1) = IF i = Len(s) THEN h ELSE s[i + 1]
    BY <1>1 DEF At
  <2>4. At(h, s, i - 1) = IF i = 1 THEN h ELSE s[i - 1]
    BY <1>1 DEF At
  <2> QED
    BY <1>2, <2>2, <2>3, <2>4
<1>6. s = <<>> => At(h, s, 1) = h /\ At(h, s, Len(s)) = h
  BY <1>1 DEF At
<1> QED
  BY <1>2, <1>3, <1>4, <1>5, <1>6

\* What a node's neighbours are says which list it is.
LEMMA RingIntro ==
  ASSUME NEW x, NEW h \in ListHead, NEW s, Distinct(s),
         s = <<>> => x.next[h] = h /\ x.prev[h] = h,
         s # <<>> => x.next[h] = s[1] /\ x.prev[h] = s[Len(s)],
         \A i \in 1 .. Len(s) :
           /\ x.next[s[i]] = IF i = Len(s) THEN h ELSE s[i + 1]
           /\ x.prev[s[i]] = IF i = 1 THEN h ELSE s[i - 1]
  PROVE  IsRing(x, h, s)
<1>1. s \in Seq(Timer) /\ Len(s) \in Nat
  BY DEF Distinct
<1>2. SUFFICES ASSUME NEW i \in 0 .. Len(s)
               PROVE  /\ x.next[At(h, s, i)] = At(h, s, i + 1)
                      /\ x.prev[At(h, s, i + 1)] = At(h, s, i)
  BY DEF IsRing
<1>3. CASE s = <<>>
  <2>1. At(h, s, i) = h /\ At(h, s, i + 1) = h
    BY <1>1, <1>3 DEF At
  <2> QED
    BY <1>3, <2>1
<1>4. CASE s # <<>>
  <2>0. Len(s) >= 1
    BY <1>1, <1>4
  <2>1. x.next[At(h, s, i)] = At(h, s, i + 1)
    <3>1. CASE i = 0
      BY <1>1, <1>4, <2>0, <3>1 DEF At
    <3>2. CASE i # 0
      BY <1>1, <1>2, <3>2 DEF At
    <3> QED
      BY <3>1, <3>2
  <2>2. x.prev[At(h, s, i + 1)] = At(h, s, i)
    <3>1. CASE i = Len(s)
      BY <1>1, <1>4, <2>0, <3>1 DEF At
    <3>2. CASE i # Len(s)
      <4>1. i + 1 \in 1 .. Len(s)
        BY <1>1, <1>2, <3>2
      <4>2. x.prev[s[i + 1]] = IF i + 1 = 1 THEN h ELSE s[(i + 1) - 1]
        BY <4>1
      <4>3. i + 1 - 1 = i /\ (i + 1 = 1 <=> i = 0)
        BY <1>1, <1>2
      <4>4. i # 0 => i \in 1 .. Len(s)
        BY <1>1, <1>2
      <4> QED
        BY <4>1, <4>2, <4>3, <4>4 DEF At
    <3> QED
      BY <3>1, <3>2
  <2> QED
    BY <2>1, <2>2
<1> QED
  BY <1>3, <1>4

\* A list is what it was when its pointers are.
LEMMA RingFrame ==
  ASSUME NEW x, NEW y, NEW h \in ListHead, NEW s, Distinct(s), IsRing(x, h, s),
         \A n \in {h} \cup ToSet(s) : y.next[n] = x.next[n] /\ y.prev[n] = x.prev[n]
  PROVE  IsRing(y, h, s)
<1>1. s \in Seq(Timer) /\ Len(s) \in Nat
  BY DEF Distinct
<1>2. \A i \in Nat : At(h, s, i) \in {h} \cup ToSet(s)
  BY <1>1 DEF At, ToSet
<1> QED
  BY <1>1, <1>2 DEF IsRing

\* A walk from the head finds the nodes in their order.
LEMMA LinkedIsList ==
  ASSUME NEW x \in TimeoutQState, NEW h \in ListHead, NEW s, Distinct(s), IsRing(x, h, s)
  PROVE  Linked(x, h) = s
<1> DEFINE n == Cardinality(DOMAIN x.next)
           Visits(f) == f = [i \in 0 .. n |-> IF i = 0 THEN h
                              ELSE IF i > 1 /\ f[i - 1] = h THEN h ELSE x.next[f[i - 1]]]
           v == CHOOSE f : Visits(f)
           w == [i \in 0 .. n |-> At(h, s, i)]
<1>1. s \in Seq(Timer) /\ Len(s) \in Nat /\ h \in Node /\ h \notin Timer
  BY TimeoutQAssumption DEF Distinct, ListHead, Node
<1>2. n \in Nat /\ Len(s) <= n
  <2>1. DOMAIN x.next = Node
    BY DEF TimeoutQState
  <2>2. IsFiniteSet(Node)
    <3>1. IsFiniteSet({Queue, Expired})
      <4>1. IsFiniteSet({Queue}) /\ {Queue, Expired} = {Queue} \cup {Expired}
        BY FS_Singleton
      <4> QED
        BY <4>1, FS_AddElement
    <3> QED
      BY <3>1, TimeoutQAssumption, FS_Union DEF Node
  <2>3. s \in Injection(1 .. Len(s), Node)
    BY <1>1 DEF Distinct, Injection, IsInjective, Node
  <2>4. IsFiniteSet(1 .. Len(s)) /\ Cardinality(1 .. Len(s)) = Len(s)
    BY <1>1, UpToSize
  <2> QED
    BY <2>1, <2>2, <2>3, <2>4, FS_CardinalityType, FS_Injection
<1>3. Linked(x, h) = [i \in 1 .. Cardinality({i \in 1 .. n : v[i] # h}) |-> v[i]]
  BY DEF Linked
<1> HIDE DEF n
<1>4. \A i \in 1 .. n : At(h, s, i) = IF i > 1 /\ At(h, s, i - 1) = h THEN h ELSE x.next[At(h, s, i - 1)]
  <2> TAKE i \in 1 .. n
  <2>1. CASE i = 1
    <3>1. 0 \in 0 .. Len(s) /\ i - 1 = 0 /\ 0 + 1 = i
      BY <1>1, <2>1
    <3>2. x.next[At(h, s, 0)] = At(h, s, 0 + 1)
      BY <3>1 DEF IsRing
    <3> QED
      BY <2>1, <3>1, <3>2
  <2>2. CASE i > 1 /\ i - 1 \in 1 .. Len(s)
    <3>1. i - 1 \in 0 .. Len(s) /\ (i - 1) + 1 = i
      BY <1>1, <2>2
    <3>2. x.next[At(h, s, i - 1)] = At(h, s, (i - 1) + 1)
      BY <3>1 DEF IsRing
    <3>3. At(h, s, i - 1) # h
      BY <1>1, <2>2 DEF At
    <3> QED
      BY <3>1, <3>2, <3>3
  <2>3. CASE i > 1 /\ i - 1 \notin 1 .. Len(s)
    <3>1. i \notin 1 .. Len(s)
      BY <1>1, <1>2, <2>3
    <3> QED
      BY <2>3, <3>1 DEF At
  <2> QED
    BY <1>2, <2>1, <2>2, <2>3
<1>5. At(h, s, 0) = h
  BY <1>1 DEF At
<1>6. Visits(w)
  <2>1. \A i \in 0 .. n : w[i] = At(h, s, i)
    OBVIOUS
  <2>2. \A i \in 1 .. n : i - 1 \in 0 .. n /\ i \in 0 .. n
    BY <1>2
  <2>3. \A i \in 0 .. n : w[i] = IF i = 0 THEN h ELSE IF i > 1 /\ w[i - 1] = h THEN h ELSE x.next[w[i - 1]]
    <3> TAKE i \in 0 .. n
    <3>1. CASE i = 0
      BY <1>5, <2>1, <3>1
    <3>2. CASE i # 0
      <4>1. i \in 1 .. n
        BY <1>2, <3>2
      <4>2. w[i] = At(h, s, i) /\ w[i - 1] = At(h, s, i - 1)
        BY <2>1, <2>2, <4>1
      <4> HIDE DEF w
      <4> QED
        BY <1>4, <3>2, <4>1, <4>2
    <3> QED
      BY <3>1, <3>2
  <2> QED
    BY <2>3
<1>7. Visits(v)
  <2> HIDE DEF w, Visits
  <2> QED
    BY <1>6
<1> HIDE DEF v
<1>8. \A i \in 0 .. n : v[i] = At(h, s, i)
  <2> DEFINE S == {i \in 0 .. n : v[i] # At(h, s, i)}
  <2>1. SUFFICES ASSUME S # {} PROVE FALSE
    OBVIOUS
  <2>2. PICK j \in S : j \in 0 .. n /\ (j # 0 => j - 1 \in 0 .. n /\ j - 1 \notin S)
    <3>1. S \in SUBSET (0 .. n)
      OBVIOUS
    <3> HIDE DEF S
    <3> QED
      BY <1>2, <2>1, <3>1, FirstOf
  <2>3. v[j] = IF j = 0 THEN h ELSE IF j > 1 /\ v[j - 1] = h THEN h ELSE x.next[v[j - 1]]
    BY <1>7, <2>2
  <2>4. j # 0
    BY <1>5, <2>2, <2>3
  <2>5. j \in 1 .. n /\ v[j - 1] = At(h, s, j - 1)
    BY <1>2, <2>2, <2>4
  <2>6. v[j] = At(h, s, j)
    BY <1>4, <2>3, <2>4, <2>5
  <2> QED
    BY <2>2, <2>6
<1>9. {i \in 1 .. n : v[i] # h} = 1 .. Len(s)
  <2>1. \A i \in 1 .. n : i \in 0 .. n
    BY <1>2
  <2>2. \A i \in 1 .. n : At(h, s, i) # h <=> i \in 1 .. Len(s)
    BY <1>1 DEF At
  <2>3. \A i \in 1 .. Len(s) : i \in 1 .. n
    BY <1>1, <1>2
  <2> QED
    BY <1>8, <2>1, <2>2, <2>3
<1>10. Linked(x, h) = [i \in 1 .. Len(s) |-> v[i]]
  <2>1. Cardinality(1 .. Len(s)) = Len(s)
    BY <1>1, UpToSize
  <2> QED
    BY <1>3, <1>9, <2>1
<1>11. \A i \in 1 .. Len(s) : v[i] = s[i]
  BY <1>1, <1>2, <1>8 DEF At
<1> QED
  BY <1>1, <1>10, <1>11

\* What InsertBefore() and Unlink() write.
LEMMA InsertWrites ==
  ASSUME NEW x \in TimeoutQState, NEW at \in Node, NEW n \in Node, n # at, NEW y,
         x.prev[at] # n, y = InsertBefore(x, at, n)
  PROVE  /\ y \in TimeoutQState /\ y.delta = x.delta
         /\ \A m \in Node : y.next[m] = IF m = n THEN at ELSE IF m = x.prev[at] THEN n ELSE x.next[m]
         /\ \A m \in Node : y.prev[m] = IF m = n THEN x.prev[at] ELSE IF m = at THEN n ELSE x.prev[m]
<1>1. x.prev[at] \in Node
  BY DEF TimeoutQState
<1>2. /\ y.next = [x.next EXCEPT ![n] = at, ![x.prev[at]] = n]
      /\ y.prev = [x.prev EXCEPT ![n] = x.prev[at], ![at] = n]
      /\ y.delta = x.delta
  BY DEF InsertBefore, TimeoutQState
<1>3. y \in TimeoutQState
  BY <1>1 DEF InsertBefore, TimeoutQState
<1> QED
  BY <1>1, <1>2, <1>3 DEF TimeoutQState

\* The pointers that sys_dlist_remove() writes.
LEMMA UnlinkWrites ==
  ASSUME NEW x \in TimeoutQState, NEW n \in Node, NEW y, y = Unlink(x, n)
  PROVE  /\ y \in TimeoutQState /\ y.delta = x.delta
         /\ \A m \in Node : y.next[m] = IF m = x.prev[n] THEN x.next[n] ELSE x.next[m]
         /\ \A m \in Node : y.prev[m] = IF m = x.next[n] THEN x.prev[n] ELSE x.prev[m]
<1>1. x.prev[n] \in Node /\ x.next[n] \in Node
  BY DEF TimeoutQState
<1>2. /\ y.next = [x.next EXCEPT ![x.prev[n]] = x.next[n]]
      /\ y.prev = [x.prev EXCEPT ![x.next[n]] = x.prev[n]]
      /\ y.delta = x.delta
  BY DEF Unlink, TimeoutQState
<1>3. y \in TimeoutQState
  BY <1>1 DEF Unlink, TimeoutQState
<1> QED
  BY <1>1, <1>2, <1>3 DEF TimeoutQState

\* s with n before its p-th node, and s without its p-th node.
With(s, p, n) == [i \in 1 .. Len(s) + 1 |-> IF i < p THEN s[i] ELSE IF i = p THEN n ELSE s[i - 1]]

Without(s, p) == [i \in 1 .. Len(s) - 1 |-> IF i < p THEN s[i] ELSE s[i + 1]]

\* A list with one more node.
LEMMA WithDistinct ==
  ASSUME NEW s, Distinct(s), NEW n \in Timer \ ToSet(s), NEW p \in 1 .. Len(s) + 1
  PROVE  /\ Distinct(With(s, p, n)) /\ Len(With(s, p, n)) = Len(s) + 1
         /\ ToSet(With(s, p, n)) = ToSet(s) \cup {n}
<1> DEFINE w == With(s, p, n)
<1>1. s \in Seq(Timer) /\ Len(s) \in Nat /\ \A i, j \in 1 .. Len(s) : s[i] = s[j] => i = j
  BY DEF Distinct
<1>2. w \in Seq(Timer) /\ Len(w) = Len(s) + 1
  BY <1>1 DEF With
<1>3. \A i \in 1 .. Len(s) + 1 : w[i] = IF i < p THEN s[i] ELSE IF i = p THEN n ELSE s[i - 1]
  BY DEF With
<1>4. \A i \in 1 .. Len(s) : s[i] # n
  BY <1>1 DEF ToSet
<1> HIDE DEF w
<1>5. ASSUME NEW i \in 1 .. Len(w), NEW j \in 1 .. Len(w), w[i] = w[j]
      PROVE  i = j
  <2> DEFINE a(l) == IF l < p THEN l ELSE l - 1
  <2>1. i \in Int /\ j \in Int /\ p \in Int
    BY <1>1, <1>2
  <2>2. i # p => a(i) \in 1 .. Len(s) /\ w[i] = s[a(i)]
    BY <1>1, <1>2, <1>3
  <2>3. j # p => a(j) \in 1 .. Len(s) /\ w[j] = s[a(j)]
    BY <1>1, <1>2, <1>3
  <2>4. w[p] = n
    BY <1>1, <1>3
  <2>5. CASE i = p \/ j = p
    BY <1>4, <1>5, <2>2, <2>3, <2>4, <2>5
  <2>6. CASE i # p /\ j # p
    <3>1. a(i) = a(j)
      BY <1>1, <1>5, <2>2, <2>3, <2>6
    <3> QED
      BY <2>1, <2>6, <3>1
  <2> QED
    BY <2>5, <2>6
<1>6. ToSet(w) = ToSet(s) \cup {n}
  <2>1. ASSUME NEW m \in ToSet(w) PROVE m \in ToSet(s) \cup {n}
    <3>1. PICK i \in 1 .. Len(s) + 1 : m = w[i]
      BY <1>2, <2>1 DEF ToSet
    <3>2. i < p => i \in 1 .. Len(s)
      BY <1>1
    <3>3. i > p => i - 1 \in 1 .. Len(s)
      BY <1>1
    <3> QED
      BY <1>1, <1>3, <3>1, <3>2, <3>3 DEF ToSet
  <2>2. ASSUME NEW i \in 1 .. Len(s) PROVE s[i] \in ToSet(w)
    <3>1. CASE i < p
      <4>1. i \in 1 .. Len(w) /\ i \in 1 .. Len(s) + 1
        BY <1>1, <1>2
      <4> QED
        BY <1>3, <3>1, <4>1 DEF ToSet
    <3>2. CASE ~(i < p)
      <4>1. i + 1 \in 1 .. Len(w) /\ i + 1 \in 1 .. Len(s) + 1 /\ ~(i + 1 < p) /\ i + 1 # p /\ (i + 1) - 1 = i
        BY <1>1, <1>2, <3>2
      <4>2. w[i + 1] = s[i]
        BY <1>3, <4>1
      <4> QED
        BY <4>1, <4>2 DEF ToSet
    <3> QED
      BY <3>1, <3>2
  <2>3. w[p] = n /\ p \in 1 .. Len(w)
    BY <1>1, <1>2, <1>3
  <2>4. n \in ToSet(w)
    BY <1>2, <2>3 DEF ToSet
  <2>5. \A m \in ToSet(s) : m \in ToSet(w)
    BY <1>1, <2>2 DEF ToSet
  <2> QED
    BY <2>1, <2>4, <2>5
<1> QED
  BY <1>2, <1>5, <1>6 DEF Distinct, w

\* A list with one node less.
LEMMA WithoutDistinct ==
  ASSUME NEW s, Distinct(s), NEW p \in 1 .. Len(s)
  PROVE  /\ Distinct(Without(s, p)) /\ Len(Without(s, p)) = Len(s) - 1
         /\ ToSet(Without(s, p)) = ToSet(s) \ {s[p]}
<1> DEFINE w == Without(s, p)
<1>1. s \in Seq(Timer) /\ Len(s) \in Nat /\ \A i, j \in 1 .. Len(s) : s[i] = s[j] => i = j
  BY DEF Distinct
<1>2. w \in Seq(Timer) /\ Len(w) = Len(s) - 1
  BY <1>1 DEF Without
<1>3. \A i \in 1 .. Len(s) - 1 : w[i] = IF i < p THEN s[i] ELSE s[i + 1]
  BY DEF Without
<1> HIDE DEF w
<1> DEFINE a(l) == IF l < p THEN l ELSE l + 1
<1>4. \A i \in 1 .. Len(w) : a(i) \in 1 .. Len(s) /\ a(i) # p /\ w[i] = s[a(i)]
  BY <1>1, <1>2, <1>3
<1>5. ASSUME NEW i \in 1 .. Len(w), NEW j \in 1 .. Len(w), w[i] = w[j]
      PROVE  i = j
  <2>1. i \in Int /\ j \in Int /\ p \in Int
    BY <1>1, <1>2
  <2>2. a(i) = a(j)
    BY <1>1, <1>4, <1>5
  <2> QED
    BY <2>1, <2>2
<1>6. ToSet(w) = ToSet(s) \ {s[p]}
  <2>1. ASSUME NEW m \in ToSet(w) PROVE m \in ToSet(s) /\ m # s[p]
    <3>1. PICK i \in 1 .. Len(w) : m = w[i]
      BY <1>2, <2>1 DEF ToSet
    <3>2. a(i) \in 1 .. Len(s) /\ a(i) # p /\ m = s[a(i)]
      BY <1>4, <3>1
    <3> HIDE DEF a
    <3>3. m \in ToSet(s)
      BY <1>1, <3>2 DEF ToSet
    <3> QED
      BY <1>1, <3>2, <3>3
  <2>2. ASSUME NEW i \in 1 .. Len(s), i # p PROVE s[i] \in ToSet(w)
    <3>1. CASE i < p
      <4>1. i \in 1 .. Len(w) /\ i \in 1 .. Len(s) - 1
        BY <1>1, <1>2, <3>1
      <4> QED
        BY <1>2, <1>3, <3>1, <4>1 DEF ToSet
    <3>2. CASE ~(i < p)
      <4>1. i - 1 \in 1 .. Len(w) /\ i - 1 \in 1 .. Len(s) - 1 /\ ~(i - 1 < p) /\ (i - 1) + 1 = i
        BY <1>1, <1>2, <2>2, <3>2
      <4>2. w[i - 1] = s[i]
        BY <1>3, <4>1
      <4> QED
        BY <1>2, <4>1, <4>2 DEF ToSet
    <3> QED
      BY <3>1, <3>2
  <2>3. \A m \in ToSet(s) : m # s[p] => m \in ToSet(w)
    BY <1>1, <2>2 DEF ToSet
  <2> QED
    BY <2>1, <2>3
<1> QED
  BY <1>2, <1>5, <1>6 DEF Distinct, w

\* The nodes of a ring are nodes, and only the head is none of the timeouts.
LEMMA AtNode ==
  ASSUME NEW h \in ListHead, NEW s, Distinct(s), NEW i \in Int
  PROVE  /\ At(h, s, i) \in {h} \cup ToSet(s) /\ At(h, s, i) \in Node
         /\ i \notin 1 .. Len(s) => At(h, s, i) = h
         /\ i \in 1 .. Len(s) => At(h, s, i) = s[i] /\ s[i] \in Timer /\ s[i] # h
  BY TimeoutQAssumption DEF At, Distinct, ListHead, Node, ToSet

\* Two places of the ring are the same node only if they are the same place.
LEMMA AtInjective ==
  ASSUME NEW h \in ListHead, NEW s, Distinct(s), NEW i \in 0 .. Len(s), NEW j \in 0 .. Len(s),
         At(h, s, i) = At(h, s, j)
  PROVE  i = j
<1>1. s \in Seq(Timer) /\ Len(s) \in Nat /\ \A l, m \in 1 .. Len(s) : s[l] = s[m] => l = m
  BY DEF Distinct
<1>2. i \in Int /\ j \in Int /\ (i # 0 => i \in 1 .. Len(s)) /\ (j # 0 => j \in 1 .. Len(s))
  BY <1>1
<1> QED
  BY <1>1, <1>2, AtNode

\* sys_dlist_insert_before(): n comes before the p-th node, or before the head.
LEMMA RingInsert ==
  ASSUME NEW x \in TimeoutQState, NEW h \in ListHead, NEW s, Distinct(s), IsRing(x, h, s),
         NEW n \in Timer \ ToSet(s), NEW p \in 1 .. Len(s) + 1,
         NEW y, y = InsertBefore(x, At(h, s, p), n)
  PROVE  /\ y \in TimeoutQState /\ y.delta = x.delta
         /\ IsRing(y, h, With(s, p, n))
         /\ \A m \in Node \ ({h, n} \cup ToSet(s)) : y.next[m] = x.next[m] /\ y.prev[m] = x.prev[m]
<1> DEFINE w == With(s, p, n)
<1>1. s \in Seq(Timer) /\ Len(s) \in Nat /\ p \in Int /\ p - 1 \in 0 .. Len(s) /\ (p - 1) + 1 = p
  BY DEF Distinct
<1>2. x.prev[At(h, s, p)] = At(h, s, p - 1)
  BY <1>1 DEF IsRing
<1>3. At(h, s, p) \in {h} \cup ToSet(s) /\ At(h, s, p - 1) \in {h} \cup ToSet(s)
  BY <1>1, AtNode
<1>4. n \notin {h} \cup ToSet(s) /\ n \in Node /\ At(h, s, p) \in Node /\ At(h, s, p - 1) \in Node
  BY <1>1, AtNode, TimeoutQAssumption DEF ListHead, Node
<1>5. /\ y \in TimeoutQState /\ y.delta = x.delta
      /\ \A m \in Node : y.next[m] = IF m = n THEN At(h, s, p)
                                     ELSE IF m = At(h, s, p - 1) THEN n ELSE x.next[m]
      /\ \A m \in Node : y.prev[m] = IF m = n THEN At(h, s, p - 1)
                                     ELSE IF m = At(h, s, p) THEN n ELSE x.prev[m]
  BY <1>2, <1>3, <1>4, InsertWrites
<1>6. Distinct(w) /\ Len(w) = Len(s) + 1 /\ Len(w) \in Nat
  BY <1>1, WithDistinct
<1>7. \A i \in 0 .. Len(w) + 1 :
        At(h, w, i) = IF i < p THEN At(h, s, i) ELSE IF i = p THEN n ELSE At(h, s, i - 1)
  <2>1. \A i \in 1 .. Len(s) + 1 : w[i] = IF i < p THEN s[i] ELSE IF i = p THEN n ELSE s[i - 1]
    BY DEF With
  <2> HIDE DEF w
  <2> QED
    BY <1>1, <1>6, <2>1 DEF At
<1> HIDE DEF w
<1>8. ASSUME NEW i \in 0 .. Len(w)
      PROVE  y.next[At(h, w, i)] = At(h, w, i + 1) /\ y.prev[At(h, w, i + 1)] = At(h, w, i)
  <2>0. i \in Int /\ i \in 0 .. Len(w) + 1 /\ i + 1 \in 0 .. Len(w) + 1 /\ (i + 1) - 1 = i
    BY <1>6
  <2>1. CASE i = p
    <3>1. At(h, w, i) = n /\ At(h, w, i + 1) = At(h, s, p)
      BY <1>1, <1>7, <2>0, <2>1
    <3> QED
      BY <1>3, <1>4, <1>5, <3>1
  <2>2. CASE i = p - 1
    <3>1. At(h, w, i) = At(h, s, p - 1) /\ At(h, w, i + 1) = n
      BY <1>1, <1>7, <2>0, <2>2
    <3> QED
      BY <1>3, <1>4, <1>5, <3>1
  <2>3. CASE i < p - 1
    <3>1. At(h, w, i) = At(h, s, i) /\ At(h, w, i + 1) = At(h, s, i + 1)
      BY <1>1, <1>7, <2>0, <2>3
    <3>2. i \in 0 .. Len(s) /\ i + 1 \in 0 .. Len(s) /\ i # p - 1
      BY <1>1, <2>0, <2>3
    <3>3. x.next[At(h, s, i)] = At(h, s, i + 1) /\ x.prev[At(h, s, i + 1)] = At(h, s, i)
      BY <3>2 DEF IsRing
    <3>4. At(h, s, i) # At(h, s, p - 1)
      BY <1>1, <3>2, AtInjective
    <3>5. At(h, s, i + 1) # At(h, s, p)
      <4>1. CASE p \in 0 .. Len(s)
        BY <1>1, <2>0, <2>3, <3>2, <4>1, AtInjective
      <4>2. CASE p = Len(s) + 1
        <5>1. At(h, s, p) = At(h, s, 0) /\ 0 \in 0 .. Len(s) /\ i + 1 # 0
          BY <1>1, <2>0, <3>2, <4>2, AtNode
        <5> QED
          BY <3>2, <5>1, AtInjective
      <4> QED
        BY <1>1, <4>1, <4>2
    <3>6. /\ At(h, s, i) \in Node /\ At(h, s, i) # n
          /\ At(h, s, i + 1) \in Node /\ At(h, s, i + 1) # n
      BY <1>4, <2>0, AtNode
    <3> QED
      BY <1>5, <3>1, <3>3, <3>4, <3>5, <3>6
  <2>4. CASE i > p
    <3>1. At(h, w, i) = At(h, s, i - 1) /\ At(h, w, i + 1) = At(h, s, i)
      BY <1>1, <1>7, <2>0, <2>4
    <3>2. i - 1 \in 0 .. Len(s) /\ i - 1 # p - 1 /\ (i - 1) + 1 = i /\ i - 1 \in Int
      BY <1>1, <1>6, <2>0, <2>4
    <3>3. x.next[At(h, s, i - 1)] = At(h, s, i) /\ x.prev[At(h, s, i)] = At(h, s, i - 1)
      BY <3>2 DEF IsRing
    <3>4. At(h, s, i - 1) # At(h, s, p - 1)
      BY <1>1, <3>2, AtInjective
    <3>5. At(h, s, i) # At(h, s, p)
      <4>0. p \in 0 .. Len(s) /\ p # 0
        BY <1>1, <1>6, <2>0, <2>4
      <4>1. CASE i \in 0 .. Len(s)
        BY <1>1, <2>4, <4>0, <4>1, AtInjective
      <4>2. CASE i = Len(s) + 1
        <5>1. At(h, s, i) = At(h, s, 0) /\ 0 \in 0 .. Len(s)
          BY <1>1, <2>0, <4>2, AtNode
        <5> QED
          BY <4>0, <5>1, AtInjective
      <4> QED
        BY <1>1, <1>6, <2>0, <4>1, <4>2
    <3>6. /\ At(h, s, i - 1) \in Node /\ At(h, s, i - 1) # n
          /\ At(h, s, i) \in Node /\ At(h, s, i) # n
      BY <1>4, <2>0, <3>2, AtNode
    <3> QED
      BY <1>5, <3>1, <3>3, <3>4, <3>5, <3>6
  <2> QED
    BY <1>1, <2>0, <2>1, <2>2, <2>3, <2>4
<1>9. IsRing(y, h, w)
  BY <1>8 DEF IsRing
<1> QED
  BY <1>3, <1>5, <1>9 DEF w

\* sys_dlist_remove(): the p-th node is passed over, and keeps its pointers.
LEMMA RingUnlink ==
  ASSUME NEW x \in TimeoutQState, NEW h \in ListHead, NEW s, Distinct(s), IsRing(x, h, s),
         NEW p \in 1 .. Len(s), NEW y, y = Unlink(x, s[p])
  PROVE  /\ y \in TimeoutQState /\ y.delta = x.delta
         /\ IsRing(y, h, Without(s, p))
         /\ \A m \in Node \ ({h} \cup ToSet(s)) : y.next[m] = x.next[m] /\ y.prev[m] = x.prev[m]
<1> DEFINE w == Without(s, p)
<1>1. s \in Seq(Timer) /\ Len(s) \in Nat /\ p \in Int /\ p - 1 \in 0 .. Len(s)
      /\ p \in 0 .. Len(s) /\ (p - 1) + 1 = p
  BY DEF Distinct
<1>2. x.prev[s[p]] = At(h, s, p - 1) /\ x.next[s[p]] = At(h, s, p + 1)
  <2>1. At(h, s, p) = s[p]
    BY <1>1, AtNode
  <2>2. x.prev[At(h, s, (p - 1) + 1)] = At(h, s, p - 1)
    BY <1>1 DEF IsRing
  <2>3. x.next[At(h, s, p)] = At(h, s, p + 1)
    BY <1>1 DEF IsRing
  <2> QED
    BY <1>1, <2>1, <2>2, <2>3
<1>3. /\ At(h, s, p - 1) \in {h} \cup ToSet(s) /\ At(h, s, p - 1) \in Node
      /\ At(h, s, p + 1) \in {h} \cup ToSet(s) /\ At(h, s, p + 1) \in Node
      /\ s[p] \in Node
  BY <1>1, AtNode DEF Node
<1>4. /\ y \in TimeoutQState /\ y.delta = x.delta
      /\ \A m \in Node : y.next[m] = IF m = At(h, s, p - 1) THEN At(h, s, p + 1) ELSE x.next[m]
      /\ \A m \in Node : y.prev[m] = IF m = At(h, s, p + 1) THEN At(h, s, p - 1) ELSE x.prev[m]
  <2>1. PICK n : n = s[p]
    OBVIOUS
  <2>2. n \in Node /\ y = Unlink(x, n) /\ x.prev[n] = At(h, s, p - 1) /\ x.next[n] = At(h, s, p + 1)
    BY <1>2, <1>3, <2>1
  <2> QED
    BY <2>2, UnlinkWrites
<1>5. Distinct(w) /\ Len(w) = Len(s) - 1 /\ Len(w) \in Nat
  BY <1>1, WithoutDistinct
<1>6. \A i \in 0 .. Len(w) + 1 : At(h, w, i) = IF i < p THEN At(h, s, i) ELSE At(h, s, i + 1)
  <2>1. \A i \in 1 .. Len(s) - 1 : w[i] = IF i < p THEN s[i] ELSE s[i + 1]
    BY DEF Without
  <2> HIDE DEF w
  <2> QED
    BY <1>1, <1>5, <2>1 DEF At
<1> HIDE DEF w
<1>7. ASSUME NEW i \in 0 .. Len(w)
      PROVE  y.next[At(h, w, i)] = At(h, w, i + 1) /\ y.prev[At(h, w, i + 1)] = At(h, w, i)
  <2>0. i \in Int /\ i \in 0 .. Len(w) + 1 /\ i + 1 \in 0 .. Len(w) + 1
    BY <1>5
  <2>1. CASE i = p - 1
    <3>1. At(h, w, i) = At(h, s, p - 1) /\ At(h, w, i + 1) = At(h, s, p + 1)
      BY <1>1, <1>6, <2>0, <2>1
    <3> QED
      BY <1>3, <1>4, <3>1
  <2>2. CASE i < p - 1
    <3>1. At(h, w, i) = At(h, s, i) /\ At(h, w, i + 1) = At(h, s, i + 1)
      BY <1>1, <1>6, <2>0, <2>2
    <3>2. i \in 0 .. Len(s) /\ i + 1 \in 0 .. Len(s) /\ i # p - 1
      BY <1>1, <2>0, <2>2
    <3>3. x.next[At(h, s, i)] = At(h, s, i + 1) /\ x.prev[At(h, s, i + 1)] = At(h, s, i)
      BY <3>2 DEF IsRing
    <3>4. At(h, s, i) # At(h, s, p - 1)
      BY <1>1, <3>2, AtInjective
    <3>5. At(h, s, i + 1) # At(h, s, p + 1)
      <4>1. CASE p + 1 \in 0 .. Len(s)
        BY <1>1, <2>0, <2>2, <3>2, <4>1, AtInjective
      <4>2. CASE p = Len(s)
        <5>1. At(h, s, p + 1) = At(h, s, 0) /\ 0 \in 0 .. Len(s) /\ i + 1 # 0
          <6>1. p + 1 \in Int /\ p + 1 \notin 1 .. Len(s) /\ 0 \notin 1 .. Len(s) /\ 0 \in 0 .. Len(s) /\ i + 1 # 0
            BY <1>1, <2>0, <4>2
          <6> QED
            BY <6>1, AtNode
        <5> QED
          BY <3>2, <5>1, AtInjective
      <4> QED
        BY <1>1, <4>1, <4>2
    <3>6. At(h, s, i) \in Node /\ At(h, s, i + 1) \in Node
      BY <2>0, AtNode
    <3> QED
      BY <1>4, <3>1, <3>3, <3>4, <3>5, <3>6
  <2>3. CASE i > p - 1
    <3>1. At(h, w, i) = At(h, s, i + 1) /\ At(h, w, i + 1) = At(h, s, i + 2)
      <4>1. (i + 1) + 1 = i + 2 /\ ~(i < p) /\ ~(i + 1 < p)
        BY <1>1, <2>0, <2>3
      <4> QED
        BY <1>6, <2>0, <4>1
    <3>2. i + 1 \in 0 .. Len(s) /\ i + 1 # p - 1 /\ (i + 1) + 1 = i + 2 /\ i + 1 \in Int /\ i + 2 \in Int
      BY <1>1, <1>5, <2>0, <2>3
    <3>3. x.next[At(h, s, i + 1)] = At(h, s, i + 2) /\ x.prev[At(h, s, i + 2)] = At(h, s, i + 1)
      BY <3>2 DEF IsRing
    <3>4. At(h, s, i + 1) # At(h, s, p - 1)
      BY <1>1, <3>2, AtInjective
    <3>5. At(h, s, i + 2) # At(h, s, p + 1)
      <4>0. p + 1 \in 0 .. Len(s) /\ p + 1 # 0 /\ i + 2 # p + 1
        BY <1>1, <1>5, <2>0, <2>3
      <4>1. CASE i + 2 \in 0 .. Len(s)
        BY <4>0, <4>1, AtInjective
      <4>2. CASE i + 2 = Len(s) + 1
        <5>1. At(h, s, i + 2) = At(h, s, 0) /\ 0 \in 0 .. Len(s)
          BY <1>1, <2>0, <4>2, AtNode
        <5> QED
          BY <4>0, <5>1, AtInjective
      <4> QED
        BY <1>1, <1>5, <2>0, <4>1, <4>2
    <3>6. At(h, s, i + 1) \in Node /\ At(h, s, i + 2) \in Node
      BY <3>2, AtNode
    <3> QED
      BY <1>4, <3>1, <3>3, <3>4, <3>5, <3>6
  <2> QED
    BY <1>1, <2>0, <2>1, <2>2, <2>3
<1>8. IsRing(y, h, w)
  BY <1>7 DEF IsRing
<1> QED
  BY <1>3, <1>4, <1>8 DEF w

-----------------------------------------------------------------------------
(***************************************************************************)
(* What a change of the list does to the sums.                             *)
(***************************************************************************)

Deltas == [Timer -> Int]

\* From x to y the deltas of t and its successor, of a successor, or of the first
\* timeout change.
DeltasInsert(x, y, s, p, t, ticks) ==
  /\ y.delta[t] = ticks - TicksUpTo(x, s, p - 1)
  /\ p \in 1 .. Len(s) => y.delta[s[p]] = x.delta[s[p]] - (ticks - TicksUpTo(x, s, p - 1))
  /\ \A i \in 1 .. Len(s) : i # p => y.delta[s[i]] = x.delta[s[i]]

DeltasDelete(x, y, s, p) ==
  /\ p + 1 \in 1 .. Len(s) => y.delta[s[p + 1]] = x.delta[s[p + 1]] + x.delta[s[p]]
  /\ \A i \in 1 .. Len(s) : i # p /\ i # p + 1 => y.delta[s[i]] = x.delta[s[i]]

DeltasConsume(x, y, s, c) ==
  /\ y.delta[s[1]] = x.delta[s[1]] - c
  /\ \A i \in 1 .. Len(s) : i # 1 => y.delta[s[i]] = x.delta[s[i]]

\* The sums after a timeout is inserted and its successor adjusted.
LEMMA SumInsert ==
  ASSUME NEW x, NEW y, x.delta \in Deltas, y.delta \in Deltas,
         NEW s, Distinct(s), NEW t \in Timer \ ToSet(s), NEW p \in 1 .. Len(s) + 1, NEW ticks \in Int,
         DeltasInsert(x, y, s, p, t, ticks)
  PROVE  \A i \in 0 .. Len(s) + 1 :
           TicksUpTo(y, With(s, p, t), i) =
             IF i < p THEN TicksUpTo(x, s, i) ELSE IF i = p THEN ticks ELSE TicksUpTo(x, s, i - 1)
<1> DEFINE w == With(s, p, t)
           T(i) == TicksUpTo(x, s, i)
           g == [i \in 0 .. Len(w) |-> IF i < p THEN T(i) ELSE IF i = p THEN ticks ELSE T(i - 1)]
<1>1. s \in Seq(Timer) /\ Len(s) \in Nat /\ p \in Int
  BY DEF Distinct
<1>2. w \in Seq(Timer) /\ Len(w) = Len(s) + 1 /\ 0 \in 0 .. Len(w)
  BY <1>1, WithDistinct DEF Distinct
<1>3. \A i \in 1 .. Len(s) + 1 : w[i] = IF i < p THEN s[i] ELSE IF i = p THEN t ELSE s[i - 1]
  BY DEF With
<1>4. \A i \in 0 .. Len(s) : T(i) \in Int
  BY <1>1, SumType DEF Deltas
<1>5. T(0) = 0 /\ \A i \in 1 .. Len(s) : T(i) = T(i - 1) + x.delta[s[i]]
  BY <1>1, SumFacts DEF Deltas
<1>6. \A i \in 1 .. Len(s) : x.delta[s[i]] \in Int /\ y.delta[s[i]] \in Int
  <2>1. \A i \in 1 .. Len(s) : s[i] \in Timer
    BY <1>1
  <2> HIDE DEF w, T, g
  <2> QED
    BY <2>1 DEF Deltas
<1> HIDE DEF w, T
<1>7. g \in [0 .. Len(w) -> Int]
  <2>1. ASSUME NEW i \in 0 .. Len(w)
        PROVE  (IF i < p THEN T(i) ELSE IF i = p THEN ticks ELSE T(i - 1)) \in Int
    <3>1. CASE i < p
      BY <1>1, <1>2, <1>4, <3>1
    <3>2. CASE i > p
      <4>1. i - 1 \in 0 .. Len(s)
        BY <1>1, <1>2, <3>2
      <4> QED
        BY <1>4, <3>2, <4>1
    <3> QED
      BY <1>1, <1>2, <3>1, <3>2
  <2> QED
    BY <2>1
<1>8. g[0] = 0
  BY <1>1, <1>2, <1>5
<1>9. ASSUME NEW i \in 1 .. Len(w)
      PROVE  g[i] = g[i - 1] + y.delta[w[i]]
  <2>0. i \in Int /\ i \in 0 .. Len(w) /\ i - 1 \in 0 .. Len(w) /\ i \in 1 .. Len(s) + 1
    BY <1>2
  <2>a. y.delta[t] = ticks - T(p - 1) /\ y.delta[t] \in Int /\ T(p - 1) \in Int
    <3>1. p - 1 \in 0 .. Len(s)
      BY <1>1
    <3> QED
      BY <1>4, <3>1 DEF T, DeltasInsert, Deltas
  <2>b. p \in 1 .. Len(s) => y.delta[s[p]] = x.delta[s[p]] - (ticks - T(p - 1))
    BY DEF T, DeltasInsert
  <2>1. CASE i < p
    <3>1. g[i] = T(i) /\ g[i - 1] = T(i - 1) /\ i \in 1 .. Len(s) /\ i # p /\ w[i] = s[i]
      BY <1>1, <1>3, <2>0, <2>1
    <3> QED
      BY <1>5, <3>1 DEF DeltasInsert
  <2>2. CASE i = p
    <3>1. g[i] = ticks /\ g[i - 1] = T(p - 1) /\ w[i] = t
      BY <1>1, <1>3, <2>0, <2>2
    <3> QED
      BY <2>a, <3>1
  <2>3. CASE i = p + 1
    <3>1. p \in 1 .. Len(s) /\ i - 1 = p
      BY <1>1, <2>0, <2>3
    <3>2. g[i] = T(p) /\ g[i - 1] = ticks /\ w[i] = s[p]
      BY <1>1, <1>3, <2>0, <2>3, <3>1
    <3>3. T(p) = T(p - 1) + x.delta[s[p]] /\ x.delta[s[p]] \in Int
      BY <1>5, <1>6, <3>1
    <3> QED
      BY <2>a, <2>b, <3>1, <3>2, <3>3
  <2>4. CASE i > p + 1
    <3>1. g[i] = T(i - 1) /\ g[i - 1] = T((i - 1) - 1) /\ w[i] = s[i - 1]
      BY <1>1, <1>3, <2>0, <2>4
    <3>2. i - 1 \in 1 .. Len(s) /\ i - 1 # p
      BY <1>1, <2>0, <2>4
    <3>3. T(i - 1) = T((i - 1) - 1) + x.delta[s[i - 1]]
      BY <1>5, <3>2
    <3> QED
      BY <3>1, <3>2, <3>3 DEF DeltasInsert
  <2> QED
    BY <1>1, <2>0, <2>1, <2>2, <2>3, <2>4
<1> HIDE DEF g
<1>10. \A i \in 0 .. Len(w) : TicksUpTo(y, w, i) = g[i]
  <2>1. GrowsBy(y, w, g)
    BY <1>7, <1>8, <1>9 DEF GrowsBy
  <2>2. y.delta \in [Timer -> Int]
    BY DEF Deltas
  <2> QED
    BY <1>2, <2>1, <2>2, SumUnique
<1> QED
  BY <1>2, <1>10 DEF g, w, T

\* The sums after a timeout is removed and its successor adjusted.
LEMMA SumDelete ==
  ASSUME NEW x, NEW y, x.delta \in Deltas, y.delta \in Deltas,
         NEW s, Distinct(s), NEW p \in 1 .. Len(s), DeltasDelete(x, y, s, p)
  PROVE  \A i \in 0 .. Len(s) - 1 :
           TicksUpTo(y, Without(s, p), i) = IF i < p THEN TicksUpTo(x, s, i) ELSE TicksUpTo(x, s, i + 1)
<1> DEFINE w == Without(s, p)
           T(i) == TicksUpTo(x, s, i)
           g == [i \in 0 .. Len(w) |-> IF i < p THEN T(i) ELSE T(i + 1)]
<1>1. s \in Seq(Timer) /\ Len(s) \in Nat /\ p \in Int
  BY DEF Distinct
<1>2. w \in Seq(Timer) /\ Len(w) = Len(s) - 1 /\ 0 \in 0 .. Len(w)
  BY <1>1, WithoutDistinct DEF Distinct
<1>3. \A i \in 1 .. Len(s) - 1 : w[i] = IF i < p THEN s[i] ELSE s[i + 1]
  BY DEF Without
<1>4. \A i \in 0 .. Len(s) : T(i) \in Int
  BY <1>1, SumType DEF Deltas
<1>5. T(0) = 0 /\ \A i \in 1 .. Len(s) : T(i) = T(i - 1) + x.delta[s[i]]
  BY <1>1, SumFacts DEF Deltas
<1>6. \A i \in 1 .. Len(s) : x.delta[s[i]] \in Int /\ y.delta[s[i]] \in Int
  BY <1>1 DEF Deltas
<1> HIDE DEF w, T
<1>7. g \in [0 .. Len(w) -> Int]
  <2>1. ASSUME NEW i \in 0 .. Len(w) PROVE T(i) \in Int /\ T(i + 1) \in Int
    <3>1. i \in 0 .. Len(s) /\ i + 1 \in 0 .. Len(s)
      BY <1>1, <1>2
    <3> QED
      BY <1>4, <3>1
  <2> QED
    BY <2>1
<1>8. g[0] = 0
  BY <1>1, <1>2, <1>5
<1>9. ASSUME NEW i \in 1 .. Len(w)
      PROVE  g[i] = g[i - 1] + y.delta[w[i]]
  <2>0. /\ i \in Int /\ i \in 0 .. Len(w) /\ i - 1 \in 0 .. Len(w) /\ i \in 1 .. Len(s) - 1
        /\ i \in 1 .. Len(s) /\ i + 1 \in 1 .. Len(s) /\ (i + 1) - 1 = i
    BY <1>1, <1>2
  <2>1. CASE i < p
    <3>1. g[i] = T(i) /\ g[i - 1] = T(i - 1) /\ i # p /\ i # p + 1 /\ w[i] = s[i]
      BY <1>1, <1>3, <2>0, <2>1
    <3> QED
      BY <1>5, <2>0, <3>1 DEF DeltasDelete
  <2>2. CASE i = p
    <3>1. g[i] = T(p + 1) /\ g[i - 1] = T(p - 1) /\ w[i] = s[p + 1]
      BY <1>1, <1>3, <2>0, <2>2
    <3>2. T(p + 1) = T(p) + x.delta[s[p + 1]] /\ T(p) = T(p - 1) + x.delta[s[p]]
      BY <1>5, <2>0, <2>2
    <3>3. T(p - 1) \in Int /\ x.delta[s[p]] \in Int /\ x.delta[s[p + 1]] \in Int
      <4>1. p - 1 \in 0 .. Len(s)
        BY <1>1
      <4> QED
        BY <1>4, <1>6, <2>0, <2>2, <4>1
    <3>4. y.delta[s[p + 1]] = x.delta[s[p + 1]] + x.delta[s[p]]
      BY <2>0, <2>2 DEF DeltasDelete
    <3> QED
      BY <3>1, <3>2, <3>3, <3>4
  <2>3. CASE i > p
    <3>1. g[i] = T(i + 1) /\ g[i - 1] = T(i) /\ w[i] = s[i + 1]
      <4>1. ~(i < p) /\ ~(i - 1 < p) /\ (i - 1) + 1 = i
        BY <1>1, <2>0, <2>3
      <4> QED
        BY <1>3, <2>0, <4>1
    <3>2. T(i + 1) = T((i + 1) - 1) + x.delta[s[i + 1]]
      BY <1>5, <2>0
    <3>3. i + 1 # p /\ i + 1 # p + 1
      BY <1>1, <2>0, <2>3
    <3> QED
      BY <2>0, <3>1, <3>2, <3>3 DEF DeltasDelete
  <2> QED
    BY <1>1, <2>0, <2>1, <2>2, <2>3
<1> HIDE DEF g
<1>10. \A i \in 0 .. Len(w) : TicksUpTo(y, w, i) = g[i]
  <2>1. GrowsBy(y, w, g)
    BY <1>7, <1>8, <1>9 DEF GrowsBy
  <2>2. y.delta \in [Timer -> Int]
    BY DEF Deltas
  <2> QED
    BY <1>2, <2>1, <2>2, SumUnique
<1> QED
  BY <1>2, <1>10 DEF g, w, T

\* Ticks taken off the first timeout are taken off all.
LEMMA SumConsume ==
  ASSUME NEW x, NEW y, x.delta \in Deltas, y.delta \in Deltas,
         NEW s, Distinct(s), s # <<>>, NEW c \in Int, DeltasConsume(x, y, s, c)
  PROVE  \A i \in 1 .. Len(s) : TicksUpTo(y, s, i) = TicksUpTo(x, s, i) - c
<1> DEFINE T(i) == TicksUpTo(x, s, i)
           g == [i \in 0 .. Len(s) |-> IF i = 0 THEN 0 ELSE T(i) - c]
<1>1. s \in Seq(Timer) /\ Len(s) \in Nat /\ 1 \in 1 .. Len(s) /\ 0 \in 0 .. Len(s)
  BY DEF Distinct
<1>4. \A i \in 0 .. Len(s) : T(i) \in Int
  BY <1>1, SumType DEF Deltas
<1>5. T(0) = 0 /\ \A i \in 1 .. Len(s) : T(i) = T(i - 1) + x.delta[s[i]]
  BY <1>1, SumFacts DEF Deltas
<1>6. \A i \in 1 .. Len(s) : x.delta[s[i]] \in Int /\ y.delta[s[i]] \in Int
  BY <1>1 DEF Deltas
<1> HIDE DEF T
<1>7. g \in [0 .. Len(s) -> Int]
  BY <1>4
<1>8. g[0] = 0
  BY <1>1
<1>9. ASSUME NEW i \in 1 .. Len(s)
      PROVE  g[i] = g[i - 1] + y.delta[s[i]]
  <2>0. i \in Int /\ i \in 0 .. Len(s) /\ i - 1 \in 0 .. Len(s) /\ T(i - 1) \in Int /\ T(i) \in Int
    <3>1. i \in Int /\ i \in 0 .. Len(s) /\ i - 1 \in 0 .. Len(s)
      BY <1>1
    <3> QED
      BY <1>4, <3>1
  <2>1. T(i) = T(i - 1) + x.delta[s[i]] /\ x.delta[s[i]] \in Int
    BY <1>5, <1>6
  <2>2. g[i] = T(i) - c
    BY <2>0
  <2>3. CASE i = 1
    BY <1>5, <1>8, <2>0, <2>1, <2>2, <2>3 DEF DeltasConsume
  <2>4. CASE i # 1
    <3>1. g[i - 1] = T(i - 1) - c
      BY <2>0, <2>4
    <3>2. y.delta[s[i]] = x.delta[s[i]]
      BY <2>4 DEF DeltasConsume
    <3> HIDE DEF g
    <3> QED
      BY <2>0, <2>1, <2>2, <3>1, <3>2
  <2> QED
    BY <2>3, <2>4
<1> HIDE DEF g
<1>10. \A i \in 0 .. Len(s) : TicksUpTo(y, s, i) = g[i]
  <2>1. GrowsBy(y, s, g)
    BY <1>7, <1>8, <1>9 DEF GrowsBy
  <2>2. y.delta \in [Timer -> Int]
    BY DEF Deltas
  <2> QED
    BY <1>1, <2>1, <2>2, SumUnique
<1> QED
  BY <1>1, <1>10 DEF g, T

-----------------------------------------------------------------------------
(***************************************************************************)
(* The timeout queue: add and abort.                                       *)
(***************************************************************************)

\* The timeouts s wait in this order.
QueueOk(x, s) ==
  /\ x \in TimeoutQState /\ Distinct(s) /\ IsRing(x, Queue, s)
  /\ \A i \in 1 .. Len(s) : x.delta[s[i]] >= 0

\* The first one is not due.
FirstLater(x, s) == s # <<>> => x.delta[s[1]] > 0

\* The ticks before t expires.
Until(x, s, t) == TicksUpTo(x, s, CHOOSE i \in 1 .. Len(s) : s[i] = t)

\* A timeout expires after the deltas up to its own.
LEMMA UntilAt ==
  ASSUME NEW x, NEW s, Distinct(s), NEW i \in 1 .. Len(s)
  PROVE  Until(x, s, s[i]) = TicksUpTo(x, s, i)
<1>1. \A j \in 1 .. Len(s) : s[j] = s[i] => j = i
  BY DEF Distinct
<1>2. (CHOOSE j \in 1 .. Len(s) : s[j] = s[i]) = i
  BY <1>1
<1> QED
  BY <1>2 DEF Until

SamePointers(x, y, nodes) == \A m \in nodes : y.next[m] = x.next[m] /\ y.prev[m] = x.prev[m]

\* The queue s of x with t, which has ticks to go, is the queue w of y.
Added(x, s, y, w, t, ticks) ==
  /\ QueueOk(y, w) /\ ToSet(w) = ToSet(s) \cup {t}
  /\ FirstLater(x, s) => FirstLater(y, w)
  /\ Until(y, w, t) = ticks /\ \A u \in ToSet(s) : Until(y, w, u) = Until(x, s, u)
  /\ \A u \in Timer \ ToSet(w) : y.delta[u] = x.delta[u]
  /\ SamePointers(x, y, Node \ ({Queue, t} \cup ToSet(s)))

\* The queue s of x without t.
Aborted(x, s, y, w, t) ==
  /\ QueueOk(y, w) /\ ToSet(w) = ToSet(s) \ {t}
  /\ FirstLater(x, s) => FirstLater(y, w)
  /\ \A u \in ToSet(w) : Until(y, w, u) = Until(x, s, u)
  /\ y.delta[t] = INACTIVE
  /\ \A u \in Timer \ ToSet(s) : y.delta[u] = x.delta[u]
  /\ SamePointers(x, y, Node \ ({Queue} \cup ToSet(s)))

\* Where the loop of _add_timeout() stops.
StopsAt(x, s, p, ticks) ==
  /\ p \in 1 .. Len(s) + 1 /\ ticks > TicksUpTo(x, s, p - 1)
  /\ p \in 1 .. Len(s) => ticks <= TicksUpTo(x, s, p)

\* The loop of _add_timeout() stops before the first timeout that is not earlier.
LEMMA AddStops ==
  ASSUME NEW x, NEW s, QueueOk(x, s), NEW t \in Timer \ ToSet(s), NEW ticks \in Nat, ticks > 0
  PROVE  \E p, z :
           /\ StopsAt(x, s, p, ticks)
           /\ AddTimeout(x, t, ticks) = InsertBefore(z, At(Queue, s, p), t)
           /\ z \in TimeoutQState /\ z.next = x.next /\ z.prev = x.prev
           /\ DeltasInsert(x, z, s, p, t, ticks)
           /\ \A u \in Timer \ (ToSet(s) \cup {t}) : z.delta[u] = x.delta[u]
<1> DEFINE later == {i \in 1 .. Len(s) : ticks <= TicksUpTo(x, s, i)}
           p == IF later = {} THEN Len(s) + 1 ELSE CHOOSE i \in later : \A j \in later : i <= j
           own == ticks - TicksUpTo(x, s, p - 1)
           added == [x EXCEPT !.delta[t] = own]
           z == IF later = {} THEN added ELSE [added EXCEPT !.delta[s[p]] = @ - own]
<1>0. /\ x \in TimeoutQState /\ s \in Seq(Timer) /\ Len(s) \in Nat /\ Distinct(s) /\ IsRing(x, Queue, s)
      /\ x.delta \in [Timer -> Int] /\ Queue \in ListHead
  BY DEF QueueOk, Distinct, TimeoutQState, ListHead
<1>1. Linked(x, Queue) = s
  BY <1>0, LinkedIsList
<1>2. AddTimeout(x, t, ticks) =
        IF later = {} THEN InsertBefore(added, Queue, t)
        ELSE InsertBefore([added EXCEPT !.delta[s[p]] = @ - own], s[p], t)
  BY <1>1 DEF AddTimeout
<1>3. \A i \in 0 .. Len(s) : TicksUpTo(x, s, i) \in Int
  BY <1>0, SumType
<1>4. TicksUpTo(x, s, 0) = 0
  BY <1>0, SumFacts
<1>5. StopsAt(x, s, p, ticks) /\ (later = {} => p = Len(s) + 1) /\ (later # {} => p \in 1 .. Len(s))
  <2>1. CASE later = {}
    <3>1. p = Len(s) + 1 /\ p - 1 = Len(s) /\ p \notin 1 .. Len(s) /\ p \in 1 .. Len(s) + 1
      BY <1>0, <2>1
    <3>2. ticks > TicksUpTo(x, s, Len(s))
      <4>1. CASE Len(s) = 0
        BY <1>4, <4>1
      <4>2. CASE Len(s) # 0
        <5>1. Len(s) \in 1 .. Len(s) /\ Len(s) \in 0 .. Len(s)
          BY <1>0, <4>2
        <5>2. ~(ticks <= TicksUpTo(x, s, Len(s)))
          BY <2>1, <5>1
        <5> QED
          BY <1>3, <5>1, <5>2
      <4> QED
        BY <4>1, <4>2
    <3> HIDE DEF p
    <3> QED
      BY <2>1, <3>1, <3>2 DEF StopsAt
  <2>2. CASE later # {}
    <3>1. later \in SUBSET Nat
      BY <1>0
    <3>2. \E i \in later : \A j \in later : i <= j
      <4> HIDE DEF later
      <4> QED
        BY <2>2, <3>1, LeastOf
    <3>3. p \in later /\ \A j \in later : p <= j
      <4> HIDE DEF later
      <4> QED
        BY <2>2, <3>2
    <3> HIDE DEF p
    <3>4. p \in 1 .. Len(s) /\ ticks <= TicksUpTo(x, s, p) /\ p \in 1 .. Len(s) + 1
          /\ p \in Int /\ p - 1 \in 0 .. Len(s)
      BY <1>0, <3>3
    <3>5. ticks > TicksUpTo(x, s, p - 1)
      <4>1. CASE p = 1
        BY <1>4, <4>1
      <4>2. CASE p # 1
        <5>1. p - 1 \in 1 .. Len(s) /\ ~(p <= p - 1)
          BY <3>4, <4>2
        <5>2. p - 1 \notin later
          BY <3>3, <5>1
        <5>3. ~(ticks <= TicksUpTo(x, s, p - 1))
          BY <5>1, <5>2
        <5> QED
          BY <1>3, <3>4, <5>3
      <4> QED
        BY <4>1, <4>2
    <3> QED
      BY <2>2, <3>4, <3>5 DEF StopsAt
  <2> QED
    BY <2>1, <2>2
<1>6. own \in Int
  <2>1. p - 1 \in 0 .. Len(s)
    <3> HIDE DEF p, later
    <3> QED
      BY <1>0, <1>5 DEF StopsAt
  <2>2. TicksUpTo(x, s, p - 1) \in Int
    BY <1>3, <2>1
  <2> QED
    BY <2>2
<1> HIDE DEF p, later
<1>7. AddTimeout(x, t, ticks) = InsertBefore(z, At(Queue, s, p), t)
  <2>1. CASE later = {}
    <3>1. At(Queue, s, p) = Queue
      BY <1>0, <1>5, <2>1 DEF At
    <3> QED
      BY <1>2, <2>1, <3>1
  <2>2. CASE later # {}
    <3>1. At(Queue, s, p) = s[p]
      BY <1>5, <2>2 DEF At
    <3> QED
      BY <1>2, <2>2, <3>1
  <2> QED
    BY <2>1, <2>2
<1>8. \A i \in 1 .. Len(s) : s[i] \in Timer /\ s[i] # t /\ s[i] \in ToSet(s)
  BY <1>0 DEF ToSet
<1>9. PICK o : o = own
  OBVIOUS
<1>10. /\ z.next = x.next /\ z.prev = x.prev
       /\ z.delta = IF later = {} THEN [x.delta EXCEPT ![t] = o]
                    ELSE [[x.delta EXCEPT ![t] = o] EXCEPT ![s[p]] = @ - o]
       /\ z = [next |-> z.next, prev |-> z.prev, delta |-> z.delta]
  <2>1. added = [next |-> x.next, prev |-> x.prev, delta |-> [x.delta EXCEPT ![t] = o]]
    <3>1. added = [x EXCEPT !.delta[t] = o]
      BY <1>9
    <3>2. x = [next |-> x.next, prev |-> x.prev, delta |-> x.delta]
      BY <1>0 DEF TimeoutQState
    <3> HIDE DEF z, added, own
    <3> QED
      BY <3>1, <3>2
  <2>2. z = IF later = {} THEN added ELSE [added EXCEPT !.delta[s[p]] = @ - o]
    BY <1>9
  <2> HIDE DEF z, added, own
  <2> QED
    BY <2>1, <2>2
<1>11. o \in Int /\ o = ticks - TicksUpTo(x, s, p - 1)
  BY <1>6, <1>9
<1> HIDE DEF z, own, added
<1>12. z \in TimeoutQState
  <2>1. x.next \in [Node -> Node] /\ x.prev \in [Node -> Node]
    BY <1>0 DEF TimeoutQState
  <2>2. z.delta \in [Timer -> Int]
    <3>1. CASE later = {}
      BY <1>0, <1>10, <1>11, <3>1
    <3>2. CASE later # {}
      <4>1. PICK f : f = [x.delta EXCEPT ![t] = o]
        OBVIOUS
      <4>2. f \in [Timer -> Int] /\ s[p] \in Timer
        BY <1>0, <1>5, <1>8, <1>11, <3>2, <4>1
      <4>3. z.delta = [f EXCEPT ![s[p]] = @ - o]
        BY <1>10, <3>2, <4>1
      <4> QED
        BY <1>11, <4>2, <4>3
    <3> QED
      BY <3>1, <3>2
  <2> QED
    BY <1>10, <2>1, <2>2 DEF TimeoutQState
<1>13. \A u \in Timer \ (ToSet(s) \cup {t}) : z.delta[u] = x.delta[u]
  <2>1. CASE later = {}
    BY <1>0, <1>10, <2>1
  <2>2. CASE later # {}
    BY <1>0, <1>5, <1>8, <1>10, <2>2
  <2> QED
    BY <2>1, <2>2
<1>14. DeltasInsert(x, z, s, p, t, ticks)
  <2>1. CASE later = {}
    <3>1. p \notin 1 .. Len(s)
      BY <1>0, <1>5, <2>1
    <3>2. z.delta[t] = o /\ \A i \in 1 .. Len(s) : z.delta[s[i]] = x.delta[s[i]]
      BY <1>0, <1>8, <1>10, <2>1
    <3> QED
      BY <1>11, <3>1, <3>2 DEF DeltasInsert
  <2>2. CASE later # {}
    <3>1. p \in 1 .. Len(s) /\ \A i \in 1 .. Len(s) : i # p => s[i] # s[p]
      BY <1>0, <1>5, <2>2 DEF Distinct
    <3>2. z.delta[t] = o /\ \A i \in 1 .. Len(s) : i # p => z.delta[s[i]] = x.delta[s[i]]
      BY <1>0, <1>8, <1>10, <2>2, <3>1
    <3>3. z.delta[s[p]] = x.delta[s[p]] - o
      BY <1>0, <1>8, <1>10, <2>2, <3>1
    <3> QED
      BY <1>11, <3>2, <3>3 DEF DeltasInsert
  <2> QED
    BY <2>1, <2>2
<1> QED
  BY <1>5, <1>7, <1>10, <1>12, <1>13, <1>14

\* _add_timeout() puts t in its place and moves no other deadline.
LEMMA AddAdds ==
  ASSUME NEW x, NEW s, QueueOk(x, s), NEW t \in Timer \ ToSet(s), NEW ticks \in Nat, ticks > 0,
         NEW y, y = AddTimeout(x, t, ticks)
  PROVE  \E w : Added(x, s, y, w, t, ticks)
<1>0. /\ x \in TimeoutQState /\ s \in Seq(Timer) /\ Len(s) \in Nat /\ Distinct(s) /\ IsRing(x, Queue, s)
      /\ x.delta \in [Timer -> Int] /\ Queue \in ListHead
      /\ \A i \in 1 .. Len(s) : x.delta[s[i]] >= 0
  BY DEF QueueOk, Distinct, TimeoutQState, ListHead
<1>1. PICK p, z :
        /\ StopsAt(x, s, p, ticks)
        /\ y = InsertBefore(z, At(Queue, s, p), t)
        /\ z \in TimeoutQState /\ z.next = x.next /\ z.prev = x.prev
        /\ DeltasInsert(x, z, s, p, t, ticks)
        /\ \A u \in Timer \ (ToSet(s) \cup {t}) : z.delta[u] = x.delta[u]
  BY AddStops
<1>2. p \in 1 .. Len(s) + 1 /\ p \in Int /\ p - 1 \in 0 .. Len(s)
  BY <1>0, <1>1 DEF StopsAt
<1>3. IsRing(z, Queue, s)
  BY <1>0, <1>1, RingFrame
<1>4. /\ y \in TimeoutQState /\ y.delta = z.delta /\ IsRing(y, Queue, With(s, p, t))
      /\ \A m \in Node \ ({Queue, t} \cup ToSet(s)) : y.next[m] = z.next[m] /\ y.prev[m] = z.prev[m]
  BY <1>0, <1>1, <1>2, <1>3, RingInsert
<1>5. PICK w : w = With(s, p, t)
  OBVIOUS
<1>6. Distinct(w) /\ Len(w) = Len(s) + 1 /\ ToSet(w) = ToSet(s) \cup {t} /\ w \in Seq(Timer)
  <2>1. Distinct(w) /\ Len(w) = Len(s) + 1 /\ ToSet(w) = ToSet(s) \cup {t}
    BY <1>0, <1>2, <1>5, WithDistinct
  <2> QED
    BY <2>1 DEF Distinct
<1>7. \A i \in 1 .. Len(s) + 1 : w[i] = IF i < p THEN s[i] ELSE IF i = p THEN t ELSE s[i - 1]
  BY <1>5 DEF With
<1>8. y.delta \in Deltas /\ x.delta \in Deltas /\ DeltasInsert(x, y, s, p, t, ticks)
  BY <1>0, <1>1, <1>4 DEF Deltas, DeltasInsert, TimeoutQState
<1>9. \A i \in 0 .. Len(s) + 1 :
        TicksUpTo(y, w, i) =
          IF i < p THEN TicksUpTo(x, s, i) ELSE IF i = p THEN ticks ELSE TicksUpTo(x, s, i - 1)
  <2>1. ticks \in Int
    OBVIOUS
  <2> QED
    BY <1>0, <1>2, <1>5, <1>8, <2>1, SumInsert
<1>10. /\ y.delta[t] > 0 /\ (p = 1 => y.delta[t] = ticks)
       /\ \A i \in 1 .. Len(s) : y.delta[s[i]] >= 0 /\ (i # p => y.delta[s[i]] = x.delta[s[i]])
  <2>1. TicksUpTo(x, s, p - 1) \in Int /\ TicksUpTo(x, s, 0) = 0
    BY <1>0, <1>2, SumType, SumFacts
  <2>2. y.delta[t] = ticks - TicksUpTo(x, s, p - 1)
    BY <1>8 DEF DeltasInsert
  <2>3. y.delta[t] > 0 /\ (p = 1 => y.delta[t] = ticks)
    <3>1. ticks > TicksUpTo(x, s, p - 1) /\ (p = 1 => p - 1 = 0)
      BY <1>1 DEF StopsAt
    <3> QED
      BY <2>1, <2>2, <3>1
  <2>4. \A i \in 1 .. Len(s) : i # p => y.delta[s[i]] = x.delta[s[i]]
    BY <1>8 DEF DeltasInsert
  <2>5. p \in 1 .. Len(s) => y.delta[s[p]] >= 0
    <3>1. SUFFICES ASSUME p \in 1 .. Len(s) PROVE y.delta[s[p]] >= 0
      OBVIOUS
    <3>2. y.delta[s[p]] = x.delta[s[p]] - (ticks - TicksUpTo(x, s, p - 1))
      BY <1>8, <3>1 DEF DeltasInsert
    <3>3. ticks <= TicksUpTo(x, s, p)
      BY <1>1, <3>1 DEF StopsAt
    <3>4. TicksUpTo(x, s, p) = TicksUpTo(x, s, p - 1) + x.delta[s[p]] /\ x.delta[s[p]] \in Int
      BY <1>0, <3>1, SumFacts
    <3> QED
      BY <2>1, <3>2, <3>3, <3>4
  <2> QED
    BY <1>0, <2>3, <2>4, <2>5
<1>11. QueueOk(y, w)
  <2>1. ASSUME NEW i \in 1 .. Len(w) PROVE y.delta[w[i]] >= 0
    <3>0. i \in 1 .. Len(s) + 1 /\ i \in Int
      BY <1>0, <1>6
    <3>1. CASE i < p
      <4>1. w[i] = s[i] /\ i \in 1 .. Len(s)
        BY <1>0, <1>2, <1>7, <3>0, <3>1
      <4> QED
        BY <1>10, <4>1
    <3>2. CASE i = p
      <4>1. w[i] = t
        BY <1>2, <1>7, <3>0, <3>2
      <4>2. y.delta[t] \in Int
        BY <1>8 DEF Deltas
      <4> QED
        BY <1>10, <4>1, <4>2
    <3>3. CASE i > p
      <4>1. w[i] = s[i - 1] /\ i - 1 \in 1 .. Len(s)
        BY <1>0, <1>2, <1>7, <3>0, <3>3
      <4> QED
        BY <1>10, <4>1
    <3> QED
      BY <1>2, <3>0, <3>1, <3>2, <3>3
  <2> QED
    BY <1>4, <1>5, <1>6, <2>1 DEF QueueOk
<1>12. FirstLater(x, s) => FirstLater(y, w)
  <2>1. 1 \in 1 .. Len(s) + 1
    BY <1>0
  <2>2. CASE p = 1
    <3>1. w[1] = t
      BY <1>7, <2>1, <2>2
    <3> QED
      BY <1>10, <3>1 DEF FirstLater
  <2>3. CASE p # 1
    <3>1. w[1] = s[1] /\ 1 \in 1 .. Len(s) /\ s # <<>>
      BY <1>0, <1>2, <1>7, <2>1, <2>3
    <3>2. y.delta[s[1]] = x.delta[s[1]]
      BY <1>10, <2>3, <3>1
    <3> QED
      BY <3>1, <3>2 DEF FirstLater
  <2> QED
    BY <2>2, <2>3
<1>13. Until(y, w, t) = ticks
  <2>1. p \in 1 .. Len(w) /\ p \in 0 .. Len(s) + 1 /\ w[p] = t
    BY <1>0, <1>2, <1>6, <1>7
  <2>2. TicksUpTo(y, w, p) = ticks
    BY <1>2, <1>9, <2>1
  <2>3. Until(y, w, w[p]) = TicksUpTo(y, w, p)
    BY <1>6, <2>1, UntilAt
  <2> QED
    BY <2>1, <2>2, <2>3
<1>14. \A u \in ToSet(s) : Until(y, w, u) = Until(x, s, u)
  <2> TAKE u \in ToSet(s)
  <2>1. PICK i \in 1 .. Len(s) : u = s[i]
    BY <1>0 DEF ToSet
  <2>2. Until(x, s, u) = TicksUpTo(x, s, i)
    BY <1>0, <2>1, UntilAt
  <2>3. CASE i < p
    <3>1. i \in 1 .. Len(w) /\ w[i] = u /\ TicksUpTo(y, w, i) = TicksUpTo(x, s, i)
      <4>1. i \in 1 .. Len(w) /\ i \in 1 .. Len(s) + 1 /\ i \in 0 .. Len(s) + 1
        BY <1>0, <1>6
      <4> QED
        BY <1>7, <1>9, <2>1, <2>3, <4>1
    <3>2. Until(y, w, w[i]) = TicksUpTo(y, w, i)
      BY <1>6, <3>1, UntilAt
    <3> QED
      BY <2>2, <3>1, <3>2
  <2>4. CASE ~(i < p)
    <3>1. i + 1 \in 1 .. Len(w) /\ w[i + 1] = u /\ TicksUpTo(y, w, i + 1) = TicksUpTo(x, s, i)
      <4>1. /\ i + 1 \in 1 .. Len(w) /\ i + 1 \in 1 .. Len(s) + 1 /\ i + 1 \in 0 .. Len(s) + 1
            /\ ~(i + 1 < p) /\ i + 1 # p /\ (i + 1) - 1 = i
        <5>1. Len(s) \in Nat /\ p \in Int /\ Len(w) = Len(s) + 1 /\ i \in Int /\ 1 <= i /\ i <= Len(s)
          BY <1>0, <1>2, <1>6
        <5>2. ~(i + 1 < p) /\ i + 1 # p /\ (i + 1) - 1 = i
          BY <2>4, <5>1
        <5> QED
          BY <5>1, <5>2
      <4> QED
        BY <1>7, <1>9, <2>1, <4>1
    <3>2. Until(y, w, w[i + 1]) = TicksUpTo(y, w, i + 1)
      BY <1>6, <3>1, UntilAt
    <3> QED
      BY <2>2, <3>1, <3>2
  <2> QED
    BY <2>3, <2>4
<1>15. \A u \in Timer \ ToSet(w) : y.delta[u] = x.delta[u]
  BY <1>1, <1>4, <1>6
<1>16. SamePointers(x, y, Node \ ({Queue, t} \cup ToSet(s)))
  BY <1>1, <1>4 DEF SamePointers
<1> QED
  BY <1>6, <1>11, <1>12, <1>13, <1>14, <1>15, <1>16 DEF Added

\* Nodes that are forgotten are in no list that matters.
LEMMA ForgetWrites ==
  ASSUME NEW x \in TimeoutQState, NEW in, NEW y, y = Forget(x, in)
  PROVE  /\ y \in TimeoutQState /\ y.delta = x.delta /\ SamePointers(x, y, Node \ in)
         /\ \A m \in Node \cap in : y.next[m] = m /\ y.prev[m] = m
  BY DEF Forget, TimeoutQState, SamePointers

\* A write to a delta.
LEMMA DeltaWrites ==
  ASSUME NEW x \in TimeoutQState, NEW t \in Timer, NEW v \in Int, NEW y, y = [x EXCEPT !.delta[t] = v]
  PROVE  /\ y \in TimeoutQState /\ y.next = x.next /\ y.prev = x.prev
         /\ y.delta[t] = v /\ \A u \in Timer \ {t} : y.delta[u] = x.delta[u]
  BY DEF TimeoutQState

\* _abort_timeout() takes t off and moves no other deadline.
LEMMA AbortAborts ==
  ASSUME NEW x, NEW s, QueueOk(x, s), NEW t \in ToSet(s), NEW y, y = AbortTimeout(x, t)
  PROVE  \E w : Aborted(x, s, y, w, t)
<1>0. /\ x \in TimeoutQState /\ s \in Seq(Timer) /\ Len(s) \in Nat /\ Distinct(s) /\ IsRing(x, Queue, s)
      /\ x.delta \in [Timer -> Int] /\ Queue \in ListHead
      /\ \A i \in 1 .. Len(s) : x.delta[s[i]] >= 0 /\ s[i] \in Timer /\ x.delta[s[i]] \in Int
      /\ \A i, j \in 1 .. Len(s) : s[i] = s[j] => i = j
  BY DEF QueueOk, Distinct, TimeoutQState, ListHead
<1>1. PICK p \in 1 .. Len(s) : t = s[p]
  BY <1>0 DEF ToSet
<1>2. p \in Int /\ t \in Timer /\ t \in Node /\ s # <<>>
  BY <1>0, <1>1 DEF Node
<1>3. x.prev[Queue] = s[Len(s)] /\ x.next[t] = IF p = Len(s) THEN Queue ELSE s[p + 1]
  BY <1>0, <1>1, <1>2, RingEnds
<1>4. t = x.prev[Queue] <=> p = Len(s)
  <2>1. Len(s) \in 1 .. Len(s)
    BY <1>0, <1>2
  <2> QED
    BY <1>0, <1>1, <1>3, <2>1
<1> DEFINE kept == IF t = x.prev[Queue] THEN x ELSE [x EXCEPT !.delta[x.next[t]] = @ + x.delta[t]]
           cut == Unlink(kept, t)
           off == [cut EXCEPT !.delta[t] = INACTIVE]
<1>5. y = Forget(off, {t})
  BY DEF AbortTimeout
<1>6. /\ kept \in TimeoutQState /\ kept.next = x.next /\ kept.prev = x.prev
      /\ p + 1 \in 1 .. Len(s) => kept.delta[s[p + 1]] = x.delta[s[p + 1]] + x.delta[s[p]]
      /\ \A u \in Timer : (p + 1 \in 1 .. Len(s) => u # s[p + 1]) => kept.delta[u] = x.delta[u]
  <2>1. CASE p = Len(s)
    BY <1>0, <1>4, <2>1
  <2>2. CASE p # Len(s)
    <3>1. p + 1 \in 1 .. Len(s) /\ x.next[t] = s[p + 1] /\ s[p + 1] \in Timer
      BY <1>0, <1>2, <1>3, <2>2
    <3>2. PICK v : v = x.delta[s[p + 1]] + x.delta[t]
      OBVIOUS
    <3>3. v \in Int
      BY <1>0, <1>1, <3>1, <3>2
    <3>4. kept = [x EXCEPT !.delta[s[p + 1]] = v]
      BY <1>4, <2>2, <3>1, <3>2
    <3> HIDE DEF kept
    <3>5. PICK u : u = s[p + 1]
      OBVIOUS
    <3>6. /\ kept \in TimeoutQState /\ kept.next = x.next /\ kept.prev = x.prev
          /\ kept.delta[u] = v /\ \A m \in Timer \ {u} : kept.delta[m] = x.delta[m]
      BY <1>0, <3>1, <3>3, <3>4, <3>5, DeltaWrites
    <3> QED
      BY <1>1, <3>1, <3>2, <3>5, <3>6
  <2> QED
    BY <2>1, <2>2
<1> HIDE DEF kept
<1>7. IsRing(kept, Queue, s)
  BY <1>0, <1>6, RingFrame
<1>8. /\ cut \in TimeoutQState /\ cut.delta = kept.delta /\ IsRing(cut, Queue, Without(s, p))
      /\ \A m \in Node \ ({Queue} \cup ToSet(s)) : cut.next[m] = kept.next[m] /\ cut.prev[m] = kept.prev[m]
  BY <1>0, <1>1, <1>6, <1>7, RingUnlink
<1> HIDE DEF cut
<1>9. /\ off \in TimeoutQState /\ off.next = cut.next /\ off.prev = cut.prev
      /\ off.delta[t] = INACTIVE /\ \A u \in Timer \ {t} : off.delta[u] = kept.delta[u]
  <2>1. INACTIVE \in Int
    BY DEF INACTIVE
  <2> QED
    <3>1. PICK z : z = off
      OBVIOUS
    <3>2. z = [cut EXCEPT !.delta[t] = INACTIVE]
      BY <3>1
    <3> HIDE DEF off
    <3>3. /\ z \in TimeoutQState /\ z.next = cut.next /\ z.prev = cut.prev
          /\ z.delta[t] = INACTIVE /\ \A u \in Timer \ {t} : z.delta[u] = cut.delta[u]
      BY <1>2, <1>8, <2>1, <3>2, DeltaWrites
    <3> QED
      BY <1>8, <3>1, <3>3
<1> HIDE DEF off
<1>10. y \in TimeoutQState /\ y.delta = off.delta /\ SamePointers(off, y, Node \ {t})
  BY <1>5, <1>9, ForgetWrites
<1>11. PICK w : w = Without(s, p)
  OBVIOUS
<1>12. Distinct(w) /\ Len(w) = Len(s) - 1 /\ ToSet(w) = ToSet(s) \ {t} /\ w \in Seq(Timer)
  BY <1>0, <1>1, <1>11, WithoutDistinct DEF Distinct
<1>13. \A i \in 1 .. Len(s) - 1 : w[i] = IF i < p THEN s[i] ELSE s[i + 1]
  BY <1>11 DEF Without
<1>14. IsRing(y, Queue, w)
  <2>1. {Queue} \cup ToSet(w) \subseteq Node \ {t}
    BY <1>2, <1>12, TimeoutQAssumption DEF Node, ToSet
  <2>2. \A n \in {Queue} \cup ToSet(w) : y.next[n] = cut.next[n] /\ y.prev[n] = cut.prev[n]
    BY <1>9, <1>10, <2>1 DEF SamePointers
  <2> QED
    BY <1>0, <1>8, <1>11, <1>12, <2>2, RingFrame
<1>15. DeltasDelete(x, y, s, p)
  <2>1. ASSUME NEW i \in 1 .. Len(s), i # p, i # p + 1
        PROVE  y.delta[s[i]] = x.delta[s[i]]
    <3>1. s[i] \in Timer \ {t} /\ (p + 1 \in 1 .. Len(s) => s[i] # s[p + 1])
      BY <1>0, <1>1, <2>1
    <3> QED
      BY <1>6, <1>9, <1>10, <3>1
  <2>2. ASSUME p + 1 \in 1 .. Len(s)
        PROVE  y.delta[s[p + 1]] = x.delta[s[p + 1]] + x.delta[s[p]]
    <3>1. s[p + 1] \in Timer \ {t}
      BY <1>0, <1>1, <1>2, <2>2
    <3> QED
      BY <1>6, <1>9, <1>10, <2>2, <3>1
  <2> QED
    BY <2>1, <2>2 DEF DeltasDelete
<1>16. \A i \in 0 .. Len(s) - 1 :
         TicksUpTo(y, w, i) = IF i < p THEN TicksUpTo(x, s, i) ELSE TicksUpTo(x, s, i + 1)
  <2>1. x.delta \in Deltas /\ y.delta \in Deltas
    BY <1>0, <1>10 DEF Deltas, TimeoutQState
  <2> QED
    BY <1>0, <1>11, <1>15, <2>1, SumDelete
<1>17. \A i \in 1 .. Len(s) : i # p => y.delta[s[i]] >= x.delta[s[i]] /\ y.delta[s[i]] \in Int
  <2> TAKE i \in 1 .. Len(s)
  <2>1. x.delta[s[i]] \in Int /\ x.delta[s[p]] \in Int /\ x.delta[s[p]] >= 0
    BY <1>0
  <2>2. CASE i = p + 1
    <3>1. y.delta[s[i]] = x.delta[s[i]] + x.delta[s[p]]
      BY <1>15, <2>2 DEF DeltasDelete
    <3> QED
      BY <2>1, <3>1
  <2>3. CASE i # p /\ i # p + 1
    <3>1. y.delta[s[i]] = x.delta[s[i]]
      BY <1>15, <2>3 DEF DeltasDelete
    <3> QED
      BY <2>1, <3>1
  <2> QED
    BY <2>2, <2>3
<1>18. \A i \in 1 .. Len(w) : \E j \in 1 .. Len(s) : j # p /\ w[i] = s[j]
  <2> TAKE i \in 1 .. Len(w)
  <2>1. i \in 1 .. Len(s) - 1 /\ i \in 1 .. Len(s) /\ i + 1 \in 1 .. Len(s) /\ (i < p => i # p)
        /\ (~(i < p) => i + 1 # p)
    <3>1. Len(s) \in Nat /\ p \in Int /\ Len(w) = Len(s) - 1
      BY <1>0, <1>2, <1>12
    <3>2. i \in Int /\ 1 <= i /\ i <= Len(s) - 1
      BY <3>1
    <3> QED
      BY <3>1, <3>2
  <2> QED
    BY <1>13, <2>1
<1>19. QueueOk(y, w)
  <2>1. ASSUME NEW i \in 1 .. Len(w) PROVE y.delta[w[i]] >= 0
    <3>1. PICK j \in 1 .. Len(s) : j # p /\ w[i] = s[j]
      BY <1>18
    <3>2. y.delta[s[j]] >= x.delta[s[j]] /\ y.delta[s[j]] \in Int /\ x.delta[s[j]] \in Int /\ x.delta[s[j]] >= 0
      BY <1>0, <1>17, <3>1
    <3> QED
      BY <3>1, <3>2
  <2> QED
    BY <1>10, <1>12, <1>14, <2>1 DEF QueueOk
<1>20. FirstLater(x, s) => FirstLater(y, w)
  <2>1. SUFFICES ASSUME x.delta[s[1]] > 0, w # <<>> PROVE y.delta[w[1]] > 0
    BY <1>2 DEF FirstLater
  <2>2. 1 \in 1 .. Len(s) - 1 /\ 1 \in 1 .. Len(s) /\ 2 \in 1 .. Len(s)
    BY <1>0, <1>12, <2>1
  <2>3. CASE p = 1
    <3>1. w[1] = s[2] /\ p + 1 = 2
      <4>1. ~(1 < p) /\ 1 + 1 = 2
        BY <2>3
      <4> QED
        BY <1>13, <2>2, <2>3, <4>1
    <3>2. y.delta[s[2]] = x.delta[s[2]] + x.delta[s[1]]
      BY <1>15, <2>2, <2>3, <3>1 DEF DeltasDelete
    <3>3. x.delta[s[2]] \in Int /\ x.delta[s[2]] >= 0 /\ x.delta[s[1]] \in Int
      BY <1>0, <2>2
    <3> QED
      BY <2>1, <3>1, <3>2, <3>3
  <2>4. CASE p # 1
    <3>1. w[1] = s[1]
      <4>1. 1 < p
        BY <1>0, <1>1, <2>4
      <4> QED
        BY <1>13, <2>2, <4>1
    <3>2. y.delta[s[1]] >= x.delta[s[1]] /\ y.delta[s[1]] \in Int /\ x.delta[s[1]] \in Int
      BY <1>0, <1>17, <2>2, <2>4
    <3> QED
      BY <2>1, <3>1, <3>2
  <2> QED
    BY <2>3, <2>4
<1>21. \A u \in ToSet(w) : Until(y, w, u) = Until(x, s, u)
  <2> TAKE u \in ToSet(w)
  <2>1. PICK i \in 1 .. Len(w) : u = w[i]
    BY <1>12 DEF ToSet
  <2>2. Until(y, w, u) = TicksUpTo(y, w, i)
    BY <1>12, <2>1, UntilAt
  <2>3. i \in 1 .. Len(s) - 1 /\ i \in 0 .. Len(s) - 1 /\ i \in 1 .. Len(s) /\ i + 1 \in 1 .. Len(s)
    BY <1>0, <1>12
  <2>4. CASE i < p
    <3>1. w[i] = s[i] /\ TicksUpTo(y, w, i) = TicksUpTo(x, s, i)
      BY <1>13, <1>16, <2>3, <2>4
    <3>2. Until(x, s, s[i]) = TicksUpTo(x, s, i)
      BY <1>0, <2>3, UntilAt
    <3> QED
      BY <2>1, <2>2, <3>1, <3>2
  <2>5. CASE ~(i < p)
    <3>1. w[i] = s[i + 1] /\ TicksUpTo(y, w, i) = TicksUpTo(x, s, i + 1)
      BY <1>13, <1>16, <2>3, <2>5
    <3>2. Until(x, s, s[i + 1]) = TicksUpTo(x, s, i + 1)
      BY <1>0, <2>3, UntilAt
    <3> QED
      BY <2>1, <2>2, <3>1, <3>2
  <2> QED
    BY <2>4, <2>5
<1>22. \A u \in Timer \ ToSet(s) : y.delta[u] = x.delta[u]
  <2> TAKE u \in Timer \ ToSet(s)
  <2>1. u # t /\ (p + 1 \in 1 .. Len(s) => u # s[p + 1])
    BY <1>0, <1>1 DEF ToSet
  <2> QED
    BY <1>6, <1>9, <1>10, <2>1
<1>23. SamePointers(x, y, Node \ ({Queue} \cup ToSet(s)))
  BY <1>6, <1>8, <1>9, <1>10 DEF SamePointers
<1> QED
  BY <1>9, <1>10, <1>12, <1>19, <1>20, <1>21, <1>22, <1>23 DEF Aborted

-----------------------------------------------------------------------------
(***************************************************************************)
(* The invariant.                                                          *)
(***************************************************************************)

\* The timeouts e have expired, the i-th is the next to be handled, and those
\* that are neither in s nor in e are not running.
ExpiredFrom(x, s, e, i) ==
  /\ Distinct(e) /\ ToSet(s) \cap ToSet(e) = {}
  /\ IsRing(x, Expired, e)
  /\ \A j \in 1 .. Len(e) : x.delta[e[j]] = IF j < i THEN INACTIVE ELSE EXPIRED
  /\ \A t \in Timer \ (ToSet(s) \cup ToSet(e)) : x.delta[t] = INACTIVE

\* Between two interrupts, while the interrupt moves what is due to its own list,
\* and while it walks that list.
Resting(x, c, s) ==
  /\ c = ClockOff /\ FirstLater(x, s) /\ ExpiredFrom(x, s, <<>>, 1)

Dequeuing(x, c, s, e) ==
  /\ c.phase = "dequeue" /\ c.at = s[1] /\ c.ticks \in Nat
  /\ c = [phase |-> c.phase, at |-> c.at, ticks |-> c.ticks]
  /\ s # <<>> /\ ExpiredFrom(x, s, e, 1)

Handling(x, c, s, e) ==
  /\ FirstLater(x, s)
  /\ \E i \in 1 .. Len(e) :
       c = [phase |-> "handle", at |-> e[i], ticks |-> 0] /\ ExpiredFrom(x, s, e, i)

Shape(x, c, s, e) ==
  /\ QueueOk(x, s)
  /\ Resting(x, c, s) \/ Dequeuing(x, c, s, e) \/ Handling(x, c, s, e)

TimersInv ==
  /\ period \in [Timer -> Period] /\ status \in [Timer -> BOOLEAN]
  /\ sync \in [Timer -> {"out", "waiting", "woken"}] /\ stopping \in SUBSET Timer
  /\ WaiterHasTimer
  /\ \E s, e : Shape(q, clock, s, e)

-----------------------------------------------------------------------------
(***************************************************************************)
(* The ticks left, as the list has them.                                   *)
(***************************************************************************)

NotBelowZero(n) == IF n < 0 THEN 0 ELSE n

\* The ticks announced that are not yet taken off.
Announced(c) == IF c.phase = "dequeue" THEN c.ticks ELSE 0

TicksLeft(x, c, s) ==
  [t \in Timer |-> IF ~IsActive(x, t) THEN Null
                   ELSE IF t \notin ToSet(s) THEN 0
                   ELSE NotBelowZero(Until(x, s, t) - Announced(c))]

\* Left as an operator on the queue and the clock.
LeftIn(x, c) ==
  LET ahead[s \in Seq(Node)] ==
        [t \in Timer |->
           IF ~IsActive(x, t) THEN Null
           ELSE IF t \notin ToSet(s) THEN 0
           ELSE LET n == TicksUpTo(x, s, CHOOSE i \in 1 .. Len(s) : s[i] = t)
                         - (IF c.phase = "dequeue" THEN c.ticks ELSE 0)
                IN  IF n < 0 THEN 0 ELSE n]
  IN  ahead[Linked(x, Queue)]

\* No timeout expires before the first one does.
LEMMA UntilType ==
  ASSUME NEW x, NEW s, QueueOk(x, s), NEW t \in ToSet(s)
  PROVE  Until(x, s, t) \in Int /\ Until(x, s, t) >= x.delta[s[1]] /\ s # <<>>
<1>1. /\ x.delta \in [Timer -> Int] /\ s \in Seq(Timer) /\ Distinct(s) /\ Len(s) \in Nat
      /\ \A i \in 1 .. Len(s) : x.delta[s[i]] >= 0
  BY DEF QueueOk, Distinct, TimeoutQState
<1>2. PICK i \in 1 .. Len(s) : t = s[i]
  BY <1>1 DEF ToSet
<1>3. Until(x, s, t) = TicksUpTo(x, s, i)
  BY <1>1, <1>2, UntilAt
<1>4. TicksUpTo(x, s, i) \in Int
  <2>1. i \in 0 .. Len(s)
    BY <1>1
  <2> QED
    BY <1>1, <2>1, SumType
<1>5. TicksUpTo(x, s, i) >= x.delta[s[1]]
  BY <1>1, SumGrows
<1> QED
  BY <1>1, <1>2, <1>3, <1>4, <1>5

\* Walking the list gives the ticks left.
LEMMA LeftIsTicksLeft ==
  ASSUME NEW x, NEW c, NEW s, NEW e, Shape(x, c, s, e)
  PROVE  LeftIn(x, c) = TicksLeft(x, c, s)
<1>1. x \in TimeoutQState /\ Distinct(s) /\ IsRing(x, Queue, s) /\ QueueOk(x, s) /\ Queue \in ListHead
  BY DEF Shape, QueueOk, ListHead
<1>2. Linked(x, Queue) = s
  BY <1>1, LinkedIsList
<1>3. s \in Seq(Node)
  <2>1. s \in Seq(Timer)
    BY <1>1 DEF QueueOk, Distinct
  <2> QED
    BY <2>1 DEF Node
<1> DEFINE left(w) == [t \in Timer |->
              IF ~IsActive(x, t) THEN Null
              ELSE IF t \notin ToSet(w) THEN 0
              ELSE LET n == TicksUpTo(x, w, CHOOSE i \in 1 .. Len(w) : w[i] = t)
                            - (IF c.phase = "dequeue" THEN c.ticks ELSE 0)
                   IN  IF n < 0 THEN 0 ELSE n]
<1>4. LeftIn(x, c) = [w \in Seq(Node) |-> left(w)][s]
  BY <1>2 DEF LeftIn
<1>5. left(s) = TicksLeft(x, c, s)
  BY DEF TicksLeft, NotBelowZero, Until, Announced
<1> HIDE DEF left
<1> QED
  BY <1>3, <1>4, <1>5

\* The refinement mapping, before a step.
LEMMA LeftNow ==
  ASSUME NEW s, NEW e, Shape(q, clock, s, e)
  PROVE  Left = TicksLeft(q, clock, s)
<1>1. Left = LeftIn(q, clock)
  BY DEF Left, LeftIn
<1> QED
  BY <1>1, LeftIsTicksLeft

\* The refinement mapping, after a step.
LEMMA LeftNext ==
  ASSUME NEW s, NEW e, Shape(q', clock', s, e)
  PROVE  Left' = TicksLeft(q', clock', s)
<1>1. Left' = LeftIn(q', clock')
  BY DEF Left, LeftIn
<1> QED
  BY <1>1, LeftIsTicksLeft

-----------------------------------------------------------------------------
(***************************************************************************)
(* What each step does to the shape and to the ticks left.                 *)
(***************************************************************************)

\* What the shape of the queue means in each phase of the interrupt.
LEMMA ShapeFacts ==
  ASSUME NEW x, NEW c, NEW s, NEW e, Shape(x, c, s, e)
  PROVE  /\ QueueOk(x, s) /\ x \in TimeoutQState /\ x.delta \in [Timer -> Int]
         /\ s \in Seq(Timer) /\ Distinct(s) /\ IsRing(x, Queue, s)
         /\ ToSet(s) \subseteq Timer
         /\ c.phase = "off" => Resting(x, c, s)
         /\ c.phase = "dequeue" => Dequeuing(x, c, s, e)
         /\ c.phase = "handle" => Handling(x, c, s, e)
         /\ c.phase \in {"off", "dequeue", "handle"}
<1>1. QueueOk(x, s) /\ x \in TimeoutQState /\ s \in Seq(Timer) /\ Distinct(s) /\ IsRing(x, Queue, s)
  BY DEF Shape, QueueOk, Distinct
<1>2. x.delta \in [Timer -> Int] /\ ToSet(s) \subseteq Timer
  BY <1>1 DEF TimeoutQState, ToSet
<1>3. Resting(x, c, s) => c.phase = "off"
  BY DEF Resting, ClockOff
<1>4. Dequeuing(x, c, s, e) => c.phase = "dequeue"
  BY DEF Dequeuing
<1>5. Handling(x, c, s, e) => c.phase = "handle"
  BY DEF Handling
<1> QED
  BY <1>1, <1>2, <1>3, <1>4, <1>5 DEF Shape

\* A timer in the queue is active, and one that is not running is not.
LEMMA QueuedActive ==
  ASSUME NEW x, NEW s, QueueOk(x, s), NEW t \in ToSet(s)
  PROVE  IsActive(x, t) /\ x.delta[t] >= 0 /\ x.delta[t] # EXPIRED
<1>1. s \in Seq(Timer) /\ \A i \in 1 .. Len(s) : x.delta[s[i]] >= 0
  BY DEF QueueOk, Distinct
<1>2. x.delta[t] >= 0
  BY <1>1 DEF ToSet
<1> QED
  BY <1>2 DEF IsActive, INACTIVE, EXPIRED

\* A timeout is active if and only if it has ticks left, or none.
LEMMA ActiveHasTicks ==
  ASSUME NEW x, NEW c, NEW s, NEW e, Shape(x, c, s, e), NEW t \in Timer
  PROVE  IsActive(x, t) <=> TicksLeft(x, c, s)[t] # Null
<1>1. CASE ~IsActive(x, t)
  BY <1>1 DEF TicksLeft
<1>2. CASE IsActive(x, t) /\ t \notin ToSet(s)
  BY <1>2, TimersAssumption DEF TicksLeft
<1>3. CASE IsActive(x, t) /\ t \in ToSet(s)
  <2>1. Until(x, s, t) \in Int
    BY <1>3, ShapeFacts, UntilType
  <2>2. Announced(c) \in Int
    BY ShapeFacts DEF Announced, Dequeuing
  <2>3. NotBelowZero(Until(x, s, t) - Announced(c)) \in Int
    BY <2>1, <2>2 DEF NotBelowZero
  <2> QED
    BY <1>3, <2>3, TimersAssumption DEF TicksLeft
<1> QED
  BY <1>1, <1>2, <1>3

\* Between two interrupts nothing is due.
LEMMA RestingTicks ==
  ASSUME NEW x, NEW c, NEW s, QueueOk(x, s), Resting(x, c, s)
  PROVE  /\ \A t \in Timer : t \in ToSet(s) <=> IsActive(x, t)
         /\ \A t \in ToSet(s) : Until(x, s, t) \in Int /\ Until(x, s, t) > 0
         /\ TicksLeft(x, c, s) = [t \in Timer |-> IF t \in ToSet(s) THEN Until(x, s, t) ELSE Null]
<1>1. \A t \in Timer : t \in ToSet(s) <=> IsActive(x, t)
  <2>1. ToSet(<<>>) = {}
    BY DEF ToSet
  <2>2. \A t \in Timer \ ToSet(s) : x.delta[t] = INACTIVE
    BY <2>1 DEF Resting, ExpiredFrom
  <2> QED
    BY <2>2, QueuedActive DEF IsActive
<1>2. ASSUME NEW t \in ToSet(s)
      PROVE  Until(x, s, t) \in Int /\ Until(x, s, t) > 0
  <2>1. Until(x, s, t) \in Int /\ Until(x, s, t) >= x.delta[s[1]] /\ s # <<>>
    BY UntilType
  <2>2. x.delta[s[1]] > 0
    BY <2>1 DEF Resting, FirstLater
  <2>3. x.delta[s[1]] \in Int
    BY <2>1 DEF QueueOk, Distinct, TimeoutQState
  <2> QED
    BY <2>1, <2>2, <2>3
<1>3. Announced(c) = 0
  BY DEF Announced, Resting, ClockOff
<1>4. ASSUME NEW t \in ToSet(s)
      PROVE  NotBelowZero(Until(x, s, t) - Announced(c)) = Until(x, s, t)
  BY <1>2, <1>3 DEF NotBelowZero
<1> QED
  BY <1>1, <1>2, <1>4 DEF TicksLeft

\* An empty list is a head linked to itself.
LEMMA EmptyRing ==
  ASSUME NEW x, NEW h \in ListHead
  PROVE  /\ ToSet(<<>>) = {} /\ Distinct(<<>>) /\ Len(<<>>) = 0
         /\ IsRing(x, h, <<>>) <=> x.next[h] = h /\ x.prev[h] = h
<1>1. ToSet(<<>>) = {} /\ Distinct(<<>>) /\ Len(<<>>) = 0
  BY DEF ToSet, Distinct
<1>2. IsRing(x, h, <<>>) => x.next[h] = h /\ x.prev[h] = h
  BY <1>1, RingEnds
<1>3. x.next[h] = h /\ x.prev[h] = h => IsRing(x, h, <<>>)
  BY <1>1, RingIntro
<1> QED
  BY <1>1, <1>2, <1>3

\* Nothing has expired and nothing expires.
LEMMA NothingExpired ==
  ASSUME NEW x, NEW s, ExpiredFrom(x, s, <<>>, 1), NEW y, NEW w,
         SamePointers(x, y, {Expired}), \A t \in Timer \ ToSet(w) : y.delta[t] = INACTIVE
  PROVE  ExpiredFrom(y, w, <<>>, 1)
<1>1. Expired \in ListHead
  BY DEF ListHead
<1>2. IsRing(y, Expired, <<>>)
  BY <1>1, EmptyRing DEF ExpiredFrom, SamePointers
<1> QED
  BY <1>1, <1>2, EmptyRing DEF ExpiredFrom

\* k_timer_stop(), and the beginning of k_timer_start().
LEMMA StopStops ==
  ASSUME NEW x, NEW c, NEW s, QueueOk(x, s), Resting(x, c, s), NEW t \in Timer, NEW y,
         y = IF IsActive(x, t) THEN AbortTimeout(x, t) ELSE x
  PROVE  \E w : Aborted(x, s, y, w, t) /\ Resting(y, c, w)
<1>1. t \in ToSet(s) <=> IsActive(x, t)
  BY RestingTicks
<1>2. PICK w : Aborted(x, s, y, w, t)
  <2>1. CASE IsActive(x, t)
    BY <1>1, <2>1, AbortAborts
  <2>2. CASE ~IsActive(x, t)
    <3>1. Aborted(x, s, y, s, t)
      BY <1>1, <2>2 DEF Aborted, IsActive, SamePointers
    <3> QED
      BY <3>1
  <2> QED
    BY <2>1, <2>2
<1>3. \A u \in Timer \ ToSet(w) : y.delta[u] = INACTIVE
  <2>1. \A u \in Timer \ ToSet(s) : x.delta[u] = INACTIVE
    BY RestingTicks DEF IsActive
  <2> QED
    BY <1>2, <2>1 DEF Aborted
<1>4. SamePointers(x, y, {Expired})
  <2>1. Expired \in Node \ ({Queue} \cup ToSet(s))
    <3>1. ToSet(s) \subseteq Timer
      BY DEF QueueOk, Distinct, ToSet
    <3> QED
      BY <3>1, TimeoutQAssumption DEF Node
  <2> QED
    BY <1>2, <2>1 DEF Aborted, SamePointers
<1>5. Resting(y, c, w)
  BY <1>2, <1>3, <1>4, NothingExpired DEF Resting, Aborted
<1> QED
  BY <1>2, <1>5

\* _add_timeout() gives t its ticks and moves no other deadline.
LEMMA AddResting ==
  ASSUME NEW x, NEW c, NEW s, QueueOk(x, s), Resting(x, c, s), NEW t \in Timer \ ToSet(s),
         NEW n \in Nat, n > 0, NEW y, y = AddTimeout(x, t, n)
  PROVE  \E w : /\ QueueOk(y, w) /\ Resting(y, c, w)
                /\ TicksLeft(y, c, w) = [TicksLeft(x, c, s) EXCEPT ![t] = n]
<1>1. PICK w : Added(x, s, y, w, t, n)
  BY AddAdds
<1>2. QueueOk(y, w) /\ ToSet(w) = ToSet(s) \cup {t}
  BY <1>1 DEF Added
<1>3. Resting(y, c, w)
  <2>1. \A u \in Timer \ ToSet(w) : y.delta[u] = INACTIVE
    BY <1>1, <1>2, RestingTicks DEF Added, IsActive
  <2>2. SamePointers(x, y, {Expired})
    <3>1. Expired \in Node \ ({Queue, t} \cup ToSet(s))
      <4>1. ToSet(s) \subseteq Timer
        BY DEF QueueOk, Distinct, ToSet
      <4> QED
        BY <4>1, TimeoutQAssumption DEF Node
    <3> QED
      BY <1>1, <3>1 DEF Added, SamePointers
  <2> QED
    BY <1>1, <2>1, <2>2, NothingExpired DEF Resting, Added
<1>4. TicksLeft(y, c, w) = [u \in Timer |-> IF u \in ToSet(w) THEN Until(y, w, u) ELSE Null]
  BY <1>2, <1>3, RestingTicks
<1>5. TicksLeft(x, c, s) = [u \in Timer |-> IF u \in ToSet(s) THEN Until(x, s, u) ELSE Null]
  BY RestingTicks
<1>6. Until(y, w, t) = n /\ \A u \in ToSet(s) : Until(y, w, u) = Until(x, s, u)
  BY <1>1 DEF Added
<1>7. TicksLeft(y, c, w) = [TicksLeft(x, c, s) EXCEPT ![t] = n]
  BY <1>2, <1>4, <1>5, <1>6
<1> QED
  BY <1>2, <1>3, <1>7

\* _abort_timeout() moves no other deadline.
LEMMA AbortedTicks ==
  ASSUME NEW x, NEW c, NEW s, QueueOk(x, s), Resting(x, c, s), NEW t \in Timer, NEW y, NEW w,
         Aborted(x, s, y, w, t), Resting(y, c, w)
  PROVE  TicksLeft(y, c, w) = [TicksLeft(x, c, s) EXCEPT ![t] = Null]
<1>1. QueueOk(y, w) /\ ToSet(w) = ToSet(s) \ {t} /\ \A u \in ToSet(w) : Until(y, w, u) = Until(x, s, u)
  BY DEF Aborted
<1>2. TicksLeft(y, c, w) = [u \in Timer |-> IF u \in ToSet(w) THEN Until(y, w, u) ELSE Null]
  BY <1>1, RestingTicks
<1>3. TicksLeft(x, c, s) = [u \in Timer |-> IF u \in ToSet(s) THEN Until(x, s, u) ELSE Null]
  BY RestingTicks
<1> QED
  BY <1>1, <1>2, <1>3

\* From the state with s and e to the next one the ticks of t become n.
Becomes(s, t, n) ==
  \E w, f : /\ Shape(q', clock', w, f)
            /\ TicksLeft(q', clock', w) = [TicksLeft(q, clock, s) EXCEPT ![t] = n]

\* k_timer_start(): the duration or, if there is none, the period.
LEMMA StartShape ==
  ASSUME NEW s, NEW e, Shape(q, clock, s, e),
         NEW t \in Timer, NEW duration \in Duration, NEW ticks \in Period,
         TimerStart(t, duration, ticks)
  PROVE  \E n \in Nat : /\ n > 0 /\ n = IF duration > 0 THEN duration ELSE ticks
                        /\ Resting(q, clock, s) /\ Becomes(s, t, n)
<1>1. QueueOk(q, s) /\ Resting(q, clock, s) /\ clock' = clock
  BY ShapeFacts DEF TimerStart, AtThreadLevel
<1>2. PICK x : x = IF IsActive(q, t) THEN AbortTimeout(q, t) ELSE q
  OBVIOUS
<1>3. PICK w : Aborted(q, s, x, w, t) /\ Resting(x, clock, w)
  BY <1>1, <1>2, StopStops
<1>4. QueueOk(x, w) /\ t \in Timer \ ToSet(w) /\ x.delta[t] = INACTIVE /\ x \in TimeoutQState
  BY <1>3 DEF Aborted, QueueOk
<1>5. PICK n : n = IF duration = 0 THEN ticks ELSE duration
  OBVIOUS
<1>6. n \in Nat /\ n > 0
  <2>1. duration \in Nat /\ ticks \in Nat
    BY TimersAssumption
  <2>2. duration + ticks > 0
    BY DEF TimerStart
  <2> QED
    BY <1>5, <2>1, <2>2
<1>7. q' = AddTimeout(x, t, n)
  <2>1. CASE duration = 0
    <3>1. q' = Rearmed(x, t, ticks)
      BY <1>2, <2>1 DEF TimerStart
    <3>2. [x EXCEPT !.delta[t] = INACTIVE] = x
      BY <1>4 DEF TimeoutQState
    <3>3. n = ticks /\ ticks > 0
      BY <1>5, <1>6, <2>1
    <3> QED
      BY <3>1, <3>2, <3>3 DEF Rearmed
  <2>2. CASE duration # 0
    BY <1>2, <1>5, <2>2 DEF TimerStart
  <2> QED
    BY <2>1, <2>2
<1>8. PICK f : /\ QueueOk(q', f) /\ Resting(q', clock, f)
               /\ TicksLeft(q', clock, f) = [TicksLeft(x, clock, w) EXCEPT ![t] = n]
  BY <1>3, <1>4, <1>6, <1>7, AddResting
<1>9. TicksLeft(x, clock, w) = [TicksLeft(q, clock, s) EXCEPT ![t] = Null]
  BY <1>1, <1>3, AbortedTicks
<1>10. TicksLeft(q', clock', f) = [TicksLeft(q, clock, s) EXCEPT ![t] = n]
  <2>1. TicksLeft(q, clock, s) = [u \in Timer |-> TicksLeft(q, clock, s)[u]]
    BY DEF TicksLeft
  <2> QED
    BY <1>1, <1>8, <1>9, <2>1
<1>11. Shape(q', clock', f, <<>>)
  BY <1>1, <1>8 DEF Shape
<1>12. Becomes(s, t, n)
  BY <1>10, <1>11 DEF Becomes
<1>13. n = IF duration > 0 THEN duration ELSE ticks
  BY <1>5, TimersAssumption
<1> QED
  BY <1>1, <1>6, <1>12, <1>13

\* k_timer_stop().
LEMMA StopShape ==
  ASSUME NEW s, NEW e, Shape(q, clock, s, e), NEW t \in Timer, TimerStop(t)
  PROVE  Resting(q, clock, s) /\ Becomes(s, t, Null)
<1>1. QueueOk(q, s) /\ Resting(q, clock, s) /\ clock' = clock
  BY ShapeFacts DEF TimerStop, AtThreadLevel
<1>2. q' = IF IsActive(q, t) THEN AbortTimeout(q, t) ELSE q
  BY DEF TimerStop
<1>3. PICK w : Aborted(q, s, q', w, t) /\ Resting(q', clock, w)
  BY <1>1, <1>2, StopStops
<1>4. TicksLeft(q', clock, w) = [TicksLeft(q, clock, s) EXCEPT ![t] = Null]
  BY <1>1, <1>3, AbortedTicks
<1>5. Shape(q', clock', w, <<>>)
  BY <1>1, <1>3 DEF Shape, Aborted
<1> QED
  BY <1>1, <1>4, <1>5 DEF Becomes

\* Announced ticks are taken off all timers at once.
LEMMA AnnounceShape ==
  ASSUME NEW s, NEW e, Shape(q, clock, s, e), NEW n \in 1 .. MaxAnnounce, TickAnnounce(n)
  PROVE  /\ Resting(q, clock, s) /\ Shape(q', clock', s, <<>>)
         /\ TicksLeft(q', clock', s) =
              [t \in Timer |-> IF TicksLeft(q, clock, s)[t] = Null THEN Null
                               ELSE NotBelowZero(TicksLeft(q, clock, s)[t] - n)]
<1>1. QueueOk(q, s) /\ Resting(q, clock, s) /\ q' = q
  BY ShapeFacts DEF TickAnnounce, AtThreadLevel
<1>2. s # <<>> /\ PeekHead(q, Queue) = s[1]
  <2>1. Queue \in ListHead /\ IsRing(q, Queue, s) /\ Distinct(s)
    BY <1>1 DEF ListHead, QueueOk
  <2>2. s = <<>> => q.next[Queue] = Queue
    BY <2>1, RingEnds
  <2>3. s # <<>>
    BY <2>2 DEF TickAnnounce, PeekHead
  <2>4. q.next[Queue] = s[1] /\ s[1] \in Timer
    BY <2>1, <2>3, RingEnds DEF Distinct
  <2>5. s[1] # Queue
    BY <2>4, TimeoutQAssumption
  <2> QED
    BY <2>3, <2>4, <2>5 DEF PeekHead
<1>3. clock' = [phase |-> "dequeue", at |-> s[1], ticks |-> n] /\ n \in Nat
  BY <1>2, TimersAssumption DEF TickAnnounce
<1>4. Shape(q', clock', s, <<>>)
  <2>1. ExpiredFrom(q, s, <<>>, 1)
    BY <1>1 DEF Resting
  <2>2. Dequeuing(q, clock', s, <<>>)
    BY <1>2, <1>3, <2>1 DEF Dequeuing
  <2> QED
    BY <1>1, <2>2 DEF Shape
<1>5. Announced(clock') = n
  BY <1>3 DEF Announced
<1>6. /\ TicksLeft(q, clock, s) = [t \in Timer |-> IF t \in ToSet(s) THEN Until(q, s, t) ELSE Null]
      /\ \A t \in ToSet(s) : Until(q, s, t) \in Int
      /\ \A t \in Timer : t \in ToSet(s) <=> IsActive(q, t)
  BY <1>1, RestingTicks
<1>7. TicksLeft(q', clock', s) =
        [t \in Timer |-> IF ~IsActive(q, t) THEN Null
                         ELSE IF t \notin ToSet(s) THEN 0
                         ELSE NotBelowZero(Until(q, s, t) - n)]
  BY <1>1, <1>5 DEF TicksLeft
<1>8. \A t \in ToSet(s) : Until(q, s, t) # Null
  BY <1>6, TimersAssumption
<1>9. \A t \in Timer : (IF ~IsActive(q, t) THEN Null
                        ELSE IF t \notin ToSet(s) THEN 0
                        ELSE NotBelowZero(Until(q, s, t) - n))
                     = (IF TicksLeft(q, clock, s)[t] = Null THEN Null
                        ELSE NotBelowZero(TicksLeft(q, clock, s)[t] - n))
  <2> TAKE t \in Timer
  <2>1. TicksLeft(q, clock, s)[t] = IF t \in ToSet(s) THEN Until(q, s, t) ELSE Null
    BY <1>6
  <2>2. t \in ToSet(s) <=> IsActive(q, t)
    BY <1>6
  <2> QED
    BY <1>8, <2>1, <2>2
<1> QED
  BY <1>1, <1>4, <1>7, <1>9

\* y is x with the first timeout of s moved to the expired list e.
MovedFirst(x, s, e, y, w, f) ==
  /\ QueueOk(y, w) /\ ExpiredFrom(y, w, f, 1)
  /\ ToSet(w) = ToSet(s) \ {s[1]} /\ Len(w) = Len(s) - 1 /\ (w # <<>> => w[1] = s[2])
  /\ ToSet(f) = ToSet(e) \cup {s[1]} /\ f # <<>> /\ f[1] = s[1]
  /\ \A u \in ToSet(w) : Until(y, w, u) = Until(x, s, u) - x.delta[s[1]]
  /\ y.delta[s[1]] = EXPIRED /\ \A u \in Timer \ {s[1]} : y.delta[u] = x.delta[u]

\* x after handle_timeouts() has moved t.
IsMoved(x, t, y) == y = [Prepend(Unlink(x, t), Expired, t) EXCEPT !.delta[t] = EXPIRED]

\* Moving the first timeout to the expired list.
LEMMA MoveMoves ==
  ASSUME NEW x, NEW s, NEW e, QueueOk(x, s), s # <<>>, ExpiredFrom(x, s, e, 1), NEW y,
         IsMoved(x, s[1], y)
  PROVE  \E w, f : MovedFirst(x, s, e, y, w, f)
<1>0. /\ x \in TimeoutQState /\ s \in Seq(Timer) /\ Len(s) \in Nat /\ Distinct(s) /\ IsRing(x, Queue, s)
      /\ x.delta \in [Timer -> Int] /\ Queue \in ListHead /\ Expired \in ListHead
      /\ \A i \in 1 .. Len(s) : x.delta[s[i]] >= 0 /\ s[i] \in Timer /\ x.delta[s[i]] \in Int
      /\ \A i, j \in 1 .. Len(s) : s[i] = s[j] => i = j
      /\ 1 \in 1 .. Len(s)
  BY DEF QueueOk, Distinct, TimeoutQState, ListHead
<1>1. PICK t : t = s[1]
  OBVIOUS
<1>2. t \in Timer /\ t \in Node /\ t \in ToSet(s) /\ t # Expired /\ t # Queue
  BY <1>0, <1>1, TimeoutQAssumption DEF Node, ToSet
<1>3. /\ Distinct(e) /\ ToSet(s) \cap ToSet(e) = {} /\ IsRing(x, Expired, e) /\ Len(e) \in Nat
      /\ \A j \in 1 .. Len(e) : x.delta[e[j]] = EXPIRED
      /\ \A u \in Timer \ (ToSet(s) \cup ToSet(e)) : x.delta[u] = INACTIVE
      /\ e \in Seq(Timer) /\ ToSet(e) \subseteq Timer
  BY DEF ExpiredFrom, Distinct, ToSet
<1>4. PICK cut : cut = Unlink(x, t)
  OBVIOUS
<1>5. /\ cut \in TimeoutQState /\ cut.delta = x.delta /\ IsRing(cut, Queue, Without(s, 1))
      /\ \A m \in Node \ ({Queue} \cup ToSet(s)) : cut.next[m] = x.next[m] /\ cut.prev[m] = x.prev[m]
  BY <1>0, <1>1, <1>4, RingUnlink
<1>6. PICK w : w = Without(s, 1)
  OBVIOUS
<1>7. Distinct(w) /\ Len(w) = Len(s) - 1 /\ ToSet(w) = ToSet(s) \ {t} /\ w \in Seq(Timer)
  BY <1>0, <1>1, <1>6, WithoutDistinct DEF Distinct
<1>8. \A i \in 1 .. Len(s) - 1 : w[i] = s[i + 1] /\ i + 1 \in 1 .. Len(s) /\ i + 1 # 1
  <2>1. \A i \in 1 .. Len(s) - 1 : w[i] = IF i < 1 THEN s[i] ELSE s[i + 1]
    BY <1>6 DEF Without
  <2>2. \A i \in 1 .. Len(s) - 1 : ~(i < 1) /\ i + 1 \in 1 .. Len(s) /\ i + 1 # 1
    BY <1>0
  <2> QED
    BY <2>1, <2>2
<1>9. IsRing(cut, Expired, e)
  <2>1. {Expired} \cup ToSet(e) \subseteq Node \ ({Queue} \cup ToSet(s))
    <3>1. ToSet(s) \subseteq Timer
      BY <1>0 DEF ToSet
    <3> QED
      BY <1>3, <3>1, TimeoutQAssumption DEF Node
  <2> QED
    BY <1>0, <1>3, <1>5, <2>1, RingFrame
<1>10. cut.next[Expired] = At(Expired, e, 1)
  <2>1. 0 \in 0 .. Len(e) /\ 0 + 1 = 1 /\ At(Expired, e, 0) = Expired
    BY <1>3 DEF At
  <2>2. cut.next[At(Expired, e, 0)] = At(Expired, e, 0 + 1)
    BY <1>9, <2>1 DEF IsRing
  <2> QED
    BY <2>1, <2>2
<1>11. PICK put : put = Prepend(cut, Expired, t)
  OBVIOUS
<1>12. PICK f : f = With(e, 1, t)
  OBVIOUS
<1>13. t \in Timer \ ToSet(e) /\ 1 \in 1 .. Len(e) + 1
  BY <1>2, <1>3
<1>14. /\ put \in TimeoutQState /\ put.delta = cut.delta /\ IsRing(put, Expired, f)
       /\ \A m \in Node \ ({Expired, t} \cup ToSet(e)) : put.next[m] = cut.next[m] /\ put.prev[m] = cut.prev[m]
  <2>1. put = InsertBefore(cut, At(Expired, e, 1), t)
    BY <1>10, <1>11 DEF Prepend
  <2> QED
    BY <1>0, <1>3, <1>5, <1>9, <1>12, <1>13, <2>1, RingInsert
<1>15. Distinct(f) /\ Len(f) = Len(e) + 1 /\ ToSet(f) = ToSet(e) \cup {t}
  BY <1>3, <1>12, <1>13, WithDistinct
<1>16. f[1] = t /\ f # <<>> /\ \A j \in 1 .. Len(f) : f[j] = t \/ \E i \in 1 .. Len(e) : f[j] = e[i]
  <2>1. \A i \in 1 .. Len(e) + 1 : f[i] = IF i < 1 THEN e[i] ELSE IF i = 1 THEN t ELSE e[i - 1]
    BY <1>12 DEF With
  <2>2. \A i \in 1 .. Len(e) + 1 : ~(i < 1) /\ (i # 1 => i - 1 \in 1 .. Len(e))
    BY <1>3
  <2>3. f[1] = t
    BY <1>13, <2>1
  <2>4. f # <<>>
    BY <1>3, <1>15
  <2> QED
    BY <1>15, <2>1, <2>2, <2>3, <2>4
<1>17. /\ y \in TimeoutQState /\ y.next = put.next /\ y.prev = put.prev
       /\ y.delta[t] = EXPIRED /\ \A u \in Timer \ {t} : y.delta[u] = x.delta[u]
  <2>1. EXPIRED \in Int
    BY DEF EXPIRED
  <2>2. y = [put EXCEPT !.delta[t] = EXPIRED]
    BY <1>1, <1>4, <1>11 DEF IsMoved
  <2>3. /\ y \in TimeoutQState /\ y.next = put.next /\ y.prev = put.prev
        /\ y.delta[t] = EXPIRED /\ \A u \in Timer \ {t} : y.delta[u] = put.delta[u]
    BY <1>2, <1>14, <2>1, <2>2, DeltaWrites
  <2> QED
    BY <1>5, <1>14, <2>3
<1>18. IsRing(y, Expired, f) /\ IsRing(y, Queue, w)
  <2>1. IsRing(y, Expired, f)
    BY <1>0, <1>14, <1>15, <1>17, RingFrame
  <2>2. {Queue} \cup ToSet(w) \subseteq Node \ ({Expired, t} \cup ToSet(e))
    <3>1. ToSet(s) \subseteq Timer
      BY <1>0 DEF ToSet
    <3> QED
      BY <1>2, <1>3, <1>7, <3>1, TimeoutQAssumption DEF Node
  <2>3. \A m \in {Queue} \cup ToSet(w) : y.next[m] = cut.next[m] /\ y.prev[m] = cut.prev[m]
    BY <1>14, <1>17, <2>2
  <2>4. IsRing(cut, Queue, w)
    BY <1>5, <1>6
  <2>5. IsRing(y, Queue, w)
    BY <1>0, <1>7, <2>3, <2>4, RingFrame
  <2> QED
    BY <2>1, <2>5
<1>19. QueueOk(y, w)
  <2>1. ASSUME NEW i \in 1 .. Len(w) PROVE y.delta[w[i]] >= 0
    <3>1. i \in 1 .. Len(s) - 1
      BY <1>7
    <3>2. w[i] = s[i + 1] /\ i + 1 \in 1 .. Len(s) /\ s[i + 1] # t
      BY <1>0, <1>1, <1>8, <3>1
    <3> QED
      BY <1>0, <1>17, <3>2
  <2> QED
    BY <1>7, <1>17, <1>18, <2>1 DEF QueueOk
<1>20. ExpiredFrom(y, w, f, 1)
  <2>1. ToSet(w) \cap ToSet(f) = {}
    BY <1>3, <1>7, <1>15
  <2>2. ASSUME NEW j \in 1 .. Len(f)
        PROVE  y.delta[f[j]] = IF j < 1 THEN INACTIVE ELSE EXPIRED
    <3>1. ~(j < 1)
      BY <1>3, <1>15
    <3>2. CASE f[j] = t
      BY <1>17, <3>1, <3>2
    <3>3. CASE f[j] # t
      <4>1. PICK i \in 1 .. Len(e) : f[j] = e[i]
        BY <1>16, <3>3
      <4>2. e[i] \in Timer
        BY <1>3
      <4> QED
        BY <1>3, <1>17, <3>1, <3>3, <4>1, <4>2
    <3> QED
      BY <3>2, <3>3
  <2>3. \A u \in Timer \ (ToSet(w) \cup ToSet(f)) : y.delta[u] = INACTIVE
    BY <1>3, <1>7, <1>15, <1>17
  <2> QED
    BY <1>15, <1>18, <2>1, <2>2, <2>3 DEF ExpiredFrom
<1>21. ASSUME NEW u \in ToSet(w)
       PROVE  Until(y, w, u) = Until(x, s, u) - x.delta[t]
  <2>0. PICK z : z = [x EXCEPT !.delta[t] = 0]
    OBVIOUS
  <2>1. z.delta[t] = 0 /\ z \in TimeoutQState /\ \A v \in Timer \ {t} : z.delta[v] = x.delta[v]
    <3>1. x \in TimeoutQState /\ t \in Timer /\ 0 \in Int
      BY <1>0, <1>2
    <3> QED
      BY <2>0, <3>1 DEF TimeoutQState
  <2>2. x.delta \in Deltas /\ y.delta \in Deltas /\ z.delta \in Deltas
    BY <1>0, <1>17, <2>1 DEF Deltas, TimeoutQState
  <2>3. PICK d : d = x.delta[t]
    OBVIOUS
  <2>4. d \in Int /\ 0 = d - d
    BY <1>0, <1>1, <2>3
  <2>5. \A i \in 1 .. Len(s) : i # 1 => s[i] \in Timer \ {t}
    BY <1>0, <1>1
  <2>6. DeltasConsume(x, z, s, d)
    BY <1>1, <2>1, <2>3, <2>4, <2>5 DEF DeltasConsume
  <2>7. DeltasDelete(z, y, s, 1)
    <3>1. ASSUME NEW i \in 1 .. Len(s), i # 1
          PROVE  y.delta[s[i]] = z.delta[s[i]] /\ z.delta[s[i]] \in Int
      BY <1>17, <2>1, <2>2, <2>5, <3>1 DEF Deltas
    <3>2. 1 + 1 # 1 /\ z.delta[s[1]] = 0
      BY <1>1, <2>1
    <3> QED
      BY <3>1, <3>2 DEF DeltasDelete
  <2>8. \A i \in 1 .. Len(s) : TicksUpTo(z, s, i) = TicksUpTo(x, s, i) - d
    BY <1>0, <2>2, <2>4, <2>6, SumConsume
  <2>9. \A i \in 0 .. Len(s) - 1 :
          TicksUpTo(y, w, i) = IF i < 1 THEN TicksUpTo(z, s, i) ELSE TicksUpTo(z, s, i + 1)
    BY <1>0, <1>6, <2>2, <2>7, SumDelete
  <2>10. PICK i \in 1 .. Len(w) : u = w[i]
    BY <1>7 DEF ToSet
  <2>11. i \in 1 .. Len(s) - 1 /\ i \in 0 .. Len(s) - 1 /\ ~(i < 1)
    BY <1>0, <1>7
  <2>12. TicksUpTo(y, w, i) = TicksUpTo(x, s, i + 1) - d /\ u = s[i + 1] /\ i + 1 \in 1 .. Len(s)
    BY <1>8, <2>8, <2>9, <2>10, <2>11
  <2>13. Until(y, w, u) = TicksUpTo(y, w, i)
    BY <1>7, <2>10, UntilAt
  <2>14. Until(x, s, s[i + 1]) = TicksUpTo(x, s, i + 1)
    BY <1>0, <2>12, UntilAt
  <2> QED
    BY <2>3, <2>12, <2>13, <2>14
<1>22. w # <<>> => w[1] = s[2]
  <2>1. w # <<>> => 1 \in 1 .. Len(s) - 1 /\ 1 + 1 = 2
    BY <1>0, <1>7
  <2> QED
    BY <1>8, <2>1
<1> QED
  BY <1>1, <1>7, <1>15, <1>16, <1>17, <1>19, <1>20, <1>21, <1>22 DEF MovedFirst

\* The interrupt turns to its own list, or ends if nothing has expired.
LEMMA HandlingStarts ==
  ASSUME NEW x, NEW s, NEW e, QueueOk(x, s), FirstLater(x, s), ExpiredFrom(x, s, e, 1),
         StartHandling(x)
  PROVE  Shape(x, clock', s, e) /\ Announced(clock') = 0
<1>1. Expired \in ListHead /\ IsRing(x, Expired, e) /\ Distinct(e)
  BY DEF ListHead, ExpiredFrom
<1>2. CASE e = <<>>
  <2>1. PeekHead(x, Expired) = Null
    BY <1>1, <1>2, RingEnds DEF PeekHead
  <2>2. clock' = ClockOff
    BY <2>1 DEF StartHandling
  <2>3. Resting(x, clock', s)
    BY <1>2, <2>2 DEF Resting
  <2> QED
    BY <2>2, <2>3 DEF Shape, Announced, ClockOff
<1>3. CASE e # <<>>
  <2>1. x.next[Expired] = e[1] /\ e[1] \in Timer /\ 1 \in 1 .. Len(e)
    BY <1>1, <1>3, RingEnds DEF Distinct
  <2>2. e[1] # Expired /\ e[1] # Null
    BY <2>1, TimeoutQAssumption
  <2>3. PeekHead(x, Expired) = e[1]
    BY <2>1, <2>2 DEF PeekHead
  <2>4. clock' = [phase |-> "handle", at |-> e[1], ticks |-> 0]
    BY <2>2, <2>3 DEF StartHandling
  <2>5. Handling(x, clock', s, e)
    BY <2>1, <2>4 DEF Handling
  <2> QED
    BY <2>4, <2>5 DEF Shape, Announced
<1> QED
  BY <1>2, <1>3

\* What is moved to the expired list has no ticks left and keeps none.
LEMMA MovedTicks ==
  ASSUME NEW x, NEW c, NEW s, NEW e, QueueOk(x, s), s # <<>>, NEW y, NEW d, NEW w, NEW f,
         MovedFirst(x, s, e, y, w, f), NEW k \in Nat,
         Announced(c) = k, x.delta[s[1]] <= k, w # <<>> => Announced(d) = k - x.delta[s[1]]
  PROVE  TicksLeft(y, d, w) = TicksLeft(x, c, s)
<1>1. PICK t : t = s[1]
  OBVIOUS
<1>2. PICK n : n = x.delta[t]
  OBVIOUS
<1>3. /\ s \in Seq(Timer) /\ Len(s) \in Nat /\ Distinct(s) /\ 1 \in 1 .. Len(s)
      /\ x.delta \in [Timer -> Int] /\ t \in Timer /\ t \in ToSet(s)
  BY <1>1 DEF QueueOk, Distinct, TimeoutQState, ToSet
<1>4. n \in Int /\ n <= k /\ Announced(c) = k /\ (w # <<>> => Announced(d) = k - n)
  BY <1>1, <1>2, <1>3
<1>5. Until(x, s, t) = n
  <2>1. Until(x, s, s[1]) = TicksUpTo(x, s, 1)
    BY <1>3, UntilAt
  <2>2. TicksUpTo(x, s, 1) = TicksUpTo(x, s, 0) + x.delta[s[1]] /\ TicksUpTo(x, s, 0) = 0
    <3>1. 1 - 1 = 0
      OBVIOUS
    <3> QED
      BY <1>3, <3>1, SumFacts
  <2> QED
    BY <1>1, <1>2, <1>3, <1>4, <2>1, <2>2
<1>6. /\ ToSet(w) = ToSet(s) \ {t} /\ y.delta[t] = EXPIRED
      /\ \A u \in Timer \ {t} : y.delta[u] = x.delta[u]
      /\ \A u \in ToSet(w) : Until(y, w, u) = Until(x, s, u) - n
  BY <1>1, <1>2 DEF MovedFirst
<1>7. ASSUME NEW u \in Timer PROVE TicksLeft(y, d, w)[u] = TicksLeft(x, c, s)[u]
  <2>1. CASE u = t
    <3>1. IsActive(x, t) /\ IsActive(y, t)
      BY <1>3, <1>6, QueuedActive DEF IsActive, EXPIRED, INACTIVE
    <3>2. NotBelowZero(n - k) = 0
      BY <1>4 DEF NotBelowZero
    <3> QED
      BY <1>3, <1>4, <1>5, <1>6, <2>1, <3>1, <3>2 DEF TicksLeft
  <2>2. CASE u # t /\ u \notin ToSet(w)
    <3>1. u \notin ToSet(s) /\ (IsActive(y, u) <=> IsActive(x, u))
      BY <1>6, <2>2 DEF IsActive
    <3> QED
      BY <2>2, <3>1 DEF TicksLeft
  <2>3. CASE u # t /\ u \in ToSet(w)
    <3>1. u \in ToSet(s) /\ (IsActive(y, u) <=> IsActive(x, u)) /\ Until(y, w, u) = Until(x, s, u) - n
      BY <1>6, <2>3 DEF IsActive
    <3>2. w # <<>>
      BY <2>3 DEF ToSet
    <3>3. Until(x, s, u) \in Int
      BY <3>1, UntilType
    <3>4. (Until(x, s, u) - n) - (k - n) = Until(x, s, u) - k
      BY <1>4, <3>3
    <3>5. NotBelowZero(Until(y, w, u) - Announced(d)) = NotBelowZero(Until(x, s, u) - Announced(c))
      BY <1>4, <3>1, <3>2, <3>4
    <3> QED
      BY <2>3, <3>1, <3>5 DEF TicksLeft
  <2> QED
    BY <2>1, <2>2, <2>3
<1> QED
  BY <1>7 DEF TicksLeft

\* The step of the loop in handle_timeouts() to its next timeout.
LEMMA ClockMoves ==
  ASSUME NEW P, NEW A, NEW N, NEW c \in [phase : P, at : A, ticks : N],
         NEW b \in A, NEW m \in N, NEW d, d = [c EXCEPT !.at = b, !.ticks = m]
  PROVE  d = [phase |-> c.phase, at |-> b, ticks |-> m]
  OBVIOUS

\* Where Dequeue stands and what it does: the first timeout is moved, or its
\* ticks cover the rest of the announced ones.
LEMMA DequeueCases ==
  ASSUME NEW s, NEW e, Shape(q, clock, s, e), Dequeue
  PROVE  /\ QueueOk(q, s) /\ ExpiredFrom(q, s, e, 1) /\ s # <<>> /\ clock.ticks \in Nat
         /\ Announced(clock) = clock.ticks
         /\ \/ /\ q.delta[s[1]] <= clock.ticks /\ IsMoved(q, s[1], q')
               /\ IF Len(s) = 1 THEN StartHandling(q')
                  ELSE clock' = [phase |-> "dequeue", at |-> s[2], ticks |-> clock.ticks - q.delta[s[1]]]
            \/ /\ q.delta[s[1]] > clock.ticks /\ StartHandling(q')
               /\ q' = [q EXCEPT !.delta[s[1]] = q.delta[s[1]] - clock.ticks]
<1>1. clock.phase = "dequeue"
  BY DEF Dequeue
<1>2. QueueOk(q, s) /\ Dequeuing(q, clock, s, e)
  BY <1>1, ShapeFacts
<1>3. /\ ExpiredFrom(q, s, e, 1) /\ s # <<>> /\ clock.ticks \in Nat /\ clock.at = s[1]
      /\ clock = [phase |-> "dequeue", at |-> clock.at, ticks |-> clock.ticks]
      /\ Announced(clock) = clock.ticks
  BY <1>1, <1>2 DEF Dequeuing, Announced
<1>4. /\ s \in Seq(Timer) /\ Len(s) \in Nat /\ Distinct(s) /\ 1 \in 1 .. Len(s) /\ Len(s) \in 1 .. Len(s)
      /\ q.delta \in [Timer -> Int] /\ IsRing(q, Queue, s) /\ Queue \in ListHead
      /\ \A i \in 1 .. Len(s) : s[i] \in Timer /\ q.delta[s[i]] \in Int /\ q.delta[s[i]] >= 0
      /\ \A i, j \in 1 .. Len(s) : s[i] = s[j] => i = j
  BY <1>2, <1>3 DEF QueueOk, Distinct, TimeoutQState, ListHead
<1>5. PICK d : d = q.delta[s[1]]
  OBVIOUS
<1>6. PICK c : c = clock.ticks
  OBVIOUS
<1>7. d \in Nat /\ c \in Nat /\ s[1] \in Timer
  BY <1>3, <1>4, <1>5, <1>6
<1>8. PICK left : left = IF d < c THEN 0 ELSE d - c
  OBVIOUS
<1>9. PICK next : next = PeekNext(q, Queue, s[1])
  OBVIOUS
<1>10. /\ left \in Nat /\ (left = 0 <=> d <= c) /\ (d > c => left = d - c)
       /\ (d > c => Exhausted(left, c - d)) /\ (d <= c => ~Exhausted(left, c - d))
       /\ (d <= c \/ d > c)
  BY <1>7, <1>8 DEF Exhausted
<1>11. /\ (Len(s) = 1 => next = Null)
       /\ (Len(s) # 1 => next = s[2] /\ next # Null)
  <2>1. q.prev[Queue] = s[Len(s)] /\ q.next[s[1]] = IF 1 = Len(s) THEN Queue ELSE s[1 + 1]
    <3>1. Queue \in ListHead /\ Distinct(s) /\ IsRing(q, Queue, s) /\ s # <<>> /\ 1 \in 1 .. Len(s)
      BY <1>3, <1>4
    <3>2. q.prev[Queue] = s[Len(s)]
      BY <3>1, RingEnds
    <3>3. 1 \in 0 .. Len(s) /\ Len(s) \in Nat
      BY <1>4, <3>1
    <3>4. q.next[At(Queue, s, 1)] = At(Queue, s, 1 + 1) /\ At(Queue, s, 1) = s[1]
      BY <3>1, <3>3 DEF IsRing, At
    <3>5. At(Queue, s, 1 + 1) = IF 1 = Len(s) THEN Queue ELSE s[1 + 1]
      <4>1. PICK n : n = Len(s)
        OBVIOUS
      <4>2. n \in Nat /\ n >= 1
        BY <3>1, <3>3, <4>1
      <4>3. 1 = n <=> 1 + 1 \notin 1 .. n
        BY <4>2
      <4> QED
        BY <4>1, <4>3 DEF At
    <3>6. q.next[s[1]] = IF 1 = Len(s) THEN Queue ELSE s[1 + 1]
      BY <3>4, <3>5
    <3> QED
      BY <3>2, <3>6
  <2>2. CASE Len(s) = 1
    BY <1>9, <2>1, <2>2 DEF PeekNext
  <2>3. CASE Len(s) # 1
    <3>1. s[1] # s[Len(s)] /\ 1 + 1 = 2 /\ 2 \in 1 .. Len(s)
      <4>1. 1 \in 1 .. Len(s) /\ Len(s) \in 1 .. Len(s) /\ Len(s) \in Nat
        BY <1>4
      <4>2. s[1] = s[Len(s)] => 1 = Len(s)
        BY <1>4, <4>1
      <4> QED
        BY <2>3, <4>1, <4>2
    <3>2. s[2] \in Timer
      BY <1>4, <3>1
    <3>3. s[2] # Null
      BY <3>2, TimeoutQAssumption
    <3> QED
      BY <1>9, <2>1, <2>3, <3>1, <3>3 DEF PeekNext
  <2> QED
    BY <2>2, <2>3
<1>12. /\ q' = IF left = 0
                THEN [Prepend(Unlink(q, s[1]), Expired, s[1]) EXCEPT !.delta[s[1]] = EXPIRED]
                ELSE [q EXCEPT !.delta[s[1]] = left]
       /\ IF Exhausted(left, c - d) \/ next = Null
            THEN StartHandling(q')
            ELSE clock' = [clock EXCEPT !.at = next, !.ticks = c - d]
  BY <1>3, <1>5, <1>6, <1>8, <1>9 DEF Dequeue
<1>13. CASE d <= c
  <2>1. left = 0 /\ ~Exhausted(left, c - d)
    BY <1>10, <1>13
  <2>2. IsMoved(q, s[1], q')
    BY <1>12, <2>1 DEF IsMoved
  <2>3. Len(s) = 1 => StartHandling(q')
    BY <1>11, <1>12
  <2>4. Len(s) # 1 => clock' = [phase |-> "dequeue", at |-> s[2], ticks |-> c - d]
    <3>1. Len(s) # 1 => clock' = [clock EXCEPT !.at = s[2], !.ticks = c - d]
      BY <1>11, <1>12, <2>1
    <3>2. Len(s) # 1 => s[2] \in Timer
      <4>1. Len(s) # 1 => 2 \in 1 .. Len(s)
        <5>1. Len(s) \in Nat /\ 1 \in 1 .. Len(s)
          BY <1>4
        <5>2. PICK n : n = Len(s)
          OBVIOUS
        <5>3. n # 1 => 2 \in 1 .. n
          BY <5>1, <5>2
        <5> QED
          BY <5>2, <5>3
      <4> QED
        BY <1>4, <4>1
    <3>3. clock \in [phase : {"dequeue"}, at : Timer, ticks : Int] /\ clock.phase = "dequeue"
      BY <1>1, <1>3, <1>7
    <3>4. c - d \in Int
      BY <1>7
    <3>5. Len(s) # 1 => clock' = [phase |-> clock.phase, at |-> s[2], ticks |-> c - d]
      BY <3>1, <3>2, <3>3, <3>4, ClockMoves
    <3> QED
      BY <3>3, <3>5
  <2> QED
    BY <1>2, <1>3, <1>5, <1>6, <1>13, <2>2, <2>3, <2>4
<1>14. CASE d > c
  <2>1. left # 0 /\ left = d - c /\ Exhausted(left, c - d)
    BY <1>7, <1>10, <1>14
  <2>2. StartHandling(q') /\ q' = [q EXCEPT !.delta[s[1]] = d - c]
    BY <1>12, <2>1
  <2> QED
    BY <1>2, <1>3, <1>5, <1>6, <1>14, <2>2
<1> QED
  BY <1>10, <1>13, <1>14

\* Consuming the announced ticks moves no deadline.
LEMMA DequeueShape ==
  ASSUME NEW s, NEW e, Shape(q, clock, s, e), Dequeue
  PROVE  \E w, f : Shape(q', clock', w, f) /\ TicksLeft(q', clock', w) = TicksLeft(q, clock, s)
<1>1. PICK t : t = s[1]
  OBVIOUS
<1>2. PICK d : d = q.delta[t]
  OBVIOUS
<1>3. PICK c : c = clock.ticks
  OBVIOUS
<1>4. /\ QueueOk(q, s) /\ ExpiredFrom(q, s, e, 1) /\ s # <<>> /\ c \in Nat /\ Announced(clock) = c
      /\ \/ /\ d <= c /\ IsMoved(q, t, q')
            /\ IF Len(s) = 1 THEN StartHandling(q')
               ELSE clock' = [phase |-> "dequeue", at |-> s[2], ticks |-> c - d]
         \/ d > c /\ StartHandling(q') /\ q' = [q EXCEPT !.delta[t] = d - c]
  BY <1>1, <1>2, <1>3, DequeueCases
<1>5. /\ q \in TimeoutQState /\ s \in Seq(Timer) /\ Len(s) \in Nat /\ Distinct(s) /\ 1 \in 1 .. Len(s)
      /\ q.delta \in [Timer -> Int] /\ IsRing(q, Queue, s)
      /\ \A i \in 1 .. Len(s) : s[i] \in Timer /\ q.delta[s[i]] \in Int /\ q.delta[s[i]] >= 0
      /\ \A i, j \in 1 .. Len(s) : s[i] = s[j] => i = j
      /\ t \in Timer /\ t \in ToSet(s) /\ ToSet(s) \subseteq Timer
  BY <1>1, <1>4 DEF QueueOk, Distinct, TimeoutQState, ToSet
<1>6. d \in Nat
  BY <1>1, <1>2, <1>5
<1>7. CASE d <= c /\ IsMoved(q, t, q')
  <2>1. PICK w, f : MovedFirst(q, s, e, q', w, f)
    BY <1>1, <1>4, <1>7, MoveMoves
  <2>2. /\ QueueOk(q', w) /\ ExpiredFrom(q', w, f, 1) /\ Len(w) = Len(s) - 1 /\ (w # <<>> => w[1] = s[2])
    BY <2>1 DEF MovedFirst
  <2>3. CASE Len(s) = 1
    <3>1. w = <<>>
      BY <2>2, <2>3 DEF QueueOk, Distinct
    <3>2. StartHandling(q')
      BY <1>4, <1>7, <2>3
    <3>3. FirstLater(q', w)
      BY <3>1 DEF FirstLater
    <3>4. Shape(q', clock', w, f)
      BY <2>2, <3>2, <3>3, HandlingStarts
    <3>5. TicksLeft(q', clock', w) = TicksLeft(q, clock, s)
      BY <1>1, <1>2, <1>4, <1>7, <2>1, <3>1, MovedTicks
    <3> QED
      BY <3>4, <3>5
  <2>4. CASE Len(s) # 1
    <3>1. w # <<>> /\ w[1] = s[2]
      BY <1>5, <2>2, <2>4
    <3>2. clock' = [phase |-> "dequeue", at |-> s[2], ticks |-> c - d] /\ c - d \in Nat
      BY <1>4, <1>6, <1>7, <2>4
    <3>3. Dequeuing(q', clock', w, f)
      BY <2>2, <3>1, <3>2 DEF Dequeuing
    <3>4. Announced(clock') = c - d
      BY <3>2 DEF Announced
    <3>5. TicksLeft(q', clock', w) = TicksLeft(q, clock, s)
      BY <1>1, <1>2, <1>4, <1>7, <2>1, <3>4, MovedTicks
    <3> QED
      BY <2>2, <3>3, <3>5 DEF Shape
  <2> QED
    BY <2>3, <2>4
<1>8. CASE d > c /\ StartHandling(q') /\ q' = [q EXCEPT !.delta[t] = d - c]
  <2>1. PICK v : v = d - c
    OBVIOUS
  <2>2. v \in Int /\ v > 0
    BY <1>4, <1>6, <1>8, <2>1
  <2>3. /\ q' \in TimeoutQState /\ q'.next = q.next /\ q'.prev = q.prev
        /\ q'.delta[t] = v /\ \A u \in Timer \ {t} : q'.delta[u] = q.delta[u]
    BY <1>5, <1>8, <2>1, <2>2, DeltaWrites
  <2>4. IsRing(q', Queue, s) /\ IsRing(q', Expired, e)
    <3>1. Queue \in ListHead /\ Expired \in ListHead /\ Distinct(e) /\ IsRing(q, Expired, e)
      BY <1>4 DEF ListHead, ExpiredFrom
    <3>2. IsRing(q', Queue, s)
      BY <1>5, <2>3, <3>1, RingFrame
    <3>3. IsRing(q', Expired, e)
      BY <2>3, <3>1, RingFrame
    <3> QED
      BY <3>2, <3>3
  <2>5. QueueOk(q', s)
    <3>1. ASSUME NEW i \in 1 .. Len(s) PROVE q'.delta[s[i]] >= 0
      <4>1. CASE s[i] = t
        BY <2>2, <2>3, <4>1
      <4>2. CASE s[i] # t
        BY <1>5, <2>3, <4>2
      <4> QED
        BY <4>1, <4>2
    <3> QED
      BY <1>5, <2>3, <2>4, <3>1 DEF QueueOk
  <2>6. FirstLater(q', s)
    BY <1>1, <2>2, <2>3 DEF FirstLater
  <2>7. ExpiredFrom(q', s, e, 1)
    <3>1. /\ Distinct(e) /\ ToSet(s) \cap ToSet(e) = {} /\ e \in Seq(Timer)
          /\ \A j \in 1 .. Len(e) : q.delta[e[j]] = IF j < 1 THEN INACTIVE ELSE EXPIRED
          /\ \A u \in Timer \ (ToSet(s) \cup ToSet(e)) : q.delta[u] = INACTIVE
      BY <1>4 DEF ExpiredFrom, Distinct
    <3>2. \A j \in 1 .. Len(e) : e[j] \in Timer \ {t}
      <4>1. t \notin ToSet(e) /\ \A j \in 1 .. Len(e) : e[j] \in Timer
        BY <1>5, <3>1
      <4>2. \A j \in 1 .. Len(e) : e[j] \in ToSet(e)
        BY <3>1 DEF ToSet
      <4> QED
        BY <4>1, <4>2
    <3> QED
      BY <1>5, <2>3, <2>4, <3>1, <3>2 DEF ExpiredFrom
  <2>8. Shape(q', clock', s, e) /\ Announced(clock') = 0
    BY <1>8, <2>5, <2>6, <2>7, HandlingStarts
  <2>9. ASSUME NEW u \in ToSet(s) PROVE Until(q', s, u) = Until(q, s, u) - c
    <3>1. q.delta \in Deltas /\ q'.delta \in Deltas
      BY <1>5, <2>3 DEF Deltas, TimeoutQState
    <3>2. \A i \in 1 .. Len(s) : i # 1 => s[i] \in Timer \ {t}
      BY <1>1, <1>5
    <3>3. q'.delta[s[1]] = q.delta[s[1]] - c
      BY <1>1, <1>2, <2>1, <2>3
    <3>4. DeltasConsume(q, q', s, c)
      BY <1>5, <2>3, <3>2, <3>3 DEF DeltasConsume
    <3>5. c \in Int
      BY <1>4
    <3>6. \A i \in 1 .. Len(s) : TicksUpTo(q', s, i) = TicksUpTo(q, s, i) - c
      BY <1>4, <1>5, <3>1, <3>4, <3>5, SumConsume
    <3>7. PICK i \in 1 .. Len(s) : u = s[i]
      BY <1>5 DEF ToSet
    <3>8. Until(q', s, u) = TicksUpTo(q', s, i) /\ Until(q, s, u) = TicksUpTo(q, s, i)
      BY <1>5, <3>7, UntilAt
    <3> QED
      BY <3>6, <3>8
  <2>10. ASSUME NEW u \in Timer PROVE TicksLeft(q', clock', s)[u] = TicksLeft(q, clock, s)[u]
    <3>1. CASE u \in ToSet(s)
      <4>1. IsActive(q, u) /\ IsActive(q', u)
        BY <1>4, <2>5, <3>1, QueuedActive
      <4>2. Until(q, s, u) \in Int /\ Until(q', s, u) = Until(q, s, u) - c
        BY <1>4, <2>9, <3>1, UntilType
      <4>3. (Until(q, s, u) - c) - 0 = Until(q, s, u) - c
        BY <1>4, <4>2
      <4>4. Until(q', s, u) - Announced(clock') = Until(q, s, u) - Announced(clock)
        BY <1>4, <2>8, <4>2, <4>3
      <4> QED
        BY <3>1, <4>1, <4>4 DEF TicksLeft
    <3>2. CASE u \notin ToSet(s)
      <4>1. IsActive(q, u) <=> IsActive(q', u)
        BY <1>5, <2>3, <3>2 DEF IsActive
      <4> QED
        BY <3>2, <4>1 DEF TicksLeft
    <3> QED
      BY <3>1, <3>2
  <2>11. TicksLeft(q', clock', s) = TicksLeft(q, clock, s)
    BY <2>10 DEF TicksLeft
  <2> QED
    BY <2>8, <2>11
<1> QED
  BY <1>4, <1>7, <1>8

\* The deadlines depend on the deltas only.
LEMMA SameUntil ==
  ASSUME NEW x, NEW y, NEW s, Distinct(s), x \in TimeoutQState, y \in TimeoutQState,
         \A u \in ToSet(s) : y.delta[u] = x.delta[u]
  PROVE  \A u \in ToSet(s) : Until(y, s, u) = Until(x, s, u)
<1> TAKE u \in ToSet(s)
<1>1. s \in Seq(Timer) /\ Len(s) \in Nat
  BY DEF Distinct
<1>2. PICK i \in 1 .. Len(s) : u = s[i]
  BY <1>1 DEF ToSet
<1>3. s # <<>>
  BY <1>1, <1>2
<1>4. x.delta \in Deltas /\ y.delta \in Deltas
  BY DEF Deltas, TimeoutQState
<1>5. \A j \in 1 .. Len(s) : y.delta[s[j]] = x.delta[s[j]] /\ x.delta[s[j]] \in Int
  <2> TAKE j \in 1 .. Len(s)
  <2>1. s[j] \in ToSet(s) /\ s[j] \in Timer
    BY <1>1 DEF ToSet
  <2> QED
    BY <2>1 DEF TimeoutQState
<1>6. DeltasConsume(x, y, s, 0)
  <2>1. 1 \in 1 .. Len(s)
    BY <1>1, <1>3
  <2>2. y.delta[s[1]] = x.delta[s[1]] - 0
    BY <1>5, <2>1
  <2> QED
    BY <1>5, <2>2 DEF DeltasConsume
<1>7. \A j \in 1 .. Len(s) : TicksUpTo(y, s, j) = TicksUpTo(x, s, j) - 0
  BY <1>3, <1>4, <1>6, SumConsume
<1>8. TicksUpTo(x, s, i) \in Int
  <2>1. i \in 0 .. Len(s) /\ x.delta \in [Timer -> Int]
    BY <1>1 DEF TimeoutQState
  <2> QED
    BY <1>1, <2>1, SumType
<1>9. TicksUpTo(y, s, i) = TicksUpTo(x, s, i)
  BY <1>7, <1>8
<1> QED
  BY <1>2, <1>9, UntilAt

\* What handling t, with the period n, leaves: w is the queue.
HasRearmed(x, s, y, w, t, n) ==
  /\ QueueOk(y, w) /\ FirstLater(y, w)
  /\ ToSet(w) = IF n > 0 THEN ToSet(s) \cup {t} ELSE ToSet(s)
  /\ n = 0 => y.delta[t] = INACTIVE /\ y.next = x.next /\ y.prev = x.prev /\ w = s
  /\ n > 0 => Until(y, w, t) = n
  /\ \A u \in ToSet(s) : Until(y, w, u) = Until(x, s, u)
  /\ \A u \in Timer \ (ToSet(s) \cup {t}) : y.delta[u] = x.delta[u]
  /\ SamePointers(x, y, {Expired})

\* Handling a timeout adds it again if it is periodic.
LEMMA RearmedQueue ==
  ASSUME NEW x, NEW s, QueueOk(x, s), FirstLater(x, s), NEW t \in Timer \ ToSet(s), NEW n \in Nat,
         NEW y, y = Rearmed(x, t, n)
  PROVE  \E w : HasRearmed(x, s, y, w, t, n)
<1>1. /\ x \in TimeoutQState /\ Distinct(s) /\ IsRing(x, Queue, s) /\ s \in Seq(Timer) /\ Len(s) \in Nat
      /\ ToSet(s) \subseteq Timer
      /\ \A i \in 1 .. Len(s) : x.delta[s[i]] >= 0 /\ s[i] \in ToSet(s)
  BY DEF QueueOk, Distinct, ToSet
<1>2. PICK z : z = [x EXCEPT !.delta[t] = INACTIVE]
  OBVIOUS
<1>3. /\ z \in TimeoutQState /\ z.next = x.next /\ z.prev = x.prev
      /\ z.delta[t] = INACTIVE /\ \A u \in Timer \ {t} : z.delta[u] = x.delta[u]
  <2>1. INACTIVE \in Int /\ x \in TimeoutQState /\ t \in Timer
    BY <1>1 DEF INACTIVE
  <2> QED
    BY <1>2, <2>1, DeltaWrites
<1>4. \A u \in ToSet(s) : z.delta[u] = x.delta[u]
  BY <1>1, <1>3
<1>5. QueueOk(z, s) /\ FirstLater(z, s)
  <2>1. Queue \in ListHead
    BY DEF ListHead
  <2>2. IsRing(z, Queue, s)
    BY <1>1, <1>3, <2>1, RingFrame
  <2>3. s # <<>> => 1 \in 1 .. Len(s)
    BY <1>1
  <2>4. FirstLater(z, s)
    BY <1>1, <1>4, <2>3 DEF FirstLater
  <2> QED
    BY <1>1, <1>3, <1>4, <2>2, <2>4 DEF QueueOk
<1>6. \A u \in ToSet(s) : Until(z, s, u) = Until(x, s, u)
  BY <1>1, <1>3, <1>4, SameUntil
<1>7. y = IF n > 0 THEN AddTimeout(z, t, n) ELSE z
  BY <1>2 DEF Rearmed
<1>8. CASE n = 0
  <2>1. y = z /\ ~(n > 0)
    BY <1>7, <1>8
  <2>2. SamePointers(x, y, {Expired})
    BY <1>3, <2>1 DEF SamePointers
  <2>3. HasRearmed(x, s, y, s, t, n)
    BY <1>3, <1>5, <1>6, <2>1, <2>2 DEF HasRearmed
  <2> QED
    BY <2>3
<1>9. CASE n > 0
  <2>1. PICK w : Added(z, s, y, w, t, n)
    BY <1>5, <1>7, <1>9, AddAdds
  <2>2. /\ QueueOk(y, w) /\ ToSet(w) = ToSet(s) \cup {t}
        /\ FirstLater(y, w)
        /\ Until(y, w, t) = n /\ \A u \in ToSet(s) : Until(y, w, u) = Until(z, s, u)
        /\ \A u \in Timer \ ToSet(w) : y.delta[u] = z.delta[u]
        /\ SamePointers(z, y, Node \ ({Queue, t} \cup ToSet(s)))
    BY <1>5, <2>1 DEF Added
  <2>3. Expired \in Node \ ({Queue, t} \cup ToSet(s))
    BY <1>1, TimeoutQAssumption DEF Node
  <2>4. SamePointers(x, y, {Expired})
    BY <1>3, <2>2, <2>3 DEF SamePointers
  <2>5. n # 0
    BY <1>9
  <2>6. \A u \in Timer \ (ToSet(s) \cup {t}) : y.delta[u] = x.delta[u]
    BY <1>3, <2>2
  <2>7. HasRearmed(x, s, y, w, t, n)
    BY <1>6, <1>9, <2>2, <2>4, <2>5, <2>6 DEF HasRearmed
  <2> QED
    BY <2>7
<1> QED
  BY <1>8, <1>9

\* Handling a timeout moves no other deadline.
LEMMA RearmedTicks ==
  ASSUME NEW x, NEW c, NEW s, QueueOk(x, s), NEW t \in Timer \ ToSet(s), NEW n \in Nat,
         NEW y, NEW d, NEW w, HasRearmed(x, s, y, w, t, n), Announced(c) = 0, Announced(d) = 0
  PROVE  TicksLeft(y, d, w) = [TicksLeft(x, c, s) EXCEPT ![t] = IF n = 0 THEN Null ELSE n]
<1>1. /\ QueueOk(y, w) /\ ToSet(w) = IF n > 0 THEN ToSet(s) \cup {t} ELSE ToSet(s)
      /\ n = 0 => y.delta[t] = INACTIVE
      /\ n > 0 => Until(y, w, t) = n
      /\ \A u \in ToSet(s) : Until(y, w, u) = Until(x, s, u)
      /\ \A u \in Timer \ (ToSet(s) \cup {t}) : y.delta[u] = x.delta[u]
  BY DEF HasRearmed
<1>2. ASSUME NEW u \in Timer, u # t PROVE TicksLeft(y, d, w)[u] = TicksLeft(x, c, s)[u]
  <2>1. CASE u \in ToSet(s)
    <3>1. IsActive(x, u) /\ IsActive(y, u) /\ u \in ToSet(w)
      BY <1>1, <2>1, QueuedActive
    <3>2. Until(y, w, u) = Until(x, s, u)
      BY <1>1, <2>1
    <3> QED
      BY <2>1, <3>1, <3>2 DEF TicksLeft
  <2>2. CASE u \notin ToSet(s)
    <3>1. u \notin ToSet(w) /\ (IsActive(y, u) <=> IsActive(x, u))
      BY <1>1, <1>2, <2>2 DEF IsActive
    <3> QED
      BY <2>2, <3>1 DEF TicksLeft
  <2> QED
    BY <2>1, <2>2
<1>3. TicksLeft(y, d, w)[t] = IF n = 0 THEN Null ELSE n
  <2>1. CASE n = 0
    <3>1. ~IsActive(y, t)
      BY <1>1, <2>1 DEF IsActive
    <3> QED
      BY <2>1, <3>1 DEF TicksLeft
  <2>2. CASE n # 0
    <3>1. t \in ToSet(w) /\ Until(y, w, t) = n
      BY <1>1, <2>2
    <3>2. IsActive(y, t)
      BY <1>1, <3>1, QueuedActive
    <3>3. NotBelowZero(n - 0) = n
      BY DEF NotBelowZero
    <3> QED
      BY <2>2, <3>1, <3>2, <3>3 DEF TicksLeft
  <2> QED
    BY <2>1, <2>2
<1> QED
  BY <1>2, <1>3 DEF TicksLeft

\* The end of handle_timeouts() forgets the expired list.
LEMMA FinishedRests ==
  ASSUME NEW x, NEW s, QueueOk(x, s), FirstLater(x, s), \A t \in Timer \ ToSet(s) : x.delta[t] = INACTIVE,
         NEW y, y = Finished(x), NEW c
  PROVE  /\ Shape(y, ClockOff, s, <<>>)
         /\ TicksLeft(y, c, s) = TicksLeft(x, c, s)
<1>1. /\ x \in TimeoutQState /\ Distinct(s) /\ IsRing(x, Queue, s) /\ s \in Seq(Timer) /\ Len(s) \in Nat
      /\ ToSet(s) \subseteq Timer
      /\ \A i \in 1 .. Len(s) : x.delta[s[i]] >= 0
      /\ Queue \in ListHead /\ Expired \in ListHead
  BY DEF QueueOk, Distinct, ToSet, ListHead
<1>2. PICK in : in = {Expired} \cup {t \in Timer : ~IsActive(x, t)}
  OBVIOUS
<1>3. /\ y \in TimeoutQState /\ y.delta = x.delta /\ SamePointers(x, y, Node \ in)
      /\ \A m \in Node \cap in : y.next[m] = m /\ y.prev[m] = m
  <2>1. y = Forget(x, in) /\ x \in TimeoutQState
    BY <1>1, <1>2 DEF Finished
  <2> QED
    BY <2>1, ForgetWrites
<1>4. {Queue} \cup ToSet(s) \subseteq Node \ in
  <2>1. \A u \in ToSet(s) : IsActive(x, u)
    BY QueuedActive
  <2>2. Queue \notin in
    BY <1>2, TimeoutQAssumption
  <2>3. ToSet(s) \cap in = {}
    BY <1>1, <1>2, <2>1, TimeoutQAssumption
  <2> QED
    BY <1>1, <2>2, <2>3 DEF Node
<1>5. IsRing(y, Queue, s)
  <2>1. \A m \in {Queue} \cup ToSet(s) : y.next[m] = x.next[m] /\ y.prev[m] = x.prev[m]
    BY <1>3, <1>4 DEF SamePointers
  <2> QED
    BY <1>1, <2>1, RingFrame
<1>6. QueueOk(y, s) /\ FirstLater(y, s)
  BY <1>1, <1>3, <1>5 DEF QueueOk, FirstLater
<1>7. ExpiredFrom(y, s, <<>>, 1)
  <2>1. y.next[Expired] = Expired /\ y.prev[Expired] = Expired
    BY <1>2, <1>3 DEF Node
  <2>2. ToSet(<<>>) = {} /\ Distinct(<<>>) /\ Len(<<>>) = 0 /\ IsRing(y, Expired, <<>>)
    BY <1>1, <2>1, EmptyRing
  <2> QED
    BY <1>3, <2>2 DEF ExpiredFrom
<1>8. Shape(y, ClockOff, s, <<>>)
  BY <1>6, <1>7 DEF Shape, Resting
<1>9. \A u \in ToSet(s) : Until(y, s, u) = Until(x, s, u)
  BY <1>1, <1>3, SameUntil
<1>10. TicksLeft(y, c, s) = TicksLeft(x, c, s)
  BY <1>3, <1>9 DEF TicksLeft, IsActive
<1> QED
  BY <1>8, <1>10

\* Handling an expired timeout: a one-shot timer stops, a periodic one has its
\* period to go.
LEMMA HandleShape ==
  ASSUME NEW s, NEW e, Shape(q, clock, s, e), PeriodicLast, period \in [Timer -> Period], Handle
  PROVE  \E t \in Timer :
           /\ t = clock.at /\ TicksLeft(q, clock, s)[t] = 0
           /\ Becomes(s, t, IF period[t] = 0 THEN Null ELSE period[t])
<1>1. PICK t : t = clock.at
  OBVIOUS
<1>2. clock.phase = "handle" /\ t \in Timer
  BY <1>1 DEF Handle
<1>3. QueueOk(q, s) /\ Handling(q, clock, s, e) /\ ToSet(s) \subseteq Timer
  BY <1>2, ShapeFacts
<1>4. PICK i \in 1 .. Len(e) :
        clock = [phase |-> "handle", at |-> e[i], ticks |-> 0] /\ ExpiredFrom(q, s, e, i)
  BY <1>3 DEF Handling
<1>5. FirstLater(q, s) /\ t = e[i] /\ Announced(clock) = 0
  BY <1>1, <1>3, <1>4 DEF Handling, Announced
<1>6. /\ Distinct(e) /\ e \in Seq(Timer) /\ Len(e) \in Nat /\ ToSet(s) \cap ToSet(e) = {}
      /\ IsRing(q, Expired, e) /\ Expired \in ListHead
      /\ \A j \in 1 .. Len(e) : e[j] \in ToSet(e)
      /\ \A j, k \in 1 .. Len(e) : e[j] = e[k] => j = k
      /\ \A j \in 1 .. Len(e) : q.delta[e[j]] = IF j < i THEN INACTIVE ELSE EXPIRED
      /\ \A u \in Timer \ (ToSet(s) \cup ToSet(e)) : q.delta[u] = INACTIVE
  <2>1. /\ Distinct(e) /\ ToSet(s) \cap ToSet(e) = {} /\ IsRing(q, Expired, e)
        /\ \A j \in 1 .. Len(e) : q.delta[e[j]] = IF j < i THEN INACTIVE ELSE EXPIRED
        /\ \A u \in Timer \ (ToSet(s) \cup ToSet(e)) : q.delta[u] = INACTIVE
    BY <1>4 DEF ExpiredFrom
  <2>2. e \in Seq(Timer) /\ Len(e) \in Nat /\ \A j, k \in 1 .. Len(e) : e[j] = e[k] => j = k
    BY <2>1 DEF Distinct
  <2>3. \A j \in 1 .. Len(e) : e[j] \in ToSet(e)
    BY <2>2 DEF ToSet
  <2> QED
    BY <2>1, <2>2, <2>3 DEF ListHead
<1>7. t \in Timer \ ToSet(s) /\ t \in ToSet(e) /\ q.delta[t] = EXPIRED /\ i \in Int
  BY <1>2, <1>5, <1>6
<1>8. PICK n : n = period[t]
  OBVIOUS
<1>9. n \in Nat
  BY <1>2, <1>8, TimersAssumption
<1>10. PICK y : y = Rearmed(q, t, n)
  OBVIOUS
<1>11. PICK w : HasRearmed(q, s, y, w, t, n)
  BY <1>3, <1>5, <1>7, <1>9, <1>10, RearmedQueue
<1>12. /\ QueueOk(y, w) /\ FirstLater(y, w)
       /\ ToSet(w) = IF n > 0 THEN ToSet(s) \cup {t} ELSE ToSet(s)
       /\ n = 0 => y.delta[t] = INACTIVE /\ y.next = q.next /\ y.prev = q.prev /\ w = s
       /\ \A u \in Timer \ (ToSet(s) \cup {t}) : y.delta[u] = q.delta[u]
       /\ y.next[Expired] = q.next[Expired] /\ y.prev[Expired] = q.prev[Expired]
  BY <1>11 DEF HasRearmed, SamePointers
<1>13. e # <<>> /\ Len(e) \in 1 .. Len(e)
  BY <1>6
<1>14. q.prev[Expired] = e[Len(e)] /\ (i # Len(e) => q.next[e[i]] = e[i + 1])
  <2>1. q.prev[Expired] = e[Len(e)]
    BY <1>6, <1>13, RingEnds
  <2>2. Expired \in ListHead /\ Distinct(e) /\ IsRing(q, Expired, e)
    BY <1>6
  <2>3. i # Len(e) => q.next[e[i]] = e[i + 1]
    <3>1. i \in 0 .. Len(e)
      BY <1>6
    <3>2. q.next[At(Expired, e, i)] = At(Expired, e, i + 1)
      BY <2>2, <3>1 DEF IsRing
    <3>3. At(Expired, e, i) = e[i]
      BY DEF At
    <3>4. i # Len(e) => At(Expired, e, i + 1) = e[i + 1]
      BY <1>6 DEF At
    <3> QED
      BY <3>2, <3>3, <3>4
  <2> QED
    BY <2>1, <2>3
<1>15. i # Len(e) => t # e[Len(e)] /\ n = 0 /\ i + 1 \in 1 .. Len(e)
  <2>1. i # Len(e) => t # e[Len(e)]
    BY <1>5, <1>6, <1>13
  <2>2. t # e[Len(e)] => ~(n > 0)
    <3>1. Left[t] = 0
      <4>1. TicksLeft(q, clock, s)[t] = 0
        BY <1>7 DEF TicksLeft, IsActive, EXPIRED, INACTIVE
      <4> QED
        BY <4>1, LeftNow
    <3>2. PeekHead(q, Expired) # Null
      <4>1. q.next[Expired] = e[1] /\ e[1] \in Timer
        BY <1>6, <1>13, RingEnds
      <4> QED
        BY <4>1, TimeoutQAssumption DEF PeekHead
    <3>3. ~AtThreadLevel
      BY <1>2 DEF AtThreadLevel
    <3> QED
      BY <1>2, <1>8, <1>14, <3>1, <3>2, <3>3 DEF PeriodicLast
  <2>3. i # Len(e) => i + 1 \in 1 .. Len(e)
    BY <1>6
  <2> QED
    BY <1>9, <2>1, <2>2, <2>3
<1>16. PICK next : next = PeekNext(y, Expired, t)
  OBVIOUS
<1>17. /\ next = Null => q' = Finished(y) /\ clock' = ClockOff
       /\ next # Null => q' = y /\ clock' = [clock EXCEPT !.at = next]
  BY <1>1, <1>8, <1>10, <1>16 DEF Handle
<1>18. TicksLeft(q, clock, s)[t] = 0
  BY <1>7 DEF TicksLeft, IsActive, EXPIRED, INACTIVE
<1>19. CASE i = Len(e)
  <2>1. next = Null
    BY <1>5, <1>12, <1>14, <1>16, <1>19 DEF PeekNext
  <2>2. q' = Finished(y) /\ clock' = ClockOff
    BY <1>17, <2>1
  <2>3. ASSUME NEW u \in Timer \ ToSet(w) PROVE y.delta[u] = INACTIVE
    <3>1. CASE u = t
      <4>1. n = 0
        BY <1>9, <1>12, <2>3, <3>1
      <4> QED
        BY <1>12, <3>1, <4>1
    <3>2. CASE u # t
      <4>1. u \notin ToSet(s) \cup {t}
        BY <1>12, <2>3, <3>2
      <4>2. y.delta[u] = q.delta[u]
        BY <1>12, <4>1
      <4>3. CASE u \in ToSet(e)
        <5>1. PICK j \in 1 .. Len(e) : u = e[j]
          BY <1>6, <4>3 DEF ToSet
        <5>2. j # i /\ j < i
          BY <1>5, <1>6, <1>19, <3>2, <5>1
        <5> QED
          BY <1>6, <4>2, <5>1, <5>2
      <4>4. CASE u \notin ToSet(e)
        BY <1>6, <4>1, <4>2, <4>4
      <4> QED
        BY <4>3, <4>4
    <3> QED
      BY <3>1, <3>2
  <2>4. Shape(q', clock', w, <<>>) /\ TicksLeft(q', clock', w) = TicksLeft(y, clock', w)
    BY <1>12, <2>2, <2>3, FinishedRests
  <2>5. Announced(clock') = 0
    BY <2>2 DEF Announced, ClockOff
  <2>6. TicksLeft(y, clock', w) = [TicksLeft(q, clock, s) EXCEPT ![t] = IF n = 0 THEN Null ELSE n]
    BY <1>3, <1>5, <1>7, <1>9, <1>11, <2>5, RearmedTicks
  <2>7. Becomes(s, t, IF n = 0 THEN Null ELSE n)
    BY <2>4, <2>6 DEF Becomes
  <2> QED
    BY <1>1, <1>2, <1>8, <1>18, <2>7
<1>20. CASE i # Len(e)
  <2>1. n = 0 /\ t # e[Len(e)] /\ i + 1 \in 1 .. Len(e)
    BY <1>15, <1>20
  <2>2. /\ y.delta[t] = INACTIVE /\ y.next = q.next /\ y.prev = q.prev /\ w = s
    BY <1>12, <2>1
  <2>3. e[i + 1] # Null
    <3>1. e[i + 1] \in Timer
      BY <1>6, <2>1
    <3> QED
      BY <3>1, TimeoutQAssumption
  <2>4. next = e[i + 1]
    BY <1>5, <1>14, <1>16, <1>20, <2>1, <2>2 DEF PeekNext
  <2>5. q' = y /\ clock' = [clock EXCEPT !.at = e[i + 1]]
    BY <1>17, <2>3, <2>4
  <2>6. clock' = [phase |-> "handle", at |-> e[i + 1], ticks |-> 0]
    <3>1. clock' = [[phase |-> "handle", at |-> e[i], ticks |-> 0] EXCEPT !.at = e[i + 1]]
      BY <1>4, <2>5
    <3> QED
      BY <3>1
  <2>7. ExpiredFrom(y, s, e, i + 1)
    <3>1. IsRing(y, Expired, e)
      BY <1>6, <2>2, RingFrame
    <3>2. ASSUME NEW j \in 1 .. Len(e)
          PROVE  y.delta[e[j]] = IF j < i + 1 THEN INACTIVE ELSE EXPIRED
      <4>1. CASE j = i
        <5>1. j < i + 1
          BY <1>7, <4>1
        <5> QED
          BY <1>5, <2>2, <4>1, <5>1
      <4>2. CASE j # i
        <5>1. e[j] \in Timer \ (ToSet(s) \cup {t})
          <6>1. e[j] # t
            BY <1>5, <1>6, <4>2
          <6>2. e[j] \in Timer /\ e[j] \notin ToSet(s)
            BY <1>6
          <6> QED
            BY <6>1, <6>2
        <5>2. y.delta[e[j]] = q.delta[e[j]]
          BY <1>12, <5>1
        <5>3. (j < i + 1) <=> (j < i)
          BY <1>7, <4>2
        <5> QED
          BY <1>6, <5>2, <5>3
      <4> QED
        BY <4>1, <4>2
    <3>3. \A u \in Timer \ (ToSet(s) \cup ToSet(e)) : y.delta[u] = INACTIVE
      BY <1>6, <1>7, <1>12
    <3> QED
      BY <1>6, <3>1, <3>2, <3>3 DEF ExpiredFrom
  <2>8. Shape(q', clock', w, e)
    <3>1. Handling(q', clock', s, e)
      BY <1>12, <2>1, <2>2, <2>5, <2>6, <2>7 DEF Handling
    <3> QED
      BY <1>12, <2>2, <2>5, <3>1 DEF Shape
  <2>9. Announced(clock') = 0
    BY <2>6 DEF Announced
  <2>10. TicksLeft(q', clock', w) = [TicksLeft(q, clock, s) EXCEPT ![t] = IF n = 0 THEN Null ELSE n]
    BY <1>3, <1>5, <1>7, <1>9, <1>11, <2>5, <2>9, RearmedTicks
  <2>11. Becomes(s, t, IF n = 0 THEN Null ELSE n)
    BY <2>8, <2>10 DEF Becomes
  <2> QED
    BY <1>1, <1>2, <1>8, <1>18, <2>11
<1> QED
  BY <1>19, <1>20

-----------------------------------------------------------------------------
(***************************************************************************)
(* The invariant is inductive.                                             *)
(***************************************************************************)

\* Initially every list is empty.
LEMMA TimersStart == TimersInit => TimersInv
<1> SUFFICES ASSUME TimersInit PROVE TimersInv
  OBVIOUS
<1>1. q = EmptyQueue /\ clock = ClockOff
  BY DEF TimersInit
<1>2. /\ q \in TimeoutQState
      /\ \A m \in Node : q.next[m] = m /\ q.prev[m] = m
      /\ \A t \in Timer : q.delta[t] = INACTIVE
  BY <1>1 DEF EmptyQueue, Rings, TimeoutQState, INACTIVE
<1>3. Queue \in ListHead /\ Expired \in ListHead /\ Queue \in Node /\ Expired \in Node
  BY DEF ListHead, Node
<1>4. ToSet(<<>>) = {} /\ Distinct(<<>>) /\ Len(<<>>) = 0
      /\ IsRing(q, Expired, <<>>) /\ IsRing(q, Queue, <<>>)
  BY <1>2, <1>3, EmptyRing
<1>5. QueueOk(q, <<>>) /\ FirstLater(q, <<>>) /\ ExpiredFrom(q, <<>>, <<>>, 1)
  BY <1>2, <1>4 DEF QueueOk, FirstLater, ExpiredFrom
<1>6. Shape(q, clock, <<>>, <<>>)
  BY <1>1, <1>5 DEF Shape, Resting
<1>7. /\ period \in [Timer -> Period] /\ status \in [Timer -> BOOLEAN]
      /\ sync \in [Timer -> {"out", "waiting", "woken"}] /\ stopping \in SUBSET Timer
  BY TimersAssumption DEF TimersInit
<1>8. WaiterHasTimer
  BY DEF TimersInit, WaiterHasTimer
<1> QED
  BY <1>6, <1>7, <1>8 DEF TimersInv

\* Which timers run after a step that gives t the ticks n.
LEMMA BecomesActive ==
  ASSUME NEW s, NEW e, Shape(q, clock, s, e), NEW t \in Timer, NEW n, Becomes(s, t, n)
  PROVE  /\ \E w, f : Shape(q', clock', w, f)
         /\ \A u \in Timer \ {t} : IsActive(q', u) <=> IsActive(q, u)
         /\ IsActive(q', t) <=> n # Null
<1>1. PICK w, f : /\ Shape(q', clock', w, f)
                  /\ TicksLeft(q', clock', w) = [TicksLeft(q, clock, s) EXCEPT ![t] = n]
  BY DEF Becomes
<1>2. \A u \in Timer : IsActive(q', u) <=> TicksLeft(q', clock', w)[u] # Null
  BY <1>1, ActiveHasTicks
<1>3. \A u \in Timer : IsActive(q, u) <=> TicksLeft(q, clock, s)[u] # Null
  BY ActiveHasTicks
<1>4. /\ TicksLeft(q', clock', w)[t] = n
      /\ \A u \in Timer \ {t} : TicksLeft(q', clock', w)[u] = TicksLeft(q, clock, s)[u]
  <2>1. DOMAIN TicksLeft(q, clock, s) = Timer
    BY DEF TicksLeft
  <2> QED
    BY <1>1, <2>1
<1> QED
  BY <1>1, <1>2, <1>3, <1>4

\* The timers that run after a step: those that did, but for the timer t of the
\* call, which runs if n is not Null.
Runs(t, n) ==
  /\ \A u \in Timer \ {t} : IsActive(q', u) <=> IsActive(q, u)
  /\ IsActive(q', t) <=> n # Null

StillRuns == \A u \in Timer : IsActive(q', u) <=> IsActive(q, u)

Types ==
  /\ period \in [Timer -> Period] /\ status \in [Timer -> BOOLEAN]
  /\ sync \in [Timer -> {"out", "waiting", "woken"}] /\ stopping \in SUBSET Timer

\* Waking the user of t.
LEMMA ReleasedType ==
  ASSUME Types, NEW t \in Timer
  PROVE  /\ Released(t) \in [Timer -> {"out", "waiting", "woken"}]
         /\ Released(t)[t] # "waiting" /\ \A u \in Timer \ {t} : Released(t)[u] = sync[u]
  BY DEF Types, Released

\* The start of the interrupt stops no timer.
LEMMA AnnounceKeeps ==
  ASSUME NEW n, TickAnnounce(n)
  PROVE  StillRuns /\ UNCHANGED <<period, status, sync, stopping>>
  BY DEF TickAnnounce, StillRuns

\* Consuming ticks stops no timer.
LEMMA DequeueKeeps ==
  ASSUME NEW s, NEW e, Shape(q, clock, s, e), Dequeue
  PROVE  StillRuns /\ UNCHANGED <<period, status, sync, stopping>> /\ \E w, f : Shape(q', clock', w, f)
<1>1. PICK w, f : Shape(q', clock', w, f) /\ TicksLeft(q', clock', w) = TicksLeft(q, clock, s)
  BY DequeueShape
<1>2. StillRuns
  <2> SUFFICES ASSUME NEW u \in Timer PROVE IsActive(q', u) <=> IsActive(q, u)
    BY DEF StillRuns
  <2>1. IsActive(q', u) <=> TicksLeft(q', clock', w)[u] # Null
    BY <1>1, ActiveHasTicks
  <2>2. IsActive(q, u) <=> TicksLeft(q, clock, s)[u] # Null
    BY ActiveHasTicks
  <2> QED
    BY <1>1, <2>1, <2>2
<1>3. UNCHANGED <<period, status, sync, stopping>>
  BY DEF Dequeue
<1> QED
  BY <1>1, <1>2, <1>3

\* An expiry stops a one-shot timer, and wakes its user.
LEMMA HandleKeeps ==
  ASSUME NEW s, NEW e, Shape(q, clock, s, e), PeriodicLast, Types, Handle
  PROVE  /\ \E w, f : Shape(q', clock', w, f)
         /\ \E t \in Timer :
              /\ Runs(t, IF period[t] = 0 THEN Null ELSE period[t]) /\ IsActive(q, t)
              /\ sync' = Released(t) /\ status' = [status EXCEPT ![t] = TRUE]
              /\ UNCHANGED <<period, stopping>>
<1>1. period \in [Timer -> Period]
  BY DEF Types
<1>2. PICK t \in Timer :
        /\ t = clock.at /\ TicksLeft(q, clock, s)[t] = 0
        /\ Becomes(s, t, IF period[t] = 0 THEN Null ELSE period[t])
  BY <1>1, HandleShape
<1>3. PICK n : n = IF period[t] = 0 THEN Null ELSE period[t]
  OBVIOUS
<1>4. Becomes(s, t, n)
  BY <1>2, <1>3
<1>5. (\E w, f : Shape(q', clock', w, f)) /\ Runs(t, n)
  BY <1>4, BecomesActive DEF Runs
<1>6. IsActive(q, t)
  <2>1. 0 # Null
    BY TimersAssumption
  <2> QED
    BY <1>2, <2>1, ActiveHasTicks
<1>7. sync' = Released(t) /\ status' = [status EXCEPT ![t] = TRUE] /\ UNCHANGED <<period, stopping>>
  BY <1>2 DEF Handle, Expire
<1> QED
  BY <1>3, <1>5, <1>6, <1>7

\* k_timer_start() starts t and no other timer.
LEMMA StartKeeps ==
  ASSUME NEW s, NEW e, Shape(q, clock, s, e), Types,
         NEW t \in Timer, NEW duration \in Duration, NEW ticks \in Period,
         TimerStart(t, duration, ticks)
  PROVE  /\ \E w, f : Shape(q', clock', w, f)
         /\ \E n \in Nat : n > 0 /\ Runs(t, n)
         /\ period' = [period EXCEPT ![t] = ticks]
         /\ status' \in [Timer -> BOOLEAN] /\ (sync' = sync \/ sync' = Released(t))
         /\ UNCHANGED stopping
<1>1. PICK n \in Nat : n > 0 /\ Becomes(s, t, n)
  BY StartShape
<1>2. (\E w, f : Shape(q', clock', w, f)) /\ Runs(t, n)
  BY <1>1, BecomesActive DEF Runs
<1>3. /\ period' = [period EXCEPT ![t] = ticks]
      /\ (status' = [status EXCEPT ![t] = TRUE] \/ status' = [status EXCEPT ![t] = FALSE])
      /\ (sync' = sync \/ sync' = Released(t)) /\ UNCHANGED stopping
  BY DEF TimerStart, Expire
<1>4. status' \in [Timer -> BOOLEAN]
  BY <1>3 DEF Types
<1> QED
  BY <1>1, <1>2, <1>3, <1>4

\* The first critical section of k_timer_stop() stops t.
LEMMA StopKeeps ==
  ASSUME NEW s, NEW e, Shape(q, clock, s, e), NEW t \in Timer, TimerStop(t)
  PROVE  /\ \E w, f : Shape(q', clock', w, f)
         /\ Runs(t, Null) /\ stopping' = stopping \cup {t} /\ UNCHANGED <<period, status, sync>>
<1>1. Becomes(s, t, Null)
  BY StopShape
<1>2. (\E w, f : Shape(q', clock', w, f)) /\ Runs(t, Null)
  BY <1>1, BecomesActive DEF Runs
<1> QED
  BY <1>2 DEF TimerStop

\* Every step keeps the invariant.
LEMMA TimersStep ==
  ASSUME TimersInv, PeriodicLast, TimersNext
  PROVE  TimersInv'
<1>1. PICK s, e : Shape(q, clock, s, e)
  BY DEF TimersInv
<1>2. Types /\ WaiterHasTimer
  BY DEF TimersInv, Types
<1>3. ASSUME Types', WaiterHasTimer', \E w, f : Shape(q', clock', w, f) PROVE TimersInv'
  BY <1>3 DEF TimersInv, Types
<1>4. ASSUME NEW n \in 1 .. MaxAnnounce, TickAnnounce(n) PROVE TimersInv'
  <2>1. StillRuns /\ UNCHANGED <<period, status, sync, stopping>>
    BY <1>4, AnnounceKeeps
  <2>2. \E w, f : Shape(q', clock', w, f)
    BY <1>1, <1>4, AnnounceShape
  <2>3. Types' /\ WaiterHasTimer'
    BY <1>2, <2>1 DEF Types, WaiterHasTimer, StillRuns
  <2> QED
    BY <1>3, <2>2, <2>3
<1>5. ASSUME Dequeue PROVE TimersInv'
  <2>1. StillRuns /\ UNCHANGED <<period, status, sync, stopping>> /\ \E w, f : Shape(q', clock', w, f)
    BY <1>1, <1>5, DequeueKeeps
  <2>2. Types' /\ WaiterHasTimer'
    BY <1>2, <2>1 DEF Types, WaiterHasTimer, StillRuns
  <2> QED
    BY <1>3, <2>1, <2>2
<1>6. ASSUME Handle PROVE TimersInv'
  <2>1. /\ \E w, f : Shape(q', clock', w, f)
        /\ \E t \in Timer :
             /\ Runs(t, IF period[t] = 0 THEN Null ELSE period[t]) /\ IsActive(q, t)
             /\ sync' = Released(t) /\ status' = [status EXCEPT ![t] = TRUE]
             /\ UNCHANGED <<period, stopping>>
    BY <1>1, <1>2, <1>6, HandleKeeps
  <2>2. PICK t \in Timer :
          /\ Runs(t, IF period[t] = 0 THEN Null ELSE period[t])
          /\ sync' = Released(t) /\ status' = [status EXCEPT ![t] = TRUE]
          /\ UNCHANGED <<period, stopping>>
    BY <2>1
  <2>3. /\ sync' \in [Timer -> {"out", "waiting", "woken"}]
        /\ sync'[t] # "waiting" /\ \A u \in Timer \ {t} : sync'[u] = sync[u]
    BY <1>2, <2>2, ReleasedType
  <2>4. \A u \in Timer \ {t} : IsActive(q', u) <=> IsActive(q, u)
    BY <2>2 DEF Runs
  <2>5. WaiterHasTimer'
    BY <1>2, <2>2, <2>3, <2>4 DEF WaiterHasTimer
  <2>6. Types'
    BY <1>2, <2>2, <2>3 DEF Types
  <2> QED
    BY <1>3, <2>1, <2>5, <2>6
<1>7. ASSUME NEW t \in Timer, TimerStop(t) PROVE TimersInv'
  <2>1. /\ \E w, f : Shape(q', clock', w, f)
        /\ Runs(t, Null) /\ stopping' = stopping \cup {t} /\ UNCHANGED <<period, status, sync>>
    BY <1>1, <1>7, StopKeeps
  <2>2. \A u \in Timer \ {t} : IsActive(q', u) <=> IsActive(q, u)
    BY <2>1 DEF Runs
  <2>3. WaiterHasTimer'
    BY <1>2, <2>1, <2>2 DEF WaiterHasTimer
  <2>4. Types'
    BY <1>2, <2>1 DEF Types
  <2> QED
    BY <1>3, <2>1, <2>3, <2>4
<1>8. ASSUME NEW t \in Timer, TimerStopped(t) PROVE TimersInv'
  <2>1. UNCHANGED <<q, clock, period, status>> /\ stopping' = stopping \ {t} /\ sync' = Released(t)
    BY <1>8 DEF TimerStopped
  <2>2. /\ sync' \in [Timer -> {"out", "waiting", "woken"}]
        /\ sync'[t] # "waiting" /\ \A u \in Timer \ {t} : sync'[u] = sync[u]
    BY <1>2, <2>1, ReleasedType
  <2>3. WaiterHasTimer'
    BY <1>2, <2>1, <2>2 DEF WaiterHasTimer
  <2>4. Types'
    BY <1>2, <2>1, <2>2 DEF Types
  <2>5. Shape(q', clock', s, e)
    BY <1>1, <2>1
  <2> QED
    BY <1>3, <2>3, <2>4, <2>5
<1>9. ASSUME NEW t \in Timer, NEW duration \in Duration, NEW ticks \in Period, TimerStart(t, duration, ticks)
      PROVE  TimersInv'
  <2>1. /\ \E w, f : Shape(q', clock', w, f)
        /\ \E n \in Nat : n > 0 /\ Runs(t, n)
        /\ period' = [period EXCEPT ![t] = ticks]
        /\ status' \in [Timer -> BOOLEAN] /\ (sync' = sync \/ sync' = Released(t))
        /\ UNCHANGED stopping
    BY <1>1, <1>2, <1>9, StartKeeps
  <2>2. IsActive(q', t) /\ \A u \in Timer \ {t} : IsActive(q', u) <=> IsActive(q, u)
    BY <2>1, TimersAssumption DEF Runs
  <2>3. sync' \in [Timer -> {"out", "waiting", "woken"}] /\ \A u \in Timer \ {t} : sync'[u] = sync[u]
    BY <1>2, <2>1, ReleasedType DEF Types
  <2>4. WaiterHasTimer'
    BY <1>2, <2>1, <2>2, <2>3 DEF WaiterHasTimer
  <2>5. Types'
    BY <1>2, <2>1, <2>3 DEF Types
  <2> QED
    BY <1>3, <2>1, <2>4, <2>5
<1>10. ASSUME NEW t \in Read, StatusGet(t) \/ StatusSync(t) \/ SyncReturn(t) PROVE TimersInv'
  <2>1. t \in Timer /\ UNCHANGED <<q, clock, period, stopping>>
    BY <1>10, TimersAssumption DEF StatusGet, StatusSync, SyncReturn
  <2>2. status' = status \/ status' = [status EXCEPT ![t] = FALSE]
    BY <1>10 DEF StatusGet, StatusSync, SyncReturn
  <2>3. \/ sync' = sync
        \/ sync' = [sync EXCEPT ![t] = "waiting"] /\ IsActive(q, t)
        \/ sync' = [sync EXCEPT ![t] = "out"]
    BY <1>10 DEF StatusGet, StatusSync, SyncReturn, MustWait
  <2>4. Types'
    BY <1>2, <2>1, <2>2, <2>3 DEF Types
  <2>5. \A u \in Timer : sync'[u] = "waiting" => sync[u] = "waiting" \/ IsActive(q, u)
    BY <1>2, <2>1, <2>3 DEF Types
  <2>6. WaiterHasTimer'
    BY <1>2, <2>1, <2>5 DEF WaiterHasTimer
  <2>7. Shape(q', clock', s, e)
    BY <1>1, <2>1
  <2> QED
    BY <1>3, <2>4, <2>6, <2>7
<1> QED
  BY <1>4, <1>5, <1>6, <1>7, <1>8, <1>9, <1>10 DEF TimersNext

\* The timeout queue, the expired list of handle_timeouts() and the timers keep
\* the invariant as long as the clock interrupt handles a periodic timer last.
THEOREM TimersInvariant == TimersSpec /\ []PeriodicLast => []TimersInv
<1>1. TimersInit => TimersInv
  BY TimersStart
<1>2. TimersInv /\ PeriodicLast /\ [TimersNext]_timerVars => TimersInv'
  <2>1. ASSUME TimersInv, UNCHANGED timerVars PROVE TimersInv'
    BY <2>1 DEF TimersInv, timerVars, WaiterHasTimer
  <2> QED
    BY <2>1, TimersStep
<1> QED
  BY <1>1, <1>2, PTL DEF TimersSpec

\* The invariant implies the type invariant.
LEMMA TypesFromInv == TimersInv => TimersTypeOK
<1> SUFFICES ASSUME TimersInv PROVE TimersTypeOK
  OBVIOUS
<1>1. PICK s, e : Shape(q, clock, s, e)
  BY DEF TimersInv
<1>2. QueueOk(q, s) /\ q \in TimeoutQState /\ s \in Seq(Timer)
  BY <1>1, ShapeFacts
<1>3. clock \in [phase: {"off", "dequeue", "handle"}, at: Node \cup {Null}, ticks: Nat]
  <2>1. CASE Resting(q, clock, s)
    BY <2>1 DEF Resting, ClockOff
  <2>2. CASE Dequeuing(q, clock, s, e)
    <3>1. /\ s # <<>> /\ clock.at = s[1] /\ clock.ticks \in Nat
          /\ clock = [phase |-> "dequeue", at |-> clock.at, ticks |-> clock.ticks]
      BY <2>2 DEF Dequeuing
    <3>2. s[1] \in Node
      <4>1. 1 \in 1 .. Len(s)
        BY <1>2, <3>1
      <4> QED
        BY <1>2, <4>1 DEF Node
    <3> QED
      BY <3>1, <3>2
  <2>3. CASE Handling(q, clock, s, e)
    <3>1. PICK i \in 1 .. Len(e) :
            clock = [phase |-> "handle", at |-> e[i], ticks |-> 0] /\ ExpiredFrom(q, s, e, i)
      BY <2>3 DEF Handling
    <3>2. e[i] \in Node
      BY <3>1 DEF ExpiredFrom, Distinct, Node
    <3> QED
      BY <3>1, <3>2
  <2> QED
    BY <1>1, <2>1, <2>2, <2>3 DEF Shape
<1> QED
  BY <1>2, <1>3 DEF TimersInv, TimersTypeOK

\* The invariant says what the interrupt handles.
LEMMA HandlesFromInv == TimersInv => HandlesOnlyExpired
<1> SUFFICES ASSUME TimersInv, clock.phase = "handle"
             PROVE  clock.at \in Timer /\ q.delta[clock.at] = EXPIRED
  BY DEF HandlesOnlyExpired
<1>1. PICK s, e : Shape(q, clock, s, e)
  BY DEF TimersInv
<1>2. Handling(q, clock, s, e)
  BY <1>1, ShapeFacts
<1>3. PICK i \in 1 .. Len(e) :
        clock = [phase |-> "handle", at |-> e[i], ticks |-> 0] /\ ExpiredFrom(q, s, e, i)
  BY <1>2 DEF Handling
<1>4. ~(i < i) /\ e[i] \in Timer
  BY <1>3 DEF ExpiredFrom, Distinct
<1> QED
  BY <1>3, <1>4 DEF ExpiredFrom

\* Type correctness, under the same condition: handle_timeouts() never goes on
\* with a negative number of ticks, and what it looks at is a node.
THEOREM TimersTypeCorrect == TimersSpec /\ []PeriodicLast => []TimersTypeOK
  BY TimersInvariant, TypesFromInv, PTL

\* Nobody waits in k_timer_status_sync() for a timer that neither runs, nor has
\* expired and is to be handled, nor is being stopped by a k_timer_stop() that
\* will release the user.
THEOREM WaitersHaveTimers == TimersSpec /\ []PeriodicLast => []WaiterHasTimer
<1>1. TimersInv => WaiterHasTimer
  BY DEF TimersInv
<1> QED
  BY <1>1, TimersInvariant, PTL

\* What handle_timeouts() handles are timeouts that have expired, as its comment
\* says: the walk over the local list never leaves it.
THEOREM HandledHaveExpired == TimersSpec /\ []PeriodicLast => []HandlesOnlyExpired
  BY TimersInvariant, HandlesFromInv, PTL

-----------------------------------------------------------------------------
(***************************************************************************)
(* The delta list keeps the deadlines.                                     *)
(***************************************************************************)

\* Between two interrupts nothing is due.
LEMMA NothingDue ==
  ASSUME NEW x, NEW c, NEW s, NEW e, Shape(x, c, s, e), Resting(x, c, s)
  PROVE  \A t \in Timer : TicksLeft(x, c, s)[t] # 0 /\ TicksLeft(x, c, s)[t] \in Int \cup {Null}
<1>1. QueueOk(x, s)
  BY DEF Shape
<1>2. /\ \A t \in ToSet(s) : Until(x, s, t) \in Int /\ Until(x, s, t) > 0
      /\ TicksLeft(x, c, s) = [t \in Timer |-> IF t \in ToSet(s) THEN Until(x, s, t) ELSE Null]
  BY <1>1, RestingTicks
<1> QED
  BY <1>2, TimersAssumption

\* A step that gives t the ticks n, in the abstract state.
LEMMA BecomesLeft ==
  ASSUME NEW s, NEW e, Shape(q, clock, s, e), NEW t \in Timer, NEW n, Becomes(s, t, n)
  PROVE  Left' = [Left EXCEPT ![t] = n] /\ Left'[t] = n
<1>1. PICK w, f : /\ Shape(q', clock', w, f)
                  /\ TicksLeft(q', clock', w) = [TicksLeft(q, clock, s) EXCEPT ![t] = n]
  BY DEF Becomes
<1>2. Left = TicksLeft(q, clock, s) /\ Left' = TicksLeft(q', clock', w)
  BY <1>1, LeftNow, LeftNext
<1>3. t \in DOMAIN Left
  BY <1>2 DEF TicksLeft
<1> QED
  BY <1>1, <1>2, <1>3

\* An announcement lets the ticks elapse.
LEMMA AnnounceRefines ==
  ASSUME NEW s, NEW e, Shape(q, clock, s, e), NEW n \in 1 .. MaxAnnounce, TickAnnounce(n)
  PROVE  Deadlines!Elapse(n)
<1>1. /\ Resting(q, clock, s) /\ Shape(q', clock', s, <<>>)
      /\ TicksLeft(q', clock', s) =
           [t \in Timer |-> IF TicksLeft(q, clock, s)[t] = Null THEN Null
                            ELSE NotBelowZero(TicksLeft(q, clock, s)[t] - n)]
  BY AnnounceShape
<1>2. Left = TicksLeft(q, clock, s) /\ Left' = TicksLeft(q', clock', s)
  BY <1>1, LeftNow, LeftNext
<1>3. \A t \in Timer : Left[t] \in Int \cup {Null}
  BY <1>1, <1>2, NothingDue
<1>4. Left' = [t \in Timer |-> IF Left[t] = Null THEN Null ELSE NotBelowZero(Left[t] - n)]
  BY <1>1, <1>2
<1>5. ASSUME NEW t \in Timer, Left[t] # Null
      PROVE  NotBelowZero(Left[t] - n) = IF Left[t] < n THEN 0 ELSE Left[t] - n
  <2>1. Left[t] \in Int /\ n \in Int
    BY <1>3, <1>5
  <2>2. PICK l : l = Left[t]
    OBVIOUS
  <2>3. NotBelowZero(l - n) = IF l < n THEN 0 ELSE l - n
    BY <2>1, <2>2 DEF NotBelowZero
  <2> QED
    BY <2>2, <2>3
<1>6. Left' = [t \in Timer |-> IF Left[t] = Null THEN Null ELSE IF Left[t] < n THEN 0 ELSE Left[t] - n]
  BY <1>4, <1>5
<1>7. period' = period /\ AtThreadLevel /\ ~AtThreadLevel'
  BY DEF TickAnnounce, AtThreadLevel
<1> QED
  BY <1>6, <1>7 DEF Deadlines!Elapse

\* Consuming ticks changes no deadline, and the interrupt ends there if none is due.
LEMMA DequeueRefines ==
  ASSUME NEW s, NEW e, Shape(q, clock, s, e), Dequeue
  PROVE  Deadlines!Served \/ UNCHANGED Deadlines!vars
<1>1. PICK w, f : Shape(q', clock', w, f) /\ TicksLeft(q', clock', w) = TicksLeft(q, clock, s)
  BY DequeueShape
<1>2. Left' = TicksLeft(q', clock', w) /\ Left' = Left
  BY <1>1, LeftNow, LeftNext
<1>3. period' = period /\ ~AtThreadLevel
  BY DEF Dequeue, AtThreadLevel
<1>4. CASE AtThreadLevel'
  <2>1. Resting(q', clock', w)
    BY <1>1, <1>4, ShapeFacts DEF AtThreadLevel
  <2>2. \A t \in Timer : Left[t] # 0
    BY <1>1, <1>2, <2>1, NothingDue
  <2>3. Deadlines!Due = {}
    BY <2>2 DEF Deadlines!Due
  <2> QED
    BY <1>2, <1>3, <1>4, <2>3 DEF Deadlines!Served
<1>5. CASE ~AtThreadLevel'
  BY <1>2, <1>3, <1>5 DEF Deadlines!vars
<1> QED
  BY <1>4, <1>5

\* Handling a timeout is its expiry, and the interrupt ends with the last.
LEMMA HandleRefines ==
  ASSUME NEW s, NEW e, Shape(q, clock, s, e), PeriodicLast, period \in [Timer -> Period], Handle
  PROVE  \E t \in Timer : Deadlines!Expire(t)
<1>1. PICK t \in Timer :
        /\ TicksLeft(q, clock, s)[t] = 0
        /\ Becomes(s, t, IF period[t] = 0 THEN Null ELSE period[t])
  BY HandleShape
<1>2. PICK n : n = IF period[t] = 0 THEN Null ELSE period[t]
  OBVIOUS
<1>3. Left' = [Left EXCEPT ![t] = n]
  BY <1>1, <1>2, BecomesLeft
<1>4. t \in Deadlines!Due
  BY <1>1, LeftNow DEF Deadlines!Due
<1>5. period' = period /\ ~AtThreadLevel
  BY DEF Handle, AtThreadLevel
<1>6. AtThreadLevel' => Deadlines!Due' = {}
  <2> SUFFICES ASSUME AtThreadLevel' PROVE Deadlines!Due' = {}
    OBVIOUS
  <2>1. PICK w, f : Shape(q', clock', w, f)
    BY <1>1 DEF Becomes
  <2>2. Resting(q', clock', w) /\ Left' = TicksLeft(q', clock', w)
    BY <2>1, ShapeFacts, LeftNext DEF AtThreadLevel
  <2>3. \A u \in Timer : Left'[u] # 0
    BY <2>1, <2>2, NothingDue
  <2> QED
    BY <2>3 DEF Deadlines!Due
<1>7. Deadlines!Expire(t)
  BY <1>2, <1>3, <1>4, <1>5, <1>6 DEF Deadlines!Expire
<1> QED
  BY <1>7

\* k_timer_stop() of a running timer.
LEMMA StopRefines ==
  ASSUME NEW s, NEW e, Shape(q, clock, s, e), NEW t \in Timer, TimerStop(t)
  PROVE  Deadlines!Stop(t)
<1>1. Becomes(s, t, Null)
  BY StopShape
<1>2. Left' = [Left EXCEPT ![t] = Null]
  BY <1>1, BecomesLeft
<1>3. Left[t] # Null
  <2>1. IsActive(q, t)
    BY DEF TimerStop
  <2> QED
    BY <2>1, ActiveHasTicks, LeftNow
<1>4. AtThreadLevel /\ UNCHANGED <<period, clock>>
  BY DEF TimerStop
<1>5. AtThreadLevel' <=> AtThreadLevel
  BY <1>4 DEF AtThreadLevel
<1> QED
  BY <1>2, <1>3, <1>4, <1>5 DEF Deadlines!Stop

\* k_timer_start() gives the timer its duration or, without one, its period.
LEMMA StartRefines ==
  ASSUME NEW s, NEW e, Shape(q, clock, s, e),
         NEW t \in Timer, NEW duration \in Duration, NEW ticks \in Period, TimerStart(t, duration, ticks)
  PROVE  Deadlines!Start(t, duration, ticks)
<1>1. PICK n \in Nat : n = (IF duration > 0 THEN duration ELSE ticks) /\ Becomes(s, t, n)
  BY StartShape
<1>2. Left' = [Left EXCEPT ![t] = IF duration > 0 THEN duration ELSE ticks]
  <2>1. Left' = [Left EXCEPT ![t] = n]
    BY <1>1, BecomesLeft
  <2> QED
    BY <1>1, <2>1
<1>3. /\ AtThreadLevel /\ UNCHANGED clock
      /\ duration + ticks > 0 /\ period' = [period EXCEPT ![t] = ticks]
  BY DEF TimerStart
<1>4. AtThreadLevel' <=> AtThreadLevel
  BY <1>3 DEF AtThreadLevel
<1> QED
  BY <1>2, <1>3, <1>4 DEF Deadlines!Start

\* Every step is an abstract step or changes nothing there.
LEMMA TimersRefine ==
  ASSUME TimersInv, PeriodicLast, TimersNext
  PROVE  [Deadlines!Next]_Deadlines!vars
<1>1. PICK s, e : Shape(q, clock, s, e)
  BY DEF TimersInv
<1>2. period \in [Timer -> Period]
  BY DEF TimersInv, Types
<1>3. ASSUME NEW n \in 1 .. MaxAnnounce, TickAnnounce(n) PROVE Deadlines!Next
  BY <1>1, <1>3, AnnounceRefines DEF Deadlines!Next
<1>4. ASSUME Dequeue PROVE Deadlines!Next \/ UNCHANGED Deadlines!vars
  BY <1>1, <1>4, DequeueRefines DEF Deadlines!Next
<1>5. ASSUME Handle PROVE Deadlines!Next
  BY <1>1, <1>2, <1>5, HandleRefines DEF Deadlines!Next
<1>6. ASSUME NEW t \in Timer, TimerStop(t) PROVE Deadlines!Next
  BY <1>1, <1>6, StopRefines DEF Deadlines!Next
<1>7. ASSUME NEW t \in Timer, NEW duration \in Duration, NEW ticks \in Period, TimerStart(t, duration, ticks)
      PROVE  Deadlines!Next
  BY <1>1, <1>7, StartRefines DEF Deadlines!Next
<1>8. ASSUME UNCHANGED <<q, clock, period>> PROVE UNCHANGED Deadlines!vars
  BY <1>8 DEF Left, AtThreadLevel, Deadlines!vars
<1>9. ASSUME NEW t \in Timer, TimerStopped(t) PROVE UNCHANGED Deadlines!vars
  BY <1>8, <1>9 DEF TimerStopped
<1>10. ASSUME NEW t \in Read, StatusGet(t) \/ StatusSync(t) \/ SyncReturn(t)
       PROVE  UNCHANGED Deadlines!vars
  BY <1>8, <1>10 DEF StatusGet, StatusSync, SyncReturn
<1> QED
  BY <1>3, <1>4, <1>5, <1>6, <1>7, <1>9, <1>10 DEF TimersNext

\* The initial states map to initial states.
LEMMA RefinesStart == TimersInit => Deadlines!Init
<1> SUFFICES ASSUME TimersInit PROVE Deadlines!Init
  OBVIOUS
<1>1. TimersInv
  BY TimersStart
<1>2. PICK s, e : Shape(q, clock, s, e)
  BY <1>1 DEF TimersInv
<1>3. \A t \in Timer : ~IsActive(q, t)
  BY DEF TimersInit, EmptyQueue, IsActive
<1>4. Left = [t \in Timer |-> Null]
  BY <1>2, <1>3, LeftNow DEF TicksLeft
<1>5. period \in [Timer -> Period] /\ AtThreadLevel
  BY TimersAssumption DEF TimersInit, AtThreadLevel, ClockOff
<1> QED
  BY <1>4, <1>5 DEF Deadlines!Init

\* _add_timeout(), _abort_timeout() and handle_timeouts() implement the abstract
\* timers: a timer expires in the announcement that covers the duration it was
\* started with, then every period, whatever is started and stopped around it,
\* as long as a periodic timer is handled last.
THEOREM DeadlinesAreKept == TimersSpec /\ []PeriodicLast => KeepsDeadlines
<1>1. TimersInit => Deadlines!Init
  BY RefinesStart
<1>2. TimersInv /\ PeriodicLast /\ [TimersNext]_timerVars => [Deadlines!Next]_Deadlines!vars
  <2>1. ASSUME TimersInv, UNCHANGED timerVars PROVE UNCHANGED Deadlines!vars
    BY <2>1 DEF timerVars, Left, AtThreadLevel, Deadlines!vars
  <2> QED
    BY <2>1, TimersRefine
<1> QED
  BY <1>1, <1>2, TimersInvariant, PTL DEF TimersSpec, KeepsDeadlines, Deadlines!Spec
=============================================================================
