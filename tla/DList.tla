------------------------------- MODULE DList -------------------------------
(***************************************************************************)
(* Doubly linked lists: include/misc/dlist.h.  The lists are kept as the   *)
(* code keeps them, in the next and prev pointers of a record d: a list    *)
(* head is a node of its own ring, unlinking a node does not clear its     *)
(* pointers, and a node linked into one list still stands in the way of    *)
(* whoever walks another.                                                  *)
(***************************************************************************)
EXTENDS Naturals, FiniteSets

CONSTANT Null   \* the null pointer

Rings(nodes) == [next |-> [n \in nodes |-> n], prev |-> [n \in nodes |-> n]]

PeekHead(d, list) == IF d.next[list] = list THEN Null ELSE d.next[list]

PeekNext(d, list, n) == IF n = d.prev[list] THEN Null ELSE d.next[n]

\* Inserting before the list head is appending.
InsertBefore(d, at, n) ==
  [d EXCEPT !.next = [@ EXCEPT ![n] = at, ![d.prev[at]] = n],
            !.prev = [@ EXCEPT ![n] = d.prev[at], ![at] = n]]

Prepend(d, list, n) == InsertBefore(d, d.next[list], n)

\* sys_dlist_remove().  The node keeps its pointers.
Unlink(d, n) ==
  [d EXCEPT !.next[d.prev[n]] = d.next[n], !.prev[d.next[n]] = d.prev[n]]

\* The nodes in are in no list, or their list has gone out of scope, and their
\* pointers are written before they are read again: any value stands for what
\* is there.
Forget(d, in) ==
  [d EXCEPT !.next = [n \in DOMAIN @ |-> IF n \in in THEN n ELSE @[n]],
            !.prev = [n \in DOMAIN @ |-> IF n \in in THEN n ELSE @[n]]]

\* The nodes a walk over the list visits.
Linked(d, list) ==
  LET most == Cardinality(DOMAIN d.next)
      visit[i \in 0 .. most] ==
        IF i = 0 THEN list
        ELSE IF i > 1 /\ visit[i - 1] = list THEN list ELSE d.next[visit[i - 1]]
      linked == {i \in 1 .. most : visit[i] # list}
  IN  [i \in 1 .. Cardinality(linked) |-> visit[i]]
=============================================================================
