------------------------------ MODULE TimeoutQ ------------------------------
(***************************************************************************)
(* The queue of running timeouts, _timeout_q: kernel/include/timeout_q.h   *)
(* on the lists of DList.  Each timeout holds the ticks between its        *)
(* predecessor's expiry and its own.  As in Kernel the C functions are     *)
(* operators, here from a record q to a record q.                          *)
(***************************************************************************)
EXTENDS Integers, Sequences, SequencesExt, DList

CONSTANTS
  Timer,        \* the timeouts: here each belongs to a timer
  Queue,        \* the head of _timeout_q
  Expired       \* the head of handle_timeouts()'s local list

ASSUME TimeoutQAssumption ==
  /\ IsFiniteSet(Timer)
  /\ Queue \notin Timer /\ Expired \notin Timer /\ Queue # Expired
  /\ Null \notin Timer \cup {Queue, Expired}

Node == Timer \cup {Queue, Expired}

INACTIVE == -1
EXPIRED == -2

\* delta is delta_ticks_from_prev.
TimeoutQState == [next: [Node -> Node], prev: [Node -> Node], delta: [Timer -> Int]]

EmptyQueue ==
  [next |-> Rings(Node).next, prev |-> Rings(Node).prev, delta |-> [t \in Timer |-> INACTIVE]]

-----------------------------------------------------------------------------

\* The ticks before the i-th timeout of the list s expires.
TicksUpTo(q, s, i) ==
  LET sum[j \in 0 .. Len(s)] == IF j = 0 THEN 0 ELSE sum[j - 1] + q.delta[s[j]]
  IN  sum[i]

\* Mutant: forget to take the new delta off the successor's.
AddTimeoutUnadjusted(q, t, ticks) ==
  LET s     == Linked(q, Queue)
      later == {i \in 1 .. Len(s) : ticks <= TicksUpTo(q, s, i)}
      at    == IF later = {} THEN Len(s) + 1 ELSE CHOOSE i \in later : \A j \in later : i <= j
      own   == ticks - TicksUpTo(q, s, at - 1)
  IN  InsertBefore([q EXCEPT !.delta[t] = own], IF later = {} THEN Queue ELSE s[at], t)

\* _add_timeout() for at least one tick: before the first timeout that does
\* not expire earlier.
AddTimeout(q, t, ticks) ==
  LET s     == Linked(q, Queue)
      later == {i \in 1 .. Len(s) : ticks <= TicksUpTo(q, s, i)}
      at    == IF later = {} THEN Len(s) + 1 ELSE CHOOSE i \in later : \A j \in later : i <= j
      own   == ticks - TicksUpTo(q, s, at - 1)
      added == [q EXCEPT !.delta[t] = own]
  IN  IF later = {} THEN InsertBefore(added, Queue, t)
      ELSE InsertBefore([added EXCEPT !.delta[s[at]] = @ - own], s[at], t)

IsActive(q, t) == q.delta[t] # INACTIVE

\* _abort_timeout() of an active timeout: its successor waits for its ticks too.
AbortTimeout(q, t) ==
  LET next == q.next[t]
      kept == IF t = q.prev[Queue] THEN q
              ELSE [q EXCEPT !.delta[next] = @ + q.delta[t]]
  IN  Forget([Unlink(kept, t) EXCEPT !.delta[t] = INACTIVE], {t})
=============================================================================
