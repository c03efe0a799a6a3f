--------------------------- MODULE StreamAbstract ---------------------------
(***************************************************************************)
(* What a pipe promises its users: a stream of bytes with room for size of *)
(* them.  Every byte goes from its writer to one reader, through the       *)
(* stream or, past an empty stream, directly, in the order in which the    *)
(* writers' bytes were accepted; those of one writer keep theirs.  Bytes   *)
(* move only between calls in progress.  A call ends when nothing is left  *)
(* to do, or gives up what is: no more than it said it might, and none of  *)
(* the bytes that were accepted.                                           *)
(***************************************************************************)
EXTENDS Naturals, Sequences, SequencesExt

CONSTANTS Writer, Reader, MaxXfer       \* every reader may write too

VARIABLES
  size, stream,
  busy,         \* the writers and readers whose call is in progress
  left,         \* left[w]: the bytes w has still to write
  want,         \* want[r]: how many bytes r has still to read
  slack         \* slack[c]: how many bytes the call of c may leave undone

vars == <<size, stream, busy, left, want, slack>>

Rest(s, n) == SubSeq(s, n + 1, Len(s))

Init ==
  /\ size \in Nat /\ stream = <<>> /\ busy = {}
  /\ left = [w \in Writer |-> <<>>] /\ want = [r \in Reader |-> 0]
  /\ slack = [c \in Writer |-> 0]

Begin(c, n) ==
  /\ c \notin busy /\ busy' = busy \cup {c}
  /\ slack'[c] \in 0 .. n /\ slack' = [slack EXCEPT ![c] = slack'[c]]

Write(w, n) ==
  /\ Begin(w, n) /\ left' = [left EXCEPT ![w] = [i \in 1 .. n |-> i]]
  /\ UNCHANGED <<stream, want>>

\* A read of n bytes begins with m that are there.
Read(r, n, m) ==
  /\ Begin(r, n)
  /\ m <= Len(stream) /\ stream' = Rest(stream, m)
  /\ want' = [want EXCEPT ![r] = n - m]
  /\ UNCHANGED left

\* How much c has still to do.
Undone(c) == Len(left[c]) + (IF c \in Reader THEN want[c] ELSE 0)

\* Calls may end with their last byte, and only then.
Go ==
  /\ busy' \subseteq busy /\ \A c \in busy \ busy' : Undone(c)' = 0
  /\ slack' = [c \in Writer |-> IF c \in busy' THEN slack[c] ELSE 0]

Accept(w, n) ==
  /\ w \in busy /\ Len(stream) + n <= size
  /\ stream' = stream \o SubSeq(left[w], 1, n)
  /\ left' = [left EXCEPT ![w] = Rest(@, n)]
  /\ UNCHANGED want /\ Go

Pass(w, r, n) ==
  /\ {w, r} \subseteq busy /\ w # r /\ stream = <<>> /\ n <= want[r]
  /\ left' = [left EXCEPT ![w] = Rest(@, n)]
  /\ want' = [want EXCEPT ![r] = @ - n]
  /\ UNCHANGED stream /\ Go

\* The call of c ends and gives up what is left.
End(c) ==
  /\ c \in busy /\ Undone(c) <= slack[c]
  /\ busy' = busy \ {c} /\ slack' = [slack EXCEPT ![c] = 0]
  /\ left' = [left EXCEPT ![c] = <<>>]
  /\ want' = [r \in Reader |-> IF r = c THEN 0 ELSE want[r]]
  /\ UNCHANGED stream

Next ==
  /\ \/ \E w \in Writer, n \in 1 .. MaxXfer : Write(w, n)
     \/ \E r \in Reader, n \in 1 .. MaxXfer : \E m \in 0 .. n : Read(r, n, m)
     \/ \E w \in Writer : \E n \in 1 .. Len(left[w]) :
          Accept(w, n) \/ \E r \in Reader : Pass(w, r, n)
     \/ \E c \in Writer : End(c)
  /\ UNCHANGED size

Spec == Init /\ [][Next]_vars
=============================================================================
