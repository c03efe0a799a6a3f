--------------------------- MODULE ChannelAbstract ---------------------------
(***************************************************************************)
(* What an object that passes data promises its users: a bounded buffer    *)
(* that neither loses nor doubles an item and never keeps one from a       *)
(* thread that waits.  Threads that wait are outside the buffer: a writer  *)
(* with its item, a reader with none.  The order is "fifo", "lifo", or     *)
(* "any": items may be put in anywhere and taken out again.  Unique items  *)
(* are things (nodes, blocks): what is put in is not in it already.        *)
(***************************************************************************)
EXTENDS Naturals, Sequences, SequencesExt

CONSTANTS Thread, Item, NoItem

VARIABLES
  buf,          \* the items in the buffer, the next one to be got first
  status,       \* status[t]: what t does, and an item with it
  rule          \* the buffer's order and capacity, and whether its items are unique

Doing(what) == {t \in Thread : status[t].what = what}

Become(t, what, item) == status' = [status EXCEPT ![t] = [what |-> what, item |-> item]]

Full == Len(buf) = rule.capacity

Init ==
  /\ rule \in [order: {"fifo", "lifo", "any"}, capacity: Nat, unique: BOOLEAN]
  /\ Len(buf) <= rule.capacity
  /\ status = [t \in Thread |-> [what |-> "out", item |-> NoItem]]

Place == CASE rule.order = "fifo" -> {Len(buf) + 1}
           [] rule.order = "lifo" -> {1}
           [] rule.order = "any"  -> 1 .. Len(buf) + 1

Fresh(m) ==
  /\ m \in Item
  /\ rule.unique => m \notin ToSet(buf) /\ \A t \in Thread : status[t].item # m

Put ==
  /\ Len(buf') = Len(buf) + 1 /\ Len(buf') <= rule.capacity
  /\ \E i \in Place : RemoveAt(buf', i) = buf /\ Fresh(buf'[i])
  /\ Doing("reading") = {} /\ UNCHANGED status

\* To a waiting reader an item goes directly: only past an empty buffer.
PutThrough ==
  /\ buf = <<>> /\ UNCHANGED buf
  /\ \E t \in Doing("reading"), m \in Item : Fresh(m) /\ Become(t, "got", m)

\* Two items at once, first m and then n: the readers there are get the first
\* ones, and what is left is put behind the items in the buffer.
PutTwo(m, n) ==
  /\ rule.order = "any" /\ Fresh(m) /\ Fresh(n) /\ m # n
  /\ \/ Doing("reading") = {} /\ buf' = buf \o <<m, n>> /\ UNCHANGED status
     \/ /\ buf = <<>> /\ buf' = <<n>>
        /\ \E t \in Thread : Doing("reading") = {t} /\ Become(t, "got", m)
     \/ /\ buf = <<>> /\ UNCHANGED buf
        /\ \E t, u \in Doing("reading") :
             t # u /\ status' = [status EXCEPT ![t] = [what |-> "got", item |-> m],
                                               ![u] = [what |-> "got", item |-> n]]

PutList == \E m, n \in Item : PutTwo(m, n)

Get ==
  buf # <<>> /\ Doing("writing") = {} /\ buf' = Tail(buf) /\ UNCHANGED status

\* What a reader takes makes room for one waiting writer's item.
GetAndRefill ==
  /\ Full
  /\ \E t \in Doing("writing") :
       buf' = Append(Tail(buf), status[t].item) /\ Become(t, "written", NoItem)

TakeOut ==
  /\ rule.order = "any"
  /\ Len(buf) = Len(buf') + 1
  /\ \E i \in 1 .. Len(buf) : buf' = RemoveAt(buf, i)
  /\ UNCHANGED status

Purge ==
  /\ buf' = <<>>
  /\ status' = [t \in Thread |-> IF t \in Doing("reading") \cup Doing("writing")
                                   THEN [what |-> "failed", item |-> NoItem] ELSE status[t]]

\* A thread waits only while it must, and a wait ends once: with its item
\* passed on, or without.  It returns, or it is aborted.
Step(t) ==
  /\ \/ t \in Doing("out") /\ buf = <<>> /\ Become(t, "reading", NoItem)
     \/ t \in Doing("out") /\ Full /\ \E m \in Item : Become(t, "writing", m)
     \/ t \in Doing("reading") \cup Doing("writing") /\ Become(t, "failed", NoItem)
     \/ t \notin Doing("out") /\ Become(t, "out", NoItem)
  /\ UNCHANGED buf

\* Every step shows.
Next ==
  /\ <<buf, status>>' # <<buf, status>>
  /\ \/ Put \/ PutThrough \/ PutList \/ Get \/ GetAndRefill \/ TakeOut \/ Purge
     \/ \E t \in Thread : Step(t)
  /\ UNCHANGED rule

Spec == Init /\ [][Next]_<<buf, status, rule>>
=============================================================================
