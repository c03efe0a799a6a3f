-------------------------------- MODULE Poll --------------------------------
(***************************************************************************)
(* Polling: kernel/poll.c, with the objects that can be polled.  An object *)
(* is met or not: a semaphore that has a unit, a queue that is not empty,  *)
(* a signal that is signaled.  A thread polls with one k_poll_event for    *)
(* each object; k_poll() locks interrupts for one event at a time, so that *)
(* anything may happen to the objects between its steps.                   *)
(***************************************************************************)
EXTENDS Sched, DList

CONSTANTS
  Poller,       \* the threads that call k_poll()
  Polled,       \* the objects
  PollQ         \* stands for the wait queue each k_poll() has on its stack

ASSUME PollAssumption ==
  /\ Poller \subseteq Thread /\ IsFiniteSet(Poller) /\ IsFiniteSet(Polled) /\ PollQ \in WaitQ
  /\ Polled \cap (Poller \X Polled) = {} /\ Null \notin Polled \cup (Poller \X Polled)

Event == Poller \X Polled

VARIABLES
  met,          \* the objects whose condition is met
  lists,        \* the lists poll_events of the objects
  registered,   \* the events whose poller is not null
  ready,        \* the events whose state is not K_POLL_STATE_NOT_READY
  poll          \* poll[t]: the progress of t's k_poll()

pollVars == <<met, lists, registered, ready, poll>>

\* Mutant: last_registered starts at 0.
NotPollingZero ==
  [pc |-> "out", objects |-> <<>>, nowait |-> FALSE, i |-> 0, last |-> 1, polling |-> FALSE]

\* The locals of k_poll(): the objects of its events, whether it is called
\* with K_NO_WAIT, the number of events looked at, last_registered + 1, and
\* poller.is_polling.
NotPolling ==
  [pc |-> "out", objects |-> <<>>, nowait |-> FALSE, i |-> 0, last |-> 0, polling |-> FALSE]

PollInit ==
  /\ Init
  /\ met = {} /\ registered = {} /\ ready = {}
  /\ lists = Rings(Polled \cup Event)
  /\ poll = [t \in Poller |-> NotPolling]

EventsOf(t) == {<<t, o>> : o \in ToSet(poll[t].objects)}

-----------------------------------------------------------------------------
\* Mutant: the node before the event is not linked to it.
AddEventUnreached(e) ==
  [lists EXCEPT !.next[e] = e[2], !.prev = [@ EXCEPT ![e] = lists.prev[e[2]], ![e[2]] = e]]

\* add_event(): behind the pollers that do not have a lower priority.
AddEvent(e) ==
  LET s     == Linked(lists, e[2])
      lower == {i \in 1 .. Len(s) : k.prio[e[1]] < k.prio[s[i][1]]}
  IN  InsertBefore(lists, IF lower = {} THEN e[2] ELSE s[Min(lower)], e)

PollStart(t, objects, nowait) ==
  /\ Running(t) /\ poll[t].pc = "out"
  /\ poll' = [poll EXCEPT ![t] = [NotPolling EXCEPT !.pc = "scan", !.objects = objects,
                                                    !.nowait = nowait, !.polling = TRUE]]
  /\ ready' = ready \ {<<t, o>> : o \in Polled}
  /\ UNCHANGED <<k, met, lists, registered>>

\* Mutant: register without looking at the condition.
PollScanBlind(t) ==
  LET p == poll[t]
      e == <<t, p.objects[p.i + 1]>>
  IN  /\ Running(t) /\ p.pc = "scan" /\ p.i < Len(p.objects) /\ p.polling
      /\ lists' = AddEvent(e) /\ registered' = registered \cup {e}
      /\ poll' = [poll EXCEPT ![t].i = @ + 1, ![t].last = @ + 1]
      /\ UNCHANGED <<k, met, ready>>

\* One event: its condition is met, it is registered, or there is no need to.
PollScan(t) ==
  LET p == poll[t]
      o == p.objects[p.i + 1]
      e == <<t, o>>
  IN  /\ Running(t) /\ p.pc = "scan" /\ p.i < Len(p.objects)
      /\ \/ /\ o \in met
            /\ ready' = ready \cup {e} /\ registered' = registered \ {e}
            /\ poll' = [poll EXCEPT ![t].i = @ + 1, ![t].polling = FALSE]
            /\ UNCHANGED lists
         \/ /\ o \notin met /\ p.polling /\ ~p.nowait
            /\ lists' = AddEvent(e) /\ registered' = registered \cup {e}
            /\ poll' = [poll EXCEPT ![t].i = @ + 1, ![t].last = @ + 1]
            /\ UNCHANGED ready
         \/ /\ o \notin met /\ (~p.polling \/ p.nowait)
            /\ poll' = [poll EXCEPT ![t].i = @ + 1]
            /\ UNCHANGED <<lists, registered, ready>>
      /\ UNCHANGED <<k, met>>

\* One round of clear_event_registrations(), the last one included.
Clear(t, pc) ==
  LET p == poll[t]
      e == <<t, p.objects[p.last]>>
  IN  IF p.last = 0
        THEN poll' = [poll EXCEPT ![t] = NotPolling] /\ UNCHANGED <<lists, registered>>
        ELSE /\ lists' = Unlink(lists, e) /\ registered' = registered \ {e}
             /\ poll' = [poll EXCEPT ![t] = IF p.last = 1 THEN NotPolling
                                            ELSE [p EXCEPT !.pc = pc, !.last = @ - 1]]

\* Mutant: return at once when a condition is met.
PollDecideAtOnce(t, forever) ==
  /\ Running(t) /\ poll[t].pc = "scan" /\ poll[t].i = Len(poll[t].objects)
  /\ IF poll[t].polling
       THEN /\ k' = PendCurrent(k, PollQ, forever)
            /\ poll' = [poll EXCEPT ![t].pc = "waiting", ![t].polling = FALSE]
       ELSE poll' = [poll EXCEPT ![t] = NotPolling] /\ UNCHANGED k
  /\ UNCHANGED <<met, lists, registered, ready>>

\* All events have been looked at: return, or wait.
PollDecide(t, forever) ==
  /\ Running(t) /\ poll[t].pc = "scan" /\ poll[t].i = Len(poll[t].objects)
  /\ IF poll[t].polling /\ ~poll[t].nowait
       THEN /\ k' = PendCurrent(k, PollQ, forever)
            /\ poll' = [poll EXCEPT ![t].pc = "waiting", ![t].polling = FALSE]
            /\ UNCHANGED <<lists, registered>>
       ELSE Clear(t, "clear") /\ UNCHANGED k
  /\ UNCHANGED <<met, ready>>

PollClear(t) ==
  /\ Running(t)
  /\ \/ poll[t].pc = "clear" /\ Clear(t, "clear")
     \/ poll[t].pc \in {"waiting", "woken"} /\ Clear(t, "woken")
  /\ UNCHANGED <<k, met, ready>>

-----------------------------------------------------------------------------
\* Mutant: the event is not marked.
SignalUnmarked(isr, e, result) ==
  /\ k' = Leave(isr, IF "PENDING" \in k.st[e[1]]
                         THEN ReadyThread([Unpend(k, e[1]) EXCEPT !.ret[e[1]] = result], e[1]) ELSE k)
  /\ poll' = [poll EXCEPT ![e[1]].polling = FALSE]
  /\ registered' = registered \ {e} /\ UNCHANGED ready

\* signal_poll_event() for an event that has been taken off its list; isr says
\* whether an interrupt makes the call.
Signal(isr, e, result) ==
  LET t == e[1]
  IN  IF e \in registered /\ "PENDING" \in k.st[t] /\ k.tmo[t] = "EXPIRED"
        THEN UNCHANGED <<k, registered, ready, poll>>      \* is_polling is 0
        ELSE /\ k' = Leave(isr, IF e \in registered /\ "PENDING" \in k.st[t]
                                 THEN ReadyThread([Unpend(k, t) EXCEPT !.ret[t] = result], t) ELSE k)
             /\ poll' = IF e \in registered THEN [poll EXCEPT ![t].polling = FALSE] ELSE poll
             /\ registered' = registered \ {e} /\ ready' = ready \cup {e}

\* _handle_obj_poll_events(): the first event on the list of o.
HandleEvents(isr, o, result) ==
  LET e == PeekHead(lists, o)
  IN  IF e = Null THEN UNCHANGED <<k, lists, registered, ready, poll>>
      ELSE lists' = Unlink(lists, e) /\ Signal(isr, e, result)

\* k_sem_give() when nobody waits in k_sem_take(), a queue that gets an item,
\* and k_poll_signal().
Raise(isr, o) == met' = met \cup {o} /\ HandleEvents(isr, o, "OK")

\* k_queue_cancel_wait().
CancelWait(isr, o) == UNCHANGED met /\ HandleEvents(isr, o, "EINTR")

\* Somebody takes the unit or the last item, or resets the signal.
Lower(o) == o \in met /\ met' = met \ {o} /\ UNCHANGED <<k, lists, registered, ready, poll>>

Idling(t) == Running(t) /\ (t \in Poller => poll[t].pc = "out")

Elsewhere ==
  /\ Tick \/ \E t, u \in Thread : Idling(t) /\ (Sleep(t) \/ Yield(t) \/ ThreadStart(t, u))
  /\ UNCHANGED pollVars

PollNext ==
  \/ Elsewhere
  \/ \E o \in Polled :
       \/ Lower(o) \/ Raise(TRUE, o) \/ CancelWait(TRUE, o)
       \/ \E t \in Thread : Idling(t) /\ (Raise(FALSE, o) \/ CancelWait(FALSE, o))
  \/ \E t \in Poller :
       \/ PollScan(t) \/ PollClear(t)
       \/ \E forever \in BOOLEAN : PollDecide(t, forever)
       \/ \E objects \in UNION {SetToSeqs(s) : s \in SUBSET Polled \ {{}}}, nowait \in BOOLEAN :
            PollStart(t, objects, nowait)

PollSpec == PollInit /\ [][PollNext]_<<k, pollVars>>

\* The behaviours of PollSpec in which Careful always holds.
CarefulPollSpec == PollInit /\ [][PollNext /\ Careful']_<<k, pollVars>>

-----------------------------------------------------------------------------
\* The events and lists have their types, and k_poll()'s last_registered stays
\* within the events it has looked at.
PollTypeOK ==
  /\ TypeOK
  /\ met \subseteq Polled /\ registered \subseteq Event /\ ready \subseteq Event
  /\ lists \in [next: [Polled \cup Event -> Polled \cup Event], prev: [Polled \cup Event -> Polled \cup Event]]
  /\ \A t \in Poller :
       /\ poll[t].pc \in {"out", "scan", "waiting", "clear", "woken"}
       /\ poll[t].i \in 0 .. Len(poll[t].objects) /\ poll[t].last \in 0 .. poll[t].i

\* The thread waits and nothing has decided how its wait ends.
Undecided(t) == poll[t].pc = "waiting" /\ "PENDING" \in k.st[t] /\ k.tmo[t] # "EXPIRED"

\* The events on an object's list.
Listed(o) == ToSet(Linked(lists, o))

\* A waiting poller that is the only one of its objects, as the documentation
\* asks and register_event() does not check, can be found: each of its events is
\* on the list of its object, however signals and timeouts interleave with the
\* rounds that register events and clear registrations.
WaitersListed ==
  \A t \in Poller : Undecided(t) => \A e \in EventsOf(t) : e \in Listed(e[2])

\* k_poll() leaves nothing behind: an event on a list belongs to a call that
\* is still to clear it, and only such an event names its poller.
NothingLeftBehind ==
  \A e \in Event :
    e \in registered \cup UNION {Listed(o) : o \in Polled}
      => poll[e[1]].pc # "out" /\ e \in EventsOf(e[1])

\* No lost wakeup: while the only poller of an object waits, the object's
\* condition is not met, also when it was met between two rounds of k_poll().
NoMissedCondition ==
  \A t \in Poller : Undecided(t) => \A e \in EventsOf(t) :
    e[2] \in met => \E u \in Poller \ {t} : e[2] \in ToSet(poll[u].objects)

\* A call that is going to return 0 has an event to show for it.
SuccessHasEvent ==
  \A t \in Poller :
    \/ poll[t].pc = "clear"
    \/ poll[t].pc \in {"waiting", "woken"} /\ "PENDING" \notin k.st[t] /\ k.ret[t] = "OK"
    => EventsOf(t) \cap ready # {}
=============================================================================
