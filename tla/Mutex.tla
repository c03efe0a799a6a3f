------------------------------- MODULE Mutex -------------------------------
(***************************************************************************)
(* A mutex with priority inheritance: kernel/mutex.c, on top of the        *)
(* scheduler.  The calls lock the scheduler first and interrupts later, so *)
(* each is several steps; pc[t] says where thread t is:                    *)
(*   lock      in k_mutex_lock(), the scheduler locked                     *)
(*   pend      it swapped out while it raised the owner's priority and has *)
(*             not begun to wait ("pend for ever" or "pend with timeout")  *)
(*   wait      pending on the mutex, or woken up and not running yet       *)
(*   expired   the wait timed out and the owner's new priority is computed *)
(*   restored  the owner's priority has been adjusted                      *)
(*   unlock    in k_mutex_unlock(), the lock count has reached zero        *)
(*   handoff   it swapped out while it restored its own priority and has   *)
(*             not handed the mutex over                                   *)
(*   fault     it dereferenced a null owner: the fatal error handler loops *)
(***************************************************************************)
EXTENDS Sched

CONSTANTS
  MutexQ,       \* the mutex's wait queue
  User(_),      \* User(b): the threads that use the mutex when b[t] is the
                \* priority thread t begins with
  NoThread,     \* the null owner
  Ceiling,      \* CONFIG_PRIORITY_CEILING
  MaxCount,     \* bound on nested locks
  TimedWaits(_) \* TimedWaits(b): whether they also lock with a finite timeout

ASSUME MutexAssumption ==
  /\ MutexQ \in WaitQ /\ NoThread \notin Thread
  /\ Ceiling \in Prio /\ MaxCount \in Nat
  /\ \A b \in [Thread -> Prio] : User(b) \subseteq Thread /\ TimedWaits(b) \in BOOLEAN

VARIABLES
  owner, lock_count, orig,  \* the mutex: owner, lock count, owner_orig_prio
  pc,
  new_prio,                 \* new_prio[t]: the local variable of k_mutex_lock()
  held,                     \* history: locks t has obtained and not released
  base                      \* history: the priority each thread began with

mutex == <<owner, lock_count, orig>>
history == <<held, base>>
mutexVars == <<k, mutex, pc, new_prio, history>>

MutexInit ==
  /\ Init
  /\ owner = NoThread /\ lock_count = 0 /\ orig \in Prio
  /\ pc = [t \in Thread |-> "out"]
  /\ new_prio = [t \in Thread |-> orig]
  /\ held = [t \in Thread |-> 0]
  /\ base = k.prio

At(t, here) == Running(t) /\ pc[t] = here

Goto(t, there) == pc' = [pc EXCEPT ![t] = there]

NewPrioForInheritance(target, limit) ==
  LET p == IF target < limit THEN target ELSE limit
  IN  IF p >= Ceiling THEN p ELSE Ceiling

\* adjust_owner_prio(): swaps at once if that makes another thread the best.
AdjustOwnerPrio(x, p) == IF x.prio[owner] # p THEN PrioritySet(x, owner, p) ELSE x

-----------------------------------------------------------------------------
(***************************************************************************)
(* k_mutex_lock().                                                         *)
(***************************************************************************)

\* Mutant: take a mutex another thread has locked once.
ContendedOffByOne(t) == lock_count > 1 /\ owner # t

Contended(t) == lock_count # 0 /\ owner # t

LockEnter(t) ==
  /\ At(t, "out") /\ t \in User(base) /\ held[t] < MaxCount
  /\ k' = SchedLock(k) /\ Goto(t, "lock")
  /\ UNCHANGED <<mutex, new_prio, history>>

LockFree(t) ==
  /\ At(t, "lock") /\ ~Contended(t)
  /\ orig' = IF lock_count = 0 THEN k.prio[t] ELSE orig
  /\ lock_count' = lock_count + 1 /\ owner' = t
  /\ k' = SchedUnlock(k) /\ Goto(t, "out")
  /\ held' = [held EXCEPT ![t] = @ + 1]
  /\ UNCHANGED <<new_prio, base>>

\* K_NO_WAIT: -EBUSY.
LockBusy(t) ==
  /\ At(t, "lock") /\ Contended(t)
  /\ k' = SchedUnlock(k) /\ Goto(t, "out")
  /\ UNCHANGED <<mutex, new_prio, history>>

\* Mutant: wait without raising the owner.
LockWaitUnraised(t, forever) ==
  /\ At(t, "lock") /\ Contended(t)
  /\ k' = PendCurrent(k, MutexQ, forever) /\ Goto(t, "wait")
  /\ UNCHANGED <<mutex, new_prio, history>>

\* Under irq_lock(): raise the owner, then pend.  Raising it may swap the
\* caller out, which then pends with interrupts still locked when it is back.
LockWait(t, forever) ==
  LET p      == NewPrioForInheritance(k.prio[t], k.prio[owner])
      raised == IF p < k.prio[owner] THEN AdjustOwnerPrio(k, p) ELSE k
  IN  /\ At(t, "lock") /\ Contended(t)
      /\ IF owner = NoThread
           THEN Goto(t, "fault") /\ UNCHANGED k
         ELSE IF raised.cur = t
           THEN k' = PendCurrent(raised, MutexQ, forever) /\ Goto(t, "wait")
           ELSE k' = raised /\ Goto(t, IF forever THEN "pend for ever" ELSE "pend with timeout")
      /\ UNCHANGED <<mutex, new_prio, history>>

LockPend(t, forever) ==
  /\ At(t, IF forever THEN "pend for ever" ELSE "pend with timeout")
  /\ k' = PendCurrent(k, MutexQ, forever) /\ Goto(t, "wait")
  /\ UNCHANGED <<mutex, new_prio, history>>

LockGot(t) ==
  /\ At(t, "wait") /\ k.ret[t] = "OK"
  /\ k' = SchedUnlock(k) /\ Goto(t, "out")
  /\ held' = [held EXCEPT ![t] = @ + 1]
  /\ UNCHANGED <<mutex, new_prio, base>>

\* The priority the owner should have now, computed before irq_lock().
LockExpired(t) ==
  /\ At(t, "wait") /\ k.ret[t] # "OK"
  /\ new_prio' = [new_prio EXCEPT ![t] =
       IF HasWaiter(k, MutexQ)
         THEN NewPrioForInheritance(k.prio[Waiter(k, MutexQ)], orig) ELSE orig]
  /\ Goto(t, "expired")
  /\ UNCHANGED <<k, mutex, history>>

LockRestore(t) ==
  /\ At(t, "expired")
  /\ IF owner = NoThread
       THEN Goto(t, "fault") /\ UNCHANGED k
       ELSE Goto(t, "restored") /\ k' = AdjustOwnerPrio(k, new_prio[t])
  /\ UNCHANGED <<mutex, new_prio, history>>

LockGiveUp(t) ==
  /\ At(t, "restored")
  /\ k' = SchedUnlock(k) /\ Goto(t, "out")
  /\ UNCHANGED <<mutex, new_prio, history>>

-----------------------------------------------------------------------------
(***************************************************************************)
(* k_mutex_unlock().                                                       *)
(***************************************************************************)

\* Mutant: unlock a mutex one does not own.
UnlockEnterUnowned(t) ==
  /\ At(t, "out") /\ t \in User(base)
  /\ lock_count' = lock_count - 1
  /\ IF lock_count # 1
       THEN k' = SchedUnlock(SchedLock(k)) /\ UNCHANGED pc
       ELSE k' = SchedLock(k) /\ Goto(t, "unlock")
  /\ UNCHANGED <<owner, orig, new_prio, history>>

UnlockEnter(t) ==
  /\ At(t, "out") /\ held[t] > 0 /\ lock_count > 0 /\ owner = t
  /\ lock_count' = lock_count - 1
  /\ held' = [held EXCEPT ![t] = @ - 1]
  /\ IF lock_count # 1
       THEN k' = SchedUnlock(SchedLock(k)) /\ UNCHANGED pc
       ELSE k' = SchedLock(k) /\ Goto(t, "unlock")
  /\ UNCHANGED <<owner, orig, new_prio, base>>

\* Mutant: release the mutex whoever waits.
HandOverToNobody(x, t) ==
  /\ owner' = NoThread
  /\ k' = SchedUnlock(x)
  /\ Goto(t, "out")
  /\ UNCHANGED <<lock_count, orig>>

\* What follows adjust_owner_prio(): the first waiter becomes the owner.
HandOver(x, t) ==
  /\ IF HasWaiter(x, MutexQ)
       THEN /\ owner' = Waiter(x, MutexQ)
            /\ lock_count' = lock_count + 1
            /\ orig' = x.prio[Waiter(x, MutexQ)]
            /\ k' = SchedUnlock(WakeFirst(x, MutexQ, "OK"))
       ELSE /\ owner' = NoThread
            /\ k' = SchedUnlock(x)
            /\ UNCHANGED <<lock_count, orig>>
  /\ Goto(t, "out")

\* Mutant: keep the inherited priority.
UnlockUnrestored(t) ==
  At(t, "unlock") /\ HandOver(k, t) /\ UNCHANGED <<new_prio, history>>

Unlock(t) ==
  LET restored == AdjustOwnerPrio(k, orig)
  IN  /\ At(t, "unlock")
      /\ IF restored.cur = t
           THEN HandOver(restored, t)
           ELSE k' = restored /\ Goto(t, "handoff") /\ UNCHANGED mutex
      /\ UNCHANGED <<new_prio, history>>

UnlockHandoff(t) ==
  At(t, "handoff") /\ HandOver(k, t) /\ UNCHANGED <<new_prio, history>>

-----------------------------------------------------------------------------
\* The swap inside adjust_owner_prio() is made with interrupts locked, and
\* they are locked again when the thread is back.
InterruptsLocked ==
  \E t \in Thread :
    Running(t) /\ pc[t] \in {"pend for ever", "pend with timeout", "handoff"}

SchedStep ==
  /\ \/ ~InterruptsLocked /\ (Tick \/ \E u \in Thread : IsrWakeup(k, u))
     \/ \E t, u \in Thread :
          At(t, "out") /\ (Sleep(t) \/ Yield(t) \/ Wakeup(t, u) \/ ThreadStart(t, u))
  /\ UNCHANGED <<mutex, pc, new_prio, history>>

MutexCall(t) ==
  \/ LockEnter(t) \/ LockFree(t) \/ LockBusy(t) \/ LockGot(t)
  \/ LockExpired(t) \/ LockRestore(t) \/ LockGiveUp(t)
  \/ \E forever \in {TRUE, ~TimedWaits(base)} : LockWait(t, forever) \/ LockPend(t, forever)
  \/ UnlockEnter(t) \/ Unlock(t) \/ UnlockHandoff(t)

MutexNext == SchedStep \/ \E t \in Thread : MutexCall(t)

MutexSpec == MutexInit /\ [][MutexNext]_mutexVars

\* The behaviours of MutexSpec in which Careful always holds.
CarefulMutexSpec == MutexInit /\ [][MutexNext /\ Careful']_mutexVars

-----------------------------------------------------------------------------
(***************************************************************************)
(* Properties.                                                             *)
(***************************************************************************)

\* The mutex, its callers and their locals have their types; lock_count, which
\* the code decrements unchecked, is never negative.
MutexTypeOK ==
  /\ TypeOK
  /\ owner \in Thread \cup {NoThread} /\ lock_count \in Nat /\ orig \in Prio
  /\ new_prio \in [Thread -> Prio]
  /\ held \in [Thread -> 0 .. MaxCount]
  /\ pc \in [Thread -> {"out", "lock", "pend for ever", "pend with timeout", "wait",
                        "expired", "restored", "unlock", "handoff", "fault"}]

\* "Ensuring mutually exclusive access to the resource": two threads have
\* never both returned from k_mutex_lock() with the mutex, and the mutex knows
\* who has it and how often.
MutualExclusion ==
  \A t \in Thread : held[t] > 0 => owner = t /\ lock_count = held[t]

\* No thread is left waiting for a mutex nobody will unlock: while threads
\* wait there is an owner, or the unlock that will choose one is under way.
WaiterHasOwner ==
  HasWaiter(k, MutexQ) =>
    \/ owner # NoThread /\ lock_count > 0
    \/ \E t \in Thread : pc[t] \in {"unlock", "handoff"}

\* Priority inheritance: a thread that holds the mutex runs at least at the
\* priority of every thread that waits for it, as far as the ceiling lets it.
OwnerInherits ==
  \A w \in ToSet(k.waitq[MutexQ]), t \in Thread :
    held[t] > 0 => k.prio[t] <= k.prio[w] \/ k.prio[t] <= Ceiling

\* What was inherited is given back: a thread that neither holds the mutex nor
\* is inside one of its calls has the priority it began with.
PriorityRestored ==
  \A t \in Thread : held[t] = 0 /\ pc[t] = "out" => k.prio[t] = base[t]
=============================================================================
