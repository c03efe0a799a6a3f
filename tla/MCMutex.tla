------------------------------ MODULE MCMutex ------------------------------
(***************************************************************************)
(* Model of Mutex for TLC.  Two mutexes' worth of programs: threads of one *)
(* priority that all use the mutex and whose waits may time out, and       *)
(* threads of different priorities of which one is a bystander and the     *)
(* users wait for ever.                                                    *)
(***************************************************************************)
EXTENDS Mutex

CONSTANT Bystander

MutexPrio == {0, 1, 2}

Uniform(b) == \A t, u \in Thread : b[t] = b[u]

UniformUsers(b) == IF Uniform(b) THEN Thread ELSE Thread \ {Bystander}

\* Everybody uses the mutex, whatever the priorities.
AllUsers(b) == Thread

NeverTimed(b) == FALSE
=============================================================================
