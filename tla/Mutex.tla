------------------------------- MODULE Mutex --------------------------------
(***************************************************************************)
(* What lock_init promises of a lock: it is held by at most one thread at  *)
(* any time, a thread acquires it when nobody holds it, and only the       *)
(* thread that acquired it releases it.                                    *)
(***************************************************************************)
CONSTANTS Threads, Locks, NULL

VARIABLE owner   \* the thread that holds each lock, or NULL

Init == owner = [l \in Locks |-> NULL]

Acquire(t, l) ==
    /\ owner[l] = NULL
    /\ owner' = [owner EXCEPT ![l] = t]

Release(t, l) ==
    /\ owner[l] = t
    /\ owner' = [owner EXCEPT ![l] = NULL]

Next == \E t \in Threads, l \in Locks : Acquire(t, l) \/ Release(t, l)

Spec == Init /\ [][Next]_owner
=============================================================================
