-------------------------------- MODULE Heap --------------------------------
(***************************************************************************)
(* What an allocator promises: a step changes what one thread owns, and    *)
(* never gives it a cell that another thread owns.                         *)
(***************************************************************************)
CONSTANT Threads

VARIABLE owned   \* the cells that each thread owns

Init == owned = [t \in Threads |-> {}]

Change(t, before, after) ==
    \A u \in Threads \ {t} : after[u] = before[u] /\ after[t] \cap before[u] = {}

Next == \E t \in Threads : Change(t, owned, owned')

Spec == Init /\ [][Next]_owned
=============================================================================
