----------------------------- MODULE AtomicDisk -----------------------------
(***************************************************************************)
(* What the comments of block_read and block_write promise: accesses are   *)
(* synchronized internally, so each one happens at a single point between  *)
(* its call and its return, and a write has reached the disk when it       *)
(* returns.                                                                *)
(***************************************************************************)
CONSTANTS Threads, NULL

VARIABLES disk,     \* the sectors of the disks
          call,     \* the access of each thread, or one with op "none"
          done,     \* the threads whose access has happened
          buffer    \* the sector that each thread read, until it is used

vars == <<disk, call, done, buffer>>

Call(t) ==
    /\ call[t].op = "none"
    /\ \E a \in {call'[t]} : a.op \in {"read", "write"} /\ call' = [call EXCEPT ![t] = a]
    /\ UNCHANGED <<disk, done, buffer>>

Read(t) ==
    /\ t \notin done
    /\ call[t].op = "read"
    /\ buffer' = [buffer EXCEPT ![t] = disk[call[t].disk][call[t].sector]]
    /\ done' = done \cup {t}
    /\ UNCHANGED <<disk, call>>

Write(t) ==
    /\ t \notin done
    /\ call[t].op = "write"
    /\ disk' = [disk EXCEPT ![call[t].disk][call[t].sector] = call[t].data]
    /\ done' = done \cup {t}
    /\ UNCHANGED <<call, buffer>>

Return(t) ==
    /\ t \in done
    /\ call'[t].op = "none"
    /\ call' = [call EXCEPT ![t] = call'[t]]
    /\ done' = done \ {t}
    /\ buffer' \in {buffer, [buffer EXCEPT ![t] = NULL]}
    /\ UNCHANGED disk

Init == done = {} /\ \A t \in Threads : call[t].op = "none"

Spec == Init /\ [][\E t \in Threads : Call(t) \/ Read(t) \/ Write(t) \/ Return(t)]_vars
=============================================================================
