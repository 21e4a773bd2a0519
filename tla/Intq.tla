-------------------------------- MODULE Intq --------------------------------
(***************************************************************************)
(* Interrupt queues (devices/intq.c): circular buffers that threads and    *)
(* interrupt handlers share.  They are used with interrupts off, so a call *)
(* is one step up to the point where its thread blocks: on the queue's     *)
(* lock, or in wait until the other side signals.                          *)
(***************************************************************************)
EXTENDS Integers, Sequences

CONSTANTS Threads, NULL, INTQ_BUFSIZE

ASSUME IntqAssumption == INTQ_BUFSIZE \in Nat \ {0, 1}

ASSUME NullAssumption == NULL \notin Threads

VARIABLES queue,   \* the queues by name
          pc,      \* where each thread is; "lock", "wait" and "woken" are in here
          off,     \* the thread in the middle of a call with interrupts off
          panic    \* an ASSERT failed

intq_init ==
    [buf |-> [i \in 0..(INTQ_BUFSIZE - 1) |-> NULL], head |-> 0, tail |-> 0,
     not_full |-> NULL, not_empty |-> NULL, lock |-> NULL]

next(pos) == (pos + 1) % INTQ_BUFSIZE

intq_empty(q) == q.head = q.tail

intq_full(q) == next(q.head) = q.tail

(* The bytes in the queue, in the order in which they will come out.       *)
Bytes(q) ==
    [i \in 1..((q.head - q.tail + INTQ_BUFSIZE) % INTQ_BUFSIZE) |->
        q.buf[(q.tail + i - 1) % INTQ_BUFSIZE]]

(* intq_getc and intq_putc once the loop is done.  The waiter they signal  *)
(* is read before: see Signal.  A byte that was read is forgotten.         *)
Got(q) == [q EXCEPT !.buf[q.tail] = NULL, !.tail = next(q.tail), !.not_full = NULL]

(* intq_getc until the queue is empty.                                     *)
Emptied(q) == [intq_init EXCEPT !.head = q.head, !.tail = q.head,
                   !.not_empty = q.not_empty, !.lock = q.lock]

Put(q, byte) ==
    [q EXCEPT !.buf[q.head] = byte, !.head = next(q.head), !.not_empty = NULL]

(* Mutant: the waiter is forgotten.                                        *)
SignalNobody(places, waiter) == places

(* thread_unblock of the waiter, if there is one.                          *)
Signal(places, waiter) == IF waiter = NULL THEN places ELSE [places EXCEPT ![waiter] = "woken"]

(* The condition that a waiter waits for.                                  *)
Holds(q, condition) == IF condition = "not_empty" THEN ~intq_empty(q) ELSE ~intq_full(q)

(* wait, with the lock held: its ASSERT, and thread_block.                 *)
wait(t, x, condition) ==
    /\ panic' = (panic \/ Holds(queue[x], condition))
    /\ queue' = [queue EXCEPT ![x].lock = t, ![x][condition] = t]
    /\ pc' = [pc EXCEPT ![t] = "wait"]
    /\ off' = NULL

(* The body of the loop of intq_getc and intq_putc: lock_acquire may block *)
(* and then lets anyone run.                                               *)
WaitFor(t, x, condition) ==
    /\ ~Holds(queue[x], condition)
    /\ IF queue[x].lock = NULL THEN wait(t, x, condition)
       ELSE pc' = [pc EXCEPT ![t] = "lock"] /\ off' = NULL /\ UNCHANGED <<queue, panic>>

LockAcquired(t, x, condition) ==
    /\ pc[t] = "lock"
    /\ off = NULL
    /\ queue[x].lock = NULL
    /\ wait(t, x, condition)

(* After thread_block: lock_release, which yields at most when a thread    *)
(* waits for the lock, and back to the loop, at place.                     *)
Resume(t, x, place) ==
    /\ pc[t] = "woken"
    /\ off = NULL
    /\ queue' = [queue EXCEPT ![x].lock = NULL]
    /\ pc' = [pc EXCEPT ![t] = place]
    /\ off' \in {t} \cup (IF \E u \in Threads : pc[u] = "lock" THEN {NULL} ELSE {})
    /\ UNCHANGED panic
=============================================================================
