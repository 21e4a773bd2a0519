------------------------------- MODULE Synch --------------------------------
(***************************************************************************)
(* Semaphores, locks with priority donation, and condition variables       *)
(* (threads/synch.c).                                                      *)
(*                                                                         *)
(* A semaphore is named by what owns it: a member of Semas is a semaphore  *)
(* of its own, a lock names the semaphore inside it, and a thread names    *)
(* the semaphore of the semaphore_elem that cond_wait keeps on that        *)
(* thread's stack.  The list of waiters of a condition variable is the     *)
(* sequence of the threads whose semaphore_elem is on it.                  *)
(***************************************************************************)
EXTENDS Thread

CONSTANTS Semas,        \* semaphores, initially 0
          Conds,        \* condition variables
          MonitorLock,  \* the lock each condition variable is used with
          STORED_MAX,   \* the length of stored_priority[], 30 in thread.h
          MaxValue      \* bound: no sema_up of a semaphore with this value

SemaIds == Semas \cup Locks \cup Threads

ASSUME SynchAssumption ==
    /\ Semas \cap (Locks \cup Threads) = {}
    /\ Conds \cap (SemaIds \cup Labels) = {}
    /\ NULL \notin Semas \cup Conds
    /\ MonitorLock \in [Conds -> Locks]
    /\ STORED_MAX \in Nat \ {0}
    /\ MaxValue \in Nat

VARIABLES
    value,         \* struct semaphore
    waiters,
    holder,        \* struct lock
    cond_waiters,  \* struct condition
    held           \* the locks each client holds: those whose acquisition has
                   \* returned to it and that it has not begun to release

synchVars == <<value, waiters, holder, cond_waiters, held>>

-----------------------------------------------------------------------------
(* sema_down on s from its loop test; the caller continues at r.           *)
DownLoop(s, r) ==
    /\ IF value[s] = 0
         THEN /\ waiters' = [waiters EXCEPT ![s] =
                                insert_by_priority(@, cur, priority)]
              /\ thread_block(ready_list)
              /\ GoTo("down")
              /\ ret' = [ret EXCEPT ![cur] = r]
              /\ UNCHANGED value
         ELSE /\ value' = [value EXCEPT ![s] = @ - 1]
              /\ GoTo(r)
              /\ ret' = [ret EXCEPT ![cur] = "run"]
              /\ UNCHANGED <<waiters, sched>>
    /\ UNCHANGED <<intr, donation, wake_up_time, panic, holder, cond_waiters, held>>

sema_down(s) ==
    /\ Calls("sema_down")
    /\ DownLoop(s, "run")
    /\ obj' = [obj EXCEPT ![cur] = IF value[s] = 0 THEN s ELSE NULL]

(* The thread was scheduled again and is back at the loop test.            *)
sema_down_loop ==
    /\ At("down")
    /\ IF ret[cur] = "cwAcq"
         THEN DownLoop(cur, "cwAcq") /\ UNCHANGED obj
         ELSE /\ DownLoop(obj[cur], "run")
              /\ obj' = IF value[obj[cur]] = 0
                          THEN obj ELSE [obj EXCEPT ![cur] = NULL]

(* Mutant: the test is off by one.                                         *)
CanDownAtZero(s) == value[s] >= 0

(* The test of sema_try_down.                                              *)
CanDown(s) == value[s] > 0

sema_try_down(s) ==
    /\ Calls("sema_try_down")
    /\ CanDown(s)
    /\ value' = [value EXCEPT ![s] = @ - 1]
    /\ UNCHANGED <<threadVars, waiters, holder, cond_waiters, held>>

-----------------------------------------------------------------------------
(* Mutant: only a thread that waits alone is woken.                        *)
WakesIfAlone(s) == Len(waiters[s]) = 1

(* Does sema_up on s take a waiter off the list?                           *)
Wakes(s) == waiters[s] # <<>>

Woken(s) == IF Wakes(s) THEN {Head(waiters[s])} ELSE {}

WaitersAfterUp(s) == IF Wakes(s) THEN [waiters EXCEPT ![s] = Tail(@)] ELSE waiters

(* sema_up on s, up to its last statement: the front waiter, if any, is    *)
(* unblocked and the value goes up.                                        *)
Up(s) ==
    /\ value' = [value EXCEPT ![s] = @ + 1]
    /\ waiters' = WaitersAfterUp(s)
    /\ ASSERT(\A t \in Woken(s) : status[t] = "BLOCKED", "thread_unblock")

StatusAfterUp(s) ==
    [t \in AllThreads |-> IF t \in Woken(s) THEN "READY" ELSE status[t]]

ReadyAfterUp(s, pri) ==
    IF Wakes(s) THEN insert_by_priority(ready_list, Head(waiters[s]), pri)
                ELSE ready_list

yield_if_necessary(s, pri) == \E t \in Woken(s) : pri[t] > pri[cur]

(* sema_up called by a thread with interrupts on: they are on again when   *)
(* it comes to thread_yield.                                               *)
UpByThread(s, r) ==
    /\ Up(s)
    /\ status' = StatusAfterUp(s)
    /\ ready_list' = ReadyAfterUp(s, priority)
    /\ GoTo(IF yield_if_necessary(s, priority) THEN "yield" ELSE r)
    /\ ret' = [ret EXCEPT ![cur] =
                  IF yield_if_necessary(s, priority) THEN r ELSE "run"]
    /\ UNCHANGED <<cur, thread_ticks, intr, donation, wake_up_time,
                   holder, cond_waiters, held>>

sema_up(s) ==
    /\ Calls("sema_up")
    /\ value[s] < MaxValue
    /\ UpByThread(s, "run")
    /\ UNCHANGED obj

(* sema_up called by the handler of a device's interrupt, as the disk's    *)
(* interrupt_handler does: no yield.                                       *)
sema_up_from_intr(s) ==
    /\ "sema_up_from_intr" \in Api
    /\ IntrOn
    /\ value[s] < MaxValue
    /\ Up(s)
    /\ status' = StatusAfterUp(s)
    /\ ready_list' = ReadyAfterUp(s, priority)
    /\ GoTo(IF cur = Idle THEN "loop" ELSE pc[cur])
    /\ yield_on_return' = FALSE
    /\ UNCHANGED <<cur, thread_ticks, in_external_intr, donation, obj, ret,
                   wake_up_time, holder, cond_waiters, held>>

-----------------------------------------------------------------------------
(* The lock is free: take it.                                              *)
TakeLock(l) ==
    /\ value[l] > 0
    /\ value' = [value EXCEPT ![l] = @ - 1]
    /\ holder' = [holder EXCEPT ![l] = cur]
    /\ held' = [held EXCEPT ![cur] = @ \cup {l}]
    /\ GoTo("run")
    /\ obj' = [obj EXCEPT ![cur] = NULL]
    /\ UNCHANGED <<sched, intr, donation, ret, wake_up_time, panic,
                   waiters, cond_waiters>>

(* Is the elem of t on the run queue or on a list of waiters?              *)
OnAList(t) == \/ t \in Range(ready_list)
              \/ \E s \in SemaIds : t \in Range(waiters[s])

(* Mutant: only one donation per holder.                                   *)
DonatesOnce(h) == priority[h] < priority[cur] /\ stored[h] = <<>>

(* Does cur donate its priority to h?                                      *)
Donates(h) == priority[h] < priority[cur]

(* Mutant: priority_lock_master is set before it is stored.                *)
DonateSwapped(h, l) ==
    /\ stored' = [stored EXCEPT ![h] = Append(@, [priority |-> priority[h], lock |-> l])]
    /\ priority' = [priority EXCEPT ![h] = priority[cur]]
    /\ master' = [master EXCEPT ![h] = l]

(* The donation by cur to h, the holder of l: h's priority and its lock    *)
(* are pushed on h's stack and replaced by cur's priority and l.           *)
Donate(h, l) ==
    /\ stored' = [stored EXCEPT ![h] =
                     Append(@, [priority |-> priority[h], lock |-> master[h]])]
    /\ priority' = [priority EXCEPT ![h] = priority[cur]]
    /\ master' = [master EXCEPT ![h] = l]

(* list_remove of h, from the list of waiters it may be on.                *)
WaitersWithout(h) == [s \in SemaIds |-> list_remove(waiters[s], h)]

(* Mutant: a holder that is on the run queue keeps its place.              *)
ReadyInPlace(h, pri) ==
    IF h \in Range(ready_list) THEN ready_list
                               ELSE insert_by_priority(ready_list, h, pri)

(* list_remove of h, from the run queue, and its insertion there.          *)
ReadyWith(h, pri) == insert_by_priority(list_remove(ready_list, h), h, pri)

(* The lock is taken: donate if the holder's priority is lower, move the   *)
(* holder from whatever list it is on to the run queue, and wait.  A null  *)
(* holder, a full stack and a holder that is on no list are the ways in    *)
(* which this goes wrong.                                                  *)
WaitForLock(l) ==
    LET h == holder[l]
        W == IF Donates(h) THEN WaitersWithout(h) ELSE waiters
    IN  /\ value[l] = 0
        /\ h # NULL
        /\ IF Donates(h) THEN Donate(h, l) ELSE UNCHANGED <<stored, priority, master>>
        /\ waiters' = [W EXCEPT ![l] = insert_by_priority(@, cur, priority')]
        /\ thread_block(IF Donates(h) THEN ReadyWith(h, priority') ELSE ready_list)
        /\ GoTo("acq")
        /\ obj' = [obj EXCEPT ![cur] = l]
        /\ panic' = IF Donates(h) /\ Len(stored[h]) >= STORED_MAX THEN "stored_priority"
                    ELSE IF Donates(h) /\ ~OnAList(h) THEN "list_remove" ELSE panic
        /\ UNCHANGED <<intr, base, ret, wake_up_time, value, holder, cond_waiters, held>>

(* lock->holder->priority with a null holder.                              *)
NullHolder(l) ==
    /\ value[l] = 0
    /\ holder[l] = NULL
    /\ panic' = "holder"
    /\ UNCHANGED <<sched, intr, donation, frame, wake_up_time, synchVars>>

AcquireLoop(l) == TakeLock(l) \/ WaitForLock(l) \/ NullHolder(l)

lock_acquire(l) ==
    /\ Calls("lock_acquire")
    /\ l \notin held[cur]
    /\ AcquireLoop(l)

(* Mutant: "if" in the place of "while".                                   *)
lock_acquire_if ==
    /\ At("acq")
    /\ value' = [value EXCEPT ![obj[cur]] = 0]
    /\ holder' = [holder EXCEPT ![obj[cur]] = cur]
    /\ held' = [held EXCEPT ![cur] = @ \cup {obj[cur]}]
    /\ GoTo("run")
    /\ obj' = [obj EXCEPT ![cur] = NULL]
    /\ UNCHANGED <<sched, intr, donation, ret, wake_up_time, panic,
                   waiters, cond_waiters>>

(* The thread was scheduled again and is back at the loop test.            *)
lock_acquire_loop == At("acq") /\ AcquireLoop(obj[cur])

lock_try_acquire(l) ==
    /\ Calls("lock_try_acquire")
    /\ l \notin held[cur]
    /\ CanDown(l)
    /\ value' = [value EXCEPT ![l] = @ - 1]
    /\ GoTo("tried")
    /\ obj' = [obj EXCEPT ![cur] = l]
    /\ UNCHANGED <<sched, intr, donation, ret, wake_up_time, panic,
                   waiters, holder, cond_waiters, held>>

lock_try_acquire_return ==
    /\ At("tried")
    /\ holder' = [holder EXCEPT ![obj[cur]] = cur]
    /\ held' = [held EXCEPT ![cur] = @ \cup {obj[cur]}]
    /\ GoTo("run")
    /\ obj' = [obj EXCEPT ![cur] = NULL]
    /\ UNCHANGED <<sched, intr, donation, ret, wake_up_time, panic,
                   value, waiters, cond_waiters>>

(* Mutant: the donations stay.                                             *)
WithLock(s, l) == s

(* The stack of donations without those made for l.                        *)
WithoutLock(s, l) == Keep(s, {i \in 1..Len(s) : s[i].lock # l})

(* lock_release: every donation made for l is given back, the semaphore    *)
(* goes up and, interrupts being off all along, the yield that may follow  *)
(* belongs to the same step.  The caller continues at r.                   *)
Release(l, r) ==
    LET kept == WithoutLock(stored[cur], l)
        last == stored[cur] # <<>> /\ master[cur] = l
        pop  == last /\ kept # <<>>
    IN  /\ stored' = [stored EXCEPT ![cur] = IF pop THEN list_pop_back(kept) ELSE kept]
        /\ priority' = [priority EXCEPT ![cur] = IF pop THEN list_back(kept).priority ELSE @]
        /\ master' = [master EXCEPT ![cur] = IF pop THEN list_back(kept).lock ELSE @]
        /\ holder' = [holder EXCEPT ![l] = NULL]
        /\ held' = [held EXCEPT ![cur] = @ \ {l}]
        /\ value' = [value EXCEPT ![l] = @ + 1]
        /\ waiters' = WaitersAfterUp(l)
        /\ IF yield_if_necessary(l, priority')
             THEN yield(StatusAfterUp(l), ReadyAfterUp(l, priority'), priority')
             ELSE /\ status' = StatusAfterUp(l)
                  /\ ready_list' = ReadyAfterUp(l, priority')
                  /\ UNCHANGED <<cur, thread_ticks>>
        /\ GoTo(r)
        /\ ASSERT(/\ holder[l] = cur
                  /\ last => kept # <<>>
                  /\ \A t \in Woken(l) : status[t] = "BLOCKED", "lock_release")
        /\ UNCHANGED <<intr, base, ret, wake_up_time, cond_waiters>>

lock_release(l) ==
    /\ Calls("lock_release")
    /\ l \in held[cur]
    /\ Release(l, "run")
    /\ UNCHANGED obj

-----------------------------------------------------------------------------
(* Mutant: the semaphore of a waiter starts at 1, like that of a lock.     *)
sema_init_up(s, v) ==
    /\ value' = [value EXCEPT ![s] = v + 1]
    /\ waiters' = [waiters EXCEPT ![s] = <<>>]

sema_init(s, v) ==
    /\ value' = [value EXCEPT ![s] = v]
    /\ waiters' = [waiters EXCEPT ![s] = <<>>]

(* cond_wait: the semaphore_elem goes to the front of the list, then the   *)
(* lock is released, the semaphore taken down and the lock taken again,    *)
(* with interrupts on between the calls.                                   *)
cond_wait(c) ==
    /\ Calls("cond_wait")
    /\ MonitorLock[c] \in held[cur]
    /\ sema_init(cur, 0)
    /\ cond_waiters' = [cond_waiters EXCEPT ![c] = <<cur>> \o @]
    /\ GoTo("cwRel")
    /\ obj' = [obj EXCEPT ![cur] = MonitorLock[c]]
    /\ UNCHANGED <<sched, intr, donation, ret, wake_up_time, panic, holder, held>>

cond_wait_release == At("cwRel") /\ Release(obj[cur], "cwDown") /\ UNCHANGED obj

cond_wait_down == At("cwDown") /\ DownLoop(cur, "cwAcq") /\ UNCHANGED obj

cond_wait_acquire == At("cwAcq") /\ AcquireLoop(obj[cur])

(* Mutant: no sort.                                                        *)
Unsorted(list) == list

(* The list_sort of cond_signal.  cond_thread_priority_large_func compares *)
(* the front waiters of the semaphores.                                    *)
SortedByFront(list) ==
    LET front(t) == priority[Head(waiters[t])]
        larger == [t \in Threads |-> [u \in Threads |-> front(t) > front(u)]]
    IN  list_sort(list, larger)

(* cond_signal with waiters on c, up to its call of sema_up.  A sort of    *)
(* two or more elements compares each of them, and the list_front of an    *)
(* empty list is an assertion failure.                                     *)
Signal(c, r) ==
    LET list == cond_waiters[c]
        hasFront == Len(list) = 1 \/ \A t \in Range(list) : waiters[t] # <<>>
        sorted == IF Len(list) > 1 /\ hasFront THEN SortedByFront(list) ELSE list
    IN  /\ list # <<>>
        /\ cond_waiters' = [cond_waiters EXCEPT ![c] = Tail(sorted)]
        /\ obj' = [obj EXCEPT ![cur] = Head(sorted)]
        /\ GoTo("signal")
        /\ ret' = [ret EXCEPT ![cur] = r]
        /\ ASSERT(hasFront, "list_front")
        /\ UNCHANGED <<sched, intr, donation, wake_up_time, value, waiters, holder, held>>

cond_signal(c) ==
    /\ Calls("cond_signal")
    /\ MonitorLock[c] \in held[cur]
    /\ Signal(c, "run")

(* The sema_up that ends cond_signal.                                      *)
cond_signal_up ==
    /\ At("signal")
    /\ UpByThread(obj[cur], ret[cur])
    /\ obj' = [obj EXCEPT ![cur] = NULL]

cond_broadcast(c) ==
    /\ Calls("cond_broadcast")
    /\ MonitorLock[c] \in held[cur]
    /\ Signal(c, c)

cond_broadcast_loop(c) == At(c) /\ Signal(c, c)

cond_broadcast_return(c) ==
    /\ At(c)
    /\ cond_waiters[c] = <<>>
    /\ GoTo("run")
    /\ UNCHANGED <<sched, intr, donation, obj, ret, wake_up_time, panic, synchVars>>

SynchInit ==
    /\ value = [s \in SemaIds |-> IF s \in Locks THEN 1 ELSE 0]
    /\ waiters = [s \in SemaIds |-> <<>>]
    /\ holder = [l \in Locks |-> NULL]
    /\ cond_waiters = [c \in Conds |-> <<>>]
    /\ held = [t \in AllThreads |-> {}]
=============================================================================
