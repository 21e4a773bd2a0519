-------------------------- MODULE KernelProperties --------------------------
(***************************************************************************)
(* What the threads component promises beyond its types and the exclusion  *)
(* of its locks: lists and statuses agree, nobody is forgotten, donations  *)
(* are backed by locks, signals and alarms arrive.                         *)
(***************************************************************************)
EXTENDS Kernel

(* No assertion of the kernel fails and nothing undefined happens.         *)
NoPanic == panic = NULL

-----------------------------------------------------------------------------
(* Lists and statuses.                                                     *)

(* struct thread has one elem for the run queue and for all the lists of   *)
(* waiters: no thread is on two of them, or twice on one.                  *)
ElemOnOneList ==
    LET Lists == [s \in SemaIds \cup {NULL} |-> IF s = NULL THEN ready_list ELSE waiters[s]]
    IN  \A r, s \in DOMAIN Lists :
          \A i \in 1..Len(Lists[r]), j \in 1..Len(Lists[s]) :
             Lists[r][i] = Lists[s][j] => r = s /\ i = j

(* A thread whose donated priority moved it to the run queue out of the    *)
(* list of waiters it was blocked on; it will go back to that list.        *)
Displaced(t) == status[t] = "BLOCKED" /\ pc[t] \in {"acq", "down"} /\ stored[t] # <<>>

(* The status of a thread agrees with the list it is on: waiters are       *)
(* blocked, the run queue holds ready threads and displaced ones, and one  *)
(* thread runs.                                                            *)
StatusMatchesLists ==
    /\ \A t \in AllThreads : status[t] = "RUNNING" <=> t = cur
    /\ \A s \in SemaIds : \A t \in Range(waiters[s]) : status[t] = "BLOCKED"
    /\ \A t \in Range(ready_list) : status[t] = "READY" \/ Displaced(t)

(* No thread is lost: one that is neither running nor gone is on the run   *)
(* queue, on the list of waiters of what it waits for, or asleep.          *)
NoThreadLost ==
    \A t \in Threads :
        /\ status[t] = "READY" => t \in Range(ready_list)
        /\ status[t] = "BLOCKED" =>
              \/ t \in Range(ready_list)
              \/ t \in Range(alarm_list)
              \/ pc[t] = "acq" /\ t \in Range(waiters[obj[t]])
              \/ pc[t] = "down" /\ t \in Range(waiters[IF ret[t] = "cwAcq" THEN t ELSE obj[t]])

(* ListsSound: donations move a thread that is itself blocked to the run   *)
(* queue and back (lock_acquire), yet no ASSERT of list.c or thread.c      *)
(* fails, no thread is on two lists, statuses agree with lists, and no     *)
(* thread is lost.                                                         *)
ListsSound == NoPanic /\ ElemOnOneList /\ StatusMatchesLists /\ NoThreadLost

(* Every list of waiters is in order of the priorities its threads have    *)
(* now, so that sema_up wakes a thread of the highest priority.            *)
WaitersSorted ==
    \A s \in SemaIds : \A i, j \in 1..Len(waiters[s]) :
        i < j => priority[waiters[s][i]] >= priority[waiters[s][j]]

(* When the processor goes to another thread, no ready thread has a higher *)
(* priority than that one.                                                 *)
SwitchesToHighest ==
    [][cur' # cur => \A t \in Range(ready_list') : priority'[t] <= priority'[cur']]_vars

-----------------------------------------------------------------------------
(* Locks and donation.                                                     *)

(* The client that holds l.                                                *)
Owner(l) == IF \E t \in Threads : l \in held[t]
              THEN CHOOSE t \in Threads : l \in held[t]
              ELSE NULL

AbstractLock == INSTANCE Mutex WITH owner <- [l \in Locks |-> Owner(l)]

(* A lock implements the abstract one: a step of the kernel acquires a     *)
(* free lock for one thread, releases a lock its owner holds, or changes   *)
(* the owner of no lock.                                                   *)
LockIsMutex == AbstractLock!Spec

(* A thread that was taken off the waiters of s and has not yet come back  *)
(* to the loop test.                                                       *)
OnItsWay(t, s) ==
    /\ \/ pc[t] = "acq" /\ obj[t] = s
       \/ pc[t] = "down" /\ s = IF ret[t] = "cwAcq" THEN t ELSE obj[t]
    /\ t \notin Range(waiters[s])

(* A semaphore that can be taken has no waiters, unless a thread that was  *)
(* taken off the list is on its way to take it: a wake-up is not lost.     *)
NoLostWakeup ==
    \A s \in SemaIds :
        waiters[s] # <<>> => value[s] <= Cardinality({t \in Threads : OnItsWay(t, s)})

(* A thread runs with a donated priority only while it holds the lock the  *)
(* donation was made for, and so do the donations on its stack.  The stack *)
(* grows only by strict increases, up to the priority the thread runs      *)
(* with, which bounds stored_index by the number of priorities.            *)
DonationsBacked ==
    \A t \in Threads :
        /\ master[t] # NULL => master[t] \in held[t]
        /\ \A i \in 1..Len(stored[t]) : stored[t][i].lock \in held[t] \cup {NULL}
        /\ stored[t] = <<>> <=> master[t] = NULL
        /\ \A i \in 2..Len(stored[t]) :
               stored[t][i].priority <
                   IF i = Len(stored[t]) THEN priority[t] ELSE stored[t][i + 1].priority

(* Below all donations lies the priority the thread was last given, and    *)
(* without donations that is the priority it has.                          *)
BasePriorityKept ==
    \A t \in Threads :
        status[t] # "FREE" =>
            base[t] = IF stored[t] = <<>> THEN priority[t] ELSE stored[t][1].priority

(* A thread that starts to wait for a lock leaves the lock's holder with a *)
(* priority at least its own.                                              *)
DonationReachesHolder ==
    [][\A l \in Locks : \A t \in Range(waiters'[l]) \ Range(waiters[l]) :
          priority'[holder'[l]] >= priority'[t]]_vars

-----------------------------------------------------------------------------
(* Condition variables.                                                    *)

(* A signal is not lost: a thread that waits on a condition is on exactly  *)
(* one of the condition's list, the way of a signaller to sema_up, and the *)
(* value of its own semaphore, until it takes that down.                   *)
SignalNotLost ==
    \A t \in Threads :
        LET listed    == \E c \in Conds : t \in Range(cond_waiters[c])
            signalled == \E u \in Threads : pc[u] = "signal" /\ obj[u] = t
        IN  IF pc[t] \in {"cwRel", "cwDown"} \/ (pc[t] = "down" /\ ret[t] = "cwAcq")
              THEN \/ listed /\ ~signalled /\ value[t] = 0
                   \/ ~listed /\ signalled /\ value[t] = 0
                   \/ ~listed /\ ~signalled /\ value[t] = 1
              ELSE ~listed /\ ~signalled

(* cond_signal takes a waiter of the highest priority off the list.        *)
SignalsHighest ==
    [][\A c \in Conds : \A t \in Range(cond_waiters[c]) \ Range(cond_waiters'[c]) :
          panic' = NULL => \A u \in Range(cond_waiters'[c]) : priority[u] <= priority[t]]_vars

-----------------------------------------------------------------------------
(* The alarm.                                                              *)

(* No thread is woken before the tick it asked for, and when the timer's   *)
(* handler ends, nobody who is due is still asleep, although the handler   *)
(* looks only at the front of alarm_list and timer_sleep reads the clock   *)
(* with interrupts on.                                                     *)
WakesOnTime ==
    [][/\ \A t \in Range(alarm_list) \ Range(alarm_list') : wake_up_time[t] <= ticks
       /\ in_external_intr /\ ~in_external_intr' =>
              \A t \in Range(alarm_list') : wake_up_time'[t] > ticks']_vars

(* A sleeping thread is woken, even when the tick it asks for has passed   *)
(* before it comes to be on the list.                                      *)
AlarmRings == \A t \in Threads : t \in Range(alarm_list) ~> t \notin Range(alarm_list)

-----------------------------------------------------------------------------
(* A ready thread of the highest priority.                                 *)
AtTop(t) == /\ t \in Range(ready_list)
            /\ \A u \in Range(ready_list) \cup {cur} : priority[u] <= priority[t]

(* Round robin: a thread of the highest priority does not wait on the run  *)
(* queue for ever while others of the same priority run.                   *)
TopPriorityRuns == \A t \in Threads : AtTop(t) ~> ~AtTop(t)

-----------------------------------------------------------------------------
(* What a comment says of the kernel and the code does not meet.           *)

(* cond_wait's comment: "Atomically releases LOCK and waits for COND to be *)
(* signaled".  Between the release and sema_down the waiter is on the      *)
(* condition's list with an empty semaphore, whose front cond_signal's     *)
(* sort asks for.                                                          *)
SignalFindsFronts == panic # "list_front"
=============================================================================
