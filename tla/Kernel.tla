------------------------------- MODULE Kernel -------------------------------
(***************************************************************************)
(* The threads component as a whole: scheduler, synchronization primitives *)
(* and alarm, driven by clients that make any sequence of the kernel calls *)
(* in Api within the rules the kernel's comments lay down (a lock is       *)
(* released by the thread that holds it and is not acquired twice, a       *)
(* thread that holds locks does not exit, a condition variable is used     *)
(* with its lock held).                                                    *)
(***************************************************************************)
EXTENDS Synch, Timer

vars == <<threadVars, synchVars, timerVars>>

Init == ThreadInit /\ SynchInit /\ TimerInit

-----------------------------------------------------------------------------
ThreadStep ==
    /\ \/ \E t \in Threads, p \in Priorities : thread_create(t, p)
       \/ thread_create_return
       \/ thread_yield
       \/ held[cur] = {} /\ thread_exit
       \/ \E p \in Priorities : thread_set_priority(p)
       \/ idle
    /\ UNCHANGED <<synchVars, timerVars>>

SemaStep ==
    /\ \/ \E s \in Semas : sema_down(s) \/ sema_try_down(s) \/ sema_up(s)
       \/ sema_down_loop
    /\ UNCHANGED timerVars

LockStep ==
    /\ \/ \E l \in Locks : lock_acquire(l) \/ lock_try_acquire(l) \/ lock_release(l)
       \/ lock_acquire_loop
       \/ lock_try_acquire_return
    /\ UNCHANGED timerVars

CondStep ==
    /\ \/ \E c \in Conds : cond_wait(c) \/ cond_signal(c) \/ cond_broadcast(c)
       \/ cond_wait_release
       \/ cond_wait_down
       \/ cond_wait_acquire
       \/ cond_signal_up
       \/ \E c \in Conds : cond_broadcast_loop(c) \/ cond_broadcast_return(c)
    /\ UNCHANGED timerVars

(* A thread may sleep with a lock held only where Api says so.             *)
SleepStep ==
    /\ \/ /\ Calls("timer_sleep")
          /\ held[cur] = {} \/ "timer_sleep_locked" \in Api
          /\ \E n \in 1..MaxTicks : timer_sleep(n)
       \/ timer_sleep_block
    /\ UNCHANGED synchVars

(* Steps of the running thread.                                            *)
CpuStep == ThreadStep \/ SemaStep \/ LockStep \/ CondStep \/ SleepStep

TimerTick == timer_interrupt /\ UNCHANGED synchVars

TimerHandler == (timer_interrupt_wake \/ timer_interrupt_return) /\ UNCHANGED synchVars

DeviceIntr == (\E s \in Semas : sema_up_from_intr(s)) /\ UNCHANGED timerVars

Next == panic = NULL /\ (CpuStep \/ TimerTick \/ TimerHandler \/ DeviceIntr)

Spec == Init /\ [][Next]_vars

(* What the hardware guarantees: the processor goes on executing kernel    *)
(* code, whatever the clients do, and the timer's interrupt, which stays   *)
(* pending while interrupts are off, is taken again and again.             *)
KernelCode == panic = NULL /\ pc[cur] # "run" /\ CpuStep

Fairness ==
    /\ SF_vars(KernelCode)
    /\ SF_vars(panic = NULL /\ TimerTick)
    /\ WF_vars(panic = NULL /\ TimerHandler)

FairSpec == Spec /\ Fairness

-----------------------------------------------------------------------------
Statuses == {"RUNNING", "READY", "BLOCKED", "DYING", "FREE"}

Entries == [priority : Priorities, lock : Locks \cup {NULL}]

Failures == {"thread_unblock", "lock_release", "holder", "stored_priority",
             "list_remove", "list_front"}

SchedType ==
    /\ cur \in AllThreads
    /\ ready_list \in Seq(Threads)
    /\ status \in [AllThreads -> Statuses]
    /\ thread_ticks \in 0..TIME_SLICE

IntrType == in_external_intr \in BOOLEAN /\ yield_on_return \in BOOLEAN

DonationType ==
    /\ priority \in [AllThreads -> Priorities]
    /\ master \in [AllThreads -> Locks \cup {NULL}]
    /\ stored \in [AllThreads -> Seq(Entries)]
    /\ base \in [AllThreads -> Priorities]

FrameType ==
    /\ pc \in [AllThreads -> Labels \cup Conds]
    /\ obj \in [AllThreads -> SemaIds \cup {NULL}]
    /\ ret \in [AllThreads -> {"run", "cwAcq"} \cup Conds]

SynchType ==
    /\ value \in [SemaIds -> Nat]
    /\ waiters \in [SemaIds -> Seq(Threads)]
    /\ holder \in [Locks -> Threads \cup {NULL}]
    /\ cond_waiters \in [Conds -> Seq(Threads)]
    /\ held \in [AllThreads -> SUBSET Locks]

TimerType == ticks \in 0..MaxTicks /\ alarm_list \in Seq(Threads)

(* Every variable keeps its type.                                          *)
TypeOK ==
    /\ SchedType /\ IntrType /\ DonationType /\ FrameType /\ SynchType /\ TimerType
    /\ wake_up_time \in [AllThreads -> Nat]
    /\ panic \in Failures \cup {NULL}

(* Where a thread can be, and on what object it works there: the idle      *)
(* thread never leaves its loop, a lock is at hand wherever lock_acquire,  *)
(* lock_try_acquire and cond_wait will use one, and sema_down is entered   *)
(* for a semaphore of the clients or from cond_wait.                       *)
CallsWellFormed ==
    /\ pc[Idle] \in {"loop", "hlt"}
    /\ \A t \in Threads :
        /\ pc[t] \in {"acq", "tried", "cwRel", "cwDown", "cwAcq"} => obj[t] \in Locks
        /\ pc[t] = "down" => obj[t] \in IF ret[t] = "cwAcq" THEN Locks ELSE Semas
        /\ pc[t] \in {"create", "signal"} => obj[t] \in Threads
        /\ ret[t] = "cwAcq" => pc[t] = "down"
        /\ ret[t] \in Conds => pc[t] \in {"signal", "yield"}

(* A thread whose time slice is used up is about to be preempted.          *)
SliceEnds ==
    thread_ticks >= TIME_SLICE => in_external_intr /\ yield_on_return

(* At most one client holds a lock, the lock's holder field names it and   *)
(* its semaphore is 0; this is what lock_release asserts.                  *)
MutualExclusion ==
    \A l \in Locks : \A t \in AllThreads :
        l \in held[t] => holder[l] = t /\ value[l] = 0

(* The inductive form.  A lock's semaphore is 0 or 1, and is 1 only when   *)
(* there is no holder; while a thread is between the two statements of     *)
(* lock_try_acquire the lock belongs to it, though no holder is named; and *)
(* a thread in cond_wait that is about to release its lock holds it.       *)
LockInv ==
    /\ \A l \in Locks : value[l] = 0 \/ (value[l] = 1 /\ holder[l] = NULL)
    /\ MutualExclusion
    /\ held[Idle] = {}
    /\ \A t \in Threads :
        /\ pc[t] = "cwRel" => obj[t] \in held[t]
        /\ pc[t] = "tried" =>
              /\ value[obj[t]] = 0 /\ holder[obj[t]] = NULL
              /\ \A u \in Threads : pc[u] = "tried" /\ obj[u] = obj[t] => u = t

(* TypeOK and LockInv do not follow from themselves alone: what a step     *)
(* does to a lock depends on where its thread is in the code.              *)
IInv == TypeOK /\ CallsWellFormed /\ SliceEnds /\ LockInv
=============================================================================
