------------------------------- MODULE Thread -------------------------------
(***************************************************************************)
(* Threads and the scheduler (threads/thread.c, threads/interrupt.c) of a  *)
(* kernel that runs on one processor, with the priority scheduler (the     *)
(* boot option mlfqs is off).                                              *)
(*                                                                         *)
(* Only the running thread cur acts.  What it does with interrupts turned  *)
(* off is one step, up to the context switch at its end; where interrupts  *)
(* are on in the middle of a kernel function the step ends and pc[t] names *)
(* the place where the thread will continue:                               *)
(*    run    in client code, between two kernel calls                      *)
(*    yield  at a call of thread_yield, interrupts still on                *)
(*    create in thread_create, after thread_unblock (t)                    *)
(*    down   in the loop of sema_down, interrupts off                      *)
(*    acq    in the loop of lock_acquire, interrupts off                   *)
(*    tried  in lock_try_acquire, between sema_try_down and holder         *)
(*    cwRel, cwDown, cwAcq  in cond_wait, at the three calls it makes      *)
(*    signal in cond_signal, at the call of sema_up                        *)
(*    a condition variable  in cond_broadcast of it, at the loop test      *)
(*    sleep  in timer_sleep, between timer_ticks () and intr_disable ()    *)
(*    loop, hlt  in idle, at the top of its loop and in "sti; hlt"         *)
(* obj[t] and ret[t] hold the object the call works on and the place the   *)
(* call returns to.                                                        *)
(*                                                                         *)
(* A failed ASSERT, a null pointer dereference in the kernel and undefined *)
(* behaviour set panic, and nothing happens afterwards.                    *)
(***************************************************************************)
EXTENDS KernelList, FiniteSets

CONSTANTS Threads,      \* the pages that can hold a struct thread
          Main,         \* initial_thread
          Idle,         \* idle_thread
          Locks,        \* the locks, each with its semaphore
          NULL,
          PRI_MAX,      \* 63 in thread.h
          PRI_DEFAULT,  \* 31 in thread.h
          TIME_SLICE,   \* 4 in thread.c
          Api           \* the kernel calls that the clients make

PRI_MIN == 0

ASSUME ThreadAssumption ==
    /\ Main \in Threads
    /\ Idle \notin Threads
    /\ NULL \notin Threads \cup Locks \cup {Idle}
    /\ (Threads \cup {Idle}) \cap Locks = {}
    /\ PRI_MAX \in Nat
    /\ PRI_DEFAULT \in PRI_MIN..PRI_MAX
    /\ TIME_SLICE \in Nat \ {0}

Priorities == PRI_MIN..PRI_MAX

VARIABLES
    cur,              \* running_thread ()
    ready_list,
    thread_ticks,     \* timer ticks since the last switch
    in_external_intr,
    yield_on_return,
    \* struct thread
    status,           \* FREE stands for a page that holds no thread
    priority,
    master,           \* priority_lock_master
    stored,           \* the pairs stored_priority[i], stored_lock_master[i]
    wake_up_time,
    \* where each thread is in the kernel's code
    pc, obj, ret,
    panic,            \* the assertion that failed, or NULL
    base              \* history: the priority the thread was last given by
                      \* thread_create or thread_set_priority

sched    == <<cur, ready_list, status, thread_ticks>>
intr     == <<in_external_intr, yield_on_return>>
donation == <<priority, master, stored, base>>
frame    == <<pc, obj, ret>>
threadVars == <<sched, intr, donation, frame, wake_up_time, panic>>

AllThreads == Threads \cup {Idle}

Labels == {"run", "yield", "create", "down", "acq", "tried", "cwRel", "cwDown",
           "cwAcq", "signal", "sleep", "loop", "hlt"}

-----------------------------------------------------------------------------
(* Mutants of the next definition: thread_priority_large_func with >=, and *)
(* list_push_back.                                                         *)
insert_before_equals(list, t, pri) ==
    LET larger == [a \in AllThreads |-> [b \in AllThreads |-> pri[a] >= pri[b]]]
    IN  list_insert_ordered(list, t, larger)

insert_at_back(list, t, pri) == Append(list, t)

(* list_insert_ordered with thread_priority_large_func.                    *)
insert_by_priority(list, t, pri) ==
    LET larger == [a \in AllThreads |-> [b \in AllThreads |-> pri[a] > pri[b]]]
    IN  list_insert_ordered(list, t, larger)

(* The thread that schedule picks from the run queue rl.                   *)
next_thread_to_run(rl) == IF rl = <<>> THEN Idle ELSE Head(rl)

(* The switch to the next thread of rl, where st holds the statuses with   *)
(* the current thread's already changed: thread_schedule_tail marks the    *)
(* next thread running, starts its time slice and frees the page of a      *)
(* previous thread that is dying.                                          *)
schedule(st, rl) ==
    LET next == next_thread_to_run(rl)
    IN  /\ cur' = next
        /\ ready_list' = IF rl = <<>> THEN rl ELSE Tail(rl)
        /\ status' = [st EXCEPT
              ![cur]  = IF @ = "DYING" /\ cur # Main THEN "FREE" ELSE @,
              ![next] = "RUNNING"]
        /\ thread_ticks' = 0

(* thread_block, from a run queue rl that the caller may have changed.     *)
thread_block(rl) == schedule([status EXCEPT ![cur] = "BLOCKED"], rl)

(* The body of thread_yield.                                               *)
yield(st, rl, pri) ==
    schedule([st EXCEPT ![cur] = "READY"],
             IF cur = Idle THEN rl ELSE insert_by_priority(rl, cur, pri))

-----------------------------------------------------------------------------
(* Where the running thread is.                                            *)
At(label) == ~in_external_intr /\ pc[cur] = label

(* A client thread, between two kernel calls, calls op.                    *)
Calls(op) == op \in Api /\ cur \in Threads /\ At("run")

(* Interrupts are on: an external interrupt can be taken.                  *)
IntrOn == ~in_external_intr /\ pc[cur] \notin {"down", "acq"}

GoTo(label) == pc' = [pc EXCEPT ![cur] = label]

(* ASSERT (cond): the kernel panics when cond is false.                    *)
ASSERT(cond, name) == panic' = IF cond THEN panic ELSE name

-----------------------------------------------------------------------------
(* thread_create: init_thread (t) and thread_unblock (t).  The page and    *)
(* the tid come from palloc_get_page and allocate_tid, whose own locks are *)
(* not part of this module; without a free page nothing changes.           *)
thread_create(t, p) ==
    /\ Calls("thread_create")
    /\ status[t] = "FREE"
    /\ priority' = [priority EXCEPT ![t] = p]
    /\ base' = [base EXCEPT ![t] = p]
    /\ master' = [master EXCEPT ![t] = NULL]
    /\ stored' = [stored EXCEPT ![t] = <<>>]
    /\ wake_up_time' = [wake_up_time EXCEPT ![t] = 0]
    /\ status' = [status EXCEPT ![t] = "READY"]
    /\ ready_list' = insert_by_priority(ready_list, t, priority')
    /\ pc' = [pc EXCEPT ![cur] = "create", ![t] = "run"]
    /\ obj' = [obj EXCEPT ![cur] = t, ![t] = NULL]
    /\ ret' = [ret EXCEPT ![t] = "run"]
    /\ UNCHANGED <<cur, thread_ticks, intr, panic>>

(* The test that ends thread_create.  The new thread may have run and      *)
(* exited by now; then t->priority is read from a page that is free and    *)
(* may be in use for something else.                                       *)
thread_create_return ==
    /\ At("create")
    /\ \E larger \in IF status[obj[cur]] = "FREE"
                       THEN BOOLEAN
                       ELSE {priority[cur] < priority[obj[cur]]} :
          GoTo(IF larger THEN "yield" ELSE "run")
    /\ obj' = [obj EXCEPT ![cur] = NULL]
    /\ UNCHANGED <<sched, intr, donation, ret, wake_up_time, panic>>

thread_yield ==
    /\ Calls("thread_yield") \/ At("yield")
    /\ yield(status, ready_list, priority)
    /\ GoTo(ret[cur])
    /\ ret' = [ret EXCEPT ![cur] = "run"]
    /\ UNCHANGED <<intr, donation, obj, wake_up_time, panic>>

thread_exit ==
    /\ Calls("thread_exit")
    /\ schedule([status EXCEPT ![cur] = "DYING"], ready_list)
    /\ UNCHANGED <<intr, donation, frame, wake_up_time, panic>>

(* Mutant: the donation is overwritten.                                    *)
thread_set_priority_always(p) ==
    /\ Calls("thread_set_priority")
    /\ base' = [base EXCEPT ![cur] = p]
    /\ priority' = [priority EXCEPT ![cur] = p]
    /\ GoTo("yield")
    /\ UNCHANGED <<sched, intr, master, stored, obj, ret, wake_up_time, panic>>

(* With a donation in force only the stored base priority changes.         *)
thread_set_priority(p) ==
    /\ Calls("thread_set_priority")
    /\ base' = [base EXCEPT ![cur] = p]
    /\ IF stored[cur] # <<>>
         THEN /\ stored' = [stored EXCEPT ![cur][1].priority = p]
              /\ UNCHANGED <<priority, pc>>
         ELSE /\ priority' = [priority EXCEPT ![cur] = p]
              /\ GoTo("yield")
              /\ UNCHANGED stored
    /\ UNCHANGED <<sched, intr, master, obj, ret, wake_up_time, panic>>

(* One turn of the idle thread's loop, up to "sti; hlt".                   *)
idle ==
    /\ At("loop")
    /\ thread_block(ready_list)
    /\ GoTo("hlt")
    /\ UNCHANGED <<intr, donation, obj, ret, wake_up_time, panic>>

(* thread_init and thread_start are over: the idle thread has upped        *)
(* idle_started and yielded to the initial thread; it is not on the run    *)
(* queue and has not come to its loop yet.                                 *)
ThreadInit ==
    /\ cur = Main
    /\ ready_list = <<>>
    /\ thread_ticks = 0
    /\ in_external_intr = FALSE
    /\ yield_on_return = FALSE
    /\ status = [t \in AllThreads |-> IF t = Main THEN "RUNNING"
                                      ELSE IF t = Idle THEN "READY" ELSE "FREE"]
    /\ priority = [t \in AllThreads |-> IF t = Main THEN PRI_DEFAULT ELSE PRI_MIN]
    /\ base = priority
    /\ master = [t \in AllThreads |-> NULL]
    /\ stored = [t \in AllThreads |-> <<>>]
    /\ wake_up_time = [t \in AllThreads |-> 0]
    /\ pc = [t \in AllThreads |-> IF t = Idle THEN "loop" ELSE "run"]
    /\ obj = [t \in AllThreads |-> NULL]
    /\ ret = [t \in AllThreads |-> "run"]
    /\ panic = NULL
=============================================================================
