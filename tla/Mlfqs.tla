------------------------------- MODULE Mlfqs --------------------------------
(***************************************************************************)
(* The advanced scheduler (option -mlfqs): the parts of threads/thread.c,  *)
(* threads/fixed-point.h and devices/timer.c that compute priorities.  The *)
(* state s holds for each thread its priority, nice and recent_cpu, and    *)
(*   ready    ready_list                                                   *)
(*   cur      the running thread, idle_thread when ready_list is empty     *)
(*   fronts   the threads inside thread_set_nice, between the test of      *)
(*            ready_list and the look at its front                         *)
(*   load_avg, ticks, thread_ticks, panic                                  *)
(* A thread that is neither running nor ready is blocked.                  *)
(***************************************************************************)
EXTENDS Integers, KernelList

CONSTANTS Threads, idle_thread, Q, TIMER_FREQ, TIME_SLICE, PRI_MIN, PRI_MAX

(* The multiplier F of fixed-point.h, 2^14 in the code.                    *)
F == 2^Q

(* Division of C, towards 0.                                               *)
Quot(x, y) == IF x >= 0 THEN x \div y ELSE -((-x) \div y)

INT_TO_FP(n) == n * F

FP_TO_INT_TRUNC(x) == Quot(x, F)

FP_TO_INT_ROUND(x) == IF x >= 0 THEN Quot(x + Quot(F, 2), F) ELSE Quot(x - Quot(F, 2), F)

FP_ADD_INT(x, n) == x + n * F

(* x * y / F, where the product has 64 bits: the parts of x above and      *)
(* below the point are multiplied apart.                                   *)
FP_MUL_FP(x, y) ==
    LET mul(a, b) == (a \div F) * b + (a % F) * (b \div F) + ((a % F) * (b % F)) \div F
    IN  IF y >= 0 THEN mul(x, y) ELSE -mul(x, -y)

(* x * F / y, with a dividend of 64 bits: F is multiplied in by halves.    *)
FP_DIV_FP(x, y) ==
    LET half == 2^(Q \div 2)
        r == (x % y) * half
    IN  (x \div y) * F + (r \div y) * half + ((r % y) * half) \div y

-----------------------------------------------------------------------------
Clamped(p) == IF p > PRI_MAX THEN PRI_MAX ELSE IF p < PRI_MIN THEN PRI_MIN ELSE p

(* The priority that recent_cpu and nice give.                             *)
PriorityFor(recent_cpu, nice) ==
    Clamped(PRI_MAX - FP_TO_INT_TRUNC(Quot(recent_cpu, 4)) - nice * 2)

thread_update_priority_with_nice(s, t) ==
    IF t = idle_thread THEN s
    ELSE [s EXCEPT !.priority[t] = PriorityFor(s.recent_cpu[t], s.nice[t])]

thread_update_priority_with_nice_all(s) ==
    [s EXCEPT !.priority = [t \in Threads |-> PriorityFor(s.recent_cpu[t], s.nice[t])]]

(* thread_update_recent_cpu for the value r of a thread whose nice is n.   *)
thread_update_recent_cpu(load_avg, r, n) ==
    LET a == load_avg * 2
        b == FP_DIV_FP(a, FP_ADD_INT(a, 1))
    IN  FP_ADD_INT(FP_MUL_FP(b, r), n)

thread_priority_large_func(s) ==
    [a \in Threads |-> [b \in Threads |-> s.priority[a] > s.priority[b]]]

(* Mutant: the queue keeps the order of the old priorities.                *)
UpdateUnsorted(s) ==
    thread_update_priority_with_nice_all(
        [s EXCEPT !.recent_cpu =
            [t \in Threads |-> thread_update_recent_cpu(s.load_avg, @[t], s.nice[t])]])

thread_update_recent_cpu_all(s) ==
    LET r == [s EXCEPT !.recent_cpu =
                 [t \in Threads |-> thread_update_recent_cpu(s.load_avg, @[t], s.nice[t])]]
        u == thread_update_priority_with_nice_all(r)
    IN  [u EXCEPT !.ready = list_sort(@, thread_priority_large_func(u))]

update_load_avg(s) ==
    LET co == Len(s.ready) + (IF s.cur # idle_thread THEN 1 ELSE 0)
        a == FP_MUL_FP(Quot(INT_TO_FP(59), 60), s.load_avg)
        b == Quot(INT_TO_FP(1), 60) * co
    IN  [s EXCEPT !.load_avg = a + b]

thread_ins_recent_cpu(s) ==
    IF s.cur = idle_thread THEN s
    ELSE [s EXCEPT !.recent_cpu[s.cur] = FP_ADD_INT(@, 1)]

-----------------------------------------------------------------------------
(* init_thread: a thread has the priority that its creator gave it.        *)
MlfqsInit(priority) ==
    [priority |-> priority, nice |-> [t \in Threads |-> 0],
     recent_cpu |-> [t \in Threads |-> INT_TO_FP(0)],
     ready |-> <<>>, cur |-> idle_thread, fronts |-> {},
     load_avg |-> 0, ticks |-> 0, thread_ticks |-> 0, panic |-> FALSE]

(* schedule takes the front of ready_list, or idle_thread.                 *)
schedule(s) ==
    [s EXCEPT !.cur = IF s.ready = <<>> THEN idle_thread ELSE Head(s.ready),
              !.ready = IF @ = <<>> THEN @ ELSE Tail(@),
              !.thread_ticks = 0]

thread_unblock(s, t) ==
    [s EXCEPT !.ready = list_insert_ordered(@, t, thread_priority_large_func(s))]

thread_yield(s) == schedule(IF s.cur = idle_thread THEN s ELSE thread_unblock(s, s.cur))

thread_block(s) == schedule(s)

thread_tick(s) == [s EXCEPT !.thread_ticks = @ + 1]

(* timer_interrupt, and the return from it, on which a thread whose time   *)
(* slice is over yields.                                                   *)
timer_interrupt(s) ==
    LET a == thread_ins_recent_cpu(thread_tick([s EXCEPT !.ticks = @ + 1]))
        b == IF a.ticks % TIMER_FREQ = 0 THEN thread_update_recent_cpu_all(update_load_avg(a)) ELSE a
        c == IF a.ticks % 4 = 0 THEN thread_update_priority_with_nice(b, b.cur) ELSE b
    IN  IF c.thread_ticks >= TIME_SLICE THEN thread_yield(c) ELSE c

(* thread_set_nice up to its test of ready_list, and from the look at the  *)
(* front on: interrupts are enabled in between.                            *)
thread_set_nice(s, nice) ==
    LET u == thread_update_priority_with_nice([s EXCEPT !.nice[s.cur] = nice], s.cur)
    IN  IF s.ready = <<>> THEN u ELSE [u EXCEPT !.fronts = @ \cup {s.cur}]

LookAtFront(s) ==
    LET u == [s EXCEPT !.fronts = @ \ {s.cur}]
    IN  IF s.ready = <<>> THEN [u EXCEPT !.panic = TRUE]
        ELSE IF s.priority[Head(s.ready)] > s.priority[s.cur] THEN thread_yield(u)
        ELSE u

(* 100 times the averages, rounded.                                        *)
thread_get_load_avg(s) == FP_TO_INT_ROUND(s.load_avg * 100)

thread_get_recent_cpu(s) == FP_TO_INT_ROUND(s.recent_cpu[s.cur] * 100)
=============================================================================
