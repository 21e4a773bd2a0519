------------------------------- MODULE Timer --------------------------------
(***************************************************************************)
(* The timer's alarm and its interrupt (devices/timer.c), with             *)
(* intr_handler (threads/interrupt.c) around it.  The handler runs with    *)
(* interrupts off and in_external_intr set, so nothing interleaves with    *)
(* its steps.                                                              *)
(*                                                                         *)
(* ticks stops at MaxTicks, and no thread asks to sleep beyond it: the     *)
(* clock goes on interrupting when its value can no longer matter to an    *)
(* alarm.                                                                  *)
(***************************************************************************)
EXTENDS Thread

CONSTANTS MaxTicks   \* bound on the value of ticks

ASSUME TimerAssumption == MaxTicks \in Nat

VARIABLES ticks,
          alarm_list   \* the sleeping threads, linked by alarm_elem

timerVars == <<ticks, alarm_list>>

(* Mutant: list_push_back.                                                 *)
insert_last(list, t, wake) == Append(list, t)

(* list_insert_ordered with alarm_less_func.                               *)
insert_by_wake_up_time(list, t, wake) ==
    LET less == [a \in AllThreads |-> [b \in AllThreads |-> wake[a] < wake[b]]]
    IN  list_insert_ordered(list, t, less)

-----------------------------------------------------------------------------
(* timer_sleep (n) reads the clock with interrupts on.  The sum of n and   *)
(* the local variable start is kept in wake_up_time, which nobody reads    *)
(* before the thread is on alarm_list.                                     *)
timer_sleep(n) ==
    /\ ticks + n <= MaxTicks
    /\ wake_up_time' = [wake_up_time EXCEPT ![cur] = ticks + n]
    /\ GoTo("sleep")
    /\ UNCHANGED <<sched, intr, donation, obj, ret, panic, timerVars>>

timer_sleep_block ==
    /\ At("sleep")
    /\ alarm_list' = insert_by_wake_up_time(alarm_list, cur, wake_up_time)
    /\ thread_block(ready_list)
    /\ GoTo("run")
    /\ UNCHANGED <<intr, donation, obj, ret, wake_up_time, panic, ticks>>

-----------------------------------------------------------------------------
(* The test of thread_tick.                                                *)
SliceOver == thread_ticks + 1 >= TIME_SLICE

(* Mutant: the clock stands still while no thread is ready.                *)
TickUnlessIdle == IF ticks < MaxTicks /\ cur # Idle THEN ticks + 1 ELSE ticks

(* The clock after a tick.                                                 *)
NextTick == IF ticks < MaxTicks THEN ticks + 1 ELSE ticks

(* intr_handler is entered and timer_interrupt counts the tick, for the    *)
(* clock and (thread_tick) for the running thread's time slice.  A thread  *)
(* in "sti; hlt" goes on after the interrupt.                              *)
timer_interrupt ==
    /\ "timer" \in Api
    /\ IntrOn
    /\ in_external_intr' = TRUE
    /\ ticks' = NextTick
    /\ thread_ticks' = thread_ticks + 1
    /\ yield_on_return' = SliceOver
    /\ GoTo(IF cur = Idle THEN "loop" ELSE pc[cur])
    /\ UNCHANGED <<cur, ready_list, status, donation, obj, ret, wake_up_time,
                   panic, alarm_list>>

(* The test of the loop over alarm_list.                                   *)
HeadIsDue == alarm_list # <<>> /\ wake_up_time[Head(alarm_list)] <= ticks

(* One iteration of the loop over alarm_list.                              *)
timer_interrupt_wake ==
    /\ in_external_intr
    /\ HeadIsDue
    /\ LET head == Head(alarm_list)
       IN  /\ ASSERT(status[head] = "BLOCKED", "thread_unblock")
           /\ ready_list' = insert_by_priority(ready_list, head, priority)
           /\ status' = [status EXCEPT ![head] = "READY"]
    /\ alarm_list' = Tail(alarm_list)
    /\ UNCHANGED <<cur, thread_ticks, intr, donation, frame, wake_up_time, ticks>>

(* The loop is over: intr_handler ends, with a yield if one is asked for.  *)
timer_interrupt_return ==
    /\ in_external_intr
    /\ ~HeadIsDue
    /\ in_external_intr' = FALSE
    /\ IF yield_on_return THEN yield(status, ready_list, priority)
                          ELSE UNCHANGED sched
    /\ UNCHANGED <<yield_on_return, donation, frame, wake_up_time, panic, timerVars>>

TimerInit == ticks = 0 /\ alarm_list = <<>>
=============================================================================
