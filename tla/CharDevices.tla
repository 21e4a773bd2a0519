---------------------------- MODULE CharDevices -----------------------------
(***************************************************************************)
(* Threads that write lines to the console (lib/kernel/console.c) and      *)
(* threads that read keys, with the serial port and the keyboard, from     *)
(* console_init on.  The display gets the same bytes and is modelled in    *)
(* Vga.                                                                    *)
(***************************************************************************)
EXTENDS Serial, Kbd

CONSTANTS Readers,     \* the threads that read keys; the others write
          LineLength,
          MaxHandler,  \* bound: bytes written by interrupt handlers
          Scancodes,   \* bound: the keys that are used
          MaxKeys      \* bound: bytes typed and received

ASSUME LineAssumption == LineLength \in Nat

VARIABLES console_lock,         \* its holder, or NULL
          console_lock_depth,
          use_console_lock,
          left                  \* what each writer still has to write of each call

consoleVars == <<console_lock, console_lock_depth, use_console_lock, left>>

vars == <<serialVars, kbdVars, consoleVars, pc, off, panic>>

Writers == Threads \ Readers

Init ==
    /\ SerialInit
    /\ KbdInit
    /\ pc = [t \in Threads |-> IF t \in Readers THEN "getc" ELSE "run"]
    /\ off = NULL /\ panic = FALSE
    /\ console_lock = NULL /\ console_lock_depth = 0
    /\ use_console_lock = TRUE
    /\ left = [t \in Threads |-> <<>>]

(* debug_panic by t, with interrupts off for good: console_panic, a        *)
(* message without the lock, here one byte, and serial_flush.              *)
debug_panic(t) ==
    /\ off = NULL
    /\ pc[t] \in {"run", "line", "done"}
    /\ off' = t
    /\ use_console_lock' = FALSE
    /\ sent' = Append(sent, "panic")
    /\ serial_flush(<<"panic">>)
    /\ mode' = IF mode = "UNINIT" THEN "POLL" ELSE mode
    /\ pc' = Signal([pc EXCEPT ![t] = "panic"], txq.not_full)
    /\ UNCHANGED <<kbdVars, ier, rbr, accepted, got, console_lock, console_lock_depth, left, panic>>

(* The bytes of t so far.                                                  *)
Written(t) == Len(SelectSeq(sent, LAMBDA b : b = t))

(* putbuf, puts or vprintf by t: acquire_console.  A call inside a call of *)
(* the same thread, here after its first byte, counts in the depth.        *)
acquire_console(t) ==
    /\ off = NULL
    /\ \/ pc[t] = "run" /\ left[t] = <<>>
       \/ pc[t] = "line" /\ Len(left[t]) = 1 /\ Written(t) = 1
    /\ IF ~use_console_lock THEN UNCHANGED <<console_lock, console_lock_depth>>
       ELSE IF console_lock = t
       THEN console_lock_depth' = console_lock_depth + 1 /\ UNCHANGED console_lock
       ELSE /\ console_lock = NULL
            /\ console_lock' = t
            /\ UNCHANGED console_lock_depth
    /\ left' = [left EXCEPT ![t] = <<IF @ = <<>> THEN LineLength ELSE 1>> \o @]
    /\ pc' = [pc EXCEPT ![t] = "line"]
    /\ UNCHANGED <<serialVars, kbdVars, use_console_lock, off, panic>>

(* putchar_have_lock: serial_putc of the next byte, t's name.              *)
putchar_have_lock(t) ==
    /\ pc[t] = "line"
    /\ off \in {NULL, t}
    /\ Head(left[t]) > 0
    /\ serial_putc(t, t, "line")
    /\ left' = IF sent' # sent THEN [left EXCEPT ![t][1] = @ - 1] ELSE left
    /\ UNCHANGED <<kbdVars, console_lock, console_lock_depth, use_console_lock>>

(* Mutant: an inner call leaves the console altogether.                    *)
ReleaseInner(t) ==
    /\ off = NULL
    /\ pc[t] = "line"
    /\ Head(left[t]) = 0
    /\ console_lock' = NULL /\ console_lock_depth' = 0
    /\ left' = [left EXCEPT ![t] = Tail(@)]
    /\ pc' = [pc EXCEPT ![t] = IF Len(left[t]) = 1 THEN "done" ELSE "line"]
    /\ UNCHANGED <<serialVars, kbdVars, use_console_lock, off, panic>>

release_console(t) ==
    /\ off = NULL
    /\ pc[t] = "line"
    /\ Head(left[t]) = 0
    /\ IF ~use_console_lock THEN UNCHANGED <<console_lock, console_lock_depth, panic>>
       ELSE IF console_lock_depth > 0
       THEN console_lock_depth' = console_lock_depth - 1 /\ UNCHANGED <<console_lock, panic>>
       ELSE /\ panic' = (panic \/ console_lock # t)
            /\ console_lock' = NULL
            /\ UNCHANGED console_lock_depth
    /\ left' = [left EXCEPT ![t] = Tail(@)]
    /\ pc' = [pc EXCEPT ![t] = IF Len(left[t]) = 1 THEN "done" ELSE "line"]
    /\ UNCHANGED <<serialVars, kbdVars, use_console_lock, off>>

ReadKey(t) ==
    /\ pc[t] = "getc"
    /\ off \in {NULL, t}
    /\ input_getc(t, "getc")
    /\ UNCHANGED <<kbdVars, consoleVars>>

(* The parts of a call that waits on its queue.                            *)
Waiting(t) ==
    LET x == IF t \in Readers THEN "buffer" ELSE "txq"
        condition == IF t \in Readers THEN "not_empty" ELSE "not_full"
    IN  /\ \/ LockAcquired(t, x, condition)
           \/ Resume(t, x, IF t \in Readers THEN "getc" ELSE "line")
        /\ UNCHANGED <<mode, uart, sent, out, accepted, got, kbdVars, consoleVars>>

-----------------------------------------------------------------------------
HandlerPrints ==
    /\ Len(SelectSeq(sent, LAMBDA b : b = "handler")) < MaxHandler
    /\ serial_putc_off("handler")
    /\ UNCHANGED <<kbdVars, consoleVars>>

(* Typed and received bytes so far.                                        *)
Keys == Len(accepted) + (IF rbr # NULL THEN 1 ELSE 0)

(* Mutant: a full buffer is not noticed.                                   *)
KeyboardUnchecked ==
    \E code \in Scancodes, release \in BOOLEAN :
        /\ off = NULL
        /\ KeyStroke(code, release)
        /\ IF KeyBytes(code, release) = {} THEN UNCHANGED <<serialVars, pc, off, panic>>
           ELSE Keys < MaxKeys /\ \E c \in KeyBytes(code, release) : input_putc(c)
        /\ UNCHANGED consoleVars

keyboard_interrupt ==
    \E code \in Scancodes, release \in BOOLEAN :
        /\ off = NULL
        /\ KeyStroke(code, release)
        /\ IF KeyBytes(code, release) = {} \/ input_full(queue)
           THEN UNCHANGED <<serialVars, pc, off, panic>>
           ELSE Keys < MaxKeys /\ \E c \in KeyBytes(code, release) : input_putc(c)
        /\ UNCHANGED consoleVars

Device ==
    /\ \/ serial_init_queue \/ Transmitted
       \/ (Keys < MaxKeys /\ Received(0))
    /\ UNCHANGED <<kbdVars, consoleVars>>

SerialInterrupt == serial_interrupt /\ UNCHANGED <<kbdVars, consoleVars>>

ThreadStep(t) ==
    acquire_console(t) \/ putchar_have_lock(t) \/ release_console(t) \/ ReadKey(t) \/ Waiting(t)

(* A writer's own line, without calls inside the call.                     *)
WriterStep(t) == putchar_have_lock(t) \/ release_console(t) \/ Waiting(t)

Next ==
    /\ ~panic
    /\ \/ \E t \in Threads : ThreadStep(t)
       \/ \E t \in Writers : debug_panic(t)
       \/ HandlerPrints
       \/ keyboard_interrupt \/ Device \/ SerialInterrupt

(* The processor goes on with a thread that can run, the UART sends, and a *)
(* pending interrupt is taken; serial_init_queue is called at boot.        *)
Fairness ==
    /\ \A t \in Threads : WF_vars(WriterStep(t) \/ ReadKey(t))
    /\ WF_vars(SerialInterrupt)
    /\ WF_vars(Transmitted /\ UNCHANGED <<kbdVars, consoleVars>>)
    /\ WF_vars(serial_init_queue /\ UNCHANGED <<kbdVars, consoleVars>>)

Spec == Init /\ [][Next]_vars /\ Fairness

-----------------------------------------------------------------------------
(* NoPanic: the ASSERTs of intq.c, input.c and lock_release hold: with one *)
(* reader and writers behind the console lock no waiter finds its          *)
(* condition already true.                                                 *)
NoPanic == ~panic

(* OutputInOrder: the bytes given to serial_putc reach the UART once and   *)
(* in this order, whether a handler empties the queue, a caller with       *)
(* interrupts off polls a byte out of a full queue, or serial_flush runs.  *)
OutputInOrder == out \o Bytes(txq) = sent

(* InputInOrder: the reader gets the typed and received bytes once and in  *)
(* the order of the interrupts that brought them.                          *)
InputInOrder == got \o Bytes(buffer) = accepted

(* LinesNotMixed: while the console lock is in use, the bytes of one       *)
(* thread's line, with the calls inside it, are next to each other but for *)
(* those that interrupt handlers write.                                    *)
LinesNotMixed ==
    use_console_lock => \A i, k, j \in DOMAIN sent :
        i < k /\ k < j /\ sent[i] = sent[j] => sent[k] \in {sent[i], "handler"} \/ sent[i] = "handler"

(* DepthMatchesCalls: console_lock_depth counts the calls that its holder  *)
(* is inside of, so that the outermost one releases the lock.              *)
DepthMatchesCalls ==
    use_console_lock =>
        console_lock_depth = IF console_lock = NULL THEN 0 ELSE Len(left[console_lock]) - 1

(* NoLostInterrupt: whenever interrupts may come, the UART is told to      *)
(* interrupt if there is something to send, and about received bytes just  *)
(* when there is room for them.                                            *)
NoLostInterrupt ==
    mode = "QUEUE" =>
        /\ ~intq_empty(txq) => "IER_XMIT" \in ier
        /\ "IER_RECV" \in ier <=> ~intq_full(buffer)

(* LinesFinish: unless the kernel panics, a thread that writes a line gets *)
(* to its end: a full queue is emptied and whoever waits for room is woken.*)
LinesFinish == \A t \in Writers : pc[t] = "line" ~> pc[t] = "done" \/ ~use_console_lock

(* InputArrives: unless the kernel panics, every byte that an interrupt    *)
(* handler stores is read.                                                 *)
InputArrives == <>[](got = accepted \/ ~use_console_lock)

(* CallsFinish: who waits for an interrupt queue, for room or for a byte,  *)
(* is woken in the end (signal in intq.c, write_ier in serial.c).          *)
CallsFinish == LinesFinish /\ InputArrives
=============================================================================
