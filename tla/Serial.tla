------------------------------- MODULE Serial -------------------------------
(***************************************************************************)
(* The serial port (devices/serial.c) and the input buffer                 *)
(* (devices/input.c), with the UART they drive.  The UART is external: it  *)
(* sends the byte in its holding register, receives one byte at a time and *)
(* asks for an interrupt as its interrupt enable register, ier, says.      *)
(***************************************************************************)
EXTENDS Intq

VARIABLES mode,       \* UNINIT, POLL or QUEUE
          ier,        \* interrupt enable register: which interrupts are on
          thre,       \* the transmitter holding register is empty
          rbr,        \* the received byte, or NULL
          sent,       \* history: the bytes passed to serial_putc
          out,        \* history: the bytes written to the UART
          accepted,   \* history: the bytes passed to input_putc
          got         \* history: the bytes that input_getc returned

uart == <<ier, thre, rbr>>

serialVars == <<queue, mode, uart, sent, out, accepted, got>>

txq == queue["txq"]

buffer == queue["buffer"]

input_full(q) == intq_full(q["buffer"])

(* The register for the queues q; init_poll turns all interrupts off.      *)
write_ier(m, q) ==
    IF m # "QUEUE" THEN {}
    ELSE {i \in {"IER_XMIT", "IER_RECV"} :
             IF i = "IER_XMIT" THEN ~intq_empty(q["txq"]) ELSE ~input_full(q)}

(* init_poll runs in the first serial_putc or serial_init_queue.           *)
SerialInit ==
    /\ queue = [x \in {"txq", "buffer"} |-> intq_init]
    /\ mode = "UNINIT"
    /\ ier = {} /\ thre = TRUE /\ rbr = NULL
    /\ sent = <<>> /\ out = <<>> /\ accepted = <<>> /\ got = <<>>

serial_init_queue ==
    /\ mode # "QUEUE"
    /\ off = NULL
    /\ mode' = "QUEUE"
    /\ ier' = write_ier("QUEUE", queue)
    /\ UNCHANGED <<queue, thre, rbr, sent, out, accepted, got, pc, off, panic>>

(* putc_poll: busy-waits until the register is empty and fills it.         *)
putc_poll(byte) ==
    /\ out' = Append(out, byte)
    /\ thre' = FALSE

-----------------------------------------------------------------------------
(* serial_putc(byte) with interrupts on, by thread t, which then is at     *)
(* done.                                                                   *)
serial_putc(t, byte, done) ==
    \/ /\ mode # "QUEUE"
       /\ mode' = "POLL"
       /\ putc_poll(byte)
       /\ sent' = Append(sent, byte)
       /\ pc' = [pc EXCEPT ![t] = done]
       /\ UNCHANGED <<queue, ier, rbr, accepted, got, off, panic>>
    \/ /\ mode = "QUEUE"
       /\ ~intq_full(txq)
       /\ queue' = [queue EXCEPT !["txq"] = Put(txq, byte)]
       /\ pc' = Signal([pc EXCEPT ![t] = done], txq.not_empty)
       /\ ier' = write_ier(mode, queue')
       /\ sent' = Append(sent, byte)
       /\ off' = NULL
       /\ UNCHANGED <<mode, thre, rbr, out, accepted, got, panic>>
    \/ /\ mode = "QUEUE"
       /\ WaitFor(t, "txq", "not_full")
       /\ UNCHANGED <<mode, uart, sent, out, accepted, got>>

(* Mutant: the new byte overtakes the queue.                               *)
PutcOffDirect(byte) ==
    /\ off = NULL
    /\ mode = "QUEUE"
    /\ IF intq_full(txq) THEN putc_poll(byte) /\ UNCHANGED <<queue, pc, ier>>
       ELSE /\ queue' = [queue EXCEPT !["txq"] = Put(txq, byte)]
            /\ pc' = Signal(pc, txq.not_empty)
            /\ ier' = write_ier(mode, queue')
            /\ UNCHANGED <<out, thre>>
    /\ sent' = Append(sent, byte)
    /\ UNCHANGED <<mode, rbr, accepted, got, off, panic>>

(* serial_putc(byte) with interrupts off before the call, as in an         *)
(* interrupt handler: a full queue loses its first byte to the port.       *)
serial_putc_off(byte) ==
    /\ off = NULL
    /\ mode = "QUEUE"
    /\ LET full == intq_full(txq)
           q == IF full THEN Got(txq) ELSE txq
       IN  /\ IF full THEN putc_poll(txq.buf[txq.tail]) ELSE UNCHANGED <<out, thre>>
           /\ queue' = [queue EXCEPT !["txq"] = Put(q, byte)]
           /\ pc' = Signal(IF full THEN Signal(pc, txq.not_full) ELSE pc, txq.not_empty)
    /\ ier' = write_ier(mode, queue')
    /\ sent' = Append(sent, byte)
    /\ UNCHANGED <<mode, rbr, accepted, got, off, panic>>

(* serial_flush, with interrupts off: out, queue and register after it.    *)
serial_flush(bytes) ==
    /\ out' = out \o Bytes(txq) \o bytes
    /\ queue' = [queue EXCEPT !["txq"] = Emptied(txq)]
    /\ thre' = FALSE

-----------------------------------------------------------------------------
(* What input_putc does to the queues q, and what it makes of the places.  *)
AfterInput(q, byte) == [q EXCEPT !["buffer"] = Put(q["buffer"], byte)]

(* The interrupt handler.  Each loop runs at most once: the UART has no    *)
(* FIFO.                                                                   *)
serial_interrupt ==
    /\ off = NULL
    /\ ("IER_XMIT" \in ier /\ thre) \/ ("IER_RECV" \in ier /\ rbr # NULL)
    /\ LET receives == ~input_full(queue) /\ rbr # NULL
           q == IF receives THEN AfterInput(queue, rbr) ELSE queue
           p == IF receives THEN Signal(pc, buffer.not_empty) ELSE pc
           sends == ~intq_empty(txq) /\ thre
       IN  /\ queue' = IF sends THEN [q EXCEPT !["txq"] = Got(txq)] ELSE q
           /\ pc' = IF sends THEN Signal(p, txq.not_full) ELSE p
           /\ accepted' = IF receives THEN Append(accepted, rbr) ELSE accepted
           /\ rbr' = IF receives THEN NULL ELSE rbr
           /\ out' = IF sends THEN Append(out, txq.buf[txq.tail]) ELSE out
           /\ thre' = (thre /\ ~sends)
    /\ ier' = write_ier(mode, queue')
    /\ UNCHANGED <<mode, sent, got, off, panic>>

(* input_putc by another handler; serial_notify writes the register.       *)
input_putc(byte) ==
    /\ queue' = AfterInput(queue, byte)
    /\ pc' = Signal(pc, buffer.not_empty)
    /\ accepted' = Append(accepted, byte)
    /\ panic' = (panic \/ input_full(queue))
    /\ ier' = write_ier(mode, queue')
    /\ UNCHANGED <<mode, thre, rbr, sent, out, got, off>>

(* Mutant: the byte stays in the queue.                                    *)
GetcPeek(t, done) ==
    \/ /\ ~intq_empty(buffer)
       /\ got' = Append(got, buffer.buf[buffer.tail])
       /\ pc' = [pc EXCEPT ![t] = done]
       /\ off' = NULL
       /\ UNCHANGED <<queue, mode, uart, sent, out, accepted, panic>>
    \/ /\ WaitFor(t, "buffer", "not_empty")
       /\ UNCHANGED <<mode, uart, sent, out, accepted, got>>

(* input_getc by thread t, which then is at done.                          *)
input_getc(t, done) ==
    \/ /\ ~intq_empty(buffer)
       /\ got' = Append(got, buffer.buf[buffer.tail])
       /\ queue' = [queue EXCEPT !["buffer"] = Got(buffer)]
       /\ pc' = Signal([pc EXCEPT ![t] = done], buffer.not_full)
       /\ ier' = write_ier(mode, queue')
       /\ off' = NULL
       /\ UNCHANGED <<mode, thre, rbr, sent, out, accepted, panic>>
    \/ /\ WaitFor(t, "buffer", "not_empty")
       /\ UNCHANGED <<mode, uart, sent, out, accepted, got>>

-----------------------------------------------------------------------------
(* The UART: the holding register empties, a byte arrives.                 *)
Transmitted ==
    /\ ~thre
    /\ thre' = TRUE
    /\ UNCHANGED <<queue, mode, ier, rbr, sent, out, accepted, got, pc, off, panic>>

Received(byte) ==
    /\ rbr = NULL
    /\ rbr' = byte
    /\ UNCHANGED <<queue, mode, ier, thre, sent, out, accepted, got, pc, off, panic>>
=============================================================================
