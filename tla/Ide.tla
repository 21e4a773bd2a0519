-------------------------------- MODULE Ide ---------------------------------
(***************************************************************************)
(* The driver of ATA disks (devices/ide.c).  Disks are numbered as in      *)
(* their names, hda, hdb, ...: disk d is device d % 2 of channel d \div 2. *)
(* A thread in the driver holds a request and walks through select_sector, *)
(* issue_pio_command, sema_down and the transfer; the controller and its   *)
(* interrupt run beside it.  The controllers and disks are external: they  *)
(* clear BSY well before the driver's time-outs (10 ms and 30 s).          *)
(***************************************************************************)
EXTENDS Integers, Sequences

CONSTANTS Threads, NULL, CHANNEL_CNT,
          capacity,      \* the size of each disk in sectors
          MAX_CAPACITY   \* sectors from which a disk is ignored, 1 GB

Channels == 0..(CHANNEL_CNT - 1)

Disks == 0..(2 * CHANNEL_CNT - 1)

ASSUME IdeAssumption ==
    /\ CHANNEL_CNT \in Nat \ {0}
    /\ capacity \in [Disks -> Nat]
    /\ MAX_CAPACITY <= 2^28

VARIABLES registers,   \* what each device answers after a reset
          is_ata,      \* the disks that the driver uses
          channel,     \* lock, expecting_interrupt and completion_wait
          hw,          \* the controller of each channel
          content,     \* the sectors of each disk
          pc,          \* where each thread is
          req,         \* its request, and the place to go to after it
          buffer       \* the sector that it read last

ideVars == <<registers, is_ata, channel, hw, content, pc, req, buffer>>

chan(d) == d \div 2

NoRequest == [op |-> "none", disk |-> 0, sector |-> 0, data |-> NULL, then |-> "idle"]

(* A controller: the selected disk and sector, the command being executed, *)
(* the sector in its buffer, the BSY and DRQ bits, and an interrupt that   *)
(* is not delivered yet.                                                   *)
IdleController(c) ==
    [disk |-> 2 * c, sector |-> 0, command |-> "none", data |-> NULL,
     bsy |-> FALSE, drq |-> FALSE, irq |-> FALSE]

-----------------------------------------------------------------------------
(* Whether the registers r of device dev_no are those of an ATA disk, and  *)
(* whether a slave may exist beside it.                                    *)
Answers(r, dev_no) ==
    (r.error = 1 \/ (r.error = 129 /\ dev_no = 0)) /\ r.drdy /\ ~r.bsy

check_device_type(r, dev_no) ==
    [is_ata |-> Answers(r, dev_no) /\ <<r.lbam, r.lbah>> \in {<<0, 0>>, <<60, 195>>},
     slave  |-> Answers(r, dev_no) \/ r.error # 129]

(* ide_init for channel c up to check_device_type.  The reset may leave an *)
(* interrupt behind.                                                       *)
reset_channel(c) ==
    LET master == check_device_type(registers[2 * c], 0)
        slave  == check_device_type(registers[2 * c + 1], 1)
    IN  /\ is_ata' = is_ata \cup (IF master.is_ata THEN {2 * c} ELSE {})
                            \cup (IF master.slave /\ slave.is_ata THEN {2 * c + 1} ELSE {})
        /\ channel' = [channel EXCEPT ![c] =
               [lock |-> NULL, expecting_interrupt |-> FALSE, completion_wait |-> 0]]
        /\ \E irq \in BOOLEAN : hw' = [hw EXCEPT ![c] = [IdleController(c) EXCEPT !.irq = irq]]

-----------------------------------------------------------------------------
Goto(t, place) == pc' = [pc EXCEPT ![t] = place]

(* ide_read, ide_write: the request; lock_acquire of the channel.          *)
StartRequest(t, op, d, sector, data, then) ==
    /\ req' = [req EXCEPT ![t] =
           [op |-> op, disk |-> d, sector |-> sector, data |-> data, then |-> then]]
    /\ Goto(t, "lock")

lock_acquire(t) ==
    LET c == chan(req[t].disk) IN
    /\ pc[t] = "lock"
    /\ channel[c].lock = NULL
    /\ channel' = [channel EXCEPT ![c].lock = t]
    /\ Goto(t, "select")
    /\ UNCHANGED <<registers, is_ata, hw, content, req, buffer>>

(* Mutant: the device stays the one of the last request.                   *)
SelectNoDevice(t) ==
    LET c == chan(req[t].disk) IN
    /\ pc[t] = "select"
    /\ ~hw[c].bsy /\ ~hw[c].drq
    /\ hw' = [hw EXCEPT ![c].sector = req[t].sector, ![c].irq = FALSE]
    /\ Goto(t, "issue")
    /\ UNCHANGED <<registers, is_ata, channel, content, req, buffer>>

(* select_device_wait: the channel is idle before and after the selection, *)
(* and reading the status register clears a pending interrupt.             *)
select_sector(t) ==
    LET c == chan(req[t].disk) IN
    /\ pc[t] = "select"
    /\ ~hw[c].bsy /\ ~hw[c].drq
    /\ hw' = [hw EXCEPT ![c].disk = req[t].disk, ![c].sector = req[t].sector,
                        ![c].irq = FALSE]
    /\ Goto(t, "issue")
    /\ UNCHANGED <<registers, is_ata, channel, content, req, buffer>>

(* Mutant: the driver polls and leaves the interrupt's up behind.          *)
IssueAndPoll(t) ==
    LET c == chan(req[t].disk) IN
    /\ pc[t] = "issue"
    /\ channel' = [channel EXCEPT ![c].expecting_interrupt = TRUE]
    /\ hw' = [hw EXCEPT ![c].command = req[t].op, ![c].bsy = TRUE]
    /\ Goto(t, "busy")
    /\ UNCHANGED <<registers, is_ata, content, req, buffer>>

(* The command is written, and a read goes on to wait for its completion.  *)
issue_pio_command(t) ==
    LET c == chan(req[t].disk) IN
    /\ pc[t] = "issue"
    /\ channel' = [channel EXCEPT ![c].expecting_interrupt = TRUE]
    /\ hw' = [hw EXCEPT ![c].command = req[t].op, ![c].bsy = TRUE]
    /\ Goto(t, IF req[t].op = "write" THEN "busy" ELSE "completion")
    /\ UNCHANGED <<registers, is_ata, content, req, buffer>>

(* sema_down (&c->completion_wait): before a read, after a write.          *)
sema_down(t) ==
    LET c == chan(req[t].disk) IN
    /\ pc[t] = "completion"
    /\ channel[c].completion_wait > 0
    /\ channel' = [channel EXCEPT ![c].completion_wait = @ - 1]
    /\ Goto(t, IF req[t].op = "write" THEN "unlock" ELSE "busy")
    /\ UNCHANGED <<registers, is_ata, hw, content, req, buffer>>

(* wait_while_busy and input_sector.                                       *)
input_sector(t) ==
    LET c == chan(req[t].disk) IN
    /\ pc[t] = "busy"
    /\ req[t].op = "read"
    /\ ~hw[c].bsy /\ hw[c].drq
    /\ buffer' = [buffer EXCEPT ![t] = hw[c].data]
    /\ hw' = [hw EXCEPT ![c].drq = FALSE, ![c].command = "none", ![c].data = NULL]
    /\ Goto(t, "unlock")
    /\ UNCHANGED <<registers, is_ata, channel, content, req>>

(* wait_while_busy and output_sector.                                      *)
output_sector(t) ==
    LET c == chan(req[t].disk) IN
    /\ pc[t] = "busy"
    /\ req[t].op = "write"
    /\ ~hw[c].bsy /\ hw[c].drq
    /\ hw' = [hw EXCEPT ![c].drq = FALSE, ![c].bsy = TRUE, ![c].data = req[t].data]
    /\ Goto(t, "completion")
    /\ UNCHANGED <<registers, is_ata, channel, content, req, buffer>>

(* ide_read and ide_write return; what a thread does with the sector it    *)
(* read is its own business.                                               *)
lock_release(t) ==
    /\ pc[t] = "unlock"
    /\ channel' = [channel EXCEPT ![chan(req[t].disk)].lock = NULL]
    /\ Goto(t, req[t].then)
    /\ req' = [req EXCEPT ![t] = NoRequest]
    /\ buffer' = [buffer EXCEPT ![t] = IF req[t].then = "idle" THEN NULL ELSE @]
    /\ UNCHANGED <<registers, is_ata, hw, content>>

(* A step of thread t inside ide_read or ide_write.                        *)
DriverStep(t) ==
    \/ lock_acquire(t) \/ select_sector(t) \/ issue_pio_command(t) \/ sema_down(t)
    \/ input_sector(t) \/ output_sector(t) \/ lock_release(t)

-----------------------------------------------------------------------------
(* Mutant: the waiter is not woken.                                        *)
HandlerNoUp(c) ==
    /\ hw[c].irq
    /\ hw' = [hw EXCEPT ![c].irq = FALSE]
    /\ UNCHANGED <<registers, is_ata, channel, content, pc, req, buffer>>

(* The interrupt of channel c; an unexpected one is only reported.         *)
interrupt_handler(c) ==
    /\ hw[c].irq
    /\ hw' = [hw EXCEPT ![c].irq = FALSE]
    /\ channel' = [channel EXCEPT ![c].completion_wait =
           IF channel[c].expecting_interrupt THEN @ + 1 ELSE @]
    /\ UNCHANGED <<registers, is_ata, content, pc, req, buffer>>

(* The controller finishes a phase of its command: a read ends with the    *)
(* data ready, an IDENTIFY possibly without, a write first asks for the    *)
(* data and then stores them.                                              *)
FinishPhase(c) ==
    /\ hw[c].bsy
    /\ \/ /\ hw[c].command \in {"read", "identify"}
          /\ \E drq \in IF hw[c].command = "read" THEN {TRUE} ELSE BOOLEAN :
                 hw' = [hw EXCEPT ![c].bsy = FALSE, ![c].drq = drq, ![c].irq = TRUE,
                            ![c].data = IF @ = NULL /\ hw[c].command = "read"
                                        THEN content[hw[c].disk][hw[c].sector] ELSE @]
          /\ UNCHANGED content
       \/ /\ hw[c].command = "write" /\ hw[c].data = NULL
          /\ hw' = [hw EXCEPT ![c].bsy = FALSE, ![c].drq = TRUE]
          /\ UNCHANGED content
       \/ /\ hw[c].command = "write" /\ hw[c].data # NULL
          /\ content' = [content EXCEPT ![hw[c].disk][hw[c].sector] = hw[c].data]
          /\ hw' = [hw EXCEPT ![c].bsy = FALSE, ![c].irq = TRUE, ![c].data = NULL,
                              ![c].command = "none"]
    /\ UNCHANGED <<registers, is_ata, channel, pc, req, buffer>>
=============================================================================
