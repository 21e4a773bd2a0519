-------------------------------- MODULE Disk --------------------------------
(***************************************************************************)
(* The disks from boot on: the main thread probes the disks (ide_init),    *)
(* scans each for partitions and casts block devices in roles              *)
(* (locate_block_devices in threads/init.c); then all threads read and     *)
(* write the devices with a role.                                          *)
(***************************************************************************)
EXTENDS Partition

CONSTANTS Main,         \* the thread that runs main
          Registers,    \* the possible answers of the devices, by disk
          Tables,       \* the possible partition tables, by disk and sector
          bdev_name     \* the names given on the command line, by role

VARIABLES probe,           \* the disk that ide_init is at
          block_by_role,   \* the device in each role, or NULL
          via              \* history: the device that each thread accesses

vars == <<ideVars, partitionVars, probe, block_by_role, via>>

Roles == {"BLOCK_FILESYS", "BLOCK_SCRATCH"}

Sector(table, data) == [table |-> table, data |-> data]

(* The entries of a partition table, with 32-bit offsets and sizes, and    *)
(* the sectors.                                                            *)
EntryType == [type : 0..255, offset : 0..(2^SECTOR_BITS - 1), size : 0..(2^SECTOR_BITS - 1)]

SectorType == [table : Seq(EntryType), data : {"old"} \cup Threads]

(* A sector is not the null pointer.                                       *)
ASSUME DiskAssumption ==
    /\ Main \in Threads /\ NULL \notin Threads /\ NULL \notin SectorType
    /\ \A tab \in Tables : \A d \in Disks : \A s \in DOMAIN tab[d + 1] :
           tab[d + 1][s] \in Seq(EntryType)

Init ==
    /\ \E r \in Registers : registers = [d \in Disks |-> r[d + 1]]
    /\ is_ata = {}
    /\ channel = [c \in Channels |->
           [lock |-> NULL, expecting_interrupt |-> FALSE, completion_wait |-> 0]]
    /\ hw = [c \in Channels |-> IdleController(c)]
    /\ \E tab \in Tables :
           content = [d \in Disks |-> [s \in 0..(capacity[d] - 1) |->
               Sector(IF s \in DOMAIN tab[d + 1] THEN tab[d + 1][s] ELSE <<>>, "old")]]
    /\ pc = [t \in Threads |-> IF t = Main THEN "reset" ELSE "idle"]
    /\ req = [t \in Threads |-> NoRequest]
    /\ buffer = [t \in Threads |-> NULL]
    /\ all_blocks = <<>> /\ tables = <<>> /\ part_nr = 0
    /\ probe = 0
    /\ block_by_role = [r \in Roles |-> NULL]
    /\ via = [t \in Threads |-> NULL]

-----------------------------------------------------------------------------
(* The boot of the main thread.  The loops of ide_init go on to the next   *)
(* disk, or to the next channel, or end.                                   *)
AfterDisk(t) ==
    /\ probe' = probe + 1
    /\ Goto(t, IF probe + 1 \notin Disks THEN "locate"
               ELSE IF (probe + 1) % 2 = 0 THEN "reset" ELSE "probe")

ide_init(t) ==
    /\ pc[t] = "reset"
    /\ reset_channel(chan(probe))
    /\ Goto(t, "probe")
    /\ UNCHANGED <<registers, content, req, buffer, partitionVars, probe, block_by_role, via>>

ProbeDisk(t) ==
    /\ pc[t] = "probe"
    /\ IF probe \in is_ata
       THEN /\ Goto(t, "select")
            /\ req' = [req EXCEPT ![t] = [NoRequest EXCEPT !.op = "identify", !.disk = probe]]
            /\ UNCHANGED probe
       ELSE AfterDisk(t) /\ UNCHANGED req
    /\ UNCHANGED <<registers, is_ata, channel, hw, content, buffer, partitionVars,
                   block_by_role, via>>

(* identify_ata_device, from wait_while_busy on, and partition_scan up to  *)
(* its first sector.                                                       *)
identify_ata_device(t) ==
    LET c == chan(probe)
        usable == hw[c].drq /\ capacity[probe] < MAX_CAPACITY
    IN  /\ pc[t] = "busy" /\ req[t].op = "identify"
        /\ ~hw[c].bsy
        /\ hw' = [hw EXCEPT ![c].drq = FALSE, ![c].command = "none"]
        /\ part_nr' = 0
        /\ IF usable
           THEN /\ block_register(probe, 0, "BLOCK_RAW", 0, capacity[probe])
                /\ read_partition_table(t, probe, <<>>, 0, 0)
                /\ UNCHANGED <<is_ata, probe>>
           ELSE /\ is_ata' = is_ata \ {probe}
                /\ AfterDisk(t)
                /\ req' = [req EXCEPT ![t] = NoRequest]
                /\ UNCHANGED <<all_blocks, tables>>
        /\ UNCHANGED <<registers, channel, content, buffer, block_by_role, via>>

(* partition_scan returns to ide_init.                                     *)
ScanDone(t) ==
    /\ pc[t] = "parse" /\ tables = <<>>
    /\ AfterDisk(t)
    /\ UNCHANGED <<registers, is_ata, channel, hw, content, req, buffer, partitionVars,
                   block_by_role, via>>

(* The first device at one of the positions (block_first, block_next), or  *)
(* NULL; the device with the role's name, or the first of the role's type. *)
FirstOf(positions) ==
    LET first == {i \in positions : \A k \in positions : i <= k}
    IN  IF first = {} THEN NULL ELSE all_blocks[CHOOSE i \in first : TRUE]

block_get_by_name(name) == FirstOf({i \in 1..Len(all_blocks) : all_blocks[i].name = name})

locate_block_device(role) ==
    IF bdev_name[role] # NULL THEN block_get_by_name(bdev_name[role])
    ELSE FirstOf({i \in 1..Len(all_blocks) : all_blocks[i].type = role})

(* locate_block_devices; a name that no device has is a panic by design.   *)
locate_block_devices(t) ==
    /\ pc[t] = "locate"
    /\ block_by_role' = [r \in Roles |-> locate_block_device(r)]
    /\ Goto(t, IF \E r \in Roles : bdev_name[r] # NULL /\ locate_block_device(r) = NULL
               THEN "no_device" ELSE "idle")
    /\ UNCHANGED <<registers, is_ata, channel, hw, content, req, buffer, partitionVars,
                   probe, via>>

Boot(t) ==
    \/ ide_init(t) \/ ProbeDisk(t) \/ identify_ata_device(t) \/ ScanDone(t)
    \/ locate_block_devices(t)
    \/ /\ CheckSignature(t) \/ ParseEntry(t, probe) \/ ReturnFromTable(t)
       /\ UNCHANGED <<probe, block_by_role, via>>

-----------------------------------------------------------------------------
(* A thread reads or writes a sector of a device that has a role.          *)
Access(t) ==
    /\ pc[t] = "idle"
    /\ probe \notin Disks /\ pc[Main] \notin {"locate", "no_device"}
    /\ \E r \in Roles :
           /\ block_by_role[r] # NULL
           /\ via' = [via EXCEPT ![t] = block_by_role[r]]
           /\ \E sector \in 0..(block_by_role[r].size - 1) :
                  \/ block_read(t, block_by_role[r], sector)
                  \/ block_write(t, block_by_role[r], sector, Sector(<<>>, t))
    /\ UNCHANGED <<probe, block_by_role>>

ThreadStep(t) ==
    \/ t = Main /\ Boot(t)
    \/ /\ DriverStep(t)
       /\ via' = [via EXCEPT ![t] = IF pc[t] = "unlock" THEN NULL ELSE @]
       /\ UNCHANGED <<partitionVars, probe, block_by_role>>

Device(c) ==
    (interrupt_handler(c) \/ FinishPhase(c))
        /\ UNCHANGED <<partitionVars, probe, block_by_role, via>>

Next == (\E t \in Threads : ThreadStep(t) \/ Access(t)) \/ \E c \in Channels : Device(c)

(* Threads that can run do, controllers finish, interrupts are delivered.  *)
Fairness ==
    /\ \A t \in Threads : WF_vars(ThreadStep(t))
    /\ \A c \in Channels : WF_vars(interrupt_handler(c)
                                   /\ UNCHANGED <<partitionVars, probe, block_by_role, via>>)
    /\ \A c \in Channels : WF_vars(FinishPhase(c)
                                   /\ UNCHANGED <<partitionVars, probe, block_by_role, via>>)

Spec == Init /\ [][Next]_vars /\ Fairness

-----------------------------------------------------------------------------
(* Accesses are atomic although two disks share a channel and a thread     *)
(* waits three times inside one: each read returns what the last write     *)
(* left in that sector of that disk (ide_read, ide_write).                 *)
Happened ==
    {t \in Threads : \/ pc[t] = "unlock"
                     \/ /\ pc[t] = "completion" /\ req[t].op = "write"
                        /\ hw[chan(req[t].disk)].command = "none"}

Atomic == INSTANCE AtomicDisk WITH
    disk <- content, done <- Happened, buffer <- buffer,
    call <- [t \in Threads |-> IF req[t].op = "identify" THEN NoRequest ELSE req[t]]

RefinesAtomicDisk == Atomic!Spec

(* When a channel's lock is free, nothing is left of the last request: the *)
(* controller is idle, and its interrupt was delivered and consumed by     *)
(* that request (completion_wait, struct channel).                         *)
ChannelQuiet ==
    \A c \in Channels :
        (pc[Main] \notin {"select", "issue", "completion", "busy"} \/ chan(req[Main].disk) # c)
        /\ channel[c].lock = NULL /\ (probe \div 2) # c
            => /\ ~hw[c].bsy /\ ~hw[c].drq
               /\ channel[c].completion_wait = 0
               /\ channel[c].expecting_interrupt => ~hw[c].irq

(* An access through a partition stays inside it: a write changes no       *)
(* sector outside the partition (partition_write), and no sector of a      *)
(* partition is past the end of its disk, where check_sector panics        *)
(* (found_partition's check of start and size, which can wrap); only a     *)
(* write to a foreign partition panics (block_write).                      *)
AccessesStayInBlock ==
    [][/\ \A t \in Threads : pc'[t] = "panic" /\ pc[t] # "panic" => via'[t].type = "BLOCK_FOREIGN"
       /\ \A d \in Disks : \A s \in DOMAIN content[d] :
              content'[d][s] # content[d][s] =>
                  \E t \in Threads : /\ req[t].op = "write" /\ via[t].disk = d
                                     /\ s \in via[t].start .. via[t].start + via[t].size - 1]_vars

(* The main thread gets through the probing of every disk, and a thread    *)
(* that holds a channel's lock comes back out of the driver (ide_init,     *)
(* sema_down in ide_read and ide_write).                                   *)
RequestsComplete ==
    /\ <>(pc[Main] \in {"idle", "no_device"})
    /\ \A t \in Threads : pc[t] = "select" ~> pc[t] \notin {"select", "issue", "completion", "busy"}
=============================================================================
