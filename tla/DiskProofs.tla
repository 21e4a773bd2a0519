----------------------------- MODULE DiskProofs -----------------------------
(***************************************************************************)
(* The ATA driver serves the threads one at a time on each channel, for    *)
(* every number of channels and threads, every size of the disks and every *)
(* partition table: between two requests a channel is quiet.               *)
(***************************************************************************)
EXTENDS Disk, TLAPS

(* Places in the driver at which a thread uses its channel.                *)
Inside == {"select", "issue", "completion", "busy", "unlock"}

(* Places of the main thread during the boot.                              *)
BootPlaces == {"reset", "probe", "parse", "locate", "no_device"}

PlaceType == Inside \cup BootPlaces \cup {"lock", "idle", "panic"}

ChannelType == [lock : Threads \cup {NULL}, expecting_interrupt : BOOLEAN, completion_wait : Nat]

ControllerType ==
    [disk : Disks, sector : Nat, command : {"none", "read", "write", "identify"},
     data : SectorType \cup {NULL}, bsy : BOOLEAN, drq : BOOLEAN, irq : BOOLEAN]

RequestType ==
    [op : {"none", "read", "write", "identify"}, disk : Disks, sector : Nat,
     data : SectorType \cup {NULL}, then : {"idle", "parse"}]

BlockKind == {"BLOCK_RAW", "BLOCK_KERNEL", "BLOCK_FILESYS", "BLOCK_SCRATCH", "BLOCK_SWAP", "BLOCK_FOREIGN"}

BlockType == [name : Disks \X Nat, type : BlockKind, disk : Disks, start : Nat, size : Nat]

TableType == [sector : Nat, primary : Nat, i : Nat, partitions : Seq(EntryType)]

(* The types of the driver's variables.                                    *)
DriverType ==
    /\ is_ata \subseteq Disks
    /\ channel \in [Channels -> ChannelType]
    /\ hw \in [Channels -> ControllerType]
    /\ content = [d \in Disks |-> content[d]]
    /\ \A d \in Disks : content[d] \in [0..(capacity[d] - 1) -> SectorType]
    /\ pc \in [Threads -> PlaceType]
    /\ req \in [Threads -> RequestType]
    /\ buffer \in [Threads -> SectorType \cup {NULL}]

(* The types of what the boot works on.                                    *)
BootType ==
    /\ all_blocks \in Seq(BlockType)
    /\ tables \in Seq(TableType)
    /\ part_nr \in Nat
    /\ probe \in 0..(2 * CHANNEL_CNT)
    /\ block_by_role \in [Roles -> BlockType \cup {NULL}]

-----------------------------------------------------------------------------
(* The controller and the channel that t's request is for.                 *)
Ctl(t) == hw[chan(req[t].disk)]

Ch(t) == channel[chan(req[t].disk)]

Selected(t) == Ctl(t).disk = req[t].disk /\ Ctl(t).sector = req[t].sector

(* No command is executed on channel c, and no interrupt is expected.      *)
Quiet(c) ==
    /\ ~hw[c].bsy /\ ~hw[c].drq /\ hw[c].command = "none" /\ hw[c].data = NULL
    /\ channel[c].completion_wait = 0
    /\ channel[c].expecting_interrupt => ~hw[c].irq

(* The interrupt of the command is on its way or was counted, or not yet   *)
(* raised.                                                                 *)
Signalled(t) ==
    \/ Ctl(t).irq /\ Ch(t).completion_wait = 0
    \/ ~Ctl(t).irq /\ Ch(t).completion_wait = 1

Silent(t) == ~Ctl(t).irq /\ Ch(t).completion_wait = 0

(* A command that reads is executed, or was.                               *)
Fetching(t) ==
    /\ Selected(t) /\ Ctl(t).command = req[t].op
    /\ Ctl(t).bsy /\ ~Ctl(t).drq /\ Ctl(t).data = NULL

Fetched(t) ==
    /\ Selected(t) /\ Ctl(t).command = req[t].op /\ ~Ctl(t).bsy
    /\ req[t].op = "read" => Ctl(t).drq /\ Ctl(t).data = content[req[t].disk][req[t].sector]
    /\ req[t].op = "identify" => Ctl(t).data = NULL

(* A write waits for its data, stores them, or has stored them.            *)
Accepting(t) ==
    /\ Selected(t) /\ Ctl(t).command = "write" /\ Ctl(t).data = NULL
    /\ (Ctl(t).bsy /\ ~Ctl(t).drq) \/ (~Ctl(t).bsy /\ Ctl(t).drq)

Storing(t) ==
    /\ Selected(t) /\ Ctl(t).command = "write" /\ Ctl(t).data = req[t].data
    /\ Ctl(t).bsy /\ ~Ctl(t).drq

Stored(t) ==
    /\ Ctl(t).command = "none" /\ Ctl(t).data = NULL /\ ~Ctl(t).bsy /\ ~Ctl(t).drq

(* What the controller does while thread t is in the driver.               *)
Phase(t) ==
    /\ pc[t] \in {"select", "unlock"} => Quiet(chan(req[t].disk))
    /\ pc[t] = "issue" => Quiet(chan(req[t].disk)) /\ ~Ctl(t).irq /\ Selected(t)
    /\ pc[t] \in {"completion", "busy"} => Ch(t).expecting_interrupt
    /\ pc[t] = "completion" /\ req[t].op # "write" =>
           (Fetching(t) /\ Silent(t)) \/ (Fetched(t) /\ Signalled(t))
    /\ pc[t] = "busy" /\ req[t].op # "write" => Fetched(t) /\ Silent(t)
    /\ pc[t] = "busy" /\ req[t].op = "write" => Accepting(t) /\ Silent(t)
    /\ pc[t] = "completion" /\ req[t].op = "write" =>
           (Storing(t) /\ Silent(t)) \/ (Stored(t) /\ Signalled(t))

(* The request of thread t.                                                *)
Request(t) ==
    /\ pc[t] \in Inside \cup {"lock"} <=> req[t].op # "none"
    /\ req[t].op = "none" => req[t] = NoRequest
    /\ req[t].op = "identify" => t = Main /\ pc[t] \notin {"lock", "unlock"} /\ probe \in Disks
    /\ req[t].op \in {"read", "write"} => req[t].sector \in 0..(capacity[req[t].disk] - 1)
    /\ req[t].op = "write" => req[t].data # NULL
    /\ req[t].then = "parse" => t = Main /\ req[t].op = "read" /\ probe \in Disks
    /\ pc[t] = "unlock" /\ req[t].op = "read" => buffer[t] # NULL
    /\ t # Main => pc[t] \notin BootPlaces
    /\ t # Main /\ pc[t] # "idle" => probe \notin Disks /\ pc[Main] \notin {"locate", "no_device"}

(* The main thread probes and scans disk probe until it is past the last.  *)
Booting ==
    /\ probe \in Disks =>
           /\ pc[Main] \in {"reset", "probe", "parse", "lock"} \cup Inside
           /\ req[Main].op # "none" => req[Main].disk = probe
           /\ req[Main].op \in {"read", "write"} => req[Main].then = "parse"
    /\ probe \notin Disks => pc[Main] \notin {"reset", "probe", "parse"}

(* The calls of read_partition_table: all but the innermost one have read  *)
(* their sector, and the innermost one has it when it goes on.             *)
Scanning ==
    /\ \A k \in 1..(Len(tables) - 1) : tables[k].i > 0
    /\ pc[Main] = "parse" /\ tables # <<>> /\ Top.i = 0 => buffer[Main] # NULL

(* A channel's lock is held by the thread that uses the channel; only the  *)
(* boot identifies disks without it.                                       *)
Locked ==
    /\ \A t \in Threads :
           pc[t] \in Inside => Ch(t).lock = IF req[t].op = "identify" THEN NULL ELSE t
    /\ \A c \in Channels :
           channel[c].lock # NULL => /\ pc[channel[c].lock] \in Inside
                                     /\ chan(req[channel[c].lock].disk) = c

UsedBy(t, c) == pc[t] \in Inside /\ chan(req[t].disk) = c

Unused == \A c \in Channels : (\A t \in Threads : ~UsedBy(t, c)) => Quiet(c)

DiskInv ==
    /\ DriverType /\ BootType
    /\ \A t \in Threads : Request(t) /\ Phase(t)
    /\ Booting /\ Scanning /\ Locked /\ Unused

-----------------------------------------------------------------------------
(* Disks 2 * c and 2 * c + 1 are on channel c.                             *)
LEMMA ChanType ==
    /\ Disks \subseteq Nat
    /\ \A d \in Disks : chan(d) \in Channels
    /\ \A c \in Channels : 2 * c \in Disks /\ 2 * c + 1 \in Disks /\ chan(2 * c) = c
BY IdeAssumption DEF IdeAssumption, Disks, Channels, chan

(* Sector numbers are numbers, and wrap around once at most in the sum of  *)
(* two.                                                                    *)
LEMMA SectorRange ==
    /\ 2^SECTOR_BITS \in Nat \ {0}
    /\ \A n \in Nat : sector_t(n) \in 0..(2^SECTOR_BITS - 1)
    /\ \A n \in Nat : n < 2^SECTOR_BITS => sector_t(n) = n
    /\ \A n \in Nat : 2^SECTOR_BITS <= n /\ n < 2 * 2^SECTOR_BITS => sector_t(n) = n - 2^SECTOR_BITS
<1> DEFINE M == 2^SECTOR_BITS
<1>1. M \in Nat \ {0}
  BY PartitionAssumption, Zenon DEF PartitionAssumption
<1>2. \A n : sector_t(n) = n % M
  BY Zenon DEF sector_t
<1> HIDE DEF M
<1>3. \A n \in Nat : n % M \in 0..(M - 1)
  BY <1>1
<1>4. \A n \in Nat : n < M => n % M = n
  BY <1>1
<1>5. \A n \in Nat : M <= n /\ n < 2 * M => n % M = n - M
  BY <1>1
<1> QED BY <1>1, <1>2, <1>3, <1>4, <1>5, Zenon DEF M

(* Two threads are not on one channel.                                     *)
LEMMA Alone ==
    ASSUME DiskInv, NEW t \in Threads, NEW u \in Threads,
           pc[t] \in Inside, pc[u] \in Inside, chan(req[t].disk) = chan(req[u].disk)
    PROVE  t = u
<1>1. CASE req[t].op = "identify" /\ req[u].op = "identify"
  BY <1>1, Zenon DEF DiskInv, Request
<1>2. CASE req[t].op = "identify" /\ req[u].op # "identify"
  <2>1. t = Main /\ probe \in Disks
    BY <1>2, Zenon DEF DiskInv, Request
  <2>2. Ch(t).lock = NULL /\ Ch(u).lock = u
    BY <1>2, Zenon DEF DiskInv, Locked
  <2> QED BY <2>2, DiskAssumption, Zenon DEF DiskAssumption, Ch
<1>3. CASE req[t].op # "identify" /\ req[u].op = "identify"
  <2>2. Ch(t).lock = t /\ Ch(u).lock = NULL
    BY <1>3, Zenon DEF DiskInv, Locked
  <2> QED BY <2>2, DiskAssumption, Zenon DEF DiskAssumption, Ch
<1>4. CASE req[t].op # "identify" /\ req[u].op # "identify"
  <2>2. Ch(t).lock = t /\ Ch(u).lock = u
    BY <1>4, Zenon DEF DiskInv, Locked
  <2> QED BY <2>2, Zenon DEF Ch
<1> QED BY <1>1, <1>2, <1>3, <1>4, Zenon

-----------------------------------------------------------------------------
(* The phase of a thread depends on its channel and its disk only.         *)
LEMMA SamePhase ==
    ASSUME NEW u \in Threads, Phase(u), pc'[u] = pc[u], req'[u] = req[u],
           hw'[chan(req[u].disk)] = hw[chan(req[u].disk)],
           channel'[chan(req[u].disk)] = channel[chan(req[u].disk)],
           content'[req[u].disk] = content[req[u].disk]
    PROVE  Phase(u)'
<1>1. Ctl(u)' = Ctl(u) /\ Ch(u)' = Ch(u) /\ (Quiet(chan(req[u].disk)))' = Quiet(chan(req[u].disk))
  BY Zenon DEF Ctl, Ch, Quiet
<1>2. Selected(u)' = Selected(u) /\ Signalled(u)' = Signalled(u) /\ Silent(u)' = Silent(u)
  BY <1>1, Zenon DEF Selected, Signalled, Silent
<1>3. /\ Fetching(u)' = Fetching(u) /\ Fetched(u)' = Fetched(u) /\ Accepting(u)' = Accepting(u)
      /\ Storing(u)' = Storing(u) /\ Stored(u)' = Stored(u)
  BY <1>1, <1>2, Zenon DEF Fetching, Fetched, Accepting, Storing, Stored
<1> QED BY <1>1, <1>2, <1>3, Zenon DEF Phase

(* A step on channel c by the thread that uses it, or when nobody does,    *)
(* leaves the other threads' phases and the other channels alone.          *)
LEMMA OtherPhases ==
    ASSUME DiskInv, NEW t \in Threads, NEW c \in Channels,
           \A u \in Threads : UsedBy(u, c) => u = t,
           \A e \in Channels : e # c => hw'[e] = hw[e] /\ channel'[e] = channel[e],
           \A d \in Disks : chan(d) # c => content'[d] = content[d],
           \A u \in Threads : u # t => pc'[u] = pc[u] /\ req'[u] = req[u],
           pc'[t] \in Inside => chan(req'[t].disk) = c,
           pc[t] \in Inside => chan(req[t].disk) = c,
           Quiet(c)' \/ UsedBy(t, c)',
           Phase(t)'
    PROVE  (\A u \in Threads : Phase(u)') /\ Unused'
<1>1. ASSUME NEW u \in Threads, u # t PROVE Phase(u)'
  <2>1. CASE pc[u] \notin Inside
    BY <1>1, <2>1, Zenon DEF Phase, Inside
  <2>2. CASE pc[u] \in Inside
    <3> DEFINE e == chan(req[u].disk)
    <3>1. req[u].disk \in Disks /\ e \in Channels /\ e # c
      BY <1>1, <2>2, ChanType, Zenon DEF UsedBy, DiskInv, DriverType, RequestType
    <3>2. /\ hw'[e] = hw[e] /\ channel'[e] = channel[e]
          /\ content'[req[u].disk] = content[req[u].disk]
          /\ pc'[u] = pc[u] /\ req'[u] = req[u] /\ Phase(u)
      BY <1>1, <3>1, Zenon DEF DiskInv
    <3> QED BY <3>2, SamePhase, Zenon
  <2> QED BY <2>1, <2>2, Zenon
<1>2. ASSUME NEW e \in Channels, \A u \in Threads : ~UsedBy(u, e)'
      PROVE  Quiet(e)'
  <2>1. CASE e = c
    BY <1>2, <2>1, Zenon
  <2>2. CASE e # c
    <3>1. \A u \in Threads : ~UsedBy(u, e)
      BY <1>2, <2>2, Zenon DEF UsedBy
    <3>2. Quiet(e)
      BY <3>1, Zenon DEF DiskInv, Unused
    <3> QED BY <2>2, <3>2, Zenon DEF Quiet
  <2> QED BY <2>1, <2>2, Zenon
<1> QED BY <1>1, <1>2, Zenon DEF Unused

(* lock_acquire keeps the invariant.                                       *)
LEMMA AcquireInv ==
    ASSUME DiskInv, NEW t \in Threads, lock_acquire(t), UNCHANGED <<partitionVars, probe, block_by_role>>
    PROVE  DiskInv'
<1> DEFINE c == chan(req[t].disk)
<1>0. c \in Channels /\ t # NULL /\ Main \in Threads /\ NULL \notin Threads
  BY ChanType, DiskAssumption, Zenon DEF DiskAssumption, DiskInv, DriverType, RequestType
<1>1. /\ channel[c].lock = NULL /\ channel' = [channel EXCEPT ![c].lock = t]
      /\ pc[t] = "lock" /\ pc' = [pc EXCEPT ![t] = "select"]
      /\ UNCHANGED <<registers, is_ata, hw, content, req, buffer, all_blocks, tables, part_nr, probe, block_by_role>>
  BY Zenon DEF lock_acquire, Goto, partitionVars
<1>2. DriverType' /\ BootType'
  <2>1. channel' \in [Channels -> ChannelType]
    <3>1. [channel[c] EXCEPT !.lock = t] \in ChannelType
      BY <1>0, ZenonT(30) DEF DiskInv, DriverType, ChannelType
    <3> QED BY <1>0, <1>1, <3>1, Zenon DEF DiskInv, DriverType
  <2>2. pc' \in [Threads -> PlaceType]
    BY <1>0, <1>1, Zenon DEF DiskInv, DriverType, PlaceType, Inside
  <2>3. DriverType'
    BY <1>1, <2>1, <2>2, Zenon DEF DiskInv, DriverType
  <2>4. BootType'
    BY <1>1, Zenon DEF DiskInv, BootType
  <2> QED BY <2>3, <2>4, Zenon
<1>3. \A u \in Threads : Request(u)'
  <2>1. Request(t)'
    BY <1>0, <1>1, Zenon DEF DiskInv, DriverType, Request, Inside, BootPlaces
  <2>2. ASSUME NEW u \in Threads, u # t PROVE Request(u)'
    BY <1>0, <1>1, <2>2, Zenon DEF DiskInv, DriverType, Request, Inside, BootPlaces
  <2> QED BY <2>1, <2>2, Zenon
<1>4. Booting' /\ Scanning'
  BY <1>0, <1>1, Zenon DEF DiskInv, DriverType, Booting, Scanning, Inside, Top
<1>5. req[t].op \in {"read", "write"}
  <2>1. req[t].op \in {"none", "read", "write", "identify"}
    BY Zenon DEF DiskInv, DriverType, RequestType
  <2>2. Request(t)
    BY Zenon DEF DiskInv
  <2> QED BY <1>1, <2>1, <2>2, Zenon DEF Request
<1>6. \A u \in Threads : ~UsedBy(u, c)
  BY <1>0, <1>1, <1>5, ZenonT(30) DEF DiskInv, Request, Booting, Locked, UsedBy, Ch, Inside
<1>7. (\A u \in Threads : Phase(u)') /\ Unused'
  <2>1. Quiet(c)' /\ Phase(t)'
    BY <1>0, <1>1, <1>6 DEF DiskInv, DriverType, ChannelType, Unused, Quiet, Phase
  <2> QED BY <1>0, <1>1, <1>6, <2>1, OtherPhases, Zenon DEF DiskInv, DriverType
<1>8. Locked'
  BY <1>0, <1>1, <1>5, <1>6 DEF DiskInv, DriverType, ChannelType, Locked, Ch, UsedBy, Inside
<1> QED BY <1>2, <1>3, <1>4, <1>7, <1>8, Zenon DEF DiskInv

(* A step inside the driver that keeps the lock and the request keeps the  *)
(* invariant, if it brings the controller to the thread's next phase.      *)
LEMMA InsideStep ==
    ASSUME DiskInv, DriverType', NEW t \in Threads, NEW c \in Channels, UsedBy(t, c),
           pc' = [pc EXCEPT ![t] = pc'[t]], pc'[t] \in Inside, req' = req,
           pc'[t] = "unlock" => /\ req[t].op # "identify"
                                /\ req[t].op = "read" => buffer'[t] # NULL,
           \A e \in Channels : e # c => hw'[e] = hw[e] /\ channel'[e] = channel[e],
           channel'[c].lock = channel[c].lock,
           \A d \in Disks : chan(d) # c => content'[d] = content[d],
           \A u \in Threads : u # t => buffer'[u] = buffer[u],
           UNCHANGED <<partitionVars, probe, block_by_role>>,
           Phase(t)'
    PROVE  DiskInv'
<1>0. Main \in Threads /\ NULL \notin Threads /\ pc \in [Threads -> PlaceType]
  BY DiskAssumption, Zenon DEF DiskAssumption, DiskInv, DriverType
<1>1. BootType'
  BY Zenon DEF DiskInv, BootType, partitionVars
<1>2. UsedBy(t, c)' /\ \A u \in Threads : u # t => pc'[u] = pc[u]
  BY <1>0, Zenon DEF UsedBy
<1>3. \A u \in Threads : UsedBy(u, c) => u = t
  BY Alone, Zenon DEF UsedBy
<1>4. (\A u \in Threads : Phase(u)') /\ Unused'
  BY <1>2, <1>3, OtherPhases, Zenon DEF UsedBy
<1>5. \A u \in Threads : Request(u)'
  <2>0. Request(t) /\ pc[t] \in Inside
    BY Zenon DEF DiskInv, UsedBy
  <2>1. Request(t)'
    BY <1>0, <1>2, <2>0, Zenon DEF Request, Inside, BootPlaces, partitionVars
  <2>2. ASSUME NEW u \in Threads, u # t PROVE Request(u)'
    BY <1>0, <1>2, <2>2 DEF DiskInv, Request, Inside, BootPlaces, UsedBy
  <2> QED BY <2>1, <2>2, Zenon
<1>6. Booting'
  BY <1>0, <1>2, Zenon DEF DiskInv, Booting, UsedBy, Inside
<1>7. Scanning'
  BY <1>0, <1>2, Zenon DEF DiskInv, Scanning, Inside, Top, partitionVars
<1>8. Locked'
  <2>1. \A e \in Channels : channel'[e].lock = channel[e].lock
    BY Zenon
  <2>2. \A u \in Threads : chan(req[u].disk) \in Channels
    BY ChanType, Zenon DEF DiskInv, DriverType, RequestType
  <2>3. ASSUME NEW u \in Threads, pc'[u] \in Inside
        PROVE  Ch(u)'.lock = IF req'[u].op = "identify" THEN NULL ELSE u
    BY <1>2, <2>1, <2>2, <2>3, ZenonT(30) DEF DiskInv, Locked, Ch, UsedBy
  <2>4. ASSUME NEW e \in Channels, channel'[e].lock # NULL
        PROVE  pc'[channel'[e].lock] \in Inside /\ chan(req'[channel'[e].lock].disk) = e
    <3>1. channel[e].lock \in Threads
      BY <2>1, <2>4, ZenonT(30) DEF DiskInv, DriverType, ChannelType
    <3> QED BY <1>2, <2>1, <2>4, <3>1 DEF DiskInv, Locked, UsedBy
  <2> QED BY <2>3, <2>4, Zenon DEF Locked
<1> QED BY <1>1, <1>4, <1>5, <1>6, <1>7, <1>8, Zenon DEF DiskInv

(* A step of thread t outside the driver.                                  *)
LEMMA OutsideStep ==
    ASSUME DiskInv, NEW t \in Threads, pc[t] \notin Inside, pc'[t] \notin Inside,
           \A u \in Threads : u # t => pc'[u] = pc[u] /\ req'[u] = req[u],
           UNCHANGED <<channel, hw, content>>
    PROVE  (\A u \in Threads : Phase(u)') /\ Unused' /\ Locked'
<1>1. ASSUME NEW u \in Threads PROVE Phase(u)'
  <2>1. CASE u = t
    BY <2>1, Zenon DEF Phase, Inside
  <2>2. CASE u # t
    BY <2>2, SamePhase, Zenon DEF DiskInv
  <2> QED BY <2>1, <2>2, Zenon
<1>2. \A u \in Threads, c \in Channels : UsedBy(u, c)' <=> UsedBy(u, c)
  BY Zenon DEF UsedBy
<1>3. Unused'
  BY <1>2, Zenon DEF DiskInv, Unused, Quiet
<1>4. Locked'
  <2>1. ASSUME NEW u \in Threads, pc'[u] \in Inside
        PROVE  Ch(u)'.lock = IF req'[u].op = "identify" THEN NULL ELSE u
    BY <2>1, Zenon DEF DiskInv, Locked, Ch
  <2>2. ASSUME NEW e \in Channels, channel'[e].lock # NULL
        PROVE  pc'[channel'[e].lock] \in Inside /\ chan(req'[channel'[e].lock].disk) = e
    <3>1. channel[e].lock \in Threads
      BY <2>2, Zenon DEF DiskInv, DriverType, ChannelType
    <3> QED BY <2>2, <3>1, Zenon DEF DiskInv, Locked
  <2> QED BY <2>1, <2>2, Zenon DEF Locked
<1> QED BY <1>1, <1>3, <1>4, Zenon

(* What is known of a thread in the driver.                                *)
LEMMA InDriver ==
    ASSUME DiskInv, NEW t \in Threads, pc[t] \in Inside
    PROVE  /\ chan(req[t].disk) \in Channels /\ UsedBy(t, chan(req[t].disk))
           /\ Phase(t) /\ Request(t)
           /\ hw \in [Channels -> ControllerType] /\ Ctl(t) \in ControllerType
           /\ channel \in [Channels -> ChannelType] /\ Ch(t) \in ChannelType
           /\ pc \in [Threads -> PlaceType] /\ req[t] \in RequestType
           /\ req[t].op \in {"read", "write", "identify"}
<1>1. chan(req[t].disk) \in Channels /\ Phase(t) /\ Request(t)
  BY ChanType, Zenon DEF DiskInv, DriverType, RequestType
<1>2. /\ hw \in [Channels -> ControllerType] /\ channel \in [Channels -> ChannelType]
      /\ pc \in [Threads -> PlaceType] /\ req[t] \in RequestType
  BY Zenon DEF DiskInv, DriverType
<1>3. req[t].op \in {"read", "write", "identify"}
  BY <1>1, <1>2, Zenon DEF Request, RequestType
<1> QED BY <1>1, <1>2, <1>3, Zenon DEF UsedBy, Ctl, Ch

(* select_sector keeps the invariant.                                      *)
LEMMA SelectInv ==
    ASSUME DiskInv, NEW t \in Threads, select_sector(t),
           UNCHANGED <<partitionVars, probe, block_by_role>>
    PROVE  DiskInv'
<1> DEFINE c == chan(req[t].disk)
           h == [hw[c] EXCEPT !.disk = req[t].disk, !.sector = req[t].sector, !.irq = FALSE]
<1>1. /\ pc[t] = "select" /\ pc' = [pc EXCEPT ![t] = "issue"]
      /\ hw' = [hw EXCEPT ![c] = h]
      /\ UNCHANGED <<registers, is_ata, channel, content, req, buffer>>
  BY Zenon DEF select_sector, Goto
<1>2. /\ c \in Channels /\ UsedBy(t, c) /\ Phase(t)
      /\ hw \in [Channels -> ControllerType] /\ hw[c] \in ControllerType
      /\ pc \in [Threads -> PlaceType] /\ req[t] \in RequestType
  BY <1>1, InDriver, Zenon DEF Inside, Ctl
<1>3. h \in ControllerType
  BY <1>2, ZenonT(30) DEF ControllerType, RequestType
<1>4. DriverType'
  <2>1. hw' \in [Channels -> ControllerType] /\ pc' \in [Threads -> PlaceType]
    BY <1>1, <1>2, <1>3, Zenon DEF PlaceType, Inside
  <2> QED BY <1>1, <2>1, Zenon DEF DiskInv, DriverType
<1>5. /\ hw'[c] = h /\ \A e \in Channels : e # c => hw'[e] = hw[e]
      /\ pc'[t] = "issue"
  BY <1>1, <1>2, Zenon
<1>6. Phase(t)'
  <2>1. Quiet(c)
    BY <1>1, <1>2, Zenon DEF Phase
  <2>2. Quiet(c)' /\ ~Ctl(t)'.irq /\ Selected(t)'
    BY <1>1, <1>2, <1>5, <2>1, Zenon DEF Quiet, Ctl, Selected, ControllerType
  <2> QED BY <1>1, <1>5, <2>2, Zenon DEF Phase
<1> QED BY <1>1, <1>2, <1>4, <1>5, <1>6, InsideStep, Zenon DEF Inside

(* issue_pio_command keeps the invariant: the interrupt it waits for is    *)
(* the one of its own command.                                             *)
LEMMA IssueInv ==
    ASSUME DiskInv, NEW t \in Threads, issue_pio_command(t),
           UNCHANGED <<partitionVars, probe, block_by_role>>
    PROVE  DiskInv'
<1> DEFINE c == chan(req[t].disk)
           h == [hw[c] EXCEPT !.command = req[t].op, !.bsy = TRUE]
           ch == [channel[c] EXCEPT !.expecting_interrupt = TRUE]
           place == IF req[t].op = "write" THEN "busy" ELSE "completion"
<1>1. /\ pc[t] = "issue" /\ pc' = [pc EXCEPT ![t] = place]
      /\ hw' = [hw EXCEPT ![c] = h] /\ channel' = [channel EXCEPT ![c] = ch]
      /\ UNCHANGED <<registers, is_ata, content, req, buffer>>
  BY Zenon DEF issue_pio_command, Goto
<1>2. /\ c \in Channels /\ UsedBy(t, c) /\ Phase(t)
      /\ hw \in [Channels -> ControllerType] /\ hw[c] \in ControllerType
      /\ channel \in [Channels -> ChannelType] /\ channel[c] \in ChannelType
      /\ pc \in [Threads -> PlaceType] /\ req[t] \in RequestType
  BY <1>1, InDriver, Zenon DEF Inside, Ctl, Ch
<1>3. h \in ControllerType /\ ch \in ChannelType
  BY <1>2, ZenonT(30) DEF ControllerType, RequestType, ChannelType
<1>4. DriverType'
  <2>1. hw' \in [Channels -> ControllerType] /\ channel' \in [Channels -> ChannelType]
    BY <1>1, <1>2, <1>3, Zenon
  <2>2. pc' \in [Threads -> PlaceType]
    BY <1>1, <1>2, Zenon DEF PlaceType, Inside
  <2> QED BY <1>1, <2>1, <2>2, Zenon DEF DiskInv, DriverType
<1>5. /\ hw'[c] = h /\ channel'[c] = ch /\ pc'[t] = place
      /\ \A e \in Channels : e # c => hw'[e] = hw[e] /\ channel'[e] = channel[e]
  BY <1>1, <1>2, Zenon
<1>6. Phase(t)'
  <2>1. Quiet(c) /\ ~hw[c].irq /\ Selected(t)
    BY <1>1, <1>2, Zenon DEF Phase, Ctl
  <2>2. /\ Selected(t)' /\ Silent(t)' /\ ch.expecting_interrupt
        /\ h.command = req[t].op /\ h.bsy /\ ~h.drq /\ h.data = NULL
    BY <1>1, <1>2, <1>5, <2>1, Zenon DEF Quiet, Ctl, Ch, Selected, Silent, ControllerType, ChannelType
  <2>3. req[t].op = "write" => Accepting(t)'
    BY <1>1, <1>5, <2>2, Zenon DEF Accepting, Ctl
  <2>4. req[t].op # "write" => Fetching(t)'
    BY <1>1, <1>5, <2>2, Zenon DEF Fetching, Ctl
  <2>5. Ch(t)'.expecting_interrupt /\ req'[t].op = req[t].op /\ pc'[t] = place
    BY <1>1, <1>5, <2>2, ZenonT(30) DEF Ch
  <2>6. CASE req[t].op = "write"
    BY <2>2, <2>3, <2>5, <2>6, Zenon DEF Phase
  <2>7. CASE req[t].op # "write"
    BY <2>2, <2>4, <2>5, <2>7, Zenon DEF Phase
  <2> QED BY <2>6, <2>7, Zenon
<1>7. channel'[c].lock = channel[c].lock
  BY <1>2, <1>5, Zenon DEF ChannelType
<1> QED BY <1>1, <1>2, <1>4, <1>5, <1>6, <1>7, InsideStep, Zenon DEF Inside

(* sema_down keeps the invariant: it returns after the command's own       *)
(* interrupt, with the data ready or stored.                               *)
LEMMA DownInv ==
    ASSUME DiskInv, NEW t \in Threads, sema_down(t),
           UNCHANGED <<partitionVars, probe, block_by_role>>
    PROVE  DiskInv'
<1> DEFINE c == chan(req[t].disk)
           ch == [channel[c] EXCEPT !.completion_wait = @ - 1]
           place == IF req[t].op = "write" THEN "unlock" ELSE "busy"
<1>1. /\ pc[t] = "completion" /\ pc' = [pc EXCEPT ![t] = place]
      /\ channel' = [channel EXCEPT ![c] = ch] /\ channel[c].completion_wait > 0
      /\ UNCHANGED <<registers, is_ata, hw, content, req, buffer>>
  BY Zenon DEF sema_down, Goto
<1>2. /\ c \in Channels /\ UsedBy(t, c) /\ Phase(t)
      /\ hw \in [Channels -> ControllerType] /\ hw[c] \in ControllerType
      /\ channel \in [Channels -> ChannelType] /\ channel[c] \in ChannelType
      /\ pc \in [Threads -> PlaceType] /\ req[t] \in RequestType
  BY <1>1, InDriver, Zenon DEF Inside, Ctl, Ch
<1>3. ch \in ChannelType
  BY <1>1, <1>2 DEF ChannelType
<1>4. DriverType'
  <2>1. channel' \in [Channels -> ChannelType]
    BY <1>1, <1>2, <1>3, Zenon
  <2>2. pc' \in [Threads -> PlaceType]
    BY <1>1, <1>2, Zenon DEF PlaceType, Inside
  <2> QED BY <1>1, <2>1, <2>2, Zenon DEF DiskInv, DriverType
<1>5. /\ channel'[c] = ch /\ pc'[t] = place
      /\ \A e \in Channels : e # c => channel'[e] = channel[e]
  BY <1>1, <1>2, Zenon
<1>6. Phase(t)'
  <2>1. /\ channel[c].expecting_interrupt /\ ~Silent(t)
        /\ req[t].op # "write" => Fetched(t) /\ Signalled(t)
        /\ req[t].op = "write" => Stored(t) /\ Signalled(t)
    BY <1>1, <1>2 DEF Phase, Silent, Ch
  <2>2. ~hw[c].irq /\ channel[c].completion_wait = 1
    BY <1>1, <2>1 DEF Signalled, Ctl, Ch
  <2>3. Silent(t)' /\ ch.expecting_interrupt
    BY <1>1, <1>2, <1>5, <2>1, <2>2 DEF Silent, Ctl, Ch, ChannelType
  <2>4. req[t].op # "write" => Fetched(t)'
    BY <1>1, <2>1, Zenon DEF Fetched, Selected, Ctl
  <2>5. req[t].op = "write" => Quiet(c)'
    BY <1>1, <1>5, <2>1, <2>2, <2>3, Zenon DEF Stored, Quiet, Silent, Ctl, Ch
  <2> QED BY <1>1, <1>5, <2>3, <2>4, <2>5 DEF Phase, Ch
<1>7. channel'[c].lock = channel[c].lock
  BY <1>2, <1>5, Zenon DEF ChannelType
<1> QED BY <1>1, <1>2, <1>4, <1>5, <1>6, <1>7, InsideStep, Zenon DEF Inside

(* input_sector keeps the invariant: it empties the controller.            *)
LEMMA InputInv ==
    ASSUME DiskInv, NEW t \in Threads, input_sector(t),
           UNCHANGED <<partitionVars, probe, block_by_role>>
    PROVE  DiskInv' /\ buffer' = [buffer EXCEPT ![t] = content[req[t].disk][req[t].sector]]
<1> DEFINE c == chan(req[t].disk)
           h == [hw[c] EXCEPT !.drq = FALSE, !.command = "none", !.data = NULL]
<1>1. /\ pc[t] = "busy" /\ req[t].op = "read" /\ pc' = [pc EXCEPT ![t] = "unlock"]
      /\ hw' = [hw EXCEPT ![c] = h] /\ buffer' = [buffer EXCEPT ![t] = hw[c].data]
      /\ UNCHANGED <<registers, is_ata, channel, content, req>>
  BY Zenon DEF input_sector, Goto
<1>2. /\ c \in Channels /\ UsedBy(t, c) /\ Phase(t) /\ Request(t)
      /\ hw \in [Channels -> ControllerType] /\ hw[c] \in ControllerType
      /\ pc \in [Threads -> PlaceType] /\ req[t] \in RequestType
      /\ buffer \in [Threads -> SectorType \cup {NULL}]
  BY <1>1, InDriver, Zenon DEF Inside, Ctl, DiskInv, DriverType
<1>3. h \in ControllerType /\ hw[c].data \in SectorType \cup {NULL}
  BY <1>2, ZenonT(30) DEF ControllerType
<1>4. DriverType'
  <2>1. hw' \in [Channels -> ControllerType] /\ buffer' \in [Threads -> SectorType \cup {NULL}]
    BY <1>1, <1>2, <1>3, Zenon
  <2>2. pc' \in [Threads -> PlaceType]
    BY <1>1, <1>2, Zenon DEF PlaceType, Inside
  <2> QED BY <1>1, <2>1, <2>2, Zenon DEF DiskInv, DriverType
<1>5. /\ hw'[c] = h /\ pc'[t] = "unlock" /\ buffer'[t] = hw[c].data
      /\ \A e \in Channels : e # c => hw'[e] = hw[e]
      /\ \A u \in Threads : u # t => buffer'[u] = buffer[u]
  BY <1>1, <1>2, Zenon
<1>6. /\ Fetched(t) /\ Silent(t) /\ Ch(t).expecting_interrupt
      /\ hw[c].data = content[req[t].disk][req[t].sector]
  BY <1>1, <1>2, Zenon DEF Phase, Fetched, Ctl
<1>7. Phase(t)'
  <2>1. Quiet(c)'
    BY <1>1, <1>2, <1>5, <1>6, Zenon DEF Quiet, Fetched, Silent, Ctl, Ch, ControllerType
  <2> QED BY <1>1, <1>5, <2>1, Zenon DEF Phase
<1>8. hw[c].data # NULL
  <2>1. /\ req[t].disk \in Disks /\ req[t].sector \in 0..(capacity[req[t].disk] - 1)
    BY <1>1, <1>2, Zenon DEF Request, RequestType
  <2>2. content[req[t].disk][req[t].sector] \in SectorType
    BY <2>1, ZenonT(30) DEF DiskInv, DriverType
  <2> QED BY <1>6, <2>2, DiskAssumption, Zenon DEF DiskAssumption
<1>9. DiskInv'
  BY <1>1, <1>2, <1>4, <1>5, <1>7, <1>8, InsideStep, Zenon DEF Inside
<1> QED BY <1>1, <1>6, <1>9, Zenon

(* output_sector keeps the invariant: the controller has the data.         *)
LEMMA OutputInv ==
    ASSUME DiskInv, NEW t \in Threads, output_sector(t),
           UNCHANGED <<partitionVars, probe, block_by_role>>
    PROVE  DiskInv'
<1> DEFINE c == chan(req[t].disk)
           h == [hw[c] EXCEPT !.drq = FALSE, !.bsy = TRUE, !.data = req[t].data]
<1>1. /\ pc[t] = "busy" /\ req[t].op = "write" /\ pc' = [pc EXCEPT ![t] = "completion"]
      /\ hw' = [hw EXCEPT ![c] = h]
      /\ UNCHANGED <<registers, is_ata, channel, content, req, buffer>>
  BY Zenon DEF output_sector, Goto
<1>2. /\ c \in Channels /\ UsedBy(t, c) /\ Phase(t)
      /\ hw \in [Channels -> ControllerType] /\ hw[c] \in ControllerType
      /\ pc \in [Threads -> PlaceType] /\ req[t] \in RequestType
  BY <1>1, InDriver, Zenon DEF Inside, Ctl
<1>3. h \in ControllerType
  BY <1>2, ZenonT(30) DEF ControllerType, RequestType
<1>4. DriverType'
  <2>1. hw' \in [Channels -> ControllerType]
    BY <1>1, <1>2, <1>3, Zenon
  <2>2. pc' \in [Threads -> PlaceType]
    BY <1>1, <1>2, Zenon DEF PlaceType, Inside
  <2> QED BY <1>1, <2>1, <2>2, Zenon DEF DiskInv, DriverType
<1>5. /\ hw'[c] = h /\ pc'[t] = "completion"
      /\ \A e \in Channels : e # c => hw'[e] = hw[e]
  BY <1>1, <1>2, Zenon
<1>6. Accepting(t) /\ Silent(t) /\ Ch(t).expecting_interrupt
  BY <1>1, <1>2, Zenon DEF Phase
<1>7. Phase(t)'
  <2>1. Storing(t)' /\ Silent(t)' /\ Ch(t)'.expecting_interrupt
    BY <1>1, <1>2, <1>5, <1>6, Zenon DEF Accepting, Storing, Selected, Silent, Ctl, Ch, ControllerType
  <2> QED BY <1>1, <1>5, <2>1, Zenon DEF Phase
<1> QED BY <1>1, <1>2, <1>4, <1>5, <1>7, InsideStep, Zenon DEF Inside

(* lock_release keeps the invariant: the channel that it frees is quiet.   *)
LEMMA ReleaseInv ==
    ASSUME DiskInv, NEW t \in Threads, lock_release(t),
           UNCHANGED <<partitionVars, probe, block_by_role>>
    PROVE  DiskInv'
<1> SUFFICES ASSUME NEW c, c = chan(req[t].disk) PROVE DiskInv'
  BY Zenon
<1> DEFINE ch == [channel[c] EXCEPT !.lock = NULL]
           place == req[t].then
<1>0. Main \in Threads /\ NULL \notin Threads
  BY DiskAssumption, Zenon DEF DiskAssumption
<1>1. /\ pc[t] = "unlock" /\ pc' = [pc EXCEPT ![t] = place]
      /\ channel' = [channel EXCEPT ![c] = ch] /\ req' = [req EXCEPT ![t] = NoRequest]
      /\ buffer' = [buffer EXCEPT ![t] = IF place = "idle" THEN NULL ELSE @]
      /\ UNCHANGED <<registers, is_ata, hw, content, all_blocks, tables, part_nr, probe, block_by_role>>
  BY Zenon DEF lock_release, Goto, partitionVars
<1>2. /\ c \in Channels /\ UsedBy(t, c) /\ Phase(t) /\ Request(t)
      /\ channel \in [Channels -> ChannelType] /\ channel[c] \in ChannelType
      /\ pc \in [Threads -> PlaceType] /\ req[t] \in RequestType
      /\ req \in [Threads -> RequestType]
      /\ buffer \in [Threads -> SectorType \cup {NULL}]
  BY <1>1, InDriver, Zenon DEF Inside, Ch, DiskInv, DriverType
<1>3. ch \in ChannelType /\ place \in {"idle", "parse"} /\ NoRequest \in RequestType
  <2>1. 0 \in Disks
    BY IdeAssumption DEF IdeAssumption, Disks
  <2> QED BY <1>2, <2>1, Zenon DEF ChannelType, RequestType, NoRequest
<1>4. DriverType'
  <2>1. channel' \in [Channels -> ChannelType] /\ req' \in [Threads -> RequestType]
    BY <1>1, <1>2, <1>3, Zenon
  <2>2. pc' \in [Threads -> PlaceType]
    BY <1>1, <1>2, <1>3, Zenon DEF PlaceType, BootPlaces
  <2>3. buffer' \in [Threads -> SectorType \cup {NULL}]
    BY <1>1, <1>2, Zenon
  <2> QED BY <1>1, <2>1, <2>2, <2>3, Zenon DEF DiskInv, DriverType
<1>5. /\ channel'[c] = ch /\ pc'[t] = place /\ req'[t] = NoRequest
      /\ pc'[t] \notin Inside
      /\ \A e \in Channels : e # c => channel'[e] = channel[e]
      /\ \A u \in Threads : u # t => pc'[u] = pc[u] /\ req'[u] = req[u] /\ buffer'[u] = buffer[u]
  BY <1>1, <1>2, <1>3, Zenon DEF Inside
<1>6. BootType'
  BY <1>1, Zenon DEF DiskInv, BootType
<1>7. (\A u \in Threads : Phase(u)') /\ Unused'
  <2>1. Quiet(c)'
    <3>1. Quiet(c)
      BY <1>1, <1>2, Zenon DEF Phase
    <3>2. /\ ch.completion_wait = channel[c].completion_wait
          /\ ch.expecting_interrupt = channel[c].expecting_interrupt
      BY <1>2, Zenon DEF ChannelType
    <3> HIDE DEF ch
    <3> QED BY <1>1, <1>5, <3>1, <3>2, Zenon DEF Quiet
  <2>2. Phase(t)'
    BY <1>5, Zenon DEF Phase, Inside
  <2>3. \A u \in Threads : UsedBy(u, c) => u = t
    BY <1>2, Alone, Zenon DEF UsedBy
  <2>4. /\ \A e \in Channels : e # c => hw'[e] = hw[e] /\ channel'[e] = channel[e]
        /\ \A d \in Disks : chan(d) # c => content'[d] = content[d]
    BY <1>1, <1>5, Zenon
  <2>5. chan(req[t].disk) = c /\ c \in Channels
    BY <1>2, Zenon
  <2>6. /\ \A u \in Threads : u # t => pc'[u] = pc[u] /\ req'[u] = req[u]
        /\ pc'[t] \notin Inside
    BY <1>5, Zenon
  <2> QED BY <2>1, <2>2, <2>3, <2>4, <2>5, <2>6, OtherPhases, Zenon
<1>8. \A u \in Threads : Request(u)'
  <2>1. Request(t)'
    BY <1>0, <1>1, <1>2, <1>3, <1>5, Zenon DEF Request, NoRequest, Inside, BootPlaces
  <2>2. ASSUME NEW u \in Threads, u # t PROVE Request(u)'
    <3>1. Request(u) /\ pc'[Main] \in {pc[Main], "idle", "parse"}
      BY <1>0, <1>3, <1>5, Zenon DEF DiskInv
    <3> QED BY <1>1, <1>5, <2>2, <3>1, Zenon DEF Request
  <2> QED BY <2>1, <2>2, Zenon
<1>9. Booting' /\ Scanning'
  <2>1. CASE t = Main
    <3>1. probe \in Disks => place = "parse" /\ buffer'[t] # NULL
      BY <1>1, <1>2, <2>1, InDriver, Zenon DEF DiskInv, Booting, Request, Inside
    <3>2. probe \notin Disks => place = "idle"
      BY <1>2, <1>3, Zenon DEF Request
    <3>3. Booting'
      BY <1>1, <1>5, <2>1, <3>1, <3>2 DEF Booting, NoRequest
    <3>4. Scanning'
      BY <1>1, <1>5, <2>1, <3>1, <3>2, Zenon DEF DiskInv, Scanning, Top
    <3> QED BY <3>3, <3>4, Zenon
  <2>2. CASE t # Main
    BY <1>0, <1>1, <1>5, <2>2, Zenon DEF DiskInv, Booting, Scanning, Top
  <2> QED BY <2>1, <2>2, Zenon
<1>10. Locked'
  <2>1. ASSUME NEW u \in Threads, pc'[u] \in Inside
        PROVE  Ch(u)'.lock = IF req'[u].op = "identify" THEN NULL ELSE u
    <3>1. u # t /\ pc[u] \in Inside
      BY <1>5, <2>1, Zenon
    <3>2. chan(req[u].disk) # c /\ chan(req[u].disk) \in Channels
      BY <1>2, <3>1, Alone, InDriver, Zenon DEF UsedBy
    <3> QED BY <1>5, <3>1, <3>2 DEF DiskInv, Locked, Ch
  <2>2. ASSUME NEW e \in Channels, channel'[e].lock # NULL
        PROVE  pc'[channel'[e].lock] \in Inside /\ chan(req'[channel'[e].lock].disk) = e
    <3>1. e # c /\ channel'[e] = channel[e]
      BY <1>2, <1>5, <2>2, ZenonT(30) DEF ChannelType
    <3>2. channel[e].lock \in Threads \ {t}
      BY <1>2, <2>2, <3>1 DEF DiskInv, Locked, ChannelType
    <3> QED BY <1>5, <2>2, <3>1, <3>2 DEF DiskInv, Locked
  <2> QED BY <2>1, <2>2, Zenon DEF Locked
<1> QED BY <1>4, <1>6, <1>7, <1>8, <1>9, <1>10, Zenon DEF DiskInv

(* A thread that uses the channel of a controller that is busy or has an   *)
(* expected interrupt pending.                                             *)
LEMMA User ==
    ASSUME DiskInv, NEW c \in Channels, ~Quiet(c)
    PROVE  \E t \in Threads : UsedBy(t, c) /\ pc[t] \in {"completion", "busy"}
<1>1. PICK t \in Threads : UsedBy(t, c)
  BY Zenon DEF DiskInv, Unused
<1>2. pc[t] \notin {"select", "unlock", "issue"}
  BY <1>1, Zenon DEF DiskInv, Phase, UsedBy
<1> QED BY <1>1, <1>2, Zenon DEF UsedBy, Inside

(* interrupt_handler keeps the invariant: an expected interrupt is the one *)
(* of the command of the thread that uses the channel.                     *)
LEMMA HandlerInv ==
    ASSUME DiskInv, NEW c \in Channels, interrupt_handler(c),
           UNCHANGED <<partitionVars, probe, block_by_role>>
    PROVE  DiskInv'
<1> DEFINE h == [hw[c] EXCEPT !.irq = FALSE]
           ch == [channel[c] EXCEPT !.completion_wait =
                      IF channel[c].expecting_interrupt THEN @ + 1 ELSE @]
<1>1. /\ hw[c].irq /\ hw' = [hw EXCEPT ![c] = h] /\ channel' = [channel EXCEPT ![c] = ch]
      /\ UNCHANGED <<registers, is_ata, content, pc, req, buffer, all_blocks, tables, part_nr, probe, block_by_role>>
  BY Zenon DEF interrupt_handler, partitionVars
<1>2. /\ hw \in [Channels -> ControllerType] /\ hw[c] \in ControllerType
      /\ channel \in [Channels -> ChannelType] /\ channel[c] \in ChannelType
  BY Zenon DEF DiskInv, DriverType
<1>3. h \in ControllerType /\ ch \in ChannelType
  <2>1. h \in ControllerType
    BY <1>2, ZenonT(30) DEF ControllerType
  <2>2. ch \in ChannelType
    BY <1>2 DEF ChannelType
  <2> QED BY <2>1, <2>2, Zenon
<1>4. DriverType'
  <2>1. hw' \in [Channels -> ControllerType] /\ channel' \in [Channels -> ChannelType]
    BY <1>1, <1>2, <1>3, Zenon
  <2> QED BY <1>1, <2>1, Zenon DEF DiskInv, DriverType
<1>5. /\ hw'[c] = h /\ channel'[c] = ch /\ ch.lock = channel[c].lock
      /\ \A e \in Channels : e # c => hw'[e] = hw[e] /\ channel'[e] = channel[e]
  BY <1>1, <1>2, Zenon DEF ChannelType
<1>6. CASE Quiet(c)
  <2>1. Quiet(c)' /\ ~channel[c].expecting_interrupt
    BY <1>1, <1>2, <1>5, <1>6, Zenon DEF Quiet, ControllerType, ChannelType
  <2>2. ASSUME NEW t \in Threads PROVE Phase(t)'
    <3>1. Phase(t)
      BY Zenon DEF DiskInv
    <3>2. CASE UsedBy(t, c)
      <4>1. pc[t] \in {"select", "unlock"}
        BY <1>1, <2>1, <3>1, <3>2, Zenon DEF Phase, UsedBy, Inside, Ctl, Ch
      <4> QED BY <1>1, <2>1, <3>2, <4>1, Zenon DEF Phase, UsedBy
    <3>3. CASE pc[t] \in Inside /\ ~UsedBy(t, c)
      BY <1>1, <1>5, <3>1, <3>3, SamePhase, InDriver, Zenon DEF UsedBy
    <3>4. CASE pc[t] \notin Inside
      BY <1>1, <3>4, Zenon DEF Phase, Inside
    <3> QED BY <3>2, <3>3, <3>4, Zenon
  <2>3. Unused'
    <3>1. ASSUME NEW e \in Channels, \A t \in Threads : ~UsedBy(t, e)', e # c PROVE Quiet(e)'
      BY <1>1, <1>5, <3>1 DEF DiskInv, Unused, UsedBy, Quiet
    <3> QED BY <2>1, <3>1, Zenon DEF Unused
  <2>4. \A t \in Threads : Request(t)'
    BY <1>1, Zenon DEF DiskInv, Request
  <2>5. Booting' /\ Scanning' /\ BootType'
    BY <1>1, Zenon DEF DiskInv, Booting, Scanning, BootType, Top
  <2>6. Locked'
    <3>1. \A e \in Channels : channel'[e].lock = channel[e].lock
      BY <1>5, ZenonT(30)
    <3>2. \A t \in Threads : pc[t] \in Inside => chan(req[t].disk) \in Channels
      BY InDriver, Zenon
    <3> QED BY <1>1, <3>1, <3>2, Zenon DEF DiskInv, Locked, Ch
  <2> QED BY <1>4, <2>2, <2>3, <2>4, <2>5, <2>6, Zenon DEF DiskInv
<1>7. CASE ~Quiet(c)
  <2>1. PICK t \in Threads : UsedBy(t, c) /\ pc[t] \in {"completion", "busy"}
    BY <1>7, User, Zenon
  <2>2. Phase(t) /\ req[t].op \in {"read", "write", "identify"} /\ c = chan(req[t].disk)
    BY <2>1, InDriver, Zenon DEF UsedBy
  <2>3. /\ pc[t] = "completion" /\ channel[c].expecting_interrupt
        /\ Signalled(t) /\ channel[c].completion_wait = 0
        /\ req[t].op # "write" => Fetched(t)
        /\ req[t].op = "write" => Stored(t)
    BY <1>1, <2>1, <2>2, Zenon DEF Phase, Silent, Signalled, Ctl, Ch
  <2>4. Signalled(t)' /\ Ch(t)'.expecting_interrupt
    BY <1>1, <1>2, <1>5, <2>2, <2>3 DEF Signalled, Ctl, Ch, ControllerType, ChannelType
  <2>5. req[t].op # "write" => Fetched(t)'
    BY <1>1, <1>2, <1>5, <2>2, <2>3, Zenon DEF Fetched, Selected, Ctl, ControllerType
  <2>6. req[t].op = "write" => Stored(t)'
    BY <1>1, <1>2, <1>5, <2>2, <2>3, Zenon DEF Stored, Ctl, ControllerType
  <2>7. Phase(t)'
    BY <1>1, <2>3, <2>4, <2>5, <2>6, Zenon DEF Phase
  <2>8. pc' = [pc EXCEPT ![t] = pc'[t]]
    BY <1>1, Zenon DEF DiskInv, DriverType
  <2> QED BY <1>1, <1>4, <1>5, <2>1, <2>3, <2>7, <2>8, InsideStep DEF Inside
<1> QED BY <1>6, <1>7, Zenon

(* The three steps of a controller for the request of thread t.            *)
Fetch(t, c) ==
    /\ Fetching(t) /\ pc[t] = "completion" /\ req[t].op \in {"read", "identify"}
    /\ \E drq \in BOOLEAN :
           /\ req[t].op = "read" => drq
           /\ hw' = [hw EXCEPT ![c] = [hw[c] EXCEPT !.bsy = FALSE, !.drq = drq, !.irq = TRUE,
                  !.data = IF req[t].op = "read" THEN content[req[t].disk][req[t].sector] ELSE NULL]]
    /\ UNCHANGED content

Accept(t, c) ==
    /\ Accepting(t) /\ pc[t] = "busy" /\ req[t].op = "write"
    /\ hw' = [hw EXCEPT ![c] = [hw[c] EXCEPT !.bsy = FALSE, !.drq = TRUE]]
    /\ UNCHANGED content

Store(t, c) ==
    /\ Storing(t) /\ pc[t] = "completion" /\ req[t].op = "write"
    /\ hw' = [hw EXCEPT ![c] = [hw[c] EXCEPT !.bsy = FALSE, !.irq = TRUE, !.data = NULL,
                                           !.command = "none"]]
    /\ content' = [content EXCEPT ![req[t].disk][req[t].sector] = req[t].data]

(* What the controller does for the thread that uses the channel.          *)
LEMMA FinishCases ==
    ASSUME DiskInv, NEW c \in Channels, FinishPhase(c)
    PROVE  \E t \in Threads : /\ UsedBy(t, c) /\ Ch(t).expecting_interrupt /\ Silent(t)
                              /\ Fetch(t, c) \/ Accept(t, c) \/ Store(t, c)
<1>1. PICK t \in Threads : UsedBy(t, c) /\ pc[t] \in {"completion", "busy"}
  BY User, ZenonT(30) DEF FinishPhase, Quiet
<1>2. /\ Phase(t) /\ Request(t) /\ hw[c] = Ctl(t) /\ hw[c].bsy /\ hw[c] \in ControllerType
      /\ req[t].op \in {"read", "write", "identify"} /\ hw \in [Channels -> ControllerType]
  BY <1>1, InDriver, ZenonT(30) DEF FinishPhase, UsedBy, Ctl
<1>3. Ch(t).expecting_interrupt
  BY <1>1, <1>2, Zenon DEF Phase
<1>4. CASE req[t].op # "write"
  <2>1. Fetching(t) /\ Silent(t) /\ pc[t] = "completion" /\ req[t].op \in {"read", "identify"}
    BY <1>1, <1>2, <1>4, ZenonT(30) DEF Phase, Fetched
  <2>2. /\ hw[c].command = req[t].op /\ hw[c].data = NULL
        /\ hw[c].disk = req[t].disk /\ hw[c].sector = req[t].sector
    BY <1>2, <2>1, Zenon DEF Fetching, Selected
  <2>3. PICK drq \in BOOLEAN :
          /\ req[t].op = "read" => drq
          /\ hw' = [hw EXCEPT ![c].bsy = FALSE, ![c].drq = drq, ![c].irq = TRUE,
                      ![c].data = IF @ = NULL /\ hw[c].command = "read"
                                  THEN content[hw[c].disk][hw[c].sector] ELSE @]
          /\ UNCHANGED content
    BY <1>4, <2>1, <2>2, ZenonT(30) DEF FinishPhase
  <2>4. hw' = [hw EXCEPT ![c] = [hw[c] EXCEPT !.bsy = FALSE, !.drq = drq, !.irq = TRUE,
             !.data = IF req[t].op = "read" THEN content[req[t].disk][req[t].sector] ELSE NULL]]
    BY <1>2, <2>2, <2>3, ZenonT(30) DEF ControllerType
  <2> QED BY <1>1, <1>3, <2>1, <2>3, <2>4, ZenonT(30) DEF Fetch
<1>5. CASE req[t].op = "write" /\ pc[t] = "busy"
  <2>1. Accepting(t) /\ Silent(t)
    BY <1>2, <1>5, Zenon DEF Phase
  <2>2. hw[c].command = "write" /\ hw[c].data = NULL
    BY <1>2, <2>1, Zenon DEF Accepting
  <2>3. hw' = [hw EXCEPT ![c].bsy = FALSE, ![c].drq = TRUE] /\ UNCHANGED content
    BY <2>2, ZenonT(30) DEF FinishPhase
  <2>4. hw' = [hw EXCEPT ![c] = [hw[c] EXCEPT !.bsy = FALSE, !.drq = TRUE]]
    BY <1>2, <2>3, ZenonT(30) DEF ControllerType
  <2> QED BY <1>1, <1>3, <1>5, <2>1, <2>3, <2>4, ZenonT(30) DEF Accept
<1>6. CASE req[t].op = "write" /\ pc[t] = "completion"
  <2>1. Storing(t) /\ Silent(t) /\ req[t].data # NULL
    BY <1>2, <1>6, Zenon DEF Phase, Stored, Request
  <2>2. /\ hw[c].command = "write" /\ hw[c].data = req[t].data
        /\ hw[c].disk = req[t].disk /\ hw[c].sector = req[t].sector
    BY <1>2, <2>1, Zenon DEF Storing, Selected
  <2>3. /\ content' = [content EXCEPT ![hw[c].disk][hw[c].sector] = hw[c].data]
        /\ hw' = [hw EXCEPT ![c].bsy = FALSE, ![c].irq = TRUE, ![c].data = NULL,
                            ![c].command = "none"]
    BY <2>1, <2>2, Zenon DEF FinishPhase
  <2>4. hw' = [hw EXCEPT ![c] = [hw[c] EXCEPT !.bsy = FALSE, !.irq = TRUE, !.data = NULL,
                                            !.command = "none"]]
    BY <1>2, <2>3, Zenon DEF ControllerType
  <2>5. content' = [content EXCEPT ![req[t].disk][req[t].sector] = req[t].data]
    BY <2>2, <2>3, Zenon
  <2> QED BY <1>1, <1>3, <1>6, <2>1, <2>4, <2>5, Zenon DEF Store
<1> QED BY <1>1, <1>4, <1>5, <1>6, Zenon

(* FinishPhase keeps the invariant: what it reads or stores is what the    *)
(* thread that uses the channel asked for.                                 *)
LEMMA FinishInv ==
    ASSUME DiskInv, NEW c \in Channels, FinishPhase(c),
           UNCHANGED <<partitionVars, probe, block_by_role>>
    PROVE  DiskInv'
<1>1. UNCHANGED <<registers, is_ata, channel, pc, req, buffer>>
  BY Zenon DEF FinishPhase
<1>2. PICK t \in Threads : /\ UsedBy(t, c) /\ Ch(t).expecting_interrupt /\ Silent(t)
                           /\ Fetch(t, c) \/ Accept(t, c) \/ Store(t, c)
  BY FinishCases, Zenon
<1>3. /\ c = chan(req[t].disk) /\ hw[c] = Ctl(t) /\ hw[c] \in ControllerType /\ Request(t)
      /\ pc[t] \in Inside /\ req[t] \in RequestType /\ hw \in [Channels -> ControllerType]
      /\ pc \in [Threads -> PlaceType]
  BY <1>2, InDriver, Zenon DEF UsedBy, Ctl
<1>4. req[t].op # "identify" => /\ req[t].disk \in Disks
                                /\ req[t].sector \in 0..(capacity[req[t].disk] - 1)
                                /\ content[req[t].disk][req[t].sector] \in SectorType
  <2>1. req[t].op # "identify" => /\ req[t].disk \in Disks
                                  /\ req[t].sector \in 0..(capacity[req[t].disk] - 1)
    BY <1>3, InDriver, ZenonT(30) DEF Request, RequestType
  <2> QED BY <2>1, ZenonT(30) DEF DiskInv, DriverType
<1>5. /\ pc' = [pc EXCEPT ![t] = pc'[t]] /\ pc'[t] = pc[t] /\ req' = req /\ channel' = channel
      /\ \A u \in Threads : buffer'[u] = buffer[u]
      /\ Ch(t)'.expecting_interrupt
  <2>1. pc = [pc EXCEPT ![t] = pc[t]]
    BY <1>3, Zenon
  <2> QED BY <1>1, <1>2, <2>1, Zenon DEF Ch
<1>6. CASE Fetch(t, c)
  <2>1. PICK drq \in BOOLEAN :
          /\ req[t].op = "read" => drq
          /\ hw' = [hw EXCEPT ![c] = [hw[c] EXCEPT !.bsy = FALSE, !.drq = drq, !.irq = TRUE,
                 !.data = IF req[t].op = "read" THEN content[req[t].disk][req[t].sector] ELSE NULL]]
    BY <1>6, ZenonT(30) DEF Fetch
  <2> DEFINE data == IF req[t].op = "read" THEN content[req[t].disk][req[t].sector] ELSE NULL
             h == [hw[c] EXCEPT !.bsy = FALSE, !.drq = drq, !.irq = TRUE, !.data = data]
  <2>2. data \in SectorType \cup {NULL}
    BY <1>4, Zenon
  <2> HIDE DEF data
  <2>3. h \in ControllerType
    BY <1>3, <2>2, ZenonT(30) DEF ControllerType
  <2>4. /\ hw' \in [Channels -> ControllerType] /\ hw'[c] = h
        /\ \A e \in Channels : e # c => hw'[e] = hw[e]
    BY <1>3, <2>1, <2>3, Zenon DEF data
  <2>5. DriverType'
    BY <1>1, <1>6, <2>4, Zenon DEF DiskInv, DriverType, Fetch
  <2>6. Ctl(t)' = h
    BY <1>3, <1>5, <2>4, Zenon DEF Ctl
  <2>7. /\ h.disk = req[t].disk /\ h.sector = req[t].sector /\ h.command = req[t].op
        /\ ~h.bsy /\ h.irq /\ h.drq = drq /\ h.data = data
    BY <1>3, <1>6, Zenon DEF ControllerType, Fetching, Selected, Fetch
  <2>8. Fetched(t)'
    BY <1>5, <1>6, <2>1, <2>6, <2>7, Zenon DEF Fetched, Selected, data, Fetch
  <2>9. Signalled(t)'
    BY <1>2, <1>5, <2>6, <2>7, Zenon DEF Silent, Signalled, Ch
  <2>10. Phase(t)'
    BY <1>5, <1>6, <2>8, <2>9, Zenon DEF Phase, Fetch
  <2>11. content' = content /\ pc'[t] # "unlock"
    BY <1>5, <1>6, Zenon DEF Fetch
  <2> QED BY <1>2, <1>3, <1>5, <2>4, <2>5, <2>10, <2>11, InsideStep, ZenonT(30)
<1>7. CASE Accept(t, c)
  <2> DEFINE h == [hw[c] EXCEPT !.bsy = FALSE, !.drq = TRUE]
  <2>1. h \in ControllerType
    BY <1>3, ZenonT(30) DEF ControllerType
  <2>2. /\ hw' \in [Channels -> ControllerType] /\ hw'[c] = h
        /\ \A e \in Channels : e # c => hw'[e] = hw[e]
    BY <1>3, <1>7, <2>1, Zenon DEF Accept
  <2>3. DriverType'
    BY <1>1, <1>7, <2>2, Zenon DEF DiskInv, DriverType, Accept
  <2>4. Ctl(t)' = h
    BY <1>3, <1>5, <2>2, Zenon DEF Ctl
  <2>5. Accepting(t)' /\ Silent(t)'
    BY <1>2, <1>3, <1>5, <1>7, <2>4 DEF Accepting, Selected, Silent, Ch, ControllerType, Accept
  <2>6. Phase(t)'
    BY <1>5, <1>7, <2>5, Zenon DEF Phase, Accept
  <2> QED BY <1>2, <1>3, <1>5, <1>7, <2>2, <2>3, <2>6, InsideStep, Zenon DEF Accept
<1>8. CASE Store(t, c)
  <2> DEFINE h == [hw[c] EXCEPT !.bsy = FALSE, !.irq = TRUE, !.data = NULL, !.command = "none"]
  <2>1. h \in ControllerType
    BY <1>3, Zenon DEF ControllerType
  <2>2. /\ hw' \in [Channels -> ControllerType] /\ hw'[c] = h
        /\ \A e \in Channels : e # c => hw'[e] = hw[e]
    BY <1>3, <1>8, <2>1, Zenon DEF Store
  <2>3. req[t].data \in SectorType
    BY <1>3, <1>8, Zenon DEF Request, RequestType, Store
  <2>4. /\ content' = [d \in Disks |-> content'[d]]
        /\ \A d \in Disks : content'[d] \in [0..(capacity[d] - 1) -> SectorType]
        /\ \A d \in Disks : d # req[t].disk => content'[d] = content[d]
    BY <1>4, <1>8, <2>3, Zenon DEF DiskInv, DriverType, Store
  <2>5. DriverType'
    BY <1>1, <2>2, <2>4, Zenon DEF DiskInv, DriverType
  <2>6. Ctl(t)' = h
    BY <1>3, <1>5, <2>2, Zenon DEF Ctl
  <2>7. Stored(t)' /\ Signalled(t)'
    BY <1>2, <1>3, <1>5, <1>8, <2>6, Zenon DEF Stored, Storing, Signalled, Silent, Ch, ControllerType, Store
  <2>8. Phase(t)'
    BY <1>5, <1>8, <2>7, Zenon DEF Phase, Store
  <2> QED BY <1>2, <1>3, <1>5, <1>8, <2>2, <2>4, <2>5, <2>8, InsideStep DEF Store
<1> QED BY <1>2, <1>6, <1>7, <1>8, Zenon

-----------------------------------------------------------------------------
(* While the main thread boots, the other threads are idle; outside the    *)
(* driver, no channel is in use.                                           *)
LEMMA OthersIdle ==
    ASSUME DiskInv, probe \in Disks \/ pc[Main] = "locate"
    PROVE  \A u \in Threads : u # Main => pc[u] = "idle"
BY Zenon DEF DiskInv, Request

(* Outside the driver, every channel is quiet during the boot.             *)
LEMMA AllQuiet ==
    ASSUME DiskInv, probe \in Disks \/ pc[Main] = "locate", pc[Main] \notin Inside
    PROVE  \A c \in Channels : Quiet(c) /\ channel[c].lock = NULL
<1>1. \A u \in Threads : pc[u] \notin Inside
  BY OthersIdle, Zenon DEF Inside
<1>2. \A c \in Channels : Quiet(c)
  BY <1>1, Zenon DEF DiskInv, Unused, UsedBy
<1>3. ASSUME NEW c \in Channels, channel[c].lock # NULL PROVE FALSE
  <2>1. channel[c].lock \in Threads
    BY <1>3, Zenon DEF DiskInv, DriverType, ChannelType
  <2> QED BY <1>1, <1>3, <2>1, Zenon DEF DiskInv, Locked
<1> QED BY <1>2, <1>3, Zenon

(* A step of the boot that leaves all channels quiet and free.             *)
LEMMA BootStep ==
    ASSUME DiskInv, DriverType', BootType', probe \in Disks \/ pc[Main] = "locate",
           \A u \in Threads : u # Main => pc'[u] = pc[u] /\ req'[u] = req[u],
           pc'[Main] \in Inside => pc'[Main] = "select" /\ req'[Main].op = "identify",
           \A c \in Channels : Quiet(c)' /\ channel'[c].lock = NULL,
           Request(Main)', Booting', Scanning'
    PROVE  DiskInv'
<1>1. Main \in Threads /\ \A u \in Threads : u # Main => pc'[u] = "idle"
  BY OthersIdle, DiskAssumption, Zenon DEF DiskAssumption
<1>2. ASSUME NEW u \in Threads, u # Main PROVE Request(u)' /\ Phase(u)'
  <2>1. pc[u] = "idle" /\ Request(u)
    BY <1>2, OthersIdle, ZenonT(30) DEF DiskInv
  <2>2. req[u].op = "none" /\ req[u].then # "parse" /\ req[u] = NoRequest
    BY <1>2, <2>1, Zenon DEF Request, Inside
  <2>3. pc'[u] = "idle" /\ req'[u] = req[u]
    BY <1>2, <2>1, Zenon
  <2> QED BY <1>2, <2>2, <2>3, ZenonT(30) DEF Request, Phase, Inside, BootPlaces
<1>3. req' \in [Threads -> RequestType]
  BY Zenon DEF DriverType
<1>4. Phase(Main)'
  <2>1. CASE pc'[Main] \notin Inside
    BY <2>1, ZenonT(30) DEF Phase, Inside
  <2>2. CASE pc'[Main] \in Inside
    <3>1. chan(req'[Main].disk) \in Channels
      BY <1>1, <1>3, ChanType, ZenonT(30) DEF RequestType
    <3>2. pc'[Main] = "select" /\ Quiet(chan(req[Main].disk))'
      BY <2>2, <3>1, Zenon
    <3> QED BY <3>2, Zenon DEF Phase
  <2> QED BY <2>1, <2>2, Zenon
<1>5. Unused'
  BY Zenon DEF Unused
<1>6. Locked'
  <2>1. ASSUME NEW t \in Threads, pc'[t] \in Inside
        PROVE  Ch(t)'.lock = IF req'[t].op = "identify" THEN NULL ELSE t
    <3>1. t = Main /\ req'[t].op = "identify"
      BY <1>1, <2>1, Zenon DEF Inside
    <3>2. chan(req'[t].disk) \in Channels
      BY <1>3, ChanType, Zenon DEF RequestType
    <3> QED BY <3>1, <3>2, Zenon DEF Ch
  <2> QED BY <2>1, Zenon DEF Locked
<1> QED BY <1>1, <1>2, <1>4, <1>5, <1>6, Zenon DEF DiskInv

(* ide_init's loop goes on to a disk, or to the end.                       *)
LEMMA AfterDiskType ==
    ASSUME DiskInv, probe \in Disks, AfterDisk(Main)
    PROVE  /\ probe' \in 0..(2 * CHANNEL_CNT)
           /\ probe' \in Disks => pc'[Main] \in {"reset", "probe"}
           /\ probe' \notin Disks => pc'[Main] = "locate"
           /\ pc' \in [Threads -> PlaceType]
           /\ \A u \in Threads : u # Main => pc'[u] = pc[u]
<1>1. Main \in Threads /\ pc \in [Threads -> PlaceType]
  BY DiskAssumption, Zenon DEF DiskAssumption, DiskInv, DriverType
<1>2. probe' \in 0..(2 * CHANNEL_CNT)
  BY IdeAssumption DEF IdeAssumption, AfterDisk, Disks
<1>3. /\ probe' \in Disks => pc'[Main] \in {"reset", "probe"}
      /\ probe' \notin Disks => pc'[Main] = "locate"
  BY <1>1, Zenon DEF AfterDisk, Goto
<1>4. pc' \in [Threads -> PlaceType]
  BY <1>1, Zenon DEF AfterDisk, Goto, PlaceType, BootPlaces
<1> QED BY <1>1, <1>2, <1>3, <1>4, Zenon DEF AfterDisk, Goto

(* The main thread without a request.                                      *)
LEMMA NoRequestMain ==
    ASSUME DiskInv, pc[Main] \in BootPlaces
    PROVE  /\ Main \in Threads /\ Request(Main) /\ req[Main].op = "none" /\ req[Main].then # "parse"
           /\ pc[Main] \notin Inside
<1>1. Main \in Threads
  BY DiskAssumption, Zenon DEF DiskAssumption
<1> QED BY <1>1, Zenon DEF DiskInv, Request, Inside, BootPlaces

(* reset_channel of ide_init keeps the invariant.                          *)
LEMMA ResetInv ==
    ASSUME DiskInv, ide_init(Main)
    PROVE  DiskInv'
<1> SUFFICES ASSUME NEW c, c = chan(probe) PROVE DiskInv'
  BY Zenon
<1> DEFINE ch == [lock |-> NULL, expecting_interrupt |-> FALSE, completion_wait |-> 0]
<1>1. /\ pc[Main] = "reset" /\ pc' = [pc EXCEPT ![Main] = "probe"]
      /\ channel' = [channel EXCEPT ![c] = ch]
      /\ UNCHANGED <<registers, content, req, buffer, all_blocks, tables, part_nr, probe, block_by_role>>
  BY Zenon DEF ide_init, reset_channel, Goto, partitionVars
<1>2. PICK irq \in BOOLEAN : hw' = [hw EXCEPT ![c] = [IdleController(c) EXCEPT !.irq = irq]]
  BY ZenonT(30) DEF ide_init, reset_channel
<1>3. /\ Main \in Threads /\ Request(Main) /\ req[Main].op = "none" /\ req[Main].then # "parse"
      /\ pc[Main] \notin Inside
  BY <1>1, NoRequestMain, ZenonT(30) DEF BootPlaces
<1>4. probe \in Disks /\ c \in Channels /\ 2 * c \in Disks /\ 2 * c + 1 \in Disks
  <2>1. probe \in Disks
    BY <1>1, Zenon DEF DiskInv, Booting
  <2> QED BY <2>1, ChanType, Zenon
<1>5. /\ hw \in [Channels -> ControllerType] /\ channel \in [Channels -> ChannelType]
      /\ pc \in [Threads -> PlaceType] /\ is_ata \subseteq Disks
  BY Zenon DEF DiskInv, DriverType
<1>6. DriverType'
  <2>1. [IdleController(c) EXCEPT !.irq = irq] \in ControllerType /\ ch \in ChannelType
    BY <1>4, Zenon DEF IdleController, ControllerType, ChannelType
  <2>2. hw' \in [Channels -> ControllerType]
    BY <1>2, <1>5, <2>1, Zenon
  <2>3. channel' \in [Channels -> ChannelType]
    BY <1>1, <1>5, <2>1, Zenon
  <2>4. pc' \in [Threads -> PlaceType]
    BY <1>1, <1>5, Zenon DEF PlaceType, BootPlaces
  <2>5. is_ata' \subseteq Disks
    BY <1>4, <1>5, Zenon DEF ide_init, reset_channel
  <2> QED BY <1>1, <2>2, <2>3, <2>4, <2>5, Zenon DEF DiskInv, DriverType
<1>7. BootType'
  BY <1>1, Zenon DEF DiskInv, BootType
<1>8. ASSUME NEW e \in Channels PROVE Quiet(e)' /\ channel'[e].lock = NULL
  <2>1. CASE e = c
    <3>1. hw'[e] = [IdleController(c) EXCEPT !.irq = irq] /\ channel'[e] = ch
      BY <1>1, <1>2, <1>5, <2>1, Zenon
    <3> QED BY <3>1 DEF Quiet, IdleController
  <2>2. CASE e # c
    <3>1. hw'[e] = hw[e] /\ channel'[e] = channel[e] /\ Quiet(e) /\ channel[e].lock = NULL
      BY <1>1, <1>2, <1>3, <1>4, <1>5, <2>2, AllQuiet, Zenon
    <3> QED BY <3>1, Zenon DEF Quiet
  <2> QED BY <2>1, <2>2, Zenon
<1>9. /\ pc'[Main] = "probe" /\ req'[Main] = req[Main]
      /\ \A u \in Threads : u # Main => pc'[u] = pc[u] /\ req'[u] = req[u]
  BY <1>1, <1>3, <1>5, Zenon
<1>10. Request(Main)' /\ Booting' /\ Scanning'
  BY <1>1, <1>3, <1>4, <1>9, ZenonT(30) DEF DiskInv, Request, Booting, Scanning, Inside, BootPlaces
<1> QED BY <1>4, <1>6, <1>7, <1>8, <1>9, <1>10, BootStep, ZenonT(30) DEF Inside

(* ProbeDisk keeps the invariant.                                          *)
LEMMA ProbeInv ==
    ASSUME DiskInv, ProbeDisk(Main)
    PROVE  DiskInv'
<1>1. /\ pc[Main] = "probe"
      /\ UNCHANGED <<registers, is_ata, channel, hw, content, buffer, all_blocks, tables, part_nr,
                     block_by_role>>
  BY Zenon DEF ProbeDisk, partitionVars
<1>2. /\ Main \in Threads /\ Request(Main) /\ req[Main].op = "none" /\ req[Main].then # "parse"
      /\ pc[Main] \notin Inside
  BY <1>1, NoRequestMain, Zenon DEF BootPlaces
<1>3. probe \in Disks
  BY <1>1, Zenon DEF DiskInv, Booting
<1>4. /\ pc \in [Threads -> PlaceType] /\ req \in [Threads -> RequestType]
      /\ probe \in 0..(2 * CHANNEL_CNT)
  BY Zenon DEF DiskInv, DriverType, BootType
<1>5. \A c \in Channels : Quiet(c)' /\ channel'[c].lock = NULL
  BY <1>1, <1>2, <1>3, AllQuiet, Zenon DEF Quiet
<1>6. CASE probe \in is_ata
  <2> DEFINE r == [NoRequest EXCEPT !.op = "identify", !.disk = probe]
  <2>1. /\ pc' = [pc EXCEPT ![Main] = "select"] /\ req' = [req EXCEPT ![Main] = r]
        /\ probe' = probe
    BY <1>6, Zenon DEF ProbeDisk, Goto
  <2>2. r \in RequestType /\ r.op = "identify" /\ r.disk = probe /\ r.then = "idle"
    BY <1>3, ZenonT(30) DEF NoRequest, RequestType
  <2> HIDE DEF r
  <2>3. pc' \in [Threads -> PlaceType] /\ req' \in [Threads -> RequestType]
    BY <1>4, <2>1, <2>2, ZenonT(30) DEF PlaceType, Inside
  <2>4. /\ pc'[Main] = "select" /\ req'[Main] = r
        /\ \A u \in Threads : u # Main => pc'[u] = pc[u] /\ req'[u] = req[u]
    BY <1>2, <1>4, <2>1, Zenon
  <2>5. DriverType' /\ BootType'
    BY <1>1, <2>1, <2>3, Zenon DEF DiskInv, DriverType, BootType
  <2>6. Request(Main)'
    BY <1>3, <2>1, <2>2, <2>4, Zenon DEF Request, Inside, BootPlaces
  <2>7. Booting' /\ Scanning'
    BY <1>1, <1>3, <2>1, <2>2, <2>4, ZenonT(30) DEF DiskInv, Booting, Scanning, Inside
  <2> QED BY <1>3, <1>5, <2>2, <2>4, <2>5, <2>6, <2>7, BootStep, Zenon
<1>7. CASE probe \notin is_ata
  <2>1. AfterDisk(Main) /\ req' = req
    BY <1>7, Zenon DEF ProbeDisk
  <2>2. /\ probe' \in 0..(2 * CHANNEL_CNT)
        /\ probe' \in Disks => pc'[Main] \in {"reset", "probe"}
        /\ probe' \notin Disks => pc'[Main] = "locate"
        /\ pc' \in [Threads -> PlaceType]
        /\ \A u \in Threads : u # Main => pc'[u] = pc[u]
    BY <1>3, <2>1, AfterDiskType, Zenon
  <2>3. DriverType' /\ BootType'
    BY <1>1, <2>1, <2>2, Zenon DEF DiskInv, DriverType, BootType
  <2>4. Request(Main)'
    BY <1>2, <2>1, <2>2, Zenon DEF Request, Inside, BootPlaces
  <2>5. Booting' /\ Scanning'
    BY <1>1, <1>2, <2>1, <2>2, ZenonT(30) DEF DiskInv, Booting, Scanning, Inside
  <2> QED BY <1>3, <1>5, <2>1, <2>2, <2>3, <2>4, <2>5, BootStep, ZenonT(30) DEF Inside
<1> QED BY <1>6, <1>7, Zenon

(* ScanDone keeps the invariant.                                           *)
LEMMA ScanDoneInv ==
    ASSUME DiskInv, ScanDone(Main)
    PROVE  DiskInv'
<1>1. /\ pc[Main] = "parse" /\ AfterDisk(Main) /\ tables = <<>>
      /\ UNCHANGED <<registers, is_ata, channel, hw, content, req, buffer, all_blocks, tables, part_nr,
                     block_by_role>>
  BY Zenon DEF ScanDone, partitionVars
<1>2. /\ Main \in Threads /\ Request(Main) /\ req[Main].op = "none" /\ req[Main].then # "parse"
      /\ pc[Main] \notin Inside
  BY <1>1, NoRequestMain, Zenon DEF BootPlaces
<1>3. probe \in Disks
  BY <1>1, ZenonT(30) DEF DiskInv, Booting
<1>4. \A c \in Channels : Quiet(c)' /\ channel'[c].lock = NULL
  BY <1>1, <1>2, <1>3, AllQuiet, ZenonT(30) DEF Quiet
<1>5. /\ probe' \in 0..(2 * CHANNEL_CNT)
      /\ probe' \in Disks => pc'[Main] \in {"reset", "probe"}
      /\ probe' \notin Disks => pc'[Main] = "locate"
      /\ pc' \in [Threads -> PlaceType]
      /\ \A u \in Threads : u # Main => pc'[u] = pc[u]
  BY <1>1, <1>3, AfterDiskType, Zenon
<1>6. DriverType' /\ BootType'
  BY <1>1, <1>5, Zenon DEF DiskInv, DriverType, BootType
<1>7. Request(Main)'
  BY <1>1, <1>2, <1>5, Zenon DEF Request, Inside, BootPlaces
<1>8. Booting' /\ Scanning'
  BY <1>1, <1>2, <1>5, ZenonT(30) DEF DiskInv, Booting, Scanning, Inside
<1> QED BY <1>1, <1>3, <1>4, <1>5, <1>6, <1>7, <1>8, BootStep, ZenonT(30) DEF Inside

(* read_partition_table goes on with the calls below it, or asks for a     *)
(* sector of the disk.                                                     *)
LEMMA TableRead ==
    ASSUME DiskInv, probe \in Disks, NEW calls \in Seq(TableType),
           \A k \in 1..Len(calls) : calls[k].i > 0,
           NEW sector \in Nat, NEW primary \in Nat,
           read_partition_table(Main, probe, calls, sector, primary),
           probe' = probe
    PROVE  /\ tables' \in Seq(TableType)
           /\ pc' \in [Threads -> PlaceType] /\ req' \in [Threads -> RequestType]
           /\ pc'[Main] \in {"parse", "lock"}
           /\ \A u \in Threads : u # Main => pc'[u] = pc[u] /\ req'[u] = req[u]
           /\ Request(Main)' /\ Booting' /\ Scanning'
<1>1. /\ Main \in Threads /\ pc \in [Threads -> PlaceType] /\ req \in [Threads -> RequestType]
      /\ capacity[probe] \in Nat /\ 0 \in Disks
  BY DiskAssumption, IdeAssumption DEF DiskAssumption, IdeAssumption, DiskInv, DriverType, Disks
<1>2. CASE sector >= capacity[probe]
  <2>1. /\ tables' = calls /\ pc' = [pc EXCEPT ![Main] = "parse"]
        /\ req' = [req EXCEPT ![Main] = NoRequest]
    BY <1>2, Zenon DEF read_partition_table, Goto
  <2>2. NoRequest \in RequestType /\ NoRequest.op = "none" /\ NoRequest.then = "idle"
    BY <1>1, Zenon DEF NoRequest, RequestType
  <2>3. /\ pc' \in [Threads -> PlaceType] /\ req' \in [Threads -> RequestType]
        /\ pc'[Main] = "parse" /\ req'[Main] = NoRequest
        /\ \A u \in Threads : u # Main => pc'[u] = pc[u] /\ req'[u] = req[u]
    BY <1>1, <2>1, <2>2, Zenon DEF PlaceType, BootPlaces
  <2>4. Request(Main)' /\ Booting'
    BY <2>2, <2>3, Zenon DEF Request, Booting, Inside, BootPlaces
  <2>5. Scanning'
    <3>1. calls # <<>> => Len(calls) \in 1..Len(calls)
      OBVIOUS
    <3> QED BY <2>1, <3>1 DEF Scanning, Top
  <2> QED BY <2>1, <2>3, <2>4, <2>5, ZenonT(30)
<1>3. CASE ~(sector >= capacity[probe])
  <2> DEFINE call == [sector |-> sector, primary |-> primary, i |-> 0, partitions |-> <<>>]
             r == [op |-> "read", disk |-> probe, sector |-> 0, data |-> NULL, then |-> "parse"]
  <2>1. /\ tables' = Append(calls, call) /\ pc' = [pc EXCEPT ![Main] = "lock"]
        /\ req' = [req EXCEPT ![Main] = r]
    BY <1>3, Zenon DEF read_partition_table, StartRequest, Goto
  <2>2. /\ call \in TableType /\ r \in RequestType
        /\ r.op = "read" /\ r.disk = probe /\ r.sector = 0 /\ r.then = "parse"
    BY <1>1 DEF TableType, RequestType
  <2>3. 0 \in 0..(capacity[probe] - 1)
    BY <1>1, <1>3
  <2> HIDE DEF call, r
  <2>4. /\ pc' \in [Threads -> PlaceType] /\ req' \in [Threads -> RequestType]
        /\ pc'[Main] = "lock" /\ req'[Main] = r
        /\ \A u \in Threads : u # Main => pc'[u] = pc[u] /\ req'[u] = req[u]
    BY <1>1, <2>1, <2>2, Zenon DEF PlaceType
  <2>5. Request(Main)' /\ Booting'
    BY <2>2, <2>3, <2>4, Zenon DEF Request, Booting, Inside, BootPlaces
  <2>6. tables' \in Seq(TableType)
    BY <2>1, <2>2
  <2>7. Scanning'
    <3>1. /\ Len(Append(calls, call)) - 1 = Len(calls)
          /\ \A k \in 1..Len(calls) : Append(calls, call)[k] = calls[k]
      OBVIOUS
    <3> QED BY <2>1, <2>4, <3>1, Zenon DEF Scanning
  <2> QED BY <2>4, <2>5, <2>6, <2>7, Zenon
<1> QED BY <1>2, <1>3, ZenonT(30)

(* block_register adds a block device.                                     *)
LEMMA Registered ==
    ASSUME NEW d \in Disks, NEW nr \in Nat, NEW type \in BlockKind, NEW start \in Nat, NEW size \in Nat,
           all_blocks \in Seq(BlockType), block_register(d, nr, type, start, size)
    PROVE  all_blocks' \in Seq(BlockType)
<1> DEFINE name == <<d, nr>>
           b == [name |-> name, type |-> type, disk |-> d, start |-> start, size |-> size]
<1>1. name \in Disks \X Nat
  BY Zenon
<1> HIDE DEF name
<1>2. b \in BlockType
  BY <1>1, Zenon DEF BlockType
<1>3. all_blocks' = Append(all_blocks, b)
  BY Zenon DEF block_register, name
<1> HIDE DEF b
<1> QED BY <1>2, <1>3

(* identify_ata_device and partition_scan keep the invariant.              *)
LEMMA IdentifyInv ==
    ASSUME DiskInv, identify_ata_device(Main)
    PROVE  DiskInv'
<1> SUFFICES ASSUME NEW c, c = chan(probe) PROVE DiskInv'
  BY Zenon
<1> DEFINE usable == hw[c].drq /\ capacity[probe] < MAX_CAPACITY
           h == [hw[c] EXCEPT !.drq = FALSE, !.command = "none"]
<1>1. /\ pc[Main] = "busy" /\ req[Main].op = "identify"
      /\ hw' = [hw EXCEPT ![c] = h] /\ part_nr' = 0
      /\ UNCHANGED <<registers, channel, content, buffer, block_by_role>>
  BY ZenonT(30) DEF identify_ata_device
<1>2. Main \in Threads /\ pc[Main] \in Inside
  BY <1>1, DiskAssumption, Zenon DEF DiskAssumption, Inside
<1>3. probe \in Disks /\ req[Main].disk = probe
  BY <1>1, <1>2, InDriver, Zenon DEF DiskInv, Booting, Request
<1>4. /\ c \in Channels /\ hw \in [Channels -> ControllerType] /\ hw[c] \in ControllerType
      /\ hw[c] = Ctl(Main) /\ channel[c] = Ch(Main) /\ Phase(Main)
      /\ pc \in [Threads -> PlaceType] /\ req \in [Threads -> RequestType]
  BY <1>2, <1>3, InDriver, Zenon DEF Ctl, Ch, DiskInv, DriverType
<1>5. Fetched(Main) /\ Silent(Main)
  BY <1>1, <1>4, Zenon DEF Phase
<1>6. /\ h \in ControllerType /\ ~h.bsy /\ ~h.drq /\ h.command = "none" /\ h.data = NULL /\ ~h.irq
      /\ channel[c].completion_wait = 0
  BY <1>1, <1>4, <1>5, ZenonT(30) DEF Fetched, Silent, ControllerType
<1> HIDE DEF h
<1>7. /\ hw' \in [Channels -> ControllerType] /\ hw'[c] = h
      /\ \A e \in Channels : e # c => hw'[e] = hw[e]
  BY <1>1, <1>4, <1>6, ZenonT(30)
<1>8. ASSUME NEW e \in Channels PROVE Quiet(e)' /\ channel'[e].lock = NULL
  <2>1. CASE e = c
    <3>1. channel[c].lock = NULL
      BY <1>1, <1>2, <1>4, Zenon DEF DiskInv, Locked
    <3> QED BY <1>1, <1>6, <1>7, <2>1, <3>1, Zenon DEF Quiet
  <2>2. CASE e # c
    <3>1. \A u \in Threads : ~UsedBy(u, e)
      BY <1>3, <2>2, OthersIdle, ZenonT(30) DEF UsedBy, Inside
    <3>2. Quiet(e)
      BY <3>1, Zenon DEF DiskInv, Unused
    <3>3. channel[e].lock = NULL
      <4>1. channel[e].lock \in Threads => UsedBy(channel[e].lock, e)
        BY DiskAssumption, Zenon DEF DiskAssumption, DiskInv, Locked, UsedBy
      <4>2. channel[e].lock \in Threads \cup {NULL}
        BY Zenon DEF DiskInv, DriverType, ChannelType
      <4> QED BY <3>1, <4>1, <4>2, Zenon
    <3> QED BY <1>1, <1>7, <2>2, <3>2, <3>3, Zenon DEF Quiet
  <2> QED BY <2>1, <2>2, Zenon
<1>9. CASE usable
  <2>1. /\ block_register(probe, 0, "BLOCK_RAW", 0, capacity[probe])
        /\ read_partition_table(Main, probe, <<>>, 0, 0)
        /\ is_ata' = is_ata /\ probe' = probe
    BY <1>9, Zenon DEF identify_ata_device
  <2>2. /\ tables' \in Seq(TableType)
        /\ pc' \in [Threads -> PlaceType] /\ req' \in [Threads -> RequestType]
        /\ pc'[Main] \in {"parse", "lock"}
        /\ \A u \in Threads : u # Main => pc'[u] = pc[u] /\ req'[u] = req[u]
        /\ Request(Main)' /\ Booting' /\ Scanning'
    <3>1. <<>> \in Seq(TableType) /\ Len(<<>>) = 0
      OBVIOUS
    <3>2. \A k \in 1..0 : FALSE
      OBVIOUS
    <3> QED BY <1>3, <2>1, <3>1, <3>2, TableRead, ZenonT(30)
  <2>3. all_blocks' \in Seq(BlockType)
    <3>1. capacity[probe] \in Nat
      BY <1>3, IdeAssumption, Zenon DEF IdeAssumption
    <3>2. all_blocks \in Seq(BlockType) /\ "BLOCK_RAW" \in BlockKind
      BY Zenon DEF DiskInv, BootType, BlockKind
    <3> QED BY <1>3, <2>1, <3>1, <3>2, Registered, ZenonT(30)
  <2>4. DriverType' /\ BootType'
    BY <1>1, <1>7, <2>1, <2>2, <2>3, Zenon DEF DiskInv, DriverType, BootType
  <2> QED BY <1>3, <1>8, <2>2, <2>4, BootStep, Zenon DEF Inside
<1>10. CASE ~usable
  <2>1. /\ is_ata' = is_ata \ {probe} /\ AfterDisk(Main) /\ req' = [req EXCEPT ![Main] = NoRequest]
        /\ UNCHANGED <<all_blocks, tables>>
    BY <1>10, Zenon DEF identify_ata_device
  <2>2. /\ probe' \in 0..(2 * CHANNEL_CNT)
        /\ probe' \in Disks => pc'[Main] \in {"reset", "probe"}
        /\ probe' \notin Disks => pc'[Main] = "locate"
        /\ pc' \in [Threads -> PlaceType]
        /\ \A u \in Threads : u # Main => pc'[u] = pc[u]
    BY <1>3, <2>1, AfterDiskType, Zenon
  <2>3. NoRequest \in RequestType /\ NoRequest.op = "none" /\ NoRequest.then = "idle"
    <3>1. 0 \in Disks
      BY IdeAssumption DEF IdeAssumption, Disks
    <3> QED BY <3>1, Zenon DEF NoRequest, RequestType
  <2>4. /\ req' \in [Threads -> RequestType] /\ req'[Main] = NoRequest
        /\ \A u \in Threads : u # Main => req'[u] = req[u]
    BY <1>2, <1>4, <2>1, <2>3, Zenon
  <2>5. DriverType' /\ BootType'
    BY <1>1, <1>7, <2>1, <2>2, <2>4, Zenon DEF DiskInv, DriverType, BootType
  <2>6. Request(Main)'
    BY <1>2, <2>2, <2>3, <2>4, ZenonT(30) DEF Request, Inside, BootPlaces
  <2>7. Booting' /\ Scanning'
    BY <2>1, <2>2, <2>3, <2>4, ZenonT(30) DEF DiskInv, Booting, Scanning, Inside
  <2> QED BY <1>3, <1>8, <2>2, <2>4, <2>5, <2>6, <2>7, BootStep, ZenonT(30) DEF Inside
<1> QED BY <1>9, <1>10, Zenon

(* The scan of a disk: steps that leave the driver alone.                  *)
LEMMA ScanStep ==
    ASSUME DiskInv, pc[Main] = "parse", tables' \in Seq(TableType), all_blocks' \in Seq(BlockType),
           part_nr' \in Nat, pc' \in [Threads -> PlaceType], req' \in [Threads -> RequestType],
           pc'[Main] \in {"parse", "lock"},
           \A u \in Threads : u # Main => pc'[u] = pc[u] /\ req'[u] = req[u],
           UNCHANGED <<is_ata, channel, hw, content, buffer, probe, block_by_role>>,
           Request(Main)', Booting', Scanning'
    PROVE  DiskInv'
<1>1. pc[Main] \notin Inside /\ probe \in Disks
  BY Zenon DEF DiskInv, Booting, Inside
<1>2. \A c \in Channels : Quiet(c)' /\ channel'[c].lock = NULL
  BY <1>1, AllQuiet, ZenonT(30) DEF Quiet
<1>3. DriverType' /\ BootType'
  BY Zenon DEF DiskInv, DriverType, BootType
<1> QED BY <1>1, <1>2, <1>3, BootStep, ZenonT(30) DEF Inside

(* A step of the scan that leaves the main thread where it is.             *)
LEMMA SamePlace ==
    ASSUME DiskInv, pc[Main] = "parse", UNCHANGED <<pc, req, probe, buffer>>
    PROVE  Request(Main)' /\ Booting'
<1>1. Request(Main) /\ Booting
  BY DiskAssumption, Zenon DEF DiskAssumption, DiskInv
<1> QED BY <1>1, ZenonT(30) DEF Request, Booting

(* The call on top is one of the calls of read_partition_table.            *)
LEMMA TopType ==
    ASSUME DiskInv, tables # <<>>
    PROVE  /\ tables \in Seq(TableType) /\ Len(tables) \in Nat \ {0} /\ Top \in TableType
           /\ \A k \in 1..(Len(tables) - 1) : tables[k].i > 0
           /\ \A call \in TableType : /\ SetTop(call) \in Seq(TableType)
                                      /\ Len(SetTop(call)) = Len(tables)
                                      /\ SetTop(call)[Len(tables)] = call
                                      /\ \A k \in 1..(Len(tables) - 1) : SetTop(call)[k] = tables[k]
<1>1. tables \in Seq(TableType) /\ \A k \in 1..(Len(tables) - 1) : tables[k].i > 0
  BY Zenon DEF DiskInv, BootType, Scanning
<1>2. Len(tables) \in Nat \ {0} /\ Top \in TableType
  BY <1>1 DEF Top
<1>3. ASSUME NEW call \in TableType
      PROVE  /\ SetTop(call) \in Seq(TableType)
             /\ Len(SetTop(call)) = Len(tables)
             /\ SetTop(call)[Len(tables)] = call
             /\ \A k \in 1..(Len(tables) - 1) : SetTop(call)[k] = tables[k]
  BY <1>1, <1>2 DEF SetTop
<1> QED BY <1>1, <1>2, <1>3, Zenon

(* CheckSignature keeps the invariant.                                     *)
LEMMA SignatureInv ==
    ASSUME DiskInv, CheckSignature(Main), UNCHANGED <<probe, block_by_role>>
    PROVE  DiskInv'
<1> DEFINE call == [Top EXCEPT !.i = 1, !.partitions = buffer[Main].table]
<1>1. /\ pc[Main] = "parse" /\ tables # <<>> /\ Top.i = 0 /\ tables' = SetTop(call)
      /\ UNCHANGED <<is_ata, channel, hw, content, pc, req, buffer, all_blocks, part_nr>>
  BY Zenon DEF CheckSignature, ideVars
<1>2. buffer[Main] \in SectorType
  BY <1>1, DiskAssumption, Zenon DEF DiskAssumption, DiskInv, DriverType, Scanning
<1>3. call \in TableType /\ call.i = 1
  BY <1>1, <1>2, TopType, Zenon DEF TableType, SectorType
<1> HIDE DEF call
<1>4. /\ tables' \in Seq(TableType) /\ Len(tables') = Len(tables) /\ tables'[Len(tables)] = call
      /\ \A k \in 1..(Len(tables) - 1) : tables'[k] = tables[k] /\ tables[k].i > 0
  BY <1>1, <1>3, TopType, Zenon
<1>5. Scanning'
  <2>1. Top' = call /\ call.i # 0
    BY <1>3, <1>4 DEF Top
  <2>2. \A k \in 1..(Len(tables') - 1) : tables'[k].i > 0
    BY <1>4, Zenon
  <2> QED BY <2>1, <2>2, Zenon DEF Scanning
<1>6. Request(Main)' /\ Booting'
  BY <1>1, SamePlace, Zenon
<1> QED BY <1>1, <1>4, <1>5, <1>6, ScanStep, ZenonT(30) DEF DiskInv, DriverType, BootType

(* ReturnFromTable keeps the invariant.                                    *)
LEMMA ReturnInv ==
    ASSUME DiskInv, ReturnFromTable(Main), UNCHANGED <<probe, block_by_role>>
    PROVE  DiskInv'
<1>1. /\ pc[Main] = "parse" /\ tables # <<>> /\ tables' = SubSeq(tables, 1, Len(tables) - 1)
      /\ UNCHANGED <<is_ata, channel, hw, content, pc, req, buffer, all_blocks, part_nr>>
  BY Zenon DEF ReturnFromTable, ideVars
<1>2. /\ tables' \in Seq(TableType) /\ Len(tables') = Len(tables) - 1
      /\ \A k \in 1..(Len(tables) - 1) : tables'[k] = tables[k] /\ tables[k].i > 0
  <2>1. /\ tables \in Seq(TableType) /\ Len(tables) \in Nat \ {0}
        /\ \A k \in 1..(Len(tables) - 1) : tables[k].i > 0
    BY <1>1, TopType, ZenonT(30)
  <2>2. /\ tables' \in Seq(TableType) /\ Len(tables') = Len(tables) - 1
        /\ \A k \in 1..(Len(tables) - 1) : tables'[k] = tables[k]
    <3> DEFINE n == Len(tables) - 1
    <3>1. n \in Nat /\ \A k \in 1..n : tables[k] \in TableType
      BY <2>1
    <3> HIDE DEF n
    <3>2. SubSeq(tables, 1, n) \in Seq(TableType)
      BY <2>1, <3>1
    <3>3. /\ Len(SubSeq(tables, 1, n)) = n
          /\ \A k \in 1..n : SubSeq(tables, 1, n)[k] = tables[k]
      BY <2>1, <3>1
    <3> QED BY <1>1, <3>2, <3>3, Zenon DEF n
  <2> QED BY <2>1, <2>2, Zenon
<1>3. Scanning'
  <2>1. tables' # <<>> => Len(tables') \in 1..(Len(tables) - 1)
    BY <1>2
  <2> QED BY <1>2, <2>1 DEF Scanning, Top
<1>4. Request(Main)' /\ Booting'
  BY <1>1, SamePlace, Zenon
<1> QED BY <1>1, <1>2, <1>3, <1>4, ScanStep, ZenonT(30) DEF DiskInv, DriverType, BootType

(* ParseEntry keeps the invariant.                                         *)
LEMMA ParseInv ==
    ASSUME DiskInv, ParseEntry(Main, probe), UNCHANGED <<probe, block_by_role>>
    PROVE  DiskInv'
<1> DEFINE e == Top.partitions[Top.i]
           call == [Top EXCEPT !.i = @ + 1]
           done == SetTop(call)
<1>1. /\ pc[Main] = "parse" /\ tables # <<>> /\ Top.i \in 1..Len(Top.partitions)
      /\ UNCHANGED <<is_ata, channel, hw, content, buffer>>
  BY Zenon DEF ParseEntry
<1>2. Top \in TableType
  BY <1>1, TopType, Zenon
<1>3. /\ e \in EntryType /\ call \in TableType /\ call.i > 0
      /\ Top.sector \in Nat /\ Top.primary \in Nat
  <2>1. Top.partitions \in Seq(EntryType) /\ Top.i \in Nat /\ Top.sector \in Nat /\ Top.primary \in Nat
    BY <1>2, Zenon DEF TableType
  <2>2. e \in EntryType
    BY <1>1, <2>1
  <2>3. call \in TableType /\ call.i > 0
    BY <1>2, <2>1 DEF TableType
  <2> QED BY <2>1, <2>2, <2>3, Zenon
<1>4. /\ done \in Seq(TableType) /\ Len(done) = Len(tables) /\ done[Len(tables)] = call
      /\ \A k \in 1..(Len(tables) - 1) : done[k] = tables[k] /\ tables[k].i > 0
      /\ Len(tables) \in Nat \ {0}
  BY <1>1, <1>3, TopType, ZenonT(30)
<1> HIDE DEF e, call, done
<1>5. /\ \A k \in 1..Len(done) : done[k].i > 0
      /\ done[Len(done)].i # 0
  <2>1. \A k \in 1..Len(done) : k \in 1..(Len(tables) - 1) \/ k = Len(tables)
    BY <1>4
  <2>2. \A k \in 1..(Len(tables) - 1) : done[k].i > 0
    BY <1>4, Zenon
  <2> QED BY <1>3, <1>4, <2>1, <2>2
<1>6. /\ all_blocks \in Seq(BlockType) /\ part_nr \in Nat /\ probe \in Disks
      /\ pc \in [Threads -> PlaceType] /\ req \in [Threads -> RequestType]
  BY <1>1, Zenon DEF DiskInv, DriverType, BootType, Booting
<1>7. /\ e.offset \in Nat /\ e.size \in Nat
      /\ sector_t(e.offset + Top.primary) \in Nat /\ sector_t(e.offset + Top.sector) \in Nat
  <2>1. e.offset \in Nat /\ e.size \in Nat
    <3>1. e.offset \in 0..(2^SECTOR_BITS - 1) /\ e.size \in 0..(2^SECTOR_BITS - 1)
      BY <1>3, Zenon DEF EntryType
    <3> QED BY <3>1
  <2>2. \A n \in Nat : sector_t(n) \in Nat
    BY SectorRange
  <2> QED BY <1>3, <2>1, <2>2
<1>8. CASE tables' = done /\ UNCHANGED <<pc, req>> /\ all_blocks' \in Seq(BlockType) /\ part_nr' \in Nat
  <2>1. Scanning'
    BY <1>4, <1>5, <1>8, Zenon DEF Scanning, Top
  <2>2. Request(Main)' /\ Booting'
    BY <1>1, <1>8, SamePlace, Zenon
  <2> QED BY <1>1, <1>4, <1>6, <1>8, <2>1, <2>2, ScanStep, Zenon
<1>9. CASE UNCHANGED <<all_blocks, part_nr>> /\ \E sector, primary \in Nat :
              read_partition_table(Main, probe, done, sector, primary)
  <2>1. PICK sector, primary \in Nat : read_partition_table(Main, probe, done, sector, primary)
    BY <1>9, Zenon
  <2>2. /\ tables' \in Seq(TableType)
        /\ pc' \in [Threads -> PlaceType] /\ req' \in [Threads -> RequestType]
        /\ pc'[Main] \in {"parse", "lock"}
        /\ \A u \in Threads : u # Main => pc'[u] = pc[u] /\ req'[u] = req[u]
        /\ Request(Main)' /\ Booting' /\ Scanning'
    BY <1>4, <1>5, <1>6, <2>1, TableRead, ZenonT(30)
  <2> QED BY <1>1, <1>6, <1>9, <2>2, ScanStep, Zenon
<1>10. CASE /\ e.size # 0 /\ e.type # 0 /\ ~Extended(e)
            /\ part_nr' = part_nr + 1
            /\ found_partition(probe, e, sector_t(e.offset + Top.sector), part_nr + 1)
            /\ tables' = done
            /\ UNCHANGED <<pc, req>>
  <2>1. block_type(e.type) \in BlockKind
    BY Zenon DEF block_type, BlockKind
  <2>2. all_blocks' \in Seq(BlockType)
    BY <1>6, <1>7, <1>10, <2>1, Registered DEF found_partition
  <2> QED BY <1>6, <1>8, <1>10, <2>2
<1>11. \/ tables' = done /\ UNCHANGED <<all_blocks, part_nr, pc, req>>
       \/ UNCHANGED <<all_blocks, part_nr>> /\ \E sector, primary \in Nat :
              read_partition_table(Main, probe, done, sector, primary)
       \/ /\ e.size # 0 /\ e.type # 0 /\ ~Extended(e)
          /\ part_nr' = part_nr + 1
          /\ found_partition(probe, e, sector_t(e.offset + Top.sector), part_nr + 1)
          /\ tables' = done
          /\ UNCHANGED <<pc, req>>
  BY <1>3, <1>7, Zenon DEF ParseEntry, e, done, call
<1> QED BY <1>6, <1>8, <1>9, <1>10, <1>11, Zenon

(* locate_block_device finds a device of all_blocks, or none.              *)
LEMMA LocateType ==
    ASSUME all_blocks \in Seq(BlockType), NEW role
    PROVE  locate_block_device(role) \in BlockType \cup {NULL}
<1>1. ASSUME NEW I, I \subseteq 1..Len(all_blocks) PROVE FirstOf(I) \in BlockType \cup {NULL}
  <2> DEFINE first == {i \in I : \A k \in I : i <= k}
             i == CHOOSE i \in first : TRUE
  <2>1. first # {} => i \in 1..Len(all_blocks)
    BY <1>1, Zenon
  <2>2. FirstOf(I) = IF first = {} THEN NULL ELSE all_blocks[i]
    BY Zenon DEF FirstOf
  <2> HIDE DEF first, i
  <2> QED BY <2>1, <2>2
<1> QED BY <1>1, Zenon DEF locate_block_device, block_get_by_name

(* locate_block_devices keeps the invariant.                               *)
LEMMA LocateInv ==
    ASSUME DiskInv, locate_block_devices(Main)
    PROVE  DiskInv'
<1>1. /\ pc[Main] = "locate"
      /\ block_by_role' = [r \in Roles |-> locate_block_device(r)]
      /\ UNCHANGED <<registers, is_ata, channel, hw, content, req, buffer, all_blocks, tables, part_nr, probe>>
  BY ZenonT(30) DEF locate_block_devices, partitionVars
<1>2. /\ Main \in Threads /\ Request(Main) /\ req[Main].op = "none" /\ req[Main].then # "parse"
      /\ pc[Main] \notin Inside
  BY <1>1, NoRequestMain, Zenon DEF BootPlaces
<1>3. /\ pc \in [Threads -> PlaceType] /\ all_blocks \in Seq(BlockType) /\ probe \notin Disks
  BY <1>1, Zenon DEF DiskInv, DriverType, BootType, Booting, Inside
<1>4. PICK place \in {"no_device", "idle"} : pc' = [pc EXCEPT ![Main] = place]
  BY ZenonT(30) DEF locate_block_devices, Goto
<1>5. /\ pc'[Main] = place /\ \A u \in Threads : u # Main => pc'[u] = pc[u]
      /\ pc' \in [Threads -> PlaceType]
  BY <1>2, <1>3, <1>4, Zenon DEF PlaceType, BootPlaces
<1>6. block_by_role' \in [Roles -> BlockType \cup {NULL}]
  <2>1. ASSUME NEW r \in Roles PROVE block_by_role'[r] \in BlockType \cup {NULL}
    <3>1. locate_block_device(r) \in BlockType \cup {NULL}
      BY <1>3, LocateType, Zenon
    <3> QED BY <1>1, <3>1, Zenon
  <2> QED BY <1>1, <2>1, Zenon
<1>7. DriverType' /\ BootType'
  BY <1>1, <1>5, <1>6, Zenon DEF DiskInv, DriverType, BootType
<1>8. \A c \in Channels : Quiet(c)' /\ channel'[c].lock = NULL
  BY <1>1, <1>2, AllQuiet, ZenonT(30) DEF Quiet
<1>9. Request(Main)'
  BY <1>1, <1>2, <1>3, <1>5, ZenonT(30) DEF Request, Inside, BootPlaces
<1>10. Booting' /\ Scanning'
  BY <1>1, <1>3, <1>5, ZenonT(30) DEF DiskInv, Booting, Scanning
<1> QED BY <1>1, <1>5, <1>7, <1>8, <1>9, <1>10, BootStep, ZenonT(30) DEF Inside

(* Access keeps the invariant: a request stays on the disk, by             *)
(* check_sector.                                                           *)
LEMMA AccessInv ==
    ASSUME DiskInv, NEW t \in Threads, Access(t)
    PROVE  DiskInv'
<1>0. Main \in Threads
  BY DiskAssumption, Zenon DEF DiskAssumption
<1>1. /\ pc[t] = "idle" /\ probe \notin Disks /\ pc[Main] \notin {"locate", "no_device"}
      /\ UNCHANGED <<registers, is_ata, channel, hw, content, buffer, all_blocks, tables, part_nr,
                     probe, block_by_role>>
  BY Zenon DEF Access, block_read, block_write, partitionVars
<1>2. PICK b \in BlockType, sector \in Nat :
        block_read(t, b, sector) \/ block_write(t, b, sector, Sector(<<>>, t))
  BY DEF Access, DiskInv, BootType, BlockType
<1>3. /\ pc \in [Threads -> PlaceType] /\ req \in [Threads -> RequestType]
      /\ Request(t) /\ req[t].op = "none" /\ req[t].then # "parse"
  BY <1>1, Zenon DEF DiskInv, DriverType, Request, Inside
<1>4. CASE pc' = [pc EXCEPT ![t] = "panic"] /\ req' = req
  <2>1. /\ pc' \in [Threads -> PlaceType] /\ pc'[t] = "panic"
        /\ \A u \in Threads : u # t => pc'[u] = pc[u]
    BY <1>3, <1>4, Zenon DEF PlaceType
  <2>2. DriverType' /\ BootType'
    BY <1>1, <1>4, <2>1, Zenon DEF DiskInv, DriverType, BootType
  <2>3. ASSUME NEW u \in Threads PROVE Request(u)'
    <3>1. Request(u) /\ pc'[Main] \in {pc[Main], "panic"}
      BY <1>0, <2>1, Zenon DEF DiskInv
    <3> QED BY <1>1, <1>3, <1>4, <2>1, <3>1, ZenonT(30) DEF Request, Inside, BootPlaces
  <2>4. Booting' /\ Scanning'
    BY <1>0, <1>1, <1>4, <2>1, ZenonT(30) DEF DiskInv, Booting, Scanning, Top
  <2>5. \A u \in Threads : pc'[u] \in Inside => pc[u] \in Inside /\ pc'[u] = pc[u]
    BY <2>1, Zenon DEF Inside
  <2>6. (\A u \in Threads : Phase(u)') /\ Unused' /\ Locked'
    BY <1>1, <1>4, <2>1, <2>5, OutsideStep, Zenon DEF Inside
  <2> QED BY <2>2, <2>3, <2>4, <2>6, Zenon DEF DiskInv
<1>5. CASE \E op \in {"read", "write"} : \E data \in SectorType \cup {NULL} :
              /\ check_sector(b, sector) /\ (op = "write" => data # NULL)
              /\ StartRequest(t, op, b.disk, disk_sector(b, sector), data, "idle")
  <2>1. PICK op \in {"read", "write"}, data \in SectorType \cup {NULL} :
              /\ check_sector(b, sector) /\ (op = "write" => data # NULL)
              /\ StartRequest(t, op, b.disk, disk_sector(b, sector), data, "idle")
    BY <1>5, Zenon
  <2> DEFINE r == [op |-> op, disk |-> b.disk, sector |-> disk_sector(b, sector), data |-> data,
                   then |-> "idle"]
  <2>2. /\ pc' = [pc EXCEPT ![t] = "lock"] /\ req' = [req EXCEPT ![t] = r]
    BY <2>1, Zenon DEF StartRequest, Goto
  <2>3. b.disk \in Disks /\ b.start \in Nat
    BY Zenon DEF BlockType
  <2>4. disk_sector(b, sector) \in Nat /\ disk_sector(b, sector) < capacity[b.disk]
    BY <2>1, <2>3, SectorRange DEF check_sector, disk_sector
  <2>5. disk_sector(b, sector) \in 0..(capacity[r.disk] - 1)
    BY <2>3, <2>4, IdeAssumption DEF IdeAssumption
  <2>6. r \in RequestType /\ r.op = op /\ r.sector \in 0..(capacity[r.disk] - 1) /\ r.then = "idle"
        /\ r.data = data
    BY <2>3, <2>4, <2>5, Zenon DEF RequestType
  <2> HIDE DEF r
  <2>7. /\ pc' \in [Threads -> PlaceType] /\ pc'[t] = "lock"
        /\ req' \in [Threads -> RequestType] /\ req'[t] = r
        /\ \A u \in Threads : u # t => pc'[u] = pc[u] /\ req'[u] = req[u]
    BY <1>3, <2>2, <2>6, Zenon DEF PlaceType
  <2>8. DriverType' /\ BootType'
    BY <1>1, <2>7, Zenon DEF DiskInv, DriverType, BootType
  <2>9. ASSUME NEW u \in Threads PROVE Request(u)'
    <3>1. Request(u) /\ pc'[Main] \in {pc[Main], "lock"}
      BY <1>0, <2>7, ZenonT(30) DEF DiskInv
    <3>2. CASE u = t
      BY <1>1, <2>1, <2>6, <2>7, <3>1, <3>2, ZenonT(30) DEF Request, Inside, BootPlaces
    <3>3. CASE u # t
      BY <1>1, <2>7, <3>1, <3>3, ZenonT(30) DEF Request
    <3> QED BY <3>2, <3>3, Zenon
  <2>10. Booting' /\ Scanning'
    BY <1>0, <1>1, <2>7, Zenon DEF DiskInv, Booting, Scanning, Top
  <2>11. (\A u \in Threads : Phase(u)') /\ Unused' /\ Locked'
    BY <1>1, <2>7, OutsideStep, ZenonT(30) DEF Inside
  <2> QED BY <2>8, <2>9, <2>10, <2>11, Zenon DEF DiskInv
<1>6. Sector(<<>>, t) \in SectorType /\ Sector(<<>>, t) # NULL
  <2>1. <<>> \in Seq(EntryType)
    OBVIOUS
  <2>2. Sector(<<>>, t) \in SectorType
    BY <2>1, Zenon DEF SectorType, Sector
  <2> QED BY <2>2, DiskAssumption, Zenon DEF DiskAssumption
<1>7. \/ pc' = [pc EXCEPT ![t] = "panic"] /\ req' = req
      \/ \E op \in {"read", "write"} : \E data \in SectorType \cup {NULL} :
              /\ check_sector(b, sector) /\ (op = "write" => data # NULL)
              /\ StartRequest(t, op, b.disk, disk_sector(b, sector), data, "idle")
  BY <1>2, <1>6, Zenon DEF block_read, block_write, Goto
<1> QED BY <1>4, <1>5, <1>7, Zenon

(* The initial states.                                                     *)
LEMMA InitInv ==
    ASSUME Init
    PROVE  DiskInv
<1>a. Main \in Threads /\ NULL \notin Threads
  BY DiskAssumption, Zenon DEF DiskAssumption
<1>b. 0 \in Disks
  BY IdeAssumption DEF IdeAssumption, Disks
<1>c. /\ probe = 0 /\ pc = [t \in Threads |-> IF t = Main THEN "reset" ELSE "idle"]
      /\ req = [t \in Threads |-> NoRequest] /\ buffer = [t \in Threads |-> NULL]
      /\ tables = <<>>
  BY Zenon DEF Init
<1>0. /\ Main \in Threads /\ NULL \notin Threads /\ 0 \in Disks
      /\ probe = 0 /\ pc = [t \in Threads |-> IF t = Main THEN "reset" ELSE "idle"]
      /\ req = [t \in Threads |-> NoRequest] /\ buffer = [t \in Threads |-> NULL]
      /\ tables = <<>>
  BY <1>a, <1>b, <1>c, Zenon
<1>1. channel \in [Channels -> ChannelType]
  <2>1. [lock |-> NULL, expecting_interrupt |-> FALSE, completion_wait |-> 0] \in ChannelType
    BY Zenon DEF ChannelType
  <2> QED BY <2>1, ZenonT(30) DEF Init
<1>2. hw \in [Channels -> ControllerType]
  <2>1. \A c \in Channels : IdleController(c) \in ControllerType
    BY ChanType, Zenon DEF IdleController, ControllerType
  <2> QED BY <2>1, Zenon DEF Init
<1>3. NoRequest \in RequestType /\ NoRequest.op = "none" /\ NoRequest.then = "idle"
  BY <1>0, Zenon DEF NoRequest, RequestType
<1>4. /\ content = [d \in Disks |-> content[d]]
      /\ \A d \in Disks : content[d] \in [0..(capacity[d] - 1) -> SectorType]
  <2>1. PICK tab \in Tables :
          content = [d \in Disks |-> [s \in 0..(capacity[d] - 1) |->
              Sector(IF s \in DOMAIN tab[d + 1] THEN tab[d + 1][s] ELSE <<>>, "old")]]
    BY Zenon DEF Init
  <2>2. ASSUME NEW d \in Disks, NEW s
        PROVE  Sector(IF s \in DOMAIN tab[d + 1] THEN tab[d + 1][s] ELSE <<>>, "old") \in SectorType
    <3> DEFINE x == IF s \in DOMAIN tab[d + 1] THEN tab[d + 1][s] ELSE <<>>
    <3>1. s \in DOMAIN tab[d + 1] => tab[d + 1][s] \in Seq(EntryType)
      BY DiskAssumption, Zenon DEF DiskAssumption
    <3>2. <<>> \in Seq(EntryType)
      OBVIOUS
    <3>3. x \in Seq(EntryType)
      BY <3>1, <3>2, Zenon
    <3> HIDE DEF x
    <3>4. Sector(x, "old") \in SectorType
      BY <3>3, Zenon DEF Sector, SectorType
    <3> QED BY <3>4, Zenon DEF x
  <2> QED BY <2>1, <2>2, Zenon
<1>5. DriverType
  <2>1. pc \in [Threads -> PlaceType] /\ req \in [Threads -> RequestType]
    BY <1>0, <1>3, Zenon DEF PlaceType, BootPlaces
  <2>2. buffer \in [Threads -> SectorType \cup {NULL}] /\ is_ata \subseteq Disks
    BY <1>0, ZenonT(30) DEF Init
  <2> QED BY <1>1, <1>2, <1>4, <2>1, <2>2, Zenon DEF DriverType
<1>6. BootType
  <2>1. 0 \in 0..(2 * CHANNEL_CNT)
    BY IdeAssumption DEF IdeAssumption
  <2>2. /\ all_blocks = <<>> /\ tables = <<>> /\ part_nr = 0 /\ probe = 0
        /\ block_by_role = [r \in Roles |-> NULL]
    BY Zenon DEF Init
  <2> QED BY <2>1, <2>2 DEF BootType
<1>7. \A t \in Threads : Request(t) /\ Phase(t)
  BY <1>0, <1>3, ZenonT(30) DEF Request, Phase, Inside, BootPlaces
<1>8. Booting /\ Scanning
  BY <1>0, <1>3 DEF Booting, Scanning
<1>9. Locked /\ Unused
  <2>1. \A c \in Channels : Quiet(c) /\ channel[c].lock = NULL
    BY ZenonT(30) DEF Init, Quiet, IdleController
  <2> QED BY <1>0, <2>1, ZenonT(30) DEF Locked, Unused, Inside
<1> QED BY <1>5, <1>6, <1>7, <1>8, <1>9, Zenon DEF DiskInv

(* Every step keeps the invariant.                                         *)
LEMMA NextInv ==
    ASSUME DiskInv, [Next]_vars
    PROVE  DiskInv'
<1>1. ASSUME NEW t \in Threads, t = Main, Boot(t) PROVE DiskInv'
  BY <1>1, ResetInv, ProbeInv, IdentifyInv, ScanDoneInv, LocateInv, SignatureInv, ParseInv, ReturnInv, Zenon
     DEF Boot
<1>2. ASSUME NEW t \in Threads, DriverStep(t), UNCHANGED <<partitionVars, probe, block_by_role>>
      PROVE  DiskInv'
  BY <1>2, AcquireInv, SelectInv, IssueInv, DownInv, InputInv, OutputInv, ReleaseInv, ZenonT(30) DEF DriverStep
<1>3. ASSUME NEW c \in Channels, Device(c) PROVE DiskInv'
  BY <1>3, HandlerInv, FinishInv, Zenon DEF Device
<1>4. CASE UNCHANGED vars
  <2>1. /\ UNCHANGED <<is_ata, channel, hw, content, pc, req, buffer>>
        /\ UNCHANGED <<all_blocks, tables, part_nr, probe, block_by_role>>
    BY <1>4, Zenon DEF vars, ideVars, partitionVars
  <2>2. DriverType' /\ BootType'
    BY <2>1, Zenon DEF DiskInv, DriverType, BootType
  <2>3. \A t \in Threads : Request(t)' /\ Phase(t)'
    BY <2>1, SamePhase, ZenonT(30) DEF DiskInv, Request
  <2>4. Booting' /\ Scanning' /\ Locked'
    BY <2>1, ZenonT(30) DEF DiskInv, Booting, Scanning, Locked, Ch, Top
  <2>5. Unused'
    BY <2>1, ZenonT(30) DEF DiskInv, Unused, UsedBy, Quiet
  <2> QED BY <2>2, <2>3, <2>4, <2>5, Zenon DEF DiskInv
<1> QED BY <1>1, <1>2, <1>3, <1>4, AccessInv, Zenon DEF Next, ThreadStep

(* Between two requests a channel is quiet (struct channel's lock,         *)
(* completion_wait and expecting_interrupt): the invariant of the driver.  *)
THEOREM DriverCorrect == Spec => []DiskInv
<1>1. Init => DiskInv
  BY InitInv, Zenon
<1>2. DiskInv /\ [Next]_vars => DiskInv'
  BY NextInv, Zenon
<1> QED BY <1>1, <1>2, PTL DEF Spec

(* No channel whose lock is free has a command or an expected interrupt    *)
(* left over from the last request (ide_read, ide_write).                  *)
THEOREM ChannelsQuiet == Spec => []ChannelQuiet
<1>1. ASSUME DiskInv PROVE ChannelQuiet
  <2>1. SUFFICES ASSUME NEW c \in Channels,
                        \/ pc[Main] \notin {"select", "issue", "completion", "busy"}
                        \/ chan(req[Main].disk) # c,
                        channel[c].lock = NULL
                 PROVE  Quiet(c)
    BY Zenon DEF ChannelQuiet, Quiet
  <2>2. ASSUME NEW t \in Threads, UsedBy(t, c) PROVE FALSE
    <3>1. req[t].op = "identify"
      BY <1>1, <2>1, <2>2, DiskAssumption, Zenon DEF DiskAssumption, DiskInv, Locked, UsedBy, Ch
    <3>2. t = Main /\ pc[t] # "unlock"
      BY <1>1, <3>1, Zenon DEF DiskInv, Request
    <3> QED BY <2>1, <2>2, <3>2, Zenon DEF UsedBy, Inside
  <2> QED BY <1>1, <2>2, Zenon DEF DiskInv, Unused
<1> QED BY <1>1, DriverCorrect, PTL

=============================================================================
