-------------------------- MODULE AtomicDiskProofs --------------------------
(***************************************************************************)
(* The ATA driver implements the atomic disk, and accesses through a       *)
(* partition stay inside it, for every number of channels and threads,     *)
(* every size of the disks and every partition table.                      *)
(***************************************************************************)
EXTENDS DiskProofs

(* The access of thread t that the atomic disk sees, and whether it has    *)
(* happened.                                                               *)
Visible(t) == IF req[t].op = "identify" THEN NoRequest ELSE req[t]

Done(t) ==
    \/ pc[t] = "unlock"
    \/ pc[t] = "completion" /\ req[t].op = "write" /\ Ctl(t).command = "none"

AtomicStep ==
    \/ \E t \in Threads : Atomic!Call(t) \/ Atomic!Read(t) \/ Atomic!Write(t) \/ Atomic!Return(t)
    \/ UNCHANGED Atomic!vars

-----------------------------------------------------------------------------
(* The steps of the atomic disk, in terms of the threads.                  *)
LEMMA HappenedIs ==
    /\ Happened = {t \in Threads : Done(t)}
    /\ Happened' = {t \in Threads : Done(t)'}
BY Zenon DEF Happened, Done, Ctl

(* A step that the atomic disk does not see.                               *)
LEMMA Stutters ==
    ASSUME \A u \in Threads : Visible(u)' = Visible(u) /\ (Done(u)' <=> Done(u)),
           UNCHANGED <<content, buffer>>
    PROVE  AtomicStep
<1>1. Happened' = Happened
  BY HappenedIs, Zenon
<1>2. [t \in Threads |-> IF req[t].op = "identify" THEN NoRequest ELSE req[t]]'
        = [t \in Threads |-> IF req[t].op = "identify" THEN NoRequest ELSE req[t]]
  BY Zenon DEF Visible
<1> QED BY <1>1, <1>2, Zenon DEF Atomic!vars, AtomicStep

(* The call of thread t.                                                   *)
LEMMA Calls ==
    ASSUME NEW t \in Threads, Visible(t).op = "none", Visible(t)'.op \in {"read", "write"},
           \A u \in Threads : (u # t => Visible(u)' = Visible(u)) /\ (Done(u)' <=> Done(u)),
           UNCHANGED <<content, buffer>>
    PROVE  AtomicStep
<1> DEFINE call == [u \in Threads |-> IF req[u].op = "identify" THEN NoRequest ELSE req[u]]
<1>1. Happened' = Happened
  BY HappenedIs, Zenon
<1>2. /\ call[t] = Visible(t) /\ call'[t] = Visible(t)'
      /\ call' = [call EXCEPT ![t] = call'[t]]
  BY Zenon DEF Visible
<1>3. Atomic!Call(t)
  <2>1. call[t].op = "none" /\ call'[t].op \in {"read", "write"}
    BY <1>2, Zenon
  <2> QED BY <1>1, <1>2, <2>1, Zenon DEF Atomic!Call
<1> QED BY <1>3, Zenon DEF AtomicStep

(* Its access happens.                                                     *)
LEMMA Reads ==
    ASSUME NEW t \in Threads, Visible(t).op = "read", ~Done(t), Done(t)',
           \A u \in Threads : Visible(u)' = Visible(u) /\ (u # t => (Done(u)' <=> Done(u))),
           buffer' = [buffer EXCEPT ![t] = content[Visible(t).disk][Visible(t).sector]],
           UNCHANGED content
    PROVE  AtomicStep
<1> DEFINE call == [u \in Threads |-> IF req[u].op = "identify" THEN NoRequest ELSE req[u]]
<1>1. Happened' = Happened \cup {t} /\ t \notin Happened
  BY HappenedIs, Zenon
<1>2. call[t] = Visible(t) /\ call' = call
  BY Zenon DEF Visible
<1>3. Atomic!Read(t)
  BY <1>1, <1>2, Zenon DEF Atomic!Read
<1> QED BY <1>3, Zenon DEF AtomicStep

(* A write happens: the sector has the data of the call.                   *)
LEMMA Writes ==
    ASSUME NEW t \in Threads, Visible(t).op = "write", ~Done(t), Done(t)',
           \A u \in Threads : Visible(u)' = Visible(u) /\ (u # t => (Done(u)' <=> Done(u))),
           content' = [content EXCEPT ![Visible(t).disk][Visible(t).sector] = Visible(t).data],
           UNCHANGED buffer
    PROVE  AtomicStep
<1> DEFINE call == [u \in Threads |-> IF req[u].op = "identify" THEN NoRequest ELSE req[u]]
<1>1. Happened' = Happened \cup {t} /\ t \notin Happened
  BY HappenedIs, Zenon
<1>2. call[t] = Visible(t) /\ call' = call
  BY Zenon DEF Visible
<1>3. Atomic!Write(t)
  BY <1>1, <1>2, Zenon DEF Atomic!Write
<1> QED BY <1>3, Zenon DEF AtomicStep

(* It returns.                                                             *)
LEMMA Returns ==
    ASSUME NEW t \in Threads, Visible(t)'.op = "none", Done(t), ~Done(t)',
           \A u \in Threads : u # t => Visible(u)' = Visible(u) /\ (Done(u)' <=> Done(u)),
           buffer' \in {buffer, [buffer EXCEPT ![t] = NULL]},
           UNCHANGED content
    PROVE  AtomicStep
<1> DEFINE call == [u \in Threads |-> IF req[u].op = "identify" THEN NoRequest ELSE req[u]]
<1>1. Happened' = Happened \ {t} /\ t \in Happened
  BY HappenedIs, Zenon
<1>2. call'[t] = Visible(t)' /\ call' = [call EXCEPT ![t] = call'[t]]
  BY Zenon DEF Visible
<1>3. Atomic!Return(t)
  <2>1. call'[t].op = "none"
    BY <1>2, Zenon
  <2> QED BY <1>1, <1>2, <2>1, Zenon DEF Atomic!Return
<1> QED BY <1>3, Zenon DEF AtomicStep

(* A step on the channel of t changes nothing of the other threads.        *)
LEMMA OthersSame ==
    ASSUME DiskInv, NEW t \in Threads, NEW c \in Channels, UsedBy(t, c),
           \A e \in Channels : e # c => hw'[e].command = hw[e].command,
           \A u \in Threads : u # t => pc'[u] = pc[u] /\ req'[u] = req[u]
    PROVE  \A u \in Threads : u # t => Visible(u)' = Visible(u) /\ (Done(u)' <=> Done(u))
<1> SUFFICES ASSUME NEW u \in Threads, u # t
             PROVE  Visible(u)' = Visible(u) /\ (Done(u)' <=> Done(u))
  BY Zenon
<1>1. Visible(u)' = Visible(u)
  BY Zenon DEF Visible
<1>2. CASE pc[u] \in Inside
  <2>1. chan(req[u].disk) \in Channels /\ chan(req[u].disk) # c
    BY <1>2, InDriver, Alone, Zenon DEF UsedBy
  <2> QED BY <1>1, <2>1, Zenon DEF Done, Ctl
<1>3. CASE pc[u] \notin Inside
  BY <1>1, <1>3, Zenon DEF Done, Inside
<1> QED BY <1>2, <1>3, Zenon

-----------------------------------------------------------------------------
(* The steps of the driver: lock_acquire goes unseen.                      *)
LEMMA AcquireAtomic ==
    ASSUME DiskInv, NEW t \in Threads, lock_acquire(t)
    PROVE  AtomicStep
<1>1. pc \in [Threads -> PlaceType]
  BY Zenon DEF DiskInv, DriverType
<1>2. /\ pc[t] = "lock" /\ pc'[t] = "select" /\ \A u \in Threads : u # t => pc'[u] = pc[u]
      /\ UNCHANGED <<hw, content, req, buffer>>
  BY <1>1, Zenon DEF lock_acquire, Goto
<1> QED BY <1>2, Stutters, Zenon DEF Visible, Done, Ctl

(* select_sector changes nothing that the atomic disk sees.                *)
LEMMA SelectAtomic ==
    ASSUME DiskInv, NEW t \in Threads, select_sector(t)
    PROVE  AtomicStep
<1>1. pc \in [Threads -> PlaceType] /\ hw \in [Channels -> ControllerType]
  BY Zenon DEF DiskInv, DriverType
<1>2. /\ pc[t] = "select" /\ pc'[t] = "issue" /\ \A u \in Threads : u # t => pc'[u] = pc[u]
      /\ UNCHANGED <<content, req, buffer>>
  BY <1>1, Zenon DEF select_sector, Goto
<1>3. chan(req[t].disk) \in Channels /\ UsedBy(t, chan(req[t].disk))
  BY <1>2, InDriver, Zenon DEF Inside
<1>4. \A e \in Channels : e # chan(req[t].disk) => hw'[e] = hw[e]
  BY <1>1, <1>3, Zenon DEF select_sector
<1>5. Visible(t)' = Visible(t) /\ ~Done(t) /\ ~Done(t)'
  BY <1>2, Zenon DEF Visible, Done
<1> QED BY <1>2, <1>3, <1>4, <1>5, OthersSame, Stutters, Zenon

(* Nor does issue_pio_command.                                             *)
LEMMA IssueAtomic ==
    ASSUME DiskInv, NEW t \in Threads, issue_pio_command(t)
    PROVE  AtomicStep
<1>1. pc \in [Threads -> PlaceType] /\ hw \in [Channels -> ControllerType]
  BY Zenon DEF DiskInv, DriverType
<1>2. /\ pc[t] = "issue" /\ pc'[t] = (IF req[t].op = "write" THEN "busy" ELSE "completion")
      /\ \A u \in Threads : u # t => pc'[u] = pc[u]
      /\ UNCHANGED <<content, req, buffer>>
  BY <1>1, Zenon DEF issue_pio_command, Goto
<1>3. chan(req[t].disk) \in Channels /\ UsedBy(t, chan(req[t].disk))
  BY <1>2, InDriver, Zenon DEF Inside
<1>4. \A e \in Channels : e # chan(req[t].disk) => hw'[e] = hw[e]
  BY <1>1, <1>3, Zenon DEF issue_pio_command
<1>5. Visible(t)' = Visible(t) /\ ~Done(t) /\ ~Done(t)'
  BY <1>2, Zenon DEF Visible, Done
<1> QED BY <1>2, <1>3, <1>4, <1>5, OthersSame, Stutters, Zenon

(* The interrupt that ends a write comes when the sector is stored.        *)
LEMMA DownAtomic ==
    ASSUME DiskInv, NEW t \in Threads, sema_down(t)
    PROVE  AtomicStep
<1>1. pc \in [Threads -> PlaceType]
  BY Zenon DEF DiskInv, DriverType
<1>2. /\ pc[t] = "completion" /\ pc'[t] = (IF req[t].op = "write" THEN "unlock" ELSE "busy")
      /\ \A u \in Threads : u # t => pc'[u] = pc[u]
      /\ UNCHANGED <<hw, content, req, buffer>> /\ Ch(t).completion_wait > 0
  BY <1>1, Zenon DEF sema_down, Goto, Ch
<1>3. Phase(t)
  BY Zenon DEF DiskInv
<1>4. req[t].op = "write" => Ctl(t).command = "none"
  BY <1>2, <1>3 DEF Phase, Silent, Stored
<1>5. \A u \in Threads : u # t => Visible(u)' = Visible(u) /\ (Done(u)' <=> Done(u))
  BY <1>2, Zenon DEF Visible, Done, Ctl
<1>6. Visible(t)' = Visible(t) /\ (Done(t)' <=> Done(t))
  BY <1>2, <1>4, Zenon DEF Visible, Done
<1> QED BY <1>2, <1>5, <1>6, Stutters, Zenon

(* A read happens when the sector is taken from the controller.            *)
LEMMA InputAtomic ==
    ASSUME DiskInv, NEW t \in Threads, input_sector(t)
    PROVE  AtomicStep
<1>1. pc \in [Threads -> PlaceType] /\ hw \in [Channels -> ControllerType]
  BY Zenon DEF DiskInv, DriverType
<1>2. /\ pc[t] = "busy" /\ req[t].op = "read" /\ pc'[t] = "unlock"
      /\ \A u \in Threads : u # t => pc'[u] = pc[u]
      /\ buffer' = [buffer EXCEPT ![t] = Ctl(t).data]
      /\ UNCHANGED <<content, req>>
  BY <1>1, Zenon DEF input_sector, Goto, Ctl
<1>3. chan(req[t].disk) \in Channels /\ UsedBy(t, chan(req[t].disk)) /\ Phase(t)
  BY <1>2, InDriver, Zenon DEF Inside
<1>4. \A e \in Channels : e # chan(req[t].disk) => hw'[e] = hw[e]
  BY <1>1, <1>3, Zenon DEF input_sector
<1>5. Ctl(t).data = content[req[t].disk][req[t].sector]
  BY <1>2, <1>3, Zenon DEF Phase, Fetched
<1>6. Visible(t)' = Visible(t) /\ Visible(t) = req[t] /\ ~Done(t) /\ Done(t)'
  BY <1>2, Zenon DEF Visible, Done
<1>7. \A u \in Threads : u # t => Visible(u)' = Visible(u) /\ (Done(u)' <=> Done(u))
  BY <1>2, <1>3, <1>4, OthersSame, Zenon
<1> QED BY <1>2, <1>5, <1>6, <1>7, Reads, Zenon

(* output_sector hands the sector over; it is not stored yet.              *)
LEMMA OutputAtomic ==
    ASSUME DiskInv, NEW t \in Threads, output_sector(t)
    PROVE  AtomicStep
<1>1. pc \in [Threads -> PlaceType] /\ hw \in [Channels -> ControllerType]
  BY Zenon DEF DiskInv, DriverType
<1>2. /\ pc[t] = "busy" /\ req[t].op = "write" /\ pc'[t] = "completion"
      /\ \A u \in Threads : u # t => pc'[u] = pc[u]
      /\ UNCHANGED <<content, req, buffer>>
  BY <1>1, Zenon DEF output_sector, Goto
<1>3. chan(req[t].disk) \in Channels /\ UsedBy(t, chan(req[t].disk)) /\ Phase(t)
  BY <1>2, InDriver, Zenon DEF Inside
<1>4. \A e \in Channels : hw'[e].command = hw[e].command
  BY <1>1, <1>3, Zenon DEF output_sector, ControllerType
<1>5. Ctl(t).command = "write" /\ Ctl(t)'.command = "write"
  BY <1>2, <1>3, <1>4, Zenon DEF Phase, Accepting, Ctl
<1>6. Visible(t)' = Visible(t) /\ ~Done(t) /\ ~Done(t)'
  BY <1>2, <1>5, Zenon DEF Visible, Done
<1> QED BY <1>2, <1>3, <1>4, <1>6, OthersSame, Stutters, Zenon

(* lock_release ends ide_read and ide_write: the access returns.           *)
LEMMA ReleaseAtomic ==
    ASSUME DiskInv, NEW t \in Threads, lock_release(t)
    PROVE  AtomicStep
<1>1. /\ pc \in [Threads -> PlaceType] /\ req \in [Threads -> RequestType]
      /\ buffer \in [Threads -> SectorType \cup {NULL}]
  BY Zenon DEF DiskInv, DriverType
<1>2. /\ pc[t] = "unlock" /\ pc'[t] = req[t].then /\ req'[t] = NoRequest
      /\ \A u \in Threads : u # t => pc'[u] = pc[u] /\ req'[u] = req[u]
      /\ buffer' = [buffer EXCEPT ![t] = IF req[t].then = "idle" THEN NULL ELSE @]
      /\ UNCHANGED <<hw, content>>
  BY <1>1, Zenon DEF lock_release, Goto
<1>3. req[t].then \in {"idle", "parse"}
  BY <1>1, Zenon DEF RequestType
<1>4. Visible(t)'.op = "none" /\ Done(t) /\ ~Done(t)'
  BY <1>2, <1>3 DEF Visible, Done, NoRequest
<1>5. \A u \in Threads : u # t => Visible(u)' = Visible(u) /\ (Done(u)' <=> Done(u))
  BY <1>2, Zenon DEF Visible, Done, Ctl
<1>6. buffer' \in {buffer, [buffer EXCEPT ![t] = NULL]}
  BY <1>1, <1>2, Zenon
<1> QED BY <1>2, <1>4, <1>5, <1>6, Returns, Zenon

-----------------------------------------------------------------------------
(* interrupt_handler counts an interrupt, which goes unseen.               *)
LEMMA HandlerAtomic ==
    ASSUME DiskInv, NEW c \in Channels, interrupt_handler(c)
    PROVE  AtomicStep
<1>1. hw \in [Channels -> ControllerType] /\ req \in [Threads -> RequestType]
  BY Zenon DEF DiskInv, DriverType
<1>2. UNCHANGED <<content, pc, req, buffer>>
  BY Zenon DEF interrupt_handler
<1>3. \A e \in Channels : hw'[e].command = hw[e].command
  BY <1>1, Zenon DEF interrupt_handler, ControllerType
<1>4. \A u \in Threads : chan(req[u].disk) \in Channels
  BY <1>1, ChanType, ZenonT(30) DEF RequestType
<1>5. \A u \in Threads : Visible(u)' = Visible(u) /\ (Done(u)' <=> Done(u))
  BY <1>2, <1>3, <1>4, Zenon DEF Visible, Done, Ctl
<1> QED BY <1>2, <1>5, Stutters, Zenon

(* FinishPhase stores a sector for the thread that writes it, or is unseen.*)
LEMMA FinishAtomic ==
    ASSUME DiskInv, NEW c \in Channels, FinishPhase(c)
    PROVE  AtomicStep
<1>1. PICK t \in Threads : UsedBy(t, c) /\ (Fetch(t, c) \/ Accept(t, c) \/ Store(t, c))
  BY FinishCases, Zenon
<1>2. hw \in [Channels -> ControllerType] /\ chan(req[t].disk) = c
  BY <1>1, Zenon DEF DiskInv, DriverType, UsedBy
<1>3. UNCHANGED <<pc, req, buffer>>
  BY ZenonT(30) DEF FinishPhase
<1>4. \A e \in Channels : e # c => hw'[e] = hw[e]
  BY <1>1, <1>2, ZenonT(30) DEF Fetch, Accept, Store
<1>5. \A u \in Threads : u # t => Visible(u)' = Visible(u) /\ (Done(u)' <=> Done(u))
  BY <1>1, <1>3, <1>4, OthersSame, Zenon
<1>6. CASE Fetch(t, c) \/ Accept(t, c)
  <2>1. req[t].op # "write" \/ pc[t] = "busy"
    BY <1>6, ZenonT(30) DEF Fetch, Accept
  <2>2. Visible(t)' = Visible(t) /\ (Done(t)' <=> Done(t)) /\ content' = content
    BY <1>3, <1>6, <2>1, ZenonT(30) DEF Visible, Done, Fetch, Accept
  <2> QED BY <1>3, <1>5, <2>2, Stutters, Zenon
<1>7. CASE Store(t, c)
  <2>1. /\ pc[t] = "completion" /\ req[t].op = "write" /\ Ctl(t).command = "write"
        /\ content' = [content EXCEPT ![req[t].disk][req[t].sector] = req[t].data]
    BY <1>7, Zenon DEF Store, Storing
  <2>2. hw'[c].command = "none"
    BY <1>2, <1>7, Zenon DEF Store, ControllerType
  <2>3. Visible(t)' = Visible(t) /\ Visible(t) = req[t] /\ ~Done(t) /\ Done(t)'
    BY <1>2, <1>3, <2>1, <2>2, Zenon DEF Visible, Done, Ctl
  <2> QED BY <1>3, <1>5, <2>1, <2>3, Writes, Zenon
<1> QED BY <1>1, <1>6, <1>7, Zenon

-----------------------------------------------------------------------------
(* A step of the main thread during the boot, outside the driver before or *)
(* after it: no access has happened, and the main thread calls or stays.   *)
LEMMA BootAtomic ==
    ASSUME DiskInv, probe \in Disks \/ pc[Main] = "locate",
           pc[Main] # "unlock", Visible(Main).op = "none",
           pc'[Main] \notin {"unlock", "completion"},
           \A u \in Threads : u # Main => pc'[u] = pc[u] /\ req'[u] = req[u],
           Visible(Main)' = Visible(Main) \/ Visible(Main)'.op \in {"read", "write"},
           UNCHANGED <<content, buffer>>
    PROVE  AtomicStep
<1>1. Main \in Threads
  BY DiskAssumption, Zenon DEF DiskAssumption
<1>2. \A u \in Threads : u # Main => pc[u] = "idle" /\ pc'[u] = "idle"
  BY OthersIdle, Zenon
<1>3. \A u \in Threads : u # Main => Visible(u)' = Visible(u) /\ ~Done(u) /\ ~Done(u)'
  BY <1>2, Zenon DEF Visible, Done
<1>4. ~Done(Main) /\ ~Done(Main)'
  BY Zenon DEF Visible, Done
<1>5. CASE Visible(Main)' = Visible(Main)
  BY <1>3, <1>4, <1>5, Stutters, Zenon
<1>6. CASE Visible(Main)'.op \in {"read", "write"}
  BY <1>1, <1>3, <1>4, <1>6, Calls, Zenon
<1> QED BY <1>5, <1>6, Zenon

(* The main thread outside the driver has no access.                       *)
LEMMA NoAccess ==
    ASSUME DiskInv, pc[Main] \in BootPlaces
    PROVE  /\ Main \in Threads /\ req[Main] = NoRequest /\ Visible(Main) = NoRequest
           /\ NoRequest.op = "none" /\ pc \in [Threads -> PlaceType]
           /\ req \in [Threads -> RequestType]
<1>1. Main \in Threads /\ Request(Main) /\ req[Main].op = "none"
  BY NoRequestMain, Zenon
<1>2. req[Main] = NoRequest
  BY <1>1, Zenon DEF Request
<1>3. pc \in [Threads -> PlaceType] /\ req \in [Threads -> RequestType]
  BY Zenon DEF DiskInv, DriverType
<1> QED BY <1>1, <1>2, <1>3, Zenon DEF Visible, NoRequest

(* The start of read_partition_table is a call or goes unseen.             *)
LEMMA TableAtomic ==
    ASSUME DiskInv, Main \in Threads, NEW calls, NEW sector, NEW primary,
           read_partition_table(Main, probe, calls, sector, primary)
    PROVE  /\ pc'[Main] \in {"parse", "lock"}
           /\ \A u \in Threads : u # Main => pc'[u] = pc[u] /\ req'[u] = req[u]
           /\ Visible(Main)' = NoRequest \/ Visible(Main)'.op \in {"read", "write"}
<1>1. pc \in [Threads -> PlaceType] /\ req \in [Threads -> RequestType]
  BY Zenon DEF DiskInv, DriverType
<1>2. CASE sector >= capacity[probe]
  <2>1. /\ pc' = [pc EXCEPT ![Main] = "parse"] /\ req' = [req EXCEPT ![Main] = NoRequest]
    BY <1>2, Zenon DEF read_partition_table, Goto
  <2>2. req'[Main] = NoRequest
    BY <1>1, <2>1, Zenon
  <2> QED BY <1>1, <2>1, <2>2, Zenon DEF Visible
<1>3. CASE ~(sector >= capacity[probe])
  <2> DEFINE r == [op |-> "read", disk |-> probe, sector |-> 0, data |-> NULL, then |-> "parse"]
  <2>1. pc' = [pc EXCEPT ![Main] = "lock"] /\ req' = [req EXCEPT ![Main] = r]
    BY <1>3, Zenon DEF read_partition_table, StartRequest, Goto
  <2>2. r.op = "read"
    BY Zenon
  <2> HIDE DEF r
  <2>3. req'[Main] = r
    BY <1>1, <2>1, Zenon
  <2> QED BY <1>1, <2>1, <2>2, <2>3, Zenon DEF Visible
<1> QED BY <1>2, <1>3, Zenon

(* The steps of the boot: the disk is seen by the scan's reads only.       *)
LEMMA BootRefines ==
    ASSUME DiskInv, Boot(Main)
    PROVE  AtomicStep
<1>0. pc[Main] = "locate" \/ probe \in Disks \/ pc[Main] \in BootPlaces \ {"locate", "no_device"}
  <2>1. Main \in Threads
    BY DiskAssumption, Zenon DEF DiskAssumption
  <2> QED BY <2>1, Zenon DEF DiskInv, Request, Boot, ide_init, ProbeDisk, identify_ata_device, ScanDone,
                  locate_block_devices, CheckSignature, ParseEntry, ReturnFromTable, BootPlaces
<1>1. probe \in Disks \/ pc[Main] = "locate"
  BY <1>0, Zenon DEF DiskInv, Booting, BootPlaces
<1>2. CASE ide_init(Main)
  <2>1. /\ pc[Main] = "reset" /\ pc' = [pc EXCEPT ![Main] = "probe"]
        /\ UNCHANGED <<content, req, buffer>>
    BY <1>2, Zenon DEF ide_init, Goto
  <2>2. Main \in Threads /\ Visible(Main) = NoRequest /\ NoRequest.op = "none" /\ pc \in [Threads -> PlaceType]
    BY <2>1, NoAccess, Zenon DEF BootPlaces
  <2>3. Visible(Main)' = Visible(Main)
    BY <2>1, Zenon DEF Visible
  <2> QED BY <1>1, <2>1, <2>2, <2>3, BootAtomic, Zenon
<1>3. CASE ProbeDisk(Main)
  <2>1. pc[Main] = "probe" /\ UNCHANGED <<content, buffer>> /\ pc[Main] \in BootPlaces
    BY <1>3, Zenon DEF ProbeDisk, BootPlaces
  <2>2. /\ Main \in Threads /\ Visible(Main) = NoRequest /\ NoRequest.op = "none"
        /\ pc \in [Threads -> PlaceType] /\ req \in [Threads -> RequestType]
    BY <2>1, NoAccess, Zenon
  <2>3. PICK place : pc' = [pc EXCEPT ![Main] = place] /\ place \in {"select", "locate", "reset", "probe"}
    BY <1>3, Zenon DEF ProbeDisk, AfterDisk, Goto
  <2>4. /\ Visible(Main)' = Visible(Main)
        /\ \A u \in Threads : u # Main => req'[u] = req[u]
    <3>1. CASE req' = req
      BY <3>1, Zenon DEF Visible
    <3>2. CASE req' = [req EXCEPT ![Main] = [NoRequest EXCEPT !.op = "identify", !.disk = probe]]
      <4> DEFINE r == [NoRequest EXCEPT !.op = "identify", !.disk = probe]
      <4>1. r.op = "identify"
        BY Zenon DEF NoRequest
      <4>2. req' = [req EXCEPT ![Main] = r]
        BY <3>2, Zenon
      <4> HIDE DEF r
      <4> QED BY <2>2, <4>1, <4>2, Zenon DEF Visible
    <3> QED BY <1>3, <3>1, <3>2, Zenon DEF ProbeDisk
  <2> QED BY <1>1, <2>1, <2>2, <2>3, <2>4, BootAtomic, Zenon
<1>4. CASE identify_ata_device(Main)
  <2>1. pc[Main] = "busy" /\ req[Main].op = "identify" /\ UNCHANGED <<content, buffer>>
    BY <1>4, Zenon DEF identify_ata_device
  <2>2. /\ Main \in Threads /\ pc \in [Threads -> PlaceType] /\ req \in [Threads -> RequestType]
    BY DiskAssumption, Zenon DEF DiskAssumption, DiskInv, DriverType
  <2>3. Visible(Main) = NoRequest /\ NoRequest.op = "none"
    BY <2>1, Zenon DEF Visible, NoRequest
  <2>4. /\ pc'[Main] \notin {"unlock", "completion"}
        /\ \A u \in Threads : u # Main => pc'[u] = pc[u] /\ req'[u] = req[u]
        /\ Visible(Main)' = NoRequest \/ Visible(Main)'.op \in {"read", "write"}
    <3>1. CASE read_partition_table(Main, probe, <<>>, 0, 0)
      BY <2>2, <3>1, TableAtomic, Zenon
    <3>2. CASE AfterDisk(Main) /\ req' = [req EXCEPT ![Main] = NoRequest]
      <4>1. PICK place : pc' = [pc EXCEPT ![Main] = place] /\ place \in {"locate", "reset", "probe"}
        BY <3>2, Zenon DEF AfterDisk, Goto
      <4>2. req'[Main] = NoRequest
        BY <2>2, <3>2, Zenon
      <4> QED BY <2>2, <2>3, <3>2, <4>1, <4>2, Zenon DEF Visible
    <3> QED BY <1>4, <3>1, <3>2, Zenon DEF identify_ata_device
  <2> QED BY <1>1, <2>1, <2>3, <2>4, BootAtomic, Zenon
<1>5. CASE ScanDone(Main) \/ locate_block_devices(Main) \/ CheckSignature(Main) \/ ReturnFromTable(Main)
  <2>1. pc[Main] \in BootPlaces /\ UNCHANGED <<content, buffer, req>>
    BY <1>5, Zenon DEF ScanDone, locate_block_devices, CheckSignature, ReturnFromTable, BootPlaces, ideVars
  <2>2. /\ Main \in Threads /\ Visible(Main) = NoRequest /\ NoRequest.op = "none"
        /\ pc \in [Threads -> PlaceType] /\ pc[Main] \notin {"unlock", "completion"}
    BY <2>1, NoAccess, Zenon DEF BootPlaces
  <2>3. /\ pc'[Main] \notin {"unlock", "completion"}
        /\ \A u \in Threads : u # Main => pc'[u] = pc[u]
    <3>1. CASE pc' = pc
      BY <2>2, <3>1, Zenon
    <3>2. CASE \E place \in {"locate", "reset", "probe", "no_device", "idle"} : pc' = [pc EXCEPT ![Main] = place]
      BY <2>2, <3>2, Zenon
    <3> QED BY <1>5, <3>1, <3>2, Zenon DEF ScanDone, locate_block_devices, CheckSignature, ReturnFromTable,
                                    AfterDisk, Goto, ideVars
  <2>4. Visible(Main)' = Visible(Main)
    BY <2>1, Zenon DEF Visible
  <2> QED BY <1>1, <2>1, <2>2, <2>3, <2>4, BootAtomic, Zenon
<1>6. CASE ParseEntry(Main, probe)
  <2>1. pc[Main] = "parse" /\ pc[Main] \in BootPlaces /\ UNCHANGED <<content, buffer>>
    BY <1>6, Zenon DEF ParseEntry, BootPlaces
  <2>2. Main \in Threads /\ Visible(Main) = NoRequest /\ NoRequest.op = "none"
    BY <2>1, NoAccess, Zenon
  <2>3. CASE UNCHANGED <<pc, req>>
    BY <1>1, <2>1, <2>2, <2>3, BootAtomic, Zenon DEF Visible
  <2>4. CASE \E calls, sector, primary : read_partition_table(Main, probe, calls, sector, primary)
    <3>1. /\ pc'[Main] \in {"parse", "lock"}
          /\ \A u \in Threads : u # Main => pc'[u] = pc[u] /\ req'[u] = req[u]
          /\ Visible(Main)' = NoRequest \/ Visible(Main)'.op \in {"read", "write"}
      BY <2>2, <2>4, TableAtomic, Zenon
    <3> QED BY <1>1, <2>1, <2>2, <3>1, BootAtomic, Zenon
  <2> QED BY <1>6, <2>3, <2>4, Zenon DEF ParseEntry
<1> QED BY <1>2, <1>3, <1>4, <1>5, <1>6, Zenon DEF Boot

-----------------------------------------------------------------------------
(* block_read and block_write are calls, or panics that the disk does not  *)
(* see.                                                                    *)
LEMMA AccessAtomic ==
    ASSUME DiskInv, NEW t \in Threads, Access(t)
    PROVE  AtomicStep
<1>1. /\ pc[t] = "idle" /\ UNCHANGED <<hw, content, buffer>>
      /\ pc \in [Threads -> PlaceType] /\ req \in [Threads -> RequestType]
  BY Zenon DEF Access, block_read, block_write, DiskInv, DriverType
<1>2. req[t] = NoRequest /\ NoRequest.op = "none"
  <2>1. Request(t)
    BY Zenon DEF DiskInv
  <2> QED BY <1>1, <2>1, Zenon DEF Request, Inside, NoRequest
<1>3. CASE pc' = [pc EXCEPT ![t] = "panic"] /\ req' = req
  <2>1. pc'[t] = "panic" /\ \A u \in Threads : u # t => pc'[u] = pc[u]
    BY <1>1, <1>3, Zenon
  <2> QED BY <1>1, <1>3, <2>1, Stutters, Zenon DEF Visible, Done, Ctl
<1>4. CASE \E op \in {"read", "write"} : \E d, sector, data : StartRequest(t, op, d, sector, data, "idle")
  <2>0. PICK op \in {"read", "write"} : \E d, sector, data : StartRequest(t, op, d, sector, data, "idle")
    BY <1>4, Zenon
  <2>1. PICK d, sector, data : StartRequest(t, op, d, sector, data, "idle")
    BY <2>0, Zenon
  <2> DEFINE r == [op |-> op, disk |-> d, sector |-> sector, data |-> data, then |-> "idle"]
  <2>2. pc' = [pc EXCEPT ![t] = "lock"] /\ req' = [req EXCEPT ![t] = r]
    BY <2>1, Zenon DEF StartRequest, Goto
  <2>3. r.op \in {"read", "write"}
    BY Zenon
  <2> HIDE DEF r
  <2>4. /\ pc'[t] = "lock" /\ req'[t] = r
        /\ \A u \in Threads : u # t => pc'[u] = pc[u] /\ req'[u] = req[u]
    BY <1>1, <2>2, Zenon
  <2>5. /\ \A u \in Threads : u # t => Visible(u)' = Visible(u) /\ (Done(u)' <=> Done(u))
        /\ ~Done(t) /\ ~Done(t)'
    BY <1>1, <2>4, Zenon DEF Visible, Done, Ctl
  <2>6. Visible(t).op = "none" /\ Visible(t)' = r
    BY <1>2, <2>3, <2>4, Zenon DEF Visible
  <2> QED BY <1>1, <2>3, <2>5, <2>6, Calls, Zenon
<1>5. \/ pc' = [pc EXCEPT ![t] = "panic"] /\ req' = req
      \/ \E op \in {"read", "write"} : \E d, sector, data : StartRequest(t, op, d, sector, data, "idle")
  BY Zenon DEF Access, block_read, block_write, Goto
<1> QED BY <1>3, <1>4, <1>5, Zenon

(* Every step is one of the atomic disk or goes unseen.                    *)
LEMMA NextRefines ==
    ASSUME DiskInv, [Next]_vars
    PROVE  AtomicStep
<1>1. ASSUME NEW t \in Threads, DriverStep(t) PROVE AtomicStep
  BY <1>1, AcquireAtomic, SelectAtomic, IssueAtomic, DownAtomic, InputAtomic, OutputAtomic,
     ReleaseAtomic, Zenon DEF DriverStep
<1>2. ASSUME NEW c \in Channels, Device(c) PROVE AtomicStep
  BY <1>2, HandlerAtomic, FinishAtomic, Zenon DEF Device
<1>3. CASE UNCHANGED vars
  <2>1. UNCHANGED <<hw, content, pc, req, buffer>>
    BY <1>3, Zenon DEF vars, ideVars
  <2> QED BY <2>1, Stutters, Zenon DEF Visible, Done, Ctl
<1> QED BY <1>1, <1>2, <1>3, BootRefines, AccessAtomic, Zenon DEF Next, ThreadStep

(* Reads and writes of the disks are atomic: although two disks share a    *)
(* channel and a thread waits up to three times inside ide_read and        *)
(* ide_write, each access happens at one point between its call and its    *)
(* return.                                                                 *)
THEOREM DriverRefinesAtomicDisk == Spec => RefinesAtomicDisk
<1>1. Init => Atomic!Init
  <2> SUFFICES ASSUME Init PROVE Atomic!Init
    BY Zenon
  <2>1. /\ pc = [t \in Threads |-> IF t = Main THEN "reset" ELSE "idle"]
        /\ req = [t \in Threads |-> NoRequest]
    BY Zenon DEF Init
  <2>2. Happened = {}
    BY <2>1, Zenon DEF Happened
  <2>3. \A t \in Threads : Visible(t).op = "none"
    BY <2>1, Zenon DEF Visible, NoRequest
  <2> QED BY <2>2, <2>3, Zenon DEF Atomic!Init, Visible
<1>2. DiskInv /\ [Next]_vars =>
          [\E t \in Threads : Atomic!Call(t) \/ Atomic!Read(t) \/ Atomic!Write(t) \/ Atomic!Return(t)]_(Atomic!vars)
  BY NextRefines, Zenon DEF AtomicStep
<1> QED BY <1>1, <1>2, DriverCorrect, PTL DEF Spec, RefinesAtomicDisk, Atomic!Spec

-----------------------------------------------------------------------------
(* Every block device lies on its disk, and a write is for a sector of the *)
(* device that the thread accesses.                                        *)
Fits(b) == b.start + b.size <= capacity[b.disk]

WritesVia(t) ==
    req[t].op = "write" =>
        /\ via[t] \in BlockType /\ via[t].disk = req[t].disk
        /\ req[t].sector \in via[t].start .. via[t].start + via[t].size - 1

FitInv ==
    /\ via \in [Threads -> BlockType \cup {NULL}]
    /\ \A i \in 1..Len(all_blocks) : Fits(all_blocks[i])
    /\ \A r \in Roles : block_by_role[r] # NULL => Fits(block_by_role[r])
    /\ \A t \in Threads : WritesVia(t)

(* block_register of a device that lies on its disk.                       *)
LEMMA RegisterFits ==
    ASSUME all_blocks \in Seq(BlockType), \A i \in 1..Len(all_blocks) : Fits(all_blocks[i]),
           NEW d \in Disks, NEW nr, NEW type, NEW start \in Nat, NEW size \in Nat,
           block_register(d, nr, type, start, size), start + size <= capacity[d]
    PROVE  \A i \in 1..Len(all_blocks') : Fits(all_blocks'[i])
<1> DEFINE b == [name |-> <<d, nr>>, type |-> type, disk |-> d, start |-> start, size |-> size]
<1>1. all_blocks' = Append(all_blocks, b)
  BY Zenon DEF block_register
<1>2. Fits(b)
  BY Zenon DEF Fits
<1> HIDE DEF b
<1>3. /\ Len(all_blocks') = Len(all_blocks) + 1 /\ all_blocks'[Len(all_blocks) + 1] = b
      /\ \A i \in 1..Len(all_blocks) : all_blocks'[i] = all_blocks[i]
  BY <1>1
<1>4. \A i \in 1..Len(all_blocks') : i \in 1..Len(all_blocks) \/ i = Len(all_blocks) + 1
  BY <1>3
<1> QED BY <1>2, <1>3, <1>4, Zenon

(* found_partition registers only partitions on the disk: a sum of start   *)
(* and size that wraps around is below start.                              *)
LEMMA FoundFits ==
    ASSUME all_blocks \in Seq(BlockType), \A i \in 1..Len(all_blocks) : Fits(all_blocks[i]),
           NEW d \in Disks, NEW e \in EntryType, NEW n \in Nat, NEW nr,
           found_partition(d, e, sector_t(n), nr)
    PROVE  \A i \in 1..Len(all_blocks') : Fits(all_blocks'[i])
<1> DEFINE M == 2^SECTOR_BITS
           start == sector_t(n)
<1>1. /\ M \in Nat \ {0} /\ start \in 0..(M - 1) /\ e.size \in 0..(M - 1) /\ capacity[d] \in Nat
      /\ \A k \in Nat : k < M => sector_t(k) = k
      /\ \A k \in Nat : M <= k /\ k < 2 * M => sector_t(k) = k - M
  BY SectorRange, IdeAssumption, Zenon DEF EntryType, IdeAssumption
<1> HIDE DEF M, start
<1>2. CASE UNCHANGED all_blocks
  BY <1>2, Zenon
<1>3. CASE /\ ~(sector_t(start + e.size) < start) /\ ~(sector_t(start + e.size) > capacity[d])
           /\ block_register(d, nr, block_type(e.type), start, e.size)
  <2>1. start + e.size \in Nat /\ start \in Nat /\ e.size \in Nat
    BY <1>1
  <2>2. CASE start + e.size < M
    <3>1. start + e.size <= capacity[d]
      BY <1>1, <1>3, <2>1, <2>2
    <3> QED BY <1>3, <2>1, <3>1, RegisterFits, Zenon
  <2>3. CASE M <= start + e.size
    <3>1. sector_t(start + e.size) = start + e.size - M
      BY <1>1, <2>1, <2>3
    <3> QED BY <1>1, <1>3, <3>1
  <2>4. start + e.size < M \/ M <= start + e.size
    BY <1>1, <2>1
  <2> QED BY <2>2, <2>3, <2>4, Zenon
<1> QED BY <1>2, <1>3, Zenon DEF found_partition, start

(* The devices that locate_block_devices finds are among all_blocks.       *)
LEMMA LocateFits ==
    ASSUME all_blocks \in Seq(BlockType), \A i \in 1..Len(all_blocks) : Fits(all_blocks[i]), NEW role
    PROVE  locate_block_device(role) # NULL => Fits(locate_block_device(role))
<1>1. ASSUME NEW I, I \subseteq 1..Len(all_blocks) PROVE FirstOf(I) # NULL => Fits(FirstOf(I))
  <2> DEFINE first == {i \in I : \A k \in I : i <= k}
             i == CHOOSE i \in first : TRUE
  <2>1. first # {} => i \in 1..Len(all_blocks)
    BY <1>1, Zenon
  <2>2. FirstOf(I) = IF first = {} THEN NULL ELSE all_blocks[i]
    BY Zenon DEF FirstOf
  <2> HIDE DEF first, i
  <2> QED BY <2>1, <2>2, Zenon
<1> QED BY <1>1, Zenon DEF locate_block_device, block_get_by_name

(* The boot ends in locate or goes on with a disk.                         *)
LEMMA BootGoesOn ==
    ASSUME DiskInv, Boot(Main), ~locate_block_devices(Main)
    PROVE  /\ probe \in Disks
           /\ probe' \in Disks \/ pc'[Main] = "locate"
<1>1. Main \in Threads /\ Request(Main) /\ pc \in [Threads -> PlaceType]
  BY DiskAssumption, Zenon DEF DiskAssumption, DiskInv, DriverType
<1>2. pc[Main] \in {"reset", "probe", "parse"} \/ req[Main].op = "identify"
  BY Zenon DEF Boot, ide_init, ProbeDisk, identify_ata_device, ScanDone, CheckSignature, ParseEntry,
         ReturnFromTable
<1>3. probe \in Disks
  BY <1>1, <1>2, Zenon DEF DiskInv, Booting, Request
<1>4. probe' = probe \/ AfterDisk(Main)
  BY Zenon DEF Boot, ide_init, ProbeDisk, identify_ata_device, ScanDone
<1>5. AfterDisk(Main) => probe' \in Disks \/ pc'[Main] = "locate"
  BY <1>1, Zenon DEF AfterDisk, Goto
<1> QED BY <1>3, <1>4, <1>5, Zenon

(* The boot writes nothing and does not panic.                             *)
LEMMA BootWrites ==
    ASSUME DiskInv, DiskInv', Boot(Main)
    PROVE  \A t \in Threads : req'[t].op # "write" /\ pc'[t] # "panic"
<1>0. Main \in Threads /\ pc \in [Threads -> PlaceType]
  BY DiskAssumption, Zenon DEF DiskAssumption, DiskInv, DriverType
<1>1. CASE locate_block_devices(Main)
  <2>1. pc[Main] = "locate" /\ req' = req
    BY <1>1, Zenon DEF locate_block_devices
  <2>2. PICK place \in {"no_device", "idle"} : pc' = [pc EXCEPT ![Main] = place]
    BY <1>1, Zenon DEF locate_block_devices, Goto
  <2>3. \A t \in Threads : Request(t) /\ (t # Main => pc[t] = "idle")
    BY <2>1, OthersIdle, Zenon DEF DiskInv
  <2>4. \A t \in Threads : req[t].op = "none"
    BY <2>1, <2>3, Zenon DEF Request, Inside
  <2> QED BY <1>0, <2>1, <2>2, <2>3, <2>4, Zenon
<1>2. CASE ~locate_block_devices(Main)
  <2>1. probe' \in Disks \/ pc'[Main] = "locate"
    BY <1>2, BootGoesOn, Zenon
  <2>2. Booting' /\ \A t \in Threads : Request(t)'
    BY Zenon DEF DiskInv
  <2>3. ASSUME NEW t \in Threads, t # Main PROVE req'[t].op = "none" /\ pc'[t] = "idle"
    BY <2>1, <2>2, <2>3, Zenon DEF Request, Inside
  <2>4. req'[Main].op # "write" /\ pc'[Main] # "panic"
    BY <1>0, <2>1, <2>2, Zenon DEF Request, Booting, Inside
  <2> QED BY <2>3, <2>4, Zenon
<1> QED BY <1>1, <1>2, Zenon

-----------------------------------------------------------------------------
(* The boot keeps the devices on their disks.                              *)
LEMMA BootFits ==
    ASSUME DiskInv, DiskInv', FitInv, Boot(Main)
    PROVE  FitInv'
<1>1. /\ all_blocks \in Seq(BlockType) /\ \A i \in 1..Len(all_blocks) : Fits(all_blocks[i])
      /\ via' = via
  BY Zenon DEF DiskInv, BootType, FitInv, Boot, ide_init, ProbeDisk, identify_ata_device, ScanDone,
               locate_block_devices
<1>2. \A t \in Threads : WritesVia(t)'
  BY BootWrites, Zenon DEF WritesVia
<1>3. \A i \in 1..Len(all_blocks') : Fits(all_blocks'[i])
  <2>1. CASE all_blocks' = all_blocks
    BY <1>1, <2>1, Zenon
  <2>2. CASE identify_ata_device(Main) /\ block_register(probe, 0, "BLOCK_RAW", 0, capacity[probe])
    <3>1. probe \in Disks
      <4>1. ~locate_block_devices(Main)
        <5>1. pc[Main] = "busy"
          BY <2>2, Zenon DEF identify_ata_device
        <5> QED BY <5>1, Zenon DEF locate_block_devices
      <4> QED BY <4>1, BootGoesOn, Zenon
    <3>2. capacity[probe] \in Nat /\ 0 + capacity[probe] <= capacity[probe]
      BY <3>1, IdeAssumption DEF IdeAssumption
    <3> QED BY <1>1, <2>2, <3>1, <3>2, RegisterFits, Zenon
  <2>3. CASE ParseEntry(Main, probe)
    <3>1. pc[Main] = "parse" /\ tables # <<>> /\ Top.i \in 1..Len(Top.partitions)
      BY <2>3, Zenon DEF ParseEntry
    <3>2. Top \in TableType /\ probe \in Disks
      BY <3>1, TopType, Zenon DEF DiskInv, Booting
    <3>3. /\ Top.partitions[Top.i] \in EntryType /\ Top.sector \in Nat
      BY <3>1, <3>2 DEF TableType
    <3> DEFINE e == Top.partitions[Top.i]
    <3>4. e.offset + Top.sector \in Nat
      <4>1. e.offset \in 0..(2^SECTOR_BITS - 1)
        BY <3>3, Zenon DEF EntryType
      <4> QED BY <3>3, <4>1
    <3>5. all_blocks' = all_blocks \/ found_partition(probe, e, sector_t(e.offset + Top.sector), part_nr + 1)
      BY <2>3, Zenon DEF ParseEntry
    <3> HIDE DEF e
    <3> QED BY <1>1, <3>2, <3>3, <3>4, <3>5, FoundFits, Zenon DEF e
  <2>4. \/ all_blocks' = all_blocks
        \/ identify_ata_device(Main) /\ block_register(probe, 0, "BLOCK_RAW", 0, capacity[probe])
        \/ ParseEntry(Main, probe)
    BY Zenon DEF Boot, ide_init, ProbeDisk, identify_ata_device, ScanDone, locate_block_devices,
                 CheckSignature, ReturnFromTable, partitionVars
  <2> QED BY <2>1, <2>2, <2>3, <2>4, Zenon
<1>4. \A r \in Roles : block_by_role'[r] # NULL => Fits(block_by_role'[r])
  <2>1. CASE block_by_role' = block_by_role
    BY <2>1, Zenon DEF FitInv
  <2>2. CASE locate_block_devices(Main)
    <3>1. block_by_role' = [r \in Roles |-> locate_block_device(r)]
      BY <2>2, Zenon DEF locate_block_devices
    <3> QED BY <1>1, <3>1, LocateFits, Zenon
  <2>3. block_by_role' = block_by_role \/ locate_block_devices(Main)
    BY Zenon DEF Boot, ide_init, ProbeDisk, identify_ata_device, ScanDone
  <2> QED BY <2>1, <2>2, <2>3, Zenon
<1> QED BY <1>1, <1>2, <1>3, <1>4, Zenon DEF FitInv, Fits

(* A step of ide_read or ide_write keeps the request until it returns.     *)
LEMMA DriverFits ==
    ASSUME DiskInv, FitInv, NEW t \in Threads, DriverStep(t),
           via' = [via EXCEPT ![t] = IF pc[t] = "unlock" THEN NULL ELSE @],
           UNCHANGED <<partitionVars, probe, block_by_role>>
    PROVE  FitInv' /\ content' = content /\ pc'[t] # "panic" /\ \A u \in Threads : u # t => pc'[u] = pc[u]
<1>1. /\ pc \in [Threads -> PlaceType] /\ req \in [Threads -> RequestType]
      /\ via \in [Threads -> BlockType \cup {NULL}]
  BY Zenon DEF DiskInv, DriverType, FitInv
<1>2. req[t].then \in {"idle", "parse"}
  BY <1>1, Zenon DEF RequestType
<1>3. /\ content' = content
      /\ \E place \in {"select", "issue", "completion", "busy", "unlock", "idle", "parse"} :
             pc' = [pc EXCEPT ![t] = place]
  BY <1>2, Zenon DEF DriverStep, lock_acquire, select_sector, issue_pio_command, sema_down, input_sector,
                     output_sector, lock_release, Goto
<1>4. pc'[t] # "panic" /\ \A u \in Threads : u # t => pc'[u] = pc[u]
  BY <1>1, <1>3, Zenon
<1>5. via' \in [Threads -> BlockType \cup {NULL}] /\ \A u \in Threads : u # t => via'[u] = via[u]
  BY <1>1, Zenon
<1>6. CASE pc[t] # "unlock" /\ req' = req
  <2>1. via'[t] = via[t]
    BY <1>1, <1>6, Zenon
  <2>2. \A u \in Threads : WritesVia(u)'
    BY <1>5, <1>6, <2>1, Zenon DEF FitInv, WritesVia
  <2> QED BY <1>3, <1>4, <1>5, <2>2, Zenon DEF FitInv, partitionVars, Fits
<1>7. CASE lock_release(t)
  <2>1. req' = [req EXCEPT ![t] = NoRequest]
    BY <1>7, Zenon DEF lock_release
  <2>2. req'[t].op = "none" /\ \A u \in Threads : u # t => req'[u] = req[u]
    BY <1>1, <2>1, Zenon DEF NoRequest
  <2>3. \A u \in Threads : WritesVia(u)'
    BY <1>5, <2>2, Zenon DEF FitInv, WritesVia
  <2> QED BY <1>3, <1>4, <1>5, <2>3, Zenon DEF FitInv, partitionVars, Fits
<1>8. lock_release(t) \/ (pc[t] # "unlock" /\ req' = req)
  BY Zenon DEF DriverStep, lock_acquire, select_sector, issue_pio_command, sema_down, input_sector, output_sector
<1> QED BY <1>6, <1>7, <1>8, Zenon

(* An access is for a sector of the device: block_read and block_write     *)
(* never fail in check_sector.                                             *)
LEMMA AccessFits ==
    ASSUME DiskInv, FitInv, NEW t \in Threads, Access(t)
    PROVE  /\ FitInv' /\ content' = content
           /\ \A u \in Threads : pc'[u] = "panic" /\ pc[u] # "panic" => via'[u].type = "BLOCK_FOREIGN"
<1>1. /\ pc \in [Threads -> PlaceType] /\ req \in [Threads -> RequestType]
      /\ via \in [Threads -> BlockType \cup {NULL}]
  BY Zenon DEF DiskInv, DriverType, FitInv
<1>2. PICK r \in Roles :
        /\ block_by_role[r] # NULL
        /\ via' = [via EXCEPT ![t] = block_by_role[r]]
        /\ \E sector \in 0..(block_by_role[r].size - 1) :
               \/ block_read(t, block_by_role[r], sector)
               \/ block_write(t, block_by_role[r], sector, Sector(<<>>, t))
  BY Zenon DEF Access
<1> DEFINE b == block_by_role[r]
<1>3. PICK sector \in 0..(b.size - 1) :
        block_read(t, b, sector) \/ block_write(t, b, sector, Sector(<<>>, t))
  BY <1>2, Zenon
<1>4. b \in BlockType /\ Fits(b) /\ via' = [via EXCEPT ![t] = b]
  BY <1>2, Zenon DEF DiskInv, BootType, FitInv
<1>5. UNCHANGED <<content, all_blocks, block_by_role>>
  BY Zenon DEF Access, block_read, block_write, partitionVars
<1> HIDE DEF b
<1>6. /\ via' \in [Threads -> BlockType \cup {NULL}] /\ via'[t] = b
      /\ \A u \in Threads : u # t => via'[u] = via[u]
  BY <1>1, <1>4, Zenon
<1>7. /\ b.disk \in Disks /\ b.start \in Nat /\ b.size \in Nat /\ capacity[b.disk] \in Nat
      /\ capacity[b.disk] < 2^SECTOR_BITS /\ 2^SECTOR_BITS \in Nat
  BY <1>4, IdeAssumption, PartitionAssumption, Zenon DEF BlockType, IdeAssumption, PartitionAssumption
<1>8. /\ sector < b.size /\ b.start + sector \in Nat /\ b.start + sector < capacity[b.disk]
      /\ b.start + sector \in b.start .. b.start + b.size - 1
  BY <1>3, <1>4, <1>7, SMTT(30) DEF Fits
<1>9. sector_t(b.start + sector) = b.start + sector
  <2>1. b.start + sector < 2^SECTOR_BITS
    BY <1>7, <1>8
  <2> QED BY <1>8, <2>1, SectorRange, Zenon
<1>10. check_sector(b, sector) /\ disk_sector(b, sector) \in b.start .. b.start + b.size - 1
  BY <1>8, <1>9, Zenon DEF check_sector, disk_sector
<1>11. CASE pc' = [pc EXCEPT ![t] = "panic"] /\ req' = req /\ b.type = "BLOCK_FOREIGN"
  <2>1. req[t].op # "write"
    <3>1. pc[t] = "idle" /\ Request(t)
      BY Zenon DEF Access, DiskInv
    <3> QED BY <3>1, Zenon DEF Request, Inside
  <2>2. \A u \in Threads : WritesVia(u)'
    BY <1>6, <1>11, <2>1, Zenon DEF FitInv, WritesVia
  <2>3. \A u \in Threads : pc'[u] = "panic" /\ pc[u] # "panic" => via'[u].type = "BLOCK_FOREIGN"
    BY <1>1, <1>6, <1>11, Zenon
  <2> QED BY <1>5, <1>6, <2>2, <2>3, Zenon DEF FitInv, Fits
<1>12. CASE \E op, data : StartRequest(t, op, b.disk, disk_sector(b, sector), data, "idle")
  <2>1. PICK op, data : StartRequest(t, op, b.disk, disk_sector(b, sector), data, "idle")
    BY <1>12, Zenon
  <2> DEFINE q == [op |-> op, disk |-> b.disk, sector |-> disk_sector(b, sector), data |-> data, then |-> "idle"]
  <2>2. pc' = [pc EXCEPT ![t] = "lock"] /\ req' = [req EXCEPT ![t] = q]
    BY <2>1, Zenon DEF StartRequest, Goto
  <2>3. q.disk = b.disk /\ q.sector = disk_sector(b, sector)
    BY Zenon
  <2> HIDE DEF q
  <2>4. req'[t] = q /\ \A u \in Threads : u # t => req'[u] = req[u]
    BY <1>1, <2>2, Zenon
  <2>5. \A u \in Threads : WritesVia(u)'
    BY <1>4, <1>6, <1>10, <2>3, <2>4 DEF FitInv, WritesVia
  <2>6. \A u \in Threads : pc'[u] = "panic" /\ pc[u] # "panic" => via'[u].type = "BLOCK_FOREIGN"
    BY <1>1, <2>2, Zenon
  <2> QED BY <1>5, <1>6, <2>5, <2>6, Zenon DEF FitInv, Fits
<1>13. \/ pc' = [pc EXCEPT ![t] = "panic"] /\ req' = req /\ b.type = "BLOCK_FOREIGN"
       \/ \E op, data : StartRequest(t, op, b.disk, disk_sector(b, sector), data, "idle")
  BY <1>3, <1>10, Zenon DEF block_read, block_write, Goto
<1> QED BY <1>11, <1>12, <1>13, Zenon

(* What a step may do to the sectors and to the threads.                   *)
StaysInBlock ==
    /\ \A t \in Threads : pc'[t] = "panic" /\ pc[t] # "panic" => via'[t].type = "BLOCK_FOREIGN"
    /\ \A d \in Disks : \A s \in DOMAIN content[d] :
           content'[d][s] # content[d][s] =>
               \E t \in Threads : /\ req[t].op = "write" /\ via[t].disk = d
                                  /\ s \in via[t].start .. via[t].start + via[t].size - 1

(* A controller changes only the sector that the thread on its channel     *)
(* writes (FinishPhase).                                                   *)
LEMMA FinishStays ==
    ASSUME DiskInv, FitInv, NEW c \in Channels, Device(c)
    PROVE  FitInv' /\ StaysInBlock
<1>1. UNCHANGED <<pc, req, via, all_blocks, block_by_role>>
  BY Zenon DEF Device, interrupt_handler, FinishPhase, partitionVars
<1>2. FitInv'
  BY <1>1, Zenon DEF FitInv, WritesVia, Fits
<1>3. CASE content' = content
  BY <1>1, <1>2, <1>3, Zenon DEF StaysInBlock
<1>4. CASE content' # content
  <2>1. FinishPhase(c)
    BY <1>4, Zenon DEF Device, interrupt_handler
  <2>2. PICK t \in Threads : Store(t, c)
    BY <1>4, <2>1, FinishCases, Zenon DEF Fetch, Accept
  <2>3. /\ req[t].op = "write" /\ WritesVia(t)
        /\ content' = [content EXCEPT ![req[t].disk][req[t].sector] = req[t].data]
    BY <2>2, Zenon DEF Store, FitInv
  <2>4. ASSUME NEW d \in Disks, NEW s \in DOMAIN content[d], content'[d][s] # content[d][s]
        PROVE  d = req[t].disk /\ s = req[t].sector
    <3>1. content = [e \in Disks |-> content[e]]
      BY Zenon DEF DiskInv, DriverType
    <3>2. content[d] = [k \in DOMAIN content[d] |-> content[d][k]]
      BY Zenon DEF DiskInv, DriverType
    <3> QED BY <2>3, <2>4, <3>1, <3>2, Zenon
  <2> QED BY <1>1, <1>2, <2>3, <2>4, Zenon DEF StaysInBlock, WritesVia
<1> QED BY <1>3, <1>4, Zenon

(* Every step keeps the devices on their disks and stays in them.          *)
LEMMA NextFits ==
    ASSUME DiskInv, FitInv, [Next]_vars
    PROVE  FitInv' /\ StaysInBlock
<1>1. DiskInv'
  BY NextInv, Zenon
<1>2. CASE Boot(Main)
  <2>1. FitInv' /\ \A t \in Threads : pc'[t] # "panic"
    BY <1>1, <1>2, BootFits, BootWrites, Zenon
  <2>2. content' = content
    BY <1>2, Zenon DEF Boot, ide_init, ProbeDisk, identify_ata_device, ScanDone, locate_block_devices,
                       CheckSignature, ParseEntry, ReturnFromTable, ideVars
  <2> QED BY <2>1, <2>2, Zenon DEF StaysInBlock
<1>3. ASSUME NEW t \in Threads, DriverStep(t),
             via' = [via EXCEPT ![t] = IF pc[t] = "unlock" THEN NULL ELSE @],
             UNCHANGED <<partitionVars, probe, block_by_role>>
      PROVE  FitInv' /\ StaysInBlock
  BY <1>3, DriverFits, Zenon DEF StaysInBlock
<1>4. ASSUME NEW t \in Threads, Access(t) PROVE FitInv' /\ StaysInBlock
  BY <1>4, AccessFits, Zenon DEF StaysInBlock
<1>5. CASE UNCHANGED vars
  <2>1. UNCHANGED <<content, pc, req, via, all_blocks, block_by_role>>
    BY <1>5, Zenon DEF vars, ideVars, partitionVars
  <2>2. FitInv'
    BY <2>1, Zenon DEF FitInv, WritesVia, Fits
  <2> QED BY <2>1, <2>2, Zenon DEF StaysInBlock
<1> QED BY <1>2, <1>3, <1>4, <1>5, FinishStays, Zenon DEF Next, ThreadStep

(* A write changes no sector outside the partition it goes through, and no *)
(* access fails in check_sector (found_partition, partition_write,         *)
(* block_write).                                                           *)
THEOREM PartitionsConfine == Spec => AccessesStayInBlock
<1>1. Init => FitInv
  <2> SUFFICES ASSUME Init PROVE FitInv
    BY Zenon
  <2>1. /\ via = [t \in Threads |-> NULL] /\ all_blocks = <<>> /\ block_by_role = [r \in Roles |-> NULL]
        /\ req = [t \in Threads |-> NoRequest]
    BY Zenon DEF Init
  <2>2. \A t \in Threads : req[t].op # "write"
    BY <2>1, Zenon DEF NoRequest
  <2> QED BY <2>1, <2>2 DEF FitInv, WritesVia
<1>2. DiskInv /\ FitInv /\ [Next]_vars => FitInv' /\ StaysInBlock
  BY NextFits, Zenon
<1>3. AccessesStayInBlock <=> [][StaysInBlock]_vars
  BY PTL DEF AccessesStayInBlock, StaysInBlock
<1> QED BY <1>1, <1>2, <1>3, DriverCorrect, PTL DEF Spec
=============================================================================
