----------------------------- MODULE Partition ------------------------------
(***************************************************************************)
(* Block devices and partitions (devices/block.c, devices/partition.c) on  *)
(* top of the ATA driver: the scan of a disk's partition tables, which is  *)
(* recursive, the table of block devices, and reads and writes through it. *)
(* A sector is its partition table, empty without the signature 0xaa55,    *)
(* and its data.  Sector numbers have SECTOR_BITS bits.                    *)
(***************************************************************************)
EXTENDS Ide

CONSTANTS SECTOR_BITS,
          MaxTables       \* bound: nested partition tables

ASSUME PartitionAssumption ==
    /\ SECTOR_BITS \in Nat /\ 2^SECTOR_BITS \in Nat \ {0}
    /\ \A d \in Disks : capacity[d] < 2^SECTOR_BITS

VARIABLES all_blocks,   \* the block devices in the order of registration
          tables,       \* the calls of read_partition_table, the inner ones last
          part_nr       \* partitions found on the disk being scanned

partitionVars == <<all_blocks, tables, part_nr>>

sector_t(n) == n % 2^SECTOR_BITS

(* A device is named after its disk, and a partition has a number too.     *)
block_register(d, nr, type, start, size) ==
    all_blocks' = Append(all_blocks,
        [name |-> <<d, nr>>, type |-> type, disk |-> d, start |-> start, size |-> size])

block_type(part_type) ==
    CASE part_type = 32 -> "BLOCK_KERNEL"
      [] part_type = 33 -> "BLOCK_FILESYS"
      [] part_type = 34 -> "BLOCK_SCRATCH"
      [] part_type = 35 -> "BLOCK_SWAP"
      [] OTHER -> "BLOCK_FOREIGN"

(* Mutant: the end of the partition is not checked.                        *)
FoundUnchecked(d, e, start, nr) ==
    IF start >= capacity[d] THEN UNCHANGED all_blocks
    ELSE block_register(d, nr, block_type(e.type), start, e.size)

found_partition(d, e, start, nr) ==
    IF \/ start >= capacity[d]
       \/ sector_t(start + e.size) < start
       \/ sector_t(start + e.size) > capacity[d]
    THEN UNCHANGED all_blocks
    ELSE block_register(d, nr, block_type(e.type), start, e.size)

-----------------------------------------------------------------------------
(* read_partition_table up to block_read, which reads sector 0 whatever    *)
(* the sector is.  A sector past the end of the device is only reported.   *)
read_partition_table(t, d, calls, sector, primary) ==
    IF sector >= capacity[d]
    THEN /\ tables' = calls
         /\ Goto(t, "parse")
         /\ req' = [req EXCEPT ![t] = NoRequest]
    ELSE /\ tables' = Append(calls, [sector |-> sector, primary |-> primary, i |-> 0,
                                     partitions |-> <<>>])
         /\ StartRequest(t, "read", d, 0, NULL, "parse")

Top == tables[Len(tables)]

(* The call on top, once its sector was read, or with its entry done.      *)
SetTop(call) == [tables EXCEPT ![Len(tables)] = call]

Extended(e) == e.type \in {5, 15, 133, 197}

(* The signature is checked, and the loop over the entries begins; a table *)
(* without the signature has no entries.                                   *)
CheckSignature(t) ==
    /\ pc[t] = "parse"
    /\ tables # <<>> /\ Top.i = 0
    /\ tables' = SetTop([Top EXCEPT !.i = 1, !.partitions = buffer[t].table])
    /\ UNCHANGED <<ideVars, all_blocks, part_nr>>

(* One entry of the table.                                                 *)
ParseEntry(t, d) ==
    /\ pc[t] = "parse"
    /\ tables # <<>> /\ Top.i \in 1..Len(Top.partitions)
    /\ LET e    == Top.partitions[Top.i]
           done == SetTop([Top EXCEPT !.i = @ + 1])
       IN  \/ /\ e.size = 0 \/ e.type = 0
              /\ tables' = done
              /\ UNCHANGED <<all_blocks, part_nr, pc, req>>
           \/ /\ e.size # 0 /\ Extended(e)
              /\ Len(tables) < MaxTables
              /\ IF Top.sector = 0
                 THEN read_partition_table(t, d, done, e.offset, e.offset)
                 ELSE read_partition_table(t, d, done, sector_t(e.offset + Top.primary),
                                           Top.primary)
              /\ UNCHANGED <<all_blocks, part_nr>>
           \/ /\ e.size # 0 /\ e.type # 0 /\ ~Extended(e)
              /\ part_nr' = part_nr + 1
              /\ found_partition(d, e, sector_t(e.offset + Top.sector), part_nr + 1)
              /\ tables' = done
              /\ UNCHANGED <<pc, req>>
    /\ UNCHANGED <<registers, is_ata, channel, hw, content, buffer>>

(* read_partition_table returns to the call below.                         *)
ReturnFromTable(t) ==
    /\ pc[t] = "parse"
    /\ tables # <<>> /\ Top.i > Len(Top.partitions) /\ Top.i > 0
    /\ tables' = SubSeq(tables, 1, Len(tables) - 1)
    /\ UNCHANGED <<ideVars, all_blocks, part_nr>>

-----------------------------------------------------------------------------
(* check_sector of the device b and, through a partition, of its disk.     *)
check_sector(b, sector) ==
    sector < b.size /\ sector_t(b.start + sector) < capacity[b.disk]

(* partition_read and partition_write pass the sector on.                  *)
disk_sector(b, sector) == sector_t(b.start + sector)

(* block_read and block_write; a panic stops the thread.                   *)
block_read(t, b, sector) ==
    /\ IF check_sector(b, sector)
       THEN StartRequest(t, "read", b.disk, disk_sector(b, sector), NULL, "idle")
       ELSE Goto(t, "panic") /\ UNCHANGED req
    /\ UNCHANGED <<registers, is_ata, channel, hw, content, buffer, partitionVars>>

block_write(t, b, sector, data) ==
    /\ IF check_sector(b, sector) /\ b.type # "BLOCK_FOREIGN"
       THEN StartRequest(t, "write", b.disk, disk_sector(b, sector), data, "idle")
       ELSE Goto(t, "panic") /\ UNCHANGED req
    /\ UNCHANGED <<registers, is_ata, channel, hw, content, buffer, partitionVars>>
=============================================================================
