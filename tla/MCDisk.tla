------------------------------- MODULE MCDisk -------------------------------
(***************************************************************************)
(* One channel with two disks, of four sectors each; sector numbers have   *)
(* three bits.                                                             *)
(***************************************************************************)
EXTENDS Disk, TLC

Ata    == [error |-> 1, lbam |-> 0, lbah |-> 0, drdy |-> TRUE, bsy |-> FALSE]
Atapi  == [Ata EXCEPT !.lbam = 20, !.lbah = 235]
Absent == [error |-> 129, lbam |-> 0, lbah |-> 0, drdy |-> FALSE, bsy |-> FALSE]
Failed == [Ata EXCEPT !.error = 129]

Entry(type, offset, size) == [type |-> type, offset |-> offset, size |-> size]

(* What sector 0 of hda and of hdb holds: partitions inside the disk, past *)
(* its end, and ending past the largest sector number; an extended         *)
(* partition past the end of the disk.                                     *)
None   == <<>>
Both   == 0 :> <<Entry(33, 1, 1), Entry(34, 3, 1)>>
Wrong  == 0 :> <<Entry(0, 0, 0), Entry(34, 3, 2), Entry(33, 6, 1), Entry(33, 2, 7)>>
Others == 0 :> <<Entry(131, 1, 1), Entry(5, 7, 1), Entry(33, 3, 1)>>

MCTables == {<<Both, Others>>, <<Wrong, Both>>, <<Others, None>>, <<None, Others>>}

MCRegisters == {<<Ata, Ata>>, <<Ata, Atapi>>, <<Failed, Ata>>, <<Absent, Ata>>}

MCCapacity == [d \in Disks |-> 4]

(* The scratch device is named on the command line, "-scratch=hdb2".       *)
MCNames == [r \in Roles |-> IF r = "BLOCK_SCRATCH" THEN <<1, 2>> ELSE NULL]
=============================================================================
