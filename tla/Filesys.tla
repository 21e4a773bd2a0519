------------------------------ MODULE Filesys -------------------------------
(***************************************************************************)
(* The file system in use.  One call runs at a time, as in the actions of  *)
(* the kernel command line; the machine may crash after any of the sectors *)
(* that a call writes, and is then started again without formatting.       *)
(***************************************************************************)
EXTENDS Fsutil

CONSTANTS Names, Sizes, Handles,
          WriteSizes, Positions,   \* how much is written, where Seek goes
          Failing,         \* allocations that may fail, and "none"
          ScratchArchive,  \* the scratch device at first
          MaxCalls, MaxCrashes, MaxUtil  \* bounds: calls; crashes; extractions and appends

VARIABLES fs,        \* the file system between calls
          files,     \* the open files
          scratch,   \* the scratch device
          position,  \* the static sectors of fsutil_extract and fsutil_append
          contents,  \* history: the cells of each file, by the inode's sector
          lost,      \* history: marked sectors that no file has any more
          calls, crashes, utils, halted

vars == <<fs, files, scratch, position, contents, lost, calls, crashes, utils, halted>>

FsSectors == 0..(Sectors - 1)

-----------------------------------------------------------------------------
(* The entries of the root directory, the sectors of the inode in x and    *)
(* the cells of its file, all as on the disk.                              *)
Listing(disk) ==
    LET root == disk[ROOT_DIR_SECTOR]
        cell(i) == disk[root.start + i \div BLOCK_SECTOR_SIZE].cells[(i % BLOCK_SECTOR_SIZE) + 1]
    IN  {cell(i) : i \in {j \in 0..(root.length - 1) : cell(j).in_use}}

SectorsOf(disk, x) ==
    {x} \cup (disk[x].start .. disk[x].start + bytes_to_sectors(disk[x].length) - 1)

FileCells(disk, x) ==
    [i \in 1..disk[x].length |->
        disk[disk[x].start + (i - 1) \div BLOCK_SECTOR_SIZE].cells[((i - 1) % BLOCK_SECTOR_SIZE) + 1]]

Marked(map) == {i \in FsSectors : bitmap_test(map, i)}

Listed(disk) == {e.inode_sector : e \in Listing(disk)}

InUse(s) == {FREE_MAP_SECTOR, ROOT_DIR_SECTOR} \cup Listed(s.disk)
                \cup {x \in FsSectors : s.inodes[x].open_cnt > 0}

(* Marked sectors that neither a file nor the file system itself uses.     *)
Orphans(s) == Marked(s.free_map) \ UNION {SectorsOf(s.disk, x) : x \in InUse(s)}

(* The history of the files that still exist.                              *)
Existing(s, cells) == [x \in FsSectors |-> IF x \in InUse(s) THEN cells[x] ELSE <<>>]

(* The file whose header is in sector p of the scratch device.             *)
Archived(p) ==
    [i \in 1..scratch[p].size |->
        scratch[p + 1 + (i - 1) \div BLOCK_SECTOR_SIZE].cells[((i - 1) % BLOCK_SECTOR_SIZE) + 1]]

Quiet(s) == [s EXCEPT !.log = <<>>, !.failing = "none"]

Blank == [n \in FsSectors |-> ZeroSector]

Init ==
    /\ fs = Quiet(filesys_init(Blank, TRUE))
    /\ files = [h \in Handles |-> NoFile]
    /\ scratch = ScratchArchive
    /\ position = [extract |-> 0, append |-> 0]
    /\ contents = [x \in FsSectors |-> <<>>]
    /\ lost = {}
    /\ calls = 0 /\ crashes = 0 /\ utils = 0 /\ halted = FALSE

-----------------------------------------------------------------------------
(* The disk after the first n writes of the log.                           *)
DiskAfter(log, n) ==
    [x \in FsSectors |->
        LET w == {i \in 1..n : log[i].sector = x}
        IN  IF w = {} THEN fs.disk[x] ELSE log[Max(w)].data]

(* The machine stops after n sectors of the call's log and starts again.   *)
(* The files that the call was about, here target, may have any contents.  *)
CrashDuring(log, target) ==
    /\ crashes < MaxCrashes
    /\ crashes' = crashes + 1
    /\ \E n \in 0..Len(log) :
           \E s \in {Quiet(filesys_init(DiskAfter(log, n), FALSE))} :
               /\ fs' = s
               /\ contents' = Existing(s, [x \in FsSectors |->
                      IF x \in target \cap Listed(s.disk) THEN FileCells(s.disk, x) ELSE contents[x]])
               /\ lost' = Orphans(s)
    /\ files' = [h \in Handles |-> NoFile]
    /\ position' = [extract |-> 0, append |-> 0]
    /\ UNCHANGED <<scratch, utils, halted>>

(* The call completes, and leaves the file system in state s, with these   *)
(* cells in the files.                                                     *)
Completes(s, cells) ==
    /\ fs' = Quiet(s)
    /\ contents' = Existing(s, cells)
    /\ UNCHANGED <<scratch, position, crashes, utils, halted>>

Start(failing) == [fs EXCEPT !.failing = failing]

Create(name, size) ==
    \E r \in {filesys_create(Start(failing), name, size) : failing \in Failing} :
        LET new == {e.inode_sector : e \in {e \in Listing(r.s.disk) : e.name = name}}
        IN  \/ /\ Completes(r.s, [x \in FsSectors |->
                      IF r.ok /\ x \in new THEN Zeros(size) ELSE contents[x]])
               /\ lost' = IF r.ok THEN lost ELSE Orphans(r.s)
               /\ UNCHANGED files
            \/ CrashDuring(r.s.log, new)

Remove(name) ==
    \E r \in {fsutil_rm(Start(failing), name) : failing \in Failing} :
        \/ Completes(r.s, contents) /\ UNCHANGED <<files, lost>>
        \/ CrashDuring(r.s.log, {})

Open(h, name) ==
    /\ files[h] = NoFile
    /\ \E r \in {filesys_open(Start(failing), name) : failing \in Failing} :
           Completes(r.s, contents) /\ files' = [files EXCEPT ![h] = r.file]
    /\ UNCHANGED lost

Reopen(h, g) ==
    /\ files[h] = NoFile /\ files[g] # NoFile
    /\ \E r \in {file_reopen(Start(failing), files[g]) : failing \in Failing} :
           Completes(r.s, contents) /\ files' = [files EXCEPT ![h] = r.file]
    /\ UNCHANGED lost

Close(h) ==
    /\ files[h] # NoFile
    /\ \E s \in {file_close(fs, files[h])} :
           \/ Completes(s, contents) /\ files' = [files EXCEPT ![h] = NoFile] /\ UNCHANGED lost
           \/ CrashDuring(s.log, {})

(* cnt cells are written at the position of the file, as far as it goes.   *)
Write(h, cnt) ==
    /\ files[h] # NoFile
    /\ \E r \in {file_write(Start(failing), files[h], [i \in 1..cnt |-> Byte(1)]) : failing \in Failing} :
           LET f == files[h]
           IN  \/ /\ Completes(r.s, [contents EXCEPT ![f.inode] = [i \in DOMAIN @ |->
                         IF i \in f.pos + 1 .. f.pos + r.written THEN Byte(1) ELSE @[i]]])
                  /\ files' = [files EXCEPT ![h] = r.file]
                  /\ UNCHANGED lost
               \/ CrashDuring(r.s.log, {f.inode})

Seek(h, pos) ==
    /\ files[h] # NoFile
    /\ files' = [files EXCEPT ![h].pos = pos]
    /\ UNCHANGED <<fs, scratch, position, contents, lost, crashes, utils, halted>>

DenyWrite(h) ==
    /\ files[h] # NoFile
    /\ \E r \in {file_deny_write(fs, files[h]), file_allow_write(fs, files[h])} :
           Completes(r.s, contents) /\ files' = [files EXCEPT ![h] = r.file]
    /\ UNCHANGED lost

(* fsutil_extract and fsutil_append, the actions of the command line, when *)
(* no other program has a file open; a panic ends the run of the kernel.   *)
Extract ==
    /\ utils < MaxUtil
    /\ \A h \in Handles : files[h] = NoFile
    /\ \E r \in {fsutil_extract(fs, scratch, position.extract)} :
       LET new == Listed(r.s.disk) \ Listed(fs.disk)
       IN  \/ /\ r.ok
              /\ fs' = Quiet(r.s)
              /\ scratch' = r.scratch
              /\ position' = [position EXCEPT !.extract = r.sector]
              /\ contents' = Existing(r.s, [x \in FsSectors |->
                     IF x \in new
                     THEN Archived(CHOOSE p \in DOMAIN scratch : \E e \in Listing(r.s.disk) :
                                       e.inode_sector = x /\ e.name = scratch[p].name)
                     ELSE contents[x]])
              /\ utils' = utils + 1
              /\ UNCHANGED <<files, lost, crashes, halted>>
           \/ CrashDuring(r.s.log, new)
           \/ ~r.ok /\ halted' = TRUE
                    /\ UNCHANGED <<fs, files, scratch, position, contents, lost, crashes, utils>>

Archive(name) ==
    /\ utils < MaxUtil
    /\ \A h \in Handles : files[h] = NoFile
    /\ \E r \in {fsutil_append(fs, name, scratch, position.append, tail) : tail \in {0, 1}} :
               /\ fs' = IF r.ok THEN Quiet(r.s) ELSE fs
               /\ scratch' = r.scratch
               /\ position' = [position EXCEPT !.append = r.sector]
               /\ halted' = ~r.ok
    /\ utils' = utils + 1
    /\ UNCHANGED <<files, contents, lost, crashes>>

(* The machine is shut down and started again.  A removed file that is     *)
(* still open then keeps its sectors for ever.                             *)
Restart ==
    /\ \E s \in {filesys_init(filesys_done(fs).disk, FALSE)} :
        /\ fs' = Quiet(s)
        /\ contents' = Existing(s, contents)
        /\ lost' = IF \A h \in Handles : files[h] = NoFile THEN lost ELSE Orphans(s)
    /\ files' = [h \in Handles |-> NoFile]
    /\ position' = [extract |-> 0, append |-> 0]
    /\ UNCHANGED <<scratch, crashes, utils, halted>>

Next ==
    /\ ~halted
    /\ calls < MaxCalls /\ calls' = calls + 1
    /\ \/ \E name \in Names : \/ \E size \in Sizes : Create(name, size)
                              \/ Remove(name) \/ Archive(name)
                              \/ \E h \in Handles : Open(h, name)
       \/ \E h \in Handles : \/ Close(h) \/ DenyWrite(h)
                             \/ \E g \in Handles : Reopen(h, g)
                             \/ \E n \in WriteSizes : Write(h, n)
                             \/ \E pos \in Positions : Seek(h, pos)
       \/ Extract \/ Restart

Spec == Init /\ [][Next]_vars

-----------------------------------------------------------------------------
(* No call fails an ASSERT or panics: a sector is released only when it is *)
(* marked, and writes are allowed again only by who denied them            *)
(* (free_map_release, inode_allow_write), also after a crash.              *)
NoPanic == ~fs.panic

(* Whatever a crash interrupts, the disk is sound: the names are distinct, *)
(* no sector belongs to two files, and each one in use is marked in the    *)
(* free map's file, so that it will not be given out again (the order of   *)
(* the writes in filesys_create and dir_remove).                           *)
DiskSound ==
    LET used == {FREE_MAP_SECTOR, ROOT_DIR_SECTOR} \cup Listed(fs.disk)
        map  == [fs.free_map EXCEPT !.bits = [i \in DOMAIN @ |-> FileCells(fs.disk, FREE_MAP_SECTOR)[i + 1].byte]]
    IN  /\ \A d, e \in Listing(fs.disk) : d # e => d.name # e.name /\ d.inode_sector # e.inode_sector
        /\ \A x, y \in used : x # y => SectorsOf(fs.disk, x) \cap SectorsOf(fs.disk, y) = {}
        /\ \A x \in used : SectorsOf(fs.disk, x) \subseteq Marked(map)

(* A file has the cells that were last written to it, and zeros elsewhere, *)
(* also after it was removed while open and after a crash in another call  *)
(* (inode_write_at merges partial sectors, inode_create zeroes, inode_close*)
(* releases only at the last close).                                       *)
FilesKeepData ==
    /\ \A x \in Listed(fs.disk) \cup {files[h].inode : h \in {h \in Handles : files[h] # NoFile}} :
           FileCells(fs.disk, x) = contents[x]
    /\ \A e \in Listing(fs.disk) :
           /\ fsutil_cat(fs, e.name, BLOCK_SECTOR_SIZE + 1) = contents[e.inode_sector]
           /\ \E i \in DOMAIN fsutil_ls(fs) : fsutil_ls(fs)[i] = e.name

(* An inode is shared by its openers: its counters are the numbers of open *)
(* files, and of those that deny writes, and its copy of the inode on the  *)
(* disk is not stale (inode_open, inode_close, file_close).                *)
InodesCounted ==
    \A x \in FsSectors :
        LET openers == {h \in Handles : files[h] # NoFile /\ files[h].inode = x}
        IN  /\ fs.inodes[x].open_cnt = Cardinality(openers) + (IF x = FREE_MAP_SECTOR THEN 1 ELSE 0)
            /\ fs.inodes[x].deny_write_cnt = Cardinality({h \in openers : files[h].deny_write})
            /\ fs.inodes[x].open_cnt > 0 => fs.inodes[x].data = InodeData(fs.disk[x])

(* Only a crash and a create that fails late cost sectors: otherwise every *)
(* marked sector is one of the file system, of a file in the directory or  *)
(* of an open file (free_map_release in inode_close and filesys_create).   *)
SectorsAccounted == Orphans(fs) = lost

(* Accounted: after any calls, failures and crashes no ASSERT fails, the   *)
(* counters of open inodes are right and no sector is lost.                *)
Accounted == NoPanic /\ InodesCounted /\ SectorsAccounted

(* What fsutil_append puts on the scratch device is the file: its header,  *)
(* its cells, and zeros up to the end of the sector.                       *)
ArchiveHoldsFile ==
    [][\A name \in Names :
          position'.append > position.append /\ scratch'[position.append].name = name =>
              LET x == CHOOSE x \in Listed(fs.disk) : \E e \in Listing(fs.disk) :
                           e.name = name /\ e.inode_sector = x
                  f == FileCells(fs.disk, x)
                  cell(i) == scratch'[position.append + 1 + (i - 1) \div BLOCK_SECTOR_SIZE]
                                 .cells[((i - 1) % BLOCK_SECTOR_SIZE) + 1]
              IN  /\ scratch'[position.append].size = Len(f)
                  /\ \A i \in 1..(bytes_to_sectors(Len(f)) * BLOCK_SECTOR_SIZE) :
                         cell(i) = IF i <= Len(f) THEN f[i] ELSE ZeroCell]_vars
=============================================================================
