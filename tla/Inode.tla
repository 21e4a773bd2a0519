------------------------------- MODULE Inode --------------------------------
(***************************************************************************)
(* Inodes and the free map (filesys/inode.c, filesys/free-map.c).          *)
(* The state of the file system is one record s:                           *)
(*   disk       the sectors of fs_device                                   *)
(*   log        the block_writes of the current call, in order             *)
(*   free_map   the free map in memory                                     *)
(*   mapped     free_map_file is not null                                  *)
(*   inodes     open_inodes: the open inodes by sector                     *)
(*   failing    the allocation that fails during the call, or "none"       *)
(*   panic      an ASSERT failed or the kernel panicked                    *)
(* A function of the code is an operator from s to s, or to a record of s  *)
(* and the result.  A sector holds an inode_disk or BLOCK_SECTOR_SIZE      *)
(* cells; a cell is a byte of a file, an element of the free map's file or *)
(* an entry of the directory, and the sizes count cells.                   *)
(***************************************************************************)
EXTENDS Bitmap, Sequences, FiniteSetsExt

CONSTANTS NULL, BLOCK_SECTOR_SIZE,
          Sectors    \* sectors of the device: block_size (fs_device)

ASSUME InodeAssumption == BLOCK_SECTOR_SIZE \in Nat \ {0} /\ Sectors \in Nat

FREE_MAP_SECTOR == 0

ROOT_DIR_SECTOR == 1

ZeroCell == [byte |-> 0, name |-> NULL, inode_sector |-> 0, in_use |-> FALSE]

Byte(n) == [ZeroCell EXCEPT !.byte = n]

Zeros(cnt) == [i \in 1..cnt |-> ZeroCell]

Data(cells) == [start |-> 0, length |-> 0, cells |-> cells]

ZeroSector == Data(Zeros(BLOCK_SECTOR_SIZE))

block_write(s, sector, data) ==
    [s EXCEPT !.disk[sector] = data, !.log = Append(@, [sector |-> sector, data |-> data])]

(* struct inode_disk in a sector.                                          *)
InodeData(sector) == [start |-> sector.start, length |-> sector.length]

bytes_to_sectors(size) == DIV_ROUND_UP(size, BLOCK_SECTOR_SIZE)

-----------------------------------------------------------------------------
(* The cells of the next chunk of a transfer: as far as the request, the   *)
(* inode and the sector reach.                                             *)
ChunkSize(inode, size, offset) ==
    Min({size, inode.data.length - offset, BLOCK_SECTOR_SIZE - (offset % BLOCK_SECTOR_SIZE)})

(* A transfer ends when nothing is left of it, or when a chunk of less     *)
(* than a sector finds no memory for the bounce buffer.                    *)
Ends(s, chunk_size) ==
    chunk_size <= 0 \/ (chunk_size < BLOCK_SECTOR_SIZE /\ s.failing = "bounce")

byte_to_sector(inode, pos) ==
    IF pos < inode.data.length THEN inode.data.start + pos \div BLOCK_SECTOR_SIZE ELSE -1

(* The cells that inode_read_at reads, chunk by chunk.                     *)
RECURSIVE inode_read_at(_, _, _, _)
inode_read_at(s, sector, size, offset) ==
    LET inode == s.inodes[sector]
        chunk_size == ChunkSize(inode, size, offset)
        ofs == offset % BLOCK_SECTOR_SIZE
    IN  IF Ends(s, chunk_size) THEN <<>>
        ELSE SubSeq(s.disk[byte_to_sector(inode, offset)].cells, ofs + 1, ofs + chunk_size)
             \o inode_read_at(s, sector, size - chunk_size, offset + chunk_size)

(* The cells old of a sector once new cells were copied in behind ofs.     *)
Merged(old, ofs, new) ==
    [k \in 1..BLOCK_SECTOR_SIZE |-> IF k - ofs \in DOMAIN new THEN new[k - ofs] ELSE old[k]]

(* The loop of inode_write_at, with written cells behind it: one           *)
(* block_write for each chunk.                                             *)
RECURSIVE WriteChunks(_, _, _, _, _)
WriteChunks(s, inode, cells, offset, written) ==
    LET pos == offset + written
        chunk_size == ChunkSize(inode, Len(cells) - written, pos)
        sector_idx == byte_to_sector(inode, pos)
        chunk == SubSeq(cells, written + 1, written + chunk_size)
    IN  IF Ends(s, chunk_size) THEN [s |-> s, written |-> written]
        ELSE WriteChunks(block_write(s, sector_idx, Data(Merged(s.disk[sector_idx].cells,
                                                                pos % BLOCK_SECTOR_SIZE, chunk))),
                         inode, cells, offset, written + chunk_size)

(* The number of cells written is 0 while writes are denied.               *)
inode_write_at(s, sector, cells, offset) ==
    IF s.inodes[sector].deny_write_cnt > 0 THEN [s |-> s, written |-> 0]
    ELSE WriteChunks(s, s.inodes[sector], cells, offset, 0)

(* A call succeeds if r, a write of cnt cells, wrote them all.             *)
Written(r, cnt) == [s |-> r.s, ok |-> r.written = cnt]

-----------------------------------------------------------------------------
(* bitmap_write of the free map to its file.                               *)
write_free_map(s) ==
    LET cnt == elem_cnt(Sectors)
    IN  Written(inode_write_at(s, FREE_MAP_SECTOR,
                               [i \in 1..cnt |-> Byte(bitmap_write(s.free_map)[i - 1])], 0), cnt)

free_map_init == bitmap_set_multiple(
    bitmap_create([bit_cnt |-> Sectors, bits |-> [i \in 0..(elem_cnt(Sectors) - 1) |-> 0]]),
    FREE_MAP_SECTOR, 2, TRUE)

(* The result is 0 when no group of sectors was found or written.          *)
free_map_allocate(s, cnt) ==
    LET sector == bitmap_scan(s.free_map, 0, cnt, FALSE)
        marked == [s EXCEPT !.free_map = bitmap_scan_and_flip(@, 0, cnt, FALSE)]
        r      == write_free_map(marked)
    IN  IF sector = BITMAP_ERROR THEN [s |-> s, ok |-> FALSE, sector |-> 0]
        ELSE IF ~s.mapped THEN [s |-> marked, ok |-> TRUE, sector |-> sector]
        ELSE IF r.ok THEN [s |-> r.s, ok |-> TRUE, sector |-> sector]
        ELSE [s |-> [r.s EXCEPT !.free_map = bitmap_set_multiple(@, sector, cnt, FALSE)],
              ok |-> FALSE, sector |-> 0]

free_map_release(s, sector, cnt) ==
    write_free_map([s EXCEPT !.panic = @ \/ ~bitmap_all(s.free_map, sector, cnt),
                             !.free_map = bitmap_set_multiple(@, sector, cnt, FALSE)]).s

-----------------------------------------------------------------------------
(* The inode is written first, and then its sectors are zeroed.            *)
inode_create(s, sector, length) ==
    LET cnt == bytes_to_sectors(length)
        a   == free_map_allocate(s, cnt)
        zeroed[i \in 0..cnt] ==
            IF i = 0
            THEN block_write(a.s, sector, [ZeroSector EXCEPT !.start = a.sector, !.length = length])
            ELSE block_write(zeroed[i - 1], a.sector + i - 1, ZeroSector)
    IN  IF s.failing = "disk_inode" THEN [s |-> s, ok |-> FALSE]
        ELSE IF ~a.ok THEN [s |-> a.s, ok |-> FALSE]
        ELSE [s |-> zeroed[cnt], ok |-> TRUE]

inode_reopen(s, sector) == [s EXCEPT !.inodes[sector].open_cnt = @ + 1]

inode_open(s, sector) ==
    IF s.inodes[sector].open_cnt > 0 THEN [s |-> inode_reopen(s, sector), ok |-> TRUE]
    ELSE IF s.failing = "inode" THEN [s |-> s, ok |-> FALSE]
    ELSE [s |-> [s EXCEPT !.inodes[sector] =
                     [open_cnt |-> 1, removed |-> FALSE, deny_write_cnt |-> 0,
                      data |-> InodeData(s.disk[sector])]],
          ok |-> TRUE]

(* No inode is open for the sector.                                        *)
NoInode == [open_cnt |-> 0, removed |-> FALSE, deny_write_cnt |-> 0, data |-> InodeData(ZeroSector)]

(* Mutant: the sectors of a removed file are released at once.             *)
CloseReleases(s, sector) ==
    LET inode == s.inodes[sector]
        closed == [s EXCEPT !.inodes[sector] =
                      IF @.open_cnt = 1 THEN NoInode ELSE [@ EXCEPT !.open_cnt = @ - 1, !.removed = FALSE]]
    IN  IF inode.removed
        THEN free_map_release(free_map_release(closed, sector, 1),
                              inode.data.start, bytes_to_sectors(inode.data.length))
        ELSE closed

(* Mutant: only the sector of the inode itself is released.                *)
CloseInodeOnly(s, sector) ==
    LET inode  == s.inodes[sector]
        closed == [s EXCEPT !.inodes[sector] = NoInode]
    IN  IF inode.open_cnt > 1 THEN [s EXCEPT !.inodes[sector].open_cnt = @ - 1]
        ELSE IF inode.removed THEN free_map_release(closed, sector, 1)
        ELSE closed

inode_close(s, sector) ==
    LET inode  == s.inodes[sector]
        closed == [s EXCEPT !.inodes[sector] = NoInode]
    IN  IF inode.open_cnt > 1 THEN [s EXCEPT !.inodes[sector].open_cnt = @ - 1]
        ELSE IF inode.removed
        THEN free_map_release(free_map_release(closed, sector, 1),
                              inode.data.start, bytes_to_sectors(inode.data.length))
        ELSE closed

inode_remove(s, sector) == [s EXCEPT !.inodes[sector].removed = TRUE]

inode_deny_write(s, sector) ==
    [s EXCEPT !.inodes[sector].deny_write_cnt = @ + 1,
              !.panic = @ \/ s.inodes[sector].deny_write_cnt + 1 > s.inodes[sector].open_cnt]

inode_allow_write(s, sector) ==
    [s EXCEPT !.inodes[sector].deny_write_cnt = @ - 1,
              !.panic = @ \/ s.inodes[sector].deny_write_cnt = 0
                          \/ s.inodes[sector].deny_write_cnt > s.inodes[sector].open_cnt]
=============================================================================
