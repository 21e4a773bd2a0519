------------------------------- MODULE Fsutil -------------------------------
(***************************************************************************)
(* The kernel's file utilities (filesys/fsutil.c) and the archive format   *)
(* of the scratch device (lib/ustar.c).  A sector of that device is a      *)
(* header with a name and a size, a piece of a file, or zeros; the field   *)
(* tail stands for its last byte.  An extraction or an append either       *)
(* succeeds or panics; then the call has no result.                        *)
(***************************************************************************)
EXTENDS Directory

ZeroBlock == [name |-> NULL, size |-> 0, cells |-> Zeros(BLOCK_SECTOR_SIZE), tail |-> 0]

ustar_make_header(name, size) == [ZeroBlock EXCEPT !.name = name, !.size = size]

(* ustar_parse_header: the end of the archive is a sector of zeros, and    *)
(* what is neither that nor a header is an error.                          *)
ustar_parse_header(block) ==
    IF block = ZeroBlock THEN "USTAR_EOF"
    ELSE IF block.name # NULL THEN "USTAR_REGULAR" ELSE "error"

(* What fsutil_ls and fsutil_cat print.                                    *)
fsutil_ls(s) ==
    LET d == dir_open_root(s) IN dir_readdir(d.s, ROOT_DIR_SECTOR, 0)

(* The loop of fsutil_cat, which reads up to a page at a time.             *)
RECURSIVE CatFile(_, _, _)
CatFile(s, file, page) ==
    LET r == file_read(s, file, page)
    IN  IF r.cells = <<>> THEN <<>> ELSE r.cells \o CatFile(s, r.file, page)

fsutil_cat(s, name, page) ==
    LET o == filesys_open(s, name) IN CatFile(o.s, o.file, page)

fsutil_rm(s, name) == filesys_remove(s, name)

-----------------------------------------------------------------------------
(* The loop that copies a file out of the archive: size cells are left     *)
(* from the sector on.                                                     *)
RECURSIVE CopyIn(_, _, _, _, _)
CopyIn(s, file, scratch, sector, size) ==
    LET chunk == SubSeq(scratch[sector].cells, 1, Min({BLOCK_SECTOR_SIZE, size}))
        w == file_write(s, file, chunk)
    IN  IF size <= 0 THEN [s |-> file_close(s, file), ok |-> TRUE]
        ELSE IF w.written # Len(chunk) THEN [s |-> w.s, ok |-> FALSE]
        ELSE CopyIn(w.s, w.file, scratch, sector + 1, size - Len(chunk))

(* The file whose header is in the sector is opened, copied sector by      *)
(* sector and closed, when c, the result of filesys_create, is a success.  *)
ExtractFile(c, scratch, sector) ==
    LET h == scratch[sector]
        o == filesys_open(c.s, h.name)
    IN  IF ~c.ok \/ o.file = NoFile THEN [s |-> c.s, ok |-> FALSE]
        ELSE CopyIn(o.s, o.file, scratch, sector + 1, h.size)

(* The loop of fsutil_extract from the sector on: past the end of the      *)
(* device, at a block that is no header, or when r, the last file, failed, *)
(* the kernel panics.                                                      *)
RECURSIVE ExtractFrom(_, _, _)
ExtractFrom(r, scratch, sector) ==
    LET h == scratch[sector]
    IN  IF ~r.ok \/ sector \notin DOMAIN scratch \/ ustar_parse_header(h) = "error"
        THEN [s |-> r.s, sector |-> sector, ok |-> FALSE]
        ELSE IF ustar_parse_header(h) = "USTAR_EOF"
        THEN [s |-> r.s, sector |-> sector + 1, ok |-> TRUE]
        ELSE ExtractFrom(ExtractFile(filesys_create(r.s, h.name, h.size), scratch, sector),
                         scratch, sector + 1 + bytes_to_sectors(h.size))

(* At last the two blocks at the start of the device are erased.           *)
Erased(r, scratch) ==
    [s |-> r.s, sector |-> r.sector, ok |-> r.ok,
     scratch |-> [i \in DOMAIN scratch |-> IF i \in {0, 1} THEN ZeroBlock ELSE scratch[i]]]

fsutil_extract(s, scratch, sector) ==
    Erased(ExtractFrom([s |-> s, ok |-> TRUE], scratch, sector), scratch)

(* Mutant: the rest of the last sector is not cleared.                     *)
BlockUncleared(cells, old) ==
    [ZeroBlock EXCEPT !.cells = [k \in 1..BLOCK_SECTOR_SIZE |->
        IF k <= Len(cells) THEN cells[k] ELSE old[k]]]

(* A chunk of the file in the buffer, which held old before.               *)
Block(cells, old) ==
    [ZeroBlock EXCEPT !.cells = [k \in 1..BLOCK_SECTOR_SIZE |->
        IF k <= Len(cells) THEN cells[k] ELSE ZeroCell]]

(* The scratch device after fsutil_append opened a file, as o tells: it    *)
(* gets the header, the sectors of the file and the end of the archive.    *)
(* The second zero block is written to the same sector from buffer + 1,    *)
(* and so ends in the byte after the buffer, tail.  Writing past the end   *)
(* of the device panics.                                                   *)
AppendFile(o, name, scratch, sector, tail) ==
    LET size == o.s.inodes[o.file.inode].data.length
        cnt == bytes_to_sectors(size)
        copy[i \in 0..cnt] ==
            IF i = 0 THEN [file |-> o.file, block |-> ustar_make_header(name, size)]
            ELSE LET r == file_read(o.s, copy[i - 1].file, BLOCK_SECTOR_SIZE)
                 IN  [file |-> r.file, block |-> Block(r.cells, copy[i - 1].block.cells)]
        end == sector + 1 + cnt
    IN  IF o.file = NoFile \/ end \notin DOMAIN scratch
        THEN [s |-> o.s, ok |-> FALSE, scratch |-> scratch, sector |-> sector]
        ELSE [s |-> file_close(o.s, o.file), ok |-> TRUE, sector |-> end,
              scratch |-> [i \in DOMAIN scratch |->
                  IF i \in sector..(end - 1) THEN copy[i - sector].block
                  ELSE IF i = end THEN [ZeroBlock EXCEPT !.tail = tail]
                  ELSE scratch[i]]]

fsutil_append(s, name, scratch, sector, tail) ==
    AppendFile(filesys_open(s, name), name, scratch, sector, tail)
=============================================================================
