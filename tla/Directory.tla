----------------------------- MODULE Directory ------------------------------
(***************************************************************************)
(* Directories and open files (filesys/directory.c, filesys/file.c) and    *)
(* the operations on the root directory (filesys/filesys.c).  An open file *)
(* is a record of its inode's sector, its position and its deny_write.     *)
(***************************************************************************)
EXTENDS Inode

CONSTANTS RootEntries,   \* entries of the root directory, 16 in do_format
          LongName       \* a name longer than NAME_MAX

Entry(name, sector, in_use) ==
    [ZeroCell EXCEPT !.name = name, !.inode_sector = sector, !.in_use = in_use]

-----------------------------------------------------------------------------
(* The entry of the directory at offset ofs, or a short read.              *)
ReadEntry(s, dir, ofs) == inode_read_at(s, dir, 1, ofs)

(* The loops of lookup and of dir_add from ofs on: they end at the entry   *)
(* with the name, at a free entry if name is NULL, or at a short read.     *)
RECURSIVE FindEntry(_, _, _, _)
FindEntry(s, dir, name, ofs) ==
    LET e == ReadEntry(s, dir, ofs)
    IN  IF \/ e = <<>>
           \/ e[1].in_use = (name # NULL) /\ (name # NULL => e[1].name = name)
        THEN ofs ELSE FindEntry(s, dir, name, ofs + 1)

(* The offset of the entry for the name, or NULL.                          *)
lookup(s, dir, name) ==
    LET ofs == FindEntry(s, dir, name, 0)
    IN  IF ReadEntry(s, dir, ofs) = <<>> THEN NULL ELSE ofs

dir_create(s, sector, entry_cnt) == inode_create(s, sector, entry_cnt)

(* dir_open takes over the inode that inode_open opened.                   *)
dir_open_root(s) ==
    LET r == inode_open(s, ROOT_DIR_SECTOR)
    IN  IF ~r.ok THEN r
        ELSE IF s.failing = "dir" THEN [s |-> inode_close(r.s, ROOT_DIR_SECTOR), ok |-> FALSE]
        ELSE r

dir_close(s, dir) == inode_close(s, dir)

(* On success, the sector of the file's inode, which is open then.         *)
dir_lookup(s, dir, name) ==
    LET ofs == lookup(s, dir, name)
        sector == ReadEntry(s, dir, ofs)[1].inode_sector
        r == inode_open(s, sector)
    IN  IF ofs = NULL THEN [s |-> s, inode |-> NULL]
        ELSE [s |-> r.s, inode |-> IF r.ok THEN sector ELSE NULL]

(* Mutant: the name may be in use.                                         *)
AddUnchecked(s, dir, name, sector) ==
    LET ofs == FindEntry(s, dir, NULL, 0)
    IN  Written(inode_write_at(s, dir, <<Entry(name, sector, TRUE)>>, ofs), 1)

dir_add(s, dir, name, sector) ==
    LET ofs == FindEntry(s, dir, NULL, 0)
    IN  IF name = LongName \/ lookup(s, dir, name) # NULL THEN [s |-> s, ok |-> FALSE]
        ELSE Written(inode_write_at(s, dir, <<Entry(name, sector, TRUE)>>, ofs), 1)

(* The inode is removed when w, the write that erases the entry, succeeds. *)
RemoveInode(w, sector) ==
    [w EXCEPT !.s = inode_close(IF w.ok THEN inode_remove(w.s, sector) ELSE w.s, sector)]

dir_remove(s, dir, name) ==
    LET ofs == lookup(s, dir, name)
        sector == ReadEntry(s, dir, ofs)[1].inode_sector
        r == inode_open(s, sector)
    IN  IF ofs = NULL \/ ~r.ok THEN [s |-> s, ok |-> FALSE]
        ELSE RemoveInode(Written(inode_write_at(r.s, dir, <<Entry(name, sector, FALSE)>>, ofs), 1),
                         sector)

(* The names that repeated calls of dir_readdir return, from position pos. *)
RECURSIVE dir_readdir(_, _, _)
dir_readdir(s, dir, pos) ==
    LET e == ReadEntry(s, dir, pos)
    IN  IF e = <<>> THEN <<>>
        ELSE (IF e[1].in_use THEN <<e[1].name>> ELSE <<>>) \o dir_readdir(s, dir, pos + 1)

-----------------------------------------------------------------------------
NoFile == [inode |-> NULL, pos |-> 0, deny_write |-> FALSE]

(* file_open takes over the inode that is open.                            *)
file_open(s, inode) ==
    IF inode = NULL THEN [s |-> s, file |-> NoFile]
    ELSE IF s.failing = "file" THEN [s |-> inode_close(s, inode), file |-> NoFile]
    ELSE [s |-> s, file |-> [NoFile EXCEPT !.inode = inode]]

file_reopen(s, file) == file_open(inode_reopen(s, file.inode), file.inode)

file_read(s, file, size) ==
    LET cells == inode_read_at(s, file.inode, size, file.pos)
    IN  [cells |-> cells, file |-> [file EXCEPT !.pos = @ + Len(cells)]]

file_write(s, file, cells) ==
    LET r == inode_write_at(s, file.inode, cells, file.pos)
    IN  [s |-> r.s, file |-> [file EXCEPT !.pos = @ + r.written], written |-> r.written]

file_deny_write(s, file) ==
    IF file.deny_write THEN [s |-> s, file |-> file]
    ELSE [s |-> inode_deny_write(s, file.inode), file |-> [file EXCEPT !.deny_write = TRUE]]

file_allow_write(s, file) ==
    IF ~file.deny_write THEN [s |-> s, file |-> file]
    ELSE [s |-> inode_allow_write(s, file.inode), file |-> [file EXCEPT !.deny_write = FALSE]]

file_close(s, file) == inode_close(file_allow_write(s, file).s, file.inode)

-----------------------------------------------------------------------------
free_map_open(s) ==
    LET r == inode_open(s, FREE_MAP_SECTOR)
        cells == inode_read_at(r.s, FREE_MAP_SECTOR, elem_cnt(Sectors), 0)
    IN  IF ~r.ok \/ Len(cells) # elem_cnt(Sectors) THEN [r.s EXCEPT !.panic = TRUE]
        ELSE [r.s EXCEPT !.mapped = TRUE,
                 !.free_map = bitmap_read(@, [i \in DOMAIN s.free_map.bits |-> cells[i + 1].byte])]

(* The kernel panics when r, the result of a call, is a failure.           *)
OrPanic(r) == [r.s EXCEPT !.panic = @ \/ ~r.ok]

free_map_create(s) ==
    LET c == OrPanic(inode_create(s, FREE_MAP_SECTOR, elem_cnt(Sectors)))
        o == OrPanic(inode_open(c, FREE_MAP_SECTOR))
    IN  OrPanic(write_free_map([o EXCEPT !.mapped = TRUE]))

free_map_close(s) == inode_close(s, FREE_MAP_SECTOR)

do_format(s) ==
    free_map_close(OrPanic(dir_create(free_map_create(s), ROOT_DIR_SECTOR, RootEntries)))

(* The file system after filesys_init, on a device with these sectors.     *)
filesys_init(disk, format) ==
    LET s == [disk |-> disk, log |-> <<>>, free_map |-> free_map_init, mapped |-> FALSE,
              inodes |-> [n \in 0..(Sectors - 1) |-> NoInode], failing |-> "none", panic |-> FALSE]
    IN  free_map_open(IF format THEN do_format(s) ELSE s)

filesys_done(s) == free_map_close(s)

CloseRoot(r) == [r EXCEPT !.s = dir_close(@, ROOT_DIR_SECTOR)]

(* The && of filesys_create: a is the result of free_map_allocate, c that  *)
(* of inode_create.  A failure behind the first call releases the sector   *)
(* of the inode, and no other.                                             *)
AddEntry(c, name, sector) == IF c.ok THEN dir_add(c.s, ROOT_DIR_SECTOR, name, sector) ELSE c

Undo(r, sector) == IF r.ok THEN r ELSE [r EXCEPT !.s = free_map_release(@, sector, 1)]

CreateInode(a, name, initial_size) ==
    IF ~a.ok THEN a
    ELSE Undo(AddEntry(inode_create(a.s, a.sector, initial_size), name, a.sector), a.sector)

filesys_create(s, name, initial_size) ==
    LET d == dir_open_root(s)
    IN  IF ~d.ok THEN d ELSE CloseRoot(CreateInode(free_map_allocate(d.s, 1), name, initial_size))

filesys_open(s, name) ==
    LET d == dir_open_root(s)
        l == dir_lookup(d.s, ROOT_DIR_SECTOR, name)
    IN  IF ~d.ok THEN [s |-> d.s, file |-> NoFile]
        ELSE file_open(dir_close(l.s, ROOT_DIR_SECTOR), l.inode)

filesys_remove(s, name) ==
    LET d == dir_open_root(s)
    IN  IF ~d.ok THEN d ELSE CloseRoot(dir_remove(d.s, ROOT_DIR_SECTOR, name))
=============================================================================
