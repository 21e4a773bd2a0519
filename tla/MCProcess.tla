----------------------------- MODULE MCProcess ------------------------------
(***************************************************************************)
(* Three programs, in pages of four bytes: one whose segment starts and    *)
(* ends inside a page, one that is too short for its header, and one       *)
(* whose name overwrites cs.                                               *)
(***************************************************************************)
EXTENDS Process, TLC

Load(offset, vaddr, filesz, memsz, writable) ==
    [type |-> "PT_LOAD", offset |-> offset, vaddr |-> vaddr, filesz |-> filesz,
     memsz |-> memsz, writable |-> writable]

MCFiles ==
    "echo" :> [name_bytes |-> 5, elf |-> TRUE, length |-> 12,
               phdrs |-> <<Load(5, 5, 4, 6, TRUE)>>]
    @@ "short" :> [name_bytes |-> 6, elf |-> TRUE, length |-> 6, phdrs |-> <<Load(4, 4, 4, 4, FALSE)>>]
    @@ "ls" :> [name_bytes |-> 3, elf |-> TRUE, length |-> 8, 
               phdrs |-> <<[Load(0, 4, 1, 1, FALSE) EXCEPT !.type = "PT_NOTE"]>>]

MCCommands ==
    {[file |-> "echo", tokens |-> 1, read_only |-> FALSE],
     [file |-> "echo", tokens |-> 2, read_only |-> TRUE],
     [file |-> "short", tokens |-> 1, read_only |-> FALSE],
     [file |-> "ls", tokens |-> 2, read_only |-> FALSE]}
=============================================================================
