------------------------------- MODULE Malloc -------------------------------
(***************************************************************************)
(* The block allocator (threads/malloc.c) on top of the page allocator.    *)
(* A block is the page and the offset at which it starts.  An arena's      *)
(* header is at offset 0 of its page, the blocks follow.  What a thread    *)
(* does to a free list between lock_acquire and lock_release of its        *)
(* descriptor is one step, except for the calls of the page allocator.     *)
(***************************************************************************)
EXTENDS Palloc, Sequences, SequencesExt

CONSTANTS FirstBlockSize,   \* 16 in malloc_init
          SIZE_BITS         \* the width of size_t

VARIABLES free_list,   \* of each descriptor, a sequence of blocks
          desc_lock,   \* the holder of each descriptor's lock
          mine         \* the blocks and groups of pages each thread owns

mallocVars == <<free_list, desc_lock, mine>>

ARENA == 12   \* sizeof (struct arena)

(* Descriptors are known by their block size: 16, 32, ... below PGSIZE/2.  *)
descs == {2 ^ n : n \in 0..11} \cap FirstBlockSize..(PGSIZE \div 2 - 1)

blocks_per_arena(d) == (PGSIZE - ARENA) \div d

arena_to_block(page, d, idx) == <<page, ARENA + idx * d>>

ArenaBlocks(page, d) == [i \in 1..blocks_per_arena(d) |-> arena_to_block(page, d, i - 1)]

(* The places told apart include the header and the blocks of every arena. *)
ASSUME MallocAssumption ==
    {0} \cup {b[2] : b \in UNION {ToSet(ArenaBlocks(0, d)) : d \in descs}} \subseteq Offsets

arena(page) == content[page][0]

(* The ASSERTs of block_to_arena.                                          *)
ValidArena(b) ==
    /\ arena(b[1]).magic = "ARENA_MAGIC"
    /\ IF arena(b[1]).desc = NULL THEN b[2] = ARENA
       ELSE (b[2] - ARENA) % arena(b[1]).desc = 0

size_t(n) == n % (2 ^ SIZE_BITS)

-----------------------------------------------------------------------------
malloc_init ==
    /\ free_list = [d \in descs |-> <<>>]
    /\ desc_lock = [d \in descs |-> NULL]
    /\ mine = [t \in Threads |-> {}]

Fits(size) == {d \in descs : d >= size}

(* t calls malloc(size); old is the block that realloc replaces.           *)
malloc(t, size, zero, old) ==
    /\ pc[t] = "run"
    /\ size # 0
    /\ LET d == IF Fits(size) = {} THEN NULL
                ELSE CHOOSE e \in Fits(size) : \A f \in Fits(size) : e <= f
           new == [desc |-> d, zero |-> FALSE, clear |-> zero, old |-> old]
       IN  IF d = NULL
           THEN Goto(t, "palloc_get_multiple", new @@
                    [pool |-> "kernel", ret |-> "big_block",
                     cnt |-> DIV_ROUND_UP(size_t(size + ARENA), PGSIZE)])
           ELSE Goto(t, "malloc", new)
    /\ UNCHANGED <<pallocVars, mallocVars, panic>>

(* What the caller of malloc leaves in a new block: its own name or, after *)
(* calloc, zeros; after realloc what the old block held.                   *)
Written(t, pages) ==
    IF loc[t].old # NULL THEN pages[loc[t].old[1]][loc[t].old[2]]
    ELSE IF loc[t].clear THEN "zero" ELSE t

(* Mutant: realloc forgets the old block.                                  *)
ReturnOnly(t, b, pages) ==
    /\ content' = IF b = NULL THEN pages ELSE [pages EXCEPT ![b[1]][b[2]] = Written(t, pages)]
    /\ mine' = [mine EXCEPT ![t] =
           (@ \ (IF b # NULL THEN {loc[t].old} ELSE {})) \cup ({b} \ {NULL})]
    /\ Goto(t, "run", <<>>)

(* malloc returns the block b, or NULL; pages is the memory at this point. *)
(* In realloc the free of the old block follows.                           *)
Return(t, b, pages) ==
    /\ content' = IF b = NULL THEN pages ELSE [pages EXCEPT ![b[1]][b[2]] = Written(t, pages)]
    /\ mine' = [mine EXCEPT ![t] =
           (@ \ (IF b # NULL THEN {loc[t].old} ELSE {})) \cup ({b} \ {NULL})]
    /\ Goto(t, IF b # NULL /\ loc[t].old # NULL THEN "free" ELSE "run", <<>>)

big_block(t) ==
    /\ pc[t] = "big_block"
    /\ LET page == loc[t].page
       IN  IF page = NULL THEN Return(t, NULL, content)
           ELSE Return(t, <<page, ARENA>>, [content EXCEPT ![page][0] =
                    [magic |-> "ARENA_MAGIC", desc |-> NULL, free_cnt |-> loc[t].cnt]])
    /\ UNCHANGED <<used_map, pool_lock, panic, free_list, desc_lock>>

(* list_pop_front of list, which is not empty, and the rest of malloc.     *)
Pop(t, list, pages) ==
    LET d == loc[t].desc
    IN  /\ free_list' = [free_list EXCEPT ![d] = Tail(list)]
        /\ Return(t, Head(list), [pages EXCEPT ![Head(list)[1]][0].free_cnt = @ - 1])

(* lock_acquire, and a block of the free list unless it is empty.          *)
TakeBlock(t) ==
    LET d == loc[t].desc
    IN  /\ pc[t] = "malloc"
        /\ desc_lock[d] = NULL
        /\ IF free_list[d] = <<>>
           THEN /\ desc_lock' = [desc_lock EXCEPT ![d] = t]
                /\ Goto(t, "palloc_get_multiple",
                        [pool |-> "kernel", cnt |-> 1, ret |-> "new_arena"])
                /\ UNCHANGED <<content, free_list, mine, panic>>
           ELSE /\ Pop(t, free_list[d], content)
                /\ panic' = (panic \/ ~ValidArena(Head(free_list[d])))
                /\ UNCHANGED desc_lock
        /\ UNCHANGED <<used_map, pool_lock>>

new_arena(t) ==
    LET d == loc[t].desc
        page == loc[t].page
    IN  /\ pc[t] = "new_arena"
        /\ desc_lock' = [desc_lock EXCEPT ![d] = NULL]
        /\ IF page = NULL THEN Return(t, NULL, content) /\ UNCHANGED free_list
           ELSE Pop(t, free_list[d] \o ArenaBlocks(page, d), [content EXCEPT ![page][0] =
                    [magic |-> "ARENA_MAGIC", desc |-> d, free_cnt |-> blocks_per_arena(d)]])
        /\ UNCHANGED <<used_map, pool_lock, panic>>

-----------------------------------------------------------------------------
(* calloc: the test is the one of the code, size < a || size < b.          *)
calloc_size(a, b) == IF size_t(a * b) < a \/ size_t(a * b) < b THEN NULL ELSE size_t(a * b)

calloc(t, a, b) == calloc_size(a, b) # NULL /\ malloc(t, calloc_size(a, b), TRUE, NULL)

(* realloc; with size 0 it is free.                                        *)
realloc(t, b, new_size) == b \in mine[t] /\ malloc(t, new_size, FALSE, b)

(* free(b) up to lock_acquire: the arena is read without the lock.         *)
StartFree(t, b) ==
    LET a == arena(b[1])
    IN  IF ~ValidArena(b)
        THEN panic' = TRUE /\ UNCHANGED <<content, loc, pc>>
        ELSE /\ IF a.desc # NULL
                THEN /\ content' = [content EXCEPT ![b[1]][b[2]] = "cc"]
                     /\ Goto(t, "give_block", [desc |-> a.desc, old |-> b])
                ELSE /\ Goto(t, "palloc_free_multiple",
                             [page |-> b[1], cnt |-> a.free_cnt, ret |-> "run"])
                     /\ UNCHANGED content
             /\ UNCHANGED panic

free(t, b) ==
    /\ pc[t] = "run"
    /\ b \in mine[t]
    /\ StartFree(t, b)
    /\ mine' = [mine EXCEPT ![t] = @ \ {b}]
    /\ UNCHANGED <<used_map, pool_lock, free_list, desc_lock>>

(* The end of realloc: the old block is no longer t's.                     *)
free_old(t) ==
    /\ pc[t] = "free"
    /\ StartFree(t, loc[t].old)
    /\ UNCHANGED <<used_map, pool_lock, mallocVars>>

(* Mutant: the arena is freed with one of its blocks in use.               *)
GiveBlockEarly(t) ==
    LET b == loc[t].old
        d == loc[t].desc
        list == <<b>> \o free_list[d]
    IN  /\ pc[t] = "give_block"
        /\ desc_lock[d] = NULL
        /\ content' = [content EXCEPT ![b[1]][0].free_cnt = @ + 1]
        /\ IF arena(b[1]).free_cnt + 2 >= blocks_per_arena(d)
           THEN /\ free_list' = [free_list EXCEPT ![d] =
                       SelectSeq(list, LAMBDA c : c[1] # b[1])]
                /\ desc_lock' = [desc_lock EXCEPT ![d] = t]
                /\ Goto(t, "palloc_free_multiple",
                        [page |-> b[1], cnt |-> 1, ret |-> "unlock_desc"])
           ELSE /\ free_list' = [free_list EXCEPT ![d] = list]
                /\ Goto(t, "run", <<>>)
                /\ UNCHANGED desc_lock
        /\ UNCHANGED <<used_map, pool_lock, mine, panic>>

(* lock_acquire, list_push_front and, when the arena is entirely unused,   *)
(* list_remove of all its blocks and palloc_free_page under the lock.      *)
give_block(t) ==
    LET b == loc[t].old
        d == loc[t].desc
        list == <<b>> \o free_list[d]
        cnt == arena(b[1]).free_cnt + 1
    IN  /\ pc[t] = "give_block"
        /\ desc_lock[d] = NULL
        /\ content' = [content EXCEPT ![b[1]][0].free_cnt = cnt]
        /\ IF cnt >= blocks_per_arena(d)
           THEN /\ panic' = (panic \/ cnt # blocks_per_arena(d)
                                   \/ ~(ToSet(ArenaBlocks(b[1], d)) \subseteq ToSet(list)))
                /\ free_list' = [free_list EXCEPT ![d] =
                       SelectSeq(list, LAMBDA c : c \notin ToSet(ArenaBlocks(b[1], d)))]
                /\ desc_lock' = [desc_lock EXCEPT ![d] = t]
                /\ Goto(t, "palloc_free_multiple",
                        [page |-> b[1], cnt |-> 1, ret |-> "unlock_desc"])
           ELSE /\ free_list' = [free_list EXCEPT ![d] = list]
                /\ Goto(t, "run", <<>>)
                /\ UNCHANGED <<desc_lock, panic>>
        /\ UNCHANGED <<used_map, pool_lock, mine>>

unlock_desc(t) ==
    /\ pc[t] = "unlock_desc"
    /\ desc_lock' = [desc_lock EXCEPT ![loc[t].desc] = NULL]
    /\ Goto(t, "run", <<>>)
    /\ UNCHANGED <<pallocVars, panic, free_list, mine>>

MallocStep(t) ==
    \/ TakeBlock(t) \/ new_arena(t) \/ big_block(t)
    \/ free_old(t) \/ give_block(t) \/ unlock_desc(t)
=============================================================================
