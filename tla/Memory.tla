------------------------------- MODULE Memory -------------------------------
(***************************************************************************)
(* Kernel threads that share the two allocators: each calls malloc,        *)
(* calloc, realloc and free for its data and takes groups of pages for     *)
(* user memory straight from the page allocator.                           *)
(***************************************************************************)
EXTENDS Malloc

CONSTANTS Sizes,        \* the sizes asked of malloc and realloc
          CallocArgs,   \* the factors given to calloc
          PageCounts,   \* the sizes of the groups of user pages
          MaxOwned      \* bound: what one thread owns at a time

vars == <<pallocVars, mallocVars, pc, loc, panic>>

Init ==
    /\ palloc_init
    /\ malloc_init
    /\ pc = [t \in Threads |-> "run"]
    /\ loc = [t \in Threads |-> NoLocals]
    /\ panic = FALSE

(* A group of cnt pages is known by its first page, the offset 0 and cnt.  *)
AskPages(t) ==
    /\ pc[t] = "run"
    /\ \E cnt \in PageCounts, zero \in BOOLEAN :
           Goto(t, "palloc_get_multiple",
                [pool |-> "user", cnt |-> cnt, zero |-> zero, ret |-> "got_pages"])
    /\ UNCHANGED <<pallocVars, mallocVars, panic>>

GotPages(t) ==
    LET l == loc[t]
    IN  /\ pc[t] = "got_pages"
        /\ IF l.page = NULL THEN UNCHANGED <<mine, content>>
           ELSE /\ mine' = [mine EXCEPT ![t] = @ \cup {<<l.page, 0, l.cnt>>}]
                /\ content' = IF l.zero THEN content ELSE Filled(l.page, l.cnt, t)
        /\ Goto(t, "run", <<>>)
        /\ UNCHANGED <<used_map, pool_lock, panic, free_list, desc_lock>>

FreePageGroup(t) ==
    \E g \in mine[t] :
        /\ Len(g) = 3
        /\ pc[t] = "run"
        /\ Goto(t, "palloc_free_multiple", [page |-> g[1], cnt |-> g[3], ret |-> "run"])
        /\ mine' = [mine EXCEPT ![t] = @ \ {g}]
        /\ UNCHANGED <<pallocVars, panic, free_list, desc_lock>>

Allocate(t) ==
    /\ Cardinality(mine[t]) < MaxOwned
    /\ \/ \E size \in Sizes : malloc(t, size, FALSE, NULL)
       \/ \E a, b \in CallocArgs : calloc(t, a, b)
       \/ AskPages(t)

Release(t) ==
    \/ \E b \in mine[t] : Len(b) = 2 /\ free(t, b)
    \/ \E b \in mine[t], size \in Sizes : Len(b) = 2 /\ realloc(t, b, size)
    \/ FreePageGroup(t)

(* The steps of a call in progress.                                        *)
Call(t) ==
    \/ (PallocStep(t) /\ UNCHANGED mallocVars)
    \/ MallocStep(t)
    \/ GotPages(t)

Next == \E t \in Threads : ~panic /\ (Allocate(t) \/ Release(t) \/ Call(t))

Spec == Init /\ [][Next]_vars

-----------------------------------------------------------------------------
(* The cells, pages and offsets, of a block or a group of pages.           *)
Extent(b) ==
    IF Len(b) = 3 THEN Group(b[1], b[3]) \X Offsets
    ELSE IF arena(b[1]).desc # NULL THEN {b}
    ELSE {b[1]} \X (Offsets \ {0}) \cup Group(b[1] + 1, arena(b[1]).free_cnt - 1) \X Offsets

Owned(t) == UNION {Extent(b) : b \in mine[t]}

(* NoPanic: no interleaving of malloc, realloc, free and the page          *)
(* allocator makes an ASSERT of malloc.c or palloc.c fail: an arena's      *)
(* header is intact while a block of it is in use, and the bits of pages   *)
(* that are freed are set.                                                 *)
NoPanic == ~panic

(* OwnersKeepData: what a thread stored stays until the thread frees it:   *)
(* no memset, arena header or other thread's write reaches memory in use,  *)
(* although palloc_free_multiple holds no lock, and realloc copies it.     *)
OwnersKeepData ==
    \A t \in Threads : \A b \in mine[t] :
        content[b[1]][b[2]] \in {Bytes(t)[b[2]], Bytes("zero")[b[2]]}

(* RefinesHeap: together the allocators hand out only memory that nobody   *)
(* owns, although the scan of a pool's bitmap races with frees.            *)
Promise == INSTANCE Heap WITH owned <- [t \in Threads |-> Owned(t)]

RefinesHeap == Promise!Spec

(* FreeCountRight: while a descriptor's lock is free, the free_cnt of each *)
(* of its arenas is the number of its blocks on the free list, each there  *)
(* once: free releases a page just when the last block comes back.         *)
FreeCountRight ==
    \A d \in descs : desc_lock[d] = NULL =>
        /\ IsInjective(free_list[d])
        /\ \A b \in ToSet(free_list[d]) :
               /\ ValidArena(b)
               /\ arena(b[1]).free_cnt =
                      Cardinality({c \in ToSet(free_list[d]) : c[1] = b[1]})
               /\ arena(b[1]).free_cnt < blocks_per_arena(d)

UsedPages ==
    {page \in Pages : \E p \in Pools :
        page_from_pool(p, page) /\ bitmap_test(used_map[p], page - base[p])}

(* NoPageLost: between calls a page is marked used just when it is part of *)
(* what some thread owns: failed allocations and realloc leak nothing.     *)
NoPageLost ==
    (\A t \in Threads : pc[t] = "run") =>
        UsedPages = {c[1] : c \in UNION {Owned(t) : t \in Threads}}

(* HeapSound: through every interleaving of malloc, calloc, realloc, free  *)
(* and the page allocator no ASSERT fails, the counts of the arenas agree  *)
(* with the free lists, and no page is lost.                               *)
HeapSound == NoPanic /\ FreeCountRight /\ NoPageLost
=============================================================================
