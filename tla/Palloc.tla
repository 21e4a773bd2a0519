------------------------------- MODULE Palloc -------------------------------
(***************************************************************************)
(* The page allocator (threads/palloc.c).  A pool is its bitmap, its lock  *)
(* and the place of its pages.  palloc_get_multiple tests and sets bits    *)
(* one at a time under the pool's lock; palloc_free_multiple clears them   *)
(* one at a time without it, so the two interleave bit by bit.  A lock is  *)
(* the one that Mutex promises.  Pages are numbered from the start of free *)
(* memory.                                                                 *)
(***************************************************************************)
EXTENDS Bitmap, TLC

CONSTANTS Threads,
          NULL,
          FreePages,         \* pages between 1 MB and the end of RAM
          user_page_limit,
          Offsets            \* the places in a page that are told apart

VARIABLES used_map,    \* the bitmap of each pool: the pages in use
          pool_lock,   \* the holder of each pool's lock
          content,     \* what each page holds, by offset
          pc,
          loc,         \* the parameters and local variables of each thread
          panic        \* an ASSERT failed, or NOT_REACHED was reached

pallocVars == <<used_map, pool_lock, content>>

PGSIZE == 4096

user_pages == IF FreePages \div 2 > user_page_limit THEN user_page_limit ELSE FreePages \div 2

kernel_pages == FreePages - user_pages

Pools == {"kernel", "user"}

pool_size == [kernel |-> kernel_pages, user |-> user_pages]

bm_pages == [p \in Pools |-> DIV_ROUND_UP(bitmap_buf_size(pool_size[p]), PGSIZE)]

(* init_pool panics otherwise.                                             *)
ASSUME PallocAssumption == \A p \in Pools : bm_pages[p] <= pool_size[p]

page_cnt == [p \in Pools |-> pool_size[p] - bm_pages[p]]

base == [kernel |-> bm_pages["kernel"], user |-> kernel_pages + bm_pages["user"]]

page_from_pool(p, page) == page \in base[p]..(base[p] + page_cnt[p] - 1)

Pages == {page \in 0..(FreePages - 1) : \E p \in Pools : page_from_pool(p, page)}

Group(page, cnt) == page..(page + cnt - 1)

(* A byte at each offset; at 0 it is seen through struct arena.            *)
Bytes(byte) ==
    [o \in Offsets |-> IF o = 0 THEN [magic |-> byte, desc |-> NULL, free_cnt |-> 0] ELSE byte]

(* memset of the cnt pages from page on.                                   *)
Filled(page, cnt, byte) ==
    [q \in Pages |-> IF q \in Group(page, cnt) THEN Bytes(byte) ELSE content[q]]

palloc_init ==
    /\ used_map = [p \in Pools |-> bitmap_create(
            [bit_cnt |-> page_cnt[p], bits |-> [e \in 0..(elem_cnt(page_cnt[p]) - 1) |-> 0]])]
    /\ pool_lock = [p \in Pools |-> NULL]
    /\ content = [q \in Pages |-> Bytes("boot")]

NoLocals ==
    [pool |-> "kernel", cnt |-> 0, zero |-> FALSE, i |-> 0, k |-> 0, page |-> NULL,
     ret |-> "run", desc |-> NULL, old |-> NULL, clear |-> FALSE]

(* t goes to place with new values of some local variables, given as a     *)
(* record; a thread that is back in its own code has none.                 *)
Goto(t, place, new) ==
    /\ pc' = [pc EXCEPT ![t] = place]
    /\ loc' = [loc EXCEPT ![t] = IF place = "run" THEN NoLocals ELSE new @@ loc[t]]

-----------------------------------------------------------------------------
(* palloc_get_multiple: t waits for the lock with cnt, pool, zero and the  *)
(* place to return to in loc[t].                                           *)
palloc_get_multiple(t) ==
    /\ pc[t] = "palloc_get_multiple"
    /\ IF loc[t].cnt = 0
       THEN Goto(t, loc[t].ret, [page |-> NULL]) /\ UNCHANGED pool_lock
       ELSE /\ pool_lock[loc[t].pool] = NULL
            /\ pool_lock' = [pool_lock EXCEPT ![loc[t].pool] = t]
            /\ Goto(t, "scan", [i |-> 0, k |-> 0])
    /\ UNCHANGED <<used_map, content, panic>>

Unlock(t) == pool_lock' = [pool_lock EXCEPT ![loc[t].pool] = NULL]

(* One test of bitmap_contains in bitmap_scan: bit i + k.                  *)
Scan(t) ==
    LET l == loc[t]
    IN  /\ pc[t] = "scan"
        /\ IF l.cnt > page_cnt[l.pool] \/ l.i > page_cnt[l.pool] - l.cnt
           THEN Unlock(t) /\ Goto(t, l.ret, [page |-> NULL])
           ELSE /\ UNCHANGED pool_lock
                /\ IF bitmap_test(used_map[l.pool], l.i + l.k)
                   THEN Goto(t, "scan", [i |-> l.i + 1, k |-> 0])
                   ELSE IF l.k + 1 < l.cnt
                   THEN Goto(t, "scan", [k |-> l.k + 1])
                   ELSE Goto(t, "flip", [k |-> 0])
        /\ UNCHANGED <<used_map, content, panic>>

(* Mutant: the lock is released between the scan and the flip.             *)
FlipUnlocked(t) ==
    LET l == loc[t]
    IN  /\ pc[t] = "flip"
        /\ used_map' = [used_map EXCEPT ![l.pool] = bitmap_set(@, l.i + l.k, TRUE)]
        /\ pool_lock' = [pool_lock EXCEPT ![l.pool] = IF @ = t THEN NULL ELSE @]
        /\ IF l.k + 1 < l.cnt
           THEN Goto(t, "flip", [k |-> l.k + 1])
           ELSE Goto(t, IF l.zero THEN "zero" ELSE l.ret, [page |-> base[l.pool] + l.i])
        /\ UNCHANGED <<content, panic>>

(* One step of bitmap_set_multiple, and lock_release after the last.       *)
Flip(t) ==
    LET l == loc[t]
    IN  /\ pc[t] = "flip"
        /\ used_map' = [used_map EXCEPT ![l.pool] = bitmap_set(@, l.i + l.k, TRUE)]
        /\ IF l.k + 1 < l.cnt
           THEN Goto(t, "flip", [k |-> l.k + 1]) /\ UNCHANGED pool_lock
           ELSE /\ Unlock(t)
                /\ Goto(t, IF l.zero THEN "zero" ELSE l.ret, [page |-> base[l.pool] + l.i])
        /\ UNCHANGED <<content, panic>>

(* PAL_ZERO.                                                               *)
Zero(t) ==
    /\ pc[t] = "zero"
    /\ content' = Filled(loc[t].page, loc[t].cnt, "zero")
    /\ Goto(t, loc[t].ret, <<>>)
    /\ UNCHANGED <<used_map, pool_lock, panic>>

-----------------------------------------------------------------------------
PoolOf(page) == IF page_from_pool("kernel", page) THEN "kernel" ELSE "user"

(* The memset, the ASSERT that every bit is set and, per step of Clear,    *)
(* one bit of bitmap_set_multiple.                                         *)
palloc_free_multiple(t) ==
    LET l == loc[t] p == PoolOf(l.page) i == l.page - base[p]
    IN  /\ pc[t] = "palloc_free_multiple"
        /\ content' = Filled(l.page, l.cnt, "cc")
        /\ panic' = (panic \/ l.page \notin Pages \/ ~bitmap_all(used_map[p], i, l.cnt))
        /\ Goto(t, IF l.cnt = 0 THEN l.ret ELSE "clear", [pool |-> p, i |-> i, k |-> 0])
        /\ UNCHANGED <<used_map, pool_lock>>

Clear(t) ==
    LET l == loc[t]
    IN  /\ pc[t] = "clear"
        /\ used_map' = [used_map EXCEPT ![l.pool] = bitmap_set(@, l.i + l.k, FALSE)]
        /\ IF l.k + 1 < l.cnt
           THEN Goto(t, "clear", [k |-> l.k + 1])
           ELSE Goto(t, l.ret, <<>>)
        /\ UNCHANGED <<pool_lock, content, panic>>

PallocStep(t) ==
    \/ palloc_get_multiple(t) \/ Scan(t) \/ Flip(t) \/ Zero(t)
    \/ palloc_free_multiple(t) \/ Clear(t)
=============================================================================
