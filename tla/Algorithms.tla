----------------------------- MODULE Algorithms -----------------------------
(***************************************************************************)
(* The parts of the kernel that work on their own data, each run alone: an *)
(* initial state chooses one of them, bench, and st is its state with what *)
(* its caller expects of it.                                               *)
(***************************************************************************)
EXTENDS Integers, Sequences, FiniteSets, TLC

CONSTANTS Benches,        \* the parts that are run
          Keys,           \* the lists hold elements 1..4 with these keys
          HashElems, HashKeys, Hashes,
          MaxLen,         \* the longest array that is sorted
          WordBits,       \* bits of a word in a long division
          Bytes, MemSize, \* the strings
          MaxRows,        \* rows that are written to the display
          MlfqsThreads, Priorities, Nices, MaxTicks, MaxCalls

VARIABLES bench, st

vars == <<bench, st>>

(* Sequences, as KernelList uses them, for a reference.                    *)
S == INSTANCE SequencesExt

KL == INSTANCE KernelList

Elems == DOMAIN Keys

L == INSTANCE LinkedList WITH Lists <- {1, 2}

H == INSTANCE Hash WITH KeyOf <- HashKeys, HashOf <- Hashes,
                        MIN_BUCKETS <- 1, BEST_ELEMS_PER_BUCKET <- 1

A == INSTANCE Stdlib WITH W <- WordBits

B == INSTANCE Bitmap WITH ELEM_BITS <- 3

K == INSTANCE Kbd WITH shifts <- st.shifts, caps_lock <- st.caps_lock

C == INSTANCE Cstring

V == INSTANCE Vga WITH COL_CNT <- 3, ROW_CNT <- 2, TAB_WIDTH <- 2

P == INSTANCE Pagedir WITH NULL <- 0, UserFrames <- {1, 2}, KernelFrames <- {11, 12, 13},
                           PGSIZE <- 1, PHYS_BASE <- 2, PT_ENTRIES <- 2

M == INSTANCE Mlfqs WITH Threads <- MlfqsThreads, idle_thread <- "idle", Q <- 14,
                         TIMER_FREQ <- 8, TIME_SLICE <- 4, PRI_MIN <- 0, PRI_MAX <- 63

-----------------------------------------------------------------------------
(* Lists: two lists, as pointers in h and as sequences in q.               *)
ListBench ==
    st = [h |-> L!ListInit(Keys), q |-> <<<<>>, <<>>>>]

Less == [a \in Elems |-> [b \in Elems |-> Keys[a] < Keys[b]]]

OnNoList == Elems \ (S!ToSet(st.q[1]) \cup S!ToSet(st.q[2]))

Insert ==
    \E l \in {1, 2}, e \in OnNoList :
      \/ st' = [h |-> L!list_push_front(st.h, l, e), q |-> [st.q EXCEPT ![l] = <<e>> \o @]]
      \/ st' = [h |-> L!list_push_back(st.h, l, e), q |-> [st.q EXCEPT ![l] = Append(@, e)]]
      \/ st' = [h |-> L!list_insert_ordered(st.h, l, e),
                q |-> [st.q EXCEPT ![l] = KL!list_insert_ordered(@, e, Less)]]

RemoveElem ==
    \E l \in {1, 2} :
      /\ st.q[l] # <<>>
      /\ \/ st' = [h |-> L!list_pop_front(st.h, l), q |-> [st.q EXCEPT ![l] = Tail(@)]]
         \/ st' = [h |-> L!list_pop_back(st.h, l), q |-> [st.q EXCEPT ![l] = S!Front(@)]]
         \/ \E i \in DOMAIN st.q[l] :
              st' = [h |-> L!list_remove(st.h, st.q[l][i]), q |-> [st.q EXCEPT ![l] = S!RemoveAt(@, i)]]

(* The elements i..j of list 1 go before element k of list 2.              *)
Splice ==
    \E i \in DOMAIN st.q[1], k \in 1..(Len(st.q[2]) + 1) : \E j \in i..Len(st.q[1]) :
      LET at(q, n, end) == IF n > Len(q) THEN end ELSE q[n]
          moved == SubSeq(st.q[1], i, j)
      IN  st' = [h |-> L!list_splice(st.h, at(st.q[2], k, L!list_end(2)), st.q[1][i],
                                     at(st.q[1], j + 1, L!list_end(1))),
                 q |-> <<SubSeq(st.q[1], 1, i - 1) \o SubSeq(st.q[1], j + 1, Len(st.q[1])),
                         SubSeq(st.q[2], 1, k - 1) \o moved \o SubSeq(st.q[2], k, Len(st.q[2]))>>]

Reorder ==
    \E l \in {1, 2} :
      \/ st' = [h |-> L!list_sort(st.h, l), q |-> [st.q EXCEPT ![l] = KL!list_sort(@, Less)]]
      \/ st' = [h |-> L!list_reverse(st.h, l), q |-> [st.q EXCEPT ![l] = S!Reverse(@)]]

(* Of adjacent elements with one key the first stays; the rest go to the   *)
(* other list.                                                             *)
Unique ==
    LET q == st.q[1]
        kept(i) == i = 1 \/ Keys[q[i]] # Keys[q[i - 1]]
        pick(is) == [n \in 1..Cardinality(is) |-> q[CHOOSE i \in is : Cardinality({j \in is : j <= i}) = n]]
    IN  st' = [h |-> L!list_unique(st.h, 1, 2),
               q |-> <<pick({i \in DOMAIN q : kept(i)}),
                       st.q[2] \o pick({i \in DOMAIN q : ~kept(i)})>>]

ListStep == bench = "list" /\ (Insert \/ RemoveElem \/ Splice \/ Reorder \/ Unique) /\ UNCHANGED bench

(* Through any sequence of operations the pointers of list.c link exactly  *)
(* the elements the callers put on the list, in the same order forwards    *)
(* and backwards, and no ASSERT of list.c fails; list_size, list_max and   *)
(* list_min agree with the elements, the first of equal ones being found.  *)
ListsAgree ==
    bench = "list" =>
      /\ ~st.h.panic
      /\ \A l \in {1, 2} :
           LET q == st.q[l]
               best(i) == \A j \in DOMAIN q : Keys[q[j]] < Keys[q[i]] \/ (Keys[q[j]] = Keys[q[i]] /\ i <= j)
               least(i) == \A j \in DOMAIN q : Keys[q[j]] > Keys[q[i]] \/ (Keys[q[j]] = Keys[q[i]] /\ i <= j)
           IN  /\ L!Links(st.h, l, q)
               /\ L!list_size(st.h, l) = Len(q)
               /\ \A i \in DOMAIN q : /\ best(i) => L!list_max(st.h, l) = q[i]
                                      /\ least(i) => L!list_min(st.h, l) = q[i]

-----------------------------------------------------------------------------
(* Hash tables: the table h and the element under each key.                *)
HashBench ==
    st = [h |-> H!hash_init, of |-> [k \in S!Range(HashKeys) |-> H!NoElem]]

HashInsert ==
    \E e \in HashElems, memory \in BOOLEAN :
      /\ e \notin S!Range(st.of)
      /\ \/ st' = [h |-> H!hash_insert(st.h, e, memory),
                   of |-> [st.of EXCEPT ![HashKeys[e]] = IF @ = H!NoElem THEN e ELSE @]]
         \/ st' = [h |-> H!hash_replace(st.h, e, memory), of |-> [st.of EXCEPT ![HashKeys[e]] = e]]

HashRemove ==
    \/ \E e \in HashElems, memory \in BOOLEAN :
         st' = [h |-> H!hash_delete(st.h, e, memory), of |-> [st.of EXCEPT ![HashKeys[e]] = H!NoElem]]
    \/ st' = [h |-> H!hash_clear(st.h), of |-> [k \in DOMAIN st.of |-> H!NoElem]]

HashStep == bench = "hash" /\ (HashInsert \/ HashRemove) /\ UNCHANGED bench

RECURSIVE Visits(_, _)
Visits(h, i) ==
    LET n == H!hash_next(h, i)
    IN  IF n.bucket >= H!bucket_cnt(h) \/ h.buckets[n.bucket] = <<>> THEN <<>>
        ELSE <<H!hash_cur(h, n)>> \o Visits(h, n)

(* A hash table finds for each key the element that was put under it,      *)
(* counts the elements, and an iteration visits each of them once, past    *)
(* any number of empty buckets, however often it was rehashed and whether  *)
(* or not there was memory to do so.                                       *)
HashIsMap ==
    bench = "hash" =>
      LET elems == S!Range(st.of) \ {H!NoElem}
      IN  /\ \A e \in HashElems : H!hash_find(st.h, e) = st.of[HashKeys[e]]
          /\ st.h.elem_cnt = Cardinality(elems)
          /\ Len(H!hash_apply(st.h)) = Cardinality(elems)
          /\ S!ToSet(H!hash_apply(st.h)) = elems
          /\ Visits(st.h, H!hash_first) = H!hash_apply(st.h)

-----------------------------------------------------------------------------
(* Arrays of up to MaxLen numbers.                                         *)
SortBench == \E n \in 0..MaxLen : st \in [1..n -> 1..3]

(* sort gives the elements of the array in order, and binary_search finds  *)
(* an element in a sorted array exactly if it is there.                    *)
SortsRight ==
    bench = "sort" =>
      LET sorted == A!sort(st)
          count(q, x) == Cardinality({i \in DOMAIN q : q[i] = x})
      IN  /\ \A i, j \in DOMAIN sorted : i <= j => sorted[i] <= sorted[j]
          /\ \A x \in 1..3 : count(sorted, x) = count(st, x)
          /\ \A x \in 0..4 :
               LET i == A!binary_search(x, sorted)
               IN  IF count(st, x) = 0 THEN i = -1 ELSE sorted[i + 1] = x

(* Dividends of a long division.                                           *)
DivisionBench == st \in 0..(2^(2 * WordBits) - 1)

(* The long division of arithmetic.c, which estimates the quotient with    *)
(* one division of the processor, is exact for every dividend and divisor; *)
(* the processor never traps on a quotient that is too large; and the      *)
(* signed division rounds to zero.  Where the remainder fits in a word it  *)
(* is the remainder.  atoi reads every int, the least one included.        *)
DivisionExact ==
    bench = "division" =>
      /\ LET digits == <<st \div 100, (st \div 10) % 10, st % 10>>
         IN  /\ st < 2^(WordBits - 1) => A!atoi(FALSE, digits) = st
             /\ st <= 2^(WordBits - 1) => A!atoi(TRUE, digits) = -st
      /\ \A d \in 1..(2^(2 * WordBits) - 1) :
        LET n == A!Signed(st)
            e == A!Signed(d)
            q == A!sdiv64(n, e)
        IN  /\ ~A!divl_traps(A!DivlOperands(st, d)[1], A!DivlOperands(st, d)[2])
            /\ A!udiv64(st, d) = st \div d
            /\ st % d < 2^WordBits => A!umod64(st, d) = st % d
            /\ n # -2^(2 * WordBits - 1) \/ e # -1 =>
                 /\ q = (A!abs(n) \div A!abs(e)) * (IF (n < 0) = (e < 0) THEN 1 ELSE -1)
                 /\ n - q * e \in -2^(WordBits - 1)..(2^(WordBits - 1) - 1) => A!smod64(n, e) = n - q * e

-----------------------------------------------------------------------------
(* Strings: a memory that ends with a null byte.                           *)
Addr == 0..(MemSize - 1)

StringBench == st \in {m \in [Addr -> Bytes] : m[MemSize - 1] = 0}

Str(m, p) == LET len == CHOOSE n \in 0..(MemSize - p - 1) : m[p + n] = 0 /\ \A i \in 0..(n - 1) : m[p + i] # 0
             IN  [i \in 1..len |-> m[p + i - 1]]

Overlap(a, n, b, k) == ~(a + n <= b \/ b + k <= a)

(* memmove copies a block as it was even when the two blocks overlap, and  *)
(* memcpy when they do not; strlcpy and strlcat leave a terminated string  *)
(* that is cut to the size, return the length they tried for, and write    *)
(* nothing outside the size bytes they were given.                         *)
CopiesRight ==
    bench = "string" =>
      \A dst, src \in Addr :
        \A size \in 0..(MemSize - (IF dst > src THEN dst ELSE src)) :
          LET copied == [i \in Addr |-> IF i \in dst..(dst + size - 1) THEN st[src + i - dst] ELSE st[i]]
              a == Str(st, dst)
              b == Str(st, src)
              cut(q) == SubSeq(q, 1, IF Len(q) < size - 1 THEN Len(q) ELSE size - 1)
              cpy == C!strlcpy(st, dst, src, size)
              cat == C!strlcat(st, dst, src, size)
          IN  /\ C!memmove(st, dst, src, size) = copied
              /\ ~Overlap(dst, size, src, size) => C!memcpy(st, dst, src, size) = copied
              /\ ~Overlap(dst, size, src, Len(b) + 1) =>
                   /\ cpy.ret = Len(b) /\ (size > 0 => Str(cpy.m, dst) = cut(b))
                   /\ \A i \in Addr \ (dst..(dst + size - 1)) : cpy.m[i] = st[i]
                   /\ cat.ret = Len(a) + Len(b)
                   /\ Len(a) < size => Str(cat.m, dst) = cut(a \o b)
                   /\ \A i \in Addr \ (dst..(dst + size - 1)) : cat.m[i] = st[i]

(* The searches of string.c find the first or the last place that matches, *)
(* and a null pointer when there is none; the comparisons order strings as *)
(* sequences of bytes.                                                     *)
SearchesRight ==
    bench = "string" =>
      \A p, r \in Addr :
        LET a == Str(st, p)
            b == Str(st, r)
            first(is) == IF is = {} THEN C!Null ELSE p - 1 + S!Min(is)
            in == {i \in DOMAIN a : a[i] \in S!ToSet(b)}
            same == CHOOSE n \in 0..Len(a) : /\ n <= Len(b) /\ SubSeq(a, 1, n) = SubSeq(b, 1, n)
                                             /\ n = Len(a) \/ n = Len(b) \/ a[n + 1] # b[n + 1]
        IN  /\ C!strlen(st, p) = Len(a)
            /\ C!strpbrk(st, p, r) = first(in)
            /\ C!strcspn(st, p, r) = (IF in = {} THEN Len(a) ELSE S!Min(in) - 1)
            /\ C!strspn(st, p, r) = (IF DOMAIN a = in THEN Len(a) ELSE S!Min(DOMAIN a \ in) - 1)
            /\ C!strstr(st, p, r) =
                 first({i \in 1..(Len(a) - Len(b) + 1) : SubSeq(a, i, i + Len(b) - 1) = b})
            /\ C!strcmp(st, p, r) = (IF st[p + same] < st[r + same] THEN -1
                                     ELSE IF st[p + same] > st[r + same] THEN 1 ELSE 0)
            /\ \A c \in Bytes :
                 /\ C!strchr(st, p, c) = (IF c = 0 THEN p + Len(a) ELSE first({i \in DOMAIN a : a[i] = c}))
                 /\ C!strrchr(st, p, c) = (IF {i \in DOMAIN a : a[i] = c} = {} THEN C!Null
                                           ELSE p - 1 + S!Max({i \in DOMAIN a : a[i] = c}))
                 /\ C!memchr(st, p, c, MemSize - p) = first({i \in 1..(MemSize - p) : st[p + i - 1] = c})
            /\ \A n \in 0..(MemSize - (IF p > r THEN p ELSE r)) :
                 /\ C!strnlen(st, p, n) = (IF Len(a) < n THEN Len(a) ELSE n)
                 /\ C!memcmp(st, p, r, n) = 0 <=> \A i \in 0..(n - 1) : st[p + i] = st[r + i]

RECURSIVE Tokens(_, _, _)
Tokens(m, s, delimiters) ==
    LET t == C!strtok_r(m, s, delimiters)
    IN  IF t.token = C!Null THEN <<>> ELSE <<Str(t.m, t.token)>> \o Tokens(t.m, t.save, delimiters)

(* Repeated calls of strtok_r give exactly the longest runs of characters  *)
(* that are not delimiters, in order; no token is empty.                   *)
TokensRight ==
    bench = "string" =>
      \A d \in Addr :
        LET a == Str(st, 0)
            delims == S!ToSet(Str(st, d))
            starts == {i \in DOMAIN a : a[i] \notin delims /\ (i = 1 \/ a[i - 1] \in delims)}
            run(i) == SubSeq(a, i, CHOOSE j \in i..Len(a) : /\ \A k \in i..j : a[k] \notin delims
                                                            /\ j = Len(a) \/ a[j + 1] \in delims)
            nth(n) == CHOOSE i \in starts : Cardinality({j \in starts : j <= i}) = n
        IN  d > Len(a) => Tokens(st, 0, d) = [n \in 1..Cardinality(starts) |-> run(nth(n))]

-----------------------------------------------------------------------------
(* Bitmaps: b has BitCnt bits in elements of 3, after bitmap_create in     *)
(* memory with any contents; on is the set of bits that are on.            *)
BitCnt == 4

BitmapBench ==
    \E garbage \in B!Bitmaps(BitCnt) : st = [b |-> B!bitmap_create(garbage), on |-> {}]

Range(start, cnt) == start..(start + cnt - 1)

BitmapStep ==
    /\ bench = "bitmap"
    /\ UNCHANGED bench
    /\ \/ \E i \in 0..(BitCnt - 1) :
            st' = [b |-> B!bitmap_flip(st.b, i), on |-> (st.on \ {i}) \cup ({i} \ st.on)]
       \/ \E start \in 0..BitCnt, cnt \in 0..BitCnt, value \in BOOLEAN :
            /\ start + cnt <= BitCnt
            /\ st' = [b |-> B!bitmap_set_multiple(st.b, start, cnt, value),
                      on |-> IF value THEN st.on \cup Range(start, cnt) ELSE st.on \ Range(start, cnt)]
       \/ \E start \in 0..BitCnt, cnt \in 0..BitCnt, value \in BOOLEAN :
            LET i == B!bitmap_scan(st.b, start, cnt, value)
            IN  st' = [b |-> B!bitmap_scan_and_flip(st.b, start, cnt, value),
                       on |-> IF i = B!BITMAP_ERROR THEN st.on
                              ELSE IF value THEN st.on \ Range(i, cnt) ELSE st.on \cup Range(i, cnt)]
       \/ st' = [st EXCEPT !.b = B!bitmap_read(@, B!bitmap_write(@))]

(* A bitmap is a set of positions, whatever the bits past its end hold:    *)
(* they count in no total, stop no scan, and bitmap_scan finds the first   *)
(* group of equal bits from start on just when there is one.               *)
BitmapIsSet ==
    bench = "bitmap" =>
        \A start, cnt \in 0..BitCnt, value \in BOOLEAN :
            LET fits == {i \in start..BitCnt : /\ i + cnt <= BitCnt
                                              /\ \A j \in Range(i, cnt) : (j \in st.on) = value}
                found == B!bitmap_scan(st.b, start, cnt, value)
            IN  /\ IF fits = {} THEN found = B!BITMAP_ERROR
                   ELSE found \in fits /\ \A i \in fits : found <= i
                /\ start + cnt <= BitCnt =>
                     B!bitmap_count(st.b, start, cnt, value)
                         = Cardinality({i \in Range(start, cnt) : (i \in st.on) = value})

(* The kernel's C library and its bitmaps compute what their comments say: *)
(* for every small array, dividend and divisor, memory with overlapping    *)
(* blocks, and sequence of operations on a bitmap.                         *)
LibraryRight ==
    SortsRight /\ DivisionExact /\ CopiesRight /\ SearchesRight /\ TokensRight /\ BitmapIsSet

-----------------------------------------------------------------------------
(* The keyboard: held are the scan codes of the keys that are down, odd    *)
(* tells whether Caps Lock was pressed an odd number of times.             *)
KeyboardBench == st = [shifts |-> {}, caps_lock |-> FALSE, held |-> {}, odd |-> FALSE]

KeyboardStep ==
    /\ bench = "keyboard"
    /\ UNCHANGED bench
    /\ \E code \in DOMAIN K!shift_keys \cup {58, 30} :
          \E release \in {code \in st.held} :
            st' = [shifts |-> K!NextShifts(code, release), caps_lock |-> K!NextCapsLock(code, release),
                   held |-> IF release THEN st.held \ {code} ELSE st.held \cup {code},
                   odd |-> IF code = 58 /\ ~release THEN ~st.odd ELSE st.odd]

(* A letter key gives the control character with a Ctrl key held, else     *)
(* upper case just when one of Shift and Caps Lock is in force, and has    *)
(* the high bit with an Alt key held, after any presses and releases.      *)
LettersRight ==
    bench = "keyboard" =>
        \A code \in (16..25) \cup (30..38) \cup (44..50) : \E letter \in 1..26 :
            K!KeyBytes(code, FALSE) = {
                letter + (IF st.held \cap {29, K!PREFIX + 29} # {} THEN 0
                          ELSE IF (st.held \cap {42, 54} # {}) # st.odd THEN 64 ELSE 96)
                       + (IF st.held \cap {56, K!PREFIX + 56} # {} THEN 128 ELSE 0)}

-----------------------------------------------------------------------------
(* The display: its state v, and the tape of all rows that were written.   *)
VgaBench ==
    \E full \in BOOLEAN :
      LET row == [x \in V!Cols |-> IF full THEN "x" ELSE V!Blank]
      IN  \E y \in V!Rows :
            LET fb == [i \in V!Rows |-> IF i <= y THEN row ELSE V!BlankRow]
            IN  st = [v |-> V!find_cursor(fb, 3 * y), tape |-> [i \in 1..(y + 1) |-> row]]

VgaStep ==
    /\ bench = "display"
    /\ UNCHANGED bench
    /\ \E c \in {"a", "newline", "form feed", "backspace", "return", "tab", "bell"} :
         LET v == V!vga_putc(st.v, c)
             last == Len(st.tape)
             written == IF c # "a" THEN st.tape ELSE [st.tape EXCEPT ![last][st.v.cx] = "a"]
             over == c = "newline" \/ (c \in {"a", "tab"} /\ st.v.cx = 2)
         IN  /\ over => last < MaxRows
             /\ st' = [v |-> v,
                       tape |-> IF c = "form feed" THEN <<V!BlankRow>>
                                ELSE IF over THEN Append(written, V!BlankRow) ELSE written]

(* The display shows the end of the text: its rows are the last rows that  *)
(* were written, the rows below the cursor are blank, the cursor is inside *)
(* the screen, and the hardware shows it there.                            *)
ScreenShowsTape ==
    bench = "display" =>
      LET top == Len(st.tape) - st.v.cy
      IN  /\ st.v.cx \in V!Cols /\ st.v.cy \in V!Rows
          /\ st.v.hardware = st.v.cx + 3 * st.v.cy
          /\ \A y \in V!Rows : st.v.fb[y] = IF y <= st.v.cy THEN st.tape[top + y] ELSE V!BlankRow

(* The keyboard's bytes and the screen's cells are those of the keys       *)
(* pressed and of the text printed, after any history of both              *)
(* (keyboard_interrupt, vga_putc).                                         *)
TerminalRight == LettersRight /\ ScreenShowsTape

-----------------------------------------------------------------------------
(* Paging: the page directories pds, driven by a pager that gives a page   *)
(* back when it has taken it out of a page directory.                      *)
PagingBench == st = [m |-> P!PagedirInit, pds |-> {}]

Using(m) == st' = [st EXCEPT !.m = m]

CreatePagedir ==
    LET r == P!pagedir_create(st.m)
    IN  /\ r.page # 0 /\ Cardinality(st.pds) < 2
        /\ st' = [m |-> r.m, pds |-> st.pds \cup {r.page}]

DestroyPagedir ==
    \E pd \in st.pds : /\ pd # P!active_pd(st.m)
                       /\ st' = [m |-> P!pagedir_destroy(st.m, pd), pds |-> st.pds \ {pd}]

SetPage ==
    \E pd \in st.pds, u \in P!UserPages, w \in BOOLEAN :
      LET r == P!palloc_get_page(st.m, {1, 2})
          i == P!pagedir_set_page(r.m, pd, u, r.page, w)
      IN  /\ P!pagedir_get_page(st.m, pd, u) = 0 /\ r.page # 0
          /\ Using(IF i.ok THEN i.m ELSE P!palloc_free_page(i.m, r.page))

ClearPage ==
    \E pd \in st.pds, u \in P!UserPages :
      LET page == P!pagedir_get_page(st.m, pd, u)
      IN  page # 0 /\ Using(P!palloc_free_page(P!pagedir_clear_page(st.m, pd, u), page))

SetBits ==
    \E pd \in st.pds, u \in P!UserPages, b \in BOOLEAN :
      /\ P!pagedir_get_page(st.m, pd, u) # 0
      /\ \/ P!pagedir_is_dirty(st.m, pd, u) # b /\ Using(P!pagedir_set_dirty(st.m, pd, u, b))
         \/ P!pagedir_is_accessed(st.m, pd, u) # b /\ Using(P!pagedir_set_accessed(st.m, pd, u, b))

Activate == \E pd \in st.pds \cup {0} : Using(P!pagedir_activate(st.m, pd))

UsePage ==
    \E u \in P!UserPages, write \in BOOLEAN :
      st.m.cr3 # 0 /\ Using(P!Translate(st.m, u, write).m)

PagingStep ==
    /\ bench = "paging"
    /\ UNCHANGED bench
    /\ CreatePagedir \/ DestroyPagedir \/ SetPage \/ ClearPage \/ SetBits \/ Activate \/ UsePage

(* Every translation the processor has cached is still what the active     *)
(* page directory says: a page that was taken out is not used again, and a *)
(* page whose dirty or accessed bit was cleared is marked at its next use. *)
TlbCoherent ==
    bench = "paging" =>
      /\ ~st.m.panic
      /\ \A t \in st.m.tlb :
           LET e == P!EntryOf(st.m, st.m.cr3, t.vpage)
           IN  e.p /\ e.page = t.page /\ e.w = t.w /\ e.a /\ (t.d => e.d)

-----------------------------------------------------------------------------
(* The advanced scheduler: its state s, the calls so far, and behind, the  *)
(* ticks for which a thread of higher priority than the running one has    *)
(* been ready.                                                             *)
MlfqsBench ==
    \E priority \in [MlfqsThreads -> Priorities] :
      st = [s |-> S!FoldLeft(M!thread_unblock, M!MlfqsInit(priority), S!SetToSeq(MlfqsThreads)),
            calls |-> 0, behind |-> 0]

Behind(s) ==
    s.cur # "idle" /\ s.ready # <<>> /\ s.priority[Head(s.ready)] > s.priority[s.cur]

Scheduled(s, calls, ticks) ==
    st' = [s |-> s, calls |-> st.calls + calls,
           behind |-> IF Behind(s) THEN st.behind + ticks ELSE 0]

Blocked(s) == MlfqsThreads \ ({s.cur} \cup S!ToSet(s.ready))

MayCall(s) == st.calls < MaxCalls /\ s.cur # "idle" /\ s.cur \notin s.fronts

Tick == st.s.ticks < MaxTicks /\ Scheduled(M!timer_interrupt(st.s), 0, 1)

IdleBlocks == st.s.cur = "idle" /\ st.s.ready # <<>> /\ Scheduled(M!thread_block(st.s), 0, 0)

SetNice == MayCall(st.s) /\ \E n \in Nices : Scheduled(M!thread_set_nice(st.s, n), 1, 0)

LookAtFront == st.s.cur \in st.s.fronts /\ Scheduled(M!LookAtFront(st.s), 0, 0)

BlockThread == MayCall(st.s) /\ Scheduled(M!thread_block(st.s), 1, 0)

UnblockThread ==
    /\ st.calls < MaxCalls
    /\ \E t \in Blocked(st.s) : Scheduled(M!thread_unblock(st.s, t), 1, 0)

MlfqsStep ==
    /\ bench = "mlfqs"
    /\ ~st.s.panic
    /\ UNCHANGED bench
    /\ Tick \/ IdleBlocks \/ SetNice \/ LookAtFront \/ BlockThread \/ UnblockThread

(* The queue is in order of priority although the priorities change: only  *)
(* the running thread changes between two seconds, and each second sorts.  *)
QueueOrdered ==
    bench = "mlfqs" =>
      \A i, j \in DOMAIN st.s.ready : i < j => st.s.priority[st.s.ready[i]] >= st.s.priority[st.s.ready[j]]

(* Once the first second is over, the priority of every thread is what its *)
(* recent_cpu and nice give, except that it lags behind the ticks that the *)
(* thread ran since the last second without a fourth tick: it is never too *)
(* low, and too high by at most one for each four of these ticks.          *)
PriorityLags ==
    bench = "mlfqs" /\ st.s.ticks >= 8 =>
      \A t \in MlfqsThreads :
        st.s.priority[t] - M!PriorityFor(st.s.recent_cpu[t], st.s.nice[t])
            \in 0..((st.s.ticks % 8) \div 4 + 1)

(* A ready thread of higher priority waits for the processor for less than *)
(* TIME_SLICE ticks, whether it became ready or the priority of the        *)
(* running thread fell below its own.                                      *)
PreemptionBounded == bench = "mlfqs" => st.behind < 4

(* The fixed-point averages stay in range: load_avg never exceeds the      *)
(* number of threads, so that the products of thread_update_recent_cpu fit *)
(* their 64 bits, and recent_cpu what a thread can have run and been given *)
(* by nice; the values reported are rounded to the nearest.                *)
AveragesBounded ==
    bench = "mlfqs" =>
      LET n == Cardinality(MlfqsThreads)
          near(x, r) == x - r * M!F \in -(M!F \div 2)..(M!F \div 2)
      IN  /\ st.s.load_avg \in 0..(n * M!F)
          /\ \A t \in MlfqsThreads :
               st.s.recent_cpu[t] \in (-20 * (2 * n + 1) * M!F)..((MaxTicks + 20 * (2 * n + 1)) * M!F)
          /\ near(st.s.load_avg * 100, M!thread_get_load_avg(st.s))
          /\ st.s.cur # "idle" => near(st.s.recent_cpu[st.s.cur] * 100, M!thread_get_recent_cpu(st.s))

(* The priorities of the advanced scheduler follow recent_cpu and nice     *)
(* closely enough, although each tick updates only a few of them and the   *)
(* run queue is sorted once a second (timer_interrupt).                    *)
MlfqsRight == QueueOrdered /\ PriorityLags /\ PreemptionBounded /\ AveragesBounded

(* list_front is asked for the front of a list that is not empty, as its   *)
(* ASSERT (!list_empty (list)) says, in thread_set_nice too.               *)
FrontOfNonEmpty == bench = "mlfqs" => ~st.s.panic

-----------------------------------------------------------------------------
Init ==
    /\ bench \in Benches
    /\ \/ bench = "list" /\ ListBench
       \/ bench = "hash" /\ HashBench
       \/ bench = "sort" /\ SortBench
       \/ bench = "division" /\ DivisionBench
       \/ bench = "string" /\ StringBench
       \/ bench = "bitmap" /\ BitmapBench
       \/ bench = "keyboard" /\ KeyboardBench
       \/ bench = "display" /\ VgaBench
       \/ bench = "paging" /\ PagingBench
       \/ bench = "mlfqs" /\ MlfqsBench

Next == ListStep \/ HashStep \/ BitmapStep \/ KeyboardStep \/ VgaStep \/ PagingStep \/ MlfqsStep

Spec == Init /\ [][Next]_vars
=============================================================================
