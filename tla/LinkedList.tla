----------------------------- MODULE LinkedList -----------------------------
(***************************************************************************)
(* The doubly linked lists of lib/kernel/list.c as pointers.  A list_elem  *)
(* is a number: the elements are positive, list l has its head at -(2l-1)  *)
(* and its tail at -2l, and 0 is the null pointer.  The state h holds the  *)
(* pointers next and prev, key, what less compares, and panic, which says  *)
(* that an ASSERT failed.                                                  *)
(***************************************************************************)
EXTENDS Integers, Sequences

CONSTANTS Elems, Lists

Null == 0

list_head(l) == -(2 * l - 1)

list_end(l) == -(2 * l)

Nodes == Elems \cup {list_head(l) : l \in Lists} \cup {list_end(l) : l \in Lists}

ListInit(key) ==
    [next |-> [n \in Nodes |-> IF \E l \in Lists : n = list_head(l) THEN n - 1 ELSE Null],
     prev |-> [n \in Nodes |-> IF \E l \in Lists : n = list_end(l) THEN n + 1 ELSE Null],
     key |-> key, panic |-> FALSE]

is_interior(h, e) == e # Null /\ h.prev[e] # Null /\ h.next[e] # Null

is_tail(h, e) == e # Null /\ h.prev[e] # Null /\ h.next[e] = Null

list_begin(h, l) == h.next[list_head(l)]

list_rbegin(h, l) == h.prev[list_end(l)]

list_empty(h, l) == list_begin(h, l) = list_end(l)

less(h, a, b) == h.key[a] < h.key[b]

Assert_(h, c) == [h EXCEPT !.panic = @ \/ ~c]

-----------------------------------------------------------------------------
list_insert(h, before, elem) ==
    LET p == h.prev[before]
    IN  [Assert_(h, is_interior(h, before) \/ is_tail(h, before)) EXCEPT
            !.prev = [@ EXCEPT ![elem] = p, ![before] = elem],
            !.next = [[@ EXCEPT ![elem] = before] EXCEPT ![p] = elem]]

(* Mutant: the element after the range keeps its prev.                     *)
SpliceOneWay(h, before, first, last) ==
    IF first = last THEN h
    ELSE LET end == h.prev[last]
             b == [h EXCEPT !.next[h.prev[first]] = h.next[end]]
             c == [b EXCEPT !.prev[first] = b.prev[before], !.next[end] = before]
         IN  [c EXCEPT !.next[b.prev[before]] = first, !.prev[before] = end]

(* The range from first up to last is unlinked, and then linked in.        *)
list_splice(h, before, first, last) ==
    IF first = last THEN Assert_(h, is_interior(h, before) \/ is_tail(h, before))
    ELSE LET end == h.prev[last]
             a == Assert_(h, /\ is_interior(h, before) \/ is_tail(h, before)
                             /\ is_interior(h, first) /\ is_interior(h, end))
             b == [a EXCEPT !.next[a.prev[first]] = a.next[end],
                            !.prev[a.next[end]] = a.prev[first]]
             c == [b EXCEPT !.prev[first] = b.prev[before], !.next[end] = before]
         IN  [c EXCEPT !.next[b.prev[before]] = first, !.prev[before] = end]

list_push_front(h, l, elem) == list_insert(h, list_begin(h, l), elem)

list_push_back(h, l, elem) == list_insert(h, list_end(l), elem)

(* The element keeps its own pointers.                                     *)
list_remove(h, elem) ==
    [Assert_(h, is_interior(h, elem)) EXCEPT !.next[h.prev[elem]] = h.next[elem],
                                            !.prev[h.next[elem]] = h.prev[elem]]

list_pop_front(h, l) == list_remove(Assert_(h, ~list_empty(h, l)), list_begin(h, l))

list_pop_back(h, l) == list_remove(Assert_(h, ~list_empty(h, l)), list_rbegin(h, l))

-----------------------------------------------------------------------------
(* The loop of list_reverse swaps the pointers of e and of what follows.   *)
RECURSIVE SwapFrom(_, _, _)
SwapFrom(h, e, l) ==
    IF e = list_end(l) THEN h
    ELSE SwapFrom([h EXCEPT !.prev[e] = h.next[e], !.next[e] = h.prev[e]], h.next[e], l)

list_reverse(h, l) ==
    IF list_empty(h, l) THEN h
    ELSE LET a == SwapFrom(h, list_begin(h, l), l)
             b == [a EXCEPT !.next[list_head(l)] = a.prev[list_end(l)],
                            !.prev[list_end(l)] = a.next[list_head(l)]]
             first == b.next[list_head(l)]
             last  == b.prev[list_end(l)]
         IN  [b EXCEPT !.prev[first] = b.next[last], !.next[last] = b.prev[first]]

RECURSIVE find_end_of_run(_, _, _)
find_end_of_run(h, a, b) ==
    LET n == h.next[a]
    IN  IF n # b /\ ~less(h, n, h.prev[n]) THEN find_end_of_run(h, n, b) ELSE n

RECURSIVE inplace_merge(_, _, _, _)
inplace_merge(h, a0, a1b0, b1) ==
    IF a0 = a1b0 \/ a1b0 = b1 THEN h
    ELSE IF ~less(h, a1b0, a0) THEN inplace_merge(h, h.next[a0], a1b0, b1)
    ELSE inplace_merge(list_splice(h, a0, a1b0, h.next[a1b0]), a0, h.next[a1b0], b1)

(* One pass of list_sort from a0 on: the list and the runs it put out.     *)
RECURSIVE MergePass(_, _, _, _)
MergePass(h, a0, l, runs) ==
    IF a0 = list_end(l) THEN [h |-> h, runs |-> runs]
    ELSE LET a1b0 == find_end_of_run(h, a0, list_end(l))
             b1   == find_end_of_run(h, a1b0, list_end(l))
         IN  IF a1b0 = list_end(l) THEN [h |-> h, runs |-> runs + 1]
             ELSE MergePass(inplace_merge(h, a0, a1b0, b1), b1, l, runs + 1)

RECURSIVE list_sort(_, _)
list_sort(h, l) ==
    LET r == MergePass(h, list_begin(h, l), l, 0)
    IN  IF r.runs > 1 THEN list_sort(r.h, l) ELSE r.h

RECURSIVE FirstLess(_, _, _, _)
FirstLess(h, e, l, elem) ==
    IF e = list_end(l) \/ less(h, elem, e) THEN e ELSE FirstLess(h, h.next[e], l, elem)

list_insert_ordered(h, l, elem) == list_insert(h, FirstLess(h, list_begin(h, l), l, elem), elem)

RECURSIVE UniqueFrom(_, _, _, _)
UniqueFrom(h, elem, l, duplicates) ==
    LET n == h.next[elem]
    IN  IF n = list_end(l) THEN h
        ELSE IF less(h, elem, n) \/ less(h, n, elem) THEN UniqueFrom(h, n, l, duplicates)
        ELSE UniqueFrom(list_push_back(list_remove(h, n), duplicates, n), elem, l, duplicates)

list_unique(h, l, duplicates) ==
    IF list_empty(h, l) THEN h ELSE UniqueFrom(h, list_begin(h, l), l, duplicates)

(* The loops of list_max and list_min.                                     *)
RECURSIVE MaxFrom(_, _, _, _)
MaxFrom(h, max, e, l) ==
    IF e = list_end(l) THEN max ELSE MaxFrom(h, IF less(h, max, e) THEN e ELSE max, h.next[e], l)

list_max(h, l) ==
    IF list_empty(h, l) THEN list_end(l)
    ELSE MaxFrom(h, list_begin(h, l), h.next[list_begin(h, l)], l)

RECURSIVE MinFrom(_, _, _, _)
MinFrom(h, min, e, l) ==
    IF e = list_end(l) THEN min ELSE MinFrom(h, IF less(h, e, min) THEN e ELSE min, h.next[e], l)

list_min(h, l) ==
    IF list_empty(h, l) THEN list_end(l)
    ELSE MinFrom(h, list_begin(h, l), h.next[list_begin(h, l)], l)

RECURSIVE SizeFrom(_, _, _)
SizeFrom(h, e, l) == IF e = list_end(l) THEN 0 ELSE 1 + SizeFrom(h, h.next[e], l)

list_size(h, l) == SizeFrom(h, list_begin(h, l), l)

-----------------------------------------------------------------------------
(* The pointers of list l link the elements of q, in both directions.      *)
Links(h, l, q) ==
    LET n == <<list_head(l)>> \o q \o <<list_end(l)>>
    IN  \A i \in 1..(Len(n) - 1) : h.next[n[i]] = n[i + 1] /\ h.prev[n[i + 1]] = n[i]
=============================================================================
