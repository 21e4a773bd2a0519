----------------------------- MODULE KernelList -----------------------------
(***************************************************************************)
(* The kernel's doubly linked lists (lib/kernel/list.c) as sequences.      *)
(* A list_elem is embedded in the object it links, so a list is the        *)
(* sequence of those objects; list_begin is position 1 and list_end the    *)
(* position after the last.  list_pop_front is Head and Tail, list_empty   *)
(* the test against <<>>, list_push_front the concatenation <<e>> \o list. *)
(*                                                                         *)
(* No operator here is recursive: the position an insertion picks is the   *)
(* least one of a set, and a rearrangement is described by the function    *)
(* from new positions to old ones.                                         *)
(***************************************************************************)
EXTENDS Integers, Sequences, FiniteSetsExt, Functions

-----------------------------------------------------------------------------
(* The list with elem before position i; its last element, and the rest.   *)
list_insert(list, i, elem) == SubSeq(list, 1, i - 1) \o <<elem>> \o SubSeq(list, i, Len(list))

list_back(list) == list[Len(list)]

list_pop_back(list) == SubSeq(list, 1, Len(list) - 1)

(* Inserts elem before the first element that it is less than, at the end  *)
(* when there is none.  The comparison is a function of the first          *)
(* element and then of the second.                                         *)
list_insert_ordered(list, elem, less) ==
    LET before == Min({i \in 1..(Len(list) + 1) :
                         i = Len(list) + 1 \/ less[elem][list[i]]})
    IN  list_insert(list, before, elem)

(* Unlinks elem.  The caller guarantees that elem is on the list; on any   *)
(* other list the operator changes nothing, so that a caller that does not *)
(* know which list holds elem applies it to all of them.                   *)
list_remove(list, elem) ==
    LET at == {i \in 1..Len(list) : list[i] = elem}
    IN  IF at = {} THEN list
        ELSE SubSeq(list, 1, Min(at) - 1) \o SubSeq(list, Min(at) + 1, Len(list))

-----------------------------------------------------------------------------
(* The increasing enumerations of a finite set of positions.               *)
Enumerations(K, n) ==
    {f \in UNION {[1..m -> K] : m \in 0..n} :
        /\ \A i, j \in DOMAIN f : i < j => f[i] < f[j]
        /\ \A k \in K : \E i \in DOMAIN f : f[i] = k}

(* The elements of a sequence at the positions in K, in their old order.   *)
Keep(s, K) ==
    LET f == CHOOSE f \in Enumerations(K, Len(s)) : TRUE
    IN  [i \in DOMAIN f |-> s[f[i]]]

(* The rearrangements of a list that are sorted by less and stable.        *)
SortedOrders(list, less) ==
    {f \in [1..Len(list) -> 1..Len(list)] :
        \A i, j \in DOMAIN f :
            i < j => /\ f[i] # f[j]
                     /\ ~less[list[f[j]]][list[f[i]]]
                     /\ ~less[list[f[i]]][list[f[j]]] => f[i] < f[j]}

(* list_sort is a natural merge sort whose merge keeps the left element    *)
(* when neither is less, hence stable.                                     *)
list_sort(list, less) ==
    LET f == CHOOSE f \in SortedOrders(list, less) : TRUE
    IN  [i \in DOMAIN f |-> list[f[i]]]
=============================================================================
