-------------------------------- MODULE Hash --------------------------------
(***************************************************************************)
(* Hash tables (lib/kernel/hash.c).  A table h is a record of elem_cnt and *)
(* buckets, a function from 0..bucket_cnt-1 to lists; a list is the        *)
(* sequence of its elements.  Two elements are equal when their keys are.  *)
(***************************************************************************)
EXTENDS Integers, SequencesExt

CONSTANTS KeyOf,        \* the key of each element
          HashOf,       \* the hash function, by key
          MIN_BUCKETS,  \* 4 in hash_init and rehash
          BEST_ELEMS_PER_BUCKET

NoElem == 0

bucket_cnt(h) == Cardinality(DOMAIN h.buckets)

EmptyBuckets(cnt) == [i \in 0..(cnt - 1) |-> <<>>]

(* hash_init, when the buckets could be allocated.                         *)
hash_init == [elem_cnt |-> 0, buckets |-> EmptyBuckets(MIN_BUCKETS)]

hash_clear(h) == [elem_cnt |-> 0, buckets |-> EmptyBuckets(bucket_cnt(h))]

(* The hash value & (bucket_cnt - 1); bucket_cnt is a power of 2.          *)
find_bucket(h, e) == HashOf[KeyOf[e]] % bucket_cnt(h)

(* The first element in the bucket that is equal to e.                     *)
find_elem(h, bucket, e) ==
    LET equal == {i \in DOMAIN h.buckets[bucket] : KeyOf[h.buckets[bucket][i]] = KeyOf[e]}
    IN  IF equal = {} THEN NoElem ELSE h.buckets[bucket][Min(equal)]

insert_elem(h, bucket, e) ==
    [h EXCEPT !.elem_cnt = @ + 1, !.buckets[bucket] = <<e>> \o @]

remove_elem(h, e) ==
    [elem_cnt |-> h.elem_cnt - 1,
     buckets |-> [i \in DOMAIN h.buckets |-> SelectSeq(h.buckets[i], LAMBDA x : x # e)]]

(* The elements in the order in which hash_apply visits them.              *)
hash_apply(h) ==
    FlattenSeq([i \in 1..bucket_cnt(h) |-> h.buckets[i - 1]])

-----------------------------------------------------------------------------
(* Clearing the lowest bits of x leaves the greatest power of 2 up to x.   *)
PowersOf2 == {1, 2, 4, 8, 16, 32, 64}

new_bucket_cnt(h) ==
    LET n == Max({h.elem_cnt \div BEST_ELEMS_PER_BUCKET, MIN_BUCKETS})
    IN  Max({x \in PowersOf2 : x <= n})

(* Mutant: the elements are found by the number of the old buckets.        *)
RehashOldCount(h, memory) ==
    LET n == new_bucket_cnt(h)
        move(new, e) == insert_elem(new, find_bucket(h, e) % n, e)
    IN  IF n = bucket_cnt(h) \/ ~memory THEN h
        ELSE [FoldLeft(move, [elem_cnt |-> 0, buckets |-> EmptyBuckets(n)], hash_apply(h))
              EXCEPT !.elem_cnt = h.elem_cnt]

(* Each element in turn is moved to the front of its new bucket; without   *)
(* memory for the new buckets nothing happens.                             *)
rehash(h, memory) ==
    LET n == new_bucket_cnt(h)
        move(new, e) == insert_elem(new, find_bucket(new, e), e)
    IN  IF n = bucket_cnt(h) \/ ~memory THEN h
        ELSE [FoldLeft(move, [elem_cnt |-> 0, buckets |-> EmptyBuckets(n)], hash_apply(h))
              EXCEPT !.elem_cnt = h.elem_cnt]

hash_find(h, e) == find_elem(h, find_bucket(h, e), e)

hash_insert(h, new, memory) ==
    rehash(IF hash_find(h, new) = NoElem THEN insert_elem(h, find_bucket(h, new), new) ELSE h, memory)

hash_replace(h, new, memory) ==
    LET old == hash_find(h, new)
    IN  rehash(insert_elem(IF old = NoElem THEN h ELSE remove_elem(h, old), find_bucket(h, new), new), memory)

hash_delete(h, e, memory) ==
    LET found == hash_find(h, e)
    IN  IF found = NoElem THEN h ELSE rehash(remove_elem(h, found), memory)

-----------------------------------------------------------------------------
(* An iterator is a bucket and a position in its list, 0 for the head.     *)
hash_first == [bucket |-> 0, pos |-> 0]

(* The next place that holds an element, past all empty buckets; a bucket  *)
(* of bucket_cnt says that there is none.                                  *)
hash_next(h, i) ==
    LET later == {b \in (i.bucket + 1)..(bucket_cnt(h) - 1) : h.buckets[b] # <<>>}
    IN  IF i.pos < Len(h.buckets[i.bucket]) THEN [i EXCEPT !.pos = @ + 1]
        ELSE [bucket |-> Min(later \cup {bucket_cnt(h)}), pos |-> 1]

hash_cur(h, i) == h.buckets[i.bucket][i.pos]
=============================================================================
