------------------------------- MODULE Bitmap -------------------------------
(***************************************************************************)
(* Bitmaps (lib/kernel/bitmap.c).  A bitmap is the record of its size in   *)
(* bits and its array of elements of ELEM_BITS bits each.                  *)
(***************************************************************************)
EXTENDS Integers, FiniteSets

CONSTANT ELEM_BITS   \* 32 on the 80x86

ASSUME BitmapAssumption == ELEM_BITS \in Nat \ {0}

BITMAP_ERROR == -1

elem_idx(bit_idx) == bit_idx \div ELEM_BITS

bit_mask(bit_idx) == 2 ^ (bit_idx % ELEM_BITS)

DIV_ROUND_UP(x, y) == (x + y - 1) \div y

elem_cnt(cnt) == DIV_ROUND_UP(cnt, ELEM_BITS)

byte_cnt(cnt) == (ELEM_BITS \div 8) * elem_cnt(cnt)

(* Two words of struct bitmap and the elements.                            *)
bitmap_buf_size(cnt) == 8 + byte_cnt(cnt)

Elements == 0..(2 ^ ELEM_BITS - 1)

Bitmaps(cnt) == [bit_cnt : {cnt}, bits : [0..(elem_cnt(cnt) - 1) -> Elements]]

(* One less than a power of 2, so that & last_mask is a remainder.         *)
last_mask(b) ==
    IF b.bit_cnt % ELEM_BITS # 0 THEN 2 ^ (b.bit_cnt % ELEM_BITS) - 1 ELSE 2 ^ ELEM_BITS - 1

bitmap_test(b, idx) == (b.bits[elem_idx(idx)] \div bit_mask(idx)) % 2 = 1

(* bitmap_mark and bitmap_reset: an OR and an AND with the bit's mask.     *)
bitmap_set(b, idx, value) ==
    [b EXCEPT !.bits[elem_idx(idx)] =
        IF bitmap_test(b, idx) = value THEN @
        ELSE IF value THEN @ + bit_mask(idx) ELSE @ - bit_mask(idx)]

bitmap_flip(b, idx) == bitmap_set(b, idx, ~bitmap_test(b, idx))

(* The loop over the cnt bits from start on.                               *)
bitmap_set_multiple(b, start, cnt, value) ==
    LET loop[i \in 0..cnt] ==
            IF i = 0 THEN b ELSE bitmap_set(loop[i - 1], start + i - 1, value)
    IN  loop[cnt]

bitmap_count(b, start, cnt, value) ==
    Cardinality({i \in start..(start + cnt - 1) : bitmap_test(b, i) = value})

bitmap_contains(b, start, cnt, value) ==
    \E i \in start..(start + cnt - 1) : bitmap_test(b, i) = value

bitmap_all(b, start, cnt) == ~bitmap_contains(b, start, cnt, FALSE)

(* The positions at which bitmap_scan looks for a group, in this order.    *)
ScanStarts(b, start, cnt) == IF cnt <= b.bit_cnt THEN start..(b.bit_cnt - cnt) ELSE {}

bitmap_scan(b, start, cnt, value) ==
    LET found == {i \in ScanStarts(b, start, cnt) : ~bitmap_contains(b, i, cnt, ~value)}
    IN  IF found = {} THEN BITMAP_ERROR ELSE CHOOSE i \in found : \A j \in found : i <= j

bitmap_scan_and_flip(b, start, cnt, value) ==
    LET idx == bitmap_scan(b, start, cnt, value)
    IN  IF idx = BITMAP_ERROR THEN b ELSE bitmap_set_multiple(b, idx, cnt, ~value)

(* bitmap_create and bitmap_create_in_buf clear the bits that count; the   *)
(* rest of the last element is what the memory, here the bitmap garbage,   *)
(* held.                                                                   *)
bitmap_create(garbage) == bitmap_set_multiple(garbage, 0, garbage.bit_cnt, FALSE)

(* The file holds elements; & last_mask is applied to the last one.        *)
bitmap_read(b, file) ==
    IF b.bit_cnt = 0 THEN b
    ELSE [b EXCEPT !.bits = [file EXCEPT ![elem_cnt(b.bit_cnt) - 1] = @ % (last_mask(b) + 1)]]

bitmap_write(b) == b.bits
=============================================================================
