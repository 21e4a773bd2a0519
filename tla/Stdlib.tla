------------------------------- MODULE Stdlib -------------------------------
(***************************************************************************)
(* Sorting, searching and number conversion (lib/stdlib.c) and the long    *)
(* division of lib/arithmetic.c.  An array is a sequence of its elements,  *)
(* which are compared as numbers.  A word has W bits here, 32 in the code, *)
(* and a long word twice as many.                                          *)
(***************************************************************************)
EXTENDS Integers, Sequences

CONSTANT W

do_swap(array, a, b) == [array EXCEPT ![a] = array[b], ![b] = array[a]]

(* The element at i goes down the heap of the first cnt elements.          *)
RECURSIVE heapify(_, _, _)
heapify(array, i, cnt) ==
    LET left  == 2 * i
        right == 2 * i + 1
        m1 == IF left <= cnt /\ array[left] > array[i] THEN left ELSE i
        max == IF right <= cnt /\ array[right] > array[m1] THEN right ELSE m1
    IN  IF max = i THEN array ELSE heapify(do_swap(array, i, max), max, cnt)

RECURSIVE BuildHeap(_, _)
BuildHeap(array, i) ==
    IF i = 0 THEN array ELSE BuildHeap(heapify(array, i, Len(array)), i - 1)

RECURSIVE SortHeap(_, _)
SortHeap(array, i) ==
    IF i <= 1 THEN array ELSE SortHeap(heapify(do_swap(array, 1, i), 1, i - 1), i - 1)

sort(array) == SortHeap(BuildHeap(array, Len(array) \div 2), Len(array))

(* The position of the key, from 0, or -1 when it is not in the array.     *)
RECURSIVE SearchFrom(_, _, _, _)
SearchFrom(key, array, first, last) ==
    LET middle == first + (last - first) \div 2
    IN  IF first >= last THEN -1
        ELSE IF key < array[middle + 1] THEN SearchFrom(key, array, first, middle)
        ELSE IF key > array[middle + 1] THEN SearchFrom(key, array, middle + 1, last)
        ELSE middle

binary_search(key, array) == SearchFrom(key, array, 0, Len(array))

-----------------------------------------------------------------------------
Word(x) == x % 2^W

Long(x) == x % 2^(2 * W)

(* DIVL, and whether it traps.                                             *)
divl(n, d) == n \div d

divl_traps(n, d) == n \div d >= 2^W

(* The number of leading zeros of a word that is not zero, by halving.     *)
RECURSIVE CountZeros(_, _)
CountZeros(x, step) ==
    IF step = 0 THEN 0
    ELSE IF x <= 2^(W - step) - 1 THEN step + CountZeros(Word(x * 2^step), step \div 2)
    ELSE CountZeros(x, step \div 2)

nlz(x) == CountZeros(x, W \div 2)

(* The arguments of the divl instruction that udiv64 executes.             *)
DivlOperands(n, d) ==
    LET n1 == n \div 2^W
        s  == nlz(d \div 2^W)
    IN  IF d \div 2^W = 0 THEN <<2^W * (n1 % d) + Word(n), d>>
        ELSE <<n \div 2, Long(d * 2^s) \div 2^W>>

(* Mutant: the estimate is taken to be exact.                              *)
UdivUncorrected(n, d) ==
    LET n1 == n \div 2^W
        s  == nlz(d \div 2^W)
        q  == divl(DivlOperands(n, d)[1], DivlOperands(n, d)[2])
    IN  IF d \div 2^W = 0 THEN Long(q + 2^W * (n1 \div d))
        ELSE IF n < d THEN 0 ELSE q \div 2^(W - 1 - s)

udiv64(n, d) ==
    LET n1 == n \div 2^W
        s  == nlz(d \div 2^W)
        q  == divl(DivlOperands(n, d)[1], DivlOperands(n, d)[2])
        q1 == q \div 2^(W - 1 - s)
    IN  IF d \div 2^W = 0 THEN Long(q + 2^W * (n1 \div d))
        ELSE IF n < d THEN 0
        ELSE IF Long(n - (q1 - 1) * d) < d THEN q1 - 1 ELSE q1

(* The result is a word although the remainder may be a long word.         *)
umod64(n, d) == Word(Long(n - d * udiv64(n, d)))

(* A long word as a signed number, and back.                               *)
Signed(x) == IF x >= 2^(2 * W - 1) THEN x - 2^(2 * W) ELSE x

abs(n) == IF n >= 0 THEN n ELSE Long(-n)

(* n and d are signed.                                                     *)
sdiv64(n, d) ==
    LET q_abs == udiv64(abs(n), abs(d))
    IN  IF (n < 0) = (d < 0) THEN Signed(q_abs) ELSE Signed(Long(-q_abs))

SignedWord(x) == IF Word(x) >= 2^(W - 1) THEN Word(x) - 2^W ELSE Word(x)

(* The result is a signed word.                                            *)
smod64(n, d) == SignedWord(n - d * sdiv64(n, d))

-----------------------------------------------------------------------------
(* atoi on digits after an optional sign; the value is kept negative while *)
(* it is built, modulo the width of an int.                                *)
RECURSIVE Digits(_, _)
Digits(s, value) ==
    IF s = <<>> THEN value ELSE Digits(Tail(s), value * 10 - Head(s))

atoi(negative, digits) ==
    LET value == SignedWord(Digits(digits, 0))
    IN  IF negative THEN value ELSE SignedWord(-value)
=============================================================================
