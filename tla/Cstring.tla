------------------------------ MODULE Cstring -------------------------------
(***************************************************************************)
(* Blocks of bytes and strings (lib/string.c).  The memory m maps the      *)
(* addresses 0..N-1 to bytes, a pointer is an address and Null is the null *)
(* pointer.  A loop over bytes is a recursive operator; the operators that *)
(* write return the memory they leave.                                     *)
(***************************************************************************)
EXTENDS Integers, Sequences

Null == -1

(* Bytes are copied from the lowest address up: memcpy, and memmove when   *)
(* dst is below src.                                                       *)
RECURSIVE memcpy(_, _, _, _)
memcpy(m, dst, src, size) ==
    IF size = 0 THEN m
    ELSE memcpy([m EXCEPT ![dst] = m[src]], dst + 1, src + 1, size - 1)

RECURSIVE CopyDown(_, _, _, _)
CopyDown(m, dst, src, size) ==
    IF size = 0 THEN m
    ELSE CopyDown([m EXCEPT ![dst + size - 1] = m[src + size - 1]], dst, src, size - 1)

memmove(m, dst, src, size) ==
    IF dst < src THEN memcpy(m, dst, src, size) ELSE CopyDown(m, dst, src, size)

RECURSIVE memset(_, _, _, _)
memset(m, dst, value, size) ==
    IF size = 0 THEN m ELSE memset([m EXCEPT ![dst] = value], dst + 1, value, size - 1)

RECURSIVE memcmp(_, _, _, _)
memcmp(m, a, b, size) ==
    IF size = 0 THEN 0
    ELSE IF m[a] # m[b] THEN IF m[a] > m[b] THEN 1 ELSE -1
    ELSE memcmp(m, a + 1, b + 1, size - 1)

RECURSIVE strcmp(_, _, _)
strcmp(m, a, b) ==
    IF m[a] # 0 /\ m[a] = m[b] THEN strcmp(m, a + 1, b + 1)
    ELSE IF m[a] < m[b] THEN -1 ELSE IF m[a] > m[b] THEN 1 ELSE 0

RECURSIVE memchr(_, _, _, _)
memchr(m, block, ch, size) ==
    IF size = 0 THEN Null
    ELSE IF m[block] = ch THEN block
    ELSE memchr(m, block + 1, ch, size - 1)

RECURSIVE strchr(_, _, _)
strchr(m, string, c) ==
    IF m[string] = c THEN string
    ELSE IF m[string] = 0 THEN Null
    ELSE strchr(m, string + 1, c)

RECURSIVE strcspn(_, _, _)
strcspn(m, string, stop) ==
    IF m[string] = 0 \/ strchr(m, stop, m[string]) # Null THEN 0
    ELSE 1 + strcspn(m, string + 1, stop)

RECURSIVE strpbrk(_, _, _)
strpbrk(m, string, stop) ==
    IF m[string] = 0 THEN Null
    ELSE IF strchr(m, stop, m[string]) # Null THEN string
    ELSE strpbrk(m, string + 1, stop)

(* The loop of strrchr, with the occurrence p it found last.               *)
RECURSIVE LastFrom(_, _, _, _)
LastFrom(m, string, c, p) ==
    IF m[string] = 0 THEN p
    ELSE LastFrom(m, string + 1, c, IF m[string] = c THEN string ELSE p)

strrchr(m, string, c) == LastFrom(m, string, c, Null)

RECURSIVE strspn(_, _, _)
strspn(m, string, skip) ==
    IF m[string] = 0 \/ strchr(m, skip, m[string]) = Null THEN 0
    ELSE 1 + strspn(m, string + 1, skip)

RECURSIVE strlen(_, _)
strlen(m, string) == IF m[string] = 0 THEN 0 ELSE 1 + strlen(m, string + 1)

RECURSIVE strnlen(_, _, _)
strnlen(m, string, maxlen) ==
    IF m[string] = 0 \/ maxlen = 0 THEN 0 ELSE 1 + strnlen(m, string + 1, maxlen - 1)

strstr(m, haystack, needle) ==
    LET fits == {i \in 0..(strlen(m, haystack) - strlen(m, needle)) :
                    memcmp(m, haystack + i, needle, strlen(m, needle)) = 0}
    IN  IF fits = {} THEN Null ELSE haystack + CHOOSE i \in fits : \A j \in fits : i <= j

-----------------------------------------------------------------------------
(* The loops of strtok_r: past the delimiters, which end at the null byte, *)
(* and past the token.                                                     *)
RECURSIVE SkipDelimiters(_, _, _)
SkipDelimiters(m, s, delimiters) ==
    IF m[s] # 0 /\ strchr(m, delimiters, m[s]) # Null
    THEN SkipDelimiters(m, s + 1, delimiters) ELSE s

RECURSIVE SkipToken(_, _, _)
SkipToken(m, s, delimiters) ==
    IF strchr(m, delimiters, m[s]) = Null THEN SkipToken(m, s + 1, delimiters) ELSE s

(* s is the string or the saved position.                                  *)
strtok_r(m, s, delimiters) ==
    LET token == SkipDelimiters(m, s, delimiters)
        end   == SkipToken(m, token, delimiters)
    IN  IF m[token] = 0 THEN [m |-> m, save |-> token, token |-> Null]
        ELSE [m |-> [m EXCEPT ![end] = 0], token |-> token,
              save |-> IF m[end] # 0 THEN end + 1 ELSE end]

-----------------------------------------------------------------------------
(* The memory strlcpy and strlcat leave, and the length they return.       *)
strlcpy(m, dst, src, size) ==
    LET src_len == strlen(m, src)
        dst_len == IF src_len < size - 1 THEN src_len ELSE size - 1
    IN  [ret |-> src_len,
         m |-> IF size = 0 THEN m ELSE [memcpy(m, dst, src, dst_len) EXCEPT ![dst + dst_len] = 0]]

strlcat(m, dst, src, size) ==
    LET src_len == strlen(m, src)
        dst_len == strlen(m, dst)
        room == size - dst_len - 1
        copy_cnt == IF src_len < room THEN src_len ELSE room
    IN  [ret |-> src_len + dst_len,
         m |-> IF dst_len >= size THEN m
               ELSE [memcpy(m, dst + dst_len, src, copy_cnt) EXCEPT ![dst + dst_len + copy_cnt] = 0]]
=============================================================================
