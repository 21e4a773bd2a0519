--------------------------- MODULE ConsoleProofs ----------------------------
(***************************************************************************)
(* Interrupt queues, the serial port and the console, for every size of    *)
(* the queues, every number of threads, every set of keys and lines of any *)
(* length.                                                                 *)
(*                                                                         *)
(* The bytes of the serial port and of the input buffer keep their order   *)
(* and no interrupt is lost; the lemmas on Intq show that its circular     *)
(* buffers are queues: intq_putc appends a byte, intq_getc takes the       *)
(* first.  console_lock_depth counts the calls that the holder is inside   *)
(* of, and the bytes of a line stay together; the invariant follows each   *)
(* writer through serial_putc, where it may sleep and be woken by an       *)
(* interrupt handler.  A third invariant says who may have the lock of a   *)
(* queue: with it no ASSERT fails while one thread reads keys.             *)
(***************************************************************************)
EXTENDS CharDevices, TLAPS

(* The characters of the keys that are used.                               *)
Symbols == UNION {map_key(k, code) :
    k \in {invariant_keymap, unshifted_keymap, shifted_keymap}, code \in Scancodes}

(* The bytes that keyboard_interrupt can make of them.                     *)
KeyByte == UNION {UNION {{a + 0, a + 128} : a \in {c - 64, tolower(c), c}} : c \in Symbols}

(* Everything that a queue can hold.                                       *)
Byte == Threads \cup KeyByte \cup {NULL, 0, "handler", "panic"}

(* What a waiter's slot or the holder of a queue's lock can be.            *)
Waiter == Threads \cup {NULL}

(* The positions of a queue's buffer.                                      *)
Pos == 0..(INTQ_BUFSIZE - 1)

(* The type of struct intq.                                                *)
IntqType == [buf : [Pos -> Byte], head : Pos, tail : Pos,
             not_full : Waiter, not_empty : Waiter, lock : Waiter]

(* next's remainder does not change a position inside the buffer.          *)
LEMMA ModBelow ==
    ASSUME NEW N \in Nat \ {0}, NEW x \in 0..(N - 1)
    PROVE  x % N = x
OBVIOUS

(* next's remainder brings a position past the end back to its start.      *)
LEMMA ModAbove ==
    ASSUME NEW N \in Nat \ {0}, NEW x \in N..(2 * N - 1)
    PROVE  x % N = x - N
OBVIOUS

(* next moves to the position behind, or from the last to the first.       *)
LEMMA NextIs ==
    ASSUME NEW pos \in Pos
    PROVE  /\ next(pos) = IF pos = INTQ_BUFSIZE - 1 THEN 0 ELSE pos + 1
           /\ next(pos) \in Pos /\ next(pos) # pos
<1>1. CASE pos = INTQ_BUFSIZE - 1
  BY <1>1, ModAbove, IntqAssumption DEF next, Pos
<1>2. CASE pos # INTQ_BUFSIZE - 1
  BY <1>2, ModBelow, IntqAssumption DEF next, Pos
<1> QED BY <1>1, <1>2, IntqAssumption, Zenon DEF Pos

(* How many bytes are between tail and head, and where the i-th is.        *)
Count(q) == IF q.tail <= q.head THEN q.head - q.tail ELSE q.head - q.tail + INTQ_BUFSIZE

(* The place of byte i of the queue.                                       *)
Slot(q, i) == IF q.tail + i - 1 < INTQ_BUFSIZE THEN q.tail + i - 1 ELSE q.tail + i - 1 - INTQ_BUFSIZE

(* Bytes reads the buffer from tail to head, around its end.               *)
LEMMA BytesAre ==
    ASSUME NEW q \in IntqType
    PROVE  /\ Bytes(q) \in Seq(Byte)
           /\ Len(Bytes(q)) = Count(q)
           /\ Count(q) \in Pos
           /\ \A i \in 1..Count(q) : Slot(q, i) \in Pos /\ Bytes(q)[i] = q.buf[Slot(q, i)]
<1>1. (q.head - q.tail + INTQ_BUFSIZE) % INTQ_BUFSIZE = Count(q) /\ Count(q) \in Pos
  <2>0. q.head \in Pos /\ q.tail \in Pos
    BY Zenon DEF IntqType
  <2>1. CASE q.tail <= q.head
    BY <2>0, <2>1, ModAbove, IntqAssumption DEF Count, Pos
  <2>2. CASE q.tail > q.head
    BY <2>0, <2>2, ModBelow, IntqAssumption DEF Count, Pos
  <2> QED BY <2>0, <2>1, <2>2 DEF Pos
<1>2. ASSUME NEW i \in 1..Count(q)
      PROVE  (q.tail + i - 1) % INTQ_BUFSIZE = Slot(q, i) /\ Slot(q, i) \in Pos
  <2>0. q.head \in Pos /\ q.tail \in Pos /\ i \in Nat \ {0}
    BY <1>1 DEF IntqType, Pos
  <2>1. CASE q.tail + i - 1 < INTQ_BUFSIZE
    <3>1. q.tail + i - 1 \in 0..(INTQ_BUFSIZE - 1)
      BY <2>0, <2>1, IntqAssumption DEF Pos
    <3> QED BY <3>1, <2>1, ModBelow, IntqAssumption, Zenon DEF Slot, Pos
  <2>2. CASE q.tail + i - 1 >= INTQ_BUFSIZE
    <3>1. PICK x \in INTQ_BUFSIZE..(2 * INTQ_BUFSIZE - 1) : x = q.tail + i - 1
      BY <1>1, <2>0, <2>2, IntqAssumption DEF Pos
    <3>2. x % INTQ_BUFSIZE = x - INTQ_BUFSIZE
      BY ModAbove, IntqAssumption, Zenon
    <3>3. Slot(q, i) = x - INTQ_BUFSIZE
      BY <3>1, <2>0, IntqAssumption DEF Slot, Pos
    <3> QED BY <3>1, <3>2, <3>3, IntqAssumption DEF Pos
  <2> QED BY <2>0, <2>1, <2>2, IntqAssumption DEF Pos
<1>3. Bytes(q) = [i \in 1..Count(q) |-> q.buf[Slot(q, i)]]
  BY <1>1, <1>2, Zenon DEF Bytes
<1>4. \A i \in 1..Count(q) : q.buf[Slot(q, i)] \in Byte
  BY <1>2, Zenon DEF IntqType
<1>5. Count(q) \in Nat
  BY <1>1 DEF Pos
<1> HIDE DEF Count, Slot, Byte, Pos
<1> QED BY <1>1, <1>2, <1>3, <1>4, <1>5

(* intq_putc on a queue that is not full appends the byte and overwrites   *)
(* none.                                                                   *)
LEMMA PutAppends ==
    ASSUME NEW q \in IntqType, NEW byte \in Byte, ~intq_full(q)
    PROVE  /\ Put(q, byte) \in IntqType
           /\ Bytes(Put(q, byte)) = Append(Bytes(q), byte)
<1> DEFINE p == Put(q, byte)
<1>1. next(q.head) # q.tail /\ q.head \in Pos /\ q.tail \in Pos
  BY Zenon DEF IntqType, intq_full
<1>2. next(q.head) \in Pos /\ next(q.head) = IF q.head = INTQ_BUFSIZE - 1 THEN 0 ELSE q.head + 1
  BY <1>1, NextIs, Zenon
<1>3. p \in IntqType
  BY <1>2, Zenon DEF Put, IntqType, Waiter
<1>4. /\ p.tail = q.tail /\ p.head = next(q.head)
      /\ p.buf = [q.buf EXCEPT ![q.head] = byte]
  BY Zenon DEF Put, IntqType
<1>5. Count(p) = Count(q) + 1 /\ Count(q) \in Nat
  BY <1>1, <1>2, <1>4, IntqAssumption DEF Count, Pos
<1>6. \A i \in 1..Count(q) : Slot(p, i) = Slot(q, i) /\ Slot(q, i) # q.head
  BY <1>1, <1>2, <1>4, <1>5, IntqAssumption DEF Count, Slot, Pos
<1>7. Slot(p, Count(q) + 1) = q.head
  BY <1>1, <1>2, <1>4, IntqAssumption DEF Count, Slot, Pos
<1>8. q.buf \in [Pos -> Byte] /\ p.buf[q.head] = byte
      /\ \A x \in Pos : x # q.head => p.buf[x] = q.buf[x]
  BY <1>1, <1>4, Zenon DEF IntqType
<1> HIDE DEF p
<1>9. /\ Bytes(q) \in Seq(Byte) /\ Len(Bytes(q)) = Count(q)
      /\ \A i \in 1..Count(q) : Slot(q, i) \in Pos /\ Bytes(q)[i] = q.buf[Slot(q, i)]
  BY BytesAre, Zenon
<1>10. /\ Bytes(p) \in Seq(Byte) /\ Len(Bytes(p)) = Count(p)
       /\ \A i \in 1..Count(p) : Slot(p, i) \in Pos /\ Bytes(p)[i] = p.buf[Slot(p, i)]
  BY <1>3, BytesAre, Zenon
<1>11. \A i \in 1..Count(q) : Bytes(p)[i] = Bytes(q)[i]
  BY <1>5, <1>6, <1>8, <1>9, <1>10
<1>12. Bytes(p)[Count(q) + 1] = byte
  BY <1>5, <1>7, <1>8, <1>10
<1>13. Bytes(p) = Append(Bytes(q), byte)
  BY <1>5, <1>9, <1>10, <1>11, <1>12
<1> QED BY <1>3, <1>13, Zenon DEF p

(* intq_getc on a queue that is not empty takes the byte that was put in   *)
(* first and leaves the others.                                            *)
LEMMA GotRemovesHead ==
    ASSUME NEW q \in IntqType, ~intq_empty(q)
    PROVE  /\ Got(q) \in IntqType
           /\ q.buf[q.tail] \in Byte
           /\ Bytes(q) = <<q.buf[q.tail]>> \o Bytes(Got(q))
<1> DEFINE p == Got(q)
<1>1. q.head # q.tail /\ q.head \in Pos /\ q.tail \in Pos
  BY Zenon DEF IntqType, intq_empty
<1>2. next(q.tail) \in Pos /\ next(q.tail) = IF q.tail = INTQ_BUFSIZE - 1 THEN 0 ELSE q.tail + 1
  BY <1>1, NextIs, Zenon
<1>3. p \in IntqType
  BY <1>1, <1>2, Zenon DEF Got, IntqType, Waiter, Byte
<1>4. /\ p.tail = next(q.tail) /\ p.head = q.head
      /\ p.buf = [q.buf EXCEPT ![q.tail] = NULL]
  BY Zenon DEF Got, IntqType
<1>5. Count(q) = Count(p) + 1 /\ Count(p) \in Nat
  BY <1>1, <1>2, <1>4, IntqAssumption DEF Count, Pos
<1>6. \A i \in 1..Count(p) : Slot(p, i) = Slot(q, i + 1) /\ Slot(p, i) # q.tail
  BY <1>1, <1>2, <1>4, <1>5, IntqAssumption DEF Count, Slot, Pos
<1>7. Slot(q, 1) = q.tail
  BY <1>1, IntqAssumption DEF Slot, Pos
<1>8. q.buf \in [Pos -> Byte] /\ \A x \in Pos : x # q.tail => p.buf[x] = q.buf[x]
  BY <1>1, <1>4, Zenon DEF IntqType
<1> HIDE DEF p
<1>9. /\ Bytes(q) \in Seq(Byte) /\ Len(Bytes(q)) = Count(q)
      /\ \A i \in 1..Count(q) : Slot(q, i) \in Pos /\ Bytes(q)[i] = q.buf[Slot(q, i)]
  BY BytesAre, Zenon
<1>10. /\ Bytes(p) \in Seq(Byte) /\ Len(Bytes(p)) = Count(p)
       /\ \A i \in 1..Count(p) : Slot(p, i) \in Pos /\ Bytes(p)[i] = p.buf[Slot(p, i)]
  BY <1>3, BytesAre, Zenon
<1>11. \A i \in 1..Count(p) : Bytes(p)[i] = Bytes(q)[i + 1]
  BY <1>5, <1>6, <1>8, <1>9, <1>10
<1>12. Bytes(q)[1] = q.buf[q.tail] /\ q.buf[q.tail] \in Byte
  BY <1>1, <1>5, <1>7, <1>8, <1>9
<1>13. Bytes(q) = <<q.buf[q.tail]>> \o Bytes(p)
  BY <1>5, <1>9, <1>10, <1>11, <1>12
<1> QED BY <1>3, <1>12, <1>13, Zenon DEF p

(* serial_flush leaves an empty queue.                                     *)
LEMMA EmptiedIsEmpty ==
    ASSUME NEW q \in IntqType
    PROVE  Emptied(q) \in IntqType /\ Bytes(Emptied(q)) = <<>>
<1>1. Emptied(q) \in IntqType
  BY IntqAssumption, Zenon DEF Emptied, intq_init, IntqType, Waiter, Byte, Pos
<1>2. Count(Emptied(q)) = 0
  BY DEF Count, Emptied, intq_init, IntqType, Pos
<1>3. Bytes(Emptied(q)) \in Seq(Byte) /\ Len(Bytes(Emptied(q))) = 0
  BY <1>1, <1>2, BytesAre, Zenon
<1> QED BY <1>1, <1>3

(* A change of waiters or of the lock is no change of the bytes.           *)
LEMMA SameBytes ==
    ASSUME NEW q, NEW p, p.buf = q.buf, p.head = q.head, p.tail = q.tail
    PROVE  Bytes(p) = Bytes(q) /\ (intq_empty(p) <=> intq_empty(q))
BY Zenon DEF Bytes, intq_empty

(* intq_empty is right about the queue's contents.                         *)
LEMMA EmptyHasNoBytes ==
    ASSUME NEW q \in IntqType, intq_empty(q)
    PROVE  Bytes(q) = <<>>
<1>1. Count(q) = 0
  BY DEF Count, intq_empty, IntqType, Pos
<1>2. Bytes(q) \in Seq(Byte) /\ Len(Bytes(q)) = 0
  BY <1>1, BytesAre, Zenon
<1> QED BY <1>2

(* A byte at the end of a concatenation.                                   *)
LEMMA ConcatAppend ==
    ASSUME NEW S, NEW s \in Seq(S), NEW u \in Seq(S), NEW b \in S
    PROVE  s \o Append(u, b) = Append(s \o u, b)
OBVIOUS

(* The first byte of the second sequence moves to the first.               *)
LEMMA ConcatHead ==
    ASSUME NEW S, NEW s \in Seq(S), NEW u \in Seq(S), NEW b \in S
    PROVE  s \o (<<b>> \o u) = Append(s, b) \o u
BY SMTT(30)

(* keyboard_interrupt puts only the keyboard's bytes into the buffer.      *)
LEMMA KeyBytesType ==
    ASSUME NEW code \in Scancodes, NEW release
    PROVE  KeyBytes(code, release) \subseteq KeyByte
<1>1. Chars(code) \subseteq Symbols
  BY DEF Chars, Symbols
<1>2. ASSUME NEW c \in Symbols
      PROVE  Modified(c) \in KeyByte
  <2> DEFINE a == IF ctrl /\ c >= 64 /\ c < 96 THEN c - 64
                  ELSE IF shift = caps_lock THEN tolower(c) ELSE c
  <2>1. a \in {c - 64, tolower(c), c}
    BY Zenon
  <2>2. Modified(c) = a + 0 \/ Modified(c) = a + 128
    BY Zenon DEF Modified
  <2> HIDE DEF a
  <2>3. PICK x \in {c - 64, tolower(c), c} : Modified(c) = x + 0 \/ Modified(c) = x + 128
    BY <2>1, <2>2, Zenon
  <2>4. Modified(c) \in {x + 0, x + 128}
    BY <2>3, Zenon
  <2>5. {x + 0, x + 128} \in {{y + 0, y + 128} : y \in {c - 64, tolower(c), c}}
    BY <2>3, Zenon
  <2>6. Modified(c) \in UNION {{y + 0, y + 128} : y \in {c - 64, tolower(c), c}}
    BY <2>4, <2>5, Zenon
  <2> QED BY <2>6, Zenon DEF KeyByte
<1> QED BY <1>1, <1>2, Zenon DEF KeyBytes

(* The queues of serial.c and input.c have their type.                     *)
QueuesType == queue \in [{"txq", "buffer"} -> IntqType]

(* wait changes a slot and the lock only.                                  *)
LEMMA WaitKeeps ==
    ASSUME QueuesType, NEW t \in Threads, NEW x \in {"txq", "buffer"},
           NEW condition \in {"not_full", "not_empty"}, wait(t, x, condition)
    PROVE  /\ QueuesType'
           /\ \A y \in {"txq", "buffer"} : /\ queue'[y].buf = queue[y].buf
                                            /\ queue'[y].head = queue[y].head
                                            /\ queue'[y].tail = queue[y].tail
<1>1. CASE condition = "not_full"
  BY <1>1 DEF QueuesType, wait, IntqType, Waiter
<1>2. CASE condition = "not_empty"
  BY <1>2 DEF QueuesType, wait, IntqType, Waiter
<1> QED BY <1>1, <1>2, Zenon

(* The inductive invariant: the types, the two properties, and that        *)
(* nothing is queued before serial_init_queue (a byte that is polled out   *)
(* then may not overtake others).                                          *)
QInv ==
    /\ QueuesType
    /\ rbr \in Byte
    /\ sent \in Seq(Byte) /\ out \in Seq(Byte)
    /\ accepted \in Seq(Byte) /\ got \in Seq(Byte)
    /\ mode # "QUEUE" => intq_empty(txq)
    /\ OutputInOrder
    /\ InputInOrder

(* It holds when console_init has run.                                     *)
LEMMA InitQ == Init => QInv
<1> SUFFICES ASSUME Init PROVE QInv
  BY Zenon
<1>1. intq_init \in IntqType /\ intq_empty(intq_init)
  BY IntqAssumption DEF intq_init, intq_empty, IntqType, Pos, Waiter, Byte
<1>2. QueuesType /\ txq = intq_init /\ buffer = intq_init
  BY <1>1, Zenon DEF Init, SerialInit, QueuesType, txq, buffer
<1>3. Bytes(txq) = <<>> /\ Bytes(buffer) = <<>>
  BY <1>1, <1>2, EmptyHasNoBytes, Zenon
<1>4. NULL \in Byte
  BY Zenon DEF Byte
<1> QED BY <1>1, <1>2, <1>3, <1>4 DEF Init, SerialInit, QInv, OutputInOrder, InputInOrder

(* The first byte of a queue moves to the end of what is already out.      *)
LEMMA MoveHead ==
    ASSUME NEW q \in IntqType, ~intq_empty(q), NEW s \in Seq(Byte)
    PROVE  Append(s, q.buf[q.tail]) \o Bytes(Got(q)) = s \o Bytes(q)
<1>1. PICK b \in Byte : b = q.buf[q.tail]
  BY GotRemovesHead, Zenon
<1>2. PICK u \in Seq(Byte) : u = Bytes(Got(q))
  BY GotRemovesHead, BytesAre, Zenon
<1>3. Bytes(q) = <<b>> \o u
  BY <1>1, <1>2, GotRemovesHead, Zenon
<1>4. s \o (<<b>> \o u) = Append(s, b) \o u
  BY ConcatHead
<1> QED BY <1>1, <1>2, <1>3, <1>4, Zenon

(* A step that leaves both queues' bytes and the histories as they are.    *)
LEMMA QuietStep ==
    ASSUME QInv, QueuesType', rbr' \in Byte, UNCHANGED <<sent, out, accepted, got>>,
           \A y \in {"txq", "buffer"} : /\ queue'[y].buf = queue[y].buf
                                        /\ queue'[y].head = queue[y].head
                                        /\ queue'[y].tail = queue[y].tail,
           mode' # "QUEUE" => mode # "QUEUE"
    PROVE  QInv'
<1>1. Bytes(txq') = Bytes(txq) /\ (intq_empty(txq') <=> intq_empty(txq))
  BY SameBytes, Zenon DEF txq
<1>2. Bytes(buffer') = Bytes(buffer)
  BY SameBytes, Zenon DEF buffer
<1> QED BY <1>1, <1>2, Zenon DEF QInv, OutputInOrder, InputInOrder

(* serial_putc with interrupts on keeps the order of the bytes.            *)
LEMMA PutcStep ==
    ASSUME QInv, NEW t \in Threads, NEW byte \in Byte, NEW done, serial_putc(t, byte, done)
    PROVE  QInv'
<1>0. txq \in IntqType /\ buffer \in IntqType
  BY Zenon DEF QInv, QueuesType, txq, buffer
<1>1. CASE mode # "QUEUE" /\ mode' = "POLL" /\ putc_poll(byte) /\ sent' = Append(sent, byte)
           /\ UNCHANGED <<queue, rbr, accepted, got>>
  <2>1. Bytes(txq) = <<>>
    BY <1>0, <1>1, EmptyHasNoBytes, Zenon DEF QInv
  <2>2. out = sent
    BY <2>1 DEF QInv, OutputInOrder
  <2>3. out' \in Seq(Byte) /\ out' = sent'
    BY <1>1, <2>2 DEF putc_poll, QInv
  <2>4. txq' = txq /\ buffer' = buffer
    BY <1>1, Zenon DEF txq, buffer
  <2>5. OutputInOrder'
    BY <2>1, <2>3, <2>4 DEF OutputInOrder
  <2> QED BY <1>1, <2>3, <2>4, <2>5, Zenon DEF QInv, QueuesType, InputInOrder
<1>2. CASE /\ mode = "QUEUE" /\ ~intq_full(txq)
           /\ queue' = [queue EXCEPT !["txq"] = Put(txq, byte)]
           /\ sent' = Append(sent, byte)
           /\ UNCHANGED <<mode, rbr, out, accepted, got>>
  <2>1. Put(txq, byte) \in IntqType /\ Bytes(Put(txq, byte)) = Append(Bytes(txq), byte)
    BY <1>0, <1>2, PutAppends, Zenon
  <2>2. QueuesType' /\ txq' = Put(txq, byte) /\ buffer' = buffer
    BY <1>2, <2>1, Zenon DEF QInv, QueuesType, txq, buffer
  <2>3. Bytes(txq) \in Seq(Byte)
    BY <1>0, BytesAre, Zenon
  <2>4. out \o Append(Bytes(txq), byte) = Append(out \o Bytes(txq), byte)
    BY <2>3, ConcatAppend, SMTT(30) DEF QInv
  <2>5. OutputInOrder'
    BY <1>2, <2>1, <2>2, <2>4, Zenon DEF QInv, OutputInOrder
  <2>6. sent' \in Seq(Byte)
    BY <1>2 DEF QInv
  <2> QED BY <1>2, <2>2, <2>5, <2>6, Zenon DEF QInv, InputInOrder
<1>3. CASE mode = "QUEUE" /\ WaitFor(t, "txq", "not_full") /\ UNCHANGED <<mode, uart, sent, out, accepted, got>>
  <2>1. CASE wait(t, "txq", "not_full")
    BY <1>3, <2>1, WaitKeeps, QuietStep, Zenon DEF QInv, uart
  <2>2. CASE UNCHANGED queue
    BY <1>3, <2>2, QuietStep, Zenon DEF QInv, uart, QueuesType
  <2> QED BY <1>3, <2>1, <2>2, Zenon DEF WaitFor
<1> QED BY <1>1, <1>2, <1>3, Zenon DEF serial_putc

(* serial_putc in an interrupt handler does: what it polls out of a full   *)
(* queue is the oldest byte.                                               *)
LEMMA PutcOffStep ==
    ASSUME QInv, serial_putc_off("handler")
    PROVE  QInv'
<1> DEFINE q == IF intq_full(txq) THEN Got(txq) ELSE txq
           sending == IF intq_full(txq) THEN Append(out, txq.buf[txq.tail]) ELSE out
<1>0. txq \in IntqType /\ buffer \in IntqType /\ "handler" \in Byte
  BY Zenon DEF QInv, QueuesType, txq, buffer, Byte
<1>1. /\ q \in IntqType /\ ~intq_full(q)
      /\ sending \in Seq(Byte) /\ sending \o Bytes(q) = sent
  <2>1. CASE intq_full(txq)
    <3>1. ~intq_empty(txq)
      <4>1. txq.head \in Pos
        BY <1>0, Zenon DEF IntqType
      <4> QED BY <2>1, <4>1, NextIs, Zenon DEF intq_full, intq_empty
    <3>2. Got(txq) \in IntqType /\ txq.buf[txq.tail] \in Byte
      BY <1>0, <3>1, GotRemovesHead, Zenon
    <3>3. out \in Seq(Byte) /\ out \o Bytes(txq) = sent
      BY Zenon DEF QInv, OutputInOrder
    <3>4. Append(out, txq.buf[txq.tail]) \o Bytes(Got(txq)) = sent
      BY <1>0, <3>1, <3>3, MoveHead, Zenon
    <3>5. Got(txq).head = txq.head /\ Got(txq).tail = next(txq.tail)
      BY <1>0, Zenon DEF Got, IntqType
    <3>6. ~intq_full(Got(txq))
      <4>1. txq.tail \in Pos
        BY <1>0, Zenon DEF IntqType
      <4> QED BY <2>1, <3>5, <4>1, NextIs, Zenon DEF intq_full
    <3> QED BY <2>1, <3>2, <3>3, <3>4, <3>6
  <2>2. CASE ~intq_full(txq)
    BY <1>0, <2>2, Zenon DEF QInv, OutputInOrder
  <2> QED BY <2>1, <2>2, Zenon
<1>2. /\ mode' = mode /\ mode = "QUEUE" /\ out' = sending /\ sent' = Append(sent, "handler")
      /\ queue' = [queue EXCEPT !["txq"] = Put(q, "handler")]
      /\ UNCHANGED <<rbr, accepted, got>>
  BY Zenon DEF serial_putc_off, putc_poll
<1> HIDE DEF q, sending
<1>3. Put(q, "handler") \in IntqType /\ Bytes(Put(q, "handler")) = Append(Bytes(q), "handler")
  BY <1>0, <1>1, PutAppends, Zenon
<1>4. QueuesType' /\ txq' = Put(q, "handler") /\ buffer' = buffer
  BY <1>2, <1>3, Zenon DEF QInv, QueuesType, txq, buffer
<1>5. Bytes(q) \in Seq(Byte)
  BY <1>1, BytesAre, Zenon
<1>6. sending \o Append(Bytes(q), "handler") = Append(sent, "handler")
  BY <1>0, <1>1, <1>5, ConcatAppend
<1>7. OutputInOrder'
  BY <1>2, <1>3, <1>4, <1>6, Zenon DEF OutputInOrder
<1>8. sent' \in Seq(Byte)
  BY <1>0, <1>2 DEF QInv
<1> QED BY <1>1, <1>2, <1>4, <1>7, <1>8, Zenon DEF QInv, InputInOrder

(* debug_panic's message goes behind everything that was queued.           *)
LEMMA PanicStep ==
    ASSUME QInv, NEW t \in Threads, debug_panic(t)
    PROVE  QInv'
<1>0. txq \in IntqType /\ "panic" \in Byte
  BY Zenon DEF QInv, QueuesType, txq, Byte
<1>1. Emptied(txq) \in IntqType /\ Bytes(Emptied(txq)) = <<>> /\ intq_empty(Emptied(txq))
  BY <1>0, EmptiedIsEmpty, Zenon DEF Emptied, intq_init, intq_empty
<1>2. QueuesType' /\ txq' = Emptied(txq) /\ buffer' = buffer
  BY <1>1, Zenon DEF QInv, QueuesType, txq, buffer, debug_panic, serial_flush
<1>3. Bytes(txq) \in Seq(Byte)
  BY <1>0, BytesAre, Zenon
<1>4. out' = sent \o <<"panic">> /\ sent' = Append(sent, "panic")
  BY Zenon DEF debug_panic, serial_flush, QInv, OutputInOrder
<1>5. out' = sent' /\ sent' \in Seq(Byte)
  BY <1>0, <1>4 DEF QInv
<1>6. OutputInOrder'
  BY <1>1, <1>2, <1>5 DEF OutputInOrder
<1> QED BY <1>1, <1>2, <1>5, <1>6, Zenon DEF QInv, InputInOrder, debug_panic

(* input_putc appends to the buffer that is not full.                      *)
LEMMA InputStep ==
    ASSUME QInv, NEW byte \in Byte, ~intq_full(buffer)
    PROVE  /\ Put(buffer, byte) \in IntqType
           /\ AfterInput(queue, byte) = [queue EXCEPT !["buffer"] = Put(buffer, byte)]
           /\ got \o Bytes(Put(buffer, byte)) = Append(accepted, byte)
           /\ Append(accepted, byte) \in Seq(Byte)
<1>1. buffer \in IntqType
  BY Zenon DEF QInv, QueuesType, buffer
<1>2. Put(buffer, byte) \in IntqType /\ Bytes(Put(buffer, byte)) = Append(Bytes(buffer), byte)
  BY <1>1, PutAppends, Zenon
<1>3. Bytes(buffer) \in Seq(Byte)
  BY <1>1, BytesAre, Zenon
<1>4. got \o Append(Bytes(buffer), byte) = Append(accepted, byte)
  BY <1>3, ConcatAppend, SMTT(30) DEF QInv, InputInOrder
<1>5. AfterInput(queue, byte) = [queue EXCEPT !["buffer"] = Put(buffer, byte)]
  BY Zenon DEF AfterInput, buffer
<1> QED BY <1>2, <1>4, <1>5 DEF QInv

(* serial_interrupt moves at most one byte in and one out.                 *)
LEMMA InterruptStep ==
    ASSUME QInv, serial_interrupt
    PROVE  QInv'
<1> DEFINE receives == ~input_full(queue) /\ rbr # NULL
           sends == ~intq_empty(txq) /\ thre
           inBuffer == IF receives THEN Put(buffer, rbr) ELSE buffer
           outQueue == IF sends THEN Got(txq) ELSE txq
<1>0. txq \in IntqType /\ buffer \in IntqType /\ NULL \in Byte
  BY Zenon DEF QInv, QueuesType, txq, buffer, Byte
<1>1. /\ inBuffer \in IntqType
      /\ accepted' \in Seq(Byte) /\ got \o Bytes(inBuffer) = accepted'
      /\ rbr' \in Byte
  <2>1. CASE receives
    <3>1. rbr \in Byte /\ ~intq_full(buffer)
      BY <2>1, Zenon DEF QInv, input_full, buffer
    <3>2. accepted' = Append(accepted, rbr) /\ rbr' = NULL
      BY <2>1, Zenon DEF serial_interrupt
    <3> QED BY <1>0, <2>1, <3>1, <3>2, InputStep, Zenon
  <2>2. CASE ~receives
    <3>1. accepted' = accepted /\ rbr' = rbr
      BY <2>2, Zenon DEF serial_interrupt
    <3> QED BY <1>0, <2>2, <3>1, Zenon DEF QInv, InputInOrder
  <2> QED BY <2>1, <2>2, Zenon
<1>2. /\ outQueue \in IntqType
      /\ out' \in Seq(Byte) /\ out' \o Bytes(outQueue) = sent
      /\ mode # "QUEUE" => intq_empty(outQueue)
  <2>1. CASE sends
    <3>1. Got(txq) \in IntqType /\ txq.buf[txq.tail] \in Byte
      BY <1>0, <2>1, GotRemovesHead, Zenon
    <3>3. out \in Seq(Byte) /\ out \o Bytes(txq) = sent
      BY Zenon DEF QInv, OutputInOrder
    <3>4. Append(out, txq.buf[txq.tail]) \o Bytes(Got(txq)) = sent
      BY <1>0, <2>1, <3>3, MoveHead, ZenonT(30)
    <3>5. out' = Append(out, txq.buf[txq.tail]) /\ mode = "QUEUE"
      BY <2>1, Zenon DEF serial_interrupt, QInv
    <3>6. out' \in Seq(Byte)
      BY <3>1, <3>3, <3>5
    <3>7. outQueue = Got(txq)
      BY <2>1, Zenon
    <3> QED BY <3>1, <3>4, <3>5, <3>6, <3>7, Zenon
  <2>2. CASE ~sends
    <3>1. out' = out
      BY <2>2, Zenon DEF serial_interrupt
    <3> QED BY <1>0, <2>2, <3>1, Zenon DEF QInv, OutputInOrder
  <2> QED BY <2>1, <2>2, Zenon
<1>3. queue' = [[queue EXCEPT !["buffer"] = inBuffer] EXCEPT !["txq"] = outQueue]
  <2>1. queue = [[queue EXCEPT !["buffer"] = buffer] EXCEPT !["txq"] = txq]
    BY Zenon DEF QInv, QueuesType, buffer, txq
  <2>2. AfterInput(queue, rbr) = [queue EXCEPT !["buffer"] = Put(buffer, rbr)]
    BY Zenon DEF AfterInput, buffer
  <2>3. queue' = LET q == IF receives THEN AfterInput(queue, rbr) ELSE queue
                 IN  IF sends THEN [q EXCEPT !["txq"] = Got(txq)] ELSE q
    BY Zenon DEF serial_interrupt
  <2> QED BY <2>2, <2>3, Zenon DEF QInv, QueuesType, buffer, txq
<1>4. UNCHANGED <<mode, sent, got>>
  BY Zenon DEF serial_interrupt
<1> HIDE DEF receives, sends, inBuffer, outQueue
<1>5. QueuesType' /\ txq' = outQueue /\ buffer' = inBuffer
  BY <1>1, <1>2, <1>3, Zenon DEF QInv, QueuesType, txq, buffer
<1>6. OutputInOrder' /\ InputInOrder'
  BY <1>1, <1>2, <1>4, <1>5, Zenon DEF OutputInOrder, InputInOrder
<1> QED BY <1>1, <1>2, <1>4, <1>5, <1>6, Zenon DEF QInv

(* input_getc returns the oldest byte or waits.                            *)
LEMMA GetcStep ==
    ASSUME QInv, NEW t \in Threads, NEW done, input_getc(t, done)
    PROVE  QInv'
<1>0. txq \in IntqType /\ buffer \in IntqType
  BY Zenon DEF QInv, QueuesType, txq, buffer
<1>1. CASE /\ ~intq_empty(buffer)
           /\ got' = Append(got, buffer.buf[buffer.tail])
           /\ queue' = [queue EXCEPT !["buffer"] = Got(buffer)]
           /\ UNCHANGED <<mode, rbr, sent, out, accepted>>
  <2>1. Got(buffer) \in IntqType /\ buffer.buf[buffer.tail] \in Byte
    BY <1>0, <1>1, GotRemovesHead, ZenonT(30)
  <2>3. got \in Seq(Byte) /\ got \o Bytes(buffer) = accepted
    BY Zenon DEF QInv, InputInOrder
  <2>4. got' \o Bytes(Got(buffer)) = accepted /\ got' \in Seq(Byte)
    <3>1. Append(got, buffer.buf[buffer.tail]) \o Bytes(Got(buffer)) = accepted
      BY <1>0, <1>1, <2>3, MoveHead, Zenon
    <3> QED BY <1>1, <2>1, <2>3, <3>1
  <2>5. QueuesType' /\ txq' = txq /\ buffer' = Got(buffer)
    BY <1>1, <2>1, Zenon DEF QInv, QueuesType, txq, buffer
  <2>6. InputInOrder' /\ OutputInOrder'
    BY <1>1, <2>4, <2>5, Zenon DEF QInv, InputInOrder, OutputInOrder
  <2> QED BY <1>1, <2>4, <2>5, <2>6, Zenon DEF QInv
<1>2. CASE WaitFor(t, "buffer", "not_empty") /\ UNCHANGED <<mode, uart, sent, out, accepted, got>>
  <2>1. CASE wait(t, "buffer", "not_empty")
    BY <1>2, <2>1, WaitKeeps, QuietStep, Zenon DEF QInv, uart
  <2>2. CASE UNCHANGED queue
    BY <1>2, <2>2, QuietStep, Zenon DEF QInv, uart, QueuesType
  <2> QED BY <1>2, <2>1, <2>2, Zenon DEF WaitFor
<1> QED BY <1>1, <1>2, Zenon DEF input_getc

(* keyboard_interrupt drops its byte when the buffer is full and else      *)
(* appends it.                                                             *)
LEMMA KeyboardStep ==
    ASSUME QInv, keyboard_interrupt
    PROVE  QInv'
<1>1. PICK code \in Scancodes, release \in BOOLEAN :
         IF KeyBytes(code, release) = {} \/ input_full(queue)
         THEN UNCHANGED <<serialVars, pc, off, panic>>
         ELSE Keys < MaxKeys /\ \E c \in KeyBytes(code, release) : input_putc(c)
  BY Zenon DEF keyboard_interrupt
<1>2. CASE UNCHANGED serialVars
  BY <1>2, QuietStep, Zenon DEF QInv, QueuesType, serialVars, uart
<1>3. CASE ~input_full(queue) /\ \E c \in KeyBytes(code, release) : input_putc(c)
  <2>1. PICK c \in KeyBytes(code, release) : input_putc(c)
    BY <1>3, Zenon
  <2>2. c \in Byte /\ ~intq_full(buffer)
    BY <1>3, KeyBytesType, Zenon DEF Byte, input_full, buffer
  <2>3. /\ queue' = [queue EXCEPT !["buffer"] = Put(buffer, c)]
        /\ Put(buffer, c) \in IntqType
        /\ accepted' \in Seq(Byte) /\ got \o Bytes(Put(buffer, c)) = accepted'
        /\ UNCHANGED <<mode, rbr, sent, out, got>>
    BY <2>1, <2>2, InputStep, Zenon DEF input_putc
  <2>4. QueuesType' /\ txq' = txq /\ buffer' = Put(buffer, c)
    BY <2>3, Zenon DEF QInv, QueuesType, txq, buffer
  <2>5. InputInOrder' /\ OutputInOrder'
    BY <2>3, <2>4, Zenon DEF QInv, InputInOrder, OutputInOrder
  <2> QED BY <2>3, <2>4, <2>5, Zenon DEF QInv
<1> QED BY <1>1, <1>2, <1>3, Zenon

(* A thread that sleeps and wakes inside a call touches no byte.           *)
LEMMA WaitingStep ==
    ASSUME QInv, NEW t \in Threads, Waiting(t)
    PROVE  QInv'
<1>1. PICK x \in {"txq", "buffer"}, condition \in {"not_full", "not_empty"}, place \in {"getc", "line"} :
         LockAcquired(t, x, condition) \/ Resume(t, x, place)
  BY Zenon DEF Waiting
<1>2. UNCHANGED <<mode, rbr, sent, out, accepted, got>>
  BY Zenon DEF Waiting, uart
<1>3. CASE LockAcquired(t, x, condition)
  BY <1>2, <1>3, WaitKeeps, QuietStep, Zenon DEF QInv, LockAcquired
<1>4. CASE Resume(t, x, place)
  <2>1. /\ QueuesType'
        /\ \A y \in {"txq", "buffer"} : /\ queue'[y].buf = queue[y].buf
                                         /\ queue'[y].head = queue[y].head
                                         /\ queue'[y].tail = queue[y].tail
    BY <1>4, ZenonT(30) DEF Resume, QInv, QueuesType, IntqType, Waiter
  <2> QED BY <1>2, <2>1, QuietStep, Zenon DEF QInv
<1> QED BY <1>1, <1>3, <1>4, Zenon

(* Every step keeps the invariant.                                         *)
LEMMA NextQ == QInv /\ [Next]_vars => QInv'
<1> SUFFICES ASSUME QInv, [Next]_vars PROVE QInv'
  BY Zenon
<1>1. ASSUME NEW t \in Threads, acquire_console(t) \/ release_console(t) PROVE QInv'
  BY <1>1, QuietStep, Zenon DEF acquire_console, release_console, QInv, QueuesType, serialVars, uart
<1>2. ASSUME NEW t \in Threads, putchar_have_lock(t) PROVE QInv'
  <2>1. t \in Byte /\ serial_putc(t, t, "line")
    BY <1>2, Zenon DEF putchar_have_lock, Byte
  <2> QED BY <2>1, PutcStep, Zenon
<1>3. ASSUME NEW t \in Threads, ReadKey(t) PROVE QInv'
  BY <1>3, GetcStep, Zenon DEF ReadKey
<1>4. ASSUME NEW t \in Threads, Waiting(t) PROVE QInv'
  BY <1>4, WaitingStep, Zenon
<1>5. ASSUME NEW t \in Writers, debug_panic(t) PROVE QInv'
  BY <1>5, PanicStep, Zenon DEF Writers
<1>6. CASE HandlerPrints
  BY <1>6, PutcOffStep, Zenon DEF HandlerPrints
<1>7. CASE keyboard_interrupt
  BY <1>7, KeyboardStep, Zenon
<1>8. CASE Device
  <2>1. /\ UNCHANGED <<queue, sent, out, accepted, got>>
        /\ mode' = mode \/ mode' = "QUEUE"
        /\ rbr' = rbr \/ rbr' = 0
    BY <1>8, Zenon DEF Device, serial_init_queue, Transmitted, Received
  <2>2. 0 \in Byte
    BY Zenon DEF Byte
  <2> QED BY <2>1, <2>2, QuietStep, Zenon DEF QInv, QueuesType
<1>9. CASE SerialInterrupt
  BY <1>9, InterruptStep, Zenon DEF SerialInterrupt
<1>10. CASE UNCHANGED vars
  BY <1>10, QuietStep, Zenon DEF vars, serialVars, uart, QInv, QueuesType
<1> QED BY <1>1, <1>2, <1>3, <1>4, <1>5, <1>6, <1>7, <1>8, <1>9, <1>10, Zenon DEF Next, ThreadStep

(* The bytes given to serial_putc by threads and handlers reach the UART   *)
(* once and in their order, for queues of every size.                      *)
THEOREM OutputOrdered == Spec => []OutputInOrder
<1>1. QInv => OutputInOrder
  BY Zenon DEF QInv
<1> QED BY InitQ, NextQ, <1>1, PTL DEF Spec

(* input_getc returns the bytes of the keyboard and of the serial port     *)
(* once and in the order of the interrupts, for buffers of every size.     *)
THEOREM InputOrdered == Spec => []InputInOrder
<1>1. QInv => InputInOrder
  BY Zenon DEF QInv
<1> QED BY InitQ, NextQ, <1>1, PTL DEF Spec

-----------------------------------------------------------------------------
(* write_ier makes the register agree with the queues.                     *)
LEMMA IerWritten ==
    ASSUME mode' = "QUEUE", ier' = write_ier("QUEUE", queue')
    PROVE  NoLostInterrupt'
BY Zenon DEF write_ier, NoLostInterrupt, input_full, txq, buffer

(* A step that writes no register keeps it right when it moves no end of a *)
(* queue.                                                                  *)
LEMMA IerKept ==
    ASSUME NoLostInterrupt, UNCHANGED <<mode, ier>>,
           \A y \in {"txq", "buffer"} : /\ queue'[y].head = queue[y].head
                                        /\ queue'[y].tail = queue[y].tail
    PROVE  NoLostInterrupt'
BY Zenon DEF NoLostInterrupt, intq_empty, intq_full, txq, buffer

(* A thread that begins to wait leaves the register right.                 *)
LEMMA WaitKeepsIer ==
    ASSUME QInv, NoLostInterrupt, NEW t \in Threads, NEW x \in {"txq", "buffer"},
           NEW condition \in {"not_full", "not_empty"}, WaitFor(t, x, condition), UNCHANGED <<mode, ier>>
    PROVE  NoLostInterrupt'
<1>1. CASE wait(t, x, condition)
  BY <1>1, WaitKeeps, IerKept, Zenon DEF QInv
<1>2. CASE UNCHANGED queue
  BY <1>2, IerKept, Zenon
<1> QED BY <1>1, <1>2, Zenon DEF WaitFor

(* Every step leaves the register in agreement with the queues.            *)
LEMMA NextIer == QInv /\ NoLostInterrupt /\ [Next]_vars => NoLostInterrupt'
<1> SUFFICES ASSUME QInv, NoLostInterrupt, [Next]_vars PROVE NoLostInterrupt'
  BY Zenon
<1>1. ASSUME NEW t \in Threads, acquire_console(t) \/ release_console(t) PROVE NoLostInterrupt'
  BY <1>1, IerKept, Zenon DEF acquire_console, release_console, serialVars, uart
<1>2. ASSUME NEW t \in Threads, putchar_have_lock(t) PROVE NoLostInterrupt'
  <2>1. serial_putc(t, t, "line")
    BY <1>2, Zenon DEF putchar_have_lock
  <2>2. CASE mode' = "POLL"
    BY <2>2, Zenon DEF NoLostInterrupt
  <2>3. CASE mode = "QUEUE" /\ mode' = mode /\ ier' = write_ier(mode, queue')
    BY <2>3, IerWritten, Zenon
  <2>4. CASE WaitFor(t, "txq", "not_full") /\ UNCHANGED <<mode, ier>>
    BY <2>4, WaitKeepsIer, Zenon
  <2> QED BY <2>1, <2>2, <2>3, <2>4, Zenon DEF serial_putc, uart
<1>3. ASSUME NEW t \in Threads, ReadKey(t) PROVE NoLostInterrupt'
  <2>1. input_getc(t, "getc")
    BY <1>3, Zenon DEF ReadKey
  <2>2. CASE mode' = mode /\ ier' = write_ier(mode, queue')
    BY <2>2, IerWritten, Zenon DEF NoLostInterrupt
  <2>3. CASE WaitFor(t, "buffer", "not_empty") /\ UNCHANGED <<mode, ier>>
    BY <2>3, WaitKeepsIer, Zenon
  <2> QED BY <2>1, <2>2, <2>3, Zenon DEF input_getc, uart
<1>4. ASSUME NEW t \in Threads, Waiting(t) PROVE NoLostInterrupt'
  <2>1. PICK x \in {"txq", "buffer"}, condition \in {"not_full", "not_empty"}, place \in {"getc", "line"} :
           LockAcquired(t, x, condition) \/ Resume(t, x, place)
    BY <1>4, Zenon DEF Waiting
  <2>2. UNCHANGED <<mode, ier>>
    BY <1>4, Zenon DEF Waiting, uart
  <2>3. CASE LockAcquired(t, x, condition)
    BY <2>2, <2>3, WaitKeeps, IerKept, Zenon DEF QInv, LockAcquired
  <2>4. CASE Resume(t, x, place)
    <3>1. \A y \in {"txq", "buffer"} : /\ queue'[y].head = queue[y].head
                                       /\ queue'[y].tail = queue[y].tail
      BY <2>4, Zenon DEF Resume, QInv, QueuesType, IntqType
    <3> QED BY <2>2, <3>1, IerKept, Zenon
  <2> QED BY <2>1, <2>3, <2>4, Zenon
<1>5. ASSUME NEW t \in Writers, debug_panic(t) PROVE NoLostInterrupt'
  <2>1. /\ mode' = "QUEUE" => mode = "QUEUE"
        /\ UNCHANGED ier
        /\ intq_empty(txq') /\ buffer' = buffer
    BY <1>5, Zenon DEF debug_panic, serial_flush, Emptied, intq_init, intq_empty, QInv, QueuesType, txq, buffer
  <2> QED BY <2>1, Zenon DEF NoLostInterrupt
<1>6. CASE HandlerPrints \/ SerialInterrupt
  <2>1. mode' = mode /\ ier' = write_ier(mode, queue')
    BY <1>6, Zenon DEF HandlerPrints, serial_putc_off, SerialInterrupt, serial_interrupt
  <2> QED BY <2>1, IerWritten, Zenon DEF NoLostInterrupt
<1>7. CASE keyboard_interrupt
  <2>1. \/ UNCHANGED serialVars
        \/ mode' = mode /\ ier' = write_ier(mode, queue')
    BY <1>7, Zenon DEF keyboard_interrupt, input_putc
  <2>2. CASE UNCHANGED serialVars
    BY <2>2, IerKept, Zenon DEF serialVars, uart
  <2>3. CASE mode' = mode /\ ier' = write_ier(mode, queue')
    BY <2>3, IerWritten, Zenon DEF NoLostInterrupt
  <2> QED BY <2>1, <2>2, <2>3, Zenon
<1>8. CASE Device
  <2>1. CASE serial_init_queue
    BY <2>1, IerWritten, Zenon DEF serial_init_queue
  <2>2. CASE UNCHANGED <<queue, mode, ier>>
    BY <2>2, IerKept, Zenon
  <2> QED BY <1>8, <2>1, <2>2, Zenon DEF Device, Transmitted, Received
<1>9. CASE UNCHANGED vars
  BY <1>9, IerKept, Zenon DEF vars, serialVars, uart
<1> QED BY <1>1, <1>2, <1>3, <1>4, <1>5, <1>6, <1>7, <1>8, <1>9, Zenon DEF Next, ThreadStep

(* Whenever bytes are queued the UART is told to interrupt, and it reports *)
(* received bytes just when the input buffer has room.                     *)
THEOREM InterruptsNotLost == Spec => []NoLostInterrupt
<1>1. Init => NoLostInterrupt
  BY Zenon DEF Init, SerialInit, NoLostInterrupt
<1> QED BY InitQ, NextQ, NextIer, <1>1, PTL DEF Spec

-----------------------------------------------------------------------------
(* The console.                                                            *)
(* Places inside intq_putc and intq_getc where a thread waits.             *)
InCall == {"lock", "wait", "woken"}

(* The places of thread t: readers call input_getc, writers print.         *)
Places(t) == IF t \in Readers THEN {"getc"} \cup InCall
             ELSE {"run", "line", "done", "panic"} \cup InCall

(* All places.                                                             *)
AllPlaces == {"getc", "run", "line", "done", "panic"} \cup InCall

(* Every thread is where threads of its kind can be.                       *)
Kinds(p) == p \in [Threads -> AllPlaces] /\ \A t \in Threads : p[t] \in Places(t)

(* A slot for a waiter is empty or names a thread that waits, a writer for *)
(* room in txq and a reader for a byte in buffer; so a signal wakes only a *)
(* thread that sleeps in wait.                                             *)
Slots(q, p) ==
    /\ q["txq"].not_empty = NULL
    /\ q["buffer"].not_full = NULL
    /\ q["txq"].not_full # NULL => q["txq"].not_full \in Writers /\ p[q["txq"].not_full] = "wait"
    /\ q["buffer"].not_empty # NULL =>
          q["buffer"].not_empty \in Threads \cap Readers /\ p[q["buffer"].not_empty] = "wait"

(* A writer that is inside a call has something left to return to.         *)
Busy(p, l) ==
    /\ l \in [Threads -> Seq(Int)]
    /\ \A t \in Writers : p[t] \in {"line", "lock", "wait", "woken"} => l[t] # <<>>

(* The lock and its depth while they are used: the holder is the one       *)
(* thread inside calls.                                                    *)
Held ==
    /\ console_lock \in Threads \cup {NULL}
    /\ console_lock_depth \in Nat
    /\ \A t \in Threads : left[t] # <<>> <=> console_lock = t
    /\ console_lock_depth = IF console_lock = NULL THEN 0 ELSE Len(left[console_lock]) - 1

(* The bytes so far: a thread's bytes are there only if it has the lock or *)
(* is done, and after the first byte of the holder there are only its own  *)
(* and those of interrupt handlers.                                        *)
Lines ==
    /\ \A t \in Threads \ {"handler"}, i \in DOMAIN sent :
          sent[i] = t => console_lock = t \/ pc[t] = "done"
    /\ \A t \in Threads \ {"handler"}, i, k \in DOMAIN sent :
          sent[i] = t /\ console_lock = t /\ i < k => sent[k] \in {t, "handler"}
    /\ \A i \in DOMAIN sent : sent[i] \in Threads \cup {"handler"}
    /\ LinesNotMixed

(* The inductive invariant.                                                *)
CInv ==
    /\ Kinds(pc) /\ Slots(queue, pc) /\ Busy(pc, left)
    /\ use_console_lock \in BOOLEAN
    /\ use_console_lock => Held /\ Lines

(* Waking a thread that waits keeps the places.                            *)
LEMMA SignalKeeps ==
    ASSUME NEW p, NEW l, Kinds(p), Busy(p, l), NEW w, w # NULL => w \in Threads /\ p[w] = "wait"
    PROVE  /\ Kinds(Signal(p, w)) /\ Busy(Signal(p, w), l)
           /\ \A t \in Threads : t # w => Signal(p, w)[t] = p[t]
           /\ \A t \in Threads : Signal(p, w)[t] = "done" <=> p[t] = "done"
<1>1. CASE w = NULL
  BY <1>1, Zenon DEF Signal
<1>2. CASE w # NULL
  <2>1. w \in Threads /\ p[w] = "wait" /\ Signal(p, w) = [p EXCEPT ![w] = "woken"]
    BY <1>2, Zenon DEF Signal
  <2>2. \A t \in Threads : Signal(p, w)[t] = IF t = w THEN "woken" ELSE p[t]
    BY <2>1, Zenon DEF Kinds
  <2>3. Signal(p, w) \in [Threads -> AllPlaces]
    BY <2>1, Zenon DEF Kinds, AllPlaces, InCall
  <2>4. Kinds(Signal(p, w))
    BY <2>1, <2>2, <2>3, Zenon DEF Kinds, Places, InCall
  <2>5. Busy(Signal(p, w), l)
    BY <2>1, <2>2, Zenon DEF Busy, Writers
  <2> QED BY <2>1, <2>2, <2>4, <2>5, Zenon
<1> QED BY <1>1, <1>2, Zenon

(* A thread that goes on to a place of its kind keeps the places.          *)
LEMMA MoveKeeps ==
    ASSUME NEW p, NEW l, Kinds(p), Busy(p, l), NEW t \in Threads, NEW place \in Places(t),
           t \in Writers => l[t] # <<>> \/ place \in {"run", "done", "panic"}
    PROVE  Kinds([p EXCEPT ![t] = place]) /\ Busy([p EXCEPT ![t] = place], l)
<1>1. \A u \in Threads : [p EXCEPT ![t] = place][u] = IF u = t THEN place ELSE p[u]
  BY Zenon DEF Kinds
<1>2. [p EXCEPT ![t] = place] \in [Threads -> AllPlaces]
  BY Zenon DEF Kinds, AllPlaces, Places
<1>3. Kinds([p EXCEPT ![t] = place])
  BY <1>1, <1>2 DEF Kinds
<1>4. Busy([p EXCEPT ![t] = place], l)
  BY <1>1, Zenon DEF Busy, Writers
<1> QED BY <1>3, <1>4, Zenon

(* The invariant holds when console_init has run.                          *)
LEMMA InitC == Init => CInv
<1> SUFFICES ASSUME Init PROVE CInv
  BY Zenon
<1>1. Kinds(pc)
  BY Zenon DEF Init, Kinds, AllPlaces, Places
<1>2. Slots(queue, pc)
  BY Zenon DEF Init, SerialInit, intq_init, Slots
<1>3. Busy(pc, left)
  BY DEF Init, Busy, Writers
<1>4. Held
  BY NullAssumption, Zenon DEF Init, Held
<1>5. Lines
  BY DEF Init, SerialInit, Lines, LinesNotMixed
<1> QED BY <1>1, <1>2, <1>3, <1>4, <1>5, Zenon DEF CInv, Init

(* The lines stay whole when an interrupt handler writes a byte or nobody  *)
(* writes.                                                                 *)
LEMMA QuietLines ==
    ASSUME sent \in Seq(Byte), use_console_lock, Lines, sent' = sent \/ sent' = Append(sent, "handler"),
           console_lock' = console_lock, \A t \in Threads : pc[t] = "done" => pc'[t] = "done"
    PROVE  Lines'
<1>1. CASE sent' = sent
  BY <1>1 DEF Lines, LinesNotMixed
<1>2. CASE sent' = Append(sent, "handler")
  <2>1. /\ DOMAIN sent' = 1..(Len(sent) + 1) /\ DOMAIN sent = 1..Len(sent) /\ Len(sent) \in Nat
        /\ sent'[Len(sent) + 1] = "handler" /\ \A i \in 1..Len(sent) : sent'[i] = sent[i]
    BY <1>2
  <2> QED BY <2>1, SMTT(30) DEF Lines, LinesNotMixed
<1> QED BY <1>1, <1>2, Zenon

(* The lines stay whole when the holder of the lock writes a byte.         *)
LEMMA OwnByte ==
    ASSUME sent \in Seq(Byte), use_console_lock, Lines, NEW t \in Threads, console_lock = t,
           sent' = Append(sent, t), console_lock' = console_lock,
           \A u \in Threads : pc[u] = "done" => pc'[u] = "done"
    PROVE  Lines'
<1>1. /\ DOMAIN sent' = 1..(Len(sent) + 1) /\ DOMAIN sent = 1..Len(sent) /\ Len(sent) \in Nat
      /\ sent'[Len(sent) + 1] = t /\ \A i \in 1..Len(sent) : sent'[i] = sent[i]
  OBVIOUS
<1> QED BY <1>1 DEF Lines, LinesNotMixed

(* A step that leaves the console's variables alone and wakes at most      *)
(* waiting threads keeps the invariant.                                    *)
LEMMA QuietConsole ==
    ASSUME QInv, CInv, UNCHANGED consoleVars, sent' = sent \/ sent' = Append(sent, "handler"),
           Kinds(pc'), Busy(pc', left), Slots(queue', pc'),
           \A t \in Threads : pc[t] = "done" => pc'[t] = "done"
    PROVE  CInv'
<1>1. ASSUME use_console_lock PROVE Held' /\ Lines'
  <2>1. Lines'
    BY <1>1, QuietLines, Zenon DEF QInv, CInv, consoleVars
  <2>2. Held'
    BY <1>1, Zenon DEF CInv, Held, consoleVars
  <2> QED BY <2>1, <2>2, Zenon
<1> QED BY <1>1, Zenon DEF CInv, consoleVars

(* printf in an interrupt handler takes no lock and keeps it.              *)
LEMMA HandlerPrintsC ==
    ASSUME QInv, CInv, HandlerPrints
    PROVE  CInv'
<1> DEFINE full == intq_full(txq)
<1>1. Slots(queue, pc) /\ Kinds(pc) /\ Busy(pc, left) /\ txq \in IntqType /\ buffer \in IntqType
  BY Zenon DEF CInv, QInv, QueuesType, txq, buffer
<1>2. /\ pc' = IF full THEN Signal(pc, txq.not_full) ELSE pc
      /\ queue' = [queue EXCEPT !["txq"] = Put(IF full THEN Got(txq) ELSE txq, "handler")]
      /\ sent' = Append(sent, "handler") /\ UNCHANGED consoleVars
  BY <1>1, Zenon DEF HandlerPrints, serial_putc_off, Slots, txq, Signal
<1>3. txq.not_full # NULL => txq.not_full \in Threads /\ pc[txq.not_full] = "wait"
  BY <1>1, Zenon DEF Slots, txq, Writers
<1>4. Kinds(pc') /\ Busy(pc', left) /\ (\A t \in Threads : pc[t] = "done" => pc'[t] = "done")
  BY <1>1, <1>2, <1>3, SignalKeeps
<1>5. queue'["buffer"] = queue["buffer"] /\ queue'["txq"].not_empty = NULL
      /\ queue'["txq"].not_full = IF full THEN NULL ELSE txq.not_full
  BY <1>1, <1>2, Zenon DEF QInv, QueuesType, txq, Put, Got, IntqType
<1>6. Slots(queue', pc')
  <2>1. CASE full
    <3>1. \A t \in Threads : t # txq.not_full => pc'[t] = pc[t]
      BY <1>1, <1>2, <1>3, <2>1, SignalKeeps
    <3> QED BY <1>1, <1>5, <2>1, <3>1, Zenon DEF Slots, Writers, txq
  <2>2. CASE ~full
    BY <1>1, <1>2, <1>5, <2>2, Zenon DEF Slots, txq
  <2> QED BY <2>1, <2>2, Zenon
<1> QED BY <1>2, <1>4, <1>6, QuietConsole, Zenon

(* keyboard_interrupt wakes at most a reader.                              *)
LEMMA KeyboardC ==
    ASSUME QInv, CInv, keyboard_interrupt
    PROVE  CInv'
<1>1. Slots(queue, pc) /\ Kinds(pc) /\ Busy(pc, left)
  BY Zenon DEF CInv
<1>2. CASE UNCHANGED <<serialVars, pc, consoleVars>>
  BY <1>1, <1>2, QuietConsole, Zenon DEF serialVars
<1>3. CASE UNCHANGED consoleVars /\ \E c : input_putc(c)
  <2>1. PICK c : input_putc(c)
    BY <1>3, Zenon
  <2>2. /\ pc' = Signal(pc, buffer.not_empty) /\ sent' = sent
        /\ queue'["txq"] = queue["txq"] /\ queue'["buffer"].not_empty = NULL
        /\ queue'["buffer"].not_full = queue["buffer"].not_full
    BY <2>1, Zenon DEF input_putc, AfterInput, Put, QInv, QueuesType, IntqType
  <2>3. buffer.not_empty # NULL =>
           buffer.not_empty \in Threads \cap Readers /\ pc[buffer.not_empty] = "wait"
    BY <1>1, Zenon DEF Slots, buffer
  <2>4. /\ Kinds(pc') /\ Busy(pc', left) /\ (\A t \in Threads : pc[t] = "done" => pc'[t] = "done")
        /\ \A t \in Threads : t # buffer.not_empty => pc'[t] = pc[t]
    BY <1>1, <2>2, <2>3, SignalKeeps
  <2>5. Slots(queue', pc')
    BY <1>1, <2>2, <2>3, <2>4, Zenon DEF Slots, Writers
  <2> QED BY <1>3, <2>2, <2>4, <2>5, QuietConsole, Zenon
<1> QED BY <1>2, <1>3, Zenon DEF keyboard_interrupt

(* serial_interrupt wakes at most a reader and a writer.                   *)
LEMMA InterruptC ==
    ASSUME QInv, CInv, SerialInterrupt
    PROVE  CInv'
<1> DEFINE receives == ~input_full(queue) /\ rbr # NULL
           sends == ~intq_empty(txq) /\ thre
           p == IF receives THEN Signal(pc, buffer.not_empty) ELSE pc
           q == IF receives THEN AfterInput(queue, rbr) ELSE queue
<1>1. Slots(queue, pc) /\ Kinds(pc) /\ Busy(pc, left) /\ txq = queue["txq"] /\ buffer = queue["buffer"]
  BY Zenon DEF CInv, txq, buffer
<1>2. /\ pc' = IF sends THEN Signal(p, txq.not_full) ELSE p
      /\ queue' = IF sends THEN [q EXCEPT !["txq"] = Got(txq)] ELSE q
      /\ sent' = sent /\ UNCHANGED consoleVars
  BY Zenon DEF SerialInterrupt, serial_interrupt
<1>3. /\ q["txq"] = queue["txq"] /\ q["buffer"].not_full = NULL
      /\ q["buffer"].not_empty = IF receives THEN NULL ELSE buffer.not_empty
      /\ q \in [{"txq", "buffer"} -> {q["txq"], q["buffer"]}]
  BY <1>1, Zenon DEF AfterInput, Put, QInv, QueuesType, IntqType, Slots
<1>4. /\ Kinds(p) /\ Busy(p, left) /\ Slots(q, p)
      /\ \A t \in Threads : pc[t] = "done" => p[t] = "done"
  <2>1. CASE receives
    <3>1. buffer.not_empty # NULL =>
             buffer.not_empty \in Threads \cap Readers /\ pc[buffer.not_empty] = "wait"
      BY <1>1, Zenon DEF Slots
    <3>2. /\ Kinds(p) /\ Busy(p, left) /\ (\A t \in Threads : pc[t] = "done" => p[t] = "done")
          /\ \A t \in Threads : t # buffer.not_empty => p[t] = pc[t]
      <4>1. PICK w, p2 : w = buffer.not_empty /\ p2 = Signal(pc, w)
        BY Zenon
      <4>2. /\ Kinds(p2) /\ Busy(p2, left) /\ (\A t \in Threads : t # w => p2[t] = pc[t])
            /\ \A t \in Threads : p2[t] = "done" <=> pc[t] = "done"
        <5>1. w # NULL => w \in Threads /\ pc[w] = "wait"
          BY <3>1, <4>1, Zenon
        <5> HIDE DEF p, q
        <5> QED BY <1>1, <4>1, <5>1, SignalKeeps
      <4>3. p = p2
        BY <2>1, <4>1, Zenon
      <4> QED BY <4>1, <4>2, <4>3, Zenon
    <3>3. Slots(q, p)
      BY <1>1, <1>3, <2>1, <3>1, <3>2 DEF Slots, Writers
    <3> QED BY <3>2, <3>3, Zenon
  <2>2. CASE ~receives
    BY <1>1, <2>2, Zenon
  <2> QED BY <2>1, <2>2, Zenon
<1> HIDE DEF receives, sends, p, q
<1>5. CASE sends
  <2>1. txq.not_full # NULL => txq.not_full \in Writers /\ p[txq.not_full] = "wait"
    BY <1>1, <1>3, <1>4, Zenon DEF Slots
  <2>2. pc' = Signal(p, txq.not_full)
    BY <1>2, <1>5, Zenon
  <2>3. /\ Kinds(pc') /\ Busy(pc', left) /\ (\A t \in Threads : pc[t] = "done" => pc'[t] = "done")
        /\ \A t \in Threads : t # txq.not_full => pc'[t] = p[t]
    BY <1>4, <2>1, <2>2, SignalKeeps DEF Writers
  <2>4. queue'["buffer"] = q["buffer"] /\ queue'["txq"].not_full = NULL
        /\ queue'["txq"].not_empty = txq.not_empty
    BY <1>1, <1>2, <1>3, <1>5 DEF Got, QInv, QueuesType, IntqType
  <2>5. Slots(queue', pc')
    BY <1>1, <1>4, <2>1, <2>3, <2>4, ZenonT(30) DEF Slots, Writers
  <2> QED BY <1>2, <2>3, <2>5, QuietConsole, Zenon
<1>6. CASE ~sends
  BY <1>2, <1>4, <1>6, QuietConsole, Zenon
<1> QED BY <1>5, <1>6, Zenon

(* wait enters the thread in the slot of its kind.                         *)
LEMMA WaitC ==
    ASSUME QInv, CInv, NEW t \in Threads, pc[t] \in {"line", "getc", "lock"},
           t \in Writers => left[t] # <<>>,
           wait(t, IF t \in Readers THEN "buffer" ELSE "txq",
                IF t \in Readers THEN "not_empty" ELSE "not_full")
    PROVE  /\ Kinds(pc') /\ Busy(pc', left) /\ Slots(queue', pc')
           /\ \A u \in Threads : pc[u] = "done" => pc'[u] = "done"
<1>1. Slots(queue, pc) /\ Kinds(pc) /\ Busy(pc, left)
  BY Zenon DEF CInv
<1>2. pc' = [pc EXCEPT ![t] = "wait"]
  BY Zenon DEF wait
<1>3. /\ Kinds(pc') /\ Busy(pc', left)
      /\ \A u \in Threads : pc'[u] = IF u = t THEN "wait" ELSE pc[u]
  <2>1. "wait" \in Places(t)
    BY Zenon DEF Places, InCall
  <2>2. Kinds([pc EXCEPT ![t] = "wait"]) /\ Busy([pc EXCEPT ![t] = "wait"], left)
    BY <1>1, <2>1, MoveKeeps, Zenon
  <2>3. \A u \in Threads : pc'[u] = IF u = t THEN "wait" ELSE pc[u]
    BY <1>1, <1>2, Zenon DEF Kinds
  <2> QED BY <1>2, <2>2, <2>3, Zenon
<1>4. Slots(queue', pc')
  <2>1. CASE t \in Readers
    <3>1. /\ queue'["txq"] = queue["txq"] /\ queue'["buffer"].not_empty = t
          /\ queue'["buffer"].not_full = queue["buffer"].not_full
      BY <2>1, Zenon DEF wait, QInv, QueuesType, IntqType
    <3> QED BY <1>1, <1>3, <2>1, <3>1, Zenon DEF Slots, Writers
  <2>2. CASE t \notin Readers
    <3>1. /\ queue'["buffer"] = queue["buffer"] /\ queue'["txq"].not_full = t
          /\ queue'["txq"].not_empty = queue["txq"].not_empty
      BY <2>2, Zenon DEF wait, QInv, QueuesType, IntqType
    <3> QED BY <1>1, <1>3, <2>2, <3>1, Zenon DEF Slots, Writers
  <2> QED BY <2>1, <2>2, Zenon
<1> QED BY <1>3, <1>4, Zenon

(* A thread that is in no slot goes on without touching the slots.         *)
LEMMA LockC ==
    ASSUME CInv, NEW t \in Threads, NEW place \in Places(t), place # "done", pc[t] \notin {"wait", "done"},
           t \in Writers => left[t] # <<>>, pc' = [pc EXCEPT ![t] = place],
           \A y \in {"txq", "buffer"} : /\ queue'[y].not_full = queue[y].not_full
                                        /\ queue'[y].not_empty = queue[y].not_empty
    PROVE  /\ Kinds(pc') /\ Busy(pc', left) /\ Slots(queue', pc')
           /\ \A u \in Threads : pc[u] = "done" => pc'[u] = "done"
<1>1. Slots(queue, pc) /\ Kinds(pc) /\ Busy(pc, left)
  BY Zenon DEF CInv
<1>2. /\ Kinds(pc') /\ Busy(pc', left)
      /\ \A u \in Threads : pc'[u] = IF u = t THEN place ELSE pc[u]
  <2>1. Kinds([pc EXCEPT ![t] = place]) /\ Busy([pc EXCEPT ![t] = place], left)
    BY <1>1, MoveKeeps, Zenon
  <2>2. \A u \in Threads : pc'[u] = IF u = t THEN place ELSE pc[u]
    BY <1>1, Zenon DEF Kinds
  <2> QED BY <2>1, <2>2, Zenon
<1>3. Slots(queue', pc')
  BY <1>1, <1>2 DEF Slots, Writers
<1> QED BY <1>2, <1>3, Zenon

(* input_getc is not the console's concern.                                *)
LEMMA ReadKeyC ==
    ASSUME QInv, CInv, NEW t \in Threads, ReadKey(t)
    PROVE  CInv'
<1>1. Slots(queue, pc) /\ Kinds(pc) /\ Busy(pc, left)
  BY Zenon DEF CInv
<1>2. pc[t] = "getc" /\ t \in Readers /\ t \notin Writers /\ UNCHANGED consoleVars
  BY <1>1, Zenon DEF ReadKey, Kinds, Places, InCall, Writers
<1>3. CASE /\ queue' = [queue EXCEPT !["buffer"] = Got(buffer)] /\ sent' = sent
           /\ pc' = Signal([pc EXCEPT ![t] = "getc"], buffer.not_full)
  <2>1. pc' = [pc EXCEPT ![t] = "getc"]
    BY <1>1, <1>3, Zenon DEF Slots, buffer, Signal
  <2>2. \A y \in {"txq", "buffer"} : /\ queue'[y].not_full = queue[y].not_full
                                     /\ queue'[y].not_empty = queue[y].not_empty
    BY <1>1, <1>3, Zenon DEF Slots, buffer, Got, QInv, QueuesType, IntqType
  <2> QED BY <1>2, <1>3, <2>1, <2>2, LockC, QuietConsole, Zenon DEF Places
<1>4. CASE WaitFor(t, "buffer", "not_empty") /\ sent' = sent
  <2>1. CASE wait(t, "buffer", "not_empty")
    BY <1>2, <1>4, <2>1, WaitC, QuietConsole, Zenon
  <2>2. CASE pc' = [pc EXCEPT ![t] = "lock"] /\ UNCHANGED queue
    BY <1>2, <1>4, <2>2, LockC, QuietConsole, Zenon DEF Places, InCall
  <2> QED BY <1>4, <2>1, <2>2, Zenon DEF WaitFor
<1> QED BY <1>3, <1>4, Zenon DEF ReadKey, input_getc

(* A call that goes on after sleeping goes on with its line.               *)
LEMMA WaitingC ==
    ASSUME QInv, CInv, NEW t \in Threads, Waiting(t)
    PROVE  CInv'
<1> DEFINE x == IF t \in Readers THEN "buffer" ELSE "txq"
           condition == IF t \in Readers THEN "not_empty" ELSE "not_full"
           place == IF t \in Readers THEN "getc" ELSE "line"
<1>1. Busy(pc, left) /\ sent' = sent /\ UNCHANGED consoleVars
  BY Zenon DEF CInv, Waiting
<1>2. CASE LockAcquired(t, x, condition)
  <2>1. pc[t] = "lock" /\ wait(t, x, condition)
    BY <1>2, Zenon DEF LockAcquired
  <2>2. t \in Writers => left[t] # <<>>
    BY <1>1, <2>1, Zenon DEF Busy
  <2> QED BY <1>1, <2>1, <2>2, WaitC, QuietConsole, Zenon
<1>3. CASE Resume(t, x, place)
  <2>1. pc[t] = "woken" /\ pc' = [pc EXCEPT ![t] = place]
    BY <1>3, Zenon DEF Resume
  <2>2. t \in Writers => left[t] # <<>>
    BY <1>1, <2>1, Zenon DEF Busy
  <2>3. \A y \in {"txq", "buffer"} : /\ queue'[y].not_full = queue[y].not_full
                                     /\ queue'[y].not_empty = queue[y].not_empty
    BY <1>3, Zenon DEF Resume, QInv, QueuesType, IntqType
  <2>4. place \in Places(t) /\ place # "done"
    BY Zenon DEF Places
  <2> HIDE DEF place
  <2> QED BY <1>1, <2>1, <2>2, <2>3, <2>4, LockC, QuietConsole, Zenon
<1> QED BY <1>2, <1>3, Zenon DEF Waiting

(* putchar_have_lock is called by the holder of the lock.                  *)
LEMMA PutcharC ==
    ASSUME QInv, CInv, NEW t \in Threads, putchar_have_lock(t)
    PROVE  CInv'
<1>1. Slots(queue, pc) /\ Kinds(pc) /\ Busy(pc, left)
  BY Zenon DEF CInv
<1>2. pc[t] = "line" /\ t \notin Readers /\ t \in Writers /\ left[t] # <<>> /\ left[t] \in Seq(Int)
  BY <1>1, Zenon DEF putchar_have_lock, Kinds, Places, InCall, Writers, Busy
<1>3. UNCHANGED <<console_lock, console_lock_depth, use_console_lock>>
  BY Zenon DEF putchar_have_lock
<1>4. CASE WaitFor(t, "txq", "not_full") /\ sent' = sent
  <2>1. UNCHANGED consoleVars
    BY <1>3, <1>4, Zenon DEF putchar_have_lock, consoleVars
  <2>2. CASE wait(t, "txq", "not_full")
    BY <1>2, <1>4, <2>1, <2>2, WaitC, QuietConsole, Zenon
  <2>3. CASE pc' = [pc EXCEPT ![t] = "lock"] /\ UNCHANGED queue
    BY <1>2, <1>4, <2>1, <2>3, LockC, QuietConsole, Zenon DEF Places, InCall
  <2> QED BY <1>4, <2>2, <2>3, Zenon DEF WaitFor
<1>5. CASE /\ sent' = Append(sent, t) /\ pc' = [pc EXCEPT ![t] = "line"]
           /\ \A y \in {"txq", "buffer"} : /\ queue'[y].not_full = queue[y].not_full
                                            /\ queue'[y].not_empty = queue[y].not_empty
  <2>1. /\ Kinds(pc') /\ Busy(pc', left) /\ Slots(queue', pc')
        /\ \A u \in Threads : pc[u] = "done" => pc'[u] = "done"
    BY <1>2, <1>5, LockC, Zenon DEF Places
  <2>2. sent' # sent
    BY <1>5 DEF QInv
  <2>3. left' = [left EXCEPT ![t][1] = @ - 1]
    BY <2>2, Zenon DEF putchar_have_lock
  <2>4. 1 \in DOMAIN left[t] /\ left[t][1] - 1 \in Int
    BY <1>2
  <2>5. /\ left' \in [Threads -> Seq(Int)]
        /\ \A u \in Threads : Len(left'[u]) = Len(left[u]) /\ (left'[u] # <<>> <=> left[u] # <<>>)
    BY <1>1, <1>2, <2>3, <2>4 DEF Busy
  <2>6. Busy(pc', left')
    BY <2>1, <2>5, Zenon DEF Busy, Writers
  <2>7. ASSUME use_console_lock PROVE Held' /\ Lines'
    <3>1. console_lock = t
      BY <1>2, <2>7, Zenon DEF CInv, Held
    <3>2. Lines'
      BY <1>3, <1>5, <2>1, <2>7, <3>1, OwnByte, Zenon DEF CInv, QInv
    <3>3. Held'
      BY <1>3, <2>5, <2>7, Zenon DEF CInv, Held
    <3> QED BY <3>2, <3>3, Zenon
  <2> QED BY <1>3, <2>1, <2>6, <2>7, Zenon DEF CInv
<1>6. CASE /\ queue' = [queue EXCEPT !["txq"] = Put(txq, t)] /\ sent' = Append(sent, t)
           /\ pc' = Signal([pc EXCEPT ![t] = "line"], txq.not_empty)
  <2>1. pc' = [pc EXCEPT ![t] = "line"]
    BY <1>1, <1>6, Zenon DEF Slots, txq, Signal
  <2>2. \A y \in {"txq", "buffer"} : /\ queue'[y].not_full = queue[y].not_full
                                     /\ queue'[y].not_empty = queue[y].not_empty
    BY <1>1, <1>6, Zenon DEF Slots, txq, Put, QInv, QueuesType, IntqType
  <2> QED BY <1>5, <1>6, <2>1, <2>2, Zenon
<1> QED BY <1>4, <1>5, <1>6, Zenon DEF putchar_have_lock, serial_putc

(* acquire_console takes the free lock, or counts a call inside the        *)
(* holder's own.                                                           *)
LEMMA AcquireC ==
    ASSUME QInv, CInv, NEW t \in Threads, acquire_console(t)
    PROVE  CInv'
<1>1. Slots(queue, pc) /\ Kinds(pc) /\ Busy(pc, left)
  BY Zenon DEF CInv
<1>2. /\ pc[t] \in {"run", "line"} /\ t \notin Readers /\ t \in Writers /\ left[t] \in Seq(Int)
      /\ pc[t] = "run" => left[t] = <<>>
      /\ pc[t] = "line" => left[t] # <<>>
  BY <1>1, Zenon DEF acquire_console, Kinds, Places, InCall, Writers, Busy
<1>3. PICK n \in Int : left' = [left EXCEPT ![t] = <<n>> \o left[t]]
  <2> DEFINE n == IF left[t] = <<>> THEN LineLength ELSE 1
  <2>1. n \in Int
    BY LineAssumption
  <2>2. left' = [left EXCEPT ![t] = <<n>> \o left[t]]
    BY Zenon DEF acquire_console
  <2> HIDE DEF n
  <2> QED BY <2>1, <2>2, Zenon
<1>4. pc' = [pc EXCEPT ![t] = "line"] /\ UNCHANGED <<queue, sent, use_console_lock>>
  BY Zenon DEF acquire_console, serialVars
<1>5. /\ left' \in [Threads -> Seq(Int)]
      /\ left'[t] # <<>> /\ Len(left'[t]) = Len(left[t]) + 1
      /\ \A u \in Threads : u # t => left'[u] = left[u]
  BY <1>1, <1>2, <1>3 DEF Busy
<1>6. \A u \in Threads : pc'[u] = IF u = t THEN "line" ELSE pc[u]
  BY <1>1, <1>4, Zenon DEF Kinds
<1>7. Busy(pc, left')
  BY <1>1, <1>5, Zenon DEF Busy, Writers
<1>8. Kinds(pc') /\ Busy(pc', left')
  <2>1. "line" \in Places(t)
    BY <1>2, Zenon DEF Places
  <2> QED BY <1>1, <1>4, <1>5, <1>7, <2>1, MoveKeeps, Zenon
<1>9. Slots(queue', pc')
  BY <1>1, <1>2, <1>4, <1>6, Zenon DEF Slots, Writers
<1>10. ASSUME use_console_lock PROVE Held' /\ Lines'
  <2>1. Held /\ Lines
    BY <1>10, Zenon DEF CInv
  <2>2. CASE console_lock = t
    <3>1. console_lock' = console_lock /\ console_lock_depth' = console_lock_depth + 1
      BY <1>10, <2>2, Zenon DEF acquire_console
    <3>2. Held'
      <4>1. console_lock_depth' \in Nat /\ console_lock_depth' = Len(left'[t]) - 1
        BY <1>2, <1>5, <2>1, <2>2, <3>1, NullAssumption DEF Held
      <4>2. \A u \in Threads : left'[u] # <<>> <=> console_lock' = u
        BY <1>5, <2>1, <2>2, <3>1, ZenonT(30) DEF Held
      <4> QED BY <2>1, <2>2, <3>1, <4>1, <4>2, NullAssumption, Zenon DEF Held
    <3>3. Lines'
      BY <1>4, <1>6, <1>2, <1>10, <2>1, <3>1, QuietLines, Zenon DEF QInv
    <3> QED BY <3>2, <3>3, Zenon
  <2>3. CASE console_lock # t
    <3>1. console_lock = NULL /\ console_lock' = t /\ console_lock_depth' = console_lock_depth
      BY <1>10, <2>3, Zenon DEF acquire_console
    <3>2. left[t] = <<>> /\ pc[t] = "run"
      BY <1>2, <2>1, <2>3, Zenon DEF Held
    <3>3. Held'
      BY <1>2, <1>5, <2>1, <3>1, <3>2, NullAssumption DEF Held
    <3>4. \A i \in DOMAIN sent : t # "handler" => sent[i] # t
      BY <2>1, <3>1, <3>2, NullAssumption, Zenon DEF Lines
    <3>5. \A u \in Threads \ {"handler"}, i \in DOMAIN sent : sent[i] = u => pc[u] = "done" /\ pc'[u] = "done"
      BY <1>6, <2>1, <3>1, <3>4, NullAssumption, Zenon DEF Lines
    <3>6. Lines'
      BY <1>4, <1>10, <2>1, <3>1, <3>4, <3>5 DEF Lines, LinesNotMixed
    <3> QED BY <3>3, <3>6, Zenon
  <2> QED BY <2>2, <2>3, Zenon
<1> QED BY <1>4, <1>8, <1>9, <1>10, Zenon DEF CInv

(* release_console counts down, or gives the lock back after the outermost *)
(* call.                                                                   *)
LEMMA ReleaseC ==
    ASSUME QInv, CInv, NEW t \in Threads, release_console(t)
    PROVE  CInv'
<1> DEFINE place == IF Len(left[t]) = 1 THEN "done" ELSE "line"
<1>1. Slots(queue, pc) /\ Kinds(pc) /\ Busy(pc, left)
  BY Zenon DEF CInv
<1>2. pc[t] = "line" /\ t \notin Readers /\ t \in Writers /\ left[t] # <<>> /\ left[t] \in Seq(Int)
  BY <1>1, Zenon DEF release_console, Kinds, Places, InCall, Writers, Busy
<1>3. pc' = [pc EXCEPT ![t] = place] /\ left' = [left EXCEPT ![t] = Tail(left[t])]
      /\ UNCHANGED <<queue, sent, use_console_lock>>
  BY Zenon DEF release_console, serialVars
<1>4. /\ Tail(left[t]) \in Seq(Int) /\ Len(Tail(left[t])) = Len(left[t]) - 1 /\ Len(left[t]) \in Nat \ {0}
      /\ Tail(left[t]) = <<>> <=> Len(left[t]) = 1
  <2>1. PICK l \in Seq(Int) : l = left[t] /\ l # <<>>
    BY <1>2, Zenon
  <2>2. Len(l) \in Nat \ {0}
    BY <2>1
  <2>3. Tail(l) \in Seq(Int) /\ Len(Tail(l)) = Len(l) - 1
    BY <2>1, <2>2
  <2>4. PICK m \in Seq(Int) : m = Tail(l) /\ Len(m) = Len(l) - 1
    BY <2>3, Zenon
  <2>5. m = <<>> <=> Len(m) = 0
    OBVIOUS
  <2>6. Tail(l) = <<>> <=> Len(l) = 1
    BY <2>2, <2>4, <2>5, SMTT(30)
  <2> QED BY <2>1, <2>2, <2>3, <2>6, Zenon
<1>5. /\ left' \in [Threads -> Seq(Int)]
      /\ left'[t] = Tail(left[t])
      /\ \A u \in Threads : u # t => left'[u] = left[u]
  BY <1>1, <1>3, <1>4, Zenon DEF Busy
<1>6. place = "done" <=> Len(left[t]) = 1
  BY Zenon
<1>7. place \in Places(t) /\ place \in {"line", "done"}
  BY <1>2, Zenon DEF Places
<1> HIDE DEF place
<1>8. \A u \in Threads : pc'[u] = IF u = t THEN place ELSE pc[u]
  BY <1>1, <1>3, Zenon DEF Kinds
<1>9. Kinds(pc')
  BY <1>1, <1>3, <1>7, MoveKeeps, <1>2, Zenon
<1>10. Busy(pc', left')
  BY <1>1, <1>4, <1>5, <1>6, <1>7, <1>8, Zenon DEF Busy, Writers
<1>11. Slots(queue', pc')
  BY <1>1, <1>2, <1>3, <1>8, Zenon DEF Slots, Writers
<1>12. ASSUME use_console_lock PROVE Held' /\ Lines'
  <2>1. Held /\ Lines /\ console_lock = t /\ console_lock_depth = Len(left[t]) - 1
    BY <1>2, <1>12, NullAssumption, Zenon DEF CInv, Held
  <2>2. CASE console_lock_depth > 0
    <3>1. console_lock' = console_lock /\ console_lock_depth' = console_lock_depth - 1
      BY <1>12, <2>2, Zenon DEF release_console
    <3>2. Held'
      <4>1. console_lock_depth' \in Nat /\ console_lock_depth' = Len(left'[t]) - 1
        BY <1>4, <1>5, <2>1, <2>2, <3>1 DEF Held
      <4>2. left'[t] # <<>>
        <5>1. Len(left[t]) # 1
          <6>1. PICK n \in Nat \ {0} : n = Len(left[t])
            BY <1>4, Zenon
          <6>2. n - 1 > 0
            BY <2>1, <2>2, <6>1, Zenon
          <6>3. n # 1
            BY <6>2
          <6> QED BY <6>1, <6>3, Zenon
        <5> QED BY <1>4, <1>5, <5>1, Zenon
      <4>3. \A u \in Threads : left'[u] # <<>> <=> console_lock' = u
        BY <1>5, <2>1, <3>1, <4>2, Zenon DEF Held
      <4> QED BY <2>1, <2>2, <3>1, <4>1, <4>3, NullAssumption, Zenon DEF Held
    <3>3. \A u \in Threads : pc[u] = "done" => pc'[u] = "done"
      BY <1>2, <1>8, Zenon
    <3>4. Lines'
      BY <1>3, <1>12, <2>1, <3>1, <3>3, QuietLines, Zenon DEF QInv
    <3> QED BY <3>2, <3>4, Zenon
  <2>3. CASE ~(console_lock_depth > 0)
    <3>1. console_lock' = NULL /\ console_lock_depth' = console_lock_depth
      BY <1>12, <2>3, Zenon DEF release_console
    <3>2. Len(left[t]) = 1 /\ left'[t] = <<>>
      BY <1>4, <1>5, <2>1, <2>3
    <3>3. Held'
      BY <1>5, <2>1, <3>1, <3>2, NullAssumption, SMTT(30) DEF Held
    <3>4. \A u \in Threads : u = t \/ pc[u] = "done" => pc'[u] = "done"
      BY <1>6, <1>8, <3>2, Zenon
    <3>5. Lines'
      BY <1>3, <1>12, <2>1, <3>1, <3>4, NullAssumption DEF Lines, LinesNotMixed
    <3> QED BY <3>3, <3>5, Zenon
  <2> QED BY <2>2, <2>3, Zenon
<1> QED BY <1>3, <1>9, <1>10, <1>11, <1>12, Zenon DEF CInv

(* console_panic ends the use of the lock.                                 *)
LEMMA PanicC ==
    ASSUME QInv, CInv, NEW t \in Writers, debug_panic(t)
    PROVE  CInv'
<1> DEFINE p == [pc EXCEPT ![t] = "panic"]
<1>1. Slots(queue, pc) /\ Kinds(pc) /\ Busy(pc, left) /\ t \in Threads /\ t \notin Readers
  BY Zenon DEF CInv, Writers
<1>2. /\ pc[t] \in {"run", "line", "done"} /\ pc' = Signal(p, txq.not_full)
      /\ left' = left /\ use_console_lock' = FALSE
  BY Zenon DEF debug_panic
<1>3. "panic" \in Places(t)
  BY <1>1, Zenon DEF Places
<1>4. Kinds(p) /\ Busy(p, left)
  BY <1>1, <1>3, MoveKeeps, Zenon
<1>5. \A u \in Threads : p[u] = IF u = t THEN "panic" ELSE pc[u]
  BY <1>1, Zenon DEF Kinds
<1>6. /\ queue'["buffer"] = queue["buffer"]
      /\ queue'["txq"].not_full = NULL /\ queue'["txq"].not_empty = queue["txq"].not_empty
  BY Zenon DEF debug_panic, serial_flush, Emptied, intq_init, txq, QInv, QueuesType, IntqType
<1> HIDE DEF p
<1>7. txq.not_full # NULL => txq.not_full \in Writers /\ p[txq.not_full] = "wait"
  BY <1>1, <1>2, <1>5, Zenon DEF Slots, txq, Writers
<1>8. /\ Kinds(pc') /\ Busy(pc', left) /\ \A u \in Threads : u # txq.not_full => pc'[u] = p[u]
  BY <1>2, <1>4, <1>7, SignalKeeps, SMTT(30) DEF Writers
<1>9. Slots(queue', pc')
  BY <1>1, <1>5, <1>6, <1>7, <1>8 DEF Slots, Writers
<1> QED BY <1>2, <1>8, <1>9, Zenon DEF CInv

(* Every step keeps the invariant.                                         *)
LEMMA NextC == QInv /\ CInv /\ [Next]_vars => CInv'
<1> SUFFICES ASSUME QInv, CInv, [Next]_vars PROVE CInv'
  BY Zenon
<1>1. ASSUME UNCHANGED <<queue, pc, sent, consoleVars>> PROVE CInv'
  <2>1. Kinds(pc') /\ Busy(pc', left) /\ Slots(queue', pc')
    BY <1>1, Zenon DEF CInv
  <2> QED BY <1>1, <2>1, QuietConsole, Zenon
<1>2. CASE Device
  BY <1>1, <1>2, Zenon DEF Device, serial_init_queue, Transmitted, Received
<1>3. CASE UNCHANGED vars
  BY <1>1, <1>3, Zenon DEF vars, serialVars
<1>4. ASSUME NEW t \in Threads, ThreadStep(t) PROVE CInv'
  BY <1>4, AcquireC, PutcharC, ReleaseC, ReadKeyC, WaitingC, Zenon DEF ThreadStep
<1>5. ASSUME NEW t \in Writers, debug_panic(t) PROVE CInv'
  BY <1>5, PanicC, Zenon
<1> QED BY <1>2, <1>3, <1>4, <1>5, HandlerPrintsC, KeyboardC, InterruptC, Zenon DEF Next

(* console_lock_depth always counts the calls that the lock's holder is    *)
(* inside of, so that just the outermost release_console releases it.      *)
THEOREM DepthCorrect == Spec => []DepthMatchesCalls
<1>1. CInv => DepthMatchesCalls
  BY Zenon DEF CInv, Held, DepthMatchesCalls
<1> QED BY InitQ, NextQ, InitC, NextC, <1>1, PTL DEF Spec

(* Until the kernel panics, the lines of different threads are never mixed *)
(* on the console.                                                         *)
THEOREM LinesWhole == Spec => []LinesNotMixed
<1>1. CInv => LinesNotMixed
  BY Zenon DEF CInv, Lines, LinesNotMixed
<1> QED BY InitQ, NextQ, InitC, NextC, <1>1, PTL DEF Spec
-----------------------------------------------------------------------------
(* Why no ASSERT fails: nobody waits for the lock of a queue, since who    *)
(* has it sleeps and there is one reader, and one writer inside calls; and *)
(* after console_panic nothing runs any more.                              *)
PInv ==
    /\ ~panic
    /\ \A t \in Threads : pc[t] # "lock"
    /\ buffer.lock # NULL => /\ buffer.lock \in Threads \cap Readers
                             /\ pc[buffer.lock] \in {"wait", "woken"}
    /\ txq.lock # NULL => txq.lock \in Writers /\ pc[txq.lock] \in {"wait", "woken"}
    /\ ~use_console_lock => off \in Threads /\ pc[off] = "panic"

(* A step that at most wakes sleeping threads keeps it.                    *)
LEMMA WakingP ==
    ASSUME PInv, ~panic', UNCHANGED <<off, use_console_lock>>,
           buffer'.lock = buffer.lock, txq'.lock = txq.lock,
           \A t \in Threads : pc'[t] = pc[t] \/ (pc[t] = "wait" /\ pc'[t] = "woken")
    PROVE  PInv'
BY Zenon DEF PInv, Writers

(* A wakeup changes the place of a sleeping thread only.                   *)
LEMMA SignalWakes ==
    ASSUME NEW p \in [Threads -> AllPlaces], NEW w, w # NULL => w \in Threads /\ p[w] = "wait"
    PROVE  /\ Signal(p, w) \in [Threads -> AllPlaces]
           /\ \A t \in Threads : Signal(p, w)[t] = p[t] \/ (p[t] = "wait" /\ Signal(p, w)[t] = "woken")
BY Zenon DEF Signal, AllPlaces, InCall

(* A writer inside a call holds the console lock, while it is used.        *)
LEMMA WriterAlone ==
    ASSUME CInv, use_console_lock, NEW t \in Writers, NEW u \in Writers,
           pc[t] \in {"line", "lock", "wait", "woken"}, pc[u] \in {"line", "lock", "wait", "woken"}
    PROVE  t = u /\ console_lock = t
BY Zenon DEF CInv, Busy, Held, Writers

(* When t may go on, the console lock is in use.                           *)
LEMMA LockInUse ==
    ASSUME PInv, NEW t \in Threads, off \in {NULL, t}, pc[t] # "panic"
    PROVE  use_console_lock
BY NullAssumption, Zenon DEF PInv

(* Interrupt handlers keep it: keyboard_interrupt looks for room before    *)
(* input_putc.                                                             *)
LEMMA HandlersP ==
    ASSUME QInv, CInv, PInv, HandlerPrints \/ keyboard_interrupt \/ Device \/ SerialInterrupt
    PROVE  PInv'
<1>1. /\ pc \in [Threads -> AllPlaces] /\ txq \in IntqType /\ buffer \in IntqType
      /\ txq = queue["txq"] /\ buffer = queue["buffer"] /\ txq.not_empty = NULL
      /\ queue \in [{"txq", "buffer"} -> IntqType]
      /\ txq.not_full # NULL => txq.not_full \in Threads \ Readers /\ pc[txq.not_full] = "wait"
      /\ buffer.not_empty # NULL =>
            buffer.not_empty \in Threads \cap Readers /\ pc[buffer.not_empty] = "wait"
  BY Zenon DEF CInv, Kinds, Slots, QInv, QueuesType, txq, buffer, Writers
<1>2. CASE HandlerPrints
  <2>1. /\ pc' = IF intq_full(txq) THEN Signal(pc, txq.not_full) ELSE pc
        /\ ~panic' /\ UNCHANGED <<off, use_console_lock>>
        /\ queue' = [queue EXCEPT !["txq"] = Put(IF intq_full(txq) THEN Got(txq) ELSE txq, "handler")]
    BY <1>1, <1>2, Zenon DEF HandlerPrints, serial_putc_off, consoleVars, Signal, PInv
  <2>2. buffer'.lock = buffer.lock /\ txq'.lock = txq.lock
    BY <1>1, <2>1, Zenon DEF Put, Got, IntqType, txq, buffer
  <2>3. \A t \in Threads : pc'[t] = pc[t] \/ (pc[t] = "wait" /\ pc'[t] = "woken")
    BY <1>1, <2>1, SignalWakes
  <2> QED BY <2>1, <2>2, <2>3, WakingP, Zenon
<1>3. CASE keyboard_interrupt
  <2>1. CASE UNCHANGED <<serialVars, pc, off, panic, consoleVars>>
    BY <2>1, WakingP, Zenon DEF serialVars, consoleVars, txq, buffer, PInv
  <2>2. CASE ~input_full(queue) /\ UNCHANGED consoleVars /\ \E c : input_putc(c)
    <3>1. PICK c : input_putc(c)
      BY <2>2, Zenon
    <3>2. /\ pc' = Signal(pc, buffer.not_empty) /\ UNCHANGED <<off, use_console_lock>>
          /\ queue' = [queue EXCEPT !["buffer"] = Put(queue["buffer"], c)]
          /\ panic' = (panic \/ input_full(queue))
      BY <2>2, <3>1, Zenon DEF input_putc, AfterInput, consoleVars
    <3>3. ~panic'
      BY <2>2, <3>2, Zenon DEF PInv
    <3>4. buffer'.lock = buffer.lock /\ txq'.lock = txq.lock
      BY <1>1, <3>2, Zenon DEF Put, IntqType, txq, buffer
    <3>5. \A t \in Threads : pc'[t] = pc[t] \/ (pc[t] = "wait" /\ pc'[t] = "woken")
      BY <1>1, <3>2, SignalWakes
    <3> QED BY <3>2, <3>3, <3>4, <3>5, WakingP, Zenon
  <2> QED BY <1>3, <2>1, <2>2, Zenon DEF keyboard_interrupt
<1>4. CASE Device
  <2>1. queue' = queue /\ pc' = pc /\ panic' = panic /\ UNCHANGED <<off, use_console_lock>>
    BY <1>4, Zenon DEF Device, serial_init_queue, Transmitted, Received, consoleVars
  <2>2. ~panic' /\ buffer'.lock = buffer.lock /\ txq'.lock = txq.lock
    BY <2>1, Zenon DEF txq, buffer, PInv
  <2> QED BY <2>1, <2>2, WakingP, Zenon
<1>5. CASE SerialInterrupt
  <2> DEFINE receives == ~input_full(queue) /\ rbr # NULL
             sends == ~intq_empty(txq) /\ thre
             p == IF receives THEN Signal(pc, buffer.not_empty) ELSE pc
             q == IF receives THEN AfterInput(queue, rbr) ELSE queue
  <2>1. /\ pc' = IF sends THEN Signal(p, txq.not_full) ELSE p
        /\ queue' = IF sends THEN [q EXCEPT !["txq"] = Got(txq)] ELSE q
        /\ ~panic' /\ UNCHANGED <<off, use_console_lock>>
    BY <1>5, Zenon DEF SerialInterrupt, serial_interrupt, consoleVars, PInv
  <2>2. q["txq"] = txq /\ q["buffer"].lock = buffer.lock /\ DOMAIN q = {"txq", "buffer"}
    BY <1>1, Zenon DEF AfterInput, Put, IntqType
  <2>3. /\ p \in [Threads -> AllPlaces]
        /\ txq.not_full # NULL => p[txq.not_full] = "wait"
        /\ \A t \in Threads : p[t] = pc[t] \/ (pc[t] = "wait" /\ p[t] = "woken")
    <3>1. /\ p \in [Threads -> AllPlaces]
          /\ \A t \in Threads : p[t] = pc[t] \/ (pc[t] = "wait" /\ p[t] = "woken")
      BY <1>1, SignalWakes
    <3>2. txq.not_full # NULL => p[txq.not_full] = "wait"
      <4> SUFFICES ASSUME txq.not_full # NULL PROVE p[txq.not_full] = "wait"
        BY Zenon
      <4>1. txq.not_full \in Threads /\ pc[txq.not_full] = "wait" /\ txq.not_full # buffer.not_empty
        BY <1>1, Zenon
      <4> QED BY <1>1, <4>1, Zenon DEF Signal
    <3> QED BY <3>1, <3>2, Zenon
  <2> HIDE DEF receives, sends, p, q
  <2>4. buffer'.lock = buffer.lock /\ txq'.lock = txq.lock
    BY <1>1, <2>1, <2>2, Zenon DEF Got, IntqType, txq, buffer
  <2>5. \A t \in Threads : pc'[t] = pc[t] \/ (pc[t] = "wait" /\ pc'[t] = "woken")
    <3>1. \A t \in Threads : pc'[t] = p[t] \/ (p[t] = "wait" /\ pc'[t] = "woken")
      BY <1>1, <2>1, <2>3, SignalWakes
    <3> QED BY <2>3, <3>1, Zenon
  <2> QED BY <2>1, <2>4, <2>5, WakingP, Zenon
<1> QED BY <1>2, <1>3, <1>4, <1>5, Zenon

(* wait by the one reader, or by the writer that holds the console lock:   *)
(* the lock of its queue is free, and its condition has just been tested.  *)
LEMMA WaitForP ==
    ASSUME QInv, CInv, PInv, NEW t \in Threads, off \in {NULL, t}, UNCHANGED use_console_lock,
           \A r, s \in Readers : r = s,
           \/ /\ t \in Readers /\ pc[t] = "getc" /\ WaitFor(t, "buffer", "not_empty")
           \/ /\ t \in Writers /\ pc[t] = "line" /\ WaitFor(t, "txq", "not_full")
    PROVE  PInv'
<1>1. /\ pc \in [Threads -> AllPlaces] /\ queue \in [{"txq", "buffer"} -> IntqType]
      /\ txq = queue["txq"] /\ buffer = queue["buffer"] /\ use_console_lock
  BY LockInUse, Zenon DEF CInv, Kinds, QInv, QueuesType, txq, buffer
<1>2. CASE t \in Readers /\ pc[t] = "getc" /\ WaitFor(t, "buffer", "not_empty")
  <2>1. buffer.lock = NULL
    BY <1>2, Zenon DEF PInv
  <2>2. wait(t, "buffer", "not_empty") /\ ~Holds(queue["buffer"], "not_empty")
    BY <1>1, <1>2, <2>1, Zenon DEF WaitFor
  <2>3. ~panic'
    BY <2>2, Zenon DEF wait, PInv
  <2>4. /\ queue'["buffer"].lock = t /\ queue'["txq"] = queue["txq"]
        /\ \A u \in Threads : pc'[u] = IF u = t THEN "wait" ELSE pc[u]
    BY <1>1, <2>2, Zenon DEF wait, IntqType
  <2> QED BY <1>1, <1>2, <2>3, <2>4 DEF PInv, txq, buffer, Writers
<1>3. CASE t \in Writers /\ pc[t] = "line" /\ WaitFor(t, "txq", "not_full")
  <2>1. txq.lock = NULL
    BY <1>1, <1>3, WriterAlone, Zenon DEF PInv
  <2>2. wait(t, "txq", "not_full") /\ ~Holds(queue["txq"], "not_full")
    BY <1>1, <1>3, <2>1, Zenon DEF WaitFor
  <2>3. ~panic'
    BY <2>2, Zenon DEF wait, PInv
  <2>4. /\ queue'["txq"].lock = t /\ queue'["buffer"] = queue["buffer"]
        /\ \A u \in Threads : pc'[u] = IF u = t THEN "wait" ELSE pc[u]
    BY <1>1, <2>2, Zenon DEF wait, IntqType
  <2> QED BY <1>1, <1>3, <2>3, <2>4, ZenonT(30) DEF PInv, txq, buffer, Writers
<1> QED BY <1>2, <1>3, Zenon

(* A thread outside wait goes on and leaves the locks of the queues alone. *)
LEMMA GoesOnP ==
    ASSUME CInv, PInv, ~panic', NEW t \in Threads, off \in {NULL, t}, pc[t] \in {"run", "line", "getc"},
           NEW place \in {"run", "line", "done", "getc"}, pc' = [pc EXCEPT ![t] = place],
           buffer'.lock = buffer.lock, txq'.lock = txq.lock, UNCHANGED use_console_lock
    PROVE  PInv'
<1>1. use_console_lock
  BY LockInUse, Zenon
<1>2. \A u \in Threads : pc'[u] = IF u = t THEN place ELSE pc[u]
  BY Zenon DEF CInv, Kinds
<1> QED BY <1>1, <1>2 DEF PInv, Writers

(* The steps of a thread keep it: lock_release by the holder only.         *)
LEMMA ThreadP ==
    ASSUME QInv, CInv, PInv, NEW t \in Threads, ThreadStep(t), \A r, s \in Readers : r = s
    PROVE  PInv'
<1>1. /\ pc \in [Threads -> AllPlaces] /\ queue \in [{"txq", "buffer"} -> IntqType]
      /\ txq = queue["txq"] /\ buffer = queue["buffer"] /\ pc[t] \in Places(t)
      /\ txq.not_empty = NULL /\ buffer.not_full = NULL
  BY Zenon DEF CInv, Kinds, QInv, QueuesType, txq, buffer, Slots
<1>2. CASE acquire_console(t)
  BY <1>2, GoesOnP, Zenon DEF acquire_console, serialVars, txq, buffer, PInv
<1>3. CASE putchar_have_lock(t)
  <2>1. pc[t] = "line" /\ off \in {NULL, t} /\ t \in Writers /\ UNCHANGED use_console_lock
    BY <1>1, <1>3, Zenon DEF putchar_have_lock, Places, InCall, Writers
  <2>2. CASE WaitFor(t, "txq", "not_full")
    BY <2>1, <2>2, WaitForP, Zenon
  <2>3. CASE ~panic' /\ pc' = [pc EXCEPT ![t] = "line"] /\ UNCHANGED queue
    BY <2>1, <2>3, GoesOnP, Zenon DEF txq, buffer
  <2>4. CASE /\ ~panic' /\ pc' = Signal([pc EXCEPT ![t] = "line"], txq.not_empty)
             /\ queue' = [queue EXCEPT !["txq"] = Put(txq, t)]
    <3>1. pc' = [pc EXCEPT ![t] = "line"]
      BY <1>1, <2>4, Zenon DEF Signal
    <3>2. buffer'.lock = buffer.lock /\ txq'.lock = txq.lock
      BY <1>1, <2>4, Zenon DEF Put, IntqType, txq, buffer
    <3> QED BY <2>1, <2>4, <3>1, <3>2, GoesOnP, Zenon
  <2> QED BY <1>3, <2>2, <2>3, <2>4 DEF putchar_have_lock, serial_putc, PInv
<1>4. CASE release_console(t)
  <2>1. pc[t] = "line" /\ off = NULL /\ t \in Writers /\ UNCHANGED <<queue, use_console_lock>>
    BY <1>1, <1>4, Zenon DEF release_console, Places, InCall, Writers, serialVars
  <2>2. use_console_lock
    BY <2>1, LockInUse, Zenon
  <2>3. console_lock = t
    BY <2>1, <2>2, WriterAlone, Zenon
  <2>4. ~panic'
    BY <1>4, <2>2, <2>3, Zenon DEF release_console, PInv
  <2>5. PICK place \in {"done", "line"} : pc' = [pc EXCEPT ![t] = place]
    BY <1>4, Zenon DEF release_console
  <2> QED BY <2>1, <2>4, <2>5, GoesOnP, Zenon DEF txq, buffer
<1>5. CASE ReadKey(t)
  <2>1. pc[t] = "getc" /\ off \in {NULL, t} /\ t \in Readers /\ UNCHANGED use_console_lock
    BY <1>1, <1>5, Zenon DEF ReadKey, Places, InCall, consoleVars
  <2>2. CASE WaitFor(t, "buffer", "not_empty")
    BY <2>1, <2>2, WaitForP, Zenon
  <2>3. CASE /\ ~panic' /\ pc' = Signal([pc EXCEPT ![t] = "getc"], buffer.not_full)
             /\ queue' = [queue EXCEPT !["buffer"] = Got(buffer)]
    <3>1. pc' = [pc EXCEPT ![t] = "getc"]
      BY <1>1, <2>3, Zenon DEF Signal
    <3>2. buffer'.lock = buffer.lock /\ txq'.lock = txq.lock
      BY <1>1, <2>3, Zenon DEF Got, IntqType, txq, buffer
    <3> QED BY <2>1, <2>3, <3>1, <3>2, GoesOnP, Zenon
  <2>4. ~panic
    BY Zenon DEF PInv
  <2>5. \/ WaitFor(t, "buffer", "not_empty")
        \/ /\ panic' = panic /\ pc' = Signal([pc EXCEPT ![t] = "getc"], buffer.not_full)
           /\ queue' = [queue EXCEPT !["buffer"] = Got(buffer)]
    BY <1>5, Zenon DEF ReadKey, input_getc
  <2> QED BY <2>2, <2>3, <2>4, <2>5, Zenon
<1>6. CASE Waiting(t)
  <2> DEFINE x == IF t \in Readers THEN "buffer" ELSE "txq"
             place == IF t \in Readers THEN "getc" ELSE "line"
  <2>1. Resume(t, x, place) /\ UNCHANGED use_console_lock
    BY <1>6, Zenon DEF Waiting, LockAcquired, PInv, consoleVars
  <2>2. /\ pc[t] = "woken" /\ off = NULL /\ ~panic'
        /\ pc' = [pc EXCEPT ![t] = place] /\ queue' = [queue EXCEPT ![x].lock = NULL]
    BY <2>1, Zenon DEF Resume, PInv
  <2>3. use_console_lock
    BY <2>2, LockInUse, Zenon
  <2>4. \A u \in Threads : pc'[u] = IF u = t THEN place ELSE pc[u]
    BY <1>1, <2>2, Zenon
  <2>5. CASE t \in Readers
    <3>1. queue'["buffer"].lock = NULL /\ queue'["txq"] = queue["txq"]
      BY <1>1, <2>2, <2>5, Zenon DEF IntqType
    <3> QED BY <1>1, <2>1, <2>2, <2>3, <2>4, <2>5, <3>1, Zenon DEF PInv, txq, buffer, Writers
  <2>6. CASE t \notin Readers
    <3>1. queue'["txq"].lock = NULL /\ queue'["buffer"] = queue["buffer"]
      BY <1>1, <2>2, <2>6, Zenon DEF IntqType
    <3> QED BY <1>1, <2>1, <2>2, <2>3, <2>4, <2>6, <3>1, Zenon DEF PInv, txq, buffer, Writers
  <2> QED BY <2>5, <2>6, Zenon
<1> QED BY <1>2, <1>3, <1>4, <1>5, <1>6, Zenon DEF ThreadStep

(* debug_panic stops everything else: interrupts stay off.                 *)
LEMMA PanicP ==
    ASSUME QInv, CInv, PInv, NEW t \in Writers, debug_panic(t)
    PROVE  PInv'
<1>1. /\ pc \in [Threads -> AllPlaces] /\ queue \in [{"txq", "buffer"} -> IntqType]
      /\ txq = queue["txq"] /\ buffer = queue["buffer"] /\ t \in Threads /\ t \notin Readers
      /\ txq.not_full # NULL => txq.not_full \in Writers /\ pc[txq.not_full] = "wait"
  BY Zenon DEF CInv, Kinds, QInv, QueuesType, txq, buffer, Slots, Writers
<1>2. /\ pc[t] \in {"run", "line", "done"} /\ off' = t /\ use_console_lock' = FALSE /\ ~panic'
      /\ pc' = Signal([pc EXCEPT ![t] = "panic"], txq.not_full)
      /\ queue' = [queue EXCEPT !["txq"] = Emptied(txq)]
  BY Zenon DEF debug_panic, serial_flush, PInv
<1>3. buffer'.lock = buffer.lock /\ txq'.lock = txq.lock
  BY <1>1, <1>2, Zenon DEF Emptied, intq_init, IntqType, txq, buffer
<1>4. \A u \in Threads : [pc EXCEPT ![t] = "panic"][u] = IF u = t THEN "panic" ELSE pc[u]
  BY <1>1, Zenon
<1>5. \A u \in Threads :
         pc'[u] = IF u = t THEN "panic" ELSE IF u = txq.not_full THEN "woken" ELSE pc[u]
  BY <1>1, <1>2, <1>4, NullAssumption, Zenon DEF Signal, Writers
<1>6. /\ pc'[t] = "panic" /\ \A u \in Threads : pc'[u] # "lock"
      /\ \A u \in Threads : pc[u] \in {"wait", "woken"} => pc'[u] \in {"wait", "woken"}
  BY <1>1, <1>2, <1>5, ZenonT(30) DEF PInv
<1> QED BY <1>1, <1>2, <1>3, <1>6, Zenon DEF PInv, Writers

(* With one thread that reads keys, whatever the number of writers and the *)
(* size of the queues, the ASSERTs of intq.c, input.c and lock_release     *)
(* never fail: no waiter finds its condition already true.                 *)
THEOREM AssertsHold == (\A r, s \in Readers : r = s) => (Spec => []NoPanic)
<1> SUFFICES ASSUME \A r, s \in Readers : r = s PROVE Spec => []NoPanic
  BY Zenon
<1>1. Init => PInv
  <2> SUFFICES ASSUME Init PROVE PInv
    BY Zenon
  <2>1. ~panic /\ use_console_lock /\ queue = [x \in {"txq", "buffer"} |-> intq_init]
    BY Zenon DEF Init, SerialInit
  <2>2. \A t \in Threads : pc[t] # "lock"
    BY Zenon DEF Init
  <2>3. txq.lock = NULL /\ buffer.lock = NULL
    BY <2>1, Zenon DEF txq, buffer, intq_init
  <2> QED BY <2>1, <2>2, <2>3, Zenon DEF PInv
<1>2. QInv /\ CInv /\ PInv /\ [Next]_vars => PInv'
  <2> SUFFICES ASSUME QInv, CInv, PInv, [Next]_vars PROVE PInv'
    BY Zenon
  <2>1. CASE UNCHANGED vars
    BY <2>1, WakingP, Zenon DEF vars, serialVars, consoleVars, txq, buffer, PInv
  <2> QED BY <2>1, ThreadP, PanicP, HandlersP, Zenon DEF Next
<1>3. PInv => NoPanic
  BY Zenon DEF PInv, NoPanic
<1> QED BY InitQ, NextQ, InitC, NextC, <1>1, <1>2, <1>3, PTL DEF Spec
=============================================================================
