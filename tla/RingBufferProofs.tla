-------------------------- MODULE RingBufferProofs --------------------------
(***************************************************************************)
(* What the operations of lib/util/ring_buffer.c do to the queue a ring    *)
(* stands for, for rings of every size and every kind of byte.             *)
(***************************************************************************)
EXTENDS RingBuffer, SequenceTheorems, TLAPS

\* Reduction modulo the size of an index that has wrapped at most once.
LEMMA ModOnce ==
  ASSUME NEW size \in Nat \ {0}, NEW a \in 0 .. 2 * size - 1
  PROVE  a % size = IF a < size THEN a ELSE a - size
<1>1. CASE a < size
  BY <1>1
<1>2. CASE a >= size
  BY <1>2
<1> QED BY <1>1, <1>2

\* The number of unread bytes, without the modulus.
LEMMA UsedValue ==
  ASSUME NEW size \in Nat \ {0}, NEW Byte, NEW rb \in RbType(size, Byte)
  PROVE  /\ RbUsed(rb) = IF rb.tail <= rb.head THEN rb.head - rb.tail
                         ELSE (rb.head + size) - rb.tail
         /\ RbUsed(rb) \in 0 .. size - 1
<1>1. /\ rb.size = size /\ rb.head \in 0 .. size - 1 /\ rb.tail \in 0 .. size - 1
  BY DEF RbType
<1> DEFINE a == (rb.head + size) - rb.tail
<1>2. a \in 0 .. 2 * size - 1
  BY <1>1
<1> HIDE DEF a
<1>3. a % size = IF a < size THEN a ELSE a - size
  BY <1>2, ModOnce
<1>4. RbUsed(rb) = a % size
  BY <1>1 DEF RbUsed, a
<1> QED BY <1>1, <1>3, <1>4 DEF a

\* rb_write stores at most what is offered and at most what is free.
LEMMA WrittenValue ==
  ASSUME NEW size \in Nat \ {0}, NEW Byte, NEW rb \in RbType(size, Byte),
         NEW data \in Seq(Byte)
  PROVE  /\ RbWritten(rb, data) \in 0 .. Len(data)
         /\ RbUsed(rb) + RbWritten(rb, data) <= size - 1
         /\ RbWritten(rb, data) < Len(data) =>
              RbUsed(rb) + RbWritten(rb, data) = size - 1
<1>1. rb.size = size /\ RbUsed(rb) \in 0 .. size - 1
  BY UsedValue DEF RbType
<1>2. Len(data) \in Nat
  BY LenProperties
<1> QED BY <1>1, <1>2 DEF RbWritten, RbFree, MinSize

\* rb_write yields a ring again, with as many more unread bytes as it stored.
LEMMA WriteType ==
  ASSUME NEW size \in Nat \ {0}, NEW Byte, NEW rb \in RbType(size, Byte),
         NEW data \in Seq(Byte)
  PROVE  /\ RbWrite(rb, data) \in RbType(size, Byte)
         /\ RbWrite(rb, data).tail = rb.tail
         /\ \A slot \in 0 .. size-1 : RbWrite(rb, data).buf[slot] =
              LET offset == ((slot + size) - rb.head) % size
              IN  IF offset < RbWritten(rb, data) THEN data[offset + 1]
                  ELSE rb.buf[slot]
         /\ RbUsed(RbWrite(rb, data)) = RbUsed(rb) + RbWritten(rb, data)
<1> DEFINE n == RbWritten(rb, data)
           Offset(slot) == ((slot + rb.size) - rb.head) % rb.size
<1>1. /\ rb.size = size /\ rb.head \in 0 .. size - 1 /\ rb.tail \in 0 .. size - 1
      /\ rb.buf \in [0 .. size-1 -> Byte]
  BY DEF RbType
<1>2. n \in 0 .. Len(data) /\ n <= size - 1 /\ RbUsed(rb) + n <= size - 1
      /\ n \in Nat /\ Len(data) \in Nat
  BY WrittenValue, UsedValue, LenProperties
<1>3. \A slot \in 0 .. size-1 : Offset(slot) \in 0 .. size-1
  <2>1. SUFFICES ASSUME NEW slot \in 0 .. size-1
                 PROVE  Offset(slot) \in 0 .. size-1
    OBVIOUS
  <2> DEFINE a == (slot + size) - rb.head
  <2>2. a \in 0 .. 2 * size - 1
    BY <1>1
  <2> HIDE DEF a
  <2>3. a % size \in 0 .. size-1
    BY <2>2, ModOnce
  <2>4. Offset(slot) = a % size
    BY <1>1 DEF a
  <2> QED BY <2>3, <2>4
<1> HIDE DEF Offset, n
<1> DEFINE B == [slot \in 0 .. size-1 |->
                   IF Offset(slot) < n THEN data[Offset(slot) + 1] ELSE rb.buf[slot]]
           H == (rb.head + n) % size
           new == RbWrite(rb, data)
<1>4. \A slot \in 0 .. size-1 : B[slot] \in Byte
  <2> SUFFICES ASSUME NEW slot \in 0 .. size-1
               PROVE  (IF Offset(slot) < n THEN data[Offset(slot) + 1]
                       ELSE rb.buf[slot]) \in Byte
    OBVIOUS
  <2>1. CASE Offset(slot) < n
    <3>1. Offset(slot) \in 0 .. size-1
      BY <1>3
    <3>2. Offset(slot) + 1 \in 1 .. Len(data)
      BY <1>2, <2>1, <3>1
    <3>3. data[Offset(slot) + 1] \in Byte
      BY <3>2, ElementOfSeq
    <3> QED BY <2>1, <3>3
  <2>2. CASE ~(Offset(slot) < n)
    BY <1>1, <2>2
  <2> QED BY <2>1, <2>2
<1>5. B \in [0 .. size-1 -> Byte]
  BY <1>4
<1>6. H = (IF rb.head + n < size THEN rb.head + n ELSE (rb.head + n) - size)
  <2>1. rb.head + n \in 0 .. 2 * size - 1
    BY <1>1, <1>2
  <2> QED BY <1>1, <1>2, <2>1, ModOnce
<1>7. new = [rb EXCEPT !.buf = B, !.head = H]
  BY <1>1 DEF RbWrite, n, Offset
<1> HIDE DEF B, H, new
<1>8. H \in 0 .. size-1
  BY <1>1, <1>2, <1>6
<1>9. /\ new \in RbType(size, Byte)
      /\ new.buf = B /\ new.head = H /\ new.size = size /\ new.tail = rb.tail
  BY <1>5, <1>7, <1>8 DEF RbType
<1>10. RbUsed(new) = RbUsed(rb) + n
  <2>1. RbUsed(new) = IF new.tail <= new.head THEN new.head - new.tail
                      ELSE (new.head + size) - new.tail
    BY <1>9, UsedValue
  <2>2. RbUsed(rb) = IF rb.tail <= rb.head THEN rb.head - rb.tail
                     ELSE (rb.head + size) - rb.tail
    BY UsedValue
  <2>3. CASE rb.tail <= rb.head /\ rb.head + n < size
    BY <1>1, <1>2, <1>6, <1>9, <2>1, <2>2, <2>3
  <2>4. CASE rb.tail <= rb.head /\ rb.head + n >= size
    <3>1. H = (rb.head + n) - size /\ RbUsed(rb) = rb.head - rb.tail
      BY <1>1, <1>2, <1>6, <2>2, <2>4
    <3>2. H < rb.tail
      BY <1>1, <1>2, <3>1
    <3> QED BY <1>1, <1>2, <1>9, <2>1, <3>1, <3>2
  <2>5. CASE rb.head < rb.tail
    <3>1. RbUsed(rb) = (rb.head + size) - rb.tail
      BY <1>1, <2>2, <2>5
    <3>2. rb.head + n < rb.tail
      BY <1>1, <1>2, <3>1
    <3>3. H = rb.head + n
      BY <1>1, <1>2, <1>6, <3>2
    <3> QED BY <1>1, <1>2, <1>9, <2>1, <3>1, <3>2, <3>3
  <2> QED BY <1>1, <1>2, <2>3, <2>4, <2>5
<1>11. \A slot \in 0 .. size-1 : new.buf[slot] =
          IF Offset(slot) < n THEN data[Offset(slot) + 1] ELSE rb.buf[slot]
  BY <1>9 DEF B
<1> QED BY <1>1, <1>9, <1>10, <1>11 DEF new, n, Offset

\* Where the slot of the unread byte number k (from 0) lies as seen from head:
\* the used slots come last, the free ones first.
LEMMA SlotOffset ==
  ASSUME NEW size \in Nat \ {0}, NEW Byte, NEW rb \in RbType(size, Byte),
         NEW k \in 0 .. size-1
  PROVE  /\ (rb.tail + k) % size \in 0 .. size-1
         /\ ((((rb.tail + k) % size) + size) - rb.head) % size =
              IF k < RbUsed(rb) THEN (size - RbUsed(rb)) + k ELSE k - RbUsed(rb)
<1> DEFINE head == rb.head
           tail == rb.tail
           used == RbUsed(rb)
           s == (tail + k) % size
           a == (s + size) - head
<1>1. /\ head \in 0 .. size-1 /\ tail \in 0 .. size-1
  BY DEF RbType
<1>2. /\ used = IF tail <= head THEN head - tail ELSE (head + size) - tail
      /\ used \in 0 .. size-1
  BY UsedValue
<1> HIDE DEF head, tail, used
<1>3. s = IF tail + k < size THEN tail + k ELSE (tail + k) - size
  <2>1. tail + k \in 0 .. 2 * size - 1
    BY <1>1
  <2> QED BY <1>1, <2>1, ModOnce
<1> HIDE DEF s
<1>4. s \in 0 .. size-1
  BY <1>1, <1>3
<1>5. a % size = IF a < size THEN a ELSE a - size
  <2>1. a \in 0 .. 2 * size - 1
    BY <1>1, <1>4
  <2> QED BY <1>1, <1>4, <2>1, ModOnce
<1>6. (IF a < size THEN a ELSE a - size) = IF k < used THEN (size - used) + k ELSE k - used
  <2>1. CASE tail <= head
    BY <1>1, <1>2, <1>3, <2>1
  <2>2. CASE head < tail
    BY <1>1, <1>2, <1>3, <2>2
  <2> QED BY <1>1, <2>1, <2>2
<1> QED BY <1>4, <1>5, <1>6 DEF s, head, tail, used

\* The slots of the unread bytes are slots of the ring.
LEMMA ContentsType ==
  ASSUME NEW size \in Nat \ {0}, NEW Byte, NEW rb \in RbType(size, Byte)
  PROVE  /\ RbContents(rb) \in Seq(Byte)
         /\ Len(RbContents(rb)) = RbUsed(rb)
         /\ \A k \in 1 .. RbUsed(rb) :
              /\ (rb.tail + (k - 1)) % size \in 0 .. size-1
              /\ RbContents(rb)[k] = rb.buf[(rb.tail + (k - 1)) % size]
<1>1. /\ rb.size = size /\ rb.head \in 0 .. size - 1 /\ rb.tail \in 0 .. size - 1
      /\ rb.buf \in [0 .. size-1 -> Byte]
  BY DEF RbType
<1>2. RbUsed(rb) \in 0 .. size-1 /\ RbUsed(rb) \in Nat
  BY UsedValue
<1>3. \A k \in 1 .. RbUsed(rb) : (rb.tail + (k - 1)) % size \in 0 .. size-1
  <2> SUFFICES ASSUME NEW k \in 1 .. RbUsed(rb)
               PROVE  (rb.tail + (k - 1)) % size \in 0 .. size-1
    OBVIOUS
  <2> DEFINE a == rb.tail + (k - 1)
  <2>1. a \in 0 .. 2 * size - 1
    BY <1>1, <1>2
  <2> HIDE DEF a
  <2>2. a % size \in 0 .. size-1
    BY <2>1, ModOnce
  <2> QED BY <2>2 DEF a
<1>4. RbContents(rb) = [k \in 1 .. RbUsed(rb) |-> rb.buf[(rb.tail + (k - 1)) % size]]
  BY <1>1 DEF RbContents
<1>5. \A k \in 1 .. RbUsed(rb) : rb.buf[(rb.tail + (k - 1)) % size] \in Byte
  BY <1>1, <1>3
<1>6. RbContents(rb) \in Seq(Byte)
  BY <1>2, <1>4, <1>5, IsASeq
<1> QED BY <1>2, <1>3, <1>4, <1>6, LenProperties

\* rb_write appends what it stores to the queue and touches nothing in it.
LEMMA WriteContents ==
  ASSUME NEW size \in Nat \ {0}, NEW Byte, NEW rb \in RbType(size, Byte),
         NEW data \in Seq(Byte)
  PROVE  RbContents(RbWrite(rb, data)) =
           RbContents(rb) \o SubSeq(data, 1, RbWritten(rb, data))
<1> DEFINE n == RbWritten(rb, data)
           used == RbUsed(rb)
           new == RbWrite(rb, data)
           old == RbContents(rb)
           stored == SubSeq(data, 1, n)
<1>1. /\ rb.size = size /\ rb.head \in 0 .. size - 1 /\ rb.tail \in 0 .. size - 1
  BY DEF RbType
<1>2. /\ n \in Nat /\ n <= Len(data) /\ Len(data) \in Nat
      /\ used \in 0 .. size-1 /\ used \in Nat /\ used + n <= size - 1
  BY WrittenValue, UsedValue, LenProperties
<1>3. used = IF rb.tail <= rb.head THEN rb.head - rb.tail
             ELSE (rb.head + size) - rb.tail
  BY UsedValue
<1>4. /\ new \in RbType(size, Byte) /\ new.tail = rb.tail /\ RbUsed(new) = used + n
      /\ \A slot \in 0 .. size-1 : new.buf[slot] =
           IF ((slot + size) - rb.head) % size < n
           THEN data[(((slot + size) - rb.head) % size) + 1] ELSE rb.buf[slot]
  BY WriteType
<1>5. /\ old \in Seq(Byte) /\ Len(old) = used
      /\ \A k \in 1 .. used : old[k] = rb.buf[(rb.tail + (k - 1)) % size]
  BY ContentsType
<1>6. /\ RbContents(new) \in Seq(Byte) /\ Len(RbContents(new)) = used + n
      /\ \A k \in 1 .. used + n :
           RbContents(new)[k] = new.buf[(rb.tail + (k - 1)) % size]
  BY <1>4, ContentsType
<1>7. /\ stored \in Seq(Byte) /\ Len(stored) = n
      /\ \A k \in 1 .. n : stored[k] = data[k]
  <2>1. \A k \in 1 .. n : data[k] \in Byte
    BY <1>2, ElementOfSeq
  <2> QED BY <1>2, <2>1, SubSeqProperties
<1> HIDE DEF n, used, new, old, stored
<1>8. \A k \in 1 .. used + n : RbContents(new)[k] = (old \o stored)[k]
  <2> SUFFICES ASSUME NEW k \in 1 .. used + n
               PROVE  RbContents(new)[k] = (old \o stored)[k]
    OBVIOUS
  <2> DEFINE j == k - 1
             slot == (rb.tail + j) % size
             offset == ((slot + size) - rb.head) % size
  <2>1. j \in 0 .. size-1 /\ k = j + 1
    BY <1>2
  <2> HIDE DEF j
  <2>2. slot \in 0 .. size-1 /\ offset = IF j < used THEN (size - used) + j ELSE j - used
    BY <2>1, SlotOffset DEF used
  <2>3. RbContents(new)[k] = new.buf[slot]
    BY <1>6, <2>1 DEF j
  <2> HIDE DEF slot
  <2>4. new.buf[slot] = IF offset < n THEN data[offset + 1] ELSE rb.buf[slot]
    BY <1>4, <2>2
  <2> HIDE DEF offset
  <2>5. (old \o stored)[k] = IF k <= used THEN old[k] ELSE stored[k - used]
    BY <1>2, <1>5, <1>7, ConcatProperties
  <2>6. CASE j < used
    <3>1. k \in 1 .. used
      BY <1>2, <2>1, <2>6
    <3>2. ~(offset < n)
      BY <1>2, <2>1, <2>2, <2>6
    <3>3. old[k] = rb.buf[slot]
      BY <1>5, <3>1 DEF slot, j
    <3> QED BY <2>3, <2>4, <2>5, <3>1, <3>2, <3>3
  <2>7. CASE ~(j < used)
    <3>1. offset = j - used /\ k - used \in 1 .. n /\ offset + 1 = k - used /\ offset < n
      BY <1>2, <2>1, <2>2, <2>7
    <3>2. ~(k <= used)
      BY <1>2, <2>1, <2>7
    <3>3. stored[k - used] = data[k - used]
      BY <1>7, <3>1
    <3> QED BY <2>3, <2>4, <2>5, <3>1, <3>2, <3>3
  <2> QED BY <2>6, <2>7
<1>9. old \o stored \in Seq(Byte) /\ Len(old \o stored) = used + n
  BY <1>2, <1>5, <1>7, ConcatProperties
<1>10. RbContents(new) = old \o stored
  BY <1>6, <1>8, <1>9, SeqEqual
<1> QED BY <1>10 DEF n, used, new, old, stored

\* Moving tail over one slot takes the oldest byte off the queue.
LEMMA AdvanceContents ==
  ASSUME NEW size \in Nat \ {0}, NEW Byte, NEW rb \in RbType(size, Byte),
         RbUsed(rb) > 0
  PROVE  /\ RbAdvance(rb) \in RbType(size, Byte)
         /\ RbAdvance(rb).buf = rb.buf
         /\ RbUsed(RbAdvance(rb)) = RbUsed(rb) - 1
         /\ RbContents(rb) # <<>>
         /\ rb.buf[rb.tail] = Head(RbContents(rb))
         /\ RbContents(RbAdvance(rb)) = Tail(RbContents(rb))
<1> DEFINE new == RbAdvance(rb)
           used == RbUsed(rb)
           old == RbContents(rb)
           T == (rb.tail + 1) % size
<1>1. /\ rb.size = size /\ rb.head \in 0 .. size - 1 /\ rb.tail \in 0 .. size - 1
      /\ rb.buf \in [0 .. size-1 -> Byte]
  BY DEF RbType
<1>2. /\ used \in 0 .. size-1 /\ used \in Nat /\ used > 0
      /\ used = IF rb.tail <= rb.head THEN rb.head - rb.tail
                ELSE (rb.head + size) - rb.tail
  BY UsedValue
<1>3. T = IF rb.tail + 1 < size THEN rb.tail + 1 ELSE 0
  <2>1. rb.tail + 1 \in 0 .. 2 * size - 1
    BY <1>1
  <2>2. T = IF rb.tail + 1 < size THEN rb.tail + 1 ELSE (rb.tail + 1) - size
    BY <1>1, <2>1, ModOnce
  <2> QED BY <1>1, <2>2
<1>4. new = [rb EXCEPT !.tail = T]
  BY <1>1 DEF RbAdvance
<1> HIDE DEF T, new
<1>5. T \in 0 .. size-1
  BY <1>1, <1>3
<1>6. /\ new \in RbType(size, Byte)
      /\ new.tail = T /\ new.head = rb.head /\ new.buf = rb.buf /\ new.size = size
  BY <1>1, <1>4, <1>5 DEF RbType
<1>7. RbUsed(new) = used - 1
  <2>1. RbUsed(new) = IF T <= rb.head THEN rb.head - T ELSE (rb.head + size) - T
    BY <1>6, UsedValue
  <2> HIDE DEF used
  <2>2. CASE rb.tail <= rb.head
    BY <1>1, <1>2, <1>3, <2>1, <2>2
  <2>3. CASE rb.head < rb.tail
    <3>1. CASE rb.tail + 1 < size
      <4>1. T = rb.tail + 1 /\ ~(T <= rb.head)
        BY <1>1, <1>3, <2>3, <3>1
      <4> QED BY <1>1, <1>2, <2>1, <2>3, <4>1
    <3>2. CASE ~(rb.tail + 1 < size)
      <4>1. T = 0 /\ rb.tail = size - 1
        BY <1>1, <1>3, <3>2
      <4> QED BY <1>1, <1>2, <2>1, <2>3, <4>1
    <3> QED BY <3>1, <3>2
  <2> QED BY <1>1, <2>2, <2>3
<1>8. /\ old \in Seq(Byte) /\ Len(old) = used
      /\ \A k \in 1 .. used : old[k] = rb.buf[(rb.tail + (k - 1)) % size]
  BY ContentsType
<1>9. /\ RbContents(new) \in Seq(Byte) /\ Len(RbContents(new)) = used - 1
      /\ \A k \in 1 .. used - 1 : RbContents(new)[k] = rb.buf[(T + (k - 1)) % size]
  <2>1. /\ RbContents(new) \in Seq(Byte) /\ Len(RbContents(new)) = RbUsed(new)
        /\ \A k \in 1 .. RbUsed(new) :
             RbContents(new)[k] = new.buf[(new.tail + (k - 1)) % size]
    BY <1>6, ContentsType
  <2> QED BY <1>6, <1>7, <2>1
<1> HIDE DEF used, old
<1>10. old # <<>> /\ Tail(old) \in Seq(Byte) /\ Len(Tail(old)) = used - 1
       /\ \A k \in 1 .. used - 1 : Tail(old)[k] = old[k + 1]
  BY <1>2, <1>8, HeadTailProperties, EmptySeq
<1>11. \A k \in 1 .. used - 1 : RbContents(new)[k] = Tail(old)[k]
  <2> SUFFICES ASSUME NEW k \in 1 .. used - 1
               PROVE  RbContents(new)[k] = Tail(old)[k]
    OBVIOUS
  <2>1. (T + (k - 1)) % size = (rb.tail + ((k + 1) - 1)) % size
    <3> DEFINE a == T + (k - 1)
               b == rb.tail + ((k + 1) - 1)
    <3>1. a \in 0 .. 2 * size - 1 /\ b \in 0 .. 2 * size - 1 /\ (a = b \/ a = b - size)
          /\ (a = b - size => a < size)
      <4>1. CASE rb.tail + 1 < size
        <5>1. T = rb.tail + 1
          BY <1>3, <4>1
        <5>3. size \in Nat /\ used \in 0 .. size - 1 /\ rb.tail \in Nat
          BY <1>1, <1>2
        <5>2. a = b /\ b = rb.tail + k /\ k \in 1 .. size - 2
          BY <5>1, <5>3
        <5> HIDE DEF a, b
        <5> QED BY <1>1, <5>2
      <4>2. CASE ~(rb.tail + 1 < size)
        <5>1. T = 0 /\ rb.tail = size - 1
          BY <1>1, <1>3, <4>2
        <5>2. a = k - 1 /\ b = (size - 1) + k /\ k \in 1 .. size - 2
          BY <1>1, <1>2, <5>1
        <5> HIDE DEF a, b
        <5> QED BY <5>2
      <4> QED BY <4>1, <4>2
    <3> HIDE DEF a, b
    <3>2. a % size = IF a < size THEN a ELSE a - size
      BY <3>1, ModOnce
    <3>3. b % size = IF b < size THEN b ELSE b - size
      BY <3>1, ModOnce
    <3> QED BY <3>1, <3>2, <3>3 DEF a, b
  <2>2. k + 1 \in 1 .. used
    BY <1>2
  <2>3. old[k + 1] = rb.buf[(rb.tail + ((k + 1) - 1)) % size]
    BY <1>8, <2>2
  <2> QED BY <1>9, <1>10, <2>1, <2>3
<1>12. RbContents(new) = Tail(old)
  BY <1>9, <1>10, <1>11, SeqEqual
<1>13. rb.buf[rb.tail] = Head(old)
  <2>1. old[1] = rb.buf[(rb.tail + (1 - 1)) % size]
    BY <1>2, <1>8
  <2>2. (rb.tail + (1 - 1)) % size = rb.tail
    <3> DEFINE t == rb.tail + (1 - 1)
    <3>1. t = rb.tail /\ t \in 0 .. 2 * size - 1 /\ t < size
      BY <1>1
    <3> HIDE DEF t
    <3>2. t % size = t
      BY <3>1, ModOnce
    <3> QED BY <3>1, <3>2 DEF t
  <2>3. Head(old) = old[1]
    BY <1>8, <1>10
  <2> QED BY <2>1, <2>2, <2>3
<1> QED BY <1>6, <1>7, <1>10, <1>12, <1>13 DEF new, used, old

\* rb_peek_contig points at the oldest bytes, at one at least if there is any.
LEMMA PeekContents ==
  ASSUME NEW size \in Nat \ {0}, NEW Byte, NEW rb \in RbType(size, Byte)
  PROVE  /\ RbPeekContig(rb) \in Seq(Byte)
         /\ Len(RbPeekContig(rb)) \in 0 .. RbUsed(rb)
         /\ RbUsed(rb) > 0 => Len(RbPeekContig(rb)) > 0
         /\ \A k \in 1 .. Len(RbPeekContig(rb)) : RbPeekContig(rb)[k] = RbContents(rb)[k]
<1> DEFINE used == RbUsed(rb)
           n == IF used = 0 THEN 0 ELSE IF rb.tail < rb.head THEN rb.head - rb.tail
                ELSE rb.size - rb.tail
           run == RbPeekContig(rb)
<1>1. /\ rb.size = size /\ rb.head \in 0 .. size - 1 /\ rb.tail \in 0 .. size - 1
      /\ rb.buf \in [0 .. size-1 -> Byte]
  BY DEF RbType
<1>2. /\ used \in 0 .. size-1
      /\ used = IF rb.tail <= rb.head THEN rb.head - rb.tail ELSE (rb.head + size) - rb.tail
  BY UsedValue
<1>3. /\ RbContents(rb) \in Seq(Byte) /\ Len(RbContents(rb)) = used
      /\ \A k \in 1 .. used : RbContents(rb)[k] = rb.buf[(rb.tail + (k - 1)) % size]
  BY ContentsType
<1>4. run = [k \in 1 .. n |-> rb.buf[rb.tail + k - 1]]
  BY DEF RbPeekContig
<1> HIDE DEF used, run
<1>5. n \in 0 .. used /\ (used > 0 => n > 0) /\ rb.tail + n <= size
  BY <1>1, <1>2
<1> HIDE DEF n
<1>6. \A k \in 1 .. n : rb.tail + k - 1 \in 0 .. size-1
  BY <1>1, <1>2, <1>5
<1>7. run \in Seq(Byte) /\ Len(run) = n
  <2>1. n \in Nat /\ run \in [1 .. n -> Byte]
    BY <1>1, <1>2, <1>4, <1>5, <1>6
  <2> QED BY <2>1
<1>8. ASSUME NEW k \in 1 .. n  PROVE run[k] = RbContents(rb)[k]
  <2> DEFINE a == rb.tail + (k - 1)
  <2>1. a \in 0 .. 2 * size - 1 /\ a < size /\ a = rb.tail + k - 1 /\ k \in 1 .. used
    BY <1>1, <1>2, <1>5
  <2>2. run[k] = rb.buf[a]
    BY <1>4, <2>1
  <2>3. RbContents(rb)[k] = rb.buf[a % size]
    BY <1>3, <2>1
  <2> HIDE DEF a
  <2>4. a % size = a
    BY <2>1, ModOnce
  <2> QED BY <2>2, <2>3, <2>4
<1> QED BY <1>5, <1>7, <1>8 DEF used, run

\* rb_consume takes the n oldest bytes off the queue.
LEMMA ConsumeContents ==
  ASSUME NEW size \in Nat \ {0}, NEW Byte, NEW rb \in RbType(size, Byte),
         NEW n \in 0 .. RbUsed(rb)
  PROVE  /\ RbConsume(rb, n) \in RbType(size, Byte)
         /\ RbUsed(RbConsume(rb, n)) = RbUsed(rb) - n
         /\ RbContents(RbConsume(rb, n)) = SubSeq(RbContents(rb), n + 1, RbUsed(rb))
<1> DEFINE used == RbUsed(rb)
           new == RbConsume(rb, n)
           old == RbContents(rb)
           rest == SubSeq(old, n + 1, used)
           T == (rb.tail + n) % size
<1>1. /\ rb.size = size /\ rb.head \in 0 .. size - 1 /\ rb.tail \in 0 .. size - 1
  BY DEF RbType
<1>2. /\ used \in 0 .. size-1
      /\ used = IF rb.tail <= rb.head THEN rb.head - rb.tail ELSE (rb.head + size) - rb.tail
  BY UsedValue
<1>3. new = [rb EXCEPT !.tail = T]
  <2>1. MinSize(n, RbUsed(rb)) = n
    BY <1>2 DEF MinSize
  <2> QED BY <1>1, <2>1 DEF RbConsume
<1>4. /\ old \in Seq(Byte) /\ Len(old) = used
      /\ \A k \in 1 .. used : old[k] = rb.buf[(rb.tail + (k - 1)) % size]
  BY ContentsType
<1>5. n \in 0 .. used
  OBVIOUS
<1> HIDE DEF used, new, old
<1>6. T = IF rb.tail + n < size THEN rb.tail + n ELSE (rb.tail + n) - size
  <2>1. rb.tail + n \in 0 .. 2 * size - 1
    BY <1>1, <1>2, <1>5
  <2> QED BY <2>1, ModOnce
<1> HIDE DEF T
<1>7. T \in 0 .. size-1
  BY <1>1, <1>2, <1>5, <1>6
<1>8. /\ new \in RbType(size, Byte)
      /\ new.tail = T /\ new.head = rb.head /\ new.buf = rb.buf
  BY <1>3, <1>7 DEF RbType
<1>9. RbUsed(new) = used - n
  <2>1. /\ RbUsed(new) = IF T <= rb.head THEN rb.head - T ELSE (rb.head + size) - T
        /\ RbUsed(new) \in 0 .. size - 1
    BY <1>8, UsedValue
  <2>2. CASE rb.tail + n < size
    BY <1>1, <1>2, <1>5, <1>6, <2>1, <2>2
  <2>3. CASE ~(rb.tail + n < size)
    BY <1>1, <1>2, <1>5, <1>6, <2>1, <2>3
  <2> QED BY <2>2, <2>3
<1>10. /\ RbContents(new) \in Seq(Byte) /\ Len(RbContents(new)) = used - n
       /\ \A k \in 1 .. used - n : RbContents(new)[k] = rb.buf[(T + (k - 1)) % size]
  <2>1. /\ RbContents(new) \in Seq(Byte) /\ Len(RbContents(new)) = RbUsed(new)
        /\ \A k \in 1 .. RbUsed(new) :
             RbContents(new)[k] = new.buf[(new.tail + (k - 1)) % size]
    BY <1>8, ContentsType
  <2> QED BY <1>8, <1>9, <2>1
<1>11. /\ rest \in Seq(Byte) /\ Len(rest) = used - n
       /\ \A k \in 1 .. used - n : rest[k] = old[n + k]
  <2>1. \A k \in n + 1 .. used : old[k] \in Byte
    BY <1>2, <1>4, <1>5
  <2>2. /\ rest \in Seq(Byte) /\ Len(rest) = IF n + 1 <= used THEN used - (n + 1) + 1 ELSE 0
        /\ \A k \in 1 .. used - (n + 1) + 1 : rest[k] = old[n + 1 + k - 1]
    BY <1>2, <1>5, <2>1, SubSeqProperties
  <2>3. used - (n + 1) + 1 = used - n /\ \A k \in 1 .. used - n : n + 1 + k - 1 = n + k
    BY <1>2, <1>5
  <2>4. Len(rest) = used - n
    BY <1>2, <1>5, <2>2
  <2> QED BY <2>2, <2>3, <2>4
<1> HIDE DEF rest
<1>12. ASSUME NEW k \in 1 .. used - n  PROVE RbContents(new)[k] = rest[k]
  <2> DEFINE a == T + (k - 1)
             b == rb.tail + ((n + k) - 1)
  <2>1. a \in 0 .. 2 * size - 1 /\ b \in 0 .. 2 * size - 1 /\ (a = b \/ a = b - size)
        /\ (a = b - size => a < size)
    BY <1>1, <1>2, <1>5, <1>6
  <2>2. old[n + k] = rb.buf[b % size]
    BY <1>2, <1>4, <1>5
  <2>3. RbContents(new)[k] = rb.buf[a % size]
    BY <1>10
  <2> HIDE DEF a, b
  <2>4. a % size = IF a < size THEN a ELSE a - size
    BY <2>1, ModOnce
  <2>5. b % size = IF b < size THEN b ELSE b - size
    BY <2>1, ModOnce
  <2>6. a % size = b % size
    BY <2>1, <2>4, <2>5
  <2> QED BY <1>11, <2>2, <2>3, <2>6
<1>13. RbContents(new) = rest
  BY <1>10, <1>11, <1>12, SeqEqual
<1> QED BY <1>8, <1>9, <1>13 DEF used, new, old, rest
=============================================================================
