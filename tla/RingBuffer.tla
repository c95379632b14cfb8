----------------------------- MODULE RingBuffer -----------------------------
(***************************************************************************)
(* lib/util/ring_buffer.c as operators on a record: rb_t is                *)
(* [buf, size, head, tail], an operation that changes the ring returns the *)
(* new record.  One slot is always left empty, so head = tail means empty. *)
(* The steps in which a concurrent user may see a half-done rb_read are in *)
(* SerialRx; where the callers hold the IRQ lock the whole-call operators  *)
(* below are the steps.                                                    *)
(***************************************************************************)
EXTENDS Naturals, Sequences

MinSize(a, b) == IF a < b THEN a ELSE b

\* rb_init; the storage is static, so every slot holds the zero byte.
RbInit(size, zero) == [buf |-> [k \in 0 .. size-1 |-> zero], size |-> size,
                       head |-> 0, tail |-> 0]

RbUsed(rb) == (rb.head + rb.size - rb.tail) % rb.size

\* Mutant: every slot usable, so that a full ring looks empty.
RbFreeNoGap(rb) == rb.size - RbUsed(rb)

RbFree(rb) == (rb.size - RbUsed(rb)) - 1

\* Mutant: the free space is not looked at.
RbWrittenUnchecked(rb, data) == Len(data)

\* rb_write stores the first RbWritten bytes of data, from head on, wrapping
\* at size; offset k of a slot is its distance from the old head.
RbWritten(rb, data) == MinSize(Len(data), RbFree(rb))

RbWrite(rb, data) ==
  LET n == RbWritten(rb, data)
      Offset(slot) == ((slot + rb.size) - rb.head) % rb.size
  IN  [rb EXCEPT
        !.buf = [slot \in 0 .. rb.size-1 |->
                   IF Offset(slot) < n THEN data[Offset(slot) + 1]
                                       ELSE rb.buf[slot]],
        !.head = (rb.head + n) % rb.size]

\* One turn of rb_read's loop frees the slot it has read.
RbAdvance(rb) == [rb EXCEPT !.tail = (rb.tail + 1) % rb.size]

\* The run of bytes readable without wrapping, which rb_peek_contig points at.
RbPeekContig(rb) ==
  LET n == IF RbUsed(rb) = 0 THEN 0
           ELSE IF rb.tail < rb.head THEN rb.head - rb.tail
           ELSE rb.size - rb.tail
  IN  [i \in 1 .. n |-> rb.buf[rb.tail + i - 1]]

RbConsume(rb, n) ==
  [rb EXCEPT !.tail = (rb.tail + MinSize(n, RbUsed(rb))) % rb.size]

-----------------------------------------------------------------------------
(* The queue a ring stands for: its unread bytes, oldest first.            *)
RbContents(rb) ==
  [i \in 1 .. RbUsed(rb) |-> rb.buf[(rb.tail + (i - 1)) % rb.size]]

\* The rings rb_init and the operations can produce.
RbType(size, Byte) ==
  [buf : [0 .. size-1 -> Byte], size : {size},
   head : 0 .. size-1, tail : 0 .. size-1]
=============================================================================
