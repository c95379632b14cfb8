------------------------------ MODULE SerialRx ------------------------------
(***************************************************************************)
(* The receive path: uart_isr (app/src/platform/serial_async.c) writes the *)
(* bytes it takes from the UART into rx_rb; proto_thread                   *)
(* (app/src/app/proto_task.c) copies them out with rb_read and feeds them  *)
(* to the stream parser.  Nothing locks rx_rb: the ISR may run between any *)
(* two memory accesses of the thread's rb_read, but not the other way      *)
(* round, so the ISR is one step and the copy loop is two steps per byte.  *)
(***************************************************************************)
EXTENDS RingBuffer

CONSTANTS RxSize,       \* RX_BUF_SZ
          IsrChunk,     \* sizeof(buf) in uart_isr
          ReadMax,      \* sizeof(tmp) in proto_thread
          Byte,         \* byte values; rx_storage starts zeroed
          MaxArrivals   \* bound: bytes the UART receives in a behaviour

ASSUME SerialRxAssumption ==
  /\ RxSize \in Nat \ {0} /\ IsrChunk \in Nat /\ ReadMax \in Nat
  /\ 0 \in Byte /\ MaxArrivals \in Nat

VARIABLES
  rx_rb,
  lost,    \* bytes rb_write did not store; uart_isr ignores its result
  rx_pc,   \* where proto_thread is
  tmp,     \* proto_thread's buffer: the bytes copied so far
  to_read, \* rb_read's bound, computed once per call
  got,     \* rb_read's loop counter i
  fed      \* every byte handed to proto_stream_feed, in order

rxVars == <<rx_rb, lost, rx_pc, tmp, to_read, got, fed>>
threadVars == <<rx_pc, tmp, to_read, got, fed>>

\* Bytes that have left the ring for good, in order.
Delivered == fed \o SubSeq(tmp, 1, got)

Arrived == Len(Delivered) + RbUsed(rx_rb) + lost

RxInit ==
  /\ rx_rb = RbInit(RxSize, 0)
  /\ lost = 0
  /\ rx_pc = "read" /\ tmp = <<>> /\ to_read = 0 /\ got = 0
  /\ fed = <<>>

-----------------------------------------------------------------------------
\* Mutant: the ISR empties the ring when a chunk does not fit.
RxIsrReset ==
  \E n \in 1 .. IsrChunk : \E buf \in [1 .. n -> Byte] :
    /\ Arrived + n <= MaxArrivals
    /\ rx_rb' = IF RbWritten(rx_rb, buf) = n THEN RbWrite(rx_rb, buf)
                ELSE [rx_rb EXCEPT !.head = 0, !.tail = 0]
    /\ lost' = lost + (n - RbWritten(rx_rb, buf))
    /\ UNCHANGED threadVars

(* uart_isr, receive half: uart_fifo_read returns some bytes, at most the  *)
(* size of the ISR's buffer; those that do not fit in rx_rb are dropped.   *)
RxIsr ==
  \E n \in 1 .. IsrChunk : \E buf \in [1 .. n -> Byte] :
    /\ Arrived + n <= MaxArrivals
    /\ rx_rb' = RbWrite(rx_rb, buf)
    /\ lost' = lost + (n - RbWritten(rx_rb, buf))
    /\ UNCHANGED threadVars

\* Mutant: the thread waits for a whole buffer.
ReadBeginWhole ==
  /\ rx_pc = "read"
  /\ to_read' = MinSize(ReadMax, RbUsed(rx_rb))
  /\ got' = 0 /\ tmp' = <<>>
  /\ rx_pc' = IF to_read' = ReadMax THEN "load" ELSE "sleep"
  /\ UNCHANGED <<rx_rb, lost, fed>>

\* proto_thread calls platform_serial_read: rb_read fixes to_read.
ReadBegin ==
  /\ rx_pc = "read"
  /\ to_read' = MinSize(ReadMax, RbUsed(rx_rb))
  /\ got' = 0 /\ tmp' = <<>>
  /\ rx_pc' = IF to_read' > 0 THEN "load" ELSE "sleep"
  /\ UNCHANGED <<rx_rb, lost, fed>>

\* out[i] = rb->buf[rb->tail]
ReadLoad ==
  /\ rx_pc = "load"
  /\ tmp' = Append(tmp, rx_rb.buf[rx_rb.tail])
  /\ rx_pc' = "advance"
  /\ UNCHANGED <<rx_rb, lost, to_read, got, fed>>

\* Mutant: the tail does not wrap.
ReadAdvanceNoWrap ==
  /\ rx_pc = "advance"
  /\ rx_rb' = [rx_rb EXCEPT !.tail = rx_rb.tail + 1]
  /\ got' = got + 1
  /\ rx_pc' = IF got' < to_read THEN "load" ELSE "feed"
  /\ UNCHANGED <<lost, tmp, to_read, fed>>

\* rb->tail = (rb->tail + 1) % rb->size
ReadAdvance ==
  /\ rx_pc = "advance"
  /\ rx_rb' = RbAdvance(rx_rb)
  /\ got' = got + 1
  /\ rx_pc' = IF got' < to_read THEN "load" ELSE "feed"
  /\ UNCHANGED <<lost, tmp, to_read, fed>>

\* proto_stream_feed(&s_stream, tmp, n, ...): the parser and the handlers it
\* calls run while rx_pc = "feed"; this step is its return.
Feed ==
  /\ rx_pc = "feed"
  /\ fed' = fed \o tmp
  /\ tmp' = <<>> /\ got' = 0
  /\ rx_pc' = "read"
  /\ UNCHANGED <<rx_rb, lost, to_read>>

\* k_sleep(K_MSEC(5)) ends.
RxWake ==
  /\ rx_pc = "sleep"
  /\ rx_pc' = "read"
  /\ UNCHANGED <<rx_rb, lost, tmp, to_read, got, fed>>

Thread == ReadBegin \/ ReadLoad \/ ReadAdvance \/ Feed \/ RxWake

RxNext == RxIsr \/ Thread

\* proto_thread loops for ever and its sleeps are bounded; nothing makes the
\* other end of the line send.
RxSpec == RxInit /\ [][RxNext]_rxVars
RxFairSpec == RxSpec /\ WF_rxVars(Thread)

-----------------------------------------------------------------------------
RxTypeOK ==
  /\ rx_rb \in RbType(RxSize, Byte)
  /\ lost \in Nat
  /\ rx_pc \in {"read", "load", "advance", "feed", "sleep"}
  /\ tmp \in Seq(Byte)
  /\ to_read \in Nat /\ got \in Nat
  /\ fed \in Seq(Byte)

\* The bytes rb_read has promised to return (to_read, computed before the
\* loop) are still unread in the ring however often the ISR ran since.
PromiseKept ==
  rx_pc \in {"load", "advance"} => to_read - got <= RbUsed(rx_rb)

\* A byte already copied out stays in its slot until tail moves past it: the
\* ISR never reuses the slot the thread is working on, although it may fill
\* the ring while the thread is between the two halves of an iteration.
NoOverwrite ==
  rx_pc = "advance" => tmp[Len(tmp)] = rx_rb.buf[rx_rb.tail]

\* Where the copy loop is determines how much of tmp is valid.
LoopShape ==
  /\ rx_pc \in {"load", "feed"} => Len(tmp) = got
  /\ rx_pc = "advance" => Len(tmp) = got + 1
  /\ rx_pc \in {"load", "advance"} => got < to_read
  /\ rx_pc \in {"read", "sleep"} => Len(tmp) = 0 /\ got = 0

Safety == PromiseKept /\ NoOverwrite

\* The ring, tmp and the copy loop together are a lossy FIFO from the UART to
\* the parser: order kept, nothing duplicated, loss only when the ring is full.
Fifo == INSTANCE LossyFifo WITH
          Capacity  <- RxSize - 1,
          queue     <- RbContents(rx_rb),
          delivered <- Delivered,
          lost      <- lost

ImplementsFifo == Fifo!Spec

\* Every byte the ring accepted reaches the parser.
Accepted == Len(Delivered) + RbUsed(rx_rb)
AcceptedIsFed ==
  \A k \in 1 .. MaxArrivals : (Accepted >= k) ~> (Len(fed) >= k)
=============================================================================
