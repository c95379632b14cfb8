---------------------------- MODULE SerialProofs -----------------------------
(***************************************************************************)
(* The receive path is correct for every ring size, chunk size, buffer     *)
(* size and set of bytes: the unlocked rb_read of proto_thread and the     *)
(* rb_write of uart_isr implement the lossy FIFO.  The transmit path is    *)
(* for every ring, FIFO, number of waits and set of writers, until a       *)
(* polled frame overtakes what is left in tx_rb; which none does before    *)
(* one has found more bytes before it than it waits milliseconds.          *)
(***************************************************************************)
EXTENDS SerialRx, SerialTx, RingBufferProofs, NaturalsInduction, WellFoundedInduction

-----------------------------------------------------------------------------
(* The receive path.                                                       *)

\* PromiseKept and NoOverwrite need each other, and both need to know how far
\* the copy loop is.
RxIInv == RxTypeOK /\ LoopShape /\ PromiseKept /\ NoOverwrite

\* The initial ring is an empty ring.
LEMMA InitRing ==
  ASSUME NEW size \in Nat \ {0}, NEW Bytes, NEW zero \in Bytes
  PROVE  /\ RbInit(size, zero) \in RbType(size, Bytes)
         /\ RbUsed(RbInit(size, zero)) = 0
         /\ RbContents(RbInit(size, zero)) = <<>>
<1> DEFINE rb == RbInit(size, zero)
<1>1. rb \in RbType(size, Bytes) /\ rb.head = 0 /\ rb.tail = 0
  BY DEF RbInit, RbType
<1> HIDE DEF rb
<1>2. RbUsed(rb) = 0
  BY <1>1, UsedValue
<1>3. RbContents(rb) \in Seq(Bytes) /\ Len(RbContents(rb)) = 0
  BY <1>1, <1>2, ContentsType
<1>4. RbContents(rb) = <<>>
  BY <1>3, EmptySeq
<1> QED BY <1>1, <1>2, <1>4 DEF rb

\* A chunk the ISR may receive is a sequence of bytes.
LEMMA ChunkIsSeq ==
  ASSUME NEW n \in 1 .. IsrChunk, NEW chunk \in [1 .. n -> Byte]
  PROVE  chunk \in Seq(Byte) /\ Len(chunk) = n
BY SerialRxAssumption

\* The invariant holds initially.
LEMMA InitIInv == RxInit => RxIInv
<1> SUFFICES ASSUME RxInit PROVE RxIInv
  OBVIOUS
<1>1. rx_rb \in RbType(RxSize, Byte) /\ RbUsed(rx_rb) = 0
  BY SerialRxAssumption, InitRing DEF RxInit
<1> QED BY <1>1 DEF RxInit, RxIInv, RxTypeOK, LoopShape, PromiseKept, NoOverwrite

\* The ISR keeps the invariant, wherever the thread is.
LEMMA RxIsrIInv == RxIInv /\ RxIsr => RxIInv'
<1> SUFFICES ASSUME RxIInv,
                    NEW n \in 1 .. IsrChunk, NEW chunk \in [1 .. n -> Byte],
                    rx_rb' = RbWrite(rx_rb, chunk),
                    lost' = lost + (n - RbWritten(rx_rb, chunk)),
                    UNCHANGED threadVars
             PROVE  RxIInv'
  BY DEF RxIsr
<1> USE SerialRxAssumption
<1>1. rx_rb \in RbType(RxSize, Byte) /\ chunk \in Seq(Byte) /\ Len(chunk) = n
  BY ChunkIsSeq DEF RxIInv, RxTypeOK
<1> DEFINE w == RbWritten(rx_rb, chunk)
<1>2. w \in 0 .. n /\ RbUsed(rx_rb) \in Nat
  BY <1>1, WrittenValue, UsedValue
<1>3. /\ rx_rb' \in RbType(RxSize, Byte)
      /\ RbUsed(rx_rb') = RbUsed(rx_rb) + w
  BY <1>1, WriteType
<1> HIDE DEF w
<1>4. RxTypeOK'
  <2>1. lost' \in Nat
    BY <1>2 DEF RxIInv, RxTypeOK, w
  <2> QED BY <1>3, <2>1 DEF RxIInv, RxTypeOK, threadVars
<1>5. LoopShape'
  BY DEF RxIInv, LoopShape, threadVars
<1>6. PromiseKept'
  BY <1>2, <1>3 DEF RxIInv, PromiseKept, RxTypeOK, threadVars
<1>7. NoOverwrite'
  <2> SUFFICES ASSUME rx_pc = "advance"
               PROVE  rx_rb'.buf[rx_rb'.tail] = rx_rb.buf[rx_rb.tail]
    BY DEF RxIInv, NoOverwrite, threadVars
  <2>1. RbUsed(rx_rb) > 0 /\ RbUsed(rx_rb') > 0
    BY <1>2, <1>3 DEF RxIInv, PromiseKept, LoopShape, RxTypeOK
  <2>2. rx_rb.buf[rx_rb.tail] = Head(RbContents(rx_rb))
    BY <1>1, <2>1, AdvanceContents
  <2>3. rx_rb'.buf[rx_rb'.tail] = Head(RbContents(rx_rb'))
    BY <1>3, <2>1, AdvanceContents
  <2>4. RbContents(rx_rb') = RbContents(rx_rb) \o SubSeq(chunk, 1, w)
    BY <1>1, WriteContents DEF w
  <2>5. /\ RbContents(rx_rb) \in Seq(Byte) /\ Len(RbContents(rx_rb)) = RbUsed(rx_rb)
        /\ SubSeq(chunk, 1, w) \in Seq(Byte)
    <3>1. \A k \in 1 .. w : chunk[k] \in Byte
      BY <1>1, <1>2, ElementOfSeq
    <3> QED BY <1>1, <1>2, <3>1, ContentsType, SubSeqProperties
  <2>6. (RbContents(rx_rb) \o SubSeq(chunk, 1, w))[1] = RbContents(rx_rb)[1]
    BY <1>2, <2>1, <2>5, ConcatProperties
  <2>7. Head(RbContents(rx_rb)) = RbContents(rx_rb)[1]
    BY <2>1, <2>5
  <2>8. Head(RbContents(rx_rb')) = RbContents(rx_rb')[1]
    BY <1>3, <2>1, ContentsType
  <2> QED BY <2>2, <2>3, <2>4, <2>6, <2>7, <2>8
<1> QED BY <1>4, <1>5, <1>6, <1>7 DEF RxIInv

\* Every step of the thread keeps the invariant.
LEMMA ThreadIInv == RxIInv /\ Thread => RxIInv'
<1> SUFFICES ASSUME RxIInv, Thread PROVE RxIInv'
  OBVIOUS
<1> USE SerialRxAssumption
<1>1. rx_rb \in RbType(RxSize, Byte) /\ RbUsed(rx_rb) \in 0 .. RxSize - 1
  BY UsedValue DEF RxIInv, RxTypeOK
<1>2. CASE ReadBegin
  <2>1. to_read' \in Nat /\ to_read' <= RbUsed(rx_rb)
    BY <1>1, <1>2 DEF ReadBegin, MinSize
  <2> QED BY <1>1, <1>2, <2>1
          DEF ReadBegin, RxIInv, RxTypeOK, LoopShape, PromiseKept, NoOverwrite
<1>3. CASE ReadLoad
  <2>1. rx_rb.buf[rx_rb.tail] \in Byte
    BY <1>1 DEF RbType
  <2>2. /\ tmp' \in Seq(Byte) /\ Len(tmp') = got + 1
        /\ tmp'[Len(tmp')] = rx_rb.buf[rx_rb.tail]
    BY <1>3, <2>1 DEF ReadLoad, RxIInv, RxTypeOK, LoopShape
  <2> QED BY <1>3, <2>2
          DEF ReadLoad, RxIInv, RxTypeOK, LoopShape, PromiseKept, NoOverwrite
<1>4. CASE ReadAdvance
  <2>1. to_read - got > 0 /\ RbUsed(rx_rb) > 0
    BY <1>1, <1>4 DEF ReadAdvance, RxIInv, RxTypeOK, LoopShape, PromiseKept
  <2>2. rx_rb' \in RbType(RxSize, Byte) /\ RbUsed(rx_rb') = RbUsed(rx_rb) - 1
    BY <1>1, <1>4, <2>1, AdvanceContents DEF ReadAdvance
  <2> QED BY <1>1, <1>4, <2>1, <2>2
          DEF ReadAdvance, RxIInv, RxTypeOK, LoopShape, PromiseKept, NoOverwrite
<1>5. CASE Feed
  <2>1. fed' \in Seq(Byte)
    BY <1>5, ConcatProperties DEF Feed, RxIInv, RxTypeOK
  <2> QED BY <1>5, <2>1
          DEF Feed, RxIInv, RxTypeOK, LoopShape, PromiseKept, NoOverwrite
<1>6. CASE RxWake
  BY <1>6 DEF RxWake, RxIInv, RxTypeOK, LoopShape, PromiseKept, NoOverwrite
<1> QED BY <1>2, <1>3, <1>4, <1>5, <1>6 DEF Thread

\* RxIInv is inductive.
LEMMA NextIInv == RxIInv /\ [RxNext]_rxVars => RxIInv'
<1>1. RxIInv /\ UNCHANGED rxVars => RxIInv'
  BY DEF rxVars, RxIInv, RxTypeOK, LoopShape, PromiseKept, NoOverwrite
<1> QED BY <1>1, RxIsrIInv, ThreadIInv DEF RxNext

\* The inductive invariant, hence each of its parts.
LEMMA RxInvariance == RxSpec => []RxIInv
BY InitIInv, NextIInv, PTL DEF RxSpec

-----------------------------------------------------------------------------
(* Refinement of LossyFifo.                                                *)

\* The empty ring and nothing delivered is the empty FIFO.
LEMMA InitFifo == RxInit => Fifo!Init
<1> SUFFICES ASSUME RxInit PROVE Fifo!Init
  OBVIOUS
<1>1. RbContents(rx_rb) = <<>>
  BY SerialRxAssumption, InitRing DEF RxInit
<1>2. Delivered = <<>>
  BY SubSeqEmpty, ConcatEmptySeq, EmptySeq DEF RxInit, Delivered
<1> QED BY <1>1, <1>2 DEF RxInit, Fifo!Init

\* A run of the ISR is an arrival.
LEMMA RxIsrArrives == RxIInv /\ RxIsr => Fifo!Arrive
<1> SUFFICES ASSUME RxIInv,
                    NEW n \in 1 .. IsrChunk, NEW chunk \in [1 .. n -> Byte],
                    rx_rb' = RbWrite(rx_rb, chunk),
                    lost' = lost + (n - RbWritten(rx_rb, chunk)),
                    UNCHANGED threadVars
             PROVE  Fifo!Arrive
  BY DEF RxIsr
<1> USE SerialRxAssumption
<1> DEFINE w == RbWritten(rx_rb, chunk)
           q == RbContents(rx_rb)
           new == SubSeq(chunk, 1, w)
<1>1. rx_rb \in RbType(RxSize, Byte) /\ chunk \in Seq(Byte) /\ Len(chunk) = n
  BY ChunkIsSeq DEF RxIInv, RxTypeOK
<1>2. /\ w \in 0 .. n /\ RbUsed(rx_rb) \in Nat
      /\ RbUsed(rx_rb) + w <= RxSize - 1
      /\ w < n => RbUsed(rx_rb) + w = RxSize - 1
  BY <1>1, WrittenValue, UsedValue
<1>3. q \in Seq(Byte) /\ Len(q) = RbUsed(rx_rb)
  BY <1>1, ContentsType
<1>4. new \in Seq(Byte) /\ Len(new) = w
  <2>1. \A k \in 1 .. w : chunk[k] \in Byte
    BY <1>1, <1>2, ElementOfSeq
  <2> QED BY <1>1, <1>2, <2>1, SubSeqProperties
<1>5. RbContents(rx_rb') = q \o new
  BY <1>1, WriteContents
<1>6. lost' = lost + (n - w) /\ lost \in Nat
  BY DEF RxIInv, RxTypeOK
<1> HIDE DEF w, q, new
<1>7. q \o new \in Seq(Byte) /\ Len(q \o new) = RbUsed(rx_rb) + w
  BY <1>3, <1>4, ConcatProperties
<1>8. SubSeq(q \o new, 1, Len(q)) = q
  BY <1>2, <1>3, <1>4, <1>7
<1>9. lost' \in Nat /\ lost' >= lost /\ (lost' > lost => w < n)
  BY <1>2, <1>6
<1>10. UNCHANGED Delivered
  BY DEF threadVars, Delivered
<1> QED BY <1>2, <1>3, <1>5, <1>7, <1>8, <1>9, <1>10 DEF Fifo!Arrive, q

\* Moving the tail delivers the oldest byte; every other step of the thread
\* leaves the FIFO alone.
LEMMA ThreadDelivers ==
  RxIInv /\ Thread => Fifo!Deliver \/ UNCHANGED Fifo!vars
<1> SUFFICES ASSUME RxIInv, Thread
             PROVE  Fifo!Deliver \/ UNCHANGED Fifo!vars
  OBVIOUS
<1> USE SerialRxAssumption
<1>1. /\ rx_rb \in RbType(RxSize, Byte) /\ RbUsed(rx_rb) \in 0 .. RxSize - 1
      /\ fed \in Seq(Byte) /\ tmp \in Seq(Byte) /\ got \in Nat
  BY UsedValue DEF RxIInv, RxTypeOK
<1>2. CASE ReadBegin
  <2>1. tmp = <<>> /\ got = 0
    BY <1>1, <1>2, EmptySeq DEF RxIInv, LoopShape, ReadBegin
  <2>2. UNCHANGED <<rx_rb, lost, Delivered>>
    BY <1>2, <2>1 DEF ReadBegin, Delivered
  <2> QED BY <2>2 DEF Fifo!vars
<1>3. CASE ReadLoad
  <2>1. Len(tmp) = got /\ got' = got /\ fed' = fed
    BY <1>3 DEF RxIInv, LoopShape, ReadLoad
  <2>2. rx_rb.buf[rx_rb.tail] \in Byte
    BY <1>1 DEF RbType
  <2>3. SubSeq(tmp', 1, got) = SubSeq(tmp, 1, got)
    BY <1>1, <1>3, <2>1, <2>2 DEF ReadLoad
  <2>4. UNCHANGED <<rx_rb, lost, Delivered>>
    BY <1>3, <2>1, <2>3 DEF ReadLoad, Delivered
  <2> QED BY <2>4 DEF Fifo!vars
<1>4. CASE ReadAdvance
  <2>1. /\ got < to_read /\ to_read - got > 0 /\ RbUsed(rx_rb) > 0
        /\ Len(tmp) = got + 1 /\ tmp[got + 1] = rx_rb.buf[rx_rb.tail]
    BY <1>1, <1>4
       DEF ReadAdvance, RxIInv, RxTypeOK, LoopShape, PromiseKept, NoOverwrite
  <2>2. /\ RbContents(rx_rb) # <<>>
        /\ RbContents(rx_rb') = Tail(RbContents(rx_rb))
        /\ tmp[got + 1] = Head(RbContents(rx_rb))
    BY <1>1, <1>4, <2>1, AdvanceContents DEF ReadAdvance
  <2>3. tmp' = tmp /\ fed' = fed /\ got' = got + 1 /\ lost' = lost
    BY <1>4 DEF ReadAdvance
  <2>4. Delivered' = Append(Delivered, tmp[got + 1])
    <3> DEFINE s == SubSeq(tmp, 1, got)
    <3>1. tmp[got + 1] \in Byte
      BY <1>1, <2>1
    <3>2. SubSeq(tmp, 1, got + 1) = Append(s, tmp[got + 1]) /\ s \in Seq(Byte)
      BY <1>1, <2>1
    <3> HIDE DEF s
    <3>3. fed \o Append(s, tmp[got + 1]) = Append(fed \o s, tmp[got + 1])
      BY <1>1, <3>1, <3>2
    <3> QED BY <2>3, <3>2, <3>3 DEF Delivered, s
  <2> QED BY <2>2, <2>3, <2>4 DEF Fifo!Deliver
<1>5. CASE Feed
  <2>1. /\ Len(tmp) = got /\ got' = 0 /\ tmp' = <<>> /\ fed' = fed \o tmp
        /\ UNCHANGED <<rx_rb, lost>>
    BY <1>5 DEF RxIInv, LoopShape, Feed
  <2>2. Delivered = fed \o tmp
    BY <1>1, <2>1, SubSeqFull DEF Delivered
  <2>3. fed \o tmp \in Seq(Byte) /\ SubSeq(<<>>, 1, 0) = <<>>
    BY <1>1, ConcatProperties, SubSeqEmpty
  <2>4. Delivered' = fed \o tmp
    BY <2>1, <2>3, ConcatEmptySeq DEF Delivered
  <2> QED BY <2>1, <2>2, <2>4 DEF Fifo!vars
<1>6. CASE RxWake
  BY <1>6 DEF RxWake, Fifo!vars, Delivered
<1> QED BY <1>2, <1>3, <1>4, <1>5, <1>6 DEF Thread

\* The receive path implements the lossy FIFO: order kept, nothing handed over
\* twice, nothing lost unless rx_rb is full.
THEOREM ImplementsLossyFifo == RxSpec => ImplementsFifo
<1>1. RxIInv /\ [RxNext]_rxVars => [Fifo!Next]_(Fifo!vars)
  <2>1. RxIInv /\ UNCHANGED rxVars => UNCHANGED Fifo!vars
    BY DEF rxVars, Fifo!vars, Delivered
  <2> QED BY <2>1, RxIsrArrives, ThreadDelivers DEF RxNext, Fifo!Next
<1> QED BY <1>1, InitFifo, RxInvariance, PTL DEF RxSpec, ImplementsFifo, Fifo!Spec

\* Type correctness of the receive path.
THEOREM RxTypeCorrect == RxSpec => []RxTypeOK
<1>1. RxIInv => RxTypeOK
  BY DEF RxIInv
<1> QED BY <1>1, RxInvariance, PTL

\* What rb_read promised to return stays available while it copies.
THEOREM PromiseIsKept == RxSpec => []PromiseKept
<1>1. RxIInv => PromiseKept
  BY DEF RxIInv
<1> QED BY <1>1, RxInvariance, PTL

\* The ISR never overwrites the slot proto_thread is working on.
THEOREM NothingOverwritten == RxSpec => []NoOverwrite
<1>1. RxIInv => NoOverwrite
  BY DEF RxIInv
<1> QED BY <1>1, RxInvariance, PTL

-----------------------------------------------------------------------------
(* The transmit path.                                                      *)

\* The mutex and the history agree on who is writing which frame.
Turn ==
  \A w \in Writer :
    /\ pc[w] = "idle" <=> tx_mutex # w
    /\ count[w] <= Len(Frames[w])
    /\ pc[w] # "idle" =>
         /\ count[w] > 0 /\ order # <<>>
         /\ order[Len(order)] = <<w, count[w]>>

\* How far the writer has got in its frame.
Progress ==
  \A w \in Writer : pc[w] # "idle" =>
    /\ i[w] <= CurLen(w)
    /\ pc[w] \in {"enqueue", "sleep", "drain", "poll"} => i[w] < CurLen(w)
    /\ pc[w] = "unlock" => i[w] = CurLen(w)
    /\ pc[w] \in {"drain", "poll"} => Polled(CurLen(w))

\* Every frame is begun once.
BegunOnce ==
  /\ \A n \in 1 .. Len(order) : order[n][2] \in 1 .. count[order[n][1]]
  /\ \A m, n \in 1 .. Len(order) : order[m] = order[n] => m = n

Shape == TypeOK /\ Turn /\ Progress /\ BegunOnce

\* The bytes that have yet to be sent, or were sent since the last wait began.
Load == Pending + (IF shifted THEN 1 ELSE 0)

\* Until the first overtaking, each wait of a polled frame has been paid for by
\* a byte that has left.
Budget ==
  ~overtook => \A w \in Writer : pc[w] = "drain" => Load + spins[w] <= backlog

\* Until then nothing is stranded, and polled frames go out with tx_rb empty.
Drained ==
  ~overtook =>
    ~stranded /\ \A w \in Writer : pc[w] = "poll" => RbUsed(tx_rb) = 0

-----------------------------------------------------------------------------
(* Sequences of sequences.                                                 *)

\* Induction over the natural numbers, for a set instead of a predicate.
LEMMA SetInduction ==
  ASSUME NEW S, 0 \in S, \A n \in Nat : n \in S => n + 1 \in S
  PROVE  \A n \in Nat : n \in S
<1> SUFFICES ASSUME Nat \ S # {} PROVE FALSE
  OBVIOUS
<1>1. IsWellFoundedOn(OpToRel(<, Nat), Nat)
  BY NatLessThanWellFounded
<1>2. PICK x \in Nat \ S : \A y \in Nat \ S : ~ (<<y, x>> \in OpToRel(<, Nat))
  BY <1>1, WFMin
<1>3. \A y \in Nat \ S : ~(y < x)
  BY <1>2 DEF OpToRel
<1>4. x # 0 /\ x \in Nat /\ x \notin S
  OBVIOUS
<1>5. x - 1 \in Nat /\ x - 1 < x /\ x = (x - 1) + 1
  BY <1>4
<1>6. x - 1 \in S
  BY <1>3, <1>5
<1> QED BY <1>4, <1>5, <1>6

LEMMA FlattenUnfolds ==
  ASSUME NEW T, NEW s \in Seq(Seq(T)), s # <<>>
  PROVE  \E f \in [1 .. Len(s) -> Seq(T)] :
           /\ f[1] = s[1]
           /\ \A k \in 1 .. Len(s) - 1 : f[k + 1] = f[k] \o s[k + 1]
           /\ FlattenSeq(s) = f[Len(s)]
<1> DEFINE n == Len(s)
           Def(f) == f = [k \in 1 .. n |-> IF k = 1 THEN s[k] ELSE f[k-1] \o s[k]]
           Upto(m) == \E f \in [1 .. m -> Seq(T)] :
             \A k \in 1 .. m : f[k] = IF k = 1 THEN s[k] ELSE f[k-1] \o s[k]
           Good == {m \in Nat : m <= n => Upto(m)}
<1>1. n \in Nat /\ n > 0 /\ \A k \in 1 .. n : s[k] \in Seq(T)
  OBVIOUS
<1> HIDE DEF n
<1>2. 0 \in Good
  <2> DEFINE f == [k \in 1 .. 0 |-> <<>>]
  <2>1. f \in [1 .. 0 -> Seq(T)] /\ \A k \in 1 .. 0 : f[k] = IF k = 1 THEN s[k] ELSE f[k-1] \o s[k]
    OBVIOUS
  <2>2. Upto(0)
    BY <2>1
  <2> HIDE DEF Upto
  <2> QED BY <2>2
<1>3. ASSUME NEW m \in Nat, m \in Good PROVE m + 1 \in Good
  <2> SUFFICES ASSUME m + 1 <= n PROVE Upto(m + 1)
    <3> HIDE DEF Upto
    <3> QED OBVIOUS
  <2>0. Upto(m)
    <3> HIDE DEF Upto
    <3>1. m <= n
      BY <1>1
    <3> QED BY <1>3, <3>1
  <2>1. PICK f \in [1 .. m -> Seq(T)] :
          \A k \in 1 .. m : f[k] = IF k = 1 THEN s[k] ELSE f[k-1] \o s[k]
    BY <2>0
  <2> DEFINE last == IF m = 0 THEN s[1] ELSE f[m] \o s[m + 1]
             g == [k \in 1 .. m + 1 |-> IF k = m + 1 THEN last ELSE f[k]]
  <2>2. last \in Seq(T)
    <3>1. CASE m = 0
      BY <3>1, <1>1
    <3>2. CASE m # 0
      <4>1. f[m] \in Seq(T) /\ s[m + 1] \in Seq(T)
        BY <3>2, <1>1, <2>1
      <4> QED BY <4>1, <3>2, ConcatProperties
    <3> QED BY <3>1, <3>2
  <2> HIDE DEF last
  <2>3. g \in [1 .. m + 1 -> Seq(T)]
    BY <2>1, <2>2
  <2>4. ASSUME NEW k \in 1 .. m + 1 PROVE g[k] = IF k = 1 THEN s[k] ELSE g[k-1] \o s[k]
    <3>1. CASE k = m + 1 /\ m = 0
      BY <3>1 DEF last
    <3>2. CASE k = m + 1 /\ m # 0
      <4>1. g[k - 1] = f[m] /\ k # 1
        BY <3>2
      <4> QED BY <3>2, <4>1 DEF last
    <3>3. CASE k # m + 1
      <4>1. k \in 1 .. m /\ g[k] = f[k]
        BY <3>3
      <4>2. k # 1 => g[k - 1] = f[k - 1]
        BY <4>1
      <4> HIDE DEF g
      <4> QED BY <4>1, <4>2, <2>1
    <3> QED BY <3>1, <3>2, <3>3
  <2> HIDE DEF g
  <2> QED BY <2>3, <2>4
<1>4. Upto(n)
  <2> HIDE DEF Good
  <2>1. n \in Good
    BY <1>1, <1>2, <1>3, SetInduction
  <2> HIDE DEF Upto
  <2> USE DEF Good
  <2> QED BY <1>1, <2>1
<1>5. PICK f \in [1 .. n -> Seq(T)] :
        \A k \in 1 .. n : f[k] = IF k = 1 THEN s[k] ELSE f[k-1] \o s[k]
  BY <1>1, <1>4
<1>6. Def(f)
  BY <1>5
<1> DEFINE h == CHOOSE g : Def(g)
<1>7. Def(h)
  BY <1>6
<1> HIDE DEF h
<1>8. FlattenSeq(s) = h[n]
  BY <1>1 DEF FlattenSeq, n, h
<1>9. \A k \in 1 .. n : h[k] = IF k = 1 THEN s[k] ELSE h[k-1] \o s[k]
  BY <1>7
<1>9a. h[1] = s[1] /\ \A k \in 1 .. n - 1 : h[k + 1] = h[k] \o s[k + 1]
  <2>1. h[1] = s[1]
    BY <1>9, <1>1
  <2>2. ASSUME NEW k \in 1 .. n - 1 PROVE h[k + 1] = h[k] \o s[k + 1]
    <3>1. k + 1 \in 1 .. n /\ k + 1 # 1 /\ (k + 1) - 1 = k
      BY <1>1
    <3> QED BY <3>1, <1>9
  <2> QED BY <2>1, <2>2
<1>10. ASSUME NEW k \in 1 .. n PROVE h[k] \in Seq(T)
  <2> DEFINE Typed == {m \in Nat : m + 1 \in 1 .. n => h[m + 1] \in Seq(T)}
  <2>1. 0 \in Typed
    <3>1. h[1] = s[1]
      BY <1>9, <1>1
    <3> QED BY <3>1, <1>1
  <2>2. ASSUME NEW m \in Nat, m \in Typed PROVE m + 1 \in Typed
    <3> SUFFICES ASSUME (m + 1) + 1 \in 1 .. n PROVE h[(m + 1) + 1] \in Seq(T)
      OBVIOUS
    <3>1. h[m + 1] \in Seq(T) /\ s[(m + 1) + 1] \in Seq(T)
      BY <2>2, <1>1
    <3>2. m + 1 \in 1 .. n - 1
      BY <1>1
    <3>3. h[(m + 1) + 1] = h[m + 1] \o s[(m + 1) + 1]
      BY <1>9a, <3>2
    <3> QED BY <3>1, <3>3, ConcatProperties
  <2>3. k - 1 \in Typed
    <3>1. k - 1 \in Nat
      BY <1>1
    <3> HIDE DEF Typed
    <3> QED BY <3>1, <2>1, <2>2, <1>1, SetInduction
  <2>4. (k - 1) + 1 = k /\ k - 1 \in Nat
    BY <1>1
  <2> QED BY <2>3, <2>4
<1>11. h \in [1 .. n -> Seq(T)]
  <2>1. h = [k \in 1 .. n |-> h[k]]
    BY <1>7
  <2> QED BY <2>1, <1>10
<1> QED BY <1>8, <1>11, <1>9a DEF n

LEMMA FlattenType ==
  ASSUME NEW T, NEW s \in Seq(Seq(T))
  PROVE  FlattenSeq(s) \in Seq(T)
<1>1. CASE s = <<>>
  BY <1>1 DEF FlattenSeq
<1>2. CASE s # <<>>
  <2>1. Len(s) \in 1 .. Len(s)
    BY <1>2
  <2>2. PICK f \in [1 .. Len(s) -> Seq(T)] : FlattenSeq(s) = f[Len(s)]
    BY <1>2, FlattenUnfolds
  <2> QED BY <2>1, <2>2
<1> QED BY <1>1, <1>2

LEMMA FlattenAppend ==
  ASSUME NEW T, NEW s \in Seq(Seq(T)), NEW x \in Seq(T)
  PROVE  FlattenSeq(Append(s, x)) = FlattenSeq(s) \o x
<1> DEFINE n == Len(s)
           t == Append(s, x)
<1>1. /\ n \in Nat /\ t \in Seq(Seq(T)) /\ t # <<>> /\ Len(t) = n + 1 /\ t[n + 1] = x
      /\ \A k \in 1 .. n : t[k] = s[k]
  BY AppendProperties
<1>2. PICK g \in [1 .. n + 1 -> Seq(T)] :
        /\ g[1] = t[1]
        /\ \A k \in 1 .. n : g[k + 1] = g[k] \o t[k + 1]
        /\ FlattenSeq(t) = g[n + 1]
  <2> HIDE DEF t
  <2>1. PICK g \in [1 .. Len(t) -> Seq(T)] :
          /\ g[1] = t[1]
          /\ \A k \in 1 .. Len(t) - 1 : g[k + 1] = g[k] \o t[k + 1]
          /\ FlattenSeq(t) = g[Len(t)]
    BY <1>1, FlattenUnfolds
  <2>2. Len(t) = n + 1 /\ (n + 1) - 1 = n
    BY <1>1
  <2> HIDE DEF n
  <2> QED BY <2>1, <2>2
<1> HIDE DEF t
<1>3. CASE s = <<>>
  <2>1. n = 0 /\ FlattenSeq(s) = <<>>
    BY <1>3 DEF FlattenSeq
  <2>2. FlattenSeq(t) = x
    BY <2>1, <1>1, <1>2
  <2>3. <<>> \o x = x
    BY ConcatEmptySeq
  <2> QED BY <2>1, <2>2, <2>3 DEF t
<1>4. CASE s # <<>>
  <2>1. n > 0
    BY <1>4
  <2>2. PICK f \in [1 .. n -> Seq(T)] :
          /\ f[1] = s[1]
          /\ \A k \in 1 .. n - 1 : f[k + 1] = f[k] \o s[k + 1]
          /\ FlattenSeq(s) = f[n]
    BY <1>4, FlattenUnfolds
  <2> DEFINE Same == {m \in Nat : m + 1 \in 1 .. n => f[m + 1] = g[m + 1]}
  <2> HIDE DEF n
  <2>3. 0 \in Same
    BY <2>1, <2>2, <1>1, <1>2
  <2>4. ASSUME NEW m \in Nat, m \in Same PROVE m + 1 \in Same
    <3> SUFFICES ASSUME (m + 1) + 1 \in 1 .. n PROVE f[(m + 1) + 1] = g[(m + 1) + 1]
      OBVIOUS
    <3>1. f[m + 1] = g[m + 1] /\ t[(m + 1) + 1] = s[(m + 1) + 1]
      BY <2>4, <1>1
    <3>2. m + 1 \in 1 .. n - 1 /\ m + 1 \in 1 .. n
      BY <1>1
    <3>3. f[(m + 1) + 1] = f[m + 1] \o s[(m + 1) + 1]
      BY <2>2, <3>2
    <3>4. g[(m + 1) + 1] = g[m + 1] \o t[(m + 1) + 1]
      BY <1>2, <3>2
    <3> QED BY <3>1, <3>3, <3>4
  <2>5. n - 1 \in Same
    <3>1. n - 1 \in Nat
      BY <1>1, <2>1
    <3> HIDE DEF Same
    <3> QED BY <3>1, <2>1, <2>3, <2>4, <1>1, SetInduction
  <2>6. f[n] = g[n]
    <3>1. (n - 1) + 1 = n /\ n \in 1 .. n
      BY <1>1, <2>1
    <3> QED BY <2>5, <3>1
  <2>7. g[n + 1] = g[n] \o t[n + 1]
    <3>1. n \in 1 .. n
      BY <1>1, <2>1
    <3> QED BY <1>2, <3>1
  <2> QED BY <1>1, <1>2, <2>2, <2>6, <2>7 DEF t
<1> QED BY <1>3, <1>4

\* Moving the head of one sequence to the end of another.
LEMMA HeadMoves ==
  ASSUME NEW T, NEW s \in Seq(T), NEW t \in Seq(T), t # <<>>
  PROVE  Append(s, Head(t)) \o Tail(t) = s \o t
<1> DEFINE h == <<Head(t)>>
           r == Tail(t)
<1>1. Head(t) \in T /\ h \in Seq(T) /\ r \in Seq(T)
  BY HeadTailProperties
<1>2. Append(s, Head(t)) = s \o h
  BY <1>1, AppendIsConcat
<1>3. h \o r = t
  BY HeadTailProperties
<1> HIDE DEF h, r
<1>4. (s \o h) \o r = s \o (h \o r)
  BY <1>1, ConcatAssociative
<1> QED BY <1>2, <1>3, <1>4 DEF r

-----------------------------------------------------------------------------
(* The pieces of the model.                                                *)

LEMMA Constants ==
  /\ None \notin Writer
  /\ \A w \in Writer : Frames[w] \in Seq(Nat \ {0})
  /\ TxSize \in Nat \ {0} /\ TxSize > 1
  /\ Chunk \in Nat /\ Chunk > 0 /\ HwDepth \in Nat /\ HwDepth > 0 /\ MaxSpins \in Nat
BY SerialTxAssumption

LEMMA FrameLenType ==
  ASSUME NEW w \in Writer, NEW k \in Nat, k > 0, k <= Len(Frames[w])
  PROVE  FrameLen(w, k) \in Nat /\ FrameLen(w, k) > 0
<1>1. Frames[w] \in Seq(Nat \ {0})
  BY Constants
<1>2. k \in 1 .. Len(Frames[w])
  BY <1>1
<1>3. Frames[w][k] \in Nat \ {0}
  BY <1>1, <1>2
<1> QED BY <1>3 DEF FrameLen

\* A piece of a frame is a sequence of bytes, and two pieces that meet join.
LEMMA FrameBytesType ==
  ASSUME NEW w \in Writer, NEW k \in Nat, NEW from \in Nat \ {0}, NEW to \in Nat,
         from <= to + 1
  PROVE  /\ FrameBytes(w, k, from, to) \in Seq(FrameByte)
         /\ Len(FrameBytes(w, k, from, to)) = (to + 1) - from
<1> DEFINE n == (to + 1) - from
<1>1. n \in Nat
  OBVIOUS
<1>2. \A j \in 1 .. n : from + j - 1 \in Nat
  OBVIOUS
<1>3. \A j \in 1 .. n : <<w, k, from + j - 1>> \in FrameByte
  BY <1>2 DEF FrameByte
<1>4. FrameBytes(w, k, from, to) = [j \in 1 .. n |-> <<w, k, from + j - 1>>]
  BY DEF FrameBytes
<1> HIDE DEF n
<1>5. FrameBytes(w, k, from, to) \in Seq(FrameByte)
  <2>1. FrameBytes(w, k, from, to) \in [1 .. n -> FrameByte]
    BY <1>3, <1>4
  <2> HIDE DEF FrameBytes
  <2> QED BY <1>1, <2>1, SeqDef
<1>6. Len(FrameBytes(w, k, from, to)) = n
  BY <1>1, <1>3, <1>4, <1>5
<1> QED BY <1>5, <1>6 DEF n

LEMMA FirstBytesType ==
  ASSUME NEW w \in Writer, NEW k \in Nat, NEW a \in Nat
  PROVE  FrameBytes(w, k, 1, a) \in Seq(FrameByte) /\ Len(FrameBytes(w, k, 1, a)) = a
<1>1. 1 \in Nat \ {0} /\ 1 <= a + 1 /\ (a + 1) - 1 = a
  OBVIOUS
<1> QED BY <1>1, FrameBytesType

\* data are bytes of frame k of w, those after the first a.
Continues(data, w, k, a) == \A j \in 1 .. Len(data) : data[j] = <<w, k, a + j>>

LEMMA FrameBytesJoin ==
  ASSUME NEW w \in Writer, NEW k \in Nat, NEW a \in Nat, NEW data \in Seq(FrameByte),
         Continues(data, w, k, a), NEW n \in 0 .. Len(data)
  PROVE  FrameBytes(w, k, 1, a) \o SubSeq(data, 1, n) = FrameBytes(w, k, 1, a + n)
<1> DEFINE x == FrameBytes(w, k, 1, a)
           z == FrameBytes(w, k, 1, a + n)
           t == SubSeq(data, 1, n)
<1>1. x \in Seq(FrameByte) /\ Len(x) = a
  BY FirstBytesType
<1>2. n \in Nat /\ n <= Len(data)
  BY LenProperties
<1>3. z \in Seq(FrameByte) /\ Len(z) = a + n
  <2>1. a + n \in Nat
    BY <1>2
  <2> QED BY <2>1, FirstBytesType
<1>4. \A j \in 1 .. a : x[j] = <<w, k, j>>
  BY DEF FrameBytes
<1>5. \A j \in 1 .. n : data[j] = <<w, k, a + j>>
  BY <1>2, LenProperties DEF Continues
<1>6. \A j \in 1 .. a + n : z[j] = <<w, k, j>>
  BY <1>2 DEF FrameBytes
<1> HIDE DEF x, z
<1>7. t \in Seq(FrameByte) /\ Len(t) = n /\ \A j \in 1 .. n : t[j] = data[j]
  BY <1>2
<1> HIDE DEF t
<1>8. x \o t \in Seq(FrameByte) /\ Len(x \o t) = a + n
  BY <1>1, <1>7, ConcatProperties
<1>9. ASSUME NEW j \in 1 .. a + n PROVE (x \o t)[j] = z[j]
  <2>1. CASE j <= a
    <3>1. (x \o t)[j] = x[j]
      BY <2>1, <1>1, <1>7, ConcatProperties
    <3>2. j \in 1 .. a
      BY <2>1
    <3> QED BY <3>1, <3>2, <1>4, <1>6
  <2>2. CASE j > a
    <3>1. j - a \in 1 .. n /\ j \in 1 .. Len(x) + Len(t) /\ ~(j <= Len(x))
      BY <2>2, <1>1, <1>7
    <3>2. (x \o t)[j] = t[j - a]
      BY <3>1, <1>1, <1>7, ConcatProperties
    <3>3. t[j - a] = <<w, k, a + (j - a)>>
      BY <3>1, <1>5, <1>7
    <3>4. a + (j - a) = j
      OBVIOUS
    <3> QED BY <3>2, <3>3, <3>4, <1>6
  <2>3. j <= a \/ j > a
    OBVIOUS
  <2> QED BY <2>1, <2>2, <2>3
<1>10. x \o t = z
  BY <1>3, <1>8, <1>9, SeqEqual
<1> QED BY <1>10 DEF x, t, z

\* Moving bytes from tx_rb to the FIFO keeps their number and their order.
LEMMA FillFifoMoves ==
  ASSUME TypeOK, HwReady, FillFifo
  PROVE  /\ tx_rb' \in RbType(TxSize, FrameByte)
         /\ hw' \in Seq(FrameByte) /\ Len(hw') <= HwDepth
         /\ RbUsed(tx_rb') <= RbUsed(tx_rb)
         /\ RbUsed(tx_rb') + Len(hw') = RbUsed(tx_rb) + Len(hw)
         /\ hw' \o RbContents(tx_rb') = hw \o RbContents(tx_rb)
<1> DEFINE run == RbPeekContig(tx_rb)
           n == MinSize(MinSize(Len(run), Chunk), HwDepth - Len(hw))
           used == RbUsed(tx_rb)
           old == RbContents(tx_rb)
<1>1. /\ tx_rb \in RbType(TxSize, FrameByte) /\ hw \in Seq(FrameByte)
      /\ Len(hw) \in Nat /\ Len(hw) < HwDepth /\ TxSize \in Nat \ {0} /\ HwDepth \in Nat
  BY Constants, LenProperties DEF TypeOK, HwReady
<1>2. /\ run \in Seq(FrameByte) /\ Len(run) \in 0 .. used
      /\ \A k \in 1 .. Len(run) : run[k] = old[k]
  BY <1>1, PeekContents
<1>3. used \in Nat /\ old \in Seq(FrameByte) /\ Len(old) = used
  <2>1. used \in 0 .. TxSize - 1
    BY <1>1, UsedValue
  <2> QED BY <1>1, <2>1, ContentsType
<1>4. hw' = hw \o SubSeq(run, 1, n) /\ tx_rb' = RbConsume(tx_rb, n)
  BY DEF FillFifo
<1> HIDE DEF run, used, old
<1>5. n \in Nat /\ n <= Len(run) /\ n <= HwDepth - Len(hw) /\ n \in 0 .. used
  BY <1>1, <1>2, <1>3, Constants DEF MinSize
<1> HIDE DEF n
<1>6. /\ tx_rb' \in RbType(TxSize, FrameByte) /\ RbUsed(tx_rb') = used - n
      /\ RbContents(tx_rb') = SubSeq(old, n + 1, used)
  BY <1>1, <1>4, <1>5, ConsumeContents DEF used, old
<1>7. SubSeq(run, 1, n) = SubSeq(old, 1, n)
  <2>1. /\ SubSeq(run, 1, n) \in Seq(FrameByte) /\ Len(SubSeq(run, 1, n)) = n
        /\ \A k \in 1 .. n : SubSeq(run, 1, n)[k] = run[k]
    BY <1>2, <1>5
  <2>2. /\ SubSeq(old, 1, n) \in Seq(FrameByte) /\ Len(SubSeq(old, 1, n)) = n
        /\ \A k \in 1 .. n : SubSeq(old, 1, n)[k] = old[k]
    BY <1>3, <1>5
  <2>3. \A k \in 1 .. n : run[k] = old[k]
    BY <1>2, <1>5
  <2> QED BY <2>1, <2>2, <2>3, SeqEqual
<1>8. SubSeq(old, 1, n) \o SubSeq(old, n + 1, used) = old
  BY <1>3, <1>5
<1>9. /\ SubSeq(old, 1, n) \in Seq(FrameByte) /\ Len(SubSeq(old, 1, n)) = n
      /\ SubSeq(old, n + 1, used) \in Seq(FrameByte)
  BY <1>3, <1>5
<1>10. hw' \in Seq(FrameByte) /\ Len(hw') = Len(hw) + n
  BY <1>1, <1>4, <1>7, <1>9, ConcatProperties
<1>11. hw' \o RbContents(tx_rb') = hw \o old
  <2> DEFINE moved == SubSeq(old, 1, n)
             kept == SubSeq(old, n + 1, used)
  <2>1. hw' \o RbContents(tx_rb') = (hw \o moved) \o kept
    BY <1>4, <1>6, <1>7
  <2>2. hw \in Seq(FrameByte) /\ moved \in Seq(FrameByte) /\ kept \in Seq(FrameByte)
    BY <1>1, <1>9
  <2> HIDE DEF moved, kept
  <2>3. (hw \o moved) \o kept = hw \o (moved \o kept)
    BY <2>2, ConcatAssociative
  <2> QED BY <1>8, <2>1, <2>3 DEF moved, kept
<1>12. RbUsed(tx_rb') <= used /\ RbUsed(tx_rb') + Len(hw') = used + Len(hw)
       /\ Len(hw') <= HwDepth
  BY <1>1, <1>3, <1>5, <1>6, <1>10
<1> QED BY <1>6, <1>10, <1>11, <1>12 DEF used, old

-----------------------------------------------------------------------------
(* Types, turns and progress hold whatever is polled.                      *)

\* The history of the waits keeps its type.
LEMMA DrainTypes ==
  ASSUME TypeOK, [Next]_vars
  PROVE  DrainTypeOK'
<1>1. DrainTypeOK /\ tx_rb \in RbType(TxSize, FrameByte) /\ hw \in Seq(FrameByte)
  BY DEF TypeOK
<1>2. RbUsed(tx_rb) \in Nat /\ Len(hw) \in Nat
  BY <1>1, Constants, UsedValue, LenProperties
<1>3. ASSUME UNCHANGED drainVars PROVE DrainTypeOK'
  BY <1>1, <1>3 DEF DrainTypeOK, drainVars
<1>4. CASE UNCHANGED vars \/ Done \/ Shift \/ Isr
  BY <1>3, <1>4 DEF vars, Done, Shift, Isr, IsrEnter, IsrFill, IsrEmpty, IsrFifoFull
<1>5. ASSUME NEW w \in Writer, Write(w) PROVE DrainTypeOK'
  <2>1. CASE Lock(w)
    <3>1. UNCHANGED <<overtook, stranded>> /\ backlog' \in {backlog, Larger(backlog, Pending)}
      BY <2>1 DEF Lock
    <3>2. Larger(backlog, Pending) \in Nat
      BY <1>1, <1>2 DEF Larger, Pending, DrainTypeOK
    <3> QED BY <1>1, <3>1, <3>2 DEF DrainTypeOK
  <2>2. CASE Enqueue(w) \/ Prime(w) \/ Wake(w) \/ Unlock(w) \/ DrainWait(w) \/ PollOut(w)
    BY <1>3, <2>2 DEF Enqueue, Prime, Wake, Unlock, DrainWait, PollOut
  <2>3. CASE Enable(w)
    BY <1>1, <2>3 DEF Enable, DrainTypeOK
  <2>4. CASE DrainEnd(w)
    <3>1. stranded' \in BOOLEAN /\ overtook' \in BOOLEAN /\ backlog' = backlog
      BY <2>4 DEF DrainEnd
    <3> QED BY <1>1, <3>1 DEF DrainTypeOK
  <2> QED BY <1>5, <2>1, <2>2, <2>3, <2>4 DEF Write
<1> QED BY <1>4, <1>5 DEF Next

LEMMA ShapeInit == Init => Shape
<1> SUFFICES ASSUME Init PROVE Shape
  OBVIOUS
<1>1. <<None, 0, 0>> \in FrameByte
  BY DEF FrameByte
<1>2. tx_rb \in RbType(TxSize, FrameByte)
  BY <1>1, Constants DEF Init, RbInit, RbType
<1>3. TypeOK
  <2>1. Len(<<>>) = 0 /\ 0 <= HwDepth
    BY Constants
  <2>2. hw \in Seq(FrameByte) /\ Len(hw) <= HwDepth /\ wire \in Seq(FrameByte)
    BY <2>1 DEF Init
  <2>3. pc \in [Writer -> WritePc]
    BY DEF Init, WritePc
  <2>4. /\ count \in [Writer -> Nat] /\ i \in [Writer -> Nat]
        /\ enq \in [Writer -> Nat] /\ spins \in [Writer -> Nat]
    BY DEF Init
  <2>5. order \in Seq(Writer \X Nat)
    BY DEF Init
  <2>6. tx_mutex \in Writer \cup {None} /\ tx_irq \in BOOLEAN /\ in_isr \in BOOLEAN
        /\ shifted \in BOOLEAN
    BY DEF Init
  <2>7. DrainTypeOK
    BY DEF Init, DrainTypeOK
  <2> QED BY <1>2, <2>2, <2>3, <2>4, <2>5, <2>6, <2>7 DEF TypeOK
<1>4. Turn /\ Progress
  BY Constants DEF Init, Turn, Progress
<1>5. BegunOnce
  BY DEF Init, BegunOnce
<1> QED BY <1>3, <1>4, <1>5 DEF Shape

\* While a writer is in its frame, all others are idle.
LEMMA OneWriter ==
  ASSUME Turn, NEW w \in Writer, pc[w] # "idle"
  PROVE  /\ tx_mutex = w
         /\ \A v \in Writer : v # w => pc[v] = "idle"
         /\ count[w] <= Len(Frames[w]) /\ count[w] > 0
         /\ order # <<>> /\ order[Len(order)] = <<w, count[w]>>
BY DEF Turn

LEMMA CurLenType ==
  ASSUME TypeOK, Turn, NEW w \in Writer, pc[w] # "idle"
  PROVE  CurLen(w) \in Nat /\ CurLen(w) > 0 /\ count[w] \in Nat /\ i[w] \in Nat
<1>1. count[w] \in Nat /\ i[w] \in Nat
  BY DEF TypeOK
<1> QED BY <1>1, OneWriter, FrameLenType DEF CurLen

\* A writer that moves on in its frame leaves turns and frames alone.
LEMMA MoveOn ==
  ASSUME Shape, NEW w \in Writer, pc[w] # "idle",
         NEW l \in WritePc \ {"idle"}, Goto(w, l), UNCHANGED <<tx_mutex, count, order>>,
         i'[w] <= CurLen(w),
         l \in {"enqueue", "sleep", "drain", "poll"} => i'[w] < CurLen(w),
         l = "unlock" => i'[w] = CurLen(w),
         l \in {"drain", "poll"} => Polled(CurLen(w))
  PROVE  Turn' /\ Progress' /\ BegunOnce' /\ pc' \in [Writer -> WritePc]
<1>1. pc \in [Writer -> WritePc]
  BY DEF Shape, TypeOK
<1>2. /\ pc'[w] = l /\ pc' \in [Writer -> WritePc]
      /\ \A v \in Writer : v # w => pc'[v] = pc[v]
  BY <1>1 DEF Goto
<1>3. CurLen(w)' = CurLen(w)
  BY DEF CurLen, FrameLen
<1>4. tx_mutex = w /\ \A v \in Writer : v # w => pc[v] = "idle"
  BY OneWriter DEF Shape
<1>5. Turn'
  <2> SUFFICES ASSUME NEW v \in Writer
               PROVE /\ pc'[v] = "idle" <=> tx_mutex' # v
                     /\ count'[v] <= Len(Frames[v])
                     /\ pc'[v] # "idle" =>
                          /\ count'[v] > 0 /\ order' # <<>>
                          /\ order'[Len(order')] = <<v, count'[v]>>
    BY DEF Turn
  <2>1. CASE v = w
    BY <2>1, <1>2, <1>4 DEF Shape, Turn
  <2>2. CASE v # w
    BY <2>2, <1>2, <1>4 DEF Shape, Turn
  <2> QED BY <2>1, <2>2
<1>6. Progress'
  <2> SUFFICES ASSUME NEW v \in Writer, pc'[v] # "idle"
               PROVE /\ i'[v] <= CurLen(v)'
                     /\ pc'[v] \in {"enqueue", "sleep", "drain", "poll"} => i'[v] < CurLen(v)'
                     /\ pc'[v] = "unlock" => i'[v] = CurLen(v)'
                     /\ pc'[v] \in {"drain", "poll"} => Polled(CurLen(v)')
    BY DEF Progress, Polled
  <2>1. v = w
    BY <1>2, <1>4
  <2> QED BY <2>1, <1>2, <1>3
<1>7. BegunOnce'
  BY DEF Shape, BegunOnce
<1> QED BY <1>2, <1>5, <1>6, <1>7

\* What Shape says of the writers holds as long as they do not move.
LEMMA WritersStill ==
  ASSUME Shape, UNCHANGED writerVars
  PROVE  /\ Turn' /\ Progress' /\ BegunOnce'
         /\ tx_mutex' \in Writer \cup {None} /\ pc' \in [Writer -> WritePc]
         /\ count' \in [Writer -> Nat] /\ i' \in [Writer -> Nat]
         /\ enq' \in [Writer -> Nat] /\ spins' \in [Writer -> Nat]
         /\ order' \in Seq(Writer \X Nat)
<1>1. Turn'
  BY DEF Shape, Turn, writerVars
<1>2. Progress'
  BY DEF Shape, Progress, writerVars, CurLen, FrameLen
<1>3. BegunOnce'
  BY DEF Shape, BegunOnce, writerVars
<1> QED BY <1>1, <1>2, <1>3 DEF Shape, TypeOK, writerVars

\* A piece that is handed to tx_rb.
LEMMA EnqueuePiece ==
  ASSUME Shape, NEW w \in Writer, pc[w] = "enqueue", Enqueue(w)
  PROVE  \E chunk \in Nat : \E data \in Seq(FrameByte) :
           /\ Continues(data, w, count[w], i[w])
           /\ Len(data) = chunk /\ chunk > 0 /\ i[w] + chunk <= CurLen(w)
           /\ tx_rb' = RbWrite(tx_rb, data)
           /\ RbWritten(tx_rb, data) \in 0 .. chunk
           /\ enq' = [enq EXCEPT ![w] = RbWritten(tx_rb, data)]
           /\ i' = [i EXCEPT ![w] = @ + RbWritten(tx_rb, data)]
<1>1. TypeOK /\ Turn /\ Progress /\ pc[w] # "idle"
  BY DEF Shape
<1>2. /\ i[w] < CurLen(w) /\ i[w] \in Nat /\ CurLen(w) \in Nat /\ count[w] \in Nat
  BY <1>1, CurLenType DEF Progress
<1> DEFINE chunk == MinSize(CurLen(w) - i[w], Chunk)
           data == FrameBytes(w, count[w], i[w] + 1, i[w] + chunk)
<1>3. chunk \in Nat /\ chunk > 0 /\ i[w] + chunk <= CurLen(w)
  BY <1>2, Constants DEF MinSize
<1>4. /\ tx_rb' = RbWrite(tx_rb, data)
      /\ enq' = [enq EXCEPT ![w] = RbWritten(tx_rb, data)]
      /\ i' = [i EXCEPT ![w] = @ + RbWritten(tx_rb, data)]
  BY DEF Enqueue
<1> HIDE DEF chunk
<1>5. data \in Seq(FrameByte) /\ Len(data) = chunk
  <2>1. i[w] + 1 \in Nat \ {0} /\ i[w] + chunk \in Nat /\ i[w] + 1 <= (i[w] + chunk) + 1
    BY <1>2, <1>3
  <2>2. data \in Seq(FrameByte) /\ Len(data) = ((i[w] + chunk) + 1) - (i[w] + 1)
    <3> DEFINE k == count[w]
               from == i[w] + 1
               to == i[w] + chunk
    <3>1. k \in Nat /\ from \in Nat \ {0} /\ to \in Nat /\ from <= to + 1
      BY <1>2, <2>1
    <3> HIDE DEF k, from, to
    <3>2. /\ FrameBytes(w, k, from, to) \in Seq(FrameByte)
          /\ Len(FrameBytes(w, k, from, to)) = (to + 1) - from
      BY <3>1, FrameBytesType
    <3> QED BY <3>2 DEF k, from, to
  <2>3. ((i[w] + chunk) + 1) - (i[w] + 1) = chunk
    BY <1>2, <1>3
  <2> QED BY <2>2, <2>3
<1>6. ASSUME NEW j \in 1 .. Len(data) PROVE data[j] = <<w, count[w], i[w] + j>>
  <2>1. j \in 1 .. ((i[w] + chunk) + 1) - (i[w] + 1) /\ (i[w] + 1) + j - 1 = i[w] + j
    BY <1>2, <1>3, <1>5
  <2> QED BY <2>1 DEF FrameBytes
<1>7. RbWritten(tx_rb, data) \in 0 .. chunk
  <2>1. tx_rb \in RbType(TxSize, FrameByte)
    BY <1>1 DEF TypeOK
  <2> HIDE DEF data
  <2> QED BY <2>1, <1>5, Constants, WrittenValue
<1> HIDE DEF data
<1>8. Continues(data, w, count[w], i[w])
  BY <1>6 DEF Continues
<1> QED BY <1>3, <1>4, <1>5, <1>7, <1>8

LEMMA ShapeWrite ==
  ASSUME Shape, NEW w \in Writer, Write(w)
  PROVE  Shape'
<1>1. TypeOK /\ Turn /\ Progress /\ BegunOnce
  BY DEF Shape
<1>0. DrainTypeOK'
  <2>1. [Next]_vars
    BY DEF Next
  <2> QED BY <1>1, <2>1, DrainTypes
<1>2. pc[w] # "idle" =>
        /\ CurLen(w) \in Nat /\ CurLen(w) > 0 /\ count[w] \in Nat /\ i[w] \in Nat
        /\ i[w] <= CurLen(w)
  BY <1>1, CurLenType DEF Progress
<1>3. CASE Lock(w)
  <2> DEFINE k == count[w] + 1
  <2>1. /\ count[w] \in Nat /\ k \in 1 .. Len(Frames[w]) /\ tx_mutex = None /\ pc[w] = "idle"
        /\ FrameLen(w, k) \in Nat /\ FrameLen(w, k) > 0
    <3>1. count[w] \in Nat /\ count[w] < Len(Frames[w]) /\ tx_mutex = None /\ pc[w] = "idle"
      BY <1>1, <1>3 DEF Lock, At, TypeOK
    <3>2. k \in Nat /\ k > 0 /\ k <= Len(Frames[w]) /\ k \in 1 .. Len(Frames[w])
      BY <3>1, LenProperties, Constants
    <3> HIDE DEF k
    <3> QED BY <3>1, <3>2, FrameLenType
  <2>2. \A v \in Writer : pc[v] = "idle"
    BY <1>1, <2>1, Constants DEF Turn
  <2>3. /\ tx_mutex' = w
        /\ count' = [count EXCEPT ![w] = k]
        /\ order' = Append(order, <<w, k>>)
        /\ i' = [i EXCEPT ![w] = 0] /\ spins' = [spins EXCEPT ![w] = 0]
        /\ shifted' = FALSE
        /\ pc' = [pc EXCEPT ![w] = IF Polled(FrameLen(w, k)) THEN "drain" ELSE "enqueue"]
        /\ UNCHANGED <<tx_rb, tx_irq, in_isr, hw, wire, enq>>
    BY <1>3 DEF Lock, Goto
  <2> HIDE DEF k
  <2>4. order \in Seq(Writer \X Nat) /\ <<w, k>> \in Writer \X Nat
    BY <1>1, <2>1 DEF TypeOK
  <2>5. /\ order' \in Seq(Writer \X Nat) /\ Len(order') = Len(order) + 1
        /\ order'[Len(order')] = <<w, k>> /\ Len(order) \in Nat
        /\ \A n \in 1 .. Len(order) : order'[n] = order[n]
    BY <2>3, <2>4, AppendProperties
  <2>6. TypeOK'
    <3>1. /\ pc' \in [Writer -> WritePc] /\ count' \in [Writer -> Nat]
          /\ i' \in [Writer -> Nat] /\ spins' \in [Writer -> Nat]
      BY <1>1, <2>1, <2>3 DEF TypeOK, WritePc
    <3> QED BY <1>0, <1>1, <2>3, <2>5, <3>1 DEF TypeOK
  <2>7. /\ pc'[w] \in {"drain", "enqueue"} /\ count'[w] = k /\ i'[w] = 0
        /\ pc'[w] = "drain" => Polled(FrameLen(w, k))
        /\ \A v \in Writer : v # w => pc'[v] = pc[v] /\ count'[v] = count[v]
    BY <1>1, <2>3 DEF TypeOK
  <2>8. Turn'
    <3> SUFFICES ASSUME NEW v \in Writer
                 PROVE /\ pc'[v] = "idle" <=> tx_mutex' # v
                       /\ count'[v] <= Len(Frames[v])
                       /\ pc'[v] # "idle" =>
                            /\ count'[v] > 0 /\ order' # <<>>
                            /\ order'[Len(order')] = <<v, count'[v]>>
      BY DEF Turn
    <3>1. CASE v = w
      <4>1. order' # <<>>
        BY <2>5
      <4> QED BY <3>1, <4>1, <2>1, <2>3, <2>5, <2>7
    <3>2. CASE v # w
      BY <3>2, <1>1, <2>2, <2>3, <2>7 DEF Turn
    <3> QED BY <3>1, <3>2
  <2>9. Progress'
    <3> SUFFICES ASSUME NEW v \in Writer, pc'[v] # "idle"
                 PROVE /\ i'[v] <= CurLen(v)'
                       /\ pc'[v] \in {"enqueue", "sleep", "drain", "poll"} => i'[v] < CurLen(v)'
                       /\ pc'[v] = "unlock" => i'[v] = CurLen(v)'
                       /\ pc'[v] \in {"drain", "poll"} => Polled(CurLen(v)')
      BY DEF Progress, Polled
    <3>1. v = w
      BY <2>2, <2>7
    <3>2. CurLen(w)' = FrameLen(w, k)
      BY <2>7 DEF CurLen, FrameLen
    <3> QED BY <3>1, <3>2, <2>1, <2>7
  <2>10. BegunOnce'
    <3>1. ASSUME NEW n \in 1 .. Len(order')
          PROVE  order'[n][2] \in 1 .. count'[order'[n][1]]
      <4>1. CASE n = Len(order) + 1
        BY <4>1, <2>1, <2>5, <2>7
      <4>2. CASE n # Len(order) + 1
        <5>1. n \in 1 .. Len(order) /\ order'[n] = order[n]
          BY <4>2, <2>5
        <5>2. /\ order[n] \in Writer \X Nat /\ order[n][2] \in 1 .. count[order[n][1]]
          BY <5>1, <1>1, <2>4 DEF BegunOnce
        <5>3. CASE order[n][1] = w
          BY <5>1, <5>2, <5>3, <2>1, <2>7 DEF k
        <5>4. CASE order[n][1] # w
          BY <5>1, <5>2, <5>4, <2>7
        <5> QED BY <5>3, <5>4
      <4> QED BY <4>1, <4>2
    <3>2. \A n \in 1 .. Len(order) : order[n] # <<w, k>>
      <4> SUFFICES ASSUME NEW n \in 1 .. Len(order), order[n] = <<w, k>> PROVE FALSE
        OBVIOUS
      <4>1. k \in 1 .. count[w]
        BY <1>1 DEF BegunOnce
      <4> QED BY <4>1, <2>1 DEF k
    <3>3. ASSUME NEW m \in 1 .. Len(order'), NEW n \in 1 .. Len(order'),
                 order'[m] = order'[n]
          PROVE  m = n
      <4>1. CASE m = Len(order) + 1
        BY <4>1, <3>2, <3>3, <2>5
      <4>2. CASE n = Len(order) + 1
        BY <4>2, <3>2, <3>3, <2>5
      <4>3. CASE m # Len(order) + 1 /\ n # Len(order) + 1
        <5>1. m \in 1 .. Len(order) /\ n \in 1 .. Len(order)
          BY <4>3, <2>5
        <5>2. order[m] = order[n]
          BY <5>1, <3>3, <2>5
        <5> QED BY <5>1, <5>2, <1>1 DEF BegunOnce
      <4> QED BY <4>1, <4>2, <4>3
    <3> QED BY <3>1, <3>3 DEF BegunOnce
  <2> QED BY <2>6, <2>8, <2>9, <2>10 DEF Shape
<1>4. CASE Enqueue(w)
  <2>1. pc[w] = "enqueue"
    BY <1>4 DEF Enqueue, At
  <2>2. PICK chunk \in Nat, data \in Seq(FrameByte) :
          /\ Len(data) = chunk /\ chunk > 0 /\ i[w] + chunk <= CurLen(w)
          /\ tx_rb' = RbWrite(tx_rb, data)
          /\ RbWritten(tx_rb, data) \in 0 .. chunk
          /\ enq' = [enq EXCEPT ![w] = RbWritten(tx_rb, data)]
          /\ i' = [i EXCEPT ![w] = @ + RbWritten(tx_rb, data)]
    BY <1>4, <2>1, EnqueuePiece
  <2> DEFINE n == RbWritten(tx_rb, data)
  <2>3. tx_rb' \in RbType(TxSize, FrameByte)
    BY <1>1, <2>2, Constants, WriteType DEF TypeOK
  <2>4. n \in Nat /\ i[w] + n <= CurLen(w)
    BY <1>2, <2>1, <2>2
  <2> HIDE DEF n
  <2>5. i' \in [Writer -> Nat] /\ enq' \in [Writer -> Nat] /\ i'[w] = i[w] + n
    BY <1>1, <2>2, <2>4 DEF TypeOK, n
  <2>6. /\ Goto(w, "prime")
        /\ UNCHANGED <<tx_irq, in_isr, hw, wire, shifted, tx_mutex, count, spins, order>>
    BY <1>4 DEF Enqueue
  <2>7. Turn' /\ Progress' /\ BegunOnce' /\ pc' \in [Writer -> WritePc]
    BY <2>1, <2>4, <2>5, <2>6, MoveOn DEF WritePc
  <2> QED BY <1>0, <1>1, <2>3, <2>5, <2>6, <2>7 DEF Shape, TypeOK
<1>5. CASE Prime(w)
  <2>1. pc[w] = "prime" /\ i'[w] <= CurLen(w) /\ Goto(w, "enable")
        /\ UNCHANGED <<tx_irq, in_isr, wire, shifted, tx_mutex, count, i, enq, spins, order>>
    BY <1>2, <1>5 DEF Prime, At
  <2>2. Turn' /\ Progress' /\ BegunOnce' /\ pc' \in [Writer -> WritePc]
    BY <2>1, MoveOn DEF WritePc
  <2>3. tx_rb' \in RbType(TxSize, FrameByte) /\ hw' \in Seq(FrameByte) /\ Len(hw') <= HwDepth
    <3>1. CASE HwReady /\ FillFifo
      BY <1>1, <3>1, FillFifoMoves
    <3>2. CASE UNCHANGED <<hw, tx_rb>>
      BY <1>1, <3>2 DEF TypeOK
    <3> QED BY <1>5, <3>1, <3>2 DEF Prime
  <2> QED BY <1>0, <1>1, <2>1, <2>2, <2>3 DEF Shape, TypeOK
<1>6. CASE Enable(w)
  <2> DEFINE l == IF i[w] = CurLen(w) THEN "unlock"
                  ELSE IF enq[w] = 0 THEN "sleep" ELSE "enqueue"
  <2>1. /\ pc[w] = "enable" /\ tx_irq' = TRUE /\ Goto(w, l)
        /\ UNCHANGED <<tx_rb, in_isr, hw, wire, shifted, tx_mutex, count, i, enq, spins, order>>
    BY <1>6 DEF Enable, At
  <2>2. /\ l \in {"unlock", "sleep", "enqueue"} /\ i'[w] <= CurLen(w)
        /\ l # "unlock" => i'[w] < CurLen(w)
        /\ l = "unlock" => i'[w] = CurLen(w)
    BY <1>2, <2>1
  <2> HIDE DEF l
  <2>3. Turn' /\ Progress' /\ BegunOnce' /\ pc' \in [Writer -> WritePc]
    BY <2>1, <2>2, MoveOn DEF WritePc
  <2> QED BY <1>0, <1>1, <2>1, <2>3 DEF Shape, TypeOK
<1>7. CASE Wake(w)
  <2>1. pc[w] = "sleep" /\ Goto(w, "enqueue")
        /\ UNCHANGED <<ringVars, tx_mutex, count, i, enq, spins, order>>
    BY <1>7 DEF Wake, At
  <2>2. i'[w] < CurLen(w) /\ i'[w] <= CurLen(w)
    BY <1>1, <1>2, <2>1 DEF Progress
  <2>3. Turn' /\ Progress' /\ BegunOnce' /\ pc' \in [Writer -> WritePc]
    BY <2>1, <2>2, MoveOn DEF WritePc
  <2> QED BY <1>0, <1>1, <2>1, <2>3 DEF Shape, TypeOK, ringVars
<1>8. CASE Unlock(w)
  <2>1. /\ pc[w] = "unlock" /\ tx_mutex' = None /\ pc' = [pc EXCEPT ![w] = "idle"]
        /\ UNCHANGED <<tx_rb, tx_irq, in_isr, hw, wire, shifted, count, i, enq, spins, order>>
    BY <1>8 DEF Unlock, At, Goto, ringVars
  <2>2. /\ \A v \in Writer : pc'[v] = "idle" /\ tx_mutex' # v
        /\ pc' \in [Writer -> WritePc]
    <3>1. \A v \in Writer : v # w => pc[v] = "idle"
      BY <1>1, <2>1, OneWriter
    <3> QED BY <1>1, <2>1, <3>1, Constants DEF TypeOK, WritePc
  <2>3. TypeOK'
    BY <1>0, <1>1, <2>1, <2>2 DEF TypeOK
  <2>4. Turn' /\ Progress' /\ BegunOnce'
    BY <1>1, <2>1, <2>2 DEF Turn, Progress, BegunOnce
  <2> QED BY <2>3, <2>4 DEF Shape
<1>9. CASE DrainWait(w)
  <2>1. /\ pc[w] = "drain" /\ spins' = [spins EXCEPT ![w] = @ + 1] /\ shifted' = FALSE
        /\ UNCHANGED <<tx_rb, tx_irq, in_isr, hw, wire, tx_mutex, pc, count, i, enq, order>>
    BY <1>9 DEF DrainWait, At
  <2>2. TypeOK'
    <3>1. spins \in [Writer -> Nat] /\ spins' = [spins EXCEPT ![w] = @ + 1]
      BY <1>1, <2>1 DEF TypeOK
    <3>2. spins' \in [Writer -> Nat]
      BY <3>1
    <3> QED BY <1>0, <1>1, <2>1, <3>2 DEF TypeOK
  <2>3. Turn' /\ Progress' /\ BegunOnce'
    BY <1>1, <2>1 DEF Turn, Progress, BegunOnce, CurLen, FrameLen
  <2> QED BY <2>2, <2>3 DEF Shape
<1>10. CASE DrainEnd(w)
  <2>1. /\ pc[w] = "drain" /\ tx_irq' = FALSE /\ Goto(w, "poll")
        /\ UNCHANGED <<tx_rb, in_isr, hw, wire, shifted, tx_mutex, count, i, enq, spins, order>>
    BY <1>10 DEF DrainEnd, At
  <2>2. i'[w] < CurLen(w) /\ i'[w] <= CurLen(w) /\ Polled(CurLen(w))
    BY <1>1, <1>2, <2>1 DEF Progress
  <2>3. Turn' /\ Progress' /\ BegunOnce' /\ pc' \in [Writer -> WritePc]
    BY <2>1, <2>2, MoveOn DEF WritePc
  <2> QED BY <1>0, <1>1, <2>1, <2>3 DEF Shape, TypeOK
<1>11. CASE PollOut(w)
  <2> DEFINE l == IF i'[w] = CurLen(w) THEN "unlock" ELSE "poll"
             byte == <<w, count[w], i[w] + 1>>
  <2>1. /\ pc[w] = "poll" /\ HwReady /\ hw' = Append(hw, byte)
        /\ i' = [i EXCEPT ![w] = @ + 1] /\ Goto(w, l)
        /\ UNCHANGED <<tx_rb, tx_irq, in_isr, wire, shifted, tx_mutex, count, enq, spins, order>>
    BY <1>11 DEF PollOut, At
  <2>2. i[w] < CurLen(w) /\ Polled(CurLen(w)) /\ i'[w] = i[w] + 1 /\ i' \in [Writer -> Nat]
    BY <1>1, <1>2, <2>1 DEF Progress, TypeOK
  <2>3. /\ l \in {"unlock", "poll"} /\ i'[w] <= CurLen(w)
        /\ l = "poll" => i'[w] < CurLen(w)
        /\ l = "unlock" => i'[w] = CurLen(w)
    BY <1>2, <2>1, <2>2
  <2>4. hw' \in Seq(FrameByte) /\ Len(hw') <= HwDepth
    <3>1. byte \in FrameByte
      BY <1>2, <2>1 DEF FrameByte
    <3>2. hw \in Seq(FrameByte) /\ Len(hw) \in Nat /\ Len(hw) < HwDepth /\ HwDepth \in Nat
      BY <1>1, <2>1, Constants DEF TypeOK, HwReady
    <3> HIDE DEF byte
    <3> QED BY <2>1, <3>1, <3>2, AppendProperties
  <2> HIDE DEF l
  <2>5. Turn' /\ Progress' /\ BegunOnce' /\ pc' \in [Writer -> WritePc]
    BY <2>1, <2>2, <2>3, MoveOn DEF WritePc
  <2> QED BY <1>0, <1>1, <2>1, <2>2, <2>4, <2>5 DEF Shape, TypeOK
<1> QED BY <1>3, <1>4, <1>5, <1>6, <1>7, <1>8, <1>9, <1>10, <1>11 DEF Write

LEMMA ShapeNext == Shape /\ [Next]_vars => Shape'
<1> SUFFICES ASSUME Shape, [Next]_vars PROVE Shape'
  OBVIOUS
<1>1. TypeOK
  BY DEF Shape
<1>0. DrainTypeOK'
  BY <1>1, DrainTypes
<1>2. CASE UNCHANGED vars
  <2>1. UNCHANGED ringVars /\ UNCHANGED writerVars
    BY <1>2 DEF vars
  <2> QED BY <1>0, <2>1, <1>1, WritersStill DEF Shape, TypeOK, ringVars
<1>3. CASE Shift
  <2>1. hw \in Seq(FrameByte) /\ hw # <<>> /\ wire \in Seq(FrameByte) /\ HwDepth \in Nat
        /\ Len(hw) <= HwDepth
    BY <1>1, <1>3, Constants DEF Shift, TypeOK
  <2>2. /\ hw' = Tail(hw) /\ wire' = Append(wire, Head(hw)) /\ shifted' = TRUE
        /\ UNCHANGED <<tx_rb, tx_irq, in_isr>> /\ UNCHANGED writerVars
    BY <1>3 DEF Shift
  <2>3. /\ hw' \in Seq(FrameByte) /\ Len(hw') <= HwDepth /\ wire' \in Seq(FrameByte)
    BY <2>1, <2>2
  <2> QED BY <1>0, <2>2, <2>3, <1>1, WritersStill DEF Shape, TypeOK
<1>4. CASE IsrEnter \/ IsrEmpty \/ IsrFifoFull
  <2>1. /\ UNCHANGED <<tx_rb, hw, wire, shifted>> /\ UNCHANGED writerVars
        /\ tx_irq' \in BOOLEAN /\ in_isr' \in BOOLEAN
    BY <1>1, <1>4 DEF IsrEnter, IsrEmpty, IsrFifoFull, TypeOK
  <2> QED BY <1>0, <2>1, <1>1, WritersStill DEF Shape, TypeOK
<1>5. CASE IsrFill
  <2>1. HwReady /\ FillFifo /\ UNCHANGED <<tx_irq, in_isr, wire, shifted>> /\ UNCHANGED writerVars
    BY <1>5 DEF IsrFill
  <2>2. tx_rb' \in RbType(TxSize, FrameByte) /\ hw' \in Seq(FrameByte) /\ Len(hw') <= HwDepth
    BY <1>1, <2>1, FillFifoMoves
  <2> QED BY <1>0, <2>1, <2>2, <1>1, WritersStill DEF Shape, TypeOK
<1>6. CASE Done
  BY <1>2, <1>6 DEF Done
<1>7. CASE \E w \in Writer : Write(w)
  BY <1>7, ShapeWrite
<1> QED BY <1>2, <1>3, <1>4, <1>5, <1>6, <1>7 DEF Next, Isr

\* Whatever the frames and the sizes, the ring, the FIFO, the line and the
\* writers of platform_serial_write hold values of their types.
THEOREM TxTypeCorrect == Spec => []TypeOK
<1>1. Spec => []Shape
  BY ShapeInit, ShapeNext, PTL DEF Spec
<1>2. Shape => TypeOK
  BY DEF Shape
<1> QED BY <1>1, <1>2, PTL

-----------------------------------------------------------------------------
(* No byte is stranded.                                                    *)

\* The counts that every step below reasons about.
LEMMA Counts ==
  ASSUME TypeOK
  PROVE  /\ RbUsed(tx_rb) \in 0 .. TxSize - 1 /\ Len(hw) \in 0 .. HwDepth
         /\ \A w \in Writer : spins[w] \in Nat
<1>1. tx_rb \in RbType(TxSize, FrameByte) /\ hw \in Seq(FrameByte) /\ Len(hw) <= HwDepth
  BY DEF TypeOK
<1>2. RbUsed(tx_rb) \in 0 .. TxSize - 1
  BY <1>1, Constants, UsedValue
<1>3. Len(hw) \in 0 .. HwDepth
  BY <1>1, Constants, LenProperties
<1> QED BY <1>2, <1>3 DEF TypeOK

\* Only the start of a polled frame can leave bytes behind.
LEMMA StrandedNext ==
  ASSUME Shape, NeverStranded, [Next]_vars
  PROVE  NeverStranded'
<1>1. TypeOK /\ Turn /\ RbUsed(tx_rb) \in Nat
  BY Counts DEF Shape
<1>2. TypeOK' /\ RbUsed(tx_rb') \in Nat
  <2>1. TypeOK'
    BY ShapeNext DEF Shape
  <2>2. RbUsed(tx_rb') \in 0 .. TxSize - 1
    BY <2>1, Constants, UsedValue DEF TypeOK
  <2> QED BY <2>1, <2>2
<1>3. pc \in [Writer -> WritePc]
  BY <1>1 DEF TypeOK
<1>4. ASSUME UNCHANGED <<tx_irq, pc, stranded>>, RbUsed(tx_rb') > 0 => RbUsed(tx_rb) > 0
      PROVE  NeverStranded'
  BY <1>4 DEF NeverStranded
<1>5. ASSUME HwReady, FillFifo PROVE RbUsed(tx_rb') > 0 => RbUsed(tx_rb) > 0
  BY <1>1, <1>2, <1>5, FillFifoMoves
<1>6. CASE UNCHANGED vars \/ Done
  BY <1>4, <1>6 DEF vars, ringVars, writerVars, drainVars, Done
<1>7. CASE Shift \/ IsrEnter \/ IsrFifoFull
  BY <1>4, <1>7 DEF Shift, IsrEnter, IsrFifoFull, writerVars, drainVars
<1>8. CASE IsrFill
  BY <1>4, <1>5, <1>8 DEF IsrFill, writerVars, drainVars
<1>9. CASE IsrEmpty
  BY <1>9 DEF IsrEmpty, NeverStranded
<1>10. ASSUME NEW w \in Writer, Write(w) PROVE NeverStranded'
  <2>1. CASE Lock(w)
    <3>1. /\ UNCHANGED <<tx_irq, tx_rb, stranded>> /\ pc[w] = "idle"
          /\ \A v \in Writer : v # w => pc'[v] = pc[v]
      BY <1>3, <2>1 DEF Lock, At, Goto
    <3> QED BY <3>1 DEF NeverStranded
  <2>2. CASE Enqueue(w)
    <3>1. pc'[w] = "prime"
      BY <1>3, <2>2 DEF Enqueue, Goto
    <3> QED BY <3>1 DEF NeverStranded
  <2>3. CASE Prime(w)
    <3>1. pc'[w] = "enable"
      BY <1>3, <2>3 DEF Prime, Goto
    <3> QED BY <3>1 DEF NeverStranded
  <2>4. CASE Enable(w)
    BY <2>4 DEF Enable, NeverStranded
  <2>5. CASE Wake(w) \/ Unlock(w) \/ PollOut(w)
    <3>1. /\ UNCHANGED <<tx_irq, tx_rb, stranded>> /\ pc[w] \in {"sleep", "unlock", "poll"}
          /\ \A v \in Writer : v # w => pc'[v] = pc[v]
      BY <1>3, <2>5 DEF Wake, Unlock, PollOut, At, Goto, ringVars, drainVars
    <3> QED BY <3>1 DEF NeverStranded
  <2>6. CASE DrainWait(w)
    BY <1>4, <2>6 DEF DrainWait, drainVars
  <2>7. CASE DrainEnd(w)
    BY <2>7 DEF DrainEnd, NeverStranded
  <2> QED BY <1>10, <2>1, <2>2, <2>3, <2>4, <2>5, <2>6, <2>7 DEF Write
<1> QED BY <1>6, <1>7, <1>8, <1>9, <1>10 DEF Next, Isr

LEMMA StrandedInit == Init => NeverStranded
<1> SUFFICES ASSUME Init PROVE NeverStranded
  OBVIOUS
<1>1. tx_rb.size = TxSize /\ tx_rb.head = 0 /\ tx_rb.tail = 0
  BY DEF Init, RbInit
<1>2. TypeOK
  BY ShapeInit DEF Shape
<1>3. RbUsed(tx_rb) = 0
  <2>1. tx_rb \in RbType(TxSize, FrameByte)
    BY <1>2 DEF TypeOK
  <2> QED BY <1>1, <2>1, Constants, UsedValue
<1> QED BY <1>3 DEF NeverStranded

-----------------------------------------------------------------------------
(* A wait for every byte drains tx_rb.                                     *)

LEMMA BudgetInit == Init => Budget /\ Drained /\ DrainedInTime
BY DEF Init, Budget, Drained, DrainedInTime

\* What the steps do to the history: polled frames are the ones it grows with.
LEMMA HistoryGrows ==
  ASSUME Shape, [Next]_vars
  PROVE  /\ backlog \in Nat /\ backlog' \in Nat /\ backlog' >= backlog
         /\ overtook => overtook'
<1>1. TypeOK /\ backlog \in Nat
  BY DEF Shape, TypeOK, DrainTypeOK
<1>2. backlog' \in Nat
  BY <1>1, DrainTypes DEF DrainTypeOK
<1>3. RbUsed(tx_rb) \in Nat /\ Len(hw) \in Nat
  BY <1>1, Counts, Constants
<1>4. CASE UNCHANGED drainVars
  BY <1>1, <1>4 DEF drainVars
<1>5. CASE UNCHANGED vars \/ Done \/ Shift \/ Isr
  BY <1>4, <1>5 DEF vars, Done, Shift, Isr, IsrEnter, IsrFill, IsrEmpty, IsrFifoFull
<1>6. ASSUME NEW w \in Writer, Write(w)
      PROVE  backlog' >= backlog /\ (overtook => overtook')
  <2>1. CASE Lock(w)
    <3>1. overtook' = overtook /\ backlog' \in {backlog, Larger(backlog, Pending)}
      BY <2>1 DEF Lock
    <3>2. Larger(backlog, Pending) >= backlog
      BY <1>1, <1>3 DEF Larger, Pending
    <3>3. backlog' >= backlog
      BY <1>1, <3>1, <3>2
    <3> QED BY <3>1, <3>3
  <2>2. CASE Enqueue(w) \/ Prime(w) \/ Wake(w) \/ Unlock(w) \/ DrainWait(w) \/ PollOut(w)
    BY <1>4, <1>1, <2>2 DEF Enqueue, Prime, Wake, Unlock, DrainWait, PollOut, drainVars
  <2>3. CASE Enable(w)
    BY <1>1, <2>3 DEF Enable
  <2>4. CASE DrainEnd(w)
    <3>1. backlog' = backlog /\ (overtook => overtook')
      BY <2>4 DEF DrainEnd
    <3> QED BY <1>1, <3>1
  <2> QED BY <1>6, <2>1, <2>2, <2>3, <2>4 DEF Write
<1> QED BY <1>1, <1>2, <1>4, <1>5, <1>6 DEF Next

\* Each wait ends with a byte gone, because the interrupt that moves the bytes
\* is on; so after as many waits as there were bytes none is left.
LEMMA BudgetNext ==
  ASSUME Shape, NeverStranded, Budget, Drained, DrainedInTime, [Next]_vars
  PROVE  Budget' /\ Drained' /\ DrainedInTime'
<1>1. /\ TypeOK /\ Turn /\ Progress
      /\ \A w \in Writer : spins[w] \in Nat
      /\ TxSize \in Nat /\ HwDepth \in Nat /\ HwDepth > 0 /\ MaxSpins \in Nat
  BY Counts, Constants DEF Shape
<1>2. /\ RbUsed(tx_rb) \in Nat /\ Len(hw) \in Nat /\ Pending \in Nat
      /\ Load \in Nat /\ RbUsed(tx_rb) <= Load /\ Pending <= Load
      /\ Load \in {Pending, Pending + 1}
  BY <1>1, Counts DEF Load, Pending
<1>3. RbUsed(tx_rb') \in Nat /\ Len(hw') \in Nat /\ Load' \in Nat
  <2>1. TypeOK'
    BY ShapeNext DEF Shape
  <2>2. tx_rb' \in RbType(TxSize, FrameByte) /\ hw' \in Seq(FrameByte)
    BY <2>1 DEF TypeOK
  <2>3. RbUsed(tx_rb') \in 0 .. TxSize - 1 /\ Len(hw') \in Nat
    BY <2>2, Constants, UsedValue, LenProperties
  <2> QED BY <1>1, <2>3 DEF Load, Pending
<1>4. pc \in [Writer -> WritePc]
  BY <1>1 DEF TypeOK
<1>5. /\ backlog \in Nat /\ backlog' \in Nat /\ backlog' >= backlog
      /\ overtook => overtook'
  BY HistoryGrows
<1>6. ASSUME overtook' = overtook PROVE DrainedInTime'
  <2>1. backlog' <= MaxSpins => backlog <= MaxSpins
    BY <1>1, <1>5
  <2> QED BY <1>6, <2>1 DEF DrainedInTime
<1>7. ASSUME UNCHANGED <<spins, pc, drainVars>>, RbUsed(tx_rb') <= RbUsed(tx_rb), Load' <= Load
      PROVE  Budget' /\ Drained' /\ DrainedInTime'
  <2>1. overtook' = overtook /\ stranded' = stranded /\ backlog' = backlog
    BY <1>7 DEF drainVars
  <2>2. ASSUME ~overtook, NEW w \in Writer, pc'[w] = "drain"
        PROVE  Load' + spins'[w] <= backlog'
    <3>1. Load + spins[w] <= backlog /\ spins'[w] = spins[w] /\ spins[w] \in Nat
      BY <1>1, <1>7, <2>2 DEF Budget
    <3> QED BY <1>1, <1>2, <1>3, <1>5, <1>7, <2>1, <3>1
  <2>3. ASSUME ~overtook, NEW w \in Writer, pc'[w] = "poll" PROVE RbUsed(tx_rb') = 0
    <3>1. RbUsed(tx_rb) = 0
      BY <1>7, <2>3 DEF Drained
    <3> QED BY <1>3, <1>7, <3>1
  <2>4. ~overtook => ~stranded
    BY DEF Drained
  <2> QED BY <1>6, <2>1, <2>2, <2>3, <2>4 DEF Budget, Drained
<1>8. ASSUME UNCHANGED <<tx_rb, hw, shifted, spins, pc, drainVars>>
      PROVE  Budget' /\ Drained' /\ DrainedInTime'
  <2>1. Load' = Load
    BY <1>8 DEF Load, Pending
  <2> QED BY <1>2, <1>7, <1>8, <2>1
<1>9. ASSUME \A v \in Writer : pc'[v] \notin {"drain", "poll"}, overtook' = overtook,
             stranded' => stranded
      PROVE  Budget' /\ Drained' /\ DrainedInTime'
  BY <1>6, <1>9 DEF Budget, Drained
<1>10. CASE UNCHANGED vars \/ Done
  BY <1>8, <1>10 DEF vars, ringVars, writerVars, Done
<1>11. CASE Shift
  <2>1. /\ hw \in Seq(FrameByte) /\ hw # <<>> /\ hw' = Tail(hw)
        /\ UNCHANGED <<tx_rb, spins, pc, drainVars>>
    BY <1>1, <1>11 DEF Shift, writerVars, TypeOK
  <2>2. Len(hw') = Len(hw) - 1
    BY <2>1
  <2>3. Load' <= (RbUsed(tx_rb) + Len(hw')) + 1
    BY <1>2, <1>3, <2>1 DEF Load, Pending
  <2>4. Load' <= Load
    BY <1>2, <1>3, <2>2, <2>3 DEF Pending
  <2> QED BY <1>2, <1>7, <2>1, <2>4
<1>12. CASE IsrEnter \/ IsrFifoFull \/ IsrEmpty
  BY <1>8, <1>12 DEF IsrEnter, IsrFifoFull, IsrEmpty, writerVars
<1>13. CASE IsrFill
  <2>1. /\ RbUsed(tx_rb') <= RbUsed(tx_rb)
        /\ RbUsed(tx_rb') + Len(hw') = RbUsed(tx_rb) + Len(hw)
        /\ UNCHANGED <<shifted, spins, pc, drainVars>>
    BY <1>1, <1>13, FillFifoMoves DEF IsrFill, writerVars
  <2>2. Load' = Load
    BY <2>1 DEF Load, Pending
  <2> QED BY <1>2, <1>7, <2>1, <2>2
<1>14. ASSUME NEW w \in Writer, Lock(w) PROVE Budget' /\ Drained' /\ DrainedInTime'
  <2>1. /\ tx_mutex = None /\ UNCHANGED <<tx_rb, hw, overtook, stranded>> /\ shifted' = FALSE
        /\ spins' = [spins EXCEPT ![w] = 0]
        /\ \/ Goto(w, "drain") /\ backlog' = Larger(backlog, Pending)
           \/ Goto(w, "enqueue")
    BY <1>14 DEF Lock
  <2>2. \A v \in Writer : pc[v] = "idle"
    BY <1>1, <2>1, Constants DEF Turn
  <2>3. spins'[w] = 0 /\ \A v \in Writer : pc'[v] # "poll" /\ (pc'[v] = "drain" => v = w)
    BY <1>1, <1>4, <2>1, <2>2 DEF Goto, TypeOK
  <2>4. Load' = Pending
    BY <1>2, <2>1 DEF Load, Pending
  <2>5. Budget'
    <3> SUFFICES ASSUME pc'[w] = "drain" PROVE Load' + spins'[w] <= backlog'
      BY <2>3 DEF Budget
    <3>1. backlog' = Larger(backlog, Pending)
      BY <1>4, <2>1 DEF Goto
    <3>2. Pending <= Larger(backlog, Pending)
      BY <1>2, <1>5 DEF Larger
    <3> QED BY <1>2, <1>5, <2>3, <2>4, <3>1, <3>2
  <2>6. Drained'
    BY <2>1, <2>3 DEF Drained
  <2> QED BY <1>6, <2>1, <2>5, <2>6
<1>15. ASSUME NEW w \in Writer, Write(w), ~Lock(w)
       PROVE  Budget' /\ Drained' /\ DrainedInTime'
  <2>1. pc[w] # "idle"
    BY <1>15 DEF Write, At, Enqueue, Prime, Enable, Wake, Unlock, DrainWait, DrainEnd, PollOut
  <2>2. tx_mutex = w /\ \A v \in Writer : v # w => pc[v] = "idle"
    BY <1>1, <2>1, OneWriter
  <2>3. CASE Enqueue(w) \/ Prime(w) \/ Enable(w) \/ Wake(w) \/ Unlock(w)
    <3>1. \A v \in Writer : pc'[v] \notin {"drain", "poll"}
      BY <1>4, <2>2, <2>3 DEF Enqueue, Prime, Enable, Wake, Unlock, Goto
    <3>2. overtook' = overtook /\ (stranded' => stranded)
      BY <2>3 DEF Enqueue, Prime, Enable, Wake, Unlock, drainVars
    <3> QED BY <1>9, <3>1, <3>2
  <2>4. CASE DrainWait(w)
    <3>1. /\ pc[w] = "drain" /\ RbUsed(tx_rb) # 0
          /\ spins' = [spins EXCEPT ![w] = @ + 1]
          /\ UNCHANGED <<tx_rb, hw, pc, backlog, overtook, stranded>>
      BY <2>4 DEF DrainWait, At, drainVars
    <3>2. shifted' = FALSE /\ (hw = <<>> \/ shifted) /\ ~IsrPending /\ ~in_isr
      BY <2>4 DEF DrainWait, At
    <3>3. ~overtook => shifted
      <4> SUFFICES ASSUME ~overtook PROVE shifted
        OBVIOUS
      <4>1. \A v \in Writer : pc[v] \notin {"prime", "enable"}
        BY <2>2, <3>1
      <4>2. RbUsed(tx_rb) > 0
        BY <1>2, <3>1
      <4>3. tx_irq
        BY <4>1, <4>2 DEF NeverStranded, Drained
      <4>4. hw # <<>>
        <5>1. ~HwReady
          BY <3>2, <4>3 DEF IsrPending
        <5>2. Len(hw) # 0
          BY <1>1, <1>2, <5>1 DEF HwReady
        <5> QED BY <5>2
      <4> QED BY <3>2, <4>4
    <3>4. spins'[w] = spins[w] + 1 /\ spins[w] \in Nat
      BY <1>1, <3>1 DEF TypeOK
    <3>5. Load' = Pending
      BY <1>2, <3>1, <3>2 DEF Load, Pending
    <3>6. Budget'
      <4> SUFFICES ASSUME ~overtook PROVE Load' + spins'[w] <= backlog
        BY <2>2, <3>1 DEF Budget
      <4>1. Load + spins[w] <= backlog
        BY <3>1 DEF Budget
      <4>2. Load = Pending + 1
        BY <3>3 DEF Load
      <4> QED BY <1>2, <1>5, <3>4, <3>5, <4>1, <4>2
    <3>7. Drained'
      BY <3>1 DEF Drained
    <3> QED BY <1>6, <3>1, <3>6, <3>7
  <2>5. CASE DrainEnd(w)
    <3>1. /\ pc[w] = "drain" /\ (RbUsed(tx_rb) = 0 \/ spins[w] = MaxSpins)
          /\ Goto(w, "poll") /\ UNCHANGED <<tx_rb, backlog>>
      BY <2>5 DEF DrainEnd, At
    <3>2. /\ stranded' <=> RbUsed(tx_rb) > 0
          /\ overtook' <=> (overtook \/ RbUsed(tx_rb) > 0)
      BY <2>5 DEF DrainEnd
    <3>3. ~overtook' => ~stranded' /\ RbUsed(tx_rb') = 0
      <4>1. ~(RbUsed(tx_rb) > 0) => RbUsed(tx_rb) = 0
        BY <1>2
      <4> QED BY <3>1, <3>2, <4>1
    <3>4. \A v \in Writer : pc'[v] # "drain"
      BY <1>4, <2>2, <3>1 DEF Goto
    <3>5. ASSUME backlog <= MaxSpins PROVE ~overtook'
      <4>1. ~overtook /\ Load + spins[w] <= backlog
        BY <3>1, <3>5 DEF DrainedInTime, Budget
      <4>2. spins[w] = MaxSpins => Load <= 0
        BY <1>1, <1>2, <1>5, <3>5, <4>1
      <4>3. ~(RbUsed(tx_rb) > 0)
        BY <1>2, <3>1, <4>2
      <4> QED BY <3>2, <4>1, <4>3
    <3> QED BY <3>1, <3>3, <3>4, <3>5 DEF Budget, Drained, DrainedInTime
  <2>6. CASE PollOut(w)
    <3>1. /\ pc[w] = "poll" /\ UNCHANGED <<tx_rb, overtook, stranded>>
          /\ Goto(w, IF i'[w] = CurLen(w) THEN "unlock" ELSE "poll")
      BY <2>6 DEF PollOut, At, drainVars
    <3>2. ~overtook => ~stranded /\ RbUsed(tx_rb) = 0
      BY <3>1 DEF Drained
    <3>3. \A v \in Writer : pc'[v] # "drain"
      BY <1>4, <2>2, <3>1 DEF Goto
    <3> QED BY <1>6, <3>1, <3>2, <3>3 DEF Budget, Drained
  <2> QED BY <1>15, <2>3, <2>4, <2>5, <2>6 DEF Write
<1> QED BY <1>10, <1>11, <1>12, <1>13, <1>14, <1>15 DEF Next, Isr

-----------------------------------------------------------------------------
(* The line carries the frames in order.                                   *)

\* A frame in the history exists, and only the last one may be incomplete.
LEMMA PartValue ==
  ASSUME Shape, NEW n \in 1 .. Len(order)
  PROVE  /\ order[n] \in Writer \X Nat /\ Part(n) \in Seq(FrameByte)
         /\ ~(tx_mutex = order[n][1] /\ count[order[n][1]] = order[n][2]) =>
              Part(n) = FrameBytes(order[n][1], order[n][2], 1,
                                   FrameLen(order[n][1], order[n][2]))
<1> DEFINE v == order[n][1]
           k == order[n][2]
<1>1. order[n] \in Writer \X Nat
  BY DEF Shape, TypeOK
<1>2. v \in Writer /\ k \in 1 .. count[v] /\ count[v] \in Nat /\ i[v] \in Nat
  BY <1>1 DEF Shape, BegunOnce, TypeOK
<1>3. count[v] <= Len(Frames[v]) /\ Len(Frames[v]) \in Nat
  BY <1>2, Constants, LenProperties DEF Shape, Turn
<1>4. k \in Nat /\ k > 0 /\ k <= Len(Frames[v])
  BY <1>2, <1>3
<1>5. Part(n) = FrameBytes(v, k, 1, IF tx_mutex = v /\ count[v] = k
                                    THEN i[v] ELSE FrameLen(v, k))
  BY DEF Part
<1> HIDE DEF v, k
<1>6. FrameLen(v, k) \in Nat
  BY <1>2, <1>4, FrameLenType
<1> DEFINE to == IF tx_mutex = v /\ count[v] = k THEN i[v] ELSE FrameLen(v, k)
<1>7. to \in Nat /\ 1 \in Nat \ {0} /\ 1 <= to + 1
  BY <1>2, <1>6
<1>8. FrameBytes(v, k, 1, to) \in Seq(FrameByte)
  <2> HIDE DEF to
  <2> QED BY <1>2, <1>4, <1>7, FrameBytesType
<1> QED BY <1>1, <1>5, <1>8 DEF v, k

\* The frame of the writer that has the mutex is the last one.
LEMMA LastPart ==
  ASSUME Shape, NEW w \in Writer, pc[w] # "idle"
  PROVE  /\ Len(order) \in Nat /\ Len(order) > 0
         /\ Part(Len(order)) = FrameBytes(w, count[w], 1, i[w])
<1>1. tx_mutex = w /\ order # <<>> /\ order[Len(order)] = <<w, count[w]>>
  BY OneWriter DEF Shape
<1>2. Len(order) \in Nat /\ Len(order) > 0
  <2>1. order \in Seq(Writer \X Nat)
    BY DEF Shape, TypeOK
  <2> QED BY <1>1, <2>1
<1> QED BY <1>1, <1>2 DEF Part

\* The frames before it are complete, and stay as they are.
LEMMA EarlierParts ==
  ASSUME Shape, NEW w \in Writer, pc[w] # "idle",
         UNCHANGED <<order, count>>, tx_mutex' \in {w, None},
         NEW n \in 1 .. Len(order) - 1
  PROVE  Part(n)' = Part(n)
<1>1. /\ tx_mutex = w /\ order[Len(order)] = <<w, count[w]>>
      /\ Len(order) \in Nat /\ Len(order) > 0
  BY OneWriter, LastPart DEF Shape
<1>2. n \in 1 .. Len(order) /\ Len(order) \in 1 .. Len(order) /\ n # Len(order)
  BY <1>1
<1>3. order[n] \in Writer \X Nat /\ order[n] # <<w, count[w]>>
  BY <1>1, <1>2, PartValue DEF Shape, BegunOnce
<1>4. ~(tx_mutex = order[n][1] /\ count[order[n][1]] = order[n][2])
  BY <1>1, <1>3
<1>5. ~(tx_mutex' = order[n][1] /\ count[order[n][1]] = order[n][2])
  BY <1>3, <1>4, <1>1, Constants
<1> QED BY <1>4, <1>5 DEF Part

\* When the last frame grows, so does what is written.
LEMMA WrittenGrows ==
  ASSUME Shape, NEW w \in Writer, pc[w] # "idle",
         UNCHANGED <<order, count>>, tx_mutex' \in {w, None},
         NEW data \in Seq(FrameByte),
         Part(Len(order))' = Part(Len(order)) \o data
  PROVE  Written' = Written \o data
<1> DEFINE L == Len(order)
           before == [n \in 1 .. L - 1 |-> Part(n)]
           last == Part(L)
<1>1. L \in Nat /\ L > 0
  BY LastPart
<1>2. \A n \in 1 .. L : Part(n) \in Seq(FrameByte)
  BY PartValue
<1>3. last \in Seq(FrameByte) /\ L \in 1 .. L
  BY <1>1, <1>2
<1>4. before \in Seq(Seq(FrameByte)) /\ Len(before) = L - 1
  <2>1. L - 1 \in Nat /\ \A n \in 1 .. L - 1 : Part(n) \in Seq(FrameByte)
    BY <1>1, <1>2
  <2>2. before \in [1 .. L - 1 -> Seq(FrameByte)]
    BY <2>1
  <2> HIDE DEF L, before
  <2>3. before \in Seq(Seq(FrameByte))
    BY <2>1, <2>2, SeqDef
  <2> QED BY <2>1, <2>2, <2>3, LenProperties
<1>5. \A n \in 1 .. L - 1 : Part(n)' = Part(n)
  BY EarlierParts
<1>6. \A x \in Seq(FrameByte) :
        Append(before, x) = [n \in 1 .. L |-> IF n = L THEN x ELSE Part(n)]
  <2> SUFFICES ASSUME NEW x \in Seq(FrameByte)
               PROVE  Append(before, x) = [n \in 1 .. L |-> IF n = L THEN x ELSE Part(n)]
    OBVIOUS
  <2>1. /\ Append(before, x) \in Seq(Seq(FrameByte)) /\ Len(Append(before, x)) = (L - 1) + 1
        /\ Append(before, x)[(L - 1) + 1] = x
        /\ \A n \in 1 .. L - 1 : Append(before, x)[n] = before[n]
    <3> HIDE DEF before, L
    <3> QED BY <1>4, AppendProperties
  <2>2. (L - 1) + 1 = L
    BY <1>1
  <2>3. \A n \in 1 .. L : n # L => n \in 1 .. L - 1
    BY <1>1
  <2>4. Append(before, x) = [n \in 1 .. L |-> Append(before, x)[n]]
    <3> DEFINE grown == Append(before, x)
    <3>1. grown \in Seq(Seq(FrameByte)) /\ Len(grown) = L
      BY <2>1, <2>2
    <3> HIDE DEF grown, L
    <3>2. grown = [n \in 1 .. L |-> grown[n]]
      BY <3>1, LenProperties
    <3> QED BY <3>2 DEF grown
  <2>5. \A n \in 1 .. L : Append(before, x)[n] = IF n = L THEN x ELSE Part(n)
    <3>1. \A n \in 1 .. L - 1 : before[n] = Part(n)
      OBVIOUS
    <3> HIDE DEF before, L
    <3> QED BY <2>1, <2>2, <2>3, <3>1
  <2> HIDE DEF before, L
  <2> QED BY <2>4, <2>5
<1>7. last \o data \in Seq(FrameByte)
  <2> HIDE DEF last
  <2> QED BY <1>3, ConcatProperties
<1>8. Written = FlattenSeq(Append(before, last))
  <2>1. [n \in 1 .. L |-> Part(n)] = [n \in 1 .. L |-> IF n = L THEN last ELSE Part(n)]
    OBVIOUS
  <2> HIDE DEF before
  <2>2. Append(before, last) = [n \in 1 .. L |-> Part(n)]
    BY <1>3, <1>6, <2>1
  <2> QED BY <2>2 DEF Written
<1>9. Written' = FlattenSeq(Append(before, last \o data))
  <2>1. \A n \in 1 .. L : Part(n)' = IF n = L THEN last \o data ELSE Part(n)
    <3>1. \A n \in 1 .. L : n # L => n \in 1 .. L - 1
      BY <1>1
    <3> QED BY <1>5, <3>1
  <2>2. [n \in 1 .. L |-> Part(n)'] = [n \in 1 .. L |-> IF n = L THEN last \o data ELSE Part(n)]
    BY <2>1
  <2>3. Written' = FlattenSeq([n \in 1 .. L |-> Part(n)'])
    BY DEF Written
  <2> HIDE DEF before, last
  <2> QED BY <1>6, <1>7, <2>2, <2>3
<1> HIDE DEF before, last
<1>10. FlattenSeq(Append(before, last)) = FlattenSeq(before) \o last
  BY <1>3, <1>4, FlattenAppend
<1>11. FlattenSeq(Append(before, last \o data)) = FlattenSeq(before) \o (last \o data)
  BY <1>4, <1>7, FlattenAppend
<1>12. FlattenSeq(before) \in Seq(FrameByte)
  BY <1>4, FlattenType
<1>13. (FlattenSeq(before) \o last) \o data = FlattenSeq(before) \o (last \o data)
  BY <1>3, <1>12, ConcatAssociative
<1> QED BY <1>8, <1>9, <1>10, <1>11, <1>13

LEMMA WireInit == Init => WireInOrder
<1> SUFFICES ASSUME Init PROVE WireInOrder
  OBVIOUS
<1>1. tx_rb \in RbType(TxSize, FrameByte) /\ RbUsed(tx_rb) = 0
  <2>1. TypeOK
    BY ShapeInit DEF Shape
  <2>2. tx_rb \in RbType(TxSize, FrameByte) /\ tx_rb.head = 0 /\ tx_rb.tail = 0
    BY <2>1 DEF TypeOK, Init, RbInit
  <2> QED BY <2>2, Constants, UsedValue
<1>2. RbContents(tx_rb) = <<>>
  BY <1>1 DEF RbContents
<1>3. Stream = <<>>
  BY <1>2 DEF Init, Stream
<1>4. Written = <<>>
  BY DEF Init, Written, FlattenSeq
<1> QED BY <1>3, <1>4 DEF WireInOrder

\* Every step appends to the stream what it appends to the frames.
LEMMA WireNext ==
  ASSUME Shape, Stream = Written, Drained, ~overtook, [Next]_vars
  PROVE  Stream' = Written'
<1> DEFINE queued == RbContents(tx_rb)
<1>1. /\ TypeOK /\ Turn /\ Progress
      /\ wire \in Seq(FrameByte) /\ hw \in Seq(FrameByte) /\ tx_rb \in RbType(TxSize, FrameByte)
  BY DEF Shape, TypeOK
<1>2. Shape'
  BY ShapeNext
<1>3. queued \in Seq(FrameByte) /\ Len(queued) = RbUsed(tx_rb)
  BY <1>1, Constants, ContentsType
<1>4. ASSUME Stream' = Stream, Written' = Written PROVE Stream' = Written'
  BY <1>4
<1>5. ASSUME UNCHANGED <<order, count, i, tx_mutex>> PROVE Written' = Written
  BY <1>5 DEF Written, Part
<1>6. ASSUME UNCHANGED <<wire, hw, tx_rb>> PROVE Stream' = Stream
  BY <1>6 DEF Stream
<1>7. ASSUME UNCHANGED wire, HwReady, FillFifo PROVE Stream' = Stream
  <2>1. /\ hw' \in Seq(FrameByte) /\ tx_rb' \in RbType(TxSize, FrameByte)
        /\ hw' \o RbContents(tx_rb') = hw \o queued
    BY <1>1, <1>7, FillFifoMoves
  <2>2. RbContents(tx_rb') \in Seq(FrameByte)
    BY <2>1, Constants, ContentsType
  <2> DEFINE kept == RbContents(tx_rb')
             filled == hw'
  <2>3. Stream' = (wire \o filled) \o kept /\ Stream = (wire \o hw) \o queued
    BY <1>7 DEF Stream
  <2>4. filled \in Seq(FrameByte) /\ kept \in Seq(FrameByte) /\ filled \o kept = hw \o queued
    BY <2>1, <2>2
  <2> HIDE DEF queued, kept, filled
  <2>5. (wire \o filled) \o kept = wire \o (filled \o kept)
    <3>1. wire \in Seq(FrameByte) /\ filled \in Seq(FrameByte) /\ kept \in Seq(FrameByte)
      BY <1>1, <2>4
    <3> QED BY <3>1, ConcatAssociative
  <2>6. (wire \o hw) \o queued = wire \o (hw \o queued)
    <3>1. wire \in Seq(FrameByte) /\ hw \in Seq(FrameByte) /\ queued \in Seq(FrameByte)
      BY <1>1, <1>3
    <3> QED BY <3>1, ConcatAssociative
  <2> QED BY <2>3, <2>4, <2>5, <2>6
<1>8. ASSUME NEW data \in Seq(FrameByte), Stream' = Stream \o data,
             NEW w \in Writer, pc[w] # "idle", UNCHANGED <<order, count>>,
             tx_mutex' \in {w, None}, Part(Len(order))' = Part(Len(order)) \o data
      PROVE  Stream' = Written'
  <2>1. Written' = Written \o data
    BY <1>8, WrittenGrows
  <2> QED BY <1>8, <2>1
<1>9. CASE UNCHANGED vars \/ Done
  BY <1>4, <1>5, <1>6, <1>9 DEF vars, ringVars, writerVars, Done
<1>10. CASE Shift
  <2>1. /\ hw # <<>> /\ wire' = Append(wire, Head(hw)) /\ hw' = Tail(hw) /\ tx_rb' = tx_rb
        /\ UNCHANGED writerVars
    BY <1>10 DEF Shift
  <2>2. Append(wire, Head(hw)) \o Tail(hw) = wire \o hw
    BY <1>1, <2>1, HeadMoves
  <2>3. Stream' = Stream
    BY <2>1, <2>2 DEF Stream
  <2> QED BY <1>4, <1>5, <2>1, <2>3 DEF writerVars
<1>11. CASE IsrEnter \/ IsrEmpty \/ IsrFifoFull
  BY <1>4, <1>5, <1>6, <1>11 DEF IsrEnter, IsrEmpty, IsrFifoFull, writerVars
<1>12. CASE IsrFill
  BY <1>4, <1>5, <1>7, <1>12 DEF IsrFill, writerVars
<1>13. ASSUME NEW w \in Writer, Lock(w) PROVE Stream' = Written'
  <2>0. PICK L \in Nat : L = Len(order)
    BY <1>1, LenProperties DEF TypeOK
  <2> DEFINE parts == [n \in 1 .. L |-> Part(n)]
  <2>1. /\ tx_mutex = None /\ tx_mutex' = w /\ count' = [count EXCEPT ![w] = count[w] + 1]
        /\ order' = Append(order, <<w, count[w] + 1>>) /\ i' = [i EXCEPT ![w] = 0]
        /\ UNCHANGED <<tx_rb, hw, wire>>
    BY <1>13 DEF Lock
  <2>2. /\ Len(order') = L + 1 /\ order'[L + 1] = <<w, count[w] + 1>>
        /\ \A n \in 1 .. L : order'[n] = order[n]
    <3>1. order \in Seq(Writer \X Nat) /\ <<w, count[w] + 1>> \in Writer \X Nat
      BY <1>1 DEF TypeOK
    <3> QED BY <2>0, <2>1, <3>1, AppendProperties
  <2>3. /\ count'[w] = count[w] + 1 /\ i'[w] = 0 /\ count[w] \in Nat
        /\ \A v \in Writer : v # w => count'[v] = count[v] /\ i'[v] = i[v]
    BY <1>1, <2>1 DEF TypeOK
  <2>4. ASSUME NEW n \in 1 .. L PROVE Part(n)' = Part(n)
    <3>1. order[n] \in Writer \X Nat /\ order[n][2] \in 1 .. count[order[n][1]]
      BY <2>0, PartValue DEF Shape, BegunOnce
    <3>2. ~(tx_mutex = order[n][1] /\ count[order[n][1]] = order[n][2])
      BY <2>1, <3>1, Constants
    <3>3. ~(tx_mutex' = order[n][1] /\ count'[order[n][1]] = order[n][2])
      BY <2>1, <2>3, <3>1
    <3>4. order'[n] = order[n]
      BY <2>2
    <3> QED BY <3>2, <3>3, <3>4 DEF Part, FrameLen
  <2>5. \A n \in Nat : n = L + 1 => Part(n)' = <<>>
    <3>1. order'[L + 1][1] = w /\ order'[L + 1][2] = count'[w] /\ tx_mutex' = w
      BY <2>1, <2>2, <2>3
    <3>2. FrameBytes(w, count'[w], 1, 0) = <<>>
      BY DEF FrameBytes
    <3> QED BY <2>3, <3>1, <3>2 DEF Part
  <2>6. parts \in Seq(Seq(FrameByte)) /\ Len(parts) = L
    <3>1. \A n \in 1 .. L : Part(n) \in Seq(FrameByte)
      BY <2>0, PartValue
    <3>2. parts \in [1 .. L -> Seq(FrameByte)]
      BY <3>1
    <3> HIDE DEF parts
    <3>3. parts \in Seq(Seq(FrameByte))
      BY <2>2, <3>2, SeqDef
    <3> QED BY <2>2, <3>2, <3>3, LenProperties
  <2>7. Written = FlattenSeq(parts)
    BY <2>0 DEF Written
  <2>8. Written' = FlattenSeq(Append(parts, <<>>))
    <3>1. /\ Append(parts, <<>>) \in Seq(Seq(FrameByte)) /\ Len(Append(parts, <<>>)) = L + 1
          /\ Append(parts, <<>>)[L + 1] = <<>>
          /\ \A n \in 1 .. L : Append(parts, <<>>)[n] = parts[n]
      <4>1. <<>> \in Seq(FrameByte)
        OBVIOUS
      <4> HIDE DEF parts
      <4> QED BY <2>6, <4>1, AppendProperties
    <3>2. \A n \in 1 .. L : parts[n] = Part(n)
      OBVIOUS
    <3>3. ASSUME NEW n \in 1 .. L + 1 PROVE Part(n)' = Append(parts, <<>>)[n]
      <4>1. CASE n = L + 1
        BY <4>1, <2>5, <3>1
      <4>2. CASE n # L + 1
        <5>1. n \in 1 .. L
          BY <4>2, <2>2
        <5> QED BY <5>1, <2>4, <3>1, <3>2
      <4> QED BY <4>1, <4>2
    <3>4. Written' = FlattenSeq([n \in 1 .. L + 1 |-> Part(n)'])
      BY <2>2 DEF Written
    <3> DEFINE grown == Append(parts, <<>>)
    <3> HIDE DEF parts
    <3>5. grown = [n \in 1 .. L + 1 |-> grown[n]]
      <4>1. grown \in Seq(Seq(FrameByte)) /\ Len(grown) = L + 1
        BY <3>1
      <4> HIDE DEF grown
      <4> QED BY <4>1, LenProperties
    <3>6. [n \in 1 .. L + 1 |-> Part(n)'] = [n \in 1 .. L + 1 |-> grown[n]]
      BY <3>3
    <3> QED BY <3>4, <3>5, <3>6
  <2> HIDE DEF parts
  <2>9. FlattenSeq(Append(parts, <<>>)) = FlattenSeq(parts) \o <<>>
    <3>1. <<>> \in Seq(FrameByte)
      OBVIOUS
    <3> QED BY <2>6, <3>1, FlattenAppend
  <2>10. FlattenSeq(parts) \o <<>> = FlattenSeq(parts)
    <3>1. FlattenSeq(parts) \in Seq(FrameByte)
      BY <2>6, FlattenType
    <3> QED BY <3>1, ConcatEmptySeq
  <2> QED BY <1>4, <1>6, <2>1, <2>7, <2>8, <2>9, <2>10
<1>14. ASSUME NEW w \in Writer, Enqueue(w) PROVE Stream' = Written'
  <2>1. pc[w] = "enqueue" /\ UNCHANGED <<hw, wire, tx_mutex, count, order>>
    BY <1>14 DEF Enqueue, At
  <2>2. PICK chunk \in Nat, data \in Seq(FrameByte) :
          /\ Continues(data, w, count[w], i[w])
          /\ Len(data) = chunk
          /\ tx_rb' = RbWrite(tx_rb, data)
          /\ RbWritten(tx_rb, data) \in 0 .. chunk
          /\ i' = [i EXCEPT ![w] = @ + RbWritten(tx_rb, data)]
    BY <1>14, <2>1, EnqueuePiece
  <2> DEFINE n == RbWritten(tx_rb, data)
             piece == SubSeq(data, 1, n)
  <2>3. RbContents(tx_rb') = queued \o piece
    BY <1>1, <2>2, Constants, WriteContents
  <2>4. n \in Nat /\ n <= chunk /\ piece \in Seq(FrameByte)
    <3>1. n \in Nat /\ n <= chunk
      BY <2>2
    <3> HIDE DEF n
    <3>2. SubSeq(data, 1, n) \in Seq(FrameByte)
      BY <2>2, <3>1
    <3> QED BY <3>1, <3>2
  <2>5. Stream' = Stream \o piece
    <3>1. Stream = (wire \o hw) \o queued /\ Stream' = (wire \o hw) \o (queued \o piece)
      BY <2>1, <2>3 DEF Stream
    <3> DEFINE sent == wire \o hw
    <3> HIDE DEF queued, piece
    <3>2. sent \in Seq(FrameByte) /\ queued \in Seq(FrameByte) /\ piece \in Seq(FrameByte)
      BY <1>1, <1>3, <2>4, ConcatProperties
    <3> HIDE DEF sent
    <3>3. (sent \o queued) \o piece = sent \o (queued \o piece)
      BY <3>2, ConcatAssociative
    <3> QED BY <3>1, <3>3 DEF sent
  <2>6. pc[w] # "idle" /\ pc'[w] # "idle"
    BY <1>1, <1>14, <2>1 DEF Enqueue, Goto, TypeOK
  <2>7. count[w] \in Nat /\ i[w] \in Nat /\ i'[w] = i[w] + n
    BY <1>1, <2>2 DEF TypeOK
  <2>8. Part(Len(order)) = FrameBytes(w, count[w], 1, i[w])
    BY <2>6, LastPart
  <2>9. Part(Len(order))' = FrameBytes(w, count[w], 1, i[w] + n)
    <3>1. /\ tx_mutex' = w /\ order' = order /\ count' = count
          /\ order[Len(order)] = <<w, count[w]>>
      BY <1>1, <2>1, <2>6, OneWriter
    <3> HIDE DEF n
    <3> QED BY <2>7, <3>1 DEF Part
  <2>10. FrameBytes(w, count[w], 1, i[w]) \o piece = FrameBytes(w, count[w], 1, i[w] + n)
    <3> DEFINE k == count[w]
               a == i[w]
    <3>1. k \in Nat /\ a \in Nat
      BY <2>7
    <3>2. n \in 0 .. Len(data)
      BY <2>2
    <3>3. Continues(data, w, k, a)
      BY <2>2
    <3> HIDE DEF k, a, n
    <3>4. FrameBytes(w, k, 1, a) \o SubSeq(data, 1, n) = FrameBytes(w, k, 1, a + n)
      BY <3>1, <3>2, <3>3, FrameBytesJoin
    <3> QED BY <3>4 DEF k, a
  <2> HIDE DEF piece, n
  <2> QED BY <1>8, <2>1, <2>4, <2>5, <2>6, <2>8, <2>9, <2>10, <1>1, OneWriter
<1>15. ASSUME NEW w \in Writer, Prime(w) PROVE Stream' = Written'
  <2>1. UNCHANGED <<order, count, i, tx_mutex, wire>>
    BY <1>15 DEF Prime
  <2>2. (HwReady /\ FillFifo) \/ UNCHANGED <<hw, tx_rb>>
    BY <1>15 DEF Prime
  <2> QED BY <1>4, <1>5, <1>6, <1>7, <2>1, <2>2
<1>16. ASSUME NEW w \in Writer, Enable(w) \/ Wake(w) \/ DrainWait(w) \/ DrainEnd(w)
       PROVE  Stream' = Written'
  BY <1>4, <1>5, <1>6, <1>16 DEF Enable, Wake, DrainWait, DrainEnd, ringVars
<1>17. ASSUME NEW w \in Writer, Unlock(w) PROVE Stream' = Written'
  <2>1. /\ pc[w] = "unlock" /\ tx_mutex' = None /\ UNCHANGED <<wire, hw, tx_rb, count, i, order>>
    BY <1>17 DEF Unlock, At, ringVars
  <2>2. i[w] = CurLen(w)
    BY <1>1, <2>1 DEF Progress
  <2>3. order[Len(order)] = <<w, count[w]>> /\ Len(order) \in Nat /\ Len(order) > 0
    BY <1>1, <2>1, OneWriter, LastPart
  <2>4. \A n \in 1 .. Len(order) - 1 : Part(n)' = Part(n)
    BY <2>1, EarlierParts
  <2>5. ASSUME NEW n \in 1 .. Len(order) PROVE Part(n)' = Part(n)
    <3>1. CASE n = Len(order)
      BY <2>1, <2>2, <2>3, <3>1, Constants DEF Part, CurLen, FrameLen
    <3>2. CASE n # Len(order)
      <4>1. n \in 1 .. Len(order) - 1
        BY <2>3, <3>2
      <4> QED BY <2>4, <4>1
    <3> QED BY <3>1, <3>2
  <2>6. Written' = Written
    <3>1. Written' = FlattenSeq([n \in 1 .. Len(order) |-> Part(n)'])
      BY <2>1 DEF Written
    <3>2. [n \in 1 .. Len(order) |-> Part(n)'] = [n \in 1 .. Len(order) |-> Part(n)]
      BY <2>5
    <3> QED BY <3>1, <3>2 DEF Written
  <2> QED BY <1>4, <1>6, <2>1, <2>6
<1>18. ASSUME NEW w \in Writer, PollOut(w) PROVE Stream' = Written'
  <2> DEFINE byte == <<w, count[w], i[w] + 1>>
  <2>1. /\ pc[w] = "poll" /\ hw' = Append(hw, byte) /\ i' = [i EXCEPT ![w] = @ + 1]
        /\ UNCHANGED <<wire, tx_rb, tx_mutex, count, order>>
    BY <1>18 DEF PollOut, At
  <2>2. queued = <<>>
    <3>1. RbUsed(tx_rb) = 0
      BY <2>1 DEF Drained
    <3> QED BY <1>3, <3>1
  <2>3. count[w] \in Nat /\ i[w] \in Nat /\ i'[w] = i[w] + 1
    BY <1>1, <2>1 DEF TypeOK
  <2>5. byte \in FrameByte
    BY <2>3 DEF FrameByte
  <2>6. <<byte>> \in Seq(FrameByte)
    <3> HIDE DEF byte
    <3> QED BY <2>5
  <2>7. Stream' = Stream \o <<byte>>
    <3>1. Stream = (wire \o hw) \o <<>> /\ Stream' = (wire \o Append(hw, byte)) \o <<>>
      BY <2>1, <2>2 DEF Stream
    <3> HIDE DEF byte
    <3>2. Append(hw, byte) = hw \o <<byte>>
      BY <1>1, <2>5, AppendIsConcat
    <3>3. /\ hw \o <<byte>> \in Seq(FrameByte) /\ wire \o hw \in Seq(FrameByte)
          /\ wire \o (hw \o <<byte>>) \in Seq(FrameByte)
      BY <1>1, <2>6, ConcatProperties
    <3>4. wire \o (hw \o <<byte>>) = (wire \o hw) \o <<byte>>
      BY <1>1, <2>6, ConcatAssociative
    <3> QED BY <3>1, <3>2, <3>3, <3>4, ConcatEmptySeq
  <2>8. pc[w] # "idle"
    BY <2>1
  <2>9. Part(Len(order)) = FrameBytes(w, count[w], 1, i[w])
    BY <2>8, LastPart
  <2>10. Part(Len(order))' = FrameBytes(w, count[w], 1, i[w] + 1)
    <3>1. /\ tx_mutex' = w /\ order' = order /\ count' = count
          /\ order[Len(order)] = <<w, count[w]>>
      BY <1>1, <2>1, <2>8, OneWriter
    <3> QED BY <2>3, <3>1 DEF Part
  <2>11. FrameBytes(w, count[w], 1, i[w]) \o <<byte>> = FrameBytes(w, count[w], 1, i[w] + 1)
    <3> DEFINE k == count[w]
               a == i[w]
               b == <<byte>>
    <3>1. k \in Nat /\ a \in Nat
      BY <2>3
    <3>2. b \in Seq(FrameByte) /\ Len(b) = 1 /\ b[1] = <<w, k, a + 1>>
      BY <2>6
    <3>3. SubSeq(b, 1, 1) = b
      <4> HIDE DEF b
      <4> QED BY <3>2, SubSeqFull
    <3> HIDE DEF k, a, b
    <3>4. 1 \in 0 .. Len(b) /\ Continues(b, w, k, a)
      BY <3>1, <3>2 DEF Continues
    <3>5. FrameBytes(w, k, 1, a) \o SubSeq(b, 1, 1) = FrameBytes(w, k, 1, a + 1)
      BY <3>1, <3>2, <3>4, FrameBytesJoin
    <3> QED BY <3>3, <3>5 DEF k, a, b
  <2> HIDE DEF byte
  <2> QED BY <1>8, <2>1, <2>6, <2>7, <2>8, <2>9, <2>10, <2>11, <1>1, OneWriter
<1> QED BY <1>9, <1>10, <1>11, <1>12, <1>13, <1>14, <1>15, <1>16, <1>17, <1>18
     DEF Next, Isr, Write

-----------------------------------------------------------------------------
(* The theorems.                                                           *)

TxIInv == Shape /\ NeverStranded /\ Budget /\ Drained /\ DrainedInTime /\ WireInOrder

\* The invariant of the transmit path.
LEMMA TxInvariance == Spec => []TxIInv
<1>1. Init => TxIInv
  BY ShapeInit, StrandedInit, BudgetInit, WireInit DEF TxIInv
<1>2. TxIInv /\ [Next]_vars => TxIInv'
  <2> SUFFICES ASSUME TxIInv, [Next]_vars PROVE TxIInv'
    OBVIOUS
  <2>1. Shape' /\ NeverStranded'
    BY ShapeNext, StrandedNext DEF TxIInv
  <2>2. Budget' /\ Drained' /\ DrainedInTime'
    BY BudgetNext DEF TxIInv
  <2>3. WireInOrder'
    <3> SUFFICES ASSUME ~overtook' PROVE Stream' = Written'
      BY DEF WireInOrder
    <3>1. ~overtook
      BY HistoryGrows DEF TxIInv
    <3> QED BY <3>1, WireNext DEF TxIInv, WireInOrder
  <2> QED BY <2>1, <2>2, <2>3 DEF TxIInv
<1> QED BY <1>1, <1>2, PTL DEF Spec

\* Bytes put in tx_rb have an interrupt, or a thread about to enable it, that
\* will move them on, or a polled frame has given up waiting for them.
THEOREM NothingStranded == Spec => []NeverStranded
<1>1. TxIInv => NeverStranded
  BY DEF TxIInv
<1> QED BY <1>1, TxInvariance, PTL

\* The line, the FIFO and tx_rb together hold the frames written, whole and in
\* the order their writers got tx_mutex, until a polled frame has overtaken
\* what was in tx_rb.
THEOREM FramesInOrder == Spec => []WireInOrder
<1>1. TxIInv => WireInOrder
  BY DEF TxIInv
<1> QED BY <1>1, TxInvariance, PTL

\* And no polled frame does before one has found more bytes yet to be sent than
\* it waits milliseconds: "wait for any pending ISR-driven TX to drain"
\* (serial_async.c:110) is kept exactly that far.
THEOREM DrainsInTime == Spec => []DrainedInTime
<1>1. TxIInv => DrainedInTime
  BY DEF TxIInv
<1> QED BY <1>1, TxInvariance, PTL
=============================================================================
