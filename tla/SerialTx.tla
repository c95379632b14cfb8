------------------------------ MODULE SerialTx ------------------------------
(***************************************************************************)
(* The transmit path of app/src/platform/serial_async.c: threads call      *)
(* platform_serial_write with whole frames, tx_mutex serialises them,      *)
(* tx_rb and the UART's transmit FIFO carry the bytes, uart_isr refills    *)
(* the FIFO.  Each section under irq_lock is one step; the ISR may run     *)
(* between any two of them.  Frames of 2 * TX_BUF_SZ bytes and more bypass *)
(* tx_rb and are written to the UART by polling.                           *)
(***************************************************************************)
EXTENDS RingBuffer, SequencesExt

CONSTANTS
  Writer,    \* threads that call platform_serial_write
  None,      \* tx_mutex has no owner
  Frames,    \* Frames[w]: lengths of the frames w writes, in order
  TxSize,    \* TX_BUF_SZ
  Chunk,     \* bytes copied under one irq_lock, and limit of one FIFO fill
  HwDepth,   \* bytes the UART's transmit FIFO holds (external)
  MaxSpins   \* 1 ms waits for tx_rb to drain before a polled frame

ASSUME SerialTxAssumption ==
  /\ None \notin Writer
  /\ Frames \in [Writer -> Seq(Nat \ {0})]
  /\ TxSize \in Nat \ {0, 1} /\ Chunk \in Nat \ {0} /\ HwDepth \in Nat \ {0}
  /\ MaxSpins \in Nat

VARIABLES
  tx_rb, tx_mutex,
  tx_irq,   \* is the TX interrupt enabled?
  in_isr,   \* is uart_isr in its transmit loop?
  hw,       \* bytes in the UART's transmit FIFO
  wire,     \* every byte the UART has sent
  pc,       \* where in platform_serial_write each writer is
  count,    \* frames each writer has begun
  i,        \* bytes of the current frame handed on
  enq,      \* result of the last rb_write
  spins,    \* waits done for tx_rb to drain
  shifted,  \* did the UART send a byte since the last 1 ms wait began?
  order,    \* history: frames in the order their writers got tx_mutex
  backlog,  \* history: the most bytes a polled frame has found before it
  overtook, \* history: has a polled frame begun with bytes still in tx_rb?
  stranded  \* history: has tx_irq been off since the last such frame began?

ringVars == <<tx_rb, tx_irq, in_isr, hw, wire, shifted>>
writerVars == <<tx_mutex, pc, count, i, enq, spins, order>>
drainVars == <<backlog, overtook, stranded>>
vars == <<ringVars, writerVars, drainVars>>

FrameLen(w, k) == Frames[w][k]
CurLen(w) == FrameLen(w, count[w])

\* The n-th byte of frame f of writer w, told apart from every other byte.
FrameBytes(w, k, from, to) == [n \in 1 .. (to + 1) - from |->
                                  <<w, k, from + n - 1>>]

Polled(len) == len >= 2 * TxSize

\* Bytes that have yet to be sent.
Pending == RbUsed(tx_rb) + Len(hw)

Larger(a, b) == IF a < b THEN b ELSE a

\* uart_irq_tx_ready: there is room in the FIFO.
HwReady == Len(hw) < HwDepth

\* The interrupt that makes uart_isr feed the FIFO.
IsrPending == tx_irq /\ HwReady /\ ~in_isr

Init ==
  /\ tx_rb = RbInit(TxSize, <<None, 0, 0>>) /\ tx_mutex = None
  /\ tx_irq = FALSE /\ in_isr = FALSE /\ hw = <<>> /\ wire = <<>>
  /\ pc = [w \in Writer |-> "idle"]
  /\ count = [w \in Writer |-> 0]
  /\ i = [w \in Writer |-> 0] /\ enq = [w \in Writer |-> 0]
  /\ spins = [w \in Writer |-> 0]
  /\ shifted = FALSE /\ order = <<>>
  /\ backlog = 0 /\ overtook = FALSE /\ stranded = FALSE

-----------------------------------------------------------------------------
(* The UART and uart_isr.                                                  *)

\* The transmitter sends the oldest byte of its FIFO.
Shift ==
  /\ hw # <<>>
  /\ wire' = Append(wire, Head(hw)) /\ hw' = Tail(hw)
  /\ shifted' = TRUE
  /\ UNCHANGED <<tx_rb, tx_irq, in_isr, writerVars, drainVars>>

IsrEnter ==
  /\ IsrPending
  /\ in_isr' = TRUE
  /\ UNCHANGED <<tx_rb, tx_irq, hw, wire, shifted, writerVars, drainVars>>

\* Mutant: the ring gives up what it offered, not what the FIFO took.
FillFifoConsumeAll ==
  LET run == RbPeekContig(tx_rb)
      n == MinSize(MinSize(Len(run), Chunk), HwDepth - Len(hw))
  IN  /\ hw' = hw \o SubSeq(run, 1, n)
      /\ tx_rb' = RbConsume(tx_rb, MinSize(Len(run), Chunk))

\* Mutant: the FIFO takes more than it holds.
FillFifoOverrun ==
  LET run == RbPeekContig(tx_rb)
      n == MinSize(Len(run), Chunk)
  IN  /\ hw' = hw \o SubSeq(run, 1, n)
      /\ tx_rb' = RbConsume(tx_rb, n)

\* Move what is readable without wrapping, at most Chunk bytes and at most
\* what the FIFO takes, from tx_rb to the FIFO.
FillFifo ==
  LET run == RbPeekContig(tx_rb)
      n == MinSize(MinSize(Len(run), Chunk), HwDepth - Len(hw))
  IN  /\ hw' = hw \o SubSeq(run, 1, n)
      /\ tx_rb' = RbConsume(tx_rb, n)

IsrFill ==
  /\ in_isr /\ HwReady /\ RbUsed(tx_rb) > 0
  /\ FillFifo
  /\ UNCHANGED <<tx_irq, in_isr, wire, shifted, writerVars, drainVars>>

\* Nothing left to send: the ISR turns its own interrupt off.
IsrEmpty ==
  /\ in_isr /\ HwReady /\ RbUsed(tx_rb) = 0
  /\ tx_irq' = FALSE /\ in_isr' = FALSE
  /\ UNCHANGED <<tx_rb, hw, wire, shifted, writerVars, drainVars>>

\* Mutant: the ISR turns its interrupt off when the FIFO is full.
IsrFifoFullDisable ==
  /\ in_isr /\ ~HwReady
  /\ in_isr' = FALSE /\ tx_irq' = FALSE
  /\ UNCHANGED <<tx_rb, hw, wire, shifted, writerVars, drainVars>>

IsrFifoFull ==
  /\ in_isr /\ ~HwReady
  /\ in_isr' = FALSE
  /\ UNCHANGED <<tx_rb, tx_irq, hw, wire, shifted, writerVars, drainVars>>

Isr == IsrEnter \/ IsrFill \/ IsrEmpty \/ IsrFifoFull

-----------------------------------------------------------------------------
(* platform_serial_write.  A thread runs only outside the ISR.             *)
At(w, label) == pc[w] = label /\ ~in_isr
Goto(w, label) == pc' = [pc EXCEPT ![w] = label]

Lock(w) ==
  /\ At(w, "idle") /\ tx_mutex = None
  /\ count[w] < Len(Frames[w])
  /\ tx_mutex' = w
  /\ count' = [count EXCEPT ![w] = @ + 1]
  /\ order' = Append(order, <<w, count[w] + 1>>)
  /\ i' = [i EXCEPT ![w] = 0] /\ spins' = [spins EXCEPT ![w] = 0]
  /\ shifted' = FALSE
  /\ IF Polled(FrameLen(w, count[w] + 1))
     THEN Goto(w, "drain") /\ backlog' = Larger(backlog, Pending)
     ELSE Goto(w, "enqueue") /\ UNCHANGED backlog
  /\ UNCHANGED <<tx_rb, tx_irq, in_isr, hw, wire, enq, overtook, stranded>>

Enqueue(w) ==
  LET chunk == MinSize(CurLen(w) - i[w], Chunk)
      data == FrameBytes(w, count[w], i[w] + 1, i[w] + chunk)
  IN  /\ At(w, "enqueue")
      /\ tx_rb' = RbWrite(tx_rb, data)
      /\ enq' = [enq EXCEPT ![w] = RbWritten(tx_rb, data)]
      /\ i' = [i EXCEPT ![w] = @ + RbWritten(tx_rb, data)]
      /\ Goto(w, "prime")
      /\ UNCHANGED <<tx_irq, in_isr, hw, wire, shifted, tx_mutex, count, spins, order,
                     drainVars>>

\* The thread itself feeds the FIFO, unless the driver says it is not ready
\* (which some drivers also do while the TX interrupt is off).
Prime(w) ==
  /\ At(w, "prime")
  /\ \/ HwReady /\ RbUsed(tx_rb) > 0 /\ FillFifo
     \/ UNCHANGED <<hw, tx_rb>>
  /\ Goto(w, "enable")
  /\ UNCHANGED <<tx_irq, in_isr, wire, shifted, tx_mutex, count, i, enq, spins, order,
                 drainVars>>

\* Mutant: the interrupt is enabled only while the frame has bytes left.
EnableIfMore(w) ==
  /\ At(w, "enable")
  /\ tx_irq' = (tx_irq \/ i[w] # CurLen(w)) /\ stranded' = (stranded /\ ~tx_irq')
  /\ Goto(w, IF i[w] = CurLen(w) THEN "unlock"
             ELSE IF enq[w] = 0 THEN "sleep" ELSE "enqueue")
  /\ UNCHANGED <<tx_rb, in_isr, hw, wire, shifted, tx_mutex, count, i, enq, spins, order,
                 backlog, overtook>>

\* uart_irq_tx_enable, then round the loop, through a sleep if tx_rb was full.
Enable(w) ==
  /\ At(w, "enable")
  /\ tx_irq' = TRUE /\ stranded' = FALSE
  /\ Goto(w, IF i[w] = CurLen(w) THEN "unlock"
             ELSE IF enq[w] = 0 THEN "sleep" ELSE "enqueue")
  /\ UNCHANGED <<tx_rb, in_isr, hw, wire, shifted, tx_mutex, count, i, enq, spins, order,
                 backlog, overtook>>

Wake(w) ==
  /\ At(w, "sleep")
  /\ Goto(w, "enqueue")
  /\ UNCHANGED <<ringVars, tx_mutex, count, i, enq, spins, order, drainVars>>

Unlock(w) ==
  /\ At(w, "unlock")
  /\ tx_mutex' = None
  /\ Goto(w, "idle")
  /\ UNCHANGED <<ringVars, count, i, enq, spins, order, drainVars>>

-----------------------------------------------------------------------------
(* The path of polled frames.                                              *)

\* One of the waits for tx_rb to drain.  In 1 ms the UART sends at least one
\* byte if it has one, and a pending interrupt is served.
DrainWait(w) ==
  /\ At(w, "drain") /\ RbUsed(tx_rb) # 0 /\ spins[w] < MaxSpins
  /\ hw = <<>> \/ shifted
  /\ ~IsrPending
  /\ spins' = [spins EXCEPT ![w] = @ + 1]
  /\ shifted' = FALSE
  /\ UNCHANGED <<tx_rb, tx_irq, in_isr, hw, wire, tx_mutex, pc, count, i, enq, order,
                 drainVars>>

\* Mutant: no wait at all.
DrainEndAtOnce(w) ==
  /\ At(w, "drain")
  /\ tx_irq' = FALSE
  /\ stranded' = (RbUsed(tx_rb) > 0)
  /\ overtook' = (overtook \/ RbUsed(tx_rb) > 0)
  /\ Goto(w, "poll")
  /\ UNCHANGED <<tx_rb, in_isr, hw, wire, shifted, tx_mutex, count, i, enq, spins, order,
                 backlog>>

\* Mutant: what has not drained in time is dropped.
DrainEndReset(w) ==
  /\ At(w, "drain") /\ (RbUsed(tx_rb) = 0 \/ spins[w] = MaxSpins)
  /\ tx_irq' = FALSE /\ stranded' = FALSE
  /\ tx_rb' = [tx_rb EXCEPT !.tail = tx_rb.head]
  /\ overtook' = (overtook \/ RbUsed(tx_rb) > 0)
  /\ Goto(w, "poll")
  /\ UNCHANGED <<in_isr, hw, wire, shifted, tx_mutex, count, i, enq, spins, order,
                 backlog>>

\* tx_rb is empty or the waits are used up: uart_irq_tx_disable.  Only a later
\* frame that goes through tx_rb enables the interrupt again.
DrainEnd(w) ==
  /\ At(w, "drain") /\ (RbUsed(tx_rb) = 0 \/ spins[w] = MaxSpins)
  /\ tx_irq' = FALSE
  /\ stranded' = (RbUsed(tx_rb) > 0)
  /\ overtook' = (overtook \/ RbUsed(tx_rb) > 0)
  /\ Goto(w, "poll")
  /\ UNCHANGED <<tx_rb, in_isr, hw, wire, shifted, tx_mutex, count, i, enq, spins, order,
                 backlog>>

\* uart_poll_out waits for room and writes one byte to the UART.
PollOut(w) ==
  /\ At(w, "poll") /\ HwReady
  /\ hw' = Append(hw, <<w, count[w], i[w] + 1>>)
  /\ i' = [i EXCEPT ![w] = @ + 1]
  /\ Goto(w, IF i'[w] = CurLen(w) THEN "unlock" ELSE "poll")
  /\ UNCHANGED <<tx_rb, tx_irq, in_isr, wire, shifted, tx_mutex, count, enq, spins, order,
                 drainVars>>

Write(w) ==
  \/ Lock(w) \/ Enqueue(w) \/ Prime(w) \/ Enable(w) \/ Wake(w) \/ Unlock(w)
  \/ DrainWait(w) \/ DrainEnd(w) \/ PollOut(w)

Finished == \A w \in Writer : pc[w] = "idle" /\ count[w] = Len(Frames[w])

\* All frames written and all sent that will be: nothing more happens in this behaviour.
Done ==
  /\ Finished /\ hw = <<>> /\ ~tx_irq /\ ~in_isr
  /\ UNCHANGED vars

Next == Shift \/ Isr \/ Done \/ \E w \in Writer : Write(w)

Spec == Init /\ [][Next]_vars

\* The hardware shifts and interrupts on its own, and the threads, all of one
\* priority, block or sleep in every loop.
FairSpec ==
  /\ Spec
  /\ WF_vars(Shift) /\ WF_vars(Isr)
  /\ \A w \in Writer : WF_vars(Write(w))

-----------------------------------------------------------------------------
WritePc == {"idle", "enqueue", "prime", "enable", "sleep", "unlock", "drain", "poll"}
FrameByte == (Writer \cup {None}) \X Nat \X Nat

DrainTypeOK == backlog \in Nat /\ overtook \in BOOLEAN /\ stranded \in BOOLEAN

TypeOK ==
  /\ tx_rb \in RbType(TxSize, FrameByte)
  /\ tx_mutex \in Writer \cup {None}
  /\ tx_irq \in BOOLEAN /\ in_isr \in BOOLEAN /\ shifted \in BOOLEAN
  /\ hw \in Seq(FrameByte) /\ Len(hw) <= HwDepth
  /\ wire \in Seq(FrameByte)
  /\ pc \in [Writer -> WritePc]
  /\ count \in [Writer -> Nat] /\ i \in [Writer -> Nat]
  /\ enq \in [Writer -> Nat] /\ spins \in [Writer -> Nat]
  /\ order \in Seq(Writer \X Nat)
  /\ DrainTypeOK

\* Bytes waiting in tx_rb are never stranded: the interrupt that will move
\* them is on, or the thread that wrote them has yet to turn it on; or a polled
\* frame has given up waiting for them, and no frame has been put in tx_rb since.
NeverStranded ==
  RbUsed(tx_rb) > 0 =>
    tx_irq \/ stranded \/ \E w \in Writer : pc[w] \in {"prime", "enable"}

\* What has been sent, then what is in the FIFO, then what is in tx_rb.
Stream == wire \o hw \o RbContents(tx_rb)

\* What has been written of the n-th frame: all of it, unless its writer still
\* has the mutex.
Part(n) ==
  LET w == order[n][1]
      k == order[n][2]
  IN  FrameBytes(w, k, 1, IF tx_mutex = w /\ count[w] = k
                          THEN i[w] ELSE FrameLen(w, k))

\* The frames whose writers got the mutex, in that order, the last of them as
\* far as its writer has got.
Written == FlattenSeq([n \in 1 .. Len(order) |-> Part(n)])

\* Until a polled frame has overtaken what was in tx_rb, the line carries whole
\* frames, one after the other, in the order of the mutex: no byte is lost,
\* repeated or reordered, and no frame cuts another.
WireInOrder == ~overtook => Stream = Written

\* Even then each of the two paths keeps its own bytes and their order.
PathsInOrder ==
  LET Direct(b) == Polled(FrameLen(b[1], b[2]))
      Ringed(b) == ~Direct(b)
  IN  /\ SelectSeq(Stream, Direct) = SelectSeq(Written, Direct)
      /\ SelectSeq(Stream, Ringed) = SelectSeq(Written, Ringed)

\* "Wait for any pending ISR-driven TX to drain" (serial_async.c:110): no polled
\* frame overtakes what is in tx_rb until one of them has found more bytes yet
\* to be sent than it waits milliseconds.
DrainedInTime == backlog <= MaxSpins => ~overtook

\* Every write returns, and every byte written is sent, but for what a polled
\* frame has left in tx_rb and no later frame has freed.
AllSent == <>[](Finished /\ hw = <<>> /\ (RbUsed(tx_rb) = 0 \/ stranded))
=============================================================================
