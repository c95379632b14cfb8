----------------------------- MODULE HostDecode -----------------------------
(***************************************************************************)
(* decode_stream of tests/pytest/fixtures/protocol.py: how the host finds  *)
(* frames in what it has read so far.  send_cmd runs it on its whole       *)
(* buffer again after each read.  The device reads the same format with    *)
(* StreamParser, whose symbols and checksum this module uses.              *)
(***************************************************************************)
EXTENDS StreamParser

FrameHead == Len(Magic) + HdrLen

\* The header that stands at i in buf, the bytes that follow it, as far as the
\* buffer has them.
HdrAt(buf, i) == SubSeq(buf, i + Len(Magic), i + FrameHead - 1)
EndAt(buf, i) == i + FrameHead + HdrLength(HdrAt(buf, i))
PayloadAt(buf, i) == SubSeq(buf, i + FrameHead, Min({EndAt(buf, i) - 1, Len(buf)}))
SumsUp(buf, i) == Crc(HdrSummed(HdrAt(buf, i)) \o PayloadAt(buf, i)) = HdrCrc(HdrAt(buf, i))
MsgAt(buf, i) == [cmd |-> HdrCmd(HdrAt(buf, i)), payload |-> PayloadAt(buf, i)]

\* Mutant: a header must be followed by something.
DecodeStreamShort(buf) ==
  LET from[i \in 1 .. Len(buf) + 1] ==
        IF i + FrameHead > Len(buf) THEN <<>>
        ELSE IF SubSeq(buf, i, i + Len(Magic) - 1) # Magic \/ HdrVersion(HdrAt(buf, i)) # Version
        THEN from[i + 1]
        ELSE IF EndAt(buf, i) > Len(buf) + 1 THEN <<>>
        ELSE IF ~SumsUp(buf, i) THEN from[i + 1]
        ELSE <<MsgAt(buf, i)>> \o from[EndAt(buf, i)]
  IN  from[1]

\* Mutant: what the buffer has of an unfinished frame is taken for a frame.
DecodeStreamEager(buf) ==
  LET from[i \in 1 .. Len(buf) + 1] ==
        IF i + FrameHead > Len(buf) + 1 THEN <<>>
        ELSE IF SubSeq(buf, i, i + Len(Magic) - 1) # Magic \/ HdrVersion(HdrAt(buf, i)) # Version
        THEN from[i + 1]
        ELSE IF ~SumsUp(buf, i) THEN from[i + 1]
        ELSE <<MsgAt(buf, i)>> \o from[Min({EndAt(buf, i), Len(buf) + 1})]
  IN  from[1]

\* The messages in buf.  The search goes on one byte further where there is no
\* magic, another version or a wrong sum, and stops at a frame the buffer does
\* not hold to its end.
DecodeStream(buf) ==
  LET from[i \in 1 .. Len(buf) + 1] ==
        IF i + FrameHead > Len(buf) + 1 THEN <<>>
        ELSE IF SubSeq(buf, i, i + Len(Magic) - 1) # Magic \/ HdrVersion(HdrAt(buf, i)) # Version
        THEN from[i + 1]
        ELSE IF EndAt(buf, i) > Len(buf) + 1 THEN <<>>
        ELSE IF ~SumsUp(buf, i) THEN from[i + 1]
        ELSE <<MsgAt(buf, i)>> \o from[EndAt(buf, i)]
  IN  from[1]

-----------------------------------------------------------------------------
\* Reading the grown buffer again never takes back or changes a message:
\* send_cmd may return with the first that suits it.
RereadingKeeps ==
  [][~ended => LET was == DecodeStream(seg)  is == DecodeStream(seg')
               IN  Len(was) <= Len(is) /\ SubSeq(is, 1, Len(was)) = was]_vars

\* A frame is found by the host where the device's parser would find it, behind
\* whatever a call that returned has left of an earlier frame, as long as no
\* magic stands in that.
SidesAgree ==
  delivered # <<>> =>
    LET n == Len(seg) - Len(Encode(delivered[1]))
    IN  (\A i \in 1 .. n : SubSeq(seg, i, i + Len(Magic) - 1) # Magic)
          => DecodeStream(seg) = delivered
=============================================================================
