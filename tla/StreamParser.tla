---------------------------- MODULE StreamParser ----------------------------
(***************************************************************************)
(* The streaming parser of lib/protocol/protocol.c, one step per byte fed  *)
(* to proto_stream_feed.  A header field is one symbol here whatever its   *)
(* width on the wire, flags and cmd are one field (the parser only passes  *)
(* them on), and crc_acc is the sequence of bytes the accumulator has      *)
(* consumed: crc32_update and crc32_finalize are the constant Crc.         *)
(***************************************************************************)
EXTENDS Naturals, Sequences, FiniteSetsExt

CONSTANTS
  Byte,       \* symbols on the line; a symbol is its own numeric value
  Magic,      \* PROTO_MAGIC in the order its bytes arrive
  Version,    \* PROTO_VERSION
  PbufSize,   \* sizeof(pbuf)
  Crc(_),     \* checksum of a byte sequence
  MaxSeg      \* bound: bytes fed between the ends of two frames

ASSUME StreamParserAssumption ==
  /\ Byte \subseteq Nat /\ 0 \in Byte /\ Version \in Byte
  /\ PbufSize \in Nat /\ MaxSeg \in Nat
  /\ Magic \in Seq(Byte) /\ Len(Magic) > 0
  \* 0xC0 0xDE 0x42 0x17: the first byte does not occur again, none is 0
  /\ \A i \in 1 .. Len(Magic) : Magic[i] # 0 /\ (i > 1 => Magic[i] # Magic[1])

\* hdr is the header without the magic: version, command, length, checksum.
HdrLen == 4
HdrVersion(h) == h[1]
HdrCmd(h)     == h[2]
HdrLength(h)  == h[3]
HdrCrc(h)     == h[4]
HdrSummed(h)  == SubSeq(h, 1, 3)

VARIABLES
  state,        \* 0 find magic, 1 read header, 2 payload
  magic_acc,    \* the last Len(Magic) bytes seen in state 0
  hdr,          \* header bytes read so far: hdr[0 .. hdr_pos-1]
  payload_len, payload_pos, crc_expect, crc_acc,
  pbuf,         \* what is stored of the payload: at most PbufSize bytes
  delivered,    \* history: <<msg>> if the last byte fed ran the callback
  seg,          \* history: bytes fed since a frame last ended
  ended         \* history: the last byte fed ended a frame, good or bad

parser == <<state, magic_acc, hdr, payload_len, payload_pos, crc_expect,
            crc_acc, pbuf>>
vars == <<parser, delivered, seg, ended>>

NoMagic == [i \in 1 .. Len(Magic) |-> 0]

\* Mutant: a mismatch forgets the byte, even if it starts a magic.
ShiftInNaive(acc, b) ==
  IF acc[Len(acc)] = Magic[1] /\ b # Magic[2] THEN NoMagic
  ELSE Append(Tail(acc), b)

\* magic_acc = (magic_acc >> 8) | (b << 24)
ShiftIn(acc, b) == Append(Tail(acc), b)

\* A message as proto_encode puts it on the line.
Encode(msg) ==
  LET summed == <<Version, msg.cmd, Len(msg.payload)>>
  IN  Magic \o summed \o <<Crc(summed \o msg.payload)>> \o msg.payload

\* proto_stream_init; pbuf and hdr are static, zero or stale, never read
\* beyond hdr_pos and payload_pos.
Init ==
  /\ state = 0 /\ magic_acc = NoMagic /\ hdr = <<>>
  /\ payload_len = 0 /\ payload_pos = 0 /\ crc_expect = 0 /\ crc_acc = <<>>
  /\ pbuf = <<>>
  /\ delivered = <<>> /\ seg = <<>> /\ ended = TRUE

-----------------------------------------------------------------------------
\* Bookkeeping of the histories, common to all alternatives.
Record(b, msgs, end) ==
  /\ seg' = IF ended THEN <<b>> ELSE Append(seg, b)
  /\ delivered' = msgs
  /\ ended' = end

FindMagic(b) ==
  /\ state = 0
  /\ magic_acc' = ShiftIn(magic_acc, b)
  /\ IF magic_acc' = Magic THEN state' = 1 /\ hdr' = <<>>
                           ELSE UNCHANGED <<state, hdr>>
  /\ Record(b, <<>>, FALSE)
  /\ UNCHANGED <<payload_len, payload_pos, crc_expect, crc_acc, pbuf>>

HeaderByte(b) ==
  /\ state = 1 /\ Len(hdr) + 1 < HdrLen
  /\ hdr' = Append(hdr, b)
  /\ Record(b, <<>>, FALSE)
  /\ UNCHANGED <<state, magic_acc, payload_len, payload_pos, crc_expect,
                 crc_acc, pbuf>>

\* The last header byte completes a header of another version: back to the
\* search, with magic_acc still holding the magic.
BadVersion(b) ==
  /\ state = 1 /\ Len(hdr) + 1 = HdrLen
  /\ hdr' = Append(hdr, b)
  /\ HdrVersion(hdr') # Version
  /\ state' = 0
  /\ Record(b, <<>>, FALSE)
  /\ UNCHANGED <<magic_acc, payload_len, payload_pos, crc_expect, crc_acc, pbuf>>

\* The last header byte completes a header of this version.
HeaderDone(b) ==
  /\ state = 1 /\ Len(hdr) + 1 = HdrLen
  /\ hdr' = Append(hdr, b)
  /\ HdrVersion(hdr') = Version
  /\ payload_len' = HdrLength(hdr') /\ payload_pos' = 0
  /\ crc_expect' = HdrCrc(hdr') /\ crc_acc' = HdrSummed(hdr')
  /\ UNCHANGED pbuf

HeaderWithPayload(b) ==
  /\ HeaderDone(b)
  /\ HdrLength(hdr') # 0
  /\ state' = 2
  /\ Record(b, <<>>, FALSE)
  /\ UNCHANGED magic_acc

\* No payload: the frame ends with its header and is dropped or dispatched.
HeaderOnly(b) ==
  /\ HeaderDone(b)
  /\ HdrLength(hdr') = 0
  /\ state' = 0 /\ magic_acc' = NoMagic
  /\ Record(b, IF Crc(crc_acc') # crc_expect' THEN <<>>
               ELSE <<[cmd |-> HdrCmd(hdr'), payload |-> <<>>]>>, TRUE)

\* Mutant: pbuf is written whatever its size.
StorePayloadUnbounded(b) ==
  /\ state = 2
  /\ pbuf' = Append(SubSeq(pbuf, 1, payload_pos), b)
  /\ payload_pos' = payload_pos + 1
  /\ crc_acc' = Append(crc_acc, b)
  /\ UNCHANGED <<hdr, payload_len, crc_expect>>

\* pbuf keeps the first PbufSize payload bytes; the checksum takes them all.
StorePayload(b) ==
  /\ state = 2
  /\ pbuf' = IF payload_pos < PbufSize
             THEN Append(SubSeq(pbuf, 1, payload_pos), b) ELSE pbuf
  /\ payload_pos' = payload_pos + 1
  /\ crc_acc' = Append(crc_acc, b)
  /\ UNCHANGED <<hdr, payload_len, crc_expect>>

PayloadByte(b) ==
  /\ StorePayload(b)
  /\ payload_pos' # payload_len
  /\ Record(b, <<>>, FALSE)
  /\ UNCHANGED <<state, magic_acc>>

\* The callback runs only if the checksum matches and the payload fitted.
Dispatched(h, p, acc, expect, len) ==
  IF Crc(acc) = expect /\ len <= PbufSize
  THEN <<[cmd |-> HdrCmd(h), payload |-> p]>> ELSE <<>>

PayloadDone(b) ==
  /\ StorePayload(b)
  /\ payload_pos' = payload_len
  /\ state' = 0 /\ magic_acc' = NoMagic
  /\ Record(b, Dispatched(hdr, pbuf', crc_acc', crc_expect, payload_len), TRUE)

Feed(b) ==
  \/ FindMagic(b) \/ HeaderByte(b) \/ BadVersion(b)
  \/ HeaderWithPayload(b) \/ HeaderOnly(b)
  \/ PayloadByte(b) \/ PayloadDone(b)

\* The bound limits only how long the line goes without ending a frame.
Next == (ended \/ Len(seg) < MaxSeg) /\ \E b \in Byte : Feed(b)

Spec == Init /\ [][Next]_vars

-----------------------------------------------------------------------------
TypeOK ==
  /\ state \in {0, 1, 2}
  /\ magic_acc \in Seq(Byte) /\ Len(magic_acc) = Len(Magic)
  /\ hdr \in Seq(Byte) /\ Len(hdr) <= HdrLen
  /\ payload_len \in Nat /\ payload_pos \in Nat /\ crc_expect \in Nat
  /\ crc_acc \in Seq(Byte) /\ pbuf \in Seq(Byte) /\ Len(pbuf) <= PbufSize
  /\ seg \in Seq(Byte) /\ ended \in BOOLEAN
  /\ delivered \in Seq([cmd : Byte, payload : Seq(Byte)]) /\ Len(delivered) <= 1

\* First position at or after i where the magic stands in s, or 0.
MagicAt(s, i) ==
  LET at == {j \in i .. Len(s) - Len(Magic) + 1 :
               SubSeq(s, j, j + Len(Magic) - 1) = Magic}
  IN  IF at = {} THEN 0 ELSE Min(at)

\* Where the header of the frame in s starts, or 0: headers of another
\* version are skipped whole, and the search goes on after them.
HeaderAt(s) ==
  LET from[i \in 1 .. Len(s) + 1] ==
        LET h == MagicAt(s, i) + Len(Magic)
        IN  IF MagicAt(s, i) = 0 \/ h > Len(s) THEN 0
            ELSE IF s[h] = Version \/ h + HdrLen > Len(s) + 1 THEN h
            ELSE from[h + HdrLen]
  IN  from[1]

\* The messages a segment of the line delivers, by the whole-string reading.
Reference(s) ==
  LET h == HeaderAt(s)
      len == s[h + 2]
      payload == SubSeq(s, h + HdrLen, h + HdrLen + len - 1)
      sum == Crc(SubSeq(s, h, h + 2) \o payload)
  IN  IF /\ h # 0 /\ h + HdrLen <= Len(s) + 1
         /\ s[h] = Version
         /\ h + HdrLen + len = Len(s) + 1
         /\ sum = s[h + 3] /\ len <= PbufSize
      THEN <<[cmd |-> s[h + 1], payload |-> payload]>> ELSE <<>>

\* The byte-at-a-time parser delivers exactly what the whole-string reading
\* of the line delivers, in which a bad frame takes all the bytes its header
\* announces: the stale magic_acc left by BadVersion, and the header, the sums
\* and the contents of pbuf left by earlier frames, make no difference to it.
MatchesReference == delivered = Reference(seg)
=============================================================================
