--------------------------- MODULE MCStreamParser ---------------------------
(* Every byte string over three symbols, read by both sides.               *)
EXTENDS HostDecode

MCByte == 0 .. 2
MCMagic == <<2, 1>>
\* A checksum that depends on the order of the bytes and fits in a symbol.
MCCrc(s) ==
  LET acc[i \in 0 .. Len(s)] == IF i = 0 THEN 1 ELSE (2 * acc[i-1] + s[i]) % 3
  IN  acc[Len(s)]

\* What TLC tells states apart by: hdr, pbuf and the lengths and sums are dead
\* in state 0 (the next header overwrites them before they are read).
Live == <<state, magic_acc, delivered, seg, ended,
          IF state = 0 THEN <<>> ELSE parser>>
=============================================================================
