------------------------------- MODULE Memory -------------------------------
(***************************************************************************)
(* Which addresses lib/cmd/mem.c lets the host read and write.  Addresses  *)
(* and lengths are unsigned words, and their sums wrap.                    *)
(***************************************************************************)
EXTENDS Naturals

CONSTANTS
  Word,                  \* 2^32
  MaxLen,                \* 256
  FlashStart, FlashEnd,  \* first and last address of the flash,
  DtcmStart, DtcmEnd,    \* of the tightly coupled RAM
  AxiStart, AxiEnd       \* and of the AXI RAM

ASSUME MemoryAssumption ==
  /\ Word \in Nat \ {0} /\ MaxLen \in 0 .. Word - 1
  /\ FlashStart \in 0 .. FlashEnd /\ FlashEnd \in 0 .. Word - 1
  /\ DtcmStart \in 0 .. DtcmEnd /\ DtcmEnd \in 0 .. Word - 1
  /\ AxiStart \in 0 .. AxiEnd /\ AxiEnd \in 0 .. Word - 1
  /\ FlashEnd < DtcmStart /\ DtcmEnd < AxiStart

Flash == FlashStart .. FlashEnd
Dtcm == DtcmStart .. DtcmEnd
Axi == AxiStart .. AxiEnd

\* The addresses a request is about.
Cells(addr, len) == addr .. addr + len - 1

\* Mutant: the address after the last is taken for the last.
InRangePast(addr, len, start, end) ==
  LET last == (addr + len) % Word
  IN  \/ len = 0
      \/ start <= addr /\ addr <= end /\ addr <= last /\ last <= end

\* The last address is compared after it has wrapped, so that it is below the
\* first when it has.
InRange(addr, len, start, end) ==
  LET last == (addr + (len - 1)) % Word
  IN  \/ len = 0
      \/ start <= addr /\ addr <= end /\ addr <= last /\ last <= end

IsFlash(addr, len) == InRange(addr, len, FlashStart, FlashEnd)
IsSram(addr, len) == \/ InRange(addr, len, DtcmStart, DtcmEnd)
                     \/ InRange(addr, len, AxiStart, AxiEnd)

ReadAllowed(addr, len) == len <= MaxLen /\ (IsFlash(addr, len) \/ IsSram(addr, len))

\* held is the length of the data in the request.  An empty range counts as
\* flash, so an empty write is refused.
WriteAllowed(addr, len, held) ==
  len <= MaxLen /\ len <= held /\ IsSram(addr, len) /\ ~IsFlash(addr, len)
=============================================================================
