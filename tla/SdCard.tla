------------------------------- MODULE SdCard -------------------------------
(***************************************************************************)
(* Requests to the SD commands of app/src/app/cmd_sd.c and what is on the  *)
(* card.  A name is a sequence of characters, the contents of a file a     *)
(* sequence of units.  Every path is in the root directory.                *)
(***************************************************************************)
EXTENDS Naturals, Sequences

CONSTANTS
  Request,   \* records of op, name, to, off, len, data, seed and nul
  PathCap,   \* what join_path leaves of a name
  RspCap,    \* sizeof(g_rsp_buf)
  StageCap,  \* sizeof(sd_dma_buf)
  SectorLen  \* 512

Op == {"list", "read", "peek", "write", "fill", "rename", "delete", "mkdir",
       "stat", "checksum", "rawread"}

Least(a, b) == IF a < b THEN a ELSE b

\* join_path: a leading slash goes, and what does not fit in full[128].
Join(name) ==
  LET rel == IF name # <<>> /\ name[1] = "/" THEN Tail(name) ELSE name
  IN  SubSeq(rel, 1, Least(Len(rel), PathCap))

Root == <<>>

ASSUME SdCardAssumption ==
  /\ PathCap \in Nat \ {0} /\ StageCap \in Nat /\ RspCap \in Nat /\ StageCap <= RspCap
  /\ SectorLen \in Nat
  /\ \A r \in Request :
       /\ r.op \in Op /\ r.name \in Seq(STRING) /\ r.to \in Seq(STRING)
       /\ r.off \in Nat /\ r.len \in Nat /\ r.nul \in BOOLEAN
       /\ r.data \in Seq({r.data[k] : k \in DOMAIN r.data})
       \* What the driver makes of its root directory there is left out.
       /\ r.op \in {"rename", "delete"} => Join(r.name) # Root
       /\ r.op = "rename" => Join(r.to) # Root

Path == ({Join(r.name) : r \in Request} \cup {Join(r.to) : r \in Request}) \ {Root}

Absent  == [type |-> "none", data |-> <<>>]
Dir     == [type |-> "dir", data |-> <<>>]
File(d) == [type |-> "file", data |-> d]

\* Bytes nobody wrote: what a buffer holds from before, or a damaged file.
Junk == <<"junk">>

\* A sector of the card, whatever stands in it; a request names it by off.
Sector(lba) == [i \in 1 .. SectorLen |-> <<"sector", lba, i>>]

\* do_checksum: which convention, by the spelling of the name.
UseIeee(name) == Len(name) > 1 /\ name[1] = "/" /\ name[2] = "big"

\* The xorshift generator after n steps from its seed; 0x12345678 stands
\* in for 0.
Xorshift(seed, n) == <<"x", IF seed = 0 THEN 305419896 ELSE seed, n>>

\* A line of a listing: a directory's name, or a file's name and size.
Line(p, f) ==
  IF f.type = "dir" THEN << <<"D", p>> >> ELSE << <<"F", p>>, <<"size", Len(f.data)>> >>

\* d with s in place of what stood after its first off units; off <= Len(d).
Overlay(d, off, s) ==
  SubSeq(d, 1, off) \o s \o SubSeq(d, off + Len(s) + 1, Len(d))
=============================================================================
