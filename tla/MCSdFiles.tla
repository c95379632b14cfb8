----------------------------- MODULE MCSdFiles ------------------------------
EXTENDS SdFiles

\* Requests on the files a and big, and on names that join_path makes theirs.
A == <<"/", "a">>
ALong == <<"a", "x">>
Big == <<"/", "big">>
BigRelative == <<"big">>
W(i) == <<"w", i>>

R(op, name) == [op |-> op, name |-> name, to |-> A, off |-> 0, len |-> 0,
                data |-> <<>>, seed |-> 0, nul |-> TRUE]
Write(name, off, len, data) ==
  [R("write", name) EXCEPT !.off = off, !.len = len, !.data = data]

MCRequest ==
  {Write(A, 0, 2, <<W(1), W(2)>>), Write(A, 1, 1, <<W(3)>>), Write(ALong, 0, 1, <<W(3)>>),
   \* longer than it says, longer than sd_dma_buf, and past 2^32
   Write(Big, 0, 2, <<W(1)>>), Write(Big, 0, 3, <<W(1), W(2), W(3)>>), Write(A, 0, 12, <<W(1)>>),
   [R("fill", Big) EXCEPT !.len = 3], [R("fill", BigRelative) EXCEPT !.len = 1, !.seed = 7],
   R("fill", A),
   [R("rename", A) EXCEPT !.to = Big], R("rename", Big),
   [R("read", A) EXCEPT !.len = 3], [R("read", Big) EXCEPT !.off = 1, !.len = 9],
   [R("peek", Big) EXCEPT !.len = 9], [R("stat", A) EXCEPT !.nul = FALSE],
   R("list", <<"/">>), R("list", Big), R("delete", A), R("delete", Big), R("mkdir", Big),
   R("stat", Big), R("checksum", Big), R("checksum", BigRelative),
   [R("rawread", A) EXCEPT !.off = 5], [R("rawread", A) EXCEPT !.nul = FALSE]}
=============================================================================
