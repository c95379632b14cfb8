------------------------------- MODULE Device -------------------------------
(***************************************************************************)
(* Requests to the commands other than SD's, and what they act on: memory, *)
(* the panel and the doom thread.  A request is a record: the command, its *)
(* numeric arguments in the order of docs/PROTOCOL.md, the bytes that      *)
(* follow them.                                                            *)
(***************************************************************************)
EXTENDS Memory, Sequences

CONSTANTS
  Request,
  RspCap,          \* sizeof(g_rsp_buf)
  Width, Height,   \* of the panel
  Formats,         \* the pixel formats its driver may have
  Readable,        \* those in which the driver has a read function
  LineCap,         \* sizeof(line) of display_fill_rgb
  PanelId, Hash,   \* what the panel and the build say they are
  TickMod,         \* doom_ticks counts modulo this (2^32 in the code)
  Unknown,         \* in memory and pixels nobody has written, or beside the panel
  Stale            \* in a byte of an answer no handler has set

Op == {"reboot", "echo", "version", "unknown", "mem_read", "mem_write",
       "disp_info", "disp_fill", "disp_read", "disp_get_id", "disp_blank_off",
       "disp_blank_on", "disp_diag", "doom_start", "doom_status", "doom_stop"}

Format == {"RGB565", "BGR565", "RGB888", "ARGB8888"}

Arguments(op) ==
  CASE op \in {"mem_read", "mem_write"} -> 2
    [] op = "disp_fill" -> 3
    [] op = "disp_read" -> 4
    [] OTHER -> 0

Complete(r) == Len(r.args) >= Arguments(r.op)

\* args has the words the handler reads, fewer if the payload is too short.  The
\* sides of a rectangle are half words, so its pixels can be counted in a word.
ASSUME DeviceAssumption ==
  /\ RspCap \in 1 .. Word - 1 /\ Width \in Nat \ {0} /\ Height \in Nat \ {0}
  /\ Formats \subseteq Format /\ Readable \subseteq Formats /\ LineCap \in Nat /\ LineCap >= 4
  /\ TickMod \in Nat \ {0, 1}
  /\ \A r \in Request :
       /\ r.op \in Op /\ r.args \in Seq(0 .. Word - 1) /\ Len(r.args) <= Arguments(r.op)
       /\ r.data \in Seq({r.data[i] : i \in DOMAIN r.data})
       /\ r.op = "disp_read" /\ Complete(r) => r.args[3] * r.args[4] < Word

\* What is answered with a text, a copy or fields of a fixed number fits in the
\* 64 KiB of the program; a request holds 1 KiB.
ASSUME AnswersFit ==
  /\ RspCap >= 7 /\ RspCap >= MaxLen
  /\ \A r \in Request : Len(r.data) <= RspCap
  /\ PanelId \in Seq({PanelId[i] : i \in DOMAIN PanelId}) /\ Len(PanelId) <= RspCap
  /\ Hash \in Seq({Hash[i] : i \in DOMAIN Hash}) /\ Len(Hash) <= RspCap

Pixels == (0 .. Width - 1) \X (0 .. Height - 1)
Black == <<0, 0, 0>>
White == <<255, 255, 255>>

BytesPerPixel(f) == CASE f = "RGB888" -> 3 [] f = "ARGB8888" -> 4 [] OTHER -> 2

\* A pixel nobody has painted, and one beside the panel.
Unwritten(f) == [i \in 1 .. BytesPerPixel(f) |-> Unknown]

\* 16 bits of three colours of which the first and the last keep 5 bits and
\* the other 6.
Pack565(a, g, b) == (a \div 8) * 2048 + (g \div 4) * 32 + b \div 8
=============================================================================
