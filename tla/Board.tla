------------------------------- MODULE Board --------------------------------
(***************************************************************************)
(* What the host may expect of a board behind the line: each request is    *)
(* carried out at once, with the effect and the answer docs/PROTOCOL.md    *)
(* lists for it, or is answered with an empty frame.  Ranges are sets of   *)
(* addresses here, a picture is one change of the whole panel.  Where the  *)
(* program departs from its documents, so does this module:                *)
(*   Fill:   its answer is not empty (PROTOCOL.md:48) but has the size of  *)
(*           the whole buffer;                                             *)
(*   Info:   the stride (PROTOCOL.md:47) comes a byte late, behind one no  *)
(*           handler has set;                                              *)
(*   Native: RGB888 is painted, and read, in the order B, R, G, where      *)
(*           test_display_basic.py expects R, G, B;                        *)
(*   ReadRect: a panel that is not ready may be read, and a rectangle may  *)
(*           reach beyond the panel: what is read there is Unknown.        *)
(***************************************************************************)
EXTENDS Device

VARIABLES
  ram,     \* the two RAMs, by address
  screen,  \* what a pixel reads back as
  lit,     \* is the panel on?
  mode,    \* the panel's format; "none" without a panel
  doom,    \* is the doom thread to run?
  answer   \* to the last request: the frames the device has sent

board == <<ram, screen, lit, mode, doom>>

NoAnswer == [req |-> <<>>, frames |-> <<>>]
Log(text) == <<"log", text>>

Asleep ==
  /\ ram = [a \in Dtcm \cup Axi |-> Unknown]
  /\ screen = [p \in Pixels |-> Unwritten("none")]
  /\ lit = FALSE /\ mode = "none" /\ doom = FALSE

Init == Asleep /\ answer = NoAnswer

\* The bytes of a pixel in the order in which they are read.
Native(c) ==
  LET Halves(px) == <<px \div 256, px % 256>>
  IN  CASE mode' = "ARGB8888" -> <<255, c[1], c[2], c[3]>>
        [] mode' = "RGB888" -> <<c[3], c[1], c[2]>>
        [] mode' = "BGR565" -> Halves(Pack565(c[3], c[2], c[1]))
        [] OTHER -> Halves(Pack565(c[1], c[2], c[3]))

Painted(S, c) == screen' = [p \in Pixels |-> IF p \in S THEN Native(c) ELSE screen[p]]
Panel == IF mode' = "none" THEN {} ELSE Pixels

Sent(r, frames) == answer' = [req |-> <<r>>, frames |-> frames]
Answer(r, payload) == Sent(r, << <<r.op, payload>> >>)
Nothing(r) == Answer(r, <<>>)

-----------------------------------------------------------------------------
Text(r) ==
  CASE r.op = "echo" -> r.data
    [] r.op = "version" -> Hash
    [] r.op = "disp_diag" -> <<"text", mode>>
    [] r.op = "disp_info" ->
         IF mode = "none" THEN <<0, 0, "RGB565", FALSE, FALSE, Stale, 0>>
         ELSE <<Width, Height, mode, mode \in Readable, TRUE, Stale,
                Width * BytesPerPixel(mode)>>
    [] OTHER -> <<>>

Says(r) == Answer(r, Text(r)) /\ UNCHANGED board

Cell(a) == IF a \in Flash THEN <<"flash", a>> ELSE ram[a]

\* Up to MaxLen bytes, all of one region.
Legal(r, regions) ==
  Complete(r) /\ r.args[2] <= MaxLen /\ \E R \in regions : Cells(r.args[1], r.args[2]) \subseteq R

Read(r) ==
  IF Legal(r, {Flash, Dtcm, Axi})
  THEN [i \in 1 .. r.args[2] |-> Cell(r.args[1] + i - 1)] ELSE <<>>

MemRead(r) == Answer(r, Read(r)) /\ UNCHANGED board

Written(r) ==
  IF Legal(r, {Dtcm, Axi}) /\ r.args[2] <= Len(r.data)
  THEN [a \in DOMAIN ram |->
          IF a \in Cells(r.args[1], r.args[2]) THEN r.data[a - r.args[1] + 1] ELSE ram[a]]
  ELSE ram

\* The answer does not tell a write that was refused.
MemWrite(r) ==
  /\ Nothing(r)
  /\ ram' = Written(r)
  /\ UNCHANGED <<screen, lit, mode, doom>>

Fill(r) ==
  /\ UNCHANGED <<ram, lit, mode, doom>>
  /\ \/ Answer(r, [i \in 1 .. RspCap |-> Stale]) /\ Complete(r) /\ Painted(Panel, r.args)
     \/ Nothing(r) /\ Complete(r) /\ \E S \in SUBSET Panel : Painted(S, r.args)
     \/ Nothing(r) /\ ~Complete(r) /\ UNCHANGED screen

\* The bytes of a rectangle, row by row.
Rows(r) ==
  LET n == BytesPerPixel(mode)
      Spot(k) == <<r.args[1] + (k % r.args[3]), r.args[2] + (k \div r.args[3])>>
      Bytes(p) == IF p \in Pixels THEN screen[p] ELSE Unwritten(mode)
  IN  [i \in 1 .. r.args[3] * r.args[4] * n |->
         Bytes(Spot((i - 1) \div n))[((i - 1) % n) + 1]]

\* A rectangle that fits in an answer, unless the driver cannot read.
ReadRect(r) ==
  /\ \/ /\ mode \notin Formats \ Readable /\ Complete(r)
        /\ r.args[3] * r.args[4] * BytesPerPixel(mode) <= RspCap
        /\ Answer(r, Rows(r))
     \/ Nothing(r)
  /\ UNCHANGED board

GetId(r) == (Answer(r, PanelId) \/ Nothing(r)) /\ UNCHANGED board

\* A panel that is turned on is black, as far as it takes the picture.
Blank(r) ==
  /\ Nothing(r) /\ UNCHANGED <<ram, mode, doom>>
  /\ IF r.op = "disp_blank_off"
       THEN \E S \in SUBSET Panel : Painted(S, Black)
       ELSE UNCHANGED screen
  /\ lit' \in {lit} \cup (IF mode = "none" THEN {} ELSE {r.op = "disp_blank_off"})

Doom(r) ==
  /\ CASE r.op = "doom_start" ->
            doom' = TRUE /\ Sent(r, <<Log("doom start"), <<r.op, <<>> >> >>)
       [] r.op = "doom_stop" -> doom' = FALSE /\ Nothing(r)
       [] OTHER -> /\ doom' = doom
                   /\ \E ticks \in 0 .. TickMod - 1 :
                        Answer(r, <<IF doom THEN "RUNNING" ELSE "STOPPED", ticks>>)
  /\ UNCHANGED <<ram, screen, lit, mode>>

\* No answer, but the messages of the boot.
Reboot(r) ==
  /\ Sent(r, <<Log(IF mode' = "none" THEN "display failed" ELSE "display ok"),
               Log("boot"), Log("ready")>>)
  /\ mode' \in Formats \cup {"none"} /\ lit' \in {FALSE, mode' # "none"}
  /\ ram' = [a \in DOMAIN ram |-> Unknown] /\ doom' = FALSE
  /\ \E S \in SUBSET Panel :
       screen' = [p \in Pixels |-> IF p \in S THEN Native(White) ELSE Unwritten(mode')]

-----------------------------------------------------------------------------
Ask == answer' = NoAnswer /\ UNCHANGED board

Carry(r) ==
  CASE r.op = "mem_read" -> MemRead(r)
    [] r.op = "mem_write" -> MemWrite(r)
    [] r.op = "disp_fill" -> Fill(r)
    [] r.op = "disp_read" -> ReadRect(r)
    [] r.op = "disp_get_id" -> GetId(r)
    [] r.op \in {"disp_blank_off", "disp_blank_on"} -> Blank(r)
    [] r.op \in {"doom_start", "doom_status", "doom_stop"} -> Doom(r)
    [] r.op = "reboot" -> Reboot(r)
    [] OTHER -> Says(r)

Next == Ask \/ \E r \in Request : Carry(r)

Spec == Init /\ [][Next]_<<board, answer>>
=============================================================================
