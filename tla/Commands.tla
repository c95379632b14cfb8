------------------------------ MODULE Commands ------------------------------
(***************************************************************************)
(* The thread proto carrying out one command after the other: on_msg of    *)
(* app/src/app/proto_task.c, cmd_dispatch, and every handler but those of  *)
(* SD.  A fill is cut at each call of the panel's driver; start and stop   *)
(* of the doom thread are DoomTask's, whose thread runs beside.  What the  *)
(* driver, the panel and a reset do is external.                           *)
(***************************************************************************)
EXTENDS Device, SequencesExt

CONSTANT FaultyRows  \* rows in which display_write may fail: a bound of the runs

VARIABLES
  ram, screen, lit,  \* the RAMs, the panel's frame buffer, is it on?
  ready, info,       \* device_is_ready of the panel, and s_info
  doom_state, doom_ticks, thread, handler, doom_rc,
  req, pc, rc,
  at,                \* where display_fill_rgb is
  rsp, rsp_len,      \* g_rsp_buf, and the length on_msg will answer with
  sent,              \* the frames written so far
  answer,            \* to the last request, until the next comes
  before             \* history: the board when the request came, or was answered

doom == <<doom_state, doom_ticks, thread, handler, doom_rc>>
display == <<screen, lit, ready, info>>
output == <<rsp, rsp_len, sent>>
host == <<req, answer, before>>
vars == <<ram, display, doom, pc, rc, at, output, host>>

D == INSTANCE DoomTask WITH rc <- doom_rc, HostWaits <- TRUE

NoInfo == [width |-> 0, height |-> 0, format |-> "RGB565", can_read |-> FALSE, can_write |-> FALSE]

At(label) == pc = label
Runs(op) == At("run") /\ req.op = op

\* b with s copied to its start.
Put(b, s) == [i \in DOMAIN b |-> IF i \in DOMAIN s THEN s[i] ELSE b[i]]

-----------------------------------------------------------------------------
(* Pixels.                                                                 *)

\* What display_fill_rgb puts in its line for a pixel.
PixelBytes(f, c) ==
  LET Halves(px) == <<px \div 256, px % 256>>
  IN  CASE f = "RGB565" -> Halves(Pack565(c[1], c[2], c[3]))
        [] f = "BGR565" -> Halves(Pack565(c[3], c[2], c[1]))
        [] f = "ARGB8888" -> <<c[3], c[2], c[1], 255>>
        [] OTHER -> <<c[3], c[1], c[2]>>

\* What display_read_rect makes of a pixel's bytes.
ReadBack(f, px) == IF f = "ARGB8888" THEN Reverse(px) ELSE px

-----------------------------------------------------------------------------
Mode == IF ready THEN info.format ELSE "none"

\* The board, as the host can tell.
Now == [ram |-> ram, screen |-> [p \in Pixels |-> ReadBack(info.format, screen[p])],
        lit |-> lit, mode |-> Mode, doom |-> doom_state # "STOPPED"]
Seen == IF At("idle") THEN Now ELSE before

B == INSTANCE Board
       WITH ram <- Seen.ram, screen <- Seen.screen, lit <- Seen.lit, mode <- Seen.mode,
            doom <- Seen.doom

Off ==
  /\ ram = [a \in Dtcm \cup Axi |-> Unknown]
  /\ screen = [p \in Pixels |-> Unwritten(NoInfo.format)] /\ lit = FALSE
  /\ ready = FALSE /\ info = NoInfo
  /\ D!Init

\* The power comes on, which is what a reboot does.
Init ==
  /\ Off
  /\ req \in {r \in Request : r.op = "reboot"} /\ pc = "boot" /\ rc = "ok"
  /\ at = <<0, 0>> /\ rsp = [i \in 1 .. RspCap |-> Stale] /\ rsp_len = RspCap /\ sent = <<>>
  /\ before = Now /\ answer = B!NoAnswer

-----------------------------------------------------------------------------
(* on_msg and cmd_dispatch.                                                *)

\* proto finds no input and sleeps before the next request is there, so a
\* thread that was made has begun; and the host lets the doom thread end.
Rested(r) ==
  /\ thread # "created"
  /\ r.op = "doom_start" /\ doom_state = "STOPPED" => thread = "none"

\* A handler finds the whole of g_rsp_buf, and in it what earlier ones left.
Receive ==
  /\ At("idle")
  /\ \E r \in Request :
       /\ Rested(r)
       /\ req' = r
       /\ IF r.op = "unknown" THEN pc' = "reply" /\ rc' = "failed" ELSE pc' = "run" /\ rc' = "ok"
  /\ rsp' = [i \in 1 .. RspCap |-> Stale] /\ rsp_len' = RspCap /\ sent' = <<>>
  /\ before' = Now /\ answer' = B!NoAnswer
  /\ UNCHANGED <<ram, display, doom, at>>

\* Only a handler that returned 0 has its payload sent.
Reply ==
  /\ At("reply") /\ pc' = "idle"
  /\ LET eff_len == IF rc = "ok" THEN rsp_len ELSE 0
     IN  answer' = [req |-> <<req>>,
                    frames |-> Append(sent, <<req.op, SubSeq(rsp, 1, eff_len)>>)]
  /\ before' = Now
  /\ UNCHANGED <<ram, display, doom, rc, at, output, req>>

\* How handlers return: with a payload, with an error, or with neither.
Give(s) == pc' = "reply" /\ rsp' = Put(rsp, s) /\ rsp_len' = Len(s) /\ UNCHANGED <<rc, sent>>
Refuse == pc' = "reply" /\ rc' = "failed" /\ UNCHANGED output
Quiet(e) == pc' = "reply" /\ rc' = e /\ rsp_len' = 0 /\ UNCHANGED <<rsp, sent>>

-----------------------------------------------------------------------------
(* echo.c, version.c, mem.c.                                               *)

Echo ==
  /\ Runs("echo")
  /\ IF RspCap < Len(req.data) THEN Refuse ELSE Give(req.data)
  /\ UNCHANGED <<ram, display, doom, at, host>>

Version ==
  /\ Runs("version") /\ Give(Hash)
  /\ UNCHANGED <<ram, display, doom, at, host>>

MemRead ==
  /\ Runs("mem_read")
  /\ LET addr == req.args[1]  len == req.args[2]
         Cell(a) == IF a \in Flash THEN <<"flash", a>> ELSE ram[a]
     IN  IF Complete(req) /\ RspCap >= len /\ ReadAllowed(addr, len)
         THEN Give([i \in 1 .. len |-> Cell(addr + i - 1)]) ELSE Refuse
  /\ UNCHANGED <<ram, display, doom, at, host>>

MemWrite ==
  /\ Runs("mem_write")
  /\ LET addr == req.args[1]  len == req.args[2]
     IN  IF Complete(req) /\ WriteAllowed(addr, len, Len(req.data))
         THEN /\ ram' = [a \in DOMAIN ram |->
                           IF a \in Cells(addr, len) THEN req.data[a - addr + 1] ELSE ram[a]]
              /\ Quiet("ok")
         ELSE Quiet("failed") /\ UNCHANGED ram
  /\ UNCHANGED <<display, doom, at, host>>

-----------------------------------------------------------------------------
(* cmd_display.c and display.c.                                            *)

Bpp == BytesPerPixel(info.format)

\* rsp[7] is between the fields, and nobody sets it.
DispInfo ==
  /\ Runs("disp_info")
  /\ Give(<<info.width, info.height, info.format, info.can_read, info.can_write,
            rsp[6], info.width * Bpp>>)
  /\ UNCHANGED <<ram, display, doom, at, host>>

FillBegin ==
  /\ \/ /\ Runs("disp_fill")
        /\ IF Complete(req) THEN pc' = "fill" /\ UNCHANGED <<rc, output>> ELSE Refuse
     \/ Runs("disp_blank_off") /\ pc' = "fill" /\ rsp_len' = 0 /\ UNCHANGED <<rc, rsp, sent>>
  /\ at' = <<0, 0>>
  /\ UNCHANGED <<ram, display, doom, host>>

Colour == CASE req.op = "disp_fill" -> req.args [] req.op = "reboot" -> White [] OTHER -> Black

\* The pixels of one call of display_write: what is left of the row, as far as
\* line has room.
ChunkWidth ==
  LET w == IF info.width * Bpp > LineCap THEN LineCap \div Bpp ELSE info.width
  IN  IF at[1] + w <= info.width THEN w ELSE info.width - at[1]

\* Mutant: the row is not left.
NextChunkStays ==
  IF at[1] + ChunkWidth < info.width THEN <<at[1] + ChunkWidth, at[2]>> ELSE <<0, at[2]>>

\* Mutant: a row goes on at its end.
NextChunkPast ==
  IF at[1] + ChunkWidth <= info.width THEN <<at[1] + ChunkWidth, at[2]>> ELSE <<0, at[2] + 1>>

NextChunk ==
  IF at[1] + ChunkWidth < info.width THEN <<at[1] + ChunkWidth, at[2]>> ELSE <<0, at[2] + 1>>

\* display_blanking_off of the panel comes after the fill, whatever that
\* returned; so do the messages of a boot.
FillReturn(e) ==
  CASE req.op = "disp_fill" -> pc' = "reply" /\ rc' = e
    [] req.op = "reboot" -> pc' = "booted" /\ UNCHANGED rc
    [] OTHER -> pc' = "unblank" /\ UNCHANGED rc

FillChunk ==
  /\ At("fill") /\ at[2] < info.height
  /\ \/ /\ screen' = [p \in Pixels |->
                        IF p[2] = at[2] /\ p[1] \in at[1] .. at[1] + ChunkWidth - 1
                        THEN PixelBytes(info.format, Colour) ELSE screen[p]]
        /\ at' = NextChunk /\ UNCHANGED <<pc, rc>>
     \/ at[2] \in FaultyRows /\ FillReturn("failed") /\ at' = <<0, 0>> /\ UNCHANGED screen
  /\ UNCHANGED <<ram, lit, ready, info, doom, output, host>>

\* The handler of disp_fill leaves rsp_len as it was.
FillEnd ==
  /\ At("fill") /\ at[2] >= info.height
  /\ FillReturn("ok") /\ at' = <<0, 0>>
  /\ UNCHANGED <<ram, display, doom, output, host>>

Unblank ==
  /\ At("unblank")
  /\ \/ ready /\ lit' = TRUE /\ Quiet("ok")
     \/ UNCHANGED lit /\ Quiet("failed")
  /\ UNCHANGED <<ram, screen, ready, info, doom, at, host>>

BlankOn ==
  /\ Runs("disp_blank_on")
  /\ \/ ready /\ lit' = FALSE /\ Quiet("ok")
     \/ UNCHANGED lit /\ Quiet("failed")
  /\ UNCHANGED <<ram, screen, ready, info, doom, at, host>>

\* display_read: a driver that is not ready may do anything, one that is reads
\* if it can.
DriverReads == ready => info.can_read

\* Mutant: the size of the answer is not compared with the buffer's.
DispReadUnchecked ==
  /\ Runs("disp_read")
  /\ LET size == req.args[3] * req.args[4] * Bpp
     IN  \/ Refuse
         \/ /\ Complete(req) /\ size > RspCap /\ DriverReads
            /\ pc' = "lost" /\ UNCHANGED <<rc, output>>
  /\ UNCHANGED <<ram, display, doom, at, host>>

\* bytes, and need of display_read_rect, are words.  If the size has wrapped, a
\* read that succeeds, and the loop that turns ARGB8888 round, go on past the
\* end of g_rsp_buf: what follows is undefined, and the model ends there.
DispRead ==
  /\ Runs("disp_read")
  /\ LET x == req.args[1]  y == req.args[2]  w == req.args[3]  h == req.args[4]
         size == w * h * Bpp
         bytes == size % Word
         Spot(i) == <<x + (i % w), y + (i \div w)>>
         Bytes(p) == IF p \in Pixels THEN screen[p] ELSE Unwritten(info.format)
         Pixel(i) == ReadBack(info.format, Bytes(Spot(i)))
     IN  \/ /\ Complete(req) /\ bytes <= RspCap /\ size <= RspCap /\ DriverReads
            /\ rsp' = Put(rsp, [i \in 1 .. bytes |->
                                  Pixel((i - 1) \div Bpp)[((i - 1) % Bpp) + 1]])
            /\ rsp_len' = bytes /\ pc' = "reply" /\ UNCHANGED <<rc, sent>>
         \/ /\ Complete(req) /\ bytes <= RspCap /\ size > RspCap /\ DriverReads
            /\ pc' = "lost" /\ UNCHANGED <<rc, output>>
         \/ Refuse
  /\ UNCHANGED <<ram, display, doom, at, host>>

\* An id that cannot be read is an empty one.
DispGetId ==
  /\ Runs("disp_get_id")
  /\ Give(PanelId) \/ Quiet("ok")
  /\ UNCHANGED <<ram, display, doom, at, host>>

DispDiag ==
  /\ Runs("disp_diag") /\ Give(<<"text", Mode>>)
  /\ UNCHANGED <<ram, display, doom, at, host>>

-----------------------------------------------------------------------------
(* cmd_doom.c.                                                             *)

DoomCall ==
  /\ \/ Runs("doom_start") /\ D!Start
     \/ Runs("doom_stop") /\ D!Stop
  /\ pc' = "doom" /\ rsp_len' = 0
  /\ UNCHANGED <<ram, display, rc, at, rsp, sent, host>>

DoomWork ==
  /\ At("doom") /\ (D!Create \/ D!StopStore)
  /\ UNCHANGED <<ram, display, pc, rc, at, output, host>>

\* The message of a start goes out before its answer.
DoomReturn ==
  /\ At("doom") /\ handler = "idle"
  /\ pc' = "reply" /\ rc' = (IF doom_rc = 0 THEN "ok" ELSE "failed")
  /\ sent' = IF req.op = "doom_start" THEN <<B!Log("doom start")>> ELSE sent
  /\ UNCHANGED <<ram, display, doom, at, rsp, rsp_len, host>>

DoomStatus ==
  /\ Runs("doom_status") /\ Give(<<doom_state, doom_ticks>>)
  /\ UNCHANGED <<ram, display, doom, at, host>>

-----------------------------------------------------------------------------
(* reboot.c, and what main says when it is back.                           *)

Reboot ==
  /\ Runs("reboot") /\ pc' = "boot"
  /\ ram' = [a \in DOMAIN ram |-> Unknown]
  /\ screen' = [p \in Pixels |-> Unwritten(NoInfo.format)] /\ lit' = FALSE
  /\ ready' = FALSE /\ info' = NoInfo
  /\ doom_state' = "STOPPED" /\ doom_ticks' = 0 /\ thread' = "none"
  /\ handler' = "idle" /\ doom_rc' = 0
  /\ UNCHANGED <<rc, at, output, host>>

\* display_init, and the white screen of cmd_display_init.
BootDisplay ==
  /\ At("boot") /\ at' = <<0, 0>>
  /\ \/ \E f \in Formats :
          /\ info' = [width |-> Width, height |-> Height, format |-> f,
                      can_read |-> f \in Readable, can_write |-> TRUE]
          /\ screen' = [p \in Pixels |-> Unwritten(f)]
          /\ ready' = TRUE /\ lit' \in BOOLEAN /\ pc' = "fill"
     \/ pc' = "booted" /\ UNCHANGED <<screen, info, ready, lit>>
  /\ UNCHANGED <<ram, doom, rc, output, host>>

Booted ==
  /\ At("booted") /\ pc' = "idle"
  /\ answer' = [req |-> <<req>>,
                frames |-> <<B!Log(IF ready THEN "display ok" ELSE "display failed"),
                             B!Log("boot"), B!Log("ready")>>]
  /\ before' = Now
  /\ UNCHANGED <<ram, display, doom, rc, at, output, req>>

-----------------------------------------------------------------------------
Serve ==
  \/ Reply \/ Echo \/ Version \/ MemRead \/ MemWrite \/ DispInfo \/ FillBegin \/ FillChunk
  \/ FillEnd \/ Unblank \/ BlankOn \/ DispRead \/ DispGetId \/ DispDiag \/ DoomCall \/ DoomWork
  \/ DoomReturn \/ DoomStatus \/ Reboot \/ BootDisplay \/ Booted

DoomRuns == D!Doom /\ UNCHANGED <<ram, display, pc, rc, at, output, host>>

\* Nothing is said of what follows.
Lost == At("lost") /\ UNCHANGED vars

Next == Receive \/ Serve \/ DoomRuns \/ Lost

\* proto runs on in every handler, and the doom thread when proto sleeps; the
\* host need not ask.
Spec == Init /\ [][Next]_vars /\ WF_vars(Serve) /\ WF_vars(DoomRuns)

-----------------------------------------------------------------------------
TypeOK ==
  /\ DOMAIN ram = Dtcm \cup Axi /\ DOMAIN screen = Pixels
  /\ lit \in BOOLEAN /\ ready \in BOOLEAN
  /\ info.width \in {0, Width} /\ info.height \in {0, Height} /\ info.format \in Format
  /\ D!TypeOK
  /\ req \in Request /\ rc \in {"ok", "failed"}
  /\ pc \in {"idle", "run", "fill", "unblank", "doom", "boot", "booted", "reply", "lost"}
  /\ at \in (0 .. Width - 1) \X (0 .. Height)
  /\ DOMAIN rsp = 1 .. RspCap /\ rsp_len \in 0 .. RspCap

\* Every command has the effect and the answer documented for it, or the one
\* Board names where the code does otherwise, on the whole of its range or
\* rectangle and nowhere else; or it is answered with an empty frame.
ImplementsBoard == B!Spec

\* What Doom.Status reads is so, whatever other commands run meanwhile.
StateIsTrue == D!StateIsTrue

\* A stop reaches the doom thread.
StopTakesEffect == D!StopTakesEffect

\* Every command is answered, a reboot by the messages of the boot, but for a
\* rectangle whose size has wrapped.
Served == ~At("idle") ~> At("idle") \/ At("lost")

\* "Limit maximum returned bytes to avoid overrunning protocol buffers"
\* (cmd_display.c:65): the comparison is enough for every rectangle of the panel
\* if the size of the panel is a word.
PanelReadsFit ==
  At("lost") /\ 4 * Width * Height < Word =>
    ~(req.args[1] + req.args[3] <= Width /\ req.args[2] + req.args[4] <= Height)
=============================================================================
