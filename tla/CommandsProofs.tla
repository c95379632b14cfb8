--------------------------- MODULE CommandsProofs ---------------------------
(***************************************************************************)
(* What the range checks of Memory mean, for words and regions of any      *)
(* size; the doom thread alone, and among all other commands, through      *)
(* reboots; the types of Commands; that a rectangle of the panel is never  *)
(* read past the end of the answer; and that Commands implements Board.    *)
(***************************************************************************)
EXTENDS Commands, SequenceTheorems, TLAPS

(* The range checks.                                                       *)

Address == 0 .. Word - 1

-----------------------------------------------------------------------------
\* in_range compares one wrapped sum with four bounds, and so decides whether
\* every address asked for, none of them wrapped, is in the region (mem.c:12).
THEOREM RangeIsExact ==
  ASSUME NEW addr \in Address, NEW len \in Address,
         NEW start \in Address, NEW end \in Address
  PROVE  InRange(addr, len, start, end) <=> Cells(addr, len) \subseteq start .. end
<1> DEFINE last == (addr + (len - 1)) % Word
<1> USE MemoryAssumption DEF Address, Cells
<1>1. CASE len = 0
  BY <1>1 DEF InRange
<1>2. CASE len # 0 /\ addr + len - 1 < Word
  <2>1. last = addr + len - 1
    BY <1>2
  <2>2. addr \in Cells(addr, len) /\ addr + len - 1 \in Cells(addr, len)
    BY <1>2
  <2>3. ASSUME Cells(addr, len) \subseteq start .. end  PROVE InRange(addr, len, start, end)
    BY <1>2, <2>1, <2>2, <2>3 DEF InRange
  <2>4. ASSUME InRange(addr, len, start, end)  PROVE Cells(addr, len) \subseteq start .. end
    BY <1>2, <2>1, <2>4 DEF InRange
  <2> QED BY <2>3, <2>4
<1>3. CASE len # 0 /\ ~(addr + len - 1 < Word)
  <2>1. last = addr + len - 1 - Word
    BY <1>3
  <2>2. ~InRange(addr, len, start, end)
    BY <1>3, <2>1 DEF InRange
  <2>3. addr + len - 1 \in Cells(addr, len) /\ addr + len - 1 \notin start .. end
    BY <1>3
  <2> QED BY <2>2, <2>3
<1> QED BY <1>1, <1>2, <1>3

-----------------------------------------------------------------------------
LEMMA RegionsAre ==
  ASSUME NEW addr \in Address, NEW len \in Address
  PROVE  /\ IsFlash(addr, len) <=> Cells(addr, len) \subseteq Flash
         /\ IsSram(addr, len) <=> \/ Cells(addr, len) \subseteq Dtcm
                                  \/ Cells(addr, len) \subseteq Axi
<1>1. /\ FlashStart \in Address /\ FlashEnd \in Address
      /\ DtcmStart \in Address /\ DtcmEnd \in Address
      /\ AxiStart \in Address /\ AxiEnd \in Address
  BY MemoryAssumption DEF Address
<1>2. InRange(addr, len, FlashStart, FlashEnd) <=> Cells(addr, len) \subseteq FlashStart .. FlashEnd
  BY <1>1, RangeIsExact
<1>3. InRange(addr, len, DtcmStart, DtcmEnd) <=> Cells(addr, len) \subseteq DtcmStart .. DtcmEnd
  BY <1>1, RangeIsExact
<1>4. InRange(addr, len, AxiStart, AxiEnd) <=> Cells(addr, len) \subseteq AxiStart .. AxiEnd
  BY <1>1, RangeIsExact
<1> QED BY <1>2, <1>3, <1>4 DEF IsFlash, IsSram, Flash, Dtcm, Axi

\* Every address a write touches is RAM and none is flash, whatever address and
\* length the host sends; and a write that is refused for its range reaches past
\* one of the two RAMs or is empty (mem.c:86).
THEOREM WritesStayInRam ==
  ASSUME NEW addr \in Address, NEW len \in Address, NEW held \in Nat
  PROVE  WriteAllowed(addr, len, held)
           <=> /\ len \in 1 .. MaxLen /\ len <= held
               /\ Cells(addr, len) \subseteq Dtcm \/ Cells(addr, len) \subseteq Axi
<1> USE MemoryAssumption DEF Address
<1>1. /\ IsFlash(addr, len) <=> Cells(addr, len) \subseteq Flash
      /\ IsSram(addr, len) <=> \/ Cells(addr, len) \subseteq Dtcm
                               \/ Cells(addr, len) \subseteq Axi
  BY RegionsAre
<1>2. len = 0 => Cells(addr, len) \subseteq Flash
  BY DEF Cells
<1>3. ASSUME len # 0, Cells(addr, len) \subseteq Dtcm \/ Cells(addr, len) \subseteq Axi
      PROVE  ~(Cells(addr, len) \subseteq Flash)
  <2>1. addr \in Cells(addr, len)
    BY <1>3 DEF Cells
  <2> QED BY <1>3, <2>1 DEF Flash, Dtcm, Axi
<1> QED BY <1>1, <1>2, <1>3 DEF WriteAllowed

-----------------------------------------------------------------------------
(* The doom thread alone, for a host that lets it end before it starts it   *)
(* again.  TLC shows the opposite for other hosts (MCDoomTaskRestart.cfg).  *)

\* Between its look at doom_state and its stores a handler can rely on what it
\* saw: nobody else stops the thread, or starts it.
HandlerSure ==
  /\ handler = "create" => thread = "none"
  /\ handler = "stop" => doom_state = "RUNNING"

\* A thread on its way out has been stopped.
EndsStopped == thread = "end" => doom_state = "STOPPED"

ThreadInv == D!TypeOK /\ D!StateIsTrue /\ HandlerSure /\ EndsStopped

-----------------------------------------------------------------------------
LEMMA Waits == D!DoomTaskAssumption
  BY DeviceAssumption DEF D!DoomTaskAssumption

LEMMA ThreadInit == D!Init => ThreadInv
  BY Waits DEF D!DoomTaskAssumption, D!Init, ThreadInv, D!TypeOK, D!StateIsTrue, HandlerSure,
     EndsStopped

LEMMA ThreadStep ==
  ASSUME ThreadInv, [D!Next]_(D!vars)
  PROVE  ThreadInv'
<1> USE Waits DEF D!DoomTaskAssumption, ThreadInv, D!TypeOK, D!StateIsTrue, HandlerSure,
   EndsStopped
<1>1. CASE D!ThreadBegin
  BY <1>1 DEF D!ThreadBegin
<1>2. CASE D!LoopTurn
  <2>1. (doom_ticks + 1) % TickMod \in 0 .. TickMod - 1
    OBVIOUS
  <2> QED BY <1>2, <2>1 DEF D!LoopTurn
<1>3. CASE D!Wake
  BY <1>3 DEF D!Wake
<1>4. CASE D!ThreadEnd
  BY <1>4 DEF D!ThreadEnd
<1>5. CASE D!Start
  BY <1>5 DEF D!Start
<1>6. CASE D!Create
  BY <1>6 DEF D!Create
<1>7. CASE D!Stop
  BY <1>7 DEF D!Stop
<1>8. CASE D!StopStore
  BY <1>8 DEF D!StopStore
<1>9. CASE UNCHANGED D!vars
  BY <1>9 DEF D!vars
<1> QED
  BY <1>1, <1>2, <1>3, <1>4, <1>5, <1>6, <1>7, <1>8, <1>9 DEF D!Next, D!Doom

LEMMA ThreadInvariance == D!Spec => []ThreadInv
<1>1. D!Init => ThreadInv
  BY ThreadInit
<1>2. ThreadInv /\ [D!Next]_(D!vars) => ThreadInv'
  BY ThreadStep
<1> QED
  BY <1>1, <1>2, PTL DEF D!Spec

-----------------------------------------------------------------------------
\* Running means that the thread is in its loop, starting that it has not
\* begun, and with no thread the state is stopped, whenever doom_task_status
\* looks, for every width of the tick counter.
THEOREM ThreadStatusIsTrue == D!Spec => []D!StateIsTrue
<1>1. ThreadInv => D!StateIsTrue
  BY DEF ThreadInv
<1> QED BY <1>1, ThreadInvariance, PTL

-----------------------------------------------------------------------------
(* The doom thread on the board: what holds of it alone holds whatever the  *)
(* other commands do.                                                       *)

\* Every step is one of the doom thread's or of its handlers', leaves doom alone,
\* or is a reboot.
LEMMA DoomSteps ==
  ASSUME [Next]_vars
  PROVE  [D!Next]_doom \/ Reboot
<1> USE DEF doom
<1>1. CASE DoomRuns
  BY <1>1 DEF DoomRuns, D!Next, D!Doom, D!ThreadBegin, D!LoopTurn, D!Wake, D!ThreadEnd
<1>2. CASE DoomCall
  BY <1>2 DEF DoomCall, D!Next, D!Start, D!Stop
<1>3. CASE DoomWork
  BY <1>3 DEF DoomWork, D!Next, D!Create, D!StopStore
<1>4. CASE Receive \/ Reply \/ Echo \/ Version \/ MemRead \/ MemWrite \/ DispInfo \/ FillBegin
  BY <1>4 DEF Receive, Reply, Echo, Version, MemRead, MemWrite, DispInfo, FillBegin
<1>5. CASE FillChunk \/ FillEnd \/ Unblank \/ BlankOn \/ DispRead \/ DispGetId \/ DispDiag
  BY <1>5 DEF FillChunk, FillEnd, Unblank, BlankOn, DispRead, DispGetId, DispDiag
<1>6. CASE DoomReturn \/ DoomStatus \/ BootDisplay \/ Booted \/ Lost \/ UNCHANGED vars
  BY <1>6 DEF DoomReturn, DoomStatus, BootDisplay, Booted, Lost, vars
<1> QED
  BY <1>1, <1>2, <1>3, <1>4, <1>5, <1>6 DEF Next, Serve

LEMMA ThreadStays == Spec => []ThreadInv
<1>1. Init => ThreadInv
  BY ThreadInit DEF Init, Off, D!Init
<1>2. ThreadInv /\ [Next]_vars => ThreadInv'
  <2> SUFFICES ASSUME ThreadInv, [Next]_vars PROVE ThreadInv'
    OBVIOUS
  <2>1. CASE [D!Next]_doom
    <3>1. [D!Next]_(D!vars)
      BY <2>1 DEF doom, D!vars
    <3> QED BY <3>1, ThreadStep
  <2>2. CASE Reboot
    BY <2>2, Waits DEF Reboot, D!DoomTaskAssumption, ThreadInv, D!TypeOK, D!StateIsTrue,
       HandlerSure, EndsStopped
  <2> QED BY <2>1, <2>2, DoomSteps
<1> QED BY <1>1, <1>2, PTL DEF Spec

\* Whatever else the board does meanwhile, and however often it is started anew:
\* Doom.Status says what is so.
THEOREM StatusIsTrue == Spec => []StateIsTrue
<1>1. ThreadInv => StateIsTrue
  BY DEF ThreadInv, StateIsTrue
<1> QED BY <1>1, ThreadStays, PTL

-----------------------------------------------------------------------------
(* The types of Commands.                                                  *)

\* What display_init has found, or nothing.
Found(f) == [width |-> Width, height |-> Height, format |-> f,
             can_read |-> f \in Readable, can_write |-> TRUE]

PanelFound ==
  \/ ~ready /\ info = NoInfo
  \/ ready /\ \E f \in Formats : info = Found(f)

\* TypeOK, without the part of the doom thread.
BoardTypes ==
  /\ DOMAIN ram = Dtcm \cup Axi /\ DOMAIN screen = Pixels
  /\ lit \in BOOLEAN /\ ready \in BOOLEAN
  /\ req \in Request /\ rc \in {"ok", "failed"}
  /\ pc \in {"idle", "run", "fill", "unblank", "doom", "boot", "booted", "reply", "lost"}
  /\ at \in (0 .. Width - 1) \X (0 .. Height)
  /\ DOMAIN rsp = 1 .. RspCap /\ rsp_len \in 0 .. RspCap

Held == BoardTypes /\ PanelFound

LEMMA InfoIs ==
  ASSUME PanelFound
  PROVE  /\ info.format \in Format /\ info.width \in {0, Width} /\ info.height \in {0, Height}
         /\ info.height # 0 => info.width = Width /\ info.height = Height /\ ready
         /\ Bpp \in {2, 3, 4}
<1>1. CASE info = NoInfo
  BY <1>1 DEF NoInfo, Format, Bpp, BytesPerPixel
<1>2. CASE ready /\ \E f \in Formats : info = Found(f)
  <2>1. PICK f \in Formats : info = Found(f)
    BY <1>2
  <2>2. f \in Format
    BY DeviceAssumption
  <2>3. info.width = Width /\ info.height = Height /\ info.format = f
    BY <2>1 DEF Found
  <2> QED BY <1>2, <2>2, <2>3, DeviceAssumption DEF Bpp, BytesPerPixel, Format
<1> QED BY <1>1, <1>2 DEF PanelFound

LEMMA TypesAre == Held /\ ThreadInv => TypeOK
  BY InfoIs DEF Held, BoardTypes, ThreadInv, TypeOK

LEMMA PutKeepsDomain == \A b, s : DOMAIN Put(b, s) = DOMAIN b
  BY DEF Put

\* The three ways out of a handler leave an answer that fits.
LEMMA ReturnFits ==
  ASSUME DOMAIN rsp = 1 .. RspCap, rsp_len \in 0 .. RspCap, rc \in {"ok", "failed"},
         \/ \E s : Give(s) /\ Len(s) \in 0 .. RspCap
         \/ Refuse
         \/ \E e \in {"ok", "failed"} : Quiet(e)
  PROVE  /\ DOMAIN rsp' = 1 .. RspCap /\ rsp_len' \in 0 .. RspCap
         /\ rc' \in {"ok", "failed"} /\ pc' = "reply"
<1>1. RspCap \in Nat
  BY DeviceAssumption
<1>2. ASSUME NEW s, Give(s), Len(s) \in 0 .. RspCap
      PROVE  /\ DOMAIN rsp' = 1 .. RspCap /\ rsp_len' \in 0 .. RspCap
             /\ rc' \in {"ok", "failed"} /\ pc' = "reply"
  BY <1>2, PutKeepsDomain DEF Give
<1>3. CASE Refuse
  BY <1>3 DEF Refuse, output
<1>4. ASSUME NEW e \in {"ok", "failed"}, Quiet(e)
      PROVE  /\ DOMAIN rsp' = 1 .. RspCap /\ rsp_len' \in 0 .. RspCap
             /\ rc' \in {"ok", "failed"} /\ pc' = "reply"
  BY <1>1, <1>4 DEF Quiet
<1> QED BY <1>2, <1>3, <1>4

LEMMA RequestIs ==
  ASSUME NEW r \in Request
  PROVE  /\ r.op \in Op /\ r.args \in Seq(Nat) /\ Len(r.data) \in Nat
         /\ \A i \in 1 .. Len(r.args) : r.args[i] \in 0 .. Word - 1
<1>1. r.args \in Seq(0 .. Word - 1)
  BY DeviceAssumption
<1>2. r.args \in Seq(Nat)
  <2>1. 0 .. Word - 1 \subseteq Nat
    OBVIOUS
  <2> QED BY <1>1, <2>1, SeqMonotonic
<1>3. r.data \in Seq({r.data[i] : i \in DOMAIN r.data})
  BY DeviceAssumption
<1>4. Len(r.data) \in Nat
  BY <1>3, LenProperties
<1>5. r.op \in Op
  BY DeviceAssumption
<1>6. \A i \in 1 .. Len(r.args) : r.args[i] \in 0 .. Word - 1
  BY <1>1, ElementOfSeq
<1> QED BY <1>2, <1>4, <1>5, <1>6

LEMMA HeldInit == Init => Held
<1> SUFFICES ASSUME Init PROVE Held
  OBVIOUS
<1>1. PanelFound
  BY DEF Init, Off, PanelFound
<1>2. DOMAIN ram = Dtcm \cup Axi /\ DOMAIN screen = Pixels /\ lit \in BOOLEAN /\ ready \in BOOLEAN
  BY DEF Init, Off
<1>3. at \in (0 .. Width - 1) \X (0 .. Height) /\ rsp_len \in 0 .. RspCap
  BY DeviceAssumption DEF Init
<1> QED BY <1>1, <1>2, <1>3 DEF Init, Held, BoardTypes

\* The handlers that are one call: where they return, and what they leave alone.
LEMMA HandlersHold ==
  ASSUME Held, Echo \/ Version \/ MemRead \/ MemWrite \/ DispInfo \/ Unblank \/ BlankOn
                 \/ DispRead \/ DispGetId \/ DispDiag \/ DoomStatus
  PROVE  Held'
<1>1. /\ DOMAIN rsp = 1 .. RspCap /\ rsp_len \in 0 .. RspCap /\ rc \in {"ok", "failed"}
      /\ req \in Request /\ RspCap \in Nat /\ RspCap >= 7 /\ ready \in BOOLEAN
  BY DeviceAssumption, AnswersFit DEF Held, BoardTypes
<1>2. /\ req' = req /\ at' = at /\ ready' = ready /\ info' = info
      /\ DOMAIN ram' = DOMAIN ram /\ DOMAIN screen' = DOMAIN screen
      /\ lit' \in BOOLEAN
  <2>1. lit \in BOOLEAN
    BY DEF Held, BoardTypes
  <2>2. CASE Echo \/ Version \/ MemRead \/ DispInfo \/ DispRead \/ DispGetId
    BY <2>1, <2>2 DEF Echo, Version, MemRead, DispInfo, DispRead, DispGetId, host, display
  <2>3. CASE MemWrite
    BY <2>1, <2>3 DEF MemWrite, host, display
  <2>4. CASE Unblank \/ BlankOn \/ DispDiag \/ DoomStatus
    BY <2>1, <2>4 DEF Unblank, BlankOn, DispDiag, DoomStatus, host, display
  <2> QED BY <2>2, <2>3, <2>4
<1>3. /\ DOMAIN rsp' = 1 .. RspCap /\ rsp_len' \in 0 .. RspCap
      /\ rc' \in {"ok", "failed"} /\ pc' \in {"reply", "lost"}
  <2>1. CASE Echo
    <3>1. Len(req.data) \in Nat
      BY <1>1, RequestIs
    <3> QED BY <1>1, <2>1, <3>1, ReturnFits DEF Echo
  <2>2. CASE Version
    <3>1. Len(Hash) \in 0 .. RspCap
      BY <1>1, AnswersFit, LenProperties
    <3> QED BY <1>1, <2>2, <3>1, ReturnFits DEF Version
  <2>3. CASE MemRead
    <3> DEFINE addr == req.args[1]
               len == req.args[2]
               Cell(a) == IF a \in Flash THEN <<"flash", a>> ELSE ram[a]
               s == [i \in 1 .. len |-> Cell(addr + i - 1)]
    <3>1. (Complete(req) /\ RspCap >= len /\ Give(s)) \/ Refuse
      BY <2>3 DEF MemRead
    <3>2. Runs("mem_read")
      BY <2>3 DEF MemRead
    <3>3. ASSUME Complete(req), RspCap >= len, Give(s) PROVE Len(s) \in 0 .. RspCap
      <4>1. Len(req.args) >= 2
        BY <3>2, <3>3 DEF Complete, Arguments, Runs
      <4>2. len \in Nat
        BY <1>1, <4>1, RequestIs
      <4> HIDE DEF len, Cell
      <4>3. Len(s) = len
        BY <4>2
      <4> QED BY <1>1, <3>3, <4>2, <4>3
    <3> HIDE DEF s
    <3> QED BY <1>1, <3>1, <3>3, ReturnFits
  <2>4. CASE MemWrite
    <3>1. Quiet("ok") \/ Quiet("failed")
      BY <2>4 DEF MemWrite
    <3> QED BY <1>1, <3>1, ReturnFits
  <2>5. CASE DispInfo
    <3> DEFINE s == <<info.width, info.height, info.format, info.can_read, info.can_write,
                      rsp[6], info.width * Bpp>>
    <3>1. Give(s)
      BY <2>5 DEF DispInfo
    <3>2. Len(s) = 7
      OBVIOUS
    <3> HIDE DEF s
    <3>3. Len(s) \in 0 .. RspCap
      BY <1>1, <3>2, AnswersFit
    <3> QED BY <1>1, <3>1, <3>3, ReturnFits
  <2>6. CASE Unblank \/ BlankOn
    <3>1. Quiet("ok") \/ Quiet("failed")
      BY <2>6 DEF Unblank, BlankOn
    <3> QED BY <1>1, <3>1, ReturnFits
  <2>7. CASE DispRead
    <3> DEFINE bytes == (req.args[3] * req.args[4] * Bpp) % Word
    <3>1. CASE Refuse
      BY <1>1, <3>1, ReturnFits
    <3>2. CASE Complete(req) /\ bytes <= RspCap /\ rsp_len' = bytes /\ pc' = "reply"
               /\ (\E s : rsp' = Put(rsp, s)) /\ rc' = rc
      <4>1. Len(req.args) >= 4
        BY <2>7, <3>2 DEF DispRead, Runs, Complete, Arguments
      <4>2. req.args[3] \in Nat /\ req.args[4] \in Nat
        BY <1>1, <4>1, RequestIs
      <4>3. Bpp \in Nat
        BY InfoIs DEF Held
      <4>4. req.args[3] * req.args[4] * Bpp \in Nat
        BY <4>2, <4>3
      <4>5. bytes \in Nat
        BY <4>4, MemoryAssumption
      <4> HIDE DEF bytes
      <4> QED BY <1>1, <3>2, <4>5, PutKeepsDomain
    <3>3. CASE pc' = "lost" /\ UNCHANGED <<rc, output>>
      BY <1>1, <3>3 DEF output
    <3> QED BY <2>7, <3>1, <3>2, <3>3 DEF DispRead
  <2>8. CASE DispGetId
    <3>1. Len(PanelId) \in 0 .. RspCap
      BY <1>1, AnswersFit, LenProperties
    <3>2. Give(PanelId) \/ Quiet("ok")
      BY <2>8 DEF DispGetId
    <3> QED BY <1>1, <3>1, <3>2, ReturnFits
  <2>9. CASE DispDiag \/ DoomStatus
    <3>1. PICK a, b : Give(<<a, b>>)
      BY <2>9 DEF DispDiag, DoomStatus
    <3> DEFINE s == <<a, b>>
    <3>2. Len(s) = 2 /\ Give(s)
      BY <3>1
    <3> HIDE DEF s
    <3>3. Len(s) \in 0 .. RspCap
      BY <1>1, <3>2, AnswersFit
    <3> QED BY <1>1, <3>2, <3>3, ReturnFits
  <2> QED BY <2>1, <2>2, <2>3, <2>4, <2>5, <2>6, <2>7, <2>8, <2>9
<1> QED BY <1>1, <1>2, <1>3 DEF Held, BoardTypes, PanelFound

\* A row is written in pieces that fit in the line and end with the row.
LEMMA ChunkMoves ==
  ASSUME Held, pc = "fill", at[2] < info.height
  PROVE  NextChunk \in (0 .. Width - 1) \X (0 .. Height)
<1>1. /\ at \in (0 .. Width - 1) \X (0 .. Height) /\ info.height \in {0, Height}
      /\ Width \in Nat \ {0} /\ Height \in Nat \ {0} /\ LineCap \in Nat /\ LineCap >= 4
  BY InfoIs, DeviceAssumption DEF Held, BoardTypes
<1>2. info.height = Height /\ info.width = Width /\ Bpp \in {2, 3, 4}
  BY <1>1, InfoIs DEF Held
<1>3. at[1] \in 0 .. Width - 1 /\ at[2] \in 0 .. Height - 1
  BY <1>1, <1>2
<1> DEFINE w == IF info.width * Bpp > LineCap THEN LineCap \div Bpp ELSE info.width
<1>4. w \in Nat
  <2>1. LineCap \div Bpp \in Nat
    BY <1>1, <1>2
  <2> QED BY <1>1, <1>2, <2>1
<1> HIDE DEF w
<1>5. ChunkWidth = IF at[1] + w <= Width THEN w ELSE Width - at[1]
  BY <1>2 DEF ChunkWidth, w
<1>6. ChunkWidth \in Nat
  BY <1>1, <1>3, <1>4, <1>5
<1> QED BY <1>1, <1>2, <1>3, <1>6 DEF NextChunk

LEMMA StepsHold ==
  ASSUME Held, [Next]_vars
  PROVE  Held'
<1>1. /\ DOMAIN rsp = 1 .. RspCap /\ rsp_len \in 0 .. RspCap /\ rc \in {"ok", "failed"}
      /\ req \in Request /\ ready \in BOOLEAN /\ lit \in BOOLEAN
      /\ at \in (0 .. Width - 1) \X (0 .. Height) /\ RspCap \in Nat
      /\ <<0, 0>> \in (0 .. Width - 1) \X (0 .. Height)
      /\ RspCap \in 0 .. RspCap /\ 0 \in 0 .. RspCap
  BY DeviceAssumption DEF Held, BoardTypes
<1>2. CASE Receive
  BY <1>1, <1>2 DEF Receive, Held, BoardTypes, PanelFound, display
<1>3. CASE Reply
  BY <1>1, <1>3 DEF Reply, Held, BoardTypes, PanelFound, display, output
<1>4. CASE FillBegin
  BY <1>1, <1>4 DEF FillBegin, Refuse, Held, BoardTypes, PanelFound, display, output, host
<1>5. CASE FillChunk
  <2>1. NextChunk \in (0 .. Width - 1) \X (0 .. Height)
    BY <1>5, ChunkMoves DEF FillChunk, At
  <2>2. /\ req' = req /\ ready' = ready /\ info' = info /\ ram' = ram /\ lit' = lit
        /\ rsp' = rsp /\ rsp_len' = rsp_len /\ DOMAIN screen' = Pixels
    BY <1>5 DEF FillChunk, Held, BoardTypes, output, host
  <2>3. at' \in (0 .. Width - 1) \X (0 .. Height)
    BY <1>1, <1>5, <2>1 DEF FillChunk
  <2>4. rc' \in {"ok", "failed"} /\ pc' \in {"fill", "reply", "booted", "unblank"}
    BY <1>1, <1>5 DEF FillChunk, FillReturn, At
  <2> QED BY <1>1, <2>2, <2>3, <2>4 DEF Held, BoardTypes, PanelFound
<1>6. CASE FillEnd
  BY <1>1, <1>6 DEF FillEnd, FillReturn, Held, BoardTypes, PanelFound, display, output, host
<1>7. CASE DoomCall \/ DoomWork \/ DoomReturn \/ DoomRuns
  <2>1. /\ req' = req /\ ready' = ready /\ info' = info /\ ram' = ram /\ lit' = lit
        /\ screen' = screen /\ at' = at /\ rsp' = rsp /\ rsp_len' \in {0, rsp_len}
        /\ pc' \in {pc, "doom", "reply"} /\ rc' \in {"ok", "failed"}
    BY <1>1, <1>7 DEF DoomCall, DoomWork, DoomReturn, DoomRuns, display, output, host
  <2> QED BY <1>1, <2>1 DEF Held, BoardTypes, PanelFound
<1>8. CASE Reboot
  BY <1>1, <1>8 DEF Reboot, Held, BoardTypes, PanelFound, output, host
<1>9. CASE BootDisplay
  <2>1. /\ req' = req /\ ram' = ram /\ at' = <<0, 0>> /\ rsp' = rsp /\ rsp_len' = rsp_len
        /\ rc' = rc /\ pc' \in {"fill", "booted"} /\ lit' \in BOOLEAN /\ DOMAIN screen' = Pixels
    BY <1>1, <1>9 DEF BootDisplay, Held, BoardTypes, output, host
  <2>2. CASE UNCHANGED <<screen, info, ready, lit>>
    <3>1. ready' = ready /\ info' = info
      BY <2>2
    <3> QED BY <1>1, <2>1, <3>1 DEF Held, BoardTypes, PanelFound
  <2>3. ASSUME NEW f \in Formats, ready' = TRUE, info' = Found(f)
        PROVE  Held'
    <3>1. PanelFound'
      BY <2>3 DEF PanelFound
    <3>2. ready' \in BOOLEAN
      BY <2>3
    <3> QED BY <1>1, <2>1, <3>1, <3>2 DEF Held, BoardTypes
  <2> QED BY <1>9, <2>2, <2>3 DEF BootDisplay, Found
<1>10. CASE Booted
  BY <1>1, <1>10 DEF Booted, Held, BoardTypes, PanelFound, display, output
<1>11. CASE Lost \/ UNCHANGED vars
  BY <1>1, <1>11 DEF Lost, vars, Held, BoardTypes, PanelFound, display, output, host
<1> QED
  BY <1>2, <1>3, <1>4, <1>5, <1>6, <1>7, <1>8, <1>9, <1>10, <1>11, HandlersHold
  DEF Next, Serve

\* No handler answers with more than the buffer holds, display_fill_rgb stays
\* on the panel, whatever its size, the format and the line, and everything
\* else is as declared.
THEOREM CommandsTypeCorrect == Spec => []TypeOK
<1>1. Init => Held
  BY HeldInit
<1>2. Held /\ [Next]_vars => Held'
  BY StepsHold
<1>3. Spec => []Held
  BY <1>1, <1>2, PTL DEF Spec
<1> QED BY <1>3, ThreadStays, TypesAre, PTL

-----------------------------------------------------------------------------
(* Reads past the end of the answer.                                       *)

\* Where the model ends, a size has come past the comparison as a smaller one.
LostIs ==
  At("lost") =>
    LET size == req.args[3] * req.args[4] * Bpp
    IN  Complete(req) /\ req.op = "disp_read" /\ size > RspCap /\ size % Word <= RspCap

LEMMA LostBy ==
  ASSUME [Next]_vars, pc' = "lost"
  PROVE  (pc = "run" /\ DispRead) \/ UNCHANGED <<pc, req, info>>
<1>1. CASE Receive \/ Reply \/ Booted
  BY <1>1 DEF Receive, Reply, Booted
<1>2. CASE Echo \/ Version \/ MemRead \/ MemWrite \/ DispInfo \/ DispGetId \/ DispDiag \/ DoomStatus
  BY <1>2 DEF Echo, Version, MemRead, MemWrite, DispInfo, DispGetId, DispDiag, DoomStatus, Give,
     Refuse, Quiet
<1>3. CASE FillBegin \/ FillEnd \/ Unblank \/ BlankOn
  BY <1>3 DEF FillBegin, FillEnd, FillReturn, Unblank, BlankOn, Refuse, Quiet
<1>4. CASE FillChunk
  BY <1>4 DEF FillChunk, FillReturn, host
<1>5. CASE DispRead
  BY <1>5 DEF DispRead, Runs, At
<1>6. CASE DoomCall \/ DoomWork \/ DoomReturn \/ DoomRuns
  BY <1>6 DEF DoomCall, DoomWork, DoomReturn, DoomRuns, display, host
<1>7. CASE Reboot \/ BootDisplay
  BY <1>7 DEF Reboot, BootDisplay
<1>8. CASE Lost \/ UNCHANGED vars
  BY <1>8 DEF Lost, vars, display, host
<1> QED BY <1>1, <1>2, <1>3, <1>4, <1>5, <1>6, <1>7, <1>8 DEF Next, Serve

LEMMA LostStep ==
  ASSUME LostIs, [Next]_vars
  PROVE  LostIs'
<1> SUFFICES ASSUME pc' = "lost" PROVE LostIs'
  BY DEF LostIs, At
<1>1. CASE UNCHANGED <<pc, req, info>>
  BY <1>1 DEF LostIs, At, Bpp
<1>2. CASE pc = "run" /\ DispRead
  <2>1. /\ Complete(req) /\ req.op = "disp_read" /\ info' = info /\ req' = req
        /\ req.args[3] * req.args[4] * Bpp > RspCap
        /\ (req.args[3] * req.args[4] * Bpp) % Word <= RspCap
    BY <1>2 DEF DispRead, Refuse, Runs, display, host
  <2>2. Bpp' = Bpp
    BY <2>1 DEF Bpp
  <2> QED BY <2>1, <2>2 DEF LostIs
<1> QED BY <1>1, <1>2, LostBy

\* A size that fits in the buffer has not wrapped.
LEMMA FitsInWord ==
  ASSUME NEW n \in Nat, n <= RspCap
  PROVE  n % Word = n
  BY DeviceAssumption, MemoryAssumption

LEMMA FourOf ==
  ASSUME NEW s \in Seq(Nat), Len(s) >= 4
  PROVE  s[1] \in Nat /\ s[2] \in Nat /\ s[3] \in Nat /\ s[4] \in Nat
<1>1. 1 \in 1 .. Len(s) /\ 2 \in 1 .. Len(s) /\ 3 \in 1 .. Len(s) /\ 4 \in 1 .. Len(s)
  BY LenProperties
<1> QED BY <1>1, ElementOfSeq

LEMMA PartBelow ==
  ASSUME NEW a \in Nat, NEW b \in Nat, NEW c \in Nat, a + b <= c
  PROVE  b \in 0 .. c
  OBVIOUS

LEMMA PartOfPanel ==
  ASSUME NEW w \in 0 .. Width, NEW h \in 0 .. Height, NEW n \in {2, 3, 4}, 4 * Width * Height < Word
  PROVE  w * h * n \in Nat /\ w * h * n < Word
<1> DEFINE a == w * h
           b == Width * Height
<1>1. Width \in Nat /\ Height \in Nat /\ Word \in Nat
  BY DeviceAssumption, MemoryAssumption
<1>2. w * h <= Width * h /\ Width * h <= Width * Height
  BY <1>1
<1>3. a \in Nat /\ b \in Nat /\ a <= b /\ 4 * b < Word
  <2>1. 4 * Width * Height = 4 * b
    BY <1>1
  <2> QED BY <1>1, <1>2, <2>1
<1> HIDE DEF a, b
<1>4. a * n \in Nat /\ a * n <= 4 * a
  BY <1>3
<1>5. a * n < Word
  BY <1>1, <1>3, <1>4
<1> QED BY <1>4, <1>5 DEF a

\* "Limit maximum returned bytes to avoid overrunning protocol buffers"
\* (cmd_display.c:65): on every panel that a word can count the bytes of, in any
\* format, a rectangle of the panel is never read past the end of the answer.
THEOREM PanelIsReadable == Spec => []PanelReadsFit
<1>1. Spec => [](Held /\ LostIs)
  <2>1. Init => LostIs
    BY DEF Init, LostIs, At
  <2>2. LostIs /\ [Next]_vars => LostIs'
    BY LostStep
  <2>3. Held /\ [Next]_vars => Held'
    BY StepsHold
  <2> QED BY <2>1, <2>2, <2>3, HeldInit, PTL DEF Spec
<1>2. Held /\ LostIs => PanelReadsFit
  <2> SUFFICES ASSUME Held, LostIs, At("lost"), 4 * Width * Height < Word,
                      req.args[1] + req.args[3] <= Width, req.args[2] + req.args[4] <= Height
               PROVE  FALSE
    BY DEF PanelReadsFit
  <2> DEFINE w == req.args[3]
             h == req.args[4]
             size == w * h * Bpp
  <2>1. Complete(req) /\ req.op = "disp_read" /\ size > RspCap /\ size % Word <= RspCap
    BY DEF LostIs
  <2>2. req.args \in Seq(Nat) /\ Len(req.args) >= 4
    BY <2>1, RequestIs DEF Complete, Arguments, Held, BoardTypes
  <2>3. w \in 0 .. Width /\ h \in 0 .. Height
    <3>1. req.args[1] \in Nat /\ req.args[2] \in Nat /\ w \in Nat /\ h \in Nat
      BY <2>2, FourOf
    <3>2. Width \in Nat /\ Height \in Nat
      BY DeviceAssumption
    <3> HIDE DEF w, h
    <3>3. req.args[1] + w <= Width /\ req.args[2] + h <= Height
      BY DEF w, h
    <3> QED BY <3>1, <3>2, <3>3, PartBelow
  <2>4. Bpp \in {2, 3, 4}
    BY InfoIs DEF Held
  <2> HIDE DEF w, h
  <2>5. size \in Nat /\ size < Word
    BY <2>3, <2>4, PartOfPanel
  <2> HIDE DEF size
  <2>6. size % Word = size
    BY <2>5, MemoryAssumption
  <2> QED BY <2>1, <2>5, <2>6, DeviceAssumption
<1> QED BY <1>1, <1>2, PTL

-----------------------------------------------------------------------------
(* Commands implements Board.  Between a request and its answer Board does   *)
(* nothing, and what the handlers have done by then is said in terms of the  *)
(* board the request found.                                                  *)

\* The answer's payload, if it goes out now.
Payload == SubSeq(rsp, 1, IF rc = "ok" THEN rsp_len ELSE 0)

\* A handler that has not begun.
Fresh == rc = "ok" /\ rsp = [i \in 1 .. RspCap |-> Stale] /\ rsp_len = RspCap /\ sent = <<>>

Wanted == doom_state # "STOPPED"
Shown(c) == ReadBack(info.format, PixelBytes(info.format, c))
Panel == IF ready THEN Pixels ELSE {}

\* The pixels a fill has come past.
Covered == {p \in Pixels : p[2] < at[2] \/ (p[2] = at[2] /\ p[1] < at[1])}

\* The request's colour is on S, and what was there before on the rest.
Painted(S, rest) ==
  Now.screen = [p \in Pixels |-> IF p \in S THEN Shown(Colour) ELSE rest[p]]

FillGoesOn(S) ==
  /\ req.op \in {"disp_fill", "disp_blank_off"} /\ S \subseteq Panel
  /\ ram = before.ram /\ Mode = before.mode /\ Wanted = before.doom
  /\ Painted(S, before.screen)

BootGoesOn(S) ==
  /\ req.op = "reboot" /\ S \subseteq Panel
  /\ ram = [a \in Dtcm \cup Axi |-> Unknown] /\ (lit => ready) /\ ~Wanted
  /\ Painted(S, [p \in Pixels |-> Unwritten(Mode)])

\* The handler of a fill, at its return with the board still as it was.
Filling ==
  /\ FillGoesOn(Covered) /\ lit = before.lit /\ sent = <<>>
  /\ req.op = "disp_fill" => Complete(req) /\ Fresh
  /\ req.op = "disp_blank_off" => rsp_len = 0

DoomGoesOn ==
  /\ ram = before.ram /\ Now.screen = before.screen /\ lit = before.lit /\ Mode = before.mode
  /\ rsp_len = 0
  /\ \/ req.op = "doom_start" /\ IF handler = "idle" THEN Wanted ELSE handler = "create"
     \/ req.op = "doom_stop" /\ IF handler = "idle" THEN ~Wanted ELSE handler = "stop"

\* What stands in the answer, and on the board, when a handler has returned.
Told ==
  /\ before = Now
  /\ \/ req.op \in {"echo", "version", "unknown", "disp_info", "disp_diag"}
        /\ Payload = B!Text(req)
     \/ req.op = "mem_read" /\ Payload = B!Read(req)
     \/ req.op = "disp_read" /\ Payload = <<>>
     \/ req.op = "disp_read" /\ Mode \notin Formats \ Readable
        /\ Complete(req) /\ Payload = B!Rows(req)
        /\ req.args[3] * req.args[4] * BytesPerPixel(Mode) <= RspCap
     \/ req.op = "disp_get_id" /\ Payload \in {PanelId, <<>>}
     \/ req.op = "disp_fill" /\ ~Complete(req) /\ Payload = <<>>
     \/ req.op = "doom_status" /\ \E ticks \in 0 .. TickMod - 1 :
          Payload = <<IF Wanted THEN "RUNNING" ELSE "STOPPED", ticks>>

Stored ==
  /\ req.op = "mem_write" /\ Payload = <<>>
  /\ ram = B!Written(req)
  /\ Now.screen = before.screen /\ lit = before.lit /\ Mode = before.mode
  /\ Wanted = before.doom

Filled ==
  /\ req.op = "disp_fill" /\ lit = before.lit /\ Complete(req)
  /\ \/ FillGoesOn(Panel) /\ Payload = [i \in 1 .. RspCap |-> Stale]
     \/ \E S \in SUBSET Panel : FillGoesOn(S) /\ Payload = <<>>

Blanked ==
  /\ Payload = <<>> /\ lit \in {before.lit} \cup (IF ready THEN {req.op = "disp_blank_off"} ELSE {})
  /\ \/ \E S \in SUBSET Panel : FillGoesOn(S) /\ req.op = "disp_blank_off"
     \/ /\ req.op = "disp_blank_on"
        /\ ram = before.ram /\ Now.screen = before.screen /\ Mode = before.mode
        /\ Wanted = before.doom

Switched == DoomGoesOn /\ handler = "idle" /\ Payload = <<>>

Doing ==
  /\ ram = [a \in Dtcm \cup Axi |-> ram[a]] /\ DOMAIN before.ram = Dtcm \cup Axi
  /\ pc = "run" => Fresh /\ before = Now /\ doom_state # "STARTING" /\ req.op # "unknown"
  /\ pc = "boot" => BootGoesOn({}) /\ ~ready /\ ~lit
  /\ pc = "fill" => Filling \/ BootGoesOn(Covered)
  /\ pc = "booted" => \E S \in SUBSET Panel : BootGoesOn(S)
  /\ pc = "unblank" => /\ req.op = "disp_blank_off" /\ lit = before.lit /\ sent = <<>>
                       /\ \E S \in SUBSET Panel : FillGoesOn(S)
  /\ pc = "doom" => DoomGoesOn /\ sent = <<>>
  /\ pc = "reply" =>
       /\ sent = IF req.op = "doom_start" THEN <<B!Log("doom start")>> ELSE <<>>
       /\ Told \/ Stored \/ Filled \/ Blanked \/ Switched

-----------------------------------------------------------------------------
\* The instance of Board has words of its own for what Device says.
LEMMA BoardWords ==
  /\ B!Pixels = Pixels /\ B!Flash = Flash /\ B!Dtcm = Dtcm /\ B!Axi = Axi
  /\ B!Black = Black /\ B!White = White
  /\ \A f : B!BytesPerPixel(f) = BytesPerPixel(f)
  /\ \A f : B!Unwritten(f) = Unwritten(f)
  /\ \A r : B!Complete(r) <=> Complete(r)
  /\ \A a, n : B!Cells(a, n) = Cells(a, n)
  /\ \A x, y, z : B!Pack565(x, y, z) = Pack565(x, y, z)
<1>1. /\ B!Pixels = Pixels /\ B!Flash = Flash /\ B!Dtcm = Dtcm /\ B!Axi = Axi
      /\ B!Black = Black /\ B!White = White
  BY DEF B!Pixels, Pixels, B!Flash, Flash, B!Dtcm, Dtcm, B!Axi, Axi, B!Black, Black, B!White,
     White
<1>2. \A f : B!BytesPerPixel(f) = BytesPerPixel(f)
  BY DEF B!BytesPerPixel, BytesPerPixel
<1>3. \A f : B!Unwritten(f) = Unwritten(f)
  BY <1>2 DEF B!Unwritten, Unwritten
<1>4. \A r : B!Complete(r) <=> Complete(r)
  BY DEF B!Complete, Complete, B!Arguments, Arguments
<1>5. \A a, n : B!Cells(a, n) = Cells(a, n)
  BY DEF B!Cells, Cells
<1>6. \A x, y, z : B!Pack565(x, y, z) = Pack565(x, y, z)
  BY DEF B!Pack565, Pack565
<1> QED BY <1>1, <1>2, <1>3, <1>4, <1>5, <1>6

\* With the answer the board changes at once, from what it was to what it is.
LEMMA AnswerShows ==
  ASSUME Reply
  PROVE  /\ Seen = before /\ Seen' = Now
         /\ answer' = [req |-> <<req>>, frames |-> Append(sent, <<req.op, Payload>>)]
<1>1. Now' = Now
  BY DEF Reply, Now, Mode, display, doom
<1>2. Seen' = Now /\ Seen = before
  BY <1>1 DEF Reply, Seen, At
<1>3. answer' = [req |-> <<req>>, frames |-> Append(sent, <<req.op, Payload>>)]
  BY DEF Reply, Payload
<1> QED BY <1>2, <1>3

LEMMA NowIs ==
  /\ Now.ram = ram /\ Now.lit = lit /\ Now.mode = Mode /\ Now.doom = Wanted
  /\ Now.screen = [p \in Pixels |-> ReadBack(info.format, screen[p])]
  BY DEF Now, Wanted

LEMMA ModeIs ==
  ASSUME PanelFound
  PROVE  /\ Mode = "none" <=> ~ready
         /\ Mode \in Formats \cup {"none"}
         /\ ready => Mode = info.format
<1>1. CASE ~ready
  BY <1>1 DEF Mode
<1>2. CASE ready
  BY <1>2, DeviceAssumption DEF PanelFound, Found, Mode, Format
<1> QED BY <1>1, <1>2

-----------------------------------------------------------------------------
\* The five ways to return, and the reboot, as commands of Board.
LEMMA ToldAnswer ==
  ASSUME Held, Told, Reply, sent = <<>>
  PROVE  B!Carry(req)
<1>1. Seen = before /\ Seen' = before
  BY AnswerShows DEF Told
<1>2. \A payload : Payload = payload => B!Answer(req, payload)
  BY AnswerShows DEF B!Answer, B!Sent
<1>3. UNCHANGED B!board
  BY <1>1 DEF B!board
<1>4. CASE /\ req.op \in {"echo", "version", "unknown", "disp_info", "disp_diag"}
           /\ Payload = B!Text(req)
  BY <1>2, <1>3, <1>4 DEF B!Carry, B!Says
<1>5. CASE req.op = "mem_read" /\ Payload = B!Read(req)
  BY <1>2, <1>3, <1>5 DEF B!Carry, B!MemRead
<1>6. CASE req.op = "disp_read" /\ Payload = <<>>
  BY <1>2, <1>3, <1>6 DEF B!Carry, B!ReadRect, B!Nothing
<1>7. CASE req.op = "disp_read" /\ Mode \notin Formats \ Readable
           /\ Complete(req) /\ Payload = B!Rows(req)
           /\ req.args[3] * req.args[4] * BytesPerPixel(Mode) <= RspCap
  <2>1. Seen.mode = Mode
    BY <1>1, NowIs DEF Told
  <2>2. req.args[3] * req.args[4] * B!BytesPerPixel(Seen.mode) <= RspCap
    BY <1>7, <2>1, BoardWords
  <2>3. B!Complete(req)
    BY <1>7, BoardWords
  <2> QED BY <1>2, <1>3, <1>7, <2>1, <2>2, <2>3 DEF B!Carry, B!ReadRect
<1>8. CASE req.op = "disp_get_id" /\ Payload \in {PanelId, <<>>}
  BY <1>2, <1>3, <1>8 DEF B!Carry, B!GetId, B!Nothing
<1>9. CASE req.op = "disp_fill" /\ ~Complete(req) /\ Payload = <<>>
  <2>1. ~B!Complete(req)
    BY <1>9, BoardWords
  <2> QED BY <1>2, <1>3, <1>9, <2>1 DEF B!Carry, B!Fill, B!Nothing, B!board
<1>10. CASE req.op = "doom_status" /\ \E ticks \in 0 .. TickMod - 1 :
              Payload = <<IF Wanted THEN "RUNNING" ELSE "STOPPED", ticks>>
  <2>1. PICK ticks \in 0 .. TickMod - 1 :
           Payload = <<IF Wanted THEN "RUNNING" ELSE "STOPPED", ticks>>
    BY <1>10
  <2>2. Seen.doom = Wanted /\ (Seen.doom)' = Seen.doom
    BY <1>1, NowIs DEF Told
  <2>3. B!Answer(req, <<IF Seen.doom THEN "RUNNING" ELSE "STOPPED", ticks>>)
    BY <1>2, <2>1, <2>2
  <2> QED BY <1>3, <1>10, <2>2, <2>3 DEF B!Carry, B!Doom, B!board
<1> QED BY <1>4, <1>5, <1>6, <1>7, <1>8, <1>9, <1>10 DEF Told

LEMMA StoredAnswer ==
  ASSUME Stored, Reply, sent = <<>>
  PROVE  B!Carry(req)
<1>1. /\ (Seen.ram)' = B!Written(req)
      /\ UNCHANGED <<Seen.screen, Seen.lit, Seen.mode, Seen.doom>>
  BY AnswerShows, NowIs DEF Stored
<1>2. B!Nothing(req)
  BY AnswerShows DEF Stored, B!Nothing, B!Answer, B!Sent
<1> QED BY <1>1, <1>2 DEF Stored, B!Carry, B!MemWrite

LEMMA AppendToOne == \A a, b : Append(<<a>>, b) = <<a, b>>
<1> SUFFICES ASSUME NEW a, NEW b PROVE Append(<<a>>, b) = <<a, b>>
  OBVIOUS
<1>1. <<a>> \in Seq({a, b})
  OBVIOUS
<1>2. Append(<<a>>, b) = [i \in 1 .. 2 |-> IF i = 2 THEN b ELSE <<a>>[i]]
  BY <1>1
<1>3. <<a, b>> = [i \in 1 .. 2 |-> IF i = 2 THEN b ELSE <<a>>[i]]
  OBVIOUS
<1> QED BY <1>2, <1>3

LEMMA SwitchedAnswer ==
  ASSUME Switched, Reply,
         sent = IF req.op = "doom_start" THEN <<B!Log("doom start")>> ELSE <<>>
  PROVE  B!Carry(req)
<1>1. UNCHANGED <<Seen.ram, Seen.screen, Seen.lit, Seen.mode>> /\ (Seen.doom)' = Wanted
  BY AnswerShows, NowIs DEF Switched, DoomGoesOn
<1>2. CASE req.op = "doom_start"
  <2>1. B!Sent(req, <<B!Log("doom start"), <<req.op, <<>> >> >>)
    <3>2. sent = <<B!Log("doom start")>> /\ Payload = <<>>
      BY <1>2 DEF Switched
    <3>3. Append(sent, <<req.op, Payload>>) = <<B!Log("doom start"), <<req.op, <<>> >> >>
      BY <3>2, AppendToOne
    <3> QED BY <3>3, AnswerShows DEF B!Sent
  <2>2. (Seen.doom)' = TRUE
    BY <1>1, <1>2 DEF Switched, DoomGoesOn
  <2> QED BY <1>1, <1>2, <2>1, <2>2 DEF B!Carry, B!Doom
<1>3. CASE req.op = "doom_stop"
  <2>1. B!Nothing(req)
    BY <1>3, AnswerShows DEF Switched, B!Nothing, B!Answer, B!Sent
  <2>2. (Seen.doom)' = FALSE
    BY <1>1, <1>3 DEF Switched, DoomGoesOn, Wanted
  <2> QED BY <1>1, <1>3, <2>1, <2>2 DEF B!Carry, B!Doom
<1> QED BY <1>2, <1>3 DEF Switched, DoomGoesOn

\* The colours, as the host reads them back, are those it asked for.
LEMMA Colours ==
  ASSUME PanelFound, ready, Seen' = Now,
         NEW c \in Seq(Nat), Len(c) = 3
  PROVE  Shown(c) = B!Native(c)
<1>1. (Seen.mode)' = info.format
  BY NowIs DEF Mode
<1>2. info.format \in {"RGB565", "BGR565", "RGB888", "ARGB8888"}
  BY InfoIs DEF Format
<1>3. CASE info.format = "ARGB8888"
  <2>1. PixelBytes(info.format, c) = <<c[3], c[2], c[1], 255>>
    BY <1>3 DEF PixelBytes
  <2>2. Shown(c) = <<255, c[1], c[2], c[3]>>
    <3> DEFINE px == <<c[3], c[2], c[1], 255>>
    <3>1. Shown(c) = [i \in 1 .. 4 |-> px[(4 - i) + 1]]
      BY <1>3, <2>1 DEF Shown, ReadBack, Reverse
    <3>2. px[4] = 255 /\ px[3] = c[1] /\ px[2] = c[2] /\ px[1] = c[3]
      OBVIOUS
    <3> HIDE DEF px
    <3> QED BY <3>1, <3>2
  <2>3. B!Native(c) = <<255, c[1], c[2], c[3]>>
    BY <1>1, <1>3 DEF B!Native
  <2> QED BY <2>2, <2>3
<1>4. CASE info.format # "ARGB8888"
  <2>1. Shown(c) = PixelBytes(info.format, c)
    BY <1>4 DEF Shown, ReadBack
  <2>2. B!Native(c) = PixelBytes(info.format, c)
    BY <1>1, <1>2, <1>4, BoardWords DEF B!Native, PixelBytes
  <2> QED BY <2>1, <2>2
<1> QED BY <1>3, <1>4

LEMMA PanelIs ==
  ASSUME Held, Seen' = Now
  PROVE  B!Panel = Panel
  BY ModeIs, NowIs, BoardWords DEF Held, B!Panel, Panel

\* A picture in our terms is one in Board's.
LEMMA PictureIs ==
  ASSUME Held, Seen' = Now, Colour \in Seq(Nat), Len(Colour) = 3,
         NEW S, S \subseteq Panel, NEW rest, Painted(S, rest)
  PROVE  (Seen.screen)' = [p \in B!Pixels |-> IF p \in S THEN B!Native(Colour) ELSE rest[p]]
<1>1. (Seen.screen)' = [p \in Pixels |-> IF p \in S THEN Shown(Colour) ELSE rest[p]]
  BY DEF Painted
<1>2. CASE ready
  BY <1>1, <1>2, BoardWords, Colours DEF Held
<1>3. CASE ~ready
  BY <1>1, <1>3, BoardWords DEF Panel
<1> QED BY <1>2, <1>3

LEMMA ColourIs ==
  ASSUME Held, req.op \in {"disp_fill", "disp_blank_off", "reboot"},
         req.op = "disp_fill" => Complete(req)
  PROVE  Colour \in Seq(Nat) /\ Len(Colour) = 3
<1>1. CASE req.op = "disp_fill"
  <2>2. req.args \in Seq(Nat)
    BY RequestIs DEF Held, BoardTypes
  <2>3. Arguments(req.op) = 3
    BY <1>1 DEF Arguments
  <2>4. Len(req.args) <= 3 /\ Len(req.args) >= 3
    BY <1>1, <2>3, DeviceAssumption DEF Held, BoardTypes, Complete
  <2>1. Len(req.args) = 3
    <3>1. Len(req.args) \in Nat
      BY <2>2, LenProperties
    <3> DEFINE n == Len(req.args)
    <3>2. n \in Nat /\ n <= 3 /\ n >= 3
      BY <2>4, <3>1
    <3> HIDE DEF n
    <3>3. n = 3
      BY <3>2
    <3> QED BY <3>3 DEF n
  <2> QED BY <1>1, <2>1, <2>2 DEF Colour
<1>2. CASE req.op # "disp_fill"
  BY <1>2 DEF Colour, White, Black
<1> QED BY <1>1, <1>2

LEMMA FilledAnswer ==
  ASSUME Held, Filled, Reply, sent = <<>>
  PROVE  B!Carry(req)
<1>1. UNCHANGED <<Seen.ram, Seen.lit, Seen.mode, Seen.doom>>
  BY AnswerShows, NowIs DEF Filled, FillGoesOn
<1>2. ASSUME NEW S, FillGoesOn(S)  PROVE B!Painted(S, req.args)
  <2>1. Colour = req.args
    BY DEF Filled, Colour
  <2>2. Colour \in Seq(Nat) /\ Len(Colour) = 3
    BY ColourIs DEF Filled
  <2>3. Painted(S, before.screen) /\ S \subseteq Panel
    BY <1>2 DEF FillGoesOn
  <2>4. (Seen.screen)' =
          [p \in B!Pixels |-> IF p \in S THEN B!Native(Colour) ELSE before.screen[p]]
    <3>1. Seen' = Now
      BY AnswerShows
    <3> QED BY <2>2, <2>3, <3>1, PictureIs
  <2> QED BY <2>1, <2>4, AnswerShows DEF B!Painted
<1>3. B!Panel = Panel /\ B!Complete(req)
  BY AnswerShows, PanelIs, BoardWords DEF Filled
<1>4. \A payload : Payload = payload => B!Answer(req, payload)
  BY AnswerShows DEF B!Answer, B!Sent
<1>5. B!Fill(req)
  BY <1>1, <1>2, <1>3, <1>4 DEF Filled, B!Fill, B!Nothing
<1> QED BY <1>5 DEF Filled, B!Carry

LEMMA BlankedAnswer ==
  ASSUME Held, Blanked, Reply, sent = <<>>
  PROVE  B!Carry(req)
<1>1. UNCHANGED <<Seen.ram, Seen.mode, Seen.doom>>
  BY AnswerShows, NowIs DEF Blanked, FillGoesOn
<1>2. B!Nothing(req)
  BY AnswerShows DEF Blanked, B!Nothing, B!Answer, B!Sent
<1>3. (Seen.lit)' \in {Seen.lit} \cup
                       (IF Seen.mode = "none" THEN {} ELSE {req.op = "disp_blank_off"})
  <2>1. Seen.mode = "none" <=> ~ready
    BY <1>1, AnswerShows, NowIs, ModeIs DEF Held
  <2> QED BY <2>1, AnswerShows, NowIs DEF Blanked
<1>4. CASE req.op = "disp_blank_on"
  <2>1. UNCHANGED Seen.screen
    BY <1>4, AnswerShows DEF Blanked, FillGoesOn
  <2> QED BY <1>1, <1>2, <1>3, <1>4, <2>1 DEF B!Carry, B!Blank
<1>5. CASE req.op = "disp_blank_off"
  <2>1. PICK S \in SUBSET Panel : FillGoesOn(S)
    BY <1>5 DEF Blanked
  <2>2. B!Painted(S, B!Black)
    <3>1. Seen = before /\ Seen' = Now
      BY AnswerShows
    <3>2. Colour \in Seq(Nat) /\ Len(Colour) = 3 /\ Colour = B!Black
      BY <1>5, ColourIs, BoardWords DEF Colour
    <3>3. Painted(S, before.screen) /\ S \subseteq Panel
      BY <2>1 DEF FillGoesOn
    <3>4. (Seen.screen)' =
            [p \in B!Pixels |-> IF p \in S THEN B!Native(Colour) ELSE before.screen[p]]
      BY <3>1, <3>2, <3>3, PictureIs
    <3> QED BY <3>1, <3>2, <3>4 DEF B!Painted
  <2>3. S \in SUBSET B!Panel
    BY AnswerShows, PanelIs
  <2> QED BY <1>1, <1>2, <1>3, <1>5, <2>2, <2>3 DEF B!Carry, B!Blank
<1> QED BY <1>4, <1>5 DEF Blanked

LEMMA BootAnswer ==
  ASSUME Held, Doing, Booted
  PROVE  B!Carry(req)
<1>1. PICK S \in SUBSET Panel : BootGoesOn(S)
  BY DEF Doing, Booted, At
<1>2. Now' = Now
  BY DEF Booted, Now, Mode, display, doom
<1>3. Seen = before /\ Seen' = Now
  BY <1>2 DEF Booted, Seen, At
<1>4. (Seen.mode)' = Mode /\ (Seen.lit)' = lit /\ (Seen.ram)' = ram /\ (Seen.doom)' = Wanted
  BY <1>3, NowIs
<1>5. B!Sent(req, <<B!Log(IF (Seen.mode)' = "none" THEN "display failed" ELSE "display ok"),
                    B!Log("boot"), B!Log("ready")>>)
  BY <1>4, ModeIs DEF Held, Booted, B!Sent
<1>6. /\ (Seen.mode)' \in Formats \cup {"none"}
      /\ (Seen.lit)' \in {FALSE, (Seen.mode)' # "none"}
  BY <1>1, <1>4, ModeIs DEF Held, BoardTypes, BootGoesOn
<1>7. (Seen.ram)' = [a \in DOMAIN (Seen.ram) |-> Unknown] /\ (Seen.doom)' = FALSE
  BY <1>1, <1>3, <1>4 DEF Doing, BootGoesOn, Wanted
<1>8. (Seen.screen)' =
        [p \in B!Pixels |-> IF p \in S THEN B!Native(B!White) ELSE B!Unwritten((Seen.mode)')]
  <2> DEFINE rest == [p \in Pixels |-> Unwritten(Mode)]
  <2>1. Painted(S, rest) /\ Colour = White
    BY <1>1 DEF BootGoesOn, Colour
  <2> HIDE DEF rest
  <2>2. (Seen.screen)' = [p \in B!Pixels |-> IF p \in S THEN B!Native(White) ELSE rest[p]]
    BY <1>1, <1>3, <2>1, ColourIs, PictureIs DEF BootGoesOn
  <2>3. \A p \in B!Pixels : rest[p] = B!Unwritten((Seen.mode)')
    BY <1>4, BoardWords DEF rest
  <2> QED BY <2>2, <2>3, BoardWords
<1>9. S \in SUBSET B!Panel
  BY <1>3, PanelIs
<1>10. B!Reboot(req)
  BY <1>5, <1>6, <1>7, <1>8, <1>9 DEF B!Reboot
<1> QED BY <1>1, <1>10 DEF BootGoesOn, B!Carry

LEMMA AnswerGoes ==
  ASSUME Held, Doing, Reply
  PROVE  B!Carry(req)
<1>1. /\ sent = IF req.op = "doom_start" THEN <<B!Log("doom start")>> ELSE <<>>
      /\ Told \/ Stored \/ Filled \/ Blanked \/ Switched
  BY DEF Doing, Reply, At
<1>2. Told => sent = <<>>
  BY <1>1 DEF Told
<1>3. Stored \/ Filled \/ Blanked => sent = <<>>
  BY <1>1 DEF Stored, Filled, Blanked, FillGoesOn
<1> QED
  BY <1>1, <1>2, <1>3, ToldAnswer, StoredAnswer, FilledAnswer, BlankedAnswer, SwitchedAnswer

-----------------------------------------------------------------------------
\* What of the buffer is sent.
LEMMA FrontOf ==
  ASSUME NEW b, NEW n \in Nat
  PROVE  SubSeq(b, 1, n) = [i \in 1 .. n |-> b[i]]
<1> DEFINE S == {b[i] : i \in 1 .. n}
           x == SubSeq(b, 1, n)
<1>1. \A i \in 1 .. n : b[i] \in S
  OBVIOUS
<1> HIDE DEF S
<1>2. /\ x \in Seq(S) /\ Len(x) = (IF 1 <= n THEN n - 1 + 1 ELSE 0)
      /\ \A i \in 1 .. n - 1 + 1 : x[i] = b[1 + i - 1]
  BY <1>1, SubSeqProperties
<1> HIDE DEF x
<1>3. Len(x) = n /\ \A i \in 1 .. n : x[i] = b[i]
  BY <1>2
<1>4. x = [i \in 1 .. Len(x) |-> x[i]]
  BY <1>2
<1> QED BY <1>3, <1>4 DEF x

LEMMA PutFront ==
  ASSUME NEW N \in Nat, NEW b, DOMAIN b = 1 .. N, NEW n \in 0 .. N,
         NEW s, s = [i \in 1 .. n |-> s[i]]
  PROVE  SubSeq(Put(b, s), 1, n) = s
<1>2. \A i \in 1 .. n : Put(b, s)[i] = s[i]
  BY DEF Put
<1>3. SubSeq(Put(b, s), 1, n) = [i \in 1 .. n |-> Put(b, s)[i]]
  BY FrontOf
<1> QED BY <1>2, <1>3

\* What the ways out of a handler put in the answer.
LEMMA GivenIs ==
  ASSUME Held, Fresh, NEW n \in 0 .. RspCap, NEW s, s = [i \in 1 .. n |-> s[i]], Give(s)
  PROVE  Payload' = s /\ pc' = "reply" /\ sent' = <<>>
<1>1. DOMAIN rsp = 1 .. RspCap /\ RspCap \in Nat
  BY DeviceAssumption DEF Held, BoardTypes
<1>2. Len(s) = n
  OBVIOUS
<1>3. SubSeq(Put(rsp, s), 1, n) = s
  BY <1>1, PutFront
<1> QED BY <1>2, <1>3 DEF Give, Payload, Fresh

LEMMA RefusedIs ==
  ASSUME Held, Refuse \/ \E e \in {"ok", "failed"} : Quiet(e)
  PROVE  Payload' = <<>> /\ pc' = "reply" /\ sent' = sent
<1>1. rsp' = rsp /\ sent' = sent /\ pc' = "reply" /\ (rc' = "ok" => rsp_len' = 0)
  BY DEF Refuse, Quiet, output
<1>2. SubSeq(rsp, 1, 0) = <<>>
  BY FrontOf
<1> QED BY <1>1, <1>2 DEF Payload

LEMMA NowStays ==
  ASSUME UNCHANGED <<ram, display>>, Wanted' = Wanted
  PROVE  Now' = Now
  BY DEF Now, Mode, display, Wanted

\* A handler that returns with the board as it was.
LEMMA ToldBy ==
  ASSUME Doing, pc' = "reply", UNCHANGED <<ram, display, doom, host>>, sent' = <<>>, Told'
  PROVE  Doing'
<1>1. req' = req /\ before' = before /\ ram' = ram /\ req.op # "doom_start"
  BY DEF host, Told
<1> QED BY <1>1 DEF Doing

LEMMA RangeArguments ==
  ASSUME NEW r \in Request, Complete(r), r.op \in {"mem_read", "mem_write"}
  PROVE  r.args[1] \in Address /\ r.args[2] \in Address
<1>1. r.args \in Seq(0 .. Word - 1)
  BY DeviceAssumption
<1>2. Len(r.args) >= 2 /\ Len(r.args) \in Nat
  BY <1>1, LenProperties DEF Complete, Arguments
<1>3. 1 \in 1 .. Len(r.args) /\ 2 \in 1 .. Len(r.args)
  BY <1>2
<1> QED BY <1>1, <1>3, ElementOfSeq DEF Address

\* What the handlers of memory check is what Board calls legal.
LEMMA ReadLegal ==
  ASSUME NEW r \in Request, r.op = "mem_read"
  PROVE  Complete(r) /\ RspCap >= r.args[2] /\ ReadAllowed(r.args[1], r.args[2])
           <=> B!Legal(r, {B!Flash, B!Dtcm, B!Axi})
<1>1. CASE ~Complete(r)
  BY <1>1, BoardWords DEF B!Legal
<1>2. CASE Complete(r)
  <2> DEFINE addr == r.args[1]
             len == r.args[2]
  <2>1. addr \in Address /\ len \in Address
    BY <1>2, RangeArguments
  <2>2. B!Legal(r, {B!Flash, B!Dtcm, B!Axi})
          <=> len <= MaxLen /\ \E R \in {Flash, Dtcm, Axi} : Cells(addr, len) \subseteq R
    BY <1>2, BoardWords DEF B!Legal
  <2> HIDE DEF addr, len
  <2>3. ReadAllowed(addr, len)
          <=> len <= MaxLen /\ \E R \in {Flash, Dtcm, Axi} : Cells(addr, len) \subseteq R
    BY <2>1, RegionsAre DEF ReadAllowed
  <2>4. len <= MaxLen => RspCap >= len
    BY <2>1, AnswersFit, MemoryAssumption, DeviceAssumption DEF Address
  <2> QED BY <1>2, <2>2, <2>3, <2>4 DEF addr, len
<1> QED BY <1>1, <1>2

LEMMA WriteLegal ==
  ASSUME NEW r \in Request, r.op = "mem_write"
  PROVE  Complete(r) /\ WriteAllowed(r.args[1], r.args[2], Len(r.data))
           <=> /\ B!Legal(r, {B!Dtcm, B!Axi}) /\ r.args[2] <= Len(r.data)
               /\ r.args[2] # 0
<1>1. CASE ~Complete(r)
  BY <1>1, BoardWords DEF B!Legal
<1>2. CASE Complete(r)
  <2> DEFINE addr == r.args[1]
             len == r.args[2]
             held == Len(r.data)
  <2>1. addr \in Address /\ len \in Address /\ held \in Nat
    BY <1>2, RangeArguments, RequestIs
  <2>2. B!Legal(r, {B!Dtcm, B!Axi})
          <=> len <= MaxLen /\ \E R \in {Dtcm, Axi} : Cells(addr, len) \subseteq R
    BY <1>2, BoardWords DEF B!Legal
  <2> HIDE DEF addr, len, held
  <2>3. WriteAllowed(addr, len, held)
          <=> /\ len <= MaxLen /\ len # 0 /\ len <= held
              /\ \E R \in {Dtcm, Axi} : Cells(addr, len) \subseteq R
    <3>1. WriteAllowed(addr, len, held)
           <=> /\ len \in 1 .. MaxLen /\ len <= held
               /\ Cells(addr, len) \subseteq Dtcm \/ Cells(addr, len) \subseteq Axi
      BY <2>1, WritesStayInRam
    <3>2. len \in 1 .. MaxLen <=> len <= MaxLen /\ len # 0
      BY <2>1, MemoryAssumption DEF Address
    <3> QED BY <3>1, <3>2
  <2> QED BY <1>2, <2>2, <2>3 DEF addr, len, held
<1> QED BY <1>1, <1>2

-----------------------------------------------------------------------------
\* The handlers, each with what it has done when it returns.
LEMMA TextHandlers ==
  ASSUME Held, Doing, Echo \/ Version \/ DispInfo \/ DispGetId \/ DispDiag
  PROVE  Doing'
<1>1. Fresh /\ before = Now /\ Seen = before
  BY DEF Doing, Seen, Echo, Version, DispInfo, DispGetId, DispDiag, Runs, At
<1>2. UNCHANGED <<ram, display, doom, host>> /\ req' = req /\ before' = before
  BY DEF Echo, Version, DispInfo, DispGetId, DispDiag, host
<1>3. Now' = Now
  BY <1>2, NowStays DEF doom, Wanted
<1>4. ASSUME pc' = "reply"  PROVE Seen' = before
  BY <1>2, <1>4 DEF Seen, At
<1>5. ASSUME pc' = "reply", sent' = <<>>, Payload' = (B!Text(req))',
             req.op \in {"echo", "version", "unknown", "disp_info", "disp_diag"}
      PROVE  Doing'
  BY <1>1, <1>2, <1>3, <1>5, ToldBy DEF Told
<1>6. CASE Echo
  <2>1. req.op = "echo" /\ req \in Request /\ (RspCap < Len(req.data) \/ Give(req.data))
    BY <1>6 DEF Echo, Runs, Held, BoardTypes
  <2>2. Len(req.data) \in 0 .. RspCap
    BY <2>1, RequestIs, AnswersFit, DeviceAssumption
  <2>3. req.data = [i \in 1 .. Len(req.data) |-> req.data[i]]
    <3>1. req.data \in Seq({req.data[i] : i \in DOMAIN req.data})
      BY <2>1, DeviceAssumption
    <3> QED BY <3>1
  <2>4. Give(req.data)
    BY <2>1, <2>2, DeviceAssumption
  <2>5. Payload' = req.data /\ pc' = "reply" /\ sent' = <<>>
    BY <1>1, <2>2, <2>3, <2>4, GivenIs
  <2>6. (B!Text(req))' = req.data
    BY <1>2, <2>1 DEF B!Text
  <2> QED BY <1>5, <2>1, <2>5, <2>6
<1>7. CASE Version
  <2>1. req.op = "version" /\ Give(Hash)
    BY <1>7 DEF Version, Runs
  <2>2. Len(Hash) \in 0 .. RspCap /\ Hash = [i \in 1 .. Len(Hash) |-> Hash[i]]
    BY AnswersFit, LenProperties, DeviceAssumption
  <2>3. Payload' = Hash /\ pc' = "reply" /\ sent' = <<>>
    BY <1>1, <2>1, <2>2, GivenIs
  <2>4. (B!Text(req))' = Hash
    BY <1>2, <2>1 DEF B!Text
  <2> QED BY <1>5, <2>1, <2>3, <2>4
<1>8. CASE DispDiag
  <2> DEFINE s == <<"text", Mode>>
  <2>1. req.op = "disp_diag" /\ Give(s)
    BY <1>8 DEF DispDiag, Runs
  <2>2. s = [i \in 1 .. 2 |-> s[i]] /\ 2 \in 0 .. RspCap
    BY AnswersFit, DeviceAssumption
  <2> HIDE DEF s
  <2>3. Payload' = s /\ pc' = "reply" /\ sent' = <<>>
    BY <1>1, <2>1, <2>2, GivenIs
  <2>4. Seen'.mode = Mode
    BY <1>1, <1>4, <2>3, NowIs
  <2>5. (B!Text(req))' = s
    BY <1>2, <2>1, <2>4 DEF B!Text, s
  <2> QED BY <1>5, <2>1, <2>3, <2>5
<1>9. CASE DispInfo
  <2> DEFINE s == <<info.width, info.height, info.format, info.can_read, info.can_write,
                    rsp[6], info.width * Bpp>>
  <2>1. req.op = "disp_info" /\ Give(s)
    BY <1>9 DEF DispInfo, Runs
  <2>2. s = [i \in 1 .. 7 |-> s[i]] /\ 7 \in 0 .. RspCap
    BY AnswersFit, DeviceAssumption
  <2> HIDE DEF s
  <2>3. Payload' = s /\ pc' = "reply" /\ sent' = <<>>
    BY <1>1, <2>1, <2>2, GivenIs
  <2>4. Seen'.mode = Mode
    BY <1>1, <1>4, <2>3, NowIs
  <2>5. rsp[6] = Stale
    BY <1>1, AnswersFit, DeviceAssumption DEF Fresh
  <2>6. CASE ~ready
    <3>1. s = <<0, 0, "RGB565", FALSE, FALSE, Stale, 0>>
      <4>1. info = NoInfo /\ Bpp \in {2, 3, 4}
        BY <2>6, InfoIs DEF Held, PanelFound
      <4>2. info.width = 0 /\ info.width * Bpp = 0
        BY <4>1 DEF NoInfo
      <4> QED BY <2>5, <4>1, <4>2 DEF s, NoInfo
    <3>2. Seen'.mode = "none"
      BY <2>4, <2>6 DEF Mode
    <3> QED BY <1>2, <1>5, <2>1, <2>3, <3>1, <3>2 DEF B!Text
  <2>7. CASE ready
    <3>1. PICK f \in Formats : info = Found(f)
      BY <2>7 DEF Held, PanelFound
    <3>4. Mode = f
      BY <2>7, <3>1 DEF Mode, Found
    <3>5. /\ info.width = Width /\ info.height = Height /\ info.can_read = (Mode \in Readable)
          /\ info.can_write = TRUE
      BY <3>1, <3>4 DEF Found
    <3>2. Mode = info.format /\ Mode # "none" /\ Bpp = B!BytesPerPixel(Mode)
      BY <2>7, ModeIs, BoardWords DEF Held, Bpp
    <3>3. s = <<Width, Height, Mode, Mode \in Readable, TRUE, Stale,
                Width * B!BytesPerPixel(Mode)>>
      BY <2>5, <3>2, <3>5 DEF s
    <3> QED BY <1>2, <1>5, <2>1, <2>3, <2>4, <3>2, <3>3 DEF B!Text
  <2> QED BY <2>6, <2>7
<1>10. CASE DispGetId
  <2>1. req.op = "disp_get_id" /\ (Give(PanelId) \/ Quiet("ok"))
    BY <1>10 DEF DispGetId, Runs
  <2>2. Len(PanelId) \in 0 .. RspCap /\ PanelId = [i \in 1 .. Len(PanelId) |-> PanelId[i]]
    BY AnswersFit, LenProperties, DeviceAssumption
  <2>3. Payload' \in {PanelId, <<>>} /\ pc' = "reply" /\ sent' = <<>>
    BY <1>1, <2>1, <2>2, GivenIs, RefusedIs DEF Fresh
  <2> QED BY <1>1, <1>2, <1>3, <2>1, <2>3, ToldBy DEF Told
<1> QED BY <1>6, <1>7, <1>8, <1>9, <1>10

LEMMA MemoryHandlers ==
  ASSUME Held, Doing, MemRead \/ MemWrite
  PROVE  Doing'
<1>1. Fresh /\ before = Now /\ req \in Request
  BY DEF Doing, MemRead, MemWrite, Runs, At, Held, BoardTypes
<1>2. UNCHANGED <<display, doom, host>> /\ req' = req /\ before' = before
  BY DEF MemRead, MemWrite, host
<1> DEFINE addr == req.args[1]
           len == req.args[2]
<1>3. CASE MemRead
  <2>1. ram' = ram /\ Now' = Now
    BY <1>2, <1>3, NowStays DEF MemRead, doom, Wanted
  <2>2. req.op = "mem_read"
    BY <1>3 DEF MemRead, Runs
  <2> DEFINE ok == Complete(req) /\ RspCap >= len /\ ReadAllowed(addr, len)
             s == [i \in 1 .. len |-> LET a == addr + i - 1
                                      IN  IF a \in Flash THEN <<"flash", a>> ELSE ram[a]]
  <2>3. IF ok THEN Give(s) ELSE Refuse
    BY <1>3 DEF MemRead
  <2>4. ok <=> B!Legal(req, {B!Flash, B!Dtcm, B!Axi})
    BY <1>1, <2>2, ReadLegal
  <2>5. ASSUME pc' = "reply"  PROVE (B!Read(req))' = IF ok THEN s ELSE <<>>
    <3>1. Seen'.ram = ram
      BY <1>1, <1>2, <2>5, NowIs DEF Seen, At
    <3>2. \A a : (B!Cell(a))' = IF a \in Flash THEN <<"flash", a>> ELSE ram[a]
      BY <3>1, BoardWords DEF B!Cell
    <3> HIDE DEF ok
    <3> QED BY <1>2, <2>4, <3>2 DEF B!Read
  <2>6. CASE ok
    <3>1. len \in 0 .. RspCap
      BY <1>1, <2>2, <2>6, RangeArguments, DeviceAssumption DEF Address
    <3>2. s = [i \in 1 .. len |-> s[i]]
      OBVIOUS
    <3>3. Give(s)
      BY <2>3, <2>6
    <3> HIDE DEF s, ok
    <3>4. Payload' = s /\ pc' = "reply" /\ sent' = <<>>
      BY <1>1, <3>1, <3>2, <3>3, GivenIs
    <3>5. Payload' = (B!Read(req))'
      BY <2>5, <2>6, <3>4
    <3> QED BY <1>1, <1>2, <2>1, <2>2, <3>4, <3>5, ToldBy DEF Told
  <2>7. CASE ~ok
    <3>1. Refuse
      BY <2>3, <2>7
    <3> HIDE DEF ok, s
    <3>2. Payload' = <<>> /\ pc' = "reply" /\ sent' = <<>>
      BY <1>1, <3>1, RefusedIs DEF Fresh
    <3>3. Payload' = (B!Read(req))'
      BY <2>5, <2>7, <3>2
    <3> QED BY <1>1, <1>2, <2>1, <2>2, <3>2, <3>3, ToldBy DEF Told
  <2> QED BY <2>6, <2>7
<1>4. CASE MemWrite
  <2>1. req.op = "mem_write"
    BY <1>4 DEF MemWrite, Runs
  <2> DEFINE ok == Complete(req) /\ WriteAllowed(addr, len, Len(req.data))
             new == [a \in DOMAIN ram |->
                       IF a \in Cells(addr, len) THEN req.data[a - addr + 1] ELSE ram[a]]
  <2>2. /\ ok => ram' = new /\ Quiet("ok")
        /\ ~ok => ram' = ram /\ Quiet("failed")
    BY <1>4 DEF MemWrite
  <2>3. ok <=> /\ B!Legal(req, {B!Dtcm, B!Axi}) /\ len <= Len(req.data) /\ len # 0
    BY <1>1, <2>1, WriteLegal
  <2>4. ram = [a \in Dtcm \cup Axi |-> ram[a]]
    BY DEF Doing
  <2>5. len = 0 /\ Complete(req) => new = ram
    BY <1>1, <2>1, <2>4, RangeArguments DEF Cells, Address
  <2> HIDE DEF ok
  <2>6. Payload' = <<>> /\ pc' = "reply" /\ sent' = <<>>
    BY <1>1, <2>2, RefusedIs DEF Fresh
  <2>7. Seen'.ram = ram
    BY <1>1, <1>2, <2>6, NowIs DEF Seen, At
  <2>8. (B!Written(req))' = IF B!Legal(req, {B!Dtcm, B!Axi}) /\ len <= Len(req.data)
                           THEN new ELSE ram
    BY <1>2, <2>7, BoardWords DEF B!Written
  <2>9. ram' = (B!Written(req))'
    BY <2>2, <2>3, <2>5, <2>8, BoardWords DEF B!Legal
  <2>10. ram' = [a \in Dtcm \cup Axi |-> ram'[a]]
    BY <2>2, <2>4
  <2>11. /\ Now'.screen = before.screen /\ lit' = before.lit /\ Mode' = before.mode
         /\ Wanted' = before.doom
    BY <1>1, <1>2 DEF Now, display, doom, Mode, Wanted
  <2>12. Stored'
    BY <1>2, <2>1, <2>6, <2>9, <2>11 DEF Stored
  <2> QED BY <1>2, <2>1, <2>6, <2>10, <2>12 DEF Doing
<1> QED BY <1>3, <1>4

LEMMA UnwrittenShows == \A f \in Format : ReadBack(f, Unwritten(f)) = Unwritten(f)
<1> SUFFICES ASSUME NEW f \in Format PROVE ReadBack(f, Unwritten(f)) = Unwritten(f)
  OBVIOUS
<1>1. CASE f = "ARGB8888"
  <2> DEFINE px == [i \in 1 .. 4 |-> Unknown]
  <2>1. Unwritten(f) = px
    BY <1>1 DEF Unwritten, BytesPerPixel
  <2>2. Len(px) = 4
    OBVIOUS
  <2>3. Reverse(px) = [i \in 1 .. 4 |-> px[(4 - i) + 1]]
    BY <2>2 DEF Reverse
  <2>4. Reverse(px) = px
    BY <2>3
  <2> QED BY <1>1, <2>1, <2>4 DEF ReadBack
<1>2. CASE f # "ARGB8888"
  BY <1>2 DEF ReadBack
<1> QED BY <1>1, <1>2

LEMMA NoPanel == NoInfo.format \in Format /\ Unwritten(NoInfo.format) = Unwritten("none")
  BY DEF NoInfo, Format, Unwritten, BytesPerPixel

\* What a driver that succeeds can have been.
LEMMA ReadableMode ==
  ASSUME Held, DriverReads
  PROVE  /\ Mode \notin Formats \ Readable
         /\ BytesPerPixel(Mode) = Bpp /\ Unwritten(Mode) = Unwritten(info.format)
<1>1. CASE ~ready
  <2>1. Mode = "none" /\ info = NoInfo
    BY <1>1 DEF Mode, Held, PanelFound
  <2>2. "none" \notin Formats
    BY DeviceAssumption DEF Format
  <2>3. BytesPerPixel(Mode) = Bpp
    BY <2>1 DEF Bpp, BytesPerPixel, NoInfo
  <2> QED BY <2>1, <2>2, <2>3 DEF Unwritten, Bpp
<1>2. CASE ready
  <2>1. PICK f \in Formats : info = Found(f)
    BY <1>2 DEF Held, PanelFound
  <2>2. Mode = f /\ info.format = f /\ (info.can_read <=> f \in Readable)
    BY <1>2, <2>1 DEF Mode, Found
  <2> QED BY <1>2, <2>2 DEF DriverReads, Bpp
<1> QED BY <1>1, <1>2

LEMMA ReadHandler ==
  ASSUME Held, Doing, DispRead
  PROVE  Doing'
<1>1. Fresh /\ before = Now /\ req \in Request /\ req.op = "disp_read"
  BY DEF Doing, DispRead, Runs, At, Held, BoardTypes
<1>2. UNCHANGED <<ram, display, doom, host>> /\ req' = req /\ before' = before
  BY DEF DispRead, host
<1>3. Now' = Now
  BY <1>2, NowStays DEF doom, Wanted
<1>4. ASSUME Refuse  PROVE Doing'
  <2>1. Payload' = <<>> /\ pc' = "reply" /\ sent' = <<>>
    BY <1>1, <1>4, RefusedIs DEF Fresh
  <2> QED BY <1>1, <1>2, <1>3, <2>1, ToldBy DEF Told
<1> DEFINE x == req.args[1]
           y == req.args[2]
           w == req.args[3]
           h == req.args[4]
           size == w * h * Bpp
           bytes == size % Word
           Spot(i) == <<x + (i % w), y + (i \div w)>>
           Bytes(p) == IF p \in Pixels THEN screen[p] ELSE Unwritten(info.format)
           Pixel(i) == ReadBack(info.format, Bytes(Spot(i)))
           s == [i \in 1 .. bytes |-> Pixel((i - 1) \div Bpp)[((i - 1) % Bpp) + 1]]
<1>5. CASE pc' = "lost" /\ UNCHANGED <<rc, output>>
  <2>1. ram' = ram /\ before' = before /\ pc' = "lost"
    BY <1>2, <1>5
  <2> QED BY <2>1 DEF Doing
<1>6. ASSUME Complete(req), size <= RspCap, DriverReads, rsp' = Put(rsp, s), rsp_len' = bytes,
             pc' = "reply", UNCHANGED <<rc, sent>>
      PROVE  Doing'
  <2>1. w \in Nat /\ h \in Nat
    <3>1. req.args \in Seq(Nat) /\ Len(req.args) >= 4
      BY <1>1, <1>6, RequestIs DEF Complete, Arguments
    <3> QED BY <3>1
  <2>2. Bpp \in {2, 3, 4} /\ info.format \in Format
    BY InfoIs DEF Held
  <2>3. size \in Nat
    <3> HIDE DEF w, h
    <3> QED BY <2>1, <2>2
  <2>4. bytes = size
    <3> HIDE DEF size
    <3> QED BY <1>6, <2>3, FitsInWord
  <2>5. Mode \notin Formats \ Readable /\ BytesPerPixel(Mode) = Bpp
        /\ Unwritten(Mode) = Unwritten(info.format)
    BY <1>6, ReadableMode
  <2>6. Payload' = s
    <3>1. s = [i \in 1 .. bytes |-> s[i]]
      OBVIOUS
    <3>2. bytes \in 0 .. RspCap /\ DOMAIN rsp = 1 .. RspCap /\ RspCap \in Nat
      <4> HIDE DEF size, bytes
      <4> QED BY <1>6, <2>3, <2>4, DeviceAssumption DEF Held, BoardTypes
    <3>3. rsp' = Put(rsp, s) /\ rsp_len' = bytes /\ rc' = "ok"
      BY <1>1, <1>6 DEF Fresh
    <3> HIDE DEF s, bytes
    <3>4. SubSeq(Put(rsp, s), 1, bytes) = s
      BY <3>1, <3>2, PutFront
    <3> QED BY <3>3, <3>4 DEF Payload
  <2>7. Seen'.mode = Mode /\ Seen'.screen = Now.screen
    BY <1>1, <1>2, <1>3, <1>6, NowIs DEF Seen, At
  <2> DEFINE Reads(p) == IF p \in Pixels THEN Now.screen[p] ELSE Unwritten(Mode)
  <2>8. (B!Rows(req))' =
          [i \in 1 .. size |-> Reads(Spot((i - 1) \div Bpp))[((i - 1) % Bpp) + 1]]
    BY <1>2, <2>5, <2>7, BoardWords DEF B!Rows
  <2>9. \A p : Reads(p) = ReadBack(info.format, Bytes(p))
    BY <2>2, <2>5, NowIs, UnwrittenShows
  <2>10. (B!Rows(req))' = s
    <3>1. (B!Rows(req))' =
            [i \in 1 .. bytes |-> Reads(Spot((i - 1) \div Bpp))[((i - 1) % Bpp) + 1]]
      BY <2>4, <2>8
    <3> HIDE DEF Reads, Bytes, bytes, Spot
    <3> QED BY <2>9, <3>1
  <2>11. /\ (Mode \notin Formats \ Readable)' /\ Complete(req)' /\ req'.op = "disp_read"
         /\ (req.args[3] * req.args[4] * BytesPerPixel(Mode))' <= RspCap
    <3>1. Mode' = Mode
      BY <1>2 DEF Mode, display
    <3> QED BY <1>1, <1>2, <1>6, <2>5, <3>1
  <2>12. Payload' = (B!Rows(req))'
    BY <2>6, <2>10
  <2> HIDE DEF s, bytes, size, x, y, w, h, Spot, Bytes, Pixel
  <2>13. Told'
    BY <1>1, <1>2, <1>3, <2>11, <2>12 DEF Told
  <2>14. sent' = <<>>
    BY <1>1, <1>6 DEF Fresh
  <2> QED BY <1>2, <1>6, <2>13, <2>14, ToldBy
<1> QED BY <1>4, <1>5, <1>6 DEF DispRead

-----------------------------------------------------------------------------
\* A fill: it has come past no pixel, then past a piece more, then past all.
LEMMA FillBegins ==
  ASSUME Held, Doing, FillBegin
  PROVE  Doing'
<1>1. Fresh /\ before = Now /\ req.op \in {"disp_fill", "disp_blank_off"}
  BY DEF Doing, FillBegin, Runs, At
<1>2. /\ UNCHANGED <<ram, display, doom, host>> /\ req' = req /\ before' = before
      /\ at' = <<0, 0>>
  BY DEF FillBegin, host
<1>3. Now' = Now
  BY <1>2, NowStays DEF doom, Wanted
<1>4. CASE pc' = "fill"
  <2>1. sent' = <<>> /\ (req.op = "disp_blank_off" => rsp_len' = 0)
        /\ (req.op = "disp_fill" => Complete(req) /\ Fresh')
    BY <1>1, <1>4 DEF FillBegin, Fresh, Runs, Refuse, output
  <2>2. Covered' = {}
    BY <1>2 DEF Covered, Pixels
  <2>3. Painted({}, before.screen)'
    BY <1>1, <1>2, <1>3, NowIs DEF Painted
  <2>4. FillGoesOn(Covered)' /\ lit' = before'.lit
    BY <1>1, <1>2, <1>3, <2>2, <2>3, NowIs DEF FillGoesOn, Mode, display, Wanted, doom
  <2>5. Filling'
    BY <1>2, <2>1, <2>4 DEF Filling
  <2> QED BY <1>2, <1>4, <2>5 DEF Doing
<1>5. CASE pc' # "fill"
  <2>1. req.op = "disp_fill" /\ ~Complete(req) /\ Refuse
    BY <1>5 DEF FillBegin, Runs
  <2>2. Payload' = <<>> /\ pc' = "reply" /\ sent' = <<>>
    BY <1>1, <2>1, RefusedIs DEF Fresh
  <2> QED BY <1>1, <1>2, <1>3, <2>1, <2>2, ToldBy DEF Told
<1> QED BY <1>4, <1>5

\* A piece more of the picture.
LEMMA CoveredGrows ==
  ASSUME Held, pc = "fill", at[2] < info.height, at' = NextChunk
  PROVE  Covered' = Covered \cup
           {p \in Pixels : p[2] = at[2] /\ p[1] \in at[1] .. at[1] + ChunkWidth - 1}
<1> DEFINE n == ChunkWidth
<1>1. /\ at \in (0 .. Width - 1) \X (0 .. Height) /\ Width \in Nat \ {0} /\ Height \in Nat \ {0}
  BY DeviceAssumption DEF Held, BoardTypes
<1>2. info.height = Height /\ info.width = Width /\ Bpp \in {2, 3, 4}
  BY <1>1, InfoIs DEF Held
<1>3. n \in Nat
  BY <1>1, <1>2, DeviceAssumption DEF ChunkWidth
<1>4. at' = IF at[1] + n < Width THEN <<at[1] + n, at[2]>> ELSE <<0, at[2] + 1>>
  BY <1>2 DEF NextChunk
<1> HIDE DEF n
<1>5. ASSUME NEW p \in Pixels
      PROVE  (p[2] < at'[2] \/ (p[2] = at'[2] /\ p[1] < at'[1]))
               <=> \/ p[2] < at[2] \/ (p[2] = at[2] /\ p[1] < at[1])
                   \/ p[2] = at[2] /\ p[1] \in at[1] .. at[1] + n - 1
  <2>1. p[1] \in 0 .. Width - 1 /\ p[2] \in 0 .. Height - 1
    BY DEF Pixels
  <2>2. at[1] \in 0 .. Width - 1 /\ at[2] \in 0 .. Height
    BY <1>1
  <2>3. CASE at[1] + n < Width
    <3>1. at'[1] = at[1] + n /\ at'[2] = at[2]
      BY <1>4, <2>3
    <3> QED BY <1>3, <2>1, <2>2, <2>3, <3>1
  <2>4. CASE ~(at[1] + n < Width)
    BY <1>1, <1>3, <1>4, <2>1, <2>2, <2>4
  <2> QED BY <2>3, <2>4
<1> QED BY <1>5 DEF Covered, n

LEMMA CoveredAll ==
  ASSUME Held, at[2] >= info.height, Covered \subseteq Panel
  PROVE  Covered = Panel
<1>1. CASE ~ready
  BY <1>1 DEF Panel
<1>2. CASE ready
  <2>1. info.height = Height /\ at \in (0 .. Width - 1) \X (0 .. Height)
    BY <1>2 DEF Held, PanelFound, Found, BoardTypes
  <2>2. \A p \in Pixels : p[2] < at[2]
    BY <2>1, DeviceAssumption DEF Pixels
  <2> QED BY <1>2, <2>2 DEF Covered, Panel
<1> QED BY <1>1, <1>2

LEMMA PaintedMore ==
  ASSUME NEW S, NEW T, NEW rest, Painted(S, rest), UNCHANGED <<info, req>>,
         screen' = [p \in Pixels |-> IF p \in T THEN PixelBytes(info.format, Colour) ELSE screen[p]]
  PROVE  Now'.screen = [p \in Pixels |-> IF p \in S \cup T THEN Shown(Colour) ELSE rest[p]]
<1>1. Now'.screen = [p \in Pixels |-> ReadBack(info.format, screen'[p])]
  BY NowIs DEF Now
<1>2. \A p \in Pixels :
        ReadBack(info.format, screen[p]) = IF p \in S THEN Shown(Colour) ELSE rest[p]
  BY NowIs DEF Painted
<1>3. \A p \in Pixels : ReadBack(info.format, screen'[p])
                          = IF p \in S \cup T THEN Shown(Colour) ELSE rest[p]
  BY <1>2 DEF Shown
<1> QED BY <1>1, <1>3

\* The pictures of the two kinds, when nothing but the place to go on changes.
LEMMA PictureStays ==
  ASSUME NEW S, UNCHANGED <<ram, display, doom, host>>
  PROVE  /\ FillGoesOn(S) => FillGoesOn(S)'
         /\ BootGoesOn(S) => BootGoesOn(S)'
<1>1. /\ Now' = Now /\ req' = req /\ before' = before /\ ram' = ram /\ lit' = lit /\ Mode' = Mode
      /\ Wanted' = Wanted /\ Panel' = Panel /\ ready' = ready
  BY NowStays DEF doom, Wanted, host, display, Mode, Panel
<1>2. Shown(Colour)' = Shown(Colour)
  BY <1>1 DEF Shown, Colour, display
<1>3. \A rest : Painted(S, rest) =>
        Now'.screen = [p \in Pixels |-> IF p \in S THEN Shown(Colour)' ELSE rest[p]]
  BY <1>1, <1>2 DEF Painted
<1> QED BY <1>1, <1>3 DEF FillGoesOn, BootGoesOn, Painted

\* A fill that returns, for any of its three callers.
LEMMA FillReturns ==
  ASSUME Held, Doing, pc = "fill", UNCHANGED <<ram, display, doom, output, host>>,
         NEW e \in {"ok", "failed"}, FillReturn(e), e = "ok" => Covered = Panel
  PROVE  Doing'
<1>1. /\ req' = req /\ before' = before /\ ram' = ram /\ lit' = lit /\ Panel' = Panel
      /\ rsp' = rsp /\ rsp_len' = rsp_len /\ sent' = sent
  BY DEF host, display, output, Panel
<1>2. Filling \/ BootGoesOn(Covered)
  BY DEF Doing
<1>3. CASE BootGoesOn(Covered)
  <2>1. req.op = "reboot" /\ pc' = "booted"
    BY <1>3 DEF BootGoesOn, FillReturn
  <2>2. PICK S : S = Covered /\ BootGoesOn(S)
    BY <1>3
  <2>3. BootGoesOn(S)' /\ S \in SUBSET Panel
    BY <2>2, PictureStays DEF BootGoesOn
  <2>4. \E T \in SUBSET Panel' : BootGoesOn(T)'
    BY <1>1, <2>3
  <2> QED BY <1>1, <2>1, <2>4 DEF Doing
<1>4. CASE Filling
  <2>1. PICK S : S = Covered /\ FillGoesOn(S)
    BY <1>4 DEF Filling
  <2>2. FillGoesOn(S)' /\ S \in SUBSET Panel
    BY <2>1, PictureStays DEF FillGoesOn
  <2>3. \E T \in SUBSET Panel' : FillGoesOn(T)'
    BY <1>1, <2>2
  <2>4. lit' = before'.lit /\ sent' = <<>> /\ req.op \in {"disp_fill", "disp_blank_off"}
    BY <1>1, <1>4 DEF Filling, FillGoesOn
  <2>5. CASE req.op = "disp_blank_off"
    <3>1. pc' = "unblank"
      BY <2>5 DEF FillReturn
    <3> QED BY <1>1, <2>3, <2>4, <2>5, <3>1 DEF Doing
  <2>6. CASE req.op = "disp_fill"
    <3>1. pc' = "reply" /\ rc' = e /\ Complete(req) /\ Fresh
      BY <1>4, <2>6 DEF FillReturn, Filling
    <3>2. CASE e = "failed"
      <4>1. Payload' = <<>>
        BY <3>1, <3>2, FrontOf DEF Payload
      <4>2. Filled'
        BY <1>1, <2>3, <2>4, <2>6, <3>1, <4>1 DEF Filled
      <4> QED BY <1>1, <2>4, <2>6, <3>1, <4>2 DEF Doing
    <3>3. CASE e = "ok"
      <4> DEFINE stale == [i \in 1 .. RspCap |-> Stale]
      <4>1. rsp' = stale /\ rsp_len' = RspCap /\ RspCap \in Nat
        BY <1>1, <3>1, DeviceAssumption DEF Fresh
      <4>2. SubSeq(stale, 1, RspCap) = [i \in 1 .. RspCap |-> stale[i]]
        BY <4>1, FrontOf
      <4>3. Payload' = stale
        BY <3>1, <3>3, <4>1, <4>2 DEF Payload
      <4>4. FillGoesOn(Panel)'
        BY <1>1, <2>1, <2>2, <3>3
      <4>5. Filled'
        BY <1>1, <2>4, <2>6, <3>1, <4>3, <4>4 DEF Filled
      <4> QED BY <1>1, <2>4, <2>6, <3>1, <4>5 DEF Doing
    <3> QED BY <3>2, <3>3
  <2> QED BY <2>4, <2>5, <2>6
<1> QED BY <1>2, <1>3, <1>4

LEMMA FillHandlers ==
  ASSUME Held, Doing, FillChunk \/ FillEnd
  PROVE  Doing'
<1>1. pc = "fill" /\ UNCHANGED <<ram, lit, ready, info, doom, output, host>>
  BY DEF FillChunk, FillEnd, At, display
<1>2. CASE FillEnd
  <2>1. Covered \subseteq Panel /\ at[2] >= info.height /\ FillReturn("ok") /\ UNCHANGED display
    BY <1>1, <1>2 DEF Doing, Filling, FillGoesOn, BootGoesOn, FillEnd
  <2>2. Covered = Panel
    BY <2>1, CoveredAll
  <2> QED BY <1>1, <2>1, <2>2, FillReturns
<1>3. CASE FillChunk /\ FillReturn("failed") /\ UNCHANGED screen
  BY <1>1, <1>3, FillReturns DEF display
<1>4. CASE FillChunk /\ at' = NextChunk /\ UNCHANGED <<pc, rc>>
           /\ screen' = [p \in Pixels |->
                        IF p[2] = at[2] /\ p[1] \in at[1] .. at[1] + ChunkWidth - 1
                        THEN PixelBytes(info.format, Colour) ELSE screen[p]]
  <2> DEFINE T == {p \in Pixels : p[2] = at[2] /\ p[1] \in at[1] .. at[1] + ChunkWidth - 1}
  <2>1. at[2] < info.height
    BY <1>4 DEF FillChunk
  <2>2. Covered' = Covered \cup T
    BY <1>1, <1>4, <2>1, CoveredGrows
  <2>3. screen' = [p \in Pixels |-> IF p \in T THEN PixelBytes(info.format, Colour) ELSE screen[p]]
    BY <1>4
  <2>4. T \subseteq Pixels
    OBVIOUS
  <2>5. ready
    <3>1. info.height # 0
      BY <2>1 DEF Held, BoardTypes
    <3> QED BY <3>1, InfoIs DEF Held
  <2> HIDE DEF T
  <2>6. /\ req' = req /\ before' = before /\ ram' = ram /\ lit' = lit /\ ready' = ready
        /\ info' = info /\ Mode' = Mode /\ Wanted' = Wanted /\ Panel' = Pixels /\ Panel = Pixels
        /\ Colour' = Colour /\ sent' = sent /\ Fresh' = Fresh /\ rsp_len' = rsp_len
    BY <1>1, <1>4, <2>5 DEF host, output, Mode, doom, Wanted, Panel, Colour, Fresh
  <2>7. Shown(Colour)' = Shown(Colour)
    BY <2>6 DEF Shown
  <2>8. \A rest : Painted(Covered, rest) => Now'.screen =
                    [p \in Pixels |-> IF p \in Covered' THEN Shown(Colour)' ELSE rest[p]]
    BY <2>2, <2>3, <2>6, <2>7, PaintedMore
  <2>9. CASE Filling
    <3>1. FillGoesOn(Covered)'
      BY <2>2, <2>4, <2>6, <2>8, <2>9 DEF Filling, FillGoesOn, Painted
    <3>2. Filling'
      BY <2>6, <2>9, <3>1 DEF Filling
    <3> QED BY <1>1, <1>4, <2>6, <3>2 DEF Doing
  <2>10. CASE BootGoesOn(Covered)
    <3>1. BootGoesOn(Covered)'
      BY <2>2, <2>4, <2>6, <2>8, <2>10 DEF BootGoesOn, Painted
    <3> QED BY <1>1, <1>4, <2>6, <3>1 DEF Doing
  <2> QED BY <1>1, <2>9, <2>10 DEF Doing
<1> QED BY <1>2, <1>3, <1>4 DEF FillChunk

LEMMA LightHandlers ==
  ASSUME Held, Doing, Unblank \/ BlankOn
  PROVE  Doing'
<1>1. /\ UNCHANGED <<ram, screen, ready, info, doom, at, host>> /\ req' = req /\ before' = before
      /\ \E e \in {"ok", "failed"} : Quiet(e)
  BY DEF Unblank, BlankOn, host
<1>2. Payload' = <<>> /\ pc' = "reply" /\ sent' = sent
  BY <1>1, RefusedIs
<1>3. /\ Now'.screen = Now.screen /\ ram' = ram /\ Mode' = Mode /\ Wanted' = Wanted
      /\ ready' = ready /\ Panel' = Panel /\ info' = info
  BY <1>1 DEF Now, Mode, Wanted, doom, Panel
<1>4. CASE Unblank
  <2>1. pc = "unblank" /\ lit' \in {lit} \cup (IF ready THEN {TRUE} ELSE {})
    BY <1>4 DEF Unblank, At
  <2>2. PICK S \in SUBSET Panel : FillGoesOn(S)
    BY <2>1 DEF Doing
  <2>3. req.op = "disp_blank_off" /\ lit = before.lit /\ sent = <<>>
    BY <2>1 DEF Doing
  <2>4. Shown(Colour)' = Shown(Colour)
    BY <1>1, <1>3 DEF Shown, Colour
  <2>5. FillGoesOn(S)'
    BY <1>1, <1>3, <2>2, <2>4 DEF FillGoesOn, Painted
  <2>7. (lit \in {before.lit} \cup (IF ready THEN {req.op = "disp_blank_off"} ELSE {}))'
    <3>1. (req'.op = "disp_blank_off") = TRUE
      BY <1>1, <2>3
    <3>2. lit' \in {before'.lit} \cup (IF ready' THEN {TRUE} ELSE {})
      BY <1>1, <2>1, <2>3
    <3> QED BY <3>1, <3>2, Zenon
  <2>8. (\E T \in SUBSET Panel : FillGoesOn(T) /\ req.op = "disp_blank_off")'
    BY <1>1, <1>3, <2>3, <2>5
  <2>6. Blanked'
    BY <1>2, <2>7, <2>8, Zenon DEF Blanked
  <2> QED BY <1>1, <1>2, <1>3, <2>3, <2>6 DEF Doing
<1>5. CASE BlankOn
  <2>1. /\ pc = "run" /\ req.op = "disp_blank_on"
        /\ lit' \in {lit} \cup (IF ready THEN {FALSE} ELSE {})
    BY <1>5 DEF BlankOn, Runs, At
  <2>2. before = Now /\ sent = <<>>
    BY <2>1 DEF Doing, Fresh
  <2>4. (lit \in {before.lit} \cup (IF ready THEN {req.op = "disp_blank_off"} ELSE {}))'
    <3>1. (req'.op = "disp_blank_off") = FALSE
      BY <1>1, <2>1
    <3>2. lit' \in {before'.lit} \cup (IF ready' THEN {FALSE} ELSE {})
      BY <1>1, <2>1, <2>2, NowIs
    <3> QED BY <3>1, <3>2, Zenon
  <2>5. (/\ req.op = "disp_blank_on"
         /\ ram = before.ram /\ Now.screen = before.screen /\ Mode = before.mode
         /\ Wanted = before.doom)'
    BY <1>1, <1>3, <2>1, <2>2, NowIs
  <2>3. Blanked'
    BY <1>2, <2>4, <2>5, Zenon DEF Blanked
  <2> QED BY <1>1, <1>2, <1>3, <2>1, <2>2, <2>3 DEF Doing
<1> QED BY <1>4, <1>5

LEMMA DoomHandlers ==
  ASSUME Held, ThreadInv, Doing, DoomCall \/ DoomWork \/ DoomReturn \/ DoomStatus
  PROVE  Doing'
<1>1. /\ UNCHANGED <<ram, display, host>> /\ req' = req /\ before' = before
      /\ doom_state \in {"STOPPED", "STARTING", "RUNNING"}
  BY DEF DoomCall, DoomWork, DoomReturn, DoomStatus, host, ThreadInv, D!TypeOK
<1>2. Now'.screen = Now.screen /\ ram' = ram /\ lit' = lit /\ Mode' = Mode
  BY <1>1 DEF Now, display, Mode
<1>3. CASE DoomCall
  <2>1. /\ pc = "run" /\ pc' = "doom" /\ rsp_len' = 0 /\ sent' = sent
        /\ doom_state' = doom_state
    BY <1>3 DEF DoomCall, Runs, At, D!Start, D!Stop
  <2>2. before = Now /\ sent = <<>> /\ doom_state # "STARTING"
    BY <2>1 DEF Doing, Fresh
  <2>3. \/ req.op = "doom_start" /\ IF handler' = "idle" THEN Wanted' ELSE handler' = "create"
        \/ req.op = "doom_stop" /\ IF handler' = "idle" THEN ~Wanted' ELSE handler' = "stop"
    BY <1>1, <1>3, <2>1, <2>2 DEF DoomCall, Runs, D!Start, D!Stop, Wanted
  <2>4. DoomGoesOn'
    BY <1>1, <1>2, <2>1, <2>2, <2>3, NowIs DEF DoomGoesOn
  <2> QED BY <1>1, <1>2, <2>1, <2>2, <2>4 DEF Doing
<1>4. CASE DoomWork
  <2>1. pc = "doom" /\ pc' = "doom" /\ rsp_len' = rsp_len /\ sent' = sent
    BY <1>4 DEF DoomWork, At, output
  <2>2. DoomGoesOn /\ sent = <<>>
    BY <2>1 DEF Doing
  <2>3. \/ req.op = "doom_start" /\ IF handler' = "idle" THEN Wanted' ELSE handler' = "create"
        \/ req.op = "doom_stop" /\ IF handler' = "idle" THEN ~Wanted' ELSE handler' = "stop"
    BY <1>4, <2>2 DEF DoomWork, DoomGoesOn, D!Create, D!StopStore, Wanted
  <2>4. DoomGoesOn'
    BY <1>1, <1>2, <2>1, <2>2, <2>3 DEF DoomGoesOn
  <2> QED BY <1>1, <1>2, <2>1, <2>2, <2>4 DEF Doing
<1>5. CASE DoomReturn
  <2>1. /\ pc = "doom" /\ pc' = "reply" /\ rsp_len' = rsp_len /\ rsp' = rsp /\ handler = "idle"
        /\ sent' = (IF req.op = "doom_start" THEN <<B!Log("doom start")>> ELSE sent)
        /\ handler' = handler /\ Wanted' = Wanted
    BY <1>5 DEF DoomReturn, At, doom, Wanted
  <2>2. DoomGoesOn /\ sent = <<>>
    BY <2>1 DEF Doing
  <2>3. Payload' = <<>>
    <3>1. SubSeq(rsp, 1, 0) = <<>>
      BY FrontOf
    <3>2. rsp' = rsp /\ rsp_len' = 0
      BY <2>1, <2>2 DEF DoomGoesOn
    <3> QED BY <3>1, <3>2 DEF Payload
  <2>4. DoomGoesOn'
    BY <1>1, <1>2, <2>1, <2>2 DEF DoomGoesOn
  <2>5. Switched'
    BY <2>1, <2>3, <2>4 DEF Switched
  <2> QED BY <1>1, <1>2, <2>1, <2>2, <2>5 DEF Doing
<1>6. CASE DoomStatus
  <2> DEFINE s == <<doom_state, doom_ticks>>
  <2>1. Runs("doom_status") /\ Give(s) /\ UNCHANGED doom
    BY <1>6 DEF DoomStatus
  <2>2. pc = "run" /\ req.op = "doom_status"
    BY <2>1 DEF Runs, At
  <2>3. Fresh /\ before = Now /\ doom_state # "STARTING"
    BY <2>2 DEF Doing
  <2>4. s = [i \in 1 .. 2 |-> s[i]] /\ 2 \in 0 .. RspCap
    BY AnswersFit, DeviceAssumption
  <2>5. doom_state = (IF Wanted THEN "RUNNING" ELSE "STOPPED") /\ doom_ticks \in 0 .. TickMod - 1
    BY <1>1, <2>3 DEF Wanted, ThreadInv, D!TypeOK
  <2>6. Now' = Now /\ Wanted' = Wanted
    BY <1>1, <2>1, NowStays DEF doom, Wanted
  <2> HIDE DEF s
  <2>7. Payload' = s /\ pc' = "reply" /\ sent' = <<>>
    BY <2>1, <2>3, <2>4, GivenIs
  <2>8. Payload' = <<IF Wanted' THEN "RUNNING" ELSE "STOPPED", doom_ticks>>
    BY <2>5, <2>6, <2>7 DEF s
  <2>9. Told'
    BY <1>1, <2>2, <2>3, <2>5, <2>6, <2>8 DEF Told
  <2> QED BY <1>1, <2>1, <2>7, <2>9, ToldBy
<1> QED BY <1>3, <1>4, <1>5, <1>6

\* Nor does a step that leaves all but the thread alone, and what of the thread
\* Board knows of.
LEMMA NothingSeen ==
  ASSUME Doing, UNCHANGED <<ram, display, pc, rc, at, output, host>>,
         handler' = handler, Wanted' = Wanted,
         doom_state # "STARTING" => doom_state' # "STARTING"
  PROVE  Doing' /\ Seen' = Seen /\ answer' = answer
<1>1. UNCHANGED <<ram, display, pc, rc, at, output, host>>
  OBVIOUS
<1>2. /\ handler' = handler /\ Wanted' = Wanted
      /\ doom_state # "STARTING" => doom_state' # "STARTING"
  OBVIOUS
<1>3. Now' = Now
  BY <1>1, <1>2, NowStays
<1>4. /\ req' = req /\ before' = before /\ answer' = answer /\ pc' = pc /\ ram' = ram
      /\ lit' = lit /\ ready' = ready /\ info' = info /\ Mode' = Mode /\ sent' = sent
      /\ rsp_len' = rsp_len
  BY <1>1 DEF host, display, output, Mode
<1>5. Seen' = Seen
  BY <1>3, <1>4 DEF Seen, At
<1>6. Panel' = Panel /\ Covered' = Covered /\ Payload' = Payload /\ Fresh' = Fresh
  BY <1>1, <1>4 DEF Panel, Covered, Payload, Fresh, output
<1>7. ASSUME NEW S
      PROVE  FillGoesOn(S)' = FillGoesOn(S) /\ BootGoesOn(S)' = BootGoesOn(S)
  <2>1. Shown(Colour)' = Shown(Colour)
    BY <1>4 DEF Shown, Colour
  <2>2. \A rest : Painted(S, rest)' = Painted(S, rest)
    BY <1>3, <2>1 DEF Painted
  <2> QED BY <1>2, <1>4, <1>6, <2>1, <1>3 DEF FillGoesOn, BootGoesOn, Painted
<1>8. ASSUME Filling PROVE Filling'
  BY <1>4, <1>6, <1>7, <1>8 DEF Filling
<1>9. ASSUME BootGoesOn(Covered) PROVE BootGoesOn(Covered)'
  BY <1>6, <1>7, <1>9
<1>10. DoomGoesOn => DoomGoesOn'
  BY <1>2, <1>3, <1>4 DEF DoomGoesOn
<1>11. Told => Told'
  <2>1. /\ (B!Text(req))' = B!Text(req) /\ (B!Read(req))' = B!Read(req)
        /\ (B!Rows(req))' = B!Rows(req)
    BY <1>4, <1>5 DEF B!Text, B!Read, B!Rows, B!Cell
  <2> QED BY <1>2, <1>3, <1>4, <1>6, <2>1 DEF Told
<1>12. Stored => Stored'
  <2>1. (B!Written(req))' = B!Written(req)
    BY <1>4, <1>5 DEF B!Written
  <2> QED BY <1>2, <1>3, <1>4, <1>6, <2>1 DEF Stored
<1>13. Filled => Filled'
  BY <1>4, <1>6, <1>7 DEF Filled
<1>14. Blanked => Blanked'
  BY <1>2, <1>3, <1>4, <1>6, <1>7 DEF Blanked
<1>15. Switched => Switched'
  BY <1>2, <1>6, <1>10 DEF Switched
<1>16. Doing'
  <2>1. pc = "run" => (Fresh /\ before = Now /\ doom_state # "STARTING" /\ req.op # "unknown")'
    BY <1>2, <1>3, <1>4, <1>6 DEF Doing
  <2>2. pc = "boot" => (BootGoesOn({}) /\ ~ready /\ ~lit)'
    BY <1>4, <1>7 DEF Doing
  <2>3. pc = "fill" => (Filling \/ BootGoesOn(Covered))'
    BY <1>8, <1>9 DEF Doing
  <2>4. pc = "booted" => (\E S \in SUBSET Panel : BootGoesOn(S))'
    BY <1>6, <1>7 DEF Doing
  <2>5. pc = "unblank" => (\E S \in SUBSET Panel : FillGoesOn(S))'
    BY <1>6, <1>7 DEF Doing
  <2>6. pc = "reply" => (Told \/ Stored \/ Filled \/ Blanked \/ Switched)'
    BY <1>11, <1>12, <1>13, <1>14, <1>15 DEF Doing
  <2> QED BY <1>4, <1>10, <2>1, <2>2, <2>3, <2>4, <2>5, <2>6 DEF Doing
<1> QED BY <1>4, <1>5, <1>16

\* The thread beside changes nothing that Board knows of.
LEMMA ThreadUnseen ==
  ASSUME ThreadInv, Doing, DoomRuns \/ UNCHANGED vars
  PROVE  Doing' /\ Seen' = Seen /\ answer' = answer
<1>1. CASE DoomRuns
  <2>1. /\ UNCHANGED <<ram, display, pc, rc, at, output, host>>
        /\ D!ThreadBegin \/ D!LoopTurn \/ D!Wake \/ D!ThreadEnd
    BY <1>1 DEF DoomRuns, D!Doom
  <2>2. /\ handler' = handler /\ Wanted' = Wanted
        /\ doom_state # "STARTING" => doom_state' # "STARTING"
    BY <2>1 DEF D!ThreadBegin, D!LoopTurn, D!Wake, D!ThreadEnd, ThreadInv, D!StateIsTrue,
       EndsStopped, Wanted
  <2> QED BY <2>1, <2>2, NothingSeen
<1>2. CASE UNCHANGED vars
  <2>1. /\ UNCHANGED <<ram, display, pc, rc, at, output, host>>
        /\ handler' = handler /\ Wanted' = Wanted
        /\ doom_state # "STARTING" => doom_state' # "STARTING"
    BY <1>2 DEF vars, doom, Wanted
  <2> QED BY <2>1, NothingSeen
<1> QED BY <1>1, <1>2

LEMMA BlankIs ==
  ASSUME NEW f \in Format, NEW m, Unwritten(f) = Unwritten(m)
  PROVE  [p \in Pixels |-> ReadBack(f, [q \in Pixels |-> Unwritten(f)][p])]
           = [p \in Pixels |-> Unwritten(m)]
  BY UnwrittenShows

LEMMA RebootHandlers ==
  ASSUME Held, Doing, Reboot \/ BootDisplay
  PROVE  Doing'
<1>1. UNCHANGED host /\ req' = req /\ before' = before /\ at' \in {at, <<0, 0>>}
  BY DEF Reboot, BootDisplay, host
<1>2. CASE Reboot
  <2>1. /\ pc = "run" /\ pc' = "boot" /\ req.op = "reboot" /\ lit' = FALSE /\ ready' = FALSE
        /\ info' = NoInfo /\ ram' = [a \in DOMAIN ram |-> Unknown] /\ doom_state' = "STOPPED"
        /\ screen' = [p \in Pixels |-> Unwritten(NoInfo.format)]
    BY <1>2 DEF Reboot, Runs, At
  <2>2. Mode' = "none" /\ Panel' = {} /\ ~Wanted'
    BY <2>1 DEF Mode, Panel, Wanted
  <2>3. Now'.screen = [p \in Pixels |-> Unwritten(Mode')]
    BY <2>1, <2>2, BlankIs, NoPanel DEF Now
  <2>4. Painted({}, [p \in Pixels |-> Unwritten(Mode)])'
    BY <2>3 DEF Painted
  <2>5. ram' = [a \in Dtcm \cup Axi |-> Unknown]
    BY <2>1 DEF Held, BoardTypes
  <2>6. BootGoesOn({})'
    BY <1>1, <2>1, <2>2, <2>4, <2>5 DEF BootGoesOn
  <2>7. DOMAIN before.ram = Dtcm \cup Axi
    BY DEF Doing
  <2> QED BY <1>1, <2>1, <2>5, <2>6, <2>7 DEF Doing
<1>3. CASE BootDisplay
  <2>1. pc = "boot" /\ UNCHANGED <<ram, doom>> /\ at' = <<0, 0>>
    BY <1>3 DEF BootDisplay, At
  <2>2. BootGoesOn({}) /\ ~ready /\ ~lit
    BY <2>1 DEF Doing
  <2>3. /\ ram' = [a \in Dtcm \cup Axi |-> Unknown] /\ ~Wanted' /\ req'.op = "reboot"
        /\ Covered' = {}
    BY <1>1, <2>1, <2>2 DEF BootGoesOn, Covered, Pixels, doom, Wanted
  <2>4. CASE pc' = "booted" /\ UNCHANGED <<screen, info, ready, lit>>
    <3>1. Mode' = Mode /\ Now'.screen = Now.screen
      BY <2>4 DEF Mode, Now
    <3>2. BootGoesOn({})'
      BY <2>2, <2>3, <2>4, <3>1 DEF BootGoesOn, Painted
    <3>3. (\E S \in SUBSET Panel : BootGoesOn(S))'
      BY <3>2
    <3> QED BY <1>1, <2>1, <2>4, <3>3 DEF Doing
  <2>5. ASSUME NEW f \in Formats, ready' = TRUE, pc' = "fill", info'.format = f,
               screen' = [p \in Pixels |-> Unwritten(f)]
        PROVE  Doing'
    <3>1. Mode' = f /\ f \in Format
      BY <2>5, DeviceAssumption DEF Mode
    <3>2. Now'.screen = [p \in Pixels |-> Unwritten(Mode')]
      BY <2>5, <3>1, BlankIs DEF Now
    <3>3. Painted({}, [p \in Pixels |-> Unwritten(Mode)])'
      BY <3>2 DEF Painted
    <3>4. BootGoesOn(Covered)'
      BY <2>3, <2>5, <3>3 DEF BootGoesOn, Painted
    <3> QED BY <1>1, <2>1, <2>5, <3>4 DEF Doing
  <2>6. CASE ~UNCHANGED <<screen, info, ready, lit>> \/ pc' # "booted"
    <3>1. PICK f \in Formats :
            /\ info' = Found(f)
            /\ screen' = [p \in Pixels |-> Unwritten(f)]
            /\ ready' = TRUE /\ pc' = "fill"
      BY <1>3, <2>6 DEF BootDisplay, Found
    <3>2. info'.format = f
      BY <3>1 DEF Found
    <3> QED BY <2>5, <3>1, <3>2
  <2> QED BY <2>4, <2>6
<1> QED BY <1>2, <1>3

LEMMA HostSteps ==
  ASSUME Held, ThreadInv, Doing, Receive \/ Reply \/ Booted
  PROVE  Doing'
<1>1. /\ UNCHANGED <<ram, display, doom>> /\ before' = Now
      /\ ram = [a \in Dtcm \cup Axi |-> ram[a]]
  BY DEF Receive, Reply, Booted, Doing
<1>2. Now' = Now /\ DOMAIN before'.ram = Dtcm \cup Axi /\ ram' = ram
  BY <1>1, NowStays, NowIs DEF doom, Wanted
<1>3. CASE pc' = "idle"
  BY <1>1, <1>2, <1>3 DEF Doing
<1>4. CASE pc' # "idle"
  <2>1. /\ Rested(req') /\ sent' = <<>> /\ rsp' = [i \in 1 .. RspCap |-> Stale]
        /\ rsp_len' = RspCap
        /\ IF req'.op = "unknown" THEN pc' = "reply" /\ rc' = "failed"
                                  ELSE pc' = "run" /\ rc' = "ok"
    BY <1>4 DEF Receive, Reply, Booted
  <2>2. doom_state' # "STARTING"
    BY <1>1, <2>1 DEF Rested, ThreadInv, D!StateIsTrue, doom
  <2>3. CASE pc' = "run"
    BY <1>1, <1>2, <2>1, <2>2, <2>3 DEF Doing, Fresh
  <2>4. CASE req'.op = "unknown"
    <3>1. SubSeq(rsp', 1, 0) = <<>>
      BY FrontOf
    <3>2. Payload' = <<>> /\ (B!Text(req))' = <<>>
      BY <2>1, <2>4, <3>1 DEF Payload, B!Text
    <3>3. Told'
      BY <1>1, <1>2, <2>4, <3>2 DEF Told
    <3> QED BY <1>1, <1>2, <2>1, <2>4, <3>3 DEF Doing
  <2> QED BY <2>1, <2>3, <2>4
<1> QED BY <1>3, <1>4

LEMMA DoingInit == Init => Doing
<1> SUFFICES ASSUME Init PROVE Doing
  OBVIOUS
<1>1. /\ pc = "boot" /\ req.op = "reboot" /\ lit = FALSE /\ ready = FALSE /\ info = NoInfo
      /\ ram = [a \in Dtcm \cup Axi |-> Unknown] /\ doom_state = "STOPPED" /\ before = Now
      /\ screen = [p \in Pixels |-> Unwritten(NoInfo.format)]
  BY DEF Init, Off, D!Init
<1>2. Mode = "none" /\ ~Wanted
  BY <1>1 DEF Mode, Wanted
<1>3. Now.screen = [p \in Pixels |-> Unwritten(Mode)]
  BY <1>1, <1>2, BlankIs, NoPanel DEF Now
<1>4. BootGoesOn({})
  BY <1>1, <1>2, <1>3 DEF BootGoesOn, Painted
<1> QED BY <1>1, <1>4, NowIs DEF Doing

LEMMA DoingHolds ==
  ASSUME Held, ThreadInv, Doing, [Next]_vars
  PROVE  Doing'
<1>1. CASE Receive \/ Reply \/ Booted
  BY <1>1, HostSteps
<1>2. CASE Echo \/ Version \/ DispInfo \/ DispGetId \/ DispDiag
  BY <1>2, TextHandlers
<1>3. CASE MemRead \/ MemWrite
  BY <1>3, MemoryHandlers
<1>4. CASE DispRead
  BY <1>4, ReadHandler
<1>5. CASE FillBegin
  BY <1>5, FillBegins
<1>6. CASE FillChunk \/ FillEnd
  BY <1>6, FillHandlers
<1>7. CASE Unblank \/ BlankOn
  BY <1>7, LightHandlers
<1>8. CASE DoomCall \/ DoomWork \/ DoomReturn \/ DoomStatus
  BY <1>8, DoomHandlers
<1>9. CASE DoomRuns \/ Lost \/ UNCHANGED vars
  BY <1>9, ThreadUnseen DEF Lost
<1>10. CASE Reboot \/ BootDisplay
  BY <1>10, RebootHandlers
<1> QED
  BY <1>1, <1>2, <1>3, <1>4, <1>5, <1>6, <1>7, <1>8, <1>9, <1>10 DEF Next, Serve

-----------------------------------------------------------------------------
(* Every step is one of Board's, or none.                                  *)

LEMMA BoardInit == Init => B!Init
<1> SUFFICES ASSUME Init PROVE B!Init
  OBVIOUS
<1>1. /\ pc = "boot" /\ lit = FALSE /\ ready = FALSE /\ info = NoInfo
      /\ ram = [a \in Dtcm \cup Axi |-> Unknown] /\ doom_state = "STOPPED" /\ before = Now
      /\ screen = [p \in Pixels |-> Unwritten(NoInfo.format)] /\ answer = B!NoAnswer
  BY DEF Init, Off, D!Init
<1>2. Mode = "none" /\ ~Wanted /\ Wanted \in BOOLEAN
  BY <1>1 DEF Mode, Wanted
<1>3. Now.screen = [p \in Pixels |-> Unwritten("none")]
  BY <1>1, BlankIs, NoPanel DEF Now
<1>4. Seen = Now
  BY <1>1 DEF Seen, At
<1>5. Seen.ram = ram /\ Seen.lit = FALSE /\ Seen.mode = "none"
  BY <1>1, <1>2, <1>4, NowIs
<1>6. Seen.doom = FALSE
  BY <1>2, <1>4, NowIs
<1>7. Seen.ram = [a \in B!Dtcm \cup B!Axi |-> Unknown]
  BY <1>1, <1>5, BoardWords
<1>8. Seen.screen = [p \in B!Pixels |-> B!Unwritten("none")]
  BY <1>3, <1>4, BoardWords
<1> QED BY <1>1, <1>5, <1>6, <1>7, <1>8 DEF B!Init, B!Asleep

LEMMA Asked ==
  ASSUME Receive
  PROVE  B!Ask
<1>1. UNCHANGED <<ram, display, doom>> /\ before' = Now /\ pc = "idle" /\ pc' # "idle"
      /\ answer' = B!NoAnswer
  BY DEF Receive, At
<1>2. Now' = Now
  BY <1>1, NowStays DEF doom, Wanted
<1>3. Seen' = Seen
  BY <1>1, <1>2 DEF Seen, At
<1> QED BY <1>1, <1>3 DEF B!Ask, B!board

\* Between its request and its answer a handler does nothing that Board sees.
LEMMA HandlerUnseen ==
  ASSUME Serve, ~Reply, ~Booted
  PROVE  Seen' = Seen /\ answer' = answer
<1>1. /\ host' = host /\ pc # "idle" /\ pc' # "idle"
  <2>1. CASE Echo \/ Version \/ MemRead \/ DispInfo \/ DispGetId \/ DispDiag \/ DoomStatus
    BY <2>1 DEF Echo, Version, MemRead, DispInfo, DispGetId, DispDiag, DoomStatus, Runs, At,
       Give, Refuse, Quiet
  <2>2. CASE MemWrite \/ Unblank \/ BlankOn \/ DispRead
    BY <2>2 DEF MemWrite, Unblank, BlankOn, DispRead, Runs, At, Quiet, Refuse
  <2>3. CASE FillBegin \/ FillChunk \/ FillEnd
    BY <2>3 DEF FillBegin, FillChunk, FillEnd, FillReturn, Runs, At, Refuse
  <2>4. CASE DoomCall \/ DoomWork \/ DoomReturn \/ Reboot \/ BootDisplay
    BY <2>4 DEF DoomCall, DoomWork, DoomReturn, Reboot, BootDisplay, Runs, At
  <2> QED BY <2>1, <2>2, <2>3, <2>4 DEF Serve
<1> QED BY <1>1 DEF host, Seen, At

LEMMA BoardStep ==
  ASSUME Held, ThreadInv, Doing, [Next]_vars
  PROVE  [B!Next]_<<B!board, answer>>
<1>1. CASE Receive
  BY <1>1, Asked DEF B!Next
<1>2. CASE Reply \/ Booted
  <2>1. B!Carry(req)
    BY <1>2, AnswerGoes, BootAnswer
  <2>2. req \in Request
    BY DEF Held, BoardTypes
  <2> QED BY <2>1, <2>2 DEF B!Next
<1>3. CASE (Serve /\ ~Reply /\ ~Booted) \/ DoomRuns \/ Lost \/ UNCHANGED vars
  <2>1. Seen' = Seen /\ answer' = answer
    BY <1>3, HandlerUnseen, ThreadUnseen DEF Lost
  <2> QED BY <2>1 DEF B!board
<1> QED BY <1>1, <1>2, <1>3 DEF Next

\* Every command has the effect and the answer documented for it, on the whole
\* of its range or rectangle and nowhere else, or is answered with an empty
\* frame: for memories and panels of any size and format, readable or not, any
\* length of the line and of the answer, ranges and rectangles anywhere and of
\* any size, whichever rows fail, and a doom thread that runs meanwhile.  A read
\* whose size has wrapped is never answered here (PanelIsReadable says when).
THEOREM CommandsImplementsBoard == Spec => ImplementsBoard
<1>1. Spec => []Held
  <2>1. Held /\ [Next]_vars => Held'
    BY StepsHold
  <2> QED BY <2>1, HeldInit, PTL DEF Spec
<1>2. Doing /\ Held /\ ThreadInv /\ [Next]_vars => Doing'
  BY DoingHolds
<1>3. Spec => []Doing
  BY <1>1, <1>2, DoingInit, ThreadStays, PTL DEF Spec
<1>4. Held /\ ThreadInv /\ Doing /\ [Next]_vars => [B!Next]_<<B!board, answer>>
  BY BoardStep
<1> QED
  BY <1>1, <1>3, <1>4, BoardInit, ThreadStays, PTL DEF Spec, ImplementsBoard, B!Spec
=============================================================================
