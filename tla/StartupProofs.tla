--------------------------- MODULE StartupProofs ----------------------------
(***************************************************************************)
(* The boot and the two LEDs, for every size of the command table: what a  *)
(* thread or the host finds when it comes, and what the LEDs show.         *)
(***************************************************************************)
EXTENDS Startup, NaturalsInduction, WellFoundedInduction, TLAPS

-----------------------------------------------------------------------------
(* The invariant.                                                          *)

\* Up to here main has waited for nothing, so that no thread has run.
Early == step \in {"heartbeat", "errors", "serial", "commands"}
Untouched == Early => ~away /\ led0 = 0 /\ place = "look"

TasksMade == step \in {"boot log", "ready log", "forever"}

\* What main has made and initialised by the step it has come to.
Made ==
  alive = CASE step = "heartbeat" -> {}
            [] step = "errors" -> {"heartbeat"}
            [] TasksMade -> Thread
            [] OTHER -> {"heartbeat", "err_led"}

Initialised ==
  /\ "led0" \in inited <=> step # "heartbeat"
  /\ "err_lock" \in inited <=> step \notin {"heartbeat", "errors"}
  /\ "serial" \in inited <=> uart
  /\ "off_timer" \in inited <=> TasksMade
  /\ uart => step \notin {"heartbeat", "errors", "serial"}

SaysReady == "ready" \in sent => step = "forever" /\ uart

\* The table has room for all (MAX_CMDS is 32).
Room == MaxCmds >= Simple + Sd + Display + DoomCmds

Counted ==
  g_cmd_count = CASE Early -> 0
                  [] step = "display" -> Simple + Sd
                  [] TasksMade -> Simple + Sd + Display + DoomCmds
                  [] OTHER -> Simple + Sd + Display

\* err_task is at a code exactly if it has one left.  The codes are those of
\* err_mask, so that the heartbeat keeps off meanwhile.
AtCode ==
  /\ place = "look" <=> mask = {}
  /\ mask \subseteq err_mask

\* Blinks so far.  Only err_task turns the LED on while there is a code to show.
Blinks ==
  /\ place = "blink" => rises = i /\ i < Min(mask)
  /\ place = "on" => rises = i + 1 /\ i < Min(mask)
  /\ place \in {"shown", "next"} => rises = i /\ i = Min(mask)

Dark == err_mask # {} /\ led0 = 1 => place = "on"

IInv ==
  /\ TypeOK /\ Untouched /\ Made /\ Initialised /\ SaysReady /\ (Room => Counted)
  /\ AtCode /\ Blinks /\ Dark /\ PulseEnds

-----------------------------------------------------------------------------
LEMMA Least ==
  ASSUME NEW S \in SUBSET Nat, S # {}
  PROVE  Min(S) \in S /\ \A y \in S : Min(S) <= y
<1>1. IsWellFoundedOn(OpToRel(<, Nat), Nat)
  BY NatLessThanWellFounded
<1>2. PICK x \in S : \A y \in S : ~ (<<y, x>> \in OpToRel(<, Nat))
  BY <1>1, WFMin
<1>3. \A y \in S : ~(y < x)
  BY <1>2 DEF OpToRel
<1>4. \A y \in S : x <= y
  BY <1>3
<1> QED BY <1>4 DEF Min

LEMMA Codes == \A S \in SUBSET Code : S # {} => Min(S) \in Code /\ Min(S) \in S
<1> SUFFICES ASSUME NEW S \in SUBSET Code, S # {} PROVE Min(S) \in Code /\ Min(S) \in S
  OBVIOUS
<1>1. S \in SUBSET Nat
  BY DEF Code
<1>2. Min(S) \in S
  BY <1>1, Least
<1> QED BY <1>2

LEMMA Registers ==
  ASSUME NEW n \in Nat, g_cmd_count \in 0 .. MaxCmds, Registered(n)
  PROVE  /\ g_cmd_count' \in 0 .. MaxCmds
         /\ g_cmd_count + n <= MaxCmds => g_cmd_count' = g_cmd_count + n
<1> DEFINE S == {MaxCmds, g_cmd_count + n}
<1>1. S \in SUBSET Nat /\ S # {}
  BY StartupAssumption
<1>2. Min(S) \in S /\ \A y \in S : Min(S) <= y
  BY <1>1, Least
<1> QED BY <1>2, StartupAssumption DEF Registered

LEMMA RoomMeans == Room => MaxCmds \in Nat /\ MaxCmds >= 28
  BY StartupAssumption DEF Room, Simple, Sd, Display, DoomCmds

LEMMA InitIInv == Init => IInv
<1> SUFFICES ASSUME Init PROVE IInv
  OBVIOUS
<1>1. LedsTypeOK
  <2>1. wait \in [Thread -> 0 .. 24]
    BY DEF Init, LedsInit
  <2>2. i \in 0 .. (IF mask = {} THEN 0 ELSE Min(mask))
    BY DEF Init, LedsInit
  <2> QED BY <2>1, <2>2 DEF Init, LedsInit, LedsTypeOK
<1>5. TypeOK
  <2>1. {away, uart, panel} \subseteq BOOLEAN
    BY Zenon DEF Init
  <2>2. /\ step = "heartbeat" /\ inited = {} /\ sent = {}
        /\ g_cmd_count \in 0 .. MaxCmds
    BY StartupAssumption DEF Init
  <2> QED BY <1>1, <2>1, <2>2 DEF TypeOK
<1>2. Made /\ Initialised /\ SaysReady
  BY DEF Init, LedsInit, Made, Initialised, SaysReady, TasksMade
<1>3. Untouched /\ Counted
  BY DEF Init, LedsInit, Untouched, Counted, Early, TasksMade
<1>4. AtCode /\ Blinks /\ Dark /\ PulseEnds
  BY DEF Init, LedsInit, AtCode, Blinks, Dark, PulseEnds
<1> QED BY <1>2, <1>3, <1>4, <1>5 DEF IInv

-----------------------------------------------------------------------------
(* The steps of main.                                                      *)

\* What the LEDs' parts of the invariant need when main does not touch them.
LEMMA LedsAlone ==
  ASSUME IInv, UNCHANGED <<clash, activity, err_mask>>
  PROVE  AtCode' /\ Blinks' /\ Dark' /\ PulseEnds'
  BY DEF IInv, clash, activity, AtCode, Blinks, Dark, PulseEnds

LEMMA HeartbeatInitStep == ASSUME IInv, HeartbeatInit PROVE IInv'
<1> USE DEF IInv, HeartbeatInit, At, Goto, SetLed0, activity
<1>1. TypeOK'
  BY DEF TypeOK, LedsTypeOK, Thread
<1>2. Made' /\ Initialised' /\ SaysReady'
  BY DEF Made, Initialised, SaysReady, TasksMade
<1>3. Untouched' /\ (Room => Counted')
  BY DEF Untouched, Counted, Early, TasksMade
<1>4. AtCode' /\ Dark' /\ PulseEnds'
  BY DEF AtCode, Dark, PulseEnds
<1>5. Blinks'
  BY DEF Untouched, Early, Blinks
<1> QED BY <1>1, <1>2, <1>3, <1>4, <1>5

LEMMA ErrorInitStep == ASSUME IInv, ErrorInit PROVE IInv'
<1> USE DEF IInv, ErrorInit, At, Goto, SetLed0, activity
<1>0. place = "look" /\ mask = {} /\ place' = "look" /\ mask' = {}
  BY DEF Untouched, Early, AtCode
<1>1. TypeOK'
  BY DEF TypeOK, LedsTypeOK, Thread
<1>2. Made' /\ Initialised' /\ SaysReady'
  BY DEF Made, Initialised, SaysReady, TasksMade
<1>3. Untouched' /\ (Room => Counted')
  BY DEF Untouched, Counted, Early, TasksMade
<1>4. AtCode' /\ Dark' /\ PulseEnds'
  BY <1>0 DEF AtCode, Dark, PulseEnds
<1>5. Blinks'
  BY <1>0 DEF Blinks
<1> QED BY <1>1, <1>2, <1>3, <1>4, <1>5

LEMMA SerialInitStep == ASSUME IInv, SerialInit PROVE IInv'
<1> USE DEF IInv, SerialInit, At, Goto, clash, activity
<1>0. place = "look" /\ mask = {} /\ led0 = 0
  BY DEF Untouched, Early, AtCode
<1>1. TypeOK'
  <2>1. LedsTypeOK'
    <3>1. err_mask' = err_mask \/ err_mask' = err_mask \cup {1}
      OBVIOUS
    <3>2. err_mask' \subseteq Code
      <4>1. err_mask \subseteq Code /\ 1 \in Code
        BY DEF TypeOK, LedsTypeOK, Code
      <4> QED BY <3>1, <4>1
    <3> QED BY <3>2 DEF TypeOK, LedsTypeOK
  <2>2. step' \in {"commands"} /\ uart' \in BOOLEAN /\ inited' \subseteq inited \cup {"serial"}
    BY DEF TypeOK
  <2> QED BY <2>1, <2>2 DEF TypeOK
<1>2. Made' /\ Initialised' /\ SaysReady'
  <2>1. \/ uart' = TRUE /\ inited' = inited \cup {"serial"}
        \/ uart' = uart /\ inited' = inited
    OBVIOUS
  <2>2. Made' /\ SaysReady'
    BY DEF Made, SaysReady, TasksMade
  <2>3. Initialised'
    <3>1. CASE uart' = TRUE /\ inited' = inited \cup {"serial"}
      BY <3>1 DEF Initialised, TasksMade
    <3>2. CASE uart' = uart /\ inited' = inited
      BY <3>2 DEF Initialised, TasksMade
    <3> QED BY <2>1, <3>1, <3>2
  <2> QED BY <2>2, <2>3
<1>3. Untouched' /\ (Room => Counted')
  BY DEF Untouched, Counted, Early, TasksMade
<1>4. AtCode' /\ Dark' /\ Blinks' /\ PulseEnds'
  BY <1>0 DEF AtCode, Dark, Blinks, PulseEnds
<1> QED BY <1>1, <1>2, <1>3, <1>4

LEMMA FirstCommandsStep == ASSUME IInv, FirstCommands PROVE IInv'
<1> USE DEF IInv, FirstCommands, At, GotoWaiting, leds
<1>0. AtCode' /\ Blinks' /\ Dark' /\ PulseEnds'
  BY LedsAlone
<1>1. /\ g_cmd_count' \in 0 .. MaxCmds
      /\ g_cmd_count + 18 <= MaxCmds => g_cmd_count' = g_cmd_count + 18
  BY Registers DEF TypeOK, Simple, Sd
<1>2. TypeOK'
  <2>1. LedsTypeOK'
    BY DEF TypeOK, LedsTypeOK, clash, activity
  <2> QED BY <1>1, <2>1 DEF TypeOK
<1>3. Made' /\ Initialised' /\ SaysReady' /\ Untouched'
  BY DEF Made, Initialised, SaysReady, Untouched, TasksMade, Early
<1>4. Room => Counted'
  BY <1>1, StartupAssumption DEF Room, Counted, Early, TasksMade, Simple, Sd, Display, DoomCmds
<1> QED BY <1>0, <1>2, <1>3, <1>4

LEMMA Fits ==
  ASSUME Room, NEW c, NEW d, c = Simple + Sd, c + 7 <= MaxCmds => d = c + 7
  PROVE  d = Simple + Sd + Display
<1>1. c = 18
  BY DEF Simple, Sd
<1>2. 18 + 7 <= MaxCmds
  BY RoomMeans
<1>3. d = 25
  BY <1>1, <1>2
<1> QED BY <1>3 DEF Simple, Sd, Display

LEMMA DisplayCounts ==
  ASSUME step' = "display log", g_cmd_count' = Simple + Sd + Display
  PROVE  Counted'
<1>1. ~Early' /\ step' # "display" /\ ~TasksMade'
  BY DEF Early, TasksMade
<1> QED BY <1>1 DEF Counted

LEMMA DisplayCommandsStep == ASSUME IInv, DisplayCommands PROVE IInv'
<1> USE DEF IInv, DisplayCommands, At, GotoWaiting, leds
<1>0. AtCode' /\ Blinks' /\ Dark' /\ PulseEnds'
  BY LedsAlone
<1>1. /\ g_cmd_count' \in 0 .. MaxCmds
      /\ g_cmd_count + 7 <= MaxCmds => g_cmd_count' = g_cmd_count + 7
  BY Registers DEF TypeOK, Display
<1>2. TypeOK'
  <2>1. LedsTypeOK'
    BY DEF TypeOK, LedsTypeOK, clash, activity
  <2> QED BY <1>1, <2>1 DEF TypeOK
<1>3. Made' /\ Initialised' /\ SaysReady' /\ Untouched'
  BY DEF Made, Initialised, SaysReady, Untouched, TasksMade, Early
<1>4. Room => Counted'
  <2> SUFFICES ASSUME Room PROVE Counted'
    OBVIOUS
  <2>1. Counted /\ ~Early /\ step = "display" /\ step' = "display log"
    BY DEF Early
  <2>2. g_cmd_count = Simple + Sd
    BY <2>1 DEF Counted, TasksMade
  <2>3. g_cmd_count' = Simple + Sd + Display
    BY <1>1, <2>2, Fits
  <2> QED BY <2>1, <2>3, DisplayCounts
<1> QED BY <1>0, <1>2, <1>3, <1>4

LEMMA MessageSteps == ASSUME IInv, DisplayLog \/ BootLog \/ ReadyLog PROVE IInv'
<1> USE DEF IInv, DisplayLog, BootLog, ReadyLog, At, GotoWaiting, Send, leds
<1>0. AtCode' /\ Blinks' /\ Dark' /\ PulseEnds'
  BY LedsAlone
<1>1. TypeOK'
  <2>1. LedsTypeOK'
    BY DEF TypeOK, LedsTypeOK, clash, activity
  <2>2. sent' \subseteq {"display", "boot", "ready", "tick"}
    BY DEF TypeOK
  <2>3. step' \in {"doom", "ready log", "forever"} /\ away' \in BOOLEAN
    OBVIOUS
  <2> QED BY <2>1, <2>2, <2>3 DEF TypeOK
<1>2. Made'
  BY DEF Made, TasksMade
<1>3. Initialised'
  <2>1. TasksMade' <=> TasksMade
    BY DEF TasksMade
  <2>2. {step, step'} \cap {"heartbeat", "errors", "serial"} = {}
    OBVIOUS
  <2>3. inited' = inited /\ uart' = uart
    OBVIOUS
  <2> QED BY <2>1, <2>2, <2>3 DEF Initialised
<1>4. Untouched'
  BY DEF Untouched, Early
<1>5. SaysReady'
  <2>1. CASE DisplayLog \/ BootLog
    <3>1. "ready" \notin sent
      BY <2>1 DEF SaysReady
    <3>2. sent' = sent \/ sent' = sent \cup {"display"} \/ sent' = sent \cup {"boot"}
      BY <2>1
    <3>3. "ready" \notin sent'
      BY <3>1, <3>2
    <3> QED BY <3>3 DEF SaysReady
  <2>2. CASE ReadyLog
    BY <2>2 DEF SaysReady
  <2> QED BY <2>1, <2>2
<1>6. Room => Counted'
  BY DEF Counted, Early, TasksMade
<1> QED BY <1>0, <1>1, <1>2, <1>3, <1>4, <1>5, <1>6

LEMMA TasksDark == Tasks => PulseEnds'
<1>1. Tasks => led1' = 0
  BY DEF Tasks
<1>2. 0 # 1
  OBVIOUS
<1> QED BY <1>1, <1>2, Zenon DEF PulseEnds

LEMMA TasksStep == ASSUME IInv, Tasks PROVE IInv'
<1> USE DEF IInv, Tasks, At, Goto
<1>0. AtCode' /\ Blinks' /\ Dark' /\ PulseEnds'
  <2>1. UNCHANGED <<led0, place, mask, i, rises, err_mask>>
    BY DEF clash
  <2>2. AtCode' /\ Blinks' /\ Dark'
    BY <2>1 DEF AtCode, Blinks, Dark
  <2>3. PulseEnds'
    BY TasksDark
  <2> QED BY <2>2, <2>3
<1>1. /\ g_cmd_count' \in 0 .. MaxCmds
      /\ g_cmd_count + 3 <= MaxCmds => g_cmd_count' = g_cmd_count + 3
  BY Registers DEF TypeOK, DoomCmds
<1>2. TypeOK'
  <2>1. LedsTypeOK'
    BY DEF TypeOK, LedsTypeOK, clash, Thread
  <2>2. inited' \subseteq {"led0", "err_lock", "serial", "off_timer"}
    BY DEF TypeOK
  <2> QED BY <1>1, <2>1, <2>2 DEF TypeOK
<1>3. Made' /\ Initialised' /\ SaysReady' /\ Untouched'
  <2>1. Made'
    BY DEF Made, TasksMade, Thread
  <2>2. Initialised'
    BY DEF Initialised, TasksMade
  <2> QED BY <2>1, <2>2 DEF SaysReady, Untouched, Early
<1>4. Room => Counted'
  BY <1>1, StartupAssumption DEF Room, Counted, Early, TasksMade, Simple, Sd, Display, DoomCmds
<1> QED BY <1>0, <1>2, <1>3, <1>4

LEMMA WaitSteps == ASSUME IInv, RunForever \/ MainBack PROVE IInv'
<1>1. UNCHANGED <<leds, step, inited, uart, panel, g_cmd_count, sent>>
  BY DEF RunForever, MainBack
<1>2. away' \in BOOLEAN /\ (Early => away' = FALSE)
  BY DEF RunForever, MainBack, At, Early, IInv, Untouched
<1>3. AtCode' /\ Blinks' /\ Dark' /\ PulseEnds'
  BY <1>1, LedsAlone DEF leds
<1>4. TypeOK'
  BY <1>1, <1>2 DEF IInv, TypeOK, LedsTypeOK, leds, clash, activity
<1>5. Made' /\ SaysReady'
  BY <1>1 DEF IInv, leds, Made, SaysReady, TasksMade
<1>6. Initialised'
  BY <1>1 DEF IInv, Initialised, TasksMade
<1>7. Untouched'
  BY <1>1, <1>2 DEF IInv, Untouched, Early, leds, clash
<1>8. Room => Counted'
  BY <1>1 DEF IInv, Counted, TasksMade, Early
<1> QED BY <1>3, <1>4, <1>5, <1>6, <1>7, <1>8 DEF IInv

-----------------------------------------------------------------------------
(* The steps of the LEDs.                                                  *)

LedsInv == LedsTypeOK /\ AtCode /\ Blinks /\ Dark /\ PulseEnds

LEMMA Sleeps ==
  ASSUME wait \in [Thread -> 0 .. 24], NEW t \in Thread, NEW n \in 0 .. 24, Sleep(t, n)
  PROVE  wait' \in [Thread -> 0 .. 24]
  BY DEF Sleep

\* What is left of the codes when neither err_task nor a new code is at work.
LEMMA CodesAlone ==
  ASSUME LedsInv, UNCHANGED <<place, mask, i, rises, err_mask>>,
         err_mask # {} => led0' = 0 \/ led0' = led0
  PROVE  AtCode' /\ Blinks' /\ Dark'
  BY DEF LedsInv, AtCode, Blinks, Dark

LEMMA HeartbeatStep == ASSUME LedsInv, Heartbeat PROVE LedsInv'
<1>1. UNCHANGED <<place, mask, i, led1, pulsing, off_timer, alive, err_mask>>
  BY DEF Heartbeat, activity
<1>2. led0 \in {0, 1} /\ level \in {0, 1}
  BY DEF LedsInv, LedsTypeOK
<1>3. CASE err_mask # {}
  <2>1. led0' = 0 /\ rises' = rises /\ level' = level /\ Sleep("heartbeat", 2)
    BY <1>3 DEF Heartbeat, SetLed0
  <2>2. AtCode' /\ Blinks' /\ Dark'
    BY <1>1, <2>1, CodesAlone
  <2>3. wait' \in [Thread -> 0 .. 24]
    BY <2>1, Sleeps DEF LedsInv, LedsTypeOK, Thread
  <2>4. LedsTypeOK'
    BY <1>1, <2>1, <2>3 DEF LedsInv, LedsTypeOK
  <2>5. PulseEnds'
    BY <1>1 DEF LedsInv, PulseEnds
  <2> QED BY <2>2, <2>4, <2>5 DEF LedsInv
<1>4. CASE err_mask = {}
  <2>1. mask = {}
    BY <1>4 DEF LedsInv, AtCode
  <2>2. led0' = level /\ rises' = rises /\ level' = 1 - level /\ Sleep("heartbeat", 10)
    BY <1>4, <2>1 DEF Heartbeat, SetLed0
  <2>3. AtCode' /\ Blinks' /\ Dark'
    BY <1>1, <1>4, <2>2, CodesAlone
  <2>4. wait' \in [Thread -> 0 .. 24]
    BY <2>2, Sleeps DEF LedsInv, LedsTypeOK, Thread
  <2>5. LedsTypeOK'
    <3>1. led0' \in {0, 1} /\ level' \in {0, 1}
      BY <1>2, <2>2
    <3> QED BY <1>1, <2>4, <3>1 DEF LedsInv, LedsTypeOK
  <2>6. PulseEnds'
    BY <1>1 DEF LedsInv, PulseEnds
  <2> QED BY <2>3, <2>5, <2>6 DEF LedsInv
<1> QED BY <1>3, <1>4

LEMMA ErrLookStep == ASSUME LedsInv, ErrLook PROVE LedsInv'
<1>1. UNCHANGED <<led0, led1, level, pulsing, off_timer, alive, err_mask>>
  BY DEF ErrLook, activity
<1>2. place = "look" /\ mask' = err_mask /\ i' = 0
  BY DEF ErrLook, ErrAt
<1>3. PulseEnds' /\ AtCode' /\ Dark'
  <2>1. place' = "look" <=> err_mask = {}
    BY DEF ErrLook, ErrSleep
  <2> QED BY <1>1, <1>2, <2>1 DEF LedsInv, PulseEnds, AtCode, Dark
<1>4. Blinks'
  <2>1. CASE err_mask = {}
    <3>1. place' = "look"
      BY <2>1 DEF ErrLook, ErrSleep
    <3> QED BY <3>1 DEF Blinks
  <2>2. CASE err_mask # {}
    <3>1. place' = "blink" /\ rises' = 0
      BY <2>2 DEF ErrLook, ErrSleep
    <3>2. Min(mask') \in 1 .. 16
      BY <1>2, <2>2, Codes DEF LedsInv, LedsTypeOK, Code
    <3> QED BY <1>2, <3>1, <3>2 DEF Blinks
  <2> QED BY <2>1, <2>2
<1>5. LedsTypeOK'
  <2>1. wait' \in [Thread -> 0 .. 24]
    <3>1. Sleep("err_led", 2) \/ Sleep("err_led", 4)
      BY DEF ErrLook, ErrSleep
    <3> QED BY <3>1, Sleeps DEF LedsInv, LedsTypeOK, Thread
  <2>2. place' \in {"look", "blink"}
    BY DEF ErrLook, ErrSleep
  <2>3. i' \in 0 .. (IF mask' = {} THEN 0 ELSE Min(mask'))
    BY <1>2, Codes DEF LedsInv, LedsTypeOK, Code
  <2> QED BY <1>1, <1>2, <2>1, <2>2, <2>3 DEF LedsInv, LedsTypeOK
<1> QED BY <1>3, <1>4, <1>5 DEF LedsInv

LEMMA BlinkOnStep == ASSUME LedsInv, BlinkOn PROVE LedsInv'
<1>1. UNCHANGED <<led1, level, mask, i, pulsing, off_timer, alive, err_mask>>
  BY DEF BlinkOn, activity
<1>2. place = "blink" /\ place' = "on" /\ led0' = 1 /\ Sleep("err_led", 3)
  BY DEF BlinkOn, ErrAt, ErrSleep, SetLed0
<1>3. mask # {} /\ led0 = 0
  BY <1>2 DEF LedsInv, LedsTypeOK, AtCode, Dark
<1>4. rises' = rises + 1
  BY <1>3 DEF BlinkOn, SetLed0
<1>5. rises = i /\ i < Min(mask)
  BY <1>2 DEF LedsInv, Blinks
<1>6. Blinks'
  <2>1. rises' = i' + 1 /\ i' < Min(mask')
    BY <1>1, <1>4, <1>5
  <2> QED BY <1>2, <2>1 DEF Blinks
<1>7. AtCode' /\ Dark' /\ PulseEnds'
  BY <1>1, <1>2, <1>3 DEF LedsInv, AtCode, Dark, PulseEnds
<1>8. LedsTypeOK'
  <2>1. wait' \in [Thread -> 0 .. 24]
    BY <1>2, Sleeps DEF LedsInv, LedsTypeOK, Thread
  <2> QED BY <1>1, <1>2, <2>1 DEF LedsInv, LedsTypeOK
<1> QED BY <1>6, <1>7, <1>8 DEF LedsInv

LEMMA BlinkOffStep == ASSUME LedsInv, BlinkOff PROVE LedsInv'
<1>1. UNCHANGED <<led1, level, mask, pulsing, off_timer, alive, err_mask>>
  BY DEF BlinkOff, activity
<1>2. place = "on" /\ led0' = 0 /\ rises' = rises /\ i' = i + 1
  BY DEF BlinkOff, ErrAt, SetLed0
<1>3. place' = (IF i' = Min(mask) THEN "shown" ELSE "blink") /\ Sleep("err_led", 3)
  BY DEF BlinkOff, ErrSleep
<1>4. mask # {}
  BY <1>2 DEF LedsInv, AtCode
<1>5. rises = i + 1 /\ i < Min(mask)
  BY <1>2 DEF LedsInv, Blinks
<1>6. i \in Nat /\ Min(mask) \in 1 .. 16
  BY <1>4, Codes DEF LedsInv, LedsTypeOK, Code
<1>7. rises' = i' /\ i' <= Min(mask) /\ i' \in Nat
  BY <1>2, <1>5, <1>6
<1>8. Blinks'
  <2>1. CASE i' = Min(mask)
    <3>1. place' = "shown"
      BY <1>3, <2>1
    <3> QED BY <1>1, <1>7, <2>1, <3>1 DEF Blinks
  <2>2. CASE i' # Min(mask)
    <3>1. place' = "blink" /\ i' < Min(mask)
      BY <1>3, <1>6, <1>7, <2>2
    <3> QED BY <1>1, <1>7, <3>1 DEF Blinks
  <2> QED BY <2>1, <2>2
<1>9. AtCode' /\ Dark' /\ PulseEnds'
  BY <1>1, <1>2, <1>3, <1>4 DEF LedsInv, AtCode, Dark, PulseEnds
<1>10. LedsTypeOK'
  <2>1. wait' \in [Thread -> 0 .. 24]
    BY <1>3, Sleeps DEF LedsInv, LedsTypeOK, Thread
  <2>2. i' \in 0 .. (IF mask' = {} THEN 0 ELSE Min(mask'))
    BY <1>1, <1>4, <1>6, <1>7
  <2>3. place' \in {"shown", "blink"}
    BY <1>3
  <2> QED BY <1>1, <1>2, <2>1, <2>2, <2>3 DEF LedsInv, LedsTypeOK
<1> QED BY <1>8, <1>9, <1>10 DEF LedsInv

LEMMA CodeEndStep == ASSUME LedsInv, CodeEnd PROVE LedsInv'
<1>1. UNCHANGED <<led0, led1, level, mask, i, rises, pulsing, off_timer, alive, err_mask>>
  BY DEF CodeEnd, activity
<1>2. place = "shown" /\ place' = "next" /\ Sleep("err_led", 12)
  BY DEF CodeEnd, ErrAt, ErrSleep
<1>3. Blinks'
  BY <1>1, <1>2 DEF LedsInv, Blinks
<1>4. AtCode' /\ Dark' /\ PulseEnds'
  BY <1>1, <1>2 DEF LedsInv, AtCode, Dark, PulseEnds
<1>5. LedsTypeOK'
  <2>1. wait' \in [Thread -> 0 .. 24]
    BY <1>2, Sleeps DEF LedsInv, LedsTypeOK, Thread
  <2> QED BY <1>1, <1>2, <2>1 DEF LedsInv, LedsTypeOK
<1> QED BY <1>3, <1>4, <1>5 DEF LedsInv

LEMMA NextCodeStep == ASSUME LedsInv, NextCode PROVE LedsInv'
<1>1. UNCHANGED <<led0, led1, level, pulsing, off_timer, alive, err_mask>>
  BY DEF NextCode, activity
<1>2. place = "next" /\ mask' = mask \ {Min(mask)} /\ i' = 0 /\ rises' = 0
  BY DEF NextCode, ErrAt
<1>3. \/ mask' = {} /\ place' = "look" /\ Sleep("err_led", 24)
      \/ mask' # {} /\ place' = "blink" /\ Sleep("err_led", 4)
  BY DEF NextCode, ErrSleep
<1>4. mask' \subseteq Code /\ mask' \subseteq err_mask
  BY <1>2 DEF LedsInv, LedsTypeOK, AtCode
<1>5. mask' # {} => Min(mask') \in 1 .. 16
  BY <1>4, Codes DEF Code
<1>6. Blinks'
  BY <1>2, <1>3, <1>5 DEF Blinks
<1>7. AtCode' /\ Dark' /\ PulseEnds'
  <2>1. AtCode'
    BY <1>1, <1>3, <1>4 DEF AtCode
  <2>2. Dark'
    BY <1>1, <1>2 DEF LedsInv, Dark
  <2> QED BY <1>1, <2>1, <2>2 DEF LedsInv, PulseEnds
<1>8. LedsTypeOK'
  <2>1. wait' \in [Thread -> 0 .. 24]
    BY <1>3, Sleeps DEF LedsInv, LedsTypeOK, Thread
  <2>2. i' \in 0 .. (IF mask' = {} THEN 0 ELSE Min(mask'))
    BY <1>2, <1>5
  <2>3. place' \in {"look", "blink"}
    BY <1>3
  <2> QED BY <1>1, <1>4, <2>1, <2>2, <2>3 DEF LedsInv, LedsTypeOK
<1> QED BY <1>6, <1>7, <1>8 DEF LedsInv

LEMMA PulseSteps == ASSUME LedsInv, PulseOn \/ PulseStart \/ OffTimer PROVE LedsInv'
<1>1. UNCHANGED <<clash, alive, err_mask>>
  BY DEF PulseOn, PulseStart, OffTimer
<1>2. AtCode' /\ Blinks' /\ Dark'
  BY <1>1, CodesAlone DEF clash
<1>3. CASE PulseOn
  <2>1. led1' = 1 /\ pulsing' = TRUE /\ off_timer' = off_timer /\ wait' = wait
    BY <1>3 DEF PulseOn
  <2>2. PulseEnds'
    BY <2>1, Zenon DEF PulseEnds
  <2>3. LedsTypeOK'
    BY <1>1, <2>1 DEF LedsInv, LedsTypeOK, clash
  <2> QED BY <1>2, <2>2, <2>3 DEF LedsInv
<1>4. CASE PulseStart
  <2>1. led1' = led1 /\ pulsing' = FALSE /\ off_timer' = 1 /\ Sleep("proto", 1)
    BY <1>4 DEF PulseStart
  <2>2. PulseEnds'
    BY <2>1 DEF PulseEnds, Stopped
  <2>3. wait' \in [Thread -> 0 .. 24]
    BY <2>1, Sleeps DEF LedsInv, LedsTypeOK, Thread
  <2>4. LedsTypeOK'
    BY <1>1, <2>1, <2>3 DEF LedsInv, LedsTypeOK, clash
  <2> QED BY <1>2, <2>2, <2>4 DEF LedsInv
<1>5. CASE OffTimer
  <2>1. led1' = 0 /\ pulsing' = pulsing /\ off_timer' = Stopped /\ wait' = wait
    BY <1>5 DEF OffTimer
  <2>2. led1' # 1
    BY <2>1
  <2>3. PulseEnds'
    BY <2>2 DEF PulseEnds
  <2>4. LedsTypeOK'
    BY <1>1, <2>1 DEF LedsInv, LedsTypeOK, clash
  <2> QED BY <1>2, <2>3, <2>4 DEF LedsInv
<1> QED BY <1>3, <1>4, <1>5

LEMMA ElapseStep == ASSUME LedsInv, Elapse PROVE LedsInv'
<1>1. UNCHANGED <<clash, led1, pulsing, alive, err_mask>>
  BY DEF Elapse
<1>2. AtCode' /\ Blinks' /\ Dark'
  BY <1>1, CodesAlone DEF clash
<1>3. wait' \in [Thread -> 0 .. 24]
  <2>1. wait \in [Thread -> 0 .. 24]
    BY DEF LedsInv, LedsTypeOK
  <2>2. wait' = [t \in Thread |-> IF wait[t] = 0 THEN 0 ELSE wait[t] - 1]
    BY DEF Elapse
  <2>3. \A t \in Thread : (IF wait[t] = 0 THEN 0 ELSE wait[t] - 1) \in 0 .. 24
    BY <2>1
  <2> QED BY <2>2, <2>3
<1>4. \/ off_timer = Stopped /\ off_timer' = Stopped
      \/ off_timer = 1 /\ off_timer' = 0
  BY DEF Elapse, LedsInv, LedsTypeOK
<1>5. PulseEnds'
  <2>1. off_timer' = Stopped => off_timer = Stopped
    BY <1>4 DEF Stopped
  <2> QED BY <1>1, <2>1 DEF LedsInv, PulseEnds
<1>6. LedsTypeOK'
  BY <1>1, <1>3, <1>4 DEF LedsInv, LedsTypeOK, clash
<1> QED BY <1>2, <1>5, <1>6 DEF LedsInv

LEMMA LedsStep ==
  ASSUME LedsInv, Heartbeat \/ ErrTask \/ PulseOn \/ PulseStart \/ Elapse
  PROVE  LedsInv'
  BY HeartbeatStep, ErrLookStep, BlinkOnStep, BlinkOffStep, CodeEndStep, NextCodeStep,
     PulseSteps, ElapseStep DEF ErrTask

\* What main has done stays so while the LEDs' threads run: by then it waits.
LEMMA BootAlone ==
  ASSUME IInv, UNCHANGED <<boot, alive>>, away \/ UNCHANGED <<led0, place>>
  PROVE  Untouched' /\ Made' /\ Initialised' /\ SaysReady' /\ (Room => Counted')
<1>1. UNCHANGED <<step, away, inited, uart, panel, g_cmd_count, sent, alive>>
  BY DEF boot
<1>2. Untouched'
  <2>1. CASE away
    BY <1>1, <2>1 DEF IInv, Untouched, Early
  <2>2. CASE UNCHANGED <<led0, place>>
    BY <1>1, <2>2 DEF IInv, Untouched, Early
  <2> QED BY <2>1, <2>2
<1>3. Made' /\ SaysReady'
  BY <1>1 DEF IInv, Made, SaysReady, TasksMade
<1>4. Initialised'
  BY <1>1 DEF IInv, Initialised, TasksMade
<1>5. Room => Counted'
  BY <1>1 DEF IInv, Counted, TasksMade, Early
<1> QED BY <1>2, <1>3, <1>4, <1>5

\* The parts of the invariant that speak of boot alone.
LEMMA BootTypes == ASSUME IInv, LedsTypeOK', UNCHANGED boot PROVE TypeOK'
  BY DEF IInv, TypeOK, boot

LEMMA LedsKeep == ASSUME IInv, Leds \/ Interrupt PROVE IInv'
<1>1. LedsInv
  BY DEF IInv, LedsInv, TypeOK
<1>2. UNCHANGED boot
  BY DEF Leds, Interrupt
<1>3. LedsInv'
  BY <1>1, LedsStep, PulseSteps DEF Leds, Interrupt
<1>4. UNCHANGED alive
  BY DEF Leds, Interrupt, Heartbeat, ErrTask, ErrLook, BlinkOn, BlinkOff, CodeEnd, NextCode,
         PulseOn, PulseStart, Elapse, OffTimer
<1>5. away \/ UNCHANGED <<led0, place>>
  BY DEF Leds, Interrupt, OffTimer, clash
<1>6. Untouched' /\ Made' /\ Initialised' /\ SaysReady' /\ (Room => Counted')
  BY <1>2, <1>4, <1>5, BootAlone
<1>7. TypeOK'
  BY <1>2, <1>3, BootTypes DEF LedsInv
<1> QED BY <1>3, <1>6, <1>7 DEF IInv, LedsInv

LEMMA TickStep == ASSUME IInv, away /\ Tick PROVE IInv'
<1>1. UNCHANGED <<clash, activity, alive, err_mask, step, away, inited, uart, panel,
      g_cmd_count>>
  BY DEF Tick
<1>2. Sleep("tick", 20) /\ (sent' = sent \/ sent' = sent \cup {"tick"})
  BY DEF Tick, Send
<1>3. AtCode' /\ Blinks' /\ Dark' /\ PulseEnds'
  BY <1>1, LedsAlone
<1>4. Untouched' /\ Made'
  BY <1>1 DEF IInv, Untouched, Early, Made, TasksMade, clash
<1>5. Initialised'
  BY <1>1 DEF IInv, Initialised, TasksMade
<1>6. SaysReady'
  <2>1. "ready" \in sent' <=> "ready" \in sent
    BY <1>2
  <2> QED BY <1>1, <2>1 DEF IInv, SaysReady
<1>7. Room => Counted'
  BY <1>1 DEF IInv, Counted, TasksMade, Early
<1>8. TypeOK'
  <2>1. wait' \in [Thread -> 0 .. 24]
    <3>1. wait \in [Thread -> 0 .. 24]
      BY DEF IInv, TypeOK, LedsTypeOK
    <3>2. Sleep("tick", 20)
      BY <1>2
    <3>3. "tick" \in Thread /\ 20 \in 0 .. 24
      BY DEF Thread
    <3> QED BY <3>1, <3>2, <3>3, Sleeps
  <2>2. LedsTypeOK'
    BY <1>1, <2>1 DEF IInv, TypeOK, LedsTypeOK, clash, activity
  <2>3. sent' \subseteq {"display", "boot", "ready", "tick"}
    BY <1>2 DEF IInv, TypeOK
  <2> QED BY <1>1, <2>2, <2>3 DEF IInv, TypeOK
<1> QED BY <1>3, <1>4, <1>5, <1>6, <1>7, <1>8 DEF IInv

LEMMA IInvNext == IInv /\ [Next]_vars => IInv'
<1> SUFFICES ASSUME IInv, [Next]_vars PROVE IInv'
  OBVIOUS
<1>1. CASE Main
  BY <1>1, HeartbeatInitStep, ErrorInitStep, SerialInitStep, FirstCommandsStep,
     DisplayCommandsStep, MessageSteps, TasksStep, WaitSteps DEF Main
<1>2. CASE Leds \/ Interrupt
  BY <1>2, LedsKeep
<1>3. CASE away /\ Tick
  BY <1>3, TickStep
<1>4. CASE UNCHANGED vars
  <2>1. UNCHANGED <<boot, clash, activity, alive, wait, err_mask>>
    BY <1>4 DEF vars, leds
  <2>2. Untouched' /\ Made' /\ Initialised' /\ SaysReady' /\ (Room => Counted')
    <3>1. UNCHANGED <<led0, place>>
      BY <2>1 DEF clash
    <3> QED BY <2>1, <3>1, BootAlone
  <2>3. AtCode' /\ Blinks' /\ Dark' /\ PulseEnds'
    BY <2>1, LedsAlone
  <2>4. LedsTypeOK'
    BY <2>1 DEF IInv, TypeOK, LedsTypeOK, clash, activity
  <2> QED BY <2>1, <2>2, <2>3, <2>4, BootTypes DEF IInv
<1> QED BY <1>1, <1>2, <1>3, <1>4 DEF Next

-----------------------------------------------------------------------------
\* The invariant holds of every execution.
THEOREM Invariance == Spec => []IInv
  BY InitIInv, IInvNext, PTL DEF Spec

\* Every variable of the boot and of the LEDs has its type: err_task's count of
\* blinks never passes the code it shows, and the table of commands never
\* overflows (cmd_register drops what does not fit).
THEOREM BootTypeCorrect == Spec => []TypeOK
<1>1. IInv => TypeOK
  BY DEF IInv
<1> QED BY <1>1, Invariance, PTL

\* A code is shown as often as it says, with the heartbeat out of the way
\* (err_task, heartbeat_entry).
THEOREM CodeIsShown == Spec => []CodeShown
<1>1. IInv => CodeShown
  <2> SUFFICES ASSUME IInv, place = "next" PROVE rises = Min(mask) /\ led0 = 0
    BY DEF CodeShown
  <2>1. rises = i /\ i = Min(mask)
    BY DEF IInv, Blinks
  <2>2. err_mask # {}
    BY DEF IInv, AtCode
  <2>3. led0 # 1
    BY <2>2 DEF IInv, Dark
  <2>4. led0 \in {0, 1}
    BY DEF IInv, TypeOK, LedsTypeOK
  <2> QED BY <2>1, <2>3, <2>4
<1> QED BY <1>1, Invariance, PTL

\* While the activity LED is on, its timer runs, is due, or is about to be
\* started (activity_led_pulse, off_timer_handler).
THEOREM PulseAlwaysEnds == Spec => []PulseEnds
<1>1. IInv => PulseEnds
  BY DEF IInv
<1> QED BY <1>1, Invariance, PTL

\* If the table has room for every handler, as MAX_CMDS has, no thread runs
\* before what it uses is there, and "[READY]" is sent when it is true, with or
\* without a UART and a panel (main).
THEOREM BootsInOrder == ASSUME Room PROVE Spec => []BootInOrder
<1>1. IInv => InitBeforeUse
  <2> SUFFICES ASSUME IInv, away
               PROVE  /\ \A t \in alive : Needs(t) \subseteq inited
                      /\ "proto" \in alive => g_cmd_count = Simple + Sd + Display + DoomCmds
    BY DEF InitBeforeUse
  <2>1. ~Early
    BY DEF IInv, Untouched
  <2>2. "led0" \in inited /\ "err_lock" \in inited
    BY <2>1 DEF IInv, Initialised, Early
  <2>3. "serial" \in inited <=> uart
    BY DEF IInv, Initialised
  <2>4. "proto" \in alive <=> TasksMade
    BY <2>1 DEF IInv, Made, TasksMade, Thread, Early
  <2>5. TasksMade => "off_timer" \in inited
    BY DEF IInv, Initialised
  <2>6. ASSUME NEW t \in alive PROVE Needs(t) \subseteq inited
    BY <2>2, <2>3, <2>4, <2>5 DEF Needs
  <2>7. TasksMade => g_cmd_count = Simple + Sd + Display + DoomCmds
    BY <2>1 DEF IInv, Counted, TasksMade, Early
  <2> QED BY <2>4, <2>6, <2>7
<1>2. IInv => ReadyIsTrue
  <2> SUFFICES ASSUME IInv, "ready" \in sent
               PROVE  /\ g_cmd_count = Simple + Sd + Display + DoomCmds
                      /\ alive = Thread /\ inited = {"led0", "err_lock", "serial", "off_timer"}
    BY DEF ReadyIsTrue
  <2>1. step = "forever" /\ uart
    BY DEF IInv, SaysReady
  <2>2. alive = Thread
    BY <2>1 DEF IInv, Made, TasksMade
  <2>3. g_cmd_count = Simple + Sd + Display + DoomCmds
    BY <2>1 DEF IInv, Counted, TasksMade, Early
  <2>4. inited \subseteq {"led0", "err_lock", "serial", "off_timer"}
    BY DEF IInv, TypeOK
  <2>5. {"led0", "err_lock", "serial", "off_timer"} \subseteq inited
    BY <2>1 DEF IInv, Initialised, TasksMade
  <2> QED BY <2>2, <2>3, <2>4, <2>5
<1>3. IInv => BootInOrder
  BY <1>1, <1>2 DEF BootInOrder
<1> QED BY <1>3, Invariance, PTL
=============================================================================
