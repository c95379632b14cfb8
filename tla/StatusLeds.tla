----------------------------- MODULE StatusLeds -----------------------------
(***************************************************************************)
(* The two LEDs: threads heartbeat and err_led on the pin led0, the        *)
(* activity LED on led1 with its timer.  All sleeps and timers are counted *)
(* in units of 50 ms; 60 ms is one unit.  A thread runs from one sleep to  *)
(* the next in a step, since no other of its priority takes the processor. *)
(***************************************************************************)
EXTENDS Naturals, FiniteSets, FiniteSetsExt

Code == 1 .. 16

VARIABLES
  led0, led1,  \* the pins
  alive,       \* the threads that have been created
  wait,        \* by thread, how long it still sleeps
  err_mask,    \* the codes to show
  level,       \* of heartbeat_entry
  place,       \* of err_task: before which step of its loop it sleeps
  mask, i,     \* of err_task: the codes left of its copy, blinks of the first
  pulsing,     \* is proto between the two calls of activity_led_pulse?
  off_timer,   \* what is left of it; Stopped
  rises        \* history: how often led0 went on since err_task's separator, while it shows codes

clash == <<led0, level, place, mask, i, rises>>
activity == <<led1, pulsing, off_timer>>
leds == <<clash, activity, alive, wait, err_mask>>

Thread == {"heartbeat", "err_led", "proto", "tick", "sd"}
Stopped == 10

LedsInit ==
  /\ led0 = 0 /\ led1 = 0 /\ alive = {} /\ wait = [t \in Thread |-> 0]
  /\ err_mask = {} /\ level = 0 /\ place = "look" /\ mask = {} /\ i = 0
  /\ pulsing = FALSE /\ off_timer = Stopped /\ rises = 0

Awake(t) == t \in alive /\ wait[t] = 0
Sleep(t, n) == wait' = [wait EXCEPT ![t] = n]
SetLed0(v) == led0' = v /\ rises' = IF mask # {} /\ led0 = 0 /\ v = 1 THEN rises + 1 ELSE rises

-----------------------------------------------------------------------------
(* heartbeat_entry.                                                        *)

\* Mutant: it beats on while a code is shown.
HeartbeatBeats ==
  /\ Awake("heartbeat")
  /\ SetLed0(level) /\ level' = 1 - level /\ Sleep("heartbeat", 10)
  /\ UNCHANGED <<place, mask, i, activity, alive, err_mask>>

\* Mutant: the level stays.
HeartbeatFlat ==
  /\ Awake("heartbeat")
  /\ IF err_mask # {} THEN SetLed0(0) /\ Sleep("heartbeat", 2)
                      ELSE SetLed0(level) /\ Sleep("heartbeat", 10)
  /\ UNCHANGED <<level, place, mask, i, activity, alive, err_mask>>

Heartbeat ==
  /\ Awake("heartbeat")
  /\ IF err_mask # {}
       THEN SetLed0(0) /\ Sleep("heartbeat", 2) /\ UNCHANGED level
       ELSE SetLed0(level) /\ level' = 1 - level /\ Sleep("heartbeat", 10)
  /\ UNCHANGED <<place, mask, i, activity, alive, err_mask>>

-----------------------------------------------------------------------------
(* err_task.  The code shown is the least of mask.                         *)

ErrAt(p) == Awake("err_led") /\ place = p
ErrSleep(n, p) == Sleep("err_led", n) /\ place' = p

ErrLook ==
  /\ ErrAt("look")
  /\ mask' = err_mask /\ i' = 0
  /\ IF err_mask = {} THEN ErrSleep(2, "look") /\ UNCHANGED rises
                      ELSE ErrSleep(4, "blink") /\ rises' = 0
  /\ UNCHANGED <<led0, level, activity, alive, err_mask>>

BlinkOn ==
  /\ ErrAt("blink") /\ SetLed0(1) /\ ErrSleep(3, "on")
  /\ UNCHANGED <<level, mask, i, activity, alive, err_mask>>

\* Mutant: one blink too many.
BlinkOffPast ==
  /\ ErrAt("on") /\ SetLed0(0) /\ i' = i + 1
  /\ ErrSleep(3, IF i' > Min(mask) THEN "shown" ELSE "blink")
  /\ UNCHANGED <<level, mask, activity, alive, err_mask>>

BlinkOff ==
  /\ ErrAt("on") /\ SetLed0(0) /\ i' = i + 1
  /\ ErrSleep(3, IF i' = Min(mask) THEN "shown" ELSE "blink")
  /\ UNCHANGED <<level, mask, activity, alive, err_mask>>

CodeEnd ==
  /\ ErrAt("shown") /\ ErrSleep(12, "next")
  /\ UNCHANGED <<led0, level, mask, i, rises, activity, alive, err_mask>>

\* The next code, or the gap between two sequences.
NextCode ==
  /\ ErrAt("next")
  /\ mask' = mask \ {Min(mask)} /\ i' = 0 /\ rises' = 0
  /\ IF mask' = {} THEN ErrSleep(24, "look") ELSE ErrSleep(4, "blink")
  /\ UNCHANGED <<led0, level, activity, alive, err_mask>>

ErrTask == ErrLook \/ BlinkOn \/ BlinkOff \/ CodeEnd \/ NextCode

-----------------------------------------------------------------------------
(* activity_led_pulse, which on_msg and three SD handlers call on proto, and *)
(* off_timer_handler, an interrupt.                                        *)

PulseOn ==
  /\ Awake("proto") /\ ~pulsing
  /\ led1' = 1 /\ pulsing' = TRUE
  /\ UNCHANGED <<clash, off_timer, alive, wait, err_mask>>

\* Mutant: a timer that runs, or is due, is left alone.
PulseStartOnce ==
  /\ pulsing /\ pulsing' = FALSE
  /\ off_timer' = (IF led1 = 1 THEN off_timer ELSE 1)
  /\ Sleep("proto", 1)
  /\ UNCHANGED <<led1, clash, alive, err_mask>>

\* The timer is started anew; the next request takes a while to come in.
PulseStart ==
  /\ pulsing /\ pulsing' = FALSE
  /\ off_timer' = 1
  /\ Sleep("proto", 1)
  /\ UNCHANGED <<led1, clash, alive, err_mask>>

OffTimer ==
  /\ off_timer = 0
  /\ led1' = 0 /\ off_timer' = Stopped
  /\ UNCHANGED <<clash, pulsing, alive, wait, err_mask>>

-----------------------------------------------------------------------------
\* Everybody sleeps, proto perhaps only for want of input.
Elapse ==
  /\ \A t \in {"heartbeat", "err_led", "tick"} : ~Awake(t)
  /\ ~pulsing /\ off_timer # 0
  /\ wait' = [t \in Thread |-> IF wait[t] = 0 THEN 0 ELSE wait[t] - 1]
  /\ off_timer' = IF off_timer = Stopped THEN Stopped ELSE off_timer - 1
  /\ UNCHANGED <<clash, led1, pulsing, alive, err_mask>>

-----------------------------------------------------------------------------
LedsTypeOK ==
  /\ {led0, led1, level} \subseteq {0, 1}
  /\ alive \subseteq Thread /\ wait \in [Thread -> 0 .. 24]
  /\ err_mask \subseteq Code /\ mask \subseteq Code
  /\ i \in 0 .. (IF mask = {} THEN 0 ELSE Min(mask))
  /\ place \in {"look", "blink", "on", "shown", "next"}
  /\ pulsing \in BOOLEAN /\ off_timer \in {0, 1, Stopped}

\* Between its first and its last blink a code is not mixed with the
\* heartbeat: the LED has gone on as often as the code says, and is dark again.
\* How long it stayed on is BlinkWhole's.
CodeShown == place = "next" => rises = Min(mask) /\ led0 = 0

\* "thread will blink codes accordingly" (error_indicator.h:21), with "LED off to
\* avoid pattern clash" (heartbeat.c:30): a blink stays on for its 150 ms.
BlinkWhole == place = "on" /\ wait["err_led"] > 0 => led0 = 1

\* The activity LED does not stay on: who has turned it on starts the timer, and
\* an expiry in between does no harm.
PulseEnds == led1 = 1 => pulsing \/ off_timer # Stopped

\* The heartbeat shows that the board lives, or the error LED does, whatever has
\* become of the UART.
LedAlive == []<>(led0 = 1) /\ []<>(led0 = 0)
=============================================================================
