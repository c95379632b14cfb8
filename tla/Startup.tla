------------------------------ MODULE Startup -------------------------------
(***************************************************************************)
(* main of app/src/app/main.c beside the threads it creates.  main has a   *)
(* higher priority: the others run only while it waits, in the panel's     *)
(* driver, in platform_serial_write or, at the end, in app_run_forever.    *)
(***************************************************************************)
EXTENDS StatusLeds

CONSTANT MaxCmds  \* MAX_CMDS

ASSUME StartupAssumption == MaxCmds \in Nat

VARIABLES
  step,         \* what main does next
  away,         \* does it wait?
  inited,       \* the objects that have been initialised
  uart,         \* did platform_serial_init succeed?
  panel,        \* did display_init?
  g_cmd_count,
  sent          \* the messages that have gone out

boot == <<step, away, inited, uart, panel, g_cmd_count, sent>>
vars == <<leds, boot>>

Init ==
  /\ LedsInit
  /\ step = "heartbeat" /\ away = FALSE /\ inited = {} /\ uart = FALSE /\ panel = FALSE
  /\ g_cmd_count = 0 /\ sent = {}

\* Handlers of echo, version, reboot and mem; of SD; of the display; of doom.
Simple == 5
Sd == 13
Display == 7
DoomCmds == 3

\* cmd_register, n times; that the table is full is ignored.
Registered(n) == g_cmd_count' = Min({MaxCmds, g_cmd_count + n})

At(s) == step = s /\ ~away
Goto(s) == step' = s /\ UNCHANGED away

\* A call in which main may wait.
GotoWaiting(s) == step' = s /\ away' \in BOOLEAN
Send(text) == sent' = IF uart THEN sent \cup {text} ELSE sent

-----------------------------------------------------------------------------
HeartbeatInit ==
  /\ At("heartbeat") /\ Goto("errors")
  /\ inited' = inited \cup {"led0"} /\ alive' = alive \cup {"heartbeat"} /\ SetLed0(0)
  /\ UNCHANGED <<level, place, mask, i, activity, wait, err_mask, uart, panel, g_cmd_count, sent>>

ErrorInit ==
  /\ At("errors") /\ Goto("serial")
  /\ inited' = inited \cup {"err_lock"} /\ alive' = alive \cup {"err_led"} /\ SetLed0(0)
  /\ err_mask' = {}
  /\ UNCHANGED <<level, place, mask, i, activity, wait, uart, panel, g_cmd_count, sent>>

\* Without a UART the board goes on, with code 1 on the LED.
SerialInit ==
  /\ At("serial") /\ Goto("commands")
  /\ \/ uart' = TRUE /\ inited' = inited \cup {"serial"} /\ UNCHANGED err_mask
     \/ err_mask' = err_mask \cup {1} /\ UNCHANGED <<uart, inited>>
  /\ UNCHANGED <<clash, activity, alive, wait, panel, g_cmd_count, sent>>

\* cmd_echo_init to cmd_sd_init, and the call of display_init.
FirstCommands ==
  /\ At("commands") /\ GotoWaiting("display")
  /\ Registered(Simple + Sd) /\ panel' \in BOOLEAN
  /\ UNCHANGED <<leds, inited, uart, sent>>

\* Mutant: without a panel its handlers are left out.
DisplayCommandsIfAny ==
  /\ At("display") /\ GotoWaiting("display log")
  /\ IF panel THEN Registered(Display) ELSE UNCHANGED g_cmd_count
  /\ UNCHANGED <<leds, inited, uart, panel, sent>>

\* The rest of cmd_display_init: the handlers with or without a panel, the
\* white screen, the message.
DisplayCommands ==
  /\ At("display") /\ GotoWaiting("display log")
  /\ Registered(Display)
  /\ UNCHANGED <<leds, inited, uart, panel, sent>>

DisplayLog ==
  /\ At("display log") /\ GotoWaiting("doom")
  /\ Send("display")
  /\ UNCHANGED <<leds, inited, uart, panel, g_cmd_count>>

\* cmd_doom_init, proto_task_start, proto_start_tick, activity_led_init and
\* sd_ops_init, none of which waits.
Tasks ==
  /\ At("doom") /\ Goto("boot log")
  /\ Registered(DoomCmds)
  /\ alive' = alive \cup {"proto", "tick", "sd"}
  /\ led1' = 0 /\ inited' = inited \cup {"off_timer"}
  /\ UNCHANGED <<clash, pulsing, off_timer, wait, err_mask, uart, panel, sent>>

BootLog ==
  /\ At("boot log") /\ GotoWaiting("ready log")
  /\ Send("boot")
  /\ UNCHANGED <<leds, inited, uart, panel, g_cmd_count>>

ReadyLog ==
  /\ At("ready log") /\ GotoWaiting("forever")
  /\ Send("ready")
  /\ UNCHANGED <<leds, inited, uart, panel, g_cmd_count>>

\* main's loop wakes every second, for nothing.
RunForever ==
  /\ At("forever") /\ away' = TRUE
  /\ UNCHANGED <<leds, step, inited, uart, panel, g_cmd_count, sent>>

MainBack ==
  /\ away /\ step # "forever" /\ away' = FALSE
  /\ UNCHANGED <<leds, step, inited, uart, panel, g_cmd_count, sent>>

Main ==
  \/ HeartbeatInit \/ ErrorInit \/ SerialInit \/ FirstCommands \/ DisplayCommands
  \/ DisplayLog \/ Tasks \/ BootLog \/ ReadyLog \/ RunForever \/ MainBack

-----------------------------------------------------------------------------
\* tick_thread: a message, then a second of sleep.
Tick ==
  /\ Awake("tick") /\ Sleep("tick", 20)
  /\ Send("tick")
  /\ UNCHANGED <<clash, activity, alive, err_mask, step, away, inited, uart, panel, g_cmd_count>>

Leds ==
  /\ away /\ (Heartbeat \/ ErrTask \/ (uart /\ PulseOn) \/ PulseStart \/ Elapse)
  /\ UNCHANGED boot

Interrupt == OffTimer /\ UNCHANGED boot

Next == Main \/ Leds \/ Interrupt \/ (away /\ Tick)

\* Threads that sleep in every loop, a timer, and drivers that return.
Spec ==
  /\ Init /\ [][Next]_vars
  /\ WF_vars(Main) /\ WF_vars(away /\ Heartbeat /\ UNCHANGED boot) /\ WF_vars(Interrupt)
  /\ WF_vars(away /\ ErrTask /\ UNCHANGED boot) /\ WF_vars(away /\ Tick)
  /\ WF_vars(away /\ PulseStart /\ UNCHANGED boot) /\ WF_vars(away /\ Elapse /\ UNCHANGED boot)

-----------------------------------------------------------------------------
TypeOK ==
  /\ LedsTypeOK
  /\ step \in {"heartbeat", "errors", "serial", "commands", "display", "display log",
               "doom", "boot log", "ready log", "forever"}
  /\ {away, uart, panel} \subseteq BOOLEAN
  /\ inited \subseteq {"led0", "err_lock", "serial", "off_timer"}
  /\ g_cmd_count \in 0 .. MaxCmds
  /\ sent \subseteq {"display", "boot", "ready", "tick"}

\* What a thread may touch in its first step.
Needs(t) ==
  CASE t \in {"heartbeat", "err_led"} -> {"led0", "err_lock"}
    [] t = "proto" -> {"off_timer"} \cup (IF uart THEN {"serial"} ELSE {})
    [] t = "tick" -> IF uart THEN {"serial"} ELSE {}
    [] OTHER -> {}

\* Threads are created before what they use is initialised (the heartbeat locks
\* err_lock, proto pulses the activity LED); they do not run before it is, and
\* proto serves nothing before every handler is registered.
InitBeforeUse ==
  away => /\ \A t \in alive : Needs(t) \subseteq inited
          /\ "proto" \in alive => g_cmd_count = Simple + Sd + Display + DoomCmds

\* "[READY]" is so: "after handlers and workers are up" (main.c:88), whatever has
\* become of the panel.
ReadyIsTrue ==
  "ready" \in sent =>
    /\ g_cmd_count = Simple + Sd + Display + DoomCmds
    /\ alive = Thread /\ inited = {"led0", "err_lock", "serial", "off_timer"}

\* Boot in an order that lets nobody find anything missing: neither a thread nor
\* the host, told "[READY]".
BootInOrder == InitBeforeUse /\ ReadyIsTrue
=============================================================================
