------------------------------ MODULE DoomTask ------------------------------
(***************************************************************************)
(* app/src/app/doom_task.c: the background thread doom, started and        *)
(* stopped by commands that proto serves.  Each access to doom_state is a  *)
(* step.  The kernel object of the thread is static, so a second thread    *)
(* created before the first has ended takes its place, stack and all; what *)
(* follows is undefined, and the model goes on as if the first were gone.  *)
(***************************************************************************)
EXTENDS Naturals

CONSTANTS
  TickMod,    \* doom_ticks counts modulo this (2^32 in the code)
  HostWaits   \* does the host let the thread end before it starts it again?

\* What the theorems assume.
DoomTaskAssumption == TickMod \in Nat \ {0, 1} /\ HostWaits

VARIABLES
  doom_state, doom_ticks,
  thread,   \* where the thread doom is
  handler,  \* where proto is in doom_task_start or doom_task_stop
  rc        \* what the last of them returned

vars == <<doom_state, doom_ticks, thread, handler, rc>>

Init ==
  /\ doom_state = "STOPPED" /\ doom_ticks = 0
  /\ thread = "none" /\ handler = "idle" /\ rc = 0

-----------------------------------------------------------------------------
(* doom_thread.                                                            *)

\* Mutant: the thread begins without a word.
ThreadBeginSilent ==
  /\ thread = "created"
  /\ thread' = "loop"
  /\ UNCHANGED <<doom_state, doom_ticks, handler, rc>>

ThreadBegin ==
  /\ thread = "created"
  /\ doom_state' = "RUNNING" /\ thread' = "loop"
  /\ UNCHANGED <<doom_ticks, handler, rc>>

\* The loop's condition, then a tick and 28 ms of sleep.
LoopTurn ==
  /\ thread = "loop"
  /\ IF doom_state = "RUNNING"
       THEN doom_ticks' = (doom_ticks + 1) % TickMod /\ thread' = "sleep"
       ELSE thread' = "end" /\ UNCHANGED doom_ticks
  /\ UNCHANGED <<doom_state, handler, rc>>

\* Mutant: the loop declares itself running in every turn.
WakeResumes ==
  /\ thread = "sleep"
  /\ thread' = "loop" /\ doom_state' = "RUNNING"
  /\ UNCHANGED <<doom_ticks, handler, rc>>

Wake ==
  /\ thread = "sleep"
  /\ thread' = "loop"
  /\ UNCHANGED <<doom_state, doom_ticks, handler, rc>>

ThreadEnd ==
  /\ thread = "end"
  /\ doom_state' = "STOPPED" /\ thread' = "none"
  /\ UNCHANGED <<doom_ticks, handler, rc>>

Doom == ThreadBegin \/ LoopTurn \/ Wake \/ ThreadEnd

-----------------------------------------------------------------------------
(* doom_task_start and doom_task_stop, called from proto.                  *)

Start ==
  /\ handler = "idle"
  /\ HostWaits /\ doom_state = "STOPPED" => thread = "none"
  /\ IF doom_state \in {"RUNNING", "STARTING"}
       THEN rc' = 0 /\ UNCHANGED handler
       ELSE handler' = "create" /\ UNCHANGED rc
  /\ UNCHANGED <<doom_state, doom_ticks, thread>>

Create ==
  /\ handler = "create"
  /\ doom_ticks' = 0 /\ doom_state' = "STARTING"
  /\ thread' = "created"
  /\ handler' = "idle" /\ rc' = 0

\* A thread that is starting cannot be stopped.
Stop ==
  /\ handler = "idle"
  /\ IF doom_state = "RUNNING"
       THEN handler' = "stop" /\ UNCHANGED rc
       ELSE rc' = (IF doom_state = "STOPPED" THEN 0 ELSE 1) /\ UNCHANGED handler
  /\ UNCHANGED <<doom_state, doom_ticks, thread>>

StopStore ==
  /\ handler = "stop"
  /\ doom_state' = "STOPPED"
  /\ handler' = "idle" /\ rc' = 0
  /\ UNCHANGED <<doom_ticks, thread>>

Next == Doom \/ Start \/ Create \/ Stop \/ StopStore

\* Both threads block in every loop and so leave the processor to each other.
Spec == Init /\ [][Next]_vars /\ WF_vars(Doom) /\ WF_vars(Create \/ StopStore)

-----------------------------------------------------------------------------
TypeOK ==
  /\ doom_state \in {"STOPPED", "STARTING", "RUNNING"}
  /\ doom_ticks \in 0 .. TickMod - 1
  /\ thread \in {"none", "created", "loop", "sleep", "end"}
  /\ handler \in {"idle", "create", "stop"} /\ rc \in {0, 1}

\* What Doom.Status reports is so: running means that the thread is in its
\* loop, starting that it exists and has not begun, and with no thread the
\* state is stopped.
StateIsTrue ==
  /\ doom_state = "RUNNING" => thread \in {"loop", "sleep"}
  /\ doom_state = "STARTING" <=> thread = "created"
  /\ thread = "none" => doom_state = "STOPPED"

\* Stopping is never lost: once the state is stopped, the thread ends.
StopTakesEffect == [](doom_state = "STOPPED" => <>(thread = "none"))

\* "Start the Doom thread if not running" (doom_task.h:16): a thread is created
\* only when there is none.
StartsOnlyIfNone ==
  [][handler = "create" /\ handler' = "idle" => thread = "none"]_vars
=============================================================================
