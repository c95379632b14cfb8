------------------------------ MODULE HostLink ------------------------------
(***************************************************************************)
(* The host's send_cmd (tests/pytest/fixtures/protocol.py) against on_msg  *)
(* of app/src/app/proto_task.c: a program of commands, sent one after the  *)
(* other, each again after a timeout.  Requests and responses carry a      *)
(* command id and nothing that tells one attempt, or one command, from the *)
(* next of the same id.  The line delivers frames in order; a request the  *)
(* device's receive path drops is lost.  Frames that are not responses     *)
(* (LOG) are passed over by the host and left out.                         *)
(***************************************************************************)
EXTENDS Naturals, Sequences

CONSTANTS
  Program,   \* the commands: records of id, empty_ok and retries
  Handlers,  \* the command ids in cmd_dispatch's table
  HasReply,  \* those whose handler may succeed with a payload
  Deferred   \* those whose handler only has a thread do the work: SD.Format

ASSUME ProgramAssumption ==
  Program \in Seq([id : STRING, empty_ok : BOOLEAN, retries : Nat])

\* No command follows one of the same id.
NoRepeat == \A k \in 1 .. Len(Program) - 1 : Program[k].id # Program[k + 1].id

VARIABLES
  waiting,   \* is send_cmd waiting for a response?
  attempt,
  raised,    \* has send_cmd given up?
  toDevice,  \* requests under way: indexes of Program
  toHost,    \* responses under way
  answers,   \* history: what each call that returned took for its response
  begun,     \* the deferred commands the thread under way answers for
  executed,  \* history: the commands the device has executed to the end
  last       \* history: the one whose handler it ran last

hostVars == <<waiting, attempt, raised, answers>>
deviceVars == <<begun, executed, last>>
vars == <<hostVars, toDevice, toHost, deviceVars>>

\* The command the host is at.
Cur == Len(answers) + 1

Response == [op : 1 .. Len(Program), rc : {0, 1}, empty : BOOLEAN]

Init ==
  /\ waiting = FALSE /\ attempt = 0 /\ raised = FALSE /\ answers = <<>>
  /\ toDevice = <<>> /\ toHost = <<>>
  /\ begun = {} /\ executed = {} /\ last = 0

-----------------------------------------------------------------------------
(* The host.                                                               *)

Send ==
  /\ ~waiting /\ ~raised /\ Cur <= Len(Program)
  /\ waiting' = TRUE /\ attempt' = 0
  /\ toDevice' = Append(toDevice, Cur)
  /\ UNCHANGED <<raised, answers, toHost, deviceVars>>

\* Mutant: any response will do.
AcceptsAnyId(r) == Program[Cur].empty_ok \/ ~r.empty

\* The response send_cmd takes for its own.
Accepts(r) ==
  /\ Program[r.op].id = Program[Cur].id
  /\ Program[Cur].empty_ok \/ ~r.empty

PassOver ==
  /\ waiting /\ toHost # <<>> /\ ~Accepts(Head(toHost))
  /\ toHost' = Tail(toHost)
  /\ UNCHANGED <<hostVars, toDevice, deviceVars>>

\* What read(256) brought in after the response goes with the call's buffer.
Return ==
  /\ waiting /\ toHost # <<>> /\ Accepts(Head(toHost))
  /\ answers' = Append(answers, Head(toHost))
  /\ waiting' = FALSE
  /\ \E n \in 1 .. Len(toHost) : toHost' = SubSeq(toHost, n + 1, Len(toHost))
  /\ UNCHANGED <<attempt, raised, toDevice, deviceVars>>

\* The buffer of the attempt goes, with the part of a response it may hold.
DropBuffer ==
  \/ UNCHANGED toHost
  \/ toHost # <<>> /\ toHost' = Tail(toHost)

\* Mutant: one attempt too many.
RetryOnceMore ==
  /\ waiting /\ attempt <= Program[Cur].retries
  /\ attempt' = attempt + 1
  /\ toDevice' = Append(toDevice, Cur)
  /\ DropBuffer
  /\ UNCHANGED <<waiting, raised, answers, deviceVars>>

\* The deadline passes and the frame is sent again.
Retry ==
  /\ waiting /\ attempt < Program[Cur].retries
  /\ attempt' = attempt + 1
  /\ toDevice' = Append(toDevice, Cur)
  /\ DropBuffer
  /\ UNCHANGED <<waiting, raised, answers, deviceVars>>

\* The last deadline passes: AssertionError ends the program.
Raise ==
  /\ waiting /\ attempt = Program[Cur].retries
  /\ waiting' = FALSE /\ raised' = TRUE
  /\ DropBuffer
  /\ UNCHANGED <<attempt, answers, toDevice, deviceVars>>

-----------------------------------------------------------------------------
(* The line and the device.                                                *)

\* The receive path drops a request: rx_rb full, noise, a bad CRC.
Lose ==
  /\ toDevice # <<>>
  /\ toDevice' = Tail(toDevice)
  /\ UNCHANGED <<hostVars, toHost, deviceVars>>

\* What a handler may return: 0 or an error, with or without a payload.
\* A command that is not in the table is an error; a deferred one is always a
\* success, also while the thread for an earlier one is under way.
Outcome(id) ==
  {o \in [rc : {0, 1}, empty : BOOLEAN] :
     /\ id \notin Handlers => o.rc = 1
     /\ id \in Deferred => o.rc = 0
     /\ ~o.empty => id \in HasReply}

\* on_msg sends the handler's payload only with rc = 0.
Reply(k, o) == [op |-> k, rc |-> o.rc, empty |-> o.empty \/ o.rc # 0]

\* The handler of command k.
Handler(k) ==
  /\ last' = k
  /\ \/ /\ Program[k].id \in Deferred
        /\ begun' = begun \cup {k} /\ UNCHANGED executed
     \/ /\ Program[k].id \notin Deferred
        /\ executed' = executed \cup {k} /\ UNCHANGED begun

\* Mutant: the response is sent when the request arrives, handled or not.
OnMsgReplyFirst ==
  /\ toDevice # <<>>
  /\ LET k == Head(toDevice)
     IN  /\ Handler(k) \/ UNCHANGED deviceVars
         /\ \E o \in Outcome(Program[k].id) : toHost' = Append(toHost, Reply(k, o))
         /\ toDevice' = Tail(toDevice)
  /\ UNCHANGED hostVars

\* on_msg: cmd_dispatch runs the handler, then the response is written.
OnMsg ==
  /\ toDevice # <<>>
  /\ LET k == Head(toDevice)
     IN  /\ Handler(k)
         /\ \E o \in Outcome(Program[k].id) : toHost' = Append(toHost, Reply(k, o))
         /\ toDevice' = Tail(toDevice)
  /\ UNCHANGED hostVars

\* The thread has done its work, however many later commands have been served
\* meanwhile, and the next request starts a new one.
DeferredEnd ==
  /\ begun # {}
  /\ executed' = executed \cup begun /\ begun' = {}
  /\ UNCHANGED <<hostVars, toDevice, toHost, last>>

Next ==
  \/ Send \/ PassOver \/ Return \/ Retry \/ Raise
  \/ Lose \/ OnMsg \/ DeferredEnd

Spec == Init /\ [][Next]_vars

-----------------------------------------------------------------------------
TypeOK ==
  /\ waiting \in BOOLEAN /\ raised \in BOOLEAN
  /\ answers \in Seq(Response) /\ Len(answers) <= Len(Program)
  /\ waiting => Cur <= Len(Program)
  /\ attempt \in Nat
  /\ waiting => attempt <= Program[Cur].retries
  /\ toDevice \in Seq(1 .. Len(Program))
  /\ toHost \in Seq(Response)
  /\ begun \subseteq {k \in 1 .. Len(Program) : Program[k].id \in Deferred}
  /\ executed \subseteq 1 .. Len(Program)
  /\ last \in 0 .. Len(Program)

\* Every response a call returned with is a response to that call, not one to
\* an earlier attempt at another command that came late.
Genuine == \A k \in 1 .. Len(answers) : answers[k].op = k

\* "Send a command and wait for a response" (protocol.py:53): when a call has
\* returned, the device has executed its command; or, for a deferred one, the
\* thread that it started, or found under way, has ended or is still at work.
AckedIsExecuted ==
  \A k \in 1 .. Len(answers) :
    k \in executed \/ (Program[k].id \in Deferred /\ k \in begun)

\* The calls are at-least-once calls, handled in order; only deferred work may
\* be done later, beside and after later commands.
Calls == INSTANCE AtLeastOnce
           WITH done <- Len(answers), last <- last, pending <- begun,
                Later <- {k \in 1 .. Len(Program) : Program[k].id \in Deferred}
ImplementsAtLeastOnce == Calls!Spec
=============================================================================
