---------------------------- MODULE AtLeastOnce ----------------------------
(***************************************************************************)
(* What a caller may expect of commands sent with send_cmd, one after the  *)
(* other: each is handled at least once before its call returns, and none  *)
(* is handled again once a later one has been.  A command is done when it  *)
(* has been handled, unless it is one of those done later: the caller is   *)
(* not told when, and what came after may be undone by it.                 *)
(***************************************************************************)
EXTENDS Naturals

CONSTANT Later  \* the commands that are done after they have been answered

VARIABLES
  done,    \* calls that have returned
  last,    \* the command handled last, 0 before the first
  pending  \* commands that have been handled and are still to be done

Init == done = 0 /\ last = 0 /\ pending = {}

\* A command is handled: the last one again, or the one being called.
Execute ==
  /\ last' \in {last, done + 1} /\ last' > 0
  /\ pending' = pending \cup ({last'} \cap Later)
  /\ UNCHANGED done

\* What is pending is done, once for all requests that asked for it.
Finish ==
  /\ pending # {} /\ pending' = {}
  /\ UNCHANGED <<done, last>>

Return ==
  /\ last = done + 1
  /\ done' = done + 1
  /\ UNCHANGED <<last, pending>>

Next == Execute \/ Finish \/ Return

Spec == Init /\ [][Next]_<<done, last, pending>>
=============================================================================
