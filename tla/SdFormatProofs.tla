--------------------------- MODULE SdFormatProofs ---------------------------
(***************************************************************************)
(* Formatting against the other SD commands, for every number of probes    *)
(* and whenever requests arrive.                                           *)
(***************************************************************************)
EXTENDS SdFormat, TLAPS

\* s_sd_fmt_busy is set exactly while the thread is before its clear.
BusyWhileFormatting == s_sd_fmt_busy <=> pc.sd_fmt \notin {"none", "exit"}

\* What sd_format_sync has done by the time it is where it is.
FormatSoFar ==
  /\ \/ pc.sd_fmt \in {"check", "mount", "publish"}
     \/ pc.sd_fmt \in {"init", "probe"} /\ goal.sd_fmt = "mount"
     => volume = "new"
  /\ pc.sd_fmt = "publish" => mounted

\* A mount is known by its mount point, unless its thread has yet to say so.
Known == mounted => mount_point = "/SD:" \/ \E t \in Thread : pc[t] = "publish"

\* A command that nothing excuses meets no format, and finds the mount as it
\* left it.
Undisturbed ==
  /\ goal.proto = "mount"
  /\ pc.proto # "idle" /\ ~excused =>
       /\ ~s_sd_fmt_busy /\ rc.proto = "ok"
       /\ pc.proto \in {"init", "probe", "mount"} => ~mounted
       /\ pc.proto \in {"publish", "mounted", "use"} => mounted
       /\ pc.proto \in {"io", "close"} => file = "open"

IInv ==
  TypeOK /\ BusyWhileFormatting /\ FormatSoFar /\ FormatLeavesMounted
    /\ Known /\ Undisturbed /\ FailuresExplained

-----------------------------------------------------------------------------
LEMMA IInvInit == Init => IInv
<1> SUFFICES ASSUME Init PROVE IInv
  OBVIOUS
<1>1. pc.proto = "idle" /\ pc.sd_fmt = "none"
  BY DEF Init, Thread
<1>2. TypeOK
  <2>1. pc \in [Thread -> ProtoPc \cup FmtPc] /\ pc.proto \in ProtoPc /\ pc.sd_fmt \in FmtPc
    BY <1>1 DEF Init, ProtoPc, FmtPc
  <2>2. tries \in [Thread -> 0 .. Probes - 1]
    BY SdFormatAssumption DEF Init
  <2>3. rc \in [Thread -> {"ok", "disk", "ebusy", "enoent", "ebadf"}] /\ goal \in [Thread -> {"mount",
        "mkfs"}]
    BY DEF Init
  <2> QED BY <2>1, <2>2, <2>3 DEF Init, TypeOK, OpKind
<1> QED
  BY <1>1, <1>2 DEF Init, IInv, BusyWhileFormatting, FormatSoFar, FormatLeavesMounted,
     Known, Undisturbed, FailuresExplained, Thread

\* Every step leaves the variables in their types.
LEMMA TypeNext == TypeOK /\ goal.proto = "mount" /\ [Next]_vars => TypeOK'
<1> SUFFICES ASSUME TypeOK, goal.proto = "mount", [Next]_vars PROVE TypeOK'
  OBVIOUS
<1> USE SdFormatAssumption DEF TypeOK, OpKind, ProtoPc, FmtPc, MountPc, Goto, Result, Failed,
        DiskFails, fsVars, Thread
<1>1. CASE FmtUnmount
  BY <1>1 DEF FmtUnmount
<1>2. CASE FmtSettle
  BY <1>2 DEF FmtSettle
<1>3. CASE MkfsBegin
  BY <1>3 DEF MkfsBegin
<1>4. CASE MkfsEnd
  <2>0. pc.sd_fmt = "mkfs_end" /\ UNCHANGED <<mounted, mount_point, file, s_sd_fmt_busy, tries,
        goal, kind>>
    BY <1>4 DEF MkfsEnd
  <2>1. CASE volume' = "new" /\ Goto("sd_fmt", "check") /\ UNCHANGED <<rc, excused>>
    BY <2>0, <2>1
  <2>2. CASE UNCHANGED volume /\ Goto("sd_fmt", "clear") /\ Result("sd_fmt", "disk")
             /\ DiskFails
    BY <2>0, <2>2
  <2> QED BY <1>4, <2>1, <2>2 DEF MkfsEnd
<1>5. CASE FmtClear
  BY <1>5 DEF FmtClear
<1>6. CASE FmtExit
  BY <1>6 DEF FmtExit
<1>7. CASE HFormat
  BY <1>7 DEF HFormat
<1>8. CASE HOp
  BY <1>8 DEF HOp
<1>9. CASE EnsureMounted
  BY <1>9 DEF EnsureMounted
<1>10. CASE Dispatch
  BY <1>10 DEF Dispatch
<1>11. CASE Use
  <2>0. pc.proto = "use" /\ UNCHANGED <<mounted, mount_point, volume, s_sd_fmt_busy, tries,
        goal, kind>>
    BY <1>11 DEF Use
  <2>1. CASE PathFound /\ kind = "file" /\ file' = "open" /\ Goto("proto", "io")
             /\ UNCHANGED <<rc, excused>>
    BY <2>0, <2>1 DEF PathFound
  <2>2. CASE PathFound /\ kind # "file" /\ file' = "none" /\ Goto("proto", "idle")
             /\ UNCHANGED <<rc, excused>>
    BY <2>0, <2>2 DEF PathFound
  <2>3. CASE ~PathFound /\ Goto("proto", "idle") /\ Result("proto", "enoent")
             /\ UNCHANGED <<file, excused>>
    BY <2>0, <2>3 DEF PathFound
  <2>4. CASE Goto("proto", "idle") /\ Result("proto", "disk") /\ DiskFails /\ UNCHANGED file
    BY <2>0, <2>4 DEF PathFound
  <2> QED BY <1>11, <2>1, <2>2, <2>3, <2>4 DEF Use
<1>12. CASE Io
  <2>0. pc.proto = "io" /\ UNCHANGED <<fsVars, s_sd_fmt_busy, tries, goal, kind>>
    BY <1>12 DEF Io
  <2>1. CASE file = "open" /\ UNCHANGED <<pc, rc, excused>>
    BY <2>0, <2>1
  <2>2. CASE file = "open" /\ Goto("proto", "close") /\ UNCHANGED <<rc, excused>>
    BY <2>0, <2>2
  <2>3. CASE file = "dangling" /\ Goto("proto", "close") /\ Result("proto", "ebadf")
             /\ UNCHANGED excused
    BY <2>0, <2>3
  <2>4. CASE Goto("proto", "close") /\ Result("proto", "disk") /\ DiskFails
    BY <2>0, <2>4
  <2> QED BY <1>12, <2>1, <2>2, <2>3, <2>4 DEF Io
<1>13. CASE Close
  BY <1>13 DEF Close
<1>14. ASSUME NEW t \in Thread, IsMounted(t) PROVE TypeOK'
  BY <1>14 DEF IsMounted, Mounted
<1>15. ASSUME NEW t \in Thread, DiskInit(t) PROVE TypeOK'
  <2>0. pc[t] = "init" /\ UNCHANGED <<fsVars, s_sd_fmt_busy, goal, kind>>
        /\ tries' = [tries EXCEPT ![t] = 0]
    BY <1>15 DEF DiskInit
  <2>1. CASE Goto(t, "probe") /\ UNCHANGED <<rc, excused>>
    BY <2>0, <2>1
  <2>2. CASE Goto(t, Failed(t)) /\ Result(t, "disk") /\ DiskFails
    BY <2>0, <2>2
  <2> QED BY <1>15, <2>1, <2>2 DEF DiskInit
<1>16. ASSUME NEW t \in Thread, Probe(t) PROVE TypeOK'
  <2>0. pc[t] = "probe" /\ UNCHANGED <<fsVars, s_sd_fmt_busy, goal, kind>>
    BY <1>16 DEF Probe
  <2>1. CASE Goto(t, goal[t]) /\ UNCHANGED <<rc, tries, excused>>
    BY <2>0, <2>1
  <2>2. CASE tries[t] + 1 < Probes /\ tries' = [tries EXCEPT ![t] = @ + 1]
             /\ UNCHANGED <<pc, rc, excused>>
    BY <2>0, <2>2
  <2>3. CASE Goto(t, Failed(t)) /\ Result(t, "disk") /\ DiskFails /\ UNCHANGED tries
    BY <2>0, <2>3
  <2> QED BY <1>16, <2>1, <2>2, <2>3 DEF Probe
<1>17. ASSUME NEW t \in Thread, FsMount(t) PROVE TypeOK'
  <2>0. pc[t] = "mount" /\ UNCHANGED <<mount_point, volume, file, s_sd_fmt_busy, tries, goal,
        kind>>
    BY <1>17 DEF FsMount
  <2>1. CASE mounted /\ Goto(t, Failed(t)) /\ Result(t, "ebusy")
             /\ UNCHANGED <<mounted, excused>>
    BY <2>0, <2>1
  <2>2. CASE ~mounted /\ mounted' = TRUE /\ Goto(t, "publish") /\ UNCHANGED <<rc, excused>>
    BY <2>0, <2>2
  <2>3. CASE ~mounted /\ Goto(t, Failed(t)) /\ Result(t, "disk") /\ DiskFails
             /\ UNCHANGED mounted
    BY <2>0, <2>3
  <2> QED BY <1>17, <2>1, <2>2, <2>3 DEF FsMount
<1>18. ASSUME NEW t \in Thread, Publish(t) PROVE TypeOK'
  BY <1>18 DEF Publish, Mounted
<1>19. CASE UNCHANGED vars
  BY <1>19 DEF vars
<1> QED
  BY <1>1, <1>2, <1>3, <1>4, <1>5, <1>6, <1>7, <1>8, <1>9, <1>10, <1>11, <1>12, <1>13, <1>14,
     <1>15, <1>16, <1>17, <1>18, <1>19
     DEF Next, Format, Proto, TryMount, HFormatBusy

\* Every step keeps the invariant.
LEMMA IInvNext == IInv /\ [Next]_vars => IInv'
<1> SUFFICES ASSUME IInv, [Next]_vars PROVE IInv'
  OBVIOUS
<1> USE DEF IInv, BusyWhileFormatting, FormatSoFar, FormatLeavesMounted, Known, Undisturbed,
        FailuresExplained, TypeOK, ProtoPc, FmtPc, MountPc, Goto, Result, Failed, DiskFails,
           fsVars,
        Thread
<1>0. TypeOK'
  BY TypeNext DEF IInv, Undisturbed
<1>1. CASE FmtUnmount
  BY <1>1, <1>0 DEF FmtUnmount
<1>2. CASE FmtSettle
  BY <1>2, <1>0 DEF FmtSettle
<1>3. CASE MkfsBegin
  BY <1>3, <1>0 DEF MkfsBegin
<1>4. CASE MkfsEnd
  <2>0. pc.sd_fmt = "mkfs_end" /\ UNCHANGED <<mounted, mount_point, file, s_sd_fmt_busy, tries,
        goal, kind>>
    BY <1>4 DEF MkfsEnd
  <2>1. CASE volume' = "new" /\ Goto("sd_fmt", "check") /\ UNCHANGED <<rc, excused>>
    BY <2>0, <2>1, <1>0
  <2>2. CASE UNCHANGED volume /\ Goto("sd_fmt", "clear") /\ Result("sd_fmt", "disk")
             /\ DiskFails
    BY <2>0, <2>2, <1>0
  <2> QED BY <1>4, <2>1, <2>2 DEF MkfsEnd
<1>5. CASE FmtClear
  BY <1>5, <1>0 DEF FmtClear
<1>6. CASE FmtExit
  BY <1>6, <1>0 DEF FmtExit
<1>7. CASE HFormat
  BY <1>7, <1>0 DEF HFormat
<1>8. CASE HOp
  BY <1>8, <1>0 DEF HOp
<1>9. CASE EnsureMounted
  BY <1>9, <1>0 DEF EnsureMounted
<1>10. CASE Dispatch
  BY <1>10, <1>0 DEF Dispatch
<1>11. CASE Use
  <2>0. pc.proto = "use" /\ UNCHANGED <<mounted, mount_point, volume, s_sd_fmt_busy, tries,
        goal, kind>>
    BY <1>11 DEF Use
  <2>1. CASE PathFound /\ kind = "file" /\ file' = "open" /\ Goto("proto", "io")
             /\ UNCHANGED <<rc, excused>>
    BY <2>0, <2>1, <1>0 DEF PathFound
  <2>2. CASE PathFound /\ kind # "file" /\ file' = "none" /\ Goto("proto", "idle")
             /\ UNCHANGED <<rc, excused>>
    BY <2>0, <2>2, <1>0 DEF PathFound
  <2>3. CASE ~PathFound /\ Goto("proto", "idle") /\ Result("proto", "enoent")
             /\ UNCHANGED <<file, excused>>
    BY <2>0, <2>3, <1>0 DEF PathFound
  <2>4. CASE Goto("proto", "idle") /\ Result("proto", "disk") /\ DiskFails /\ UNCHANGED file
    BY <2>0, <2>4, <1>0 DEF PathFound
  <2> QED BY <1>11, <2>1, <2>2, <2>3, <2>4 DEF Use
<1>12. CASE Io
  <2>0. pc.proto = "io" /\ UNCHANGED <<fsVars, s_sd_fmt_busy, tries, goal, kind>>
    BY <1>12 DEF Io
  <2>1. CASE file = "open" /\ UNCHANGED <<pc, rc, excused>>
    BY <2>0, <2>1, <1>0
  <2>2. CASE file = "open" /\ Goto("proto", "close") /\ UNCHANGED <<rc, excused>>
    BY <2>0, <2>2, <1>0
  <2>3. CASE file = "dangling" /\ Goto("proto", "close") /\ Result("proto", "ebadf")
             /\ UNCHANGED excused
    BY <2>0, <2>3, <1>0
  <2>4. CASE Goto("proto", "close") /\ Result("proto", "disk") /\ DiskFails
    BY <2>0, <2>4, <1>0
  <2> QED BY <1>12, <2>1, <2>2, <2>3, <2>4 DEF Io
<1>13. CASE Close
  BY <1>13, <1>0 DEF Close
<1>14. ASSUME NEW t \in Thread, IsMounted(t) PROVE IInv'
  BY <1>14, <1>0 DEF IsMounted, Mounted
<1>15. ASSUME NEW t \in Thread, DiskInit(t) PROVE IInv'
  <2>0. pc[t] = "init" /\ UNCHANGED <<fsVars, s_sd_fmt_busy, goal, kind>>
        /\ tries' = [tries EXCEPT ![t] = 0]
    BY <1>15 DEF DiskInit
  <2>1. CASE Goto(t, "probe") /\ UNCHANGED <<rc, excused>>
    BY <2>0, <2>1, <1>0
  <2>2. CASE Goto(t, Failed(t)) /\ Result(t, "disk") /\ DiskFails
    BY <2>0, <2>2, <1>0
  <2> QED BY <1>15, <2>1, <2>2 DEF DiskInit
<1>16. ASSUME NEW t \in Thread, Probe(t) PROVE IInv'
  <2>0. pc[t] = "probe" /\ UNCHANGED <<fsVars, s_sd_fmt_busy, goal, kind>>
    BY <1>16 DEF Probe
  <2>1. CASE Goto(t, goal[t]) /\ UNCHANGED <<rc, tries, excused>>
    BY <2>0, <2>1, <1>0
  <2>2. CASE tries[t] + 1 < Probes /\ tries' = [tries EXCEPT ![t] = @ + 1]
             /\ UNCHANGED <<pc, rc, excused>>
    BY <2>0, <2>2, <1>0
  <2>3. CASE Goto(t, Failed(t)) /\ Result(t, "disk") /\ DiskFails /\ UNCHANGED tries
    BY <2>0, <2>3, <1>0
  <2> QED BY <1>16, <2>1, <2>2, <2>3 DEF Probe
<1>17. ASSUME NEW t \in Thread, FsMount(t) PROVE IInv'
  <2>0. pc[t] = "mount" /\ UNCHANGED <<mount_point, volume, file, s_sd_fmt_busy, tries, goal,
        kind>>
    BY <1>17 DEF FsMount
  <2>1. CASE mounted /\ Goto(t, Failed(t)) /\ Result(t, "ebusy")
             /\ UNCHANGED <<mounted, excused>>
    BY <2>0, <2>1, <1>0
  <2>2. CASE ~mounted /\ mounted' = TRUE /\ Goto(t, "publish") /\ UNCHANGED <<rc, excused>>
    BY <2>0, <2>2, <1>0
  <2>3. CASE ~mounted /\ Goto(t, Failed(t)) /\ Result(t, "disk") /\ DiskFails
             /\ UNCHANGED mounted
    BY <2>0, <2>3, <1>0
  <2> QED BY <1>17, <2>1, <2>2, <2>3 DEF FsMount
<1>18. ASSUME NEW t \in Thread, Publish(t) PROVE IInv'
  BY <1>18, <1>0 DEF Publish, Mounted
<1>19. CASE UNCHANGED vars
  BY <1>19, <1>0 DEF vars
<1> QED
  BY <1>1, <1>2, <1>3, <1>4, <1>5, <1>6, <1>7, <1>8, <1>9, <1>10, <1>11, <1>12, <1>13, <1>14,
     <1>15, <1>16, <1>17, <1>18, <1>19
     DEF Next, Format, Proto, TryMount, HFormatBusy

-----------------------------------------------------------------------------
\* The invariant of both threads.
THEOREM Invariance == Spec => []IInv
BY IInvInit, IInvNext, PTL DEF Spec

\* Every variable keeps its type, the steps of both threads included: proto
\* never goes to mkfs after a probe, and no probe is counted beyond Probes.
THEOREM FormatTypeCorrect == Spec => []TypeOK
BY Invariance, PTL DEF IInv

\* However many requests to format arrive, and whenever they do: the winner of
\* s_sd_fmt_busy finds the thread before it gone from sd_format_sync.
THEOREM OneFormatAtATime == Spec => FormatsDontOverlap
<1>1. IInv /\ [Next]_vars => [pc'.sd_fmt = "unmount" => pc.sd_fmt \in {"none", "exit",
      "unmount"}]_vars
  <2> SUFFICES ASSUME IInv, Next, pc'.sd_fmt = "unmount", pc.sd_fmt # "unmount"
               PROVE pc.sd_fmt \in {"none", "exit"}
    BY DEF IInv
  <2> USE DEF IInv, TypeOK, BusyWhileFormatting, FmtPc, ProtoPc, MountPc, Goto, Failed, Thread
  <2>1. pc' # pc
    OBVIOUS
  <2>2. ~Format
    BY DEF Format, FmtUnmount, FmtSettle, MkfsBegin, MkfsEnd, FmtClear, FmtExit, TryMount,
       IsMounted, DiskInit, Probe, FsMount, Publish, Mounted
  <2>3. HFormat
    BY <2>1, <2>2 DEF Next, Proto, HFormatBusy, HOp, EnsureMounted, TryMount, IsMounted,
       DiskInit,
       Probe, FsMount, Publish, Mounted, Dispatch, Use, Io, Close, vars
  <2> QED BY <2>3 DEF HFormat
<1> QED
  BY <1>1, Invariance, PTL DEF Spec, FormatsDontOverlap

\* A format whose thread ends with 0 has written a new volume and leaves it
\* mounted, whichever thread got to mount it.
THEOREM FormatMounts == Spec => []FormatLeavesMounted
BY Invariance, PTL DEF IInv

\* No SD command fails because two threads mount at once: only a failing disk
\* or a format explains it.
THEOREM NoOtherFailure == Spec => []FailuresExplained
BY Invariance, PTL DEF IInv
=============================================================================
