------------------------------ MODULE SdFormat ------------------------------
(***************************************************************************)
(* Formatting against the other SD commands.  SD.Format (h_format of       *)
(* app/src/app/cmd_sd.c) starts the thread sd_fmt, which runs              *)
(* sd_format_sync of app/src/platform/sd_ops.c, and answers at once; the   *)
(* thread proto goes on to serve SD commands, each of which mounts the     *)
(* card if it is not mounted and then uses the file system.  A step is one *)
(* call into the kernel, its file system or its disk driver, which may     *)
(* block, and the code up to the next.                                     *)
(***************************************************************************)
EXTENDS Naturals

CONSTANT Probes   \* times ensure_disk_ready asks for the sector count

ASSUME SdFormatAssumption == Probes \in Nat \ {0}

Thread == {"proto", "sd_fmt"}

\* sd_status; rename, delete, mkdir, stat; list, read, write, checksum, fill.
OpKind == {"status", "path", "file"}

VARIABLES
  mounted,      \* is s_mnt_a among the kernel's mounts?
  mount_point,  \* SD_MOUNT_POINT
  volume,       \* what is on the card: its old contents, a new volume, neither
  file,         \* the open file: none, open, or open on a mount that is gone
  s_sd_fmt_busy,
  pc, rc, tries,
  goal,         \* where ensure_disk_ready's caller goes on, per thread
  kind,         \* the operation proto serves
  excused       \* history: may that operation fail?  A format overlapped it,
                \* the disk failed, or a format had failed before it

fsVars == <<mounted, mount_point, volume, file>>
vars == <<fsVars, s_sd_fmt_busy, pc, rc, tries, goal, kind, excused>>

Init ==
  /\ mounted = FALSE /\ mount_point = "/sd" /\ volume = "old" /\ file = "none"
  /\ s_sd_fmt_busy = FALSE
  /\ pc = [t \in Thread |-> IF t = "proto" THEN "idle" ELSE "none"]
  /\ rc = [t \in Thread |-> "ok"]
  /\ tries = [t \in Thread |-> 0]
  /\ goal = [t \in Thread |-> "mount"]
  /\ kind = "status" /\ excused = FALSE

Goto(t, label) == pc' = [pc EXCEPT ![t] = label]
Result(t, r) == rc' = [rc EXCEPT ![t] = r]

\* Where a thread goes when what it called has failed.
Failed(t) == IF t = "proto" THEN "idle" ELSE "clear"

DiskFails == excused' = TRUE

-----------------------------------------------------------------------------
(* ensure_mounted, try_mount and ensure_disk_ready, in either thread.      *)

\* ensure_mounted's look at the mounts before try_mount's own.
EnsureMounted ==
  /\ pc.proto = "ensure"
  /\ Goto("proto", IF mounted THEN "mounted" ELSE "check")
  /\ UNCHANGED <<fsVars, s_sd_fmt_busy, rc, tries, goal, kind, excused>>

\* Where a thread goes when try_mount has returned 0.
Mounted(t) == IF t = "proto" THEN "mounted" ELSE "clear"

IsMounted(t) ==
  /\ pc[t] = "check"
  /\ Goto(t, IF mounted THEN Mounted(t) ELSE "init")
  /\ Result(t, "ok")
  /\ goal' = [goal EXCEPT ![t] = "mount"]
  /\ UNCHANGED <<fsVars, s_sd_fmt_busy, tries, kind, excused>>

DiskInit(t) ==
  /\ pc[t] = "init"
  /\ tries' = [tries EXCEPT ![t] = 0]
  /\ \/ Goto(t, "probe") /\ UNCHANGED <<rc, excused>>
     \/ Goto(t, Failed(t)) /\ Result(t, "disk") /\ DiskFails
  /\ UNCHANGED <<fsVars, s_sd_fmt_busy, goal, kind>>

\* Mutant: one probe too many.
ProbeOnceMore(t) ==
  /\ pc[t] = "probe"
  /\ \/ /\ Goto(t, goal[t])
        /\ UNCHANGED <<rc, tries, excused>>
     \/ /\ tries[t] < Probes
        /\ tries' = [tries EXCEPT ![t] = @ + 1]
        /\ UNCHANGED <<pc, rc, excused>>
     \/ /\ tries[t] = Probes
        /\ Goto(t, Failed(t)) /\ Result(t, "disk") /\ DiskFails
        /\ UNCHANGED tries
  /\ UNCHANGED <<fsVars, s_sd_fmt_busy, goal, kind>>

\* The sector count, asked for up to Probes times, 50 ms apart.
Probe(t) ==
  /\ pc[t] = "probe"
  /\ \/ /\ Goto(t, goal[t])
        /\ UNCHANGED <<rc, tries, excused>>
     \/ /\ tries[t] + 1 < Probes
        /\ tries' = [tries EXCEPT ![t] = @ + 1]
        /\ UNCHANGED <<pc, rc, excused>>
     \/ /\ tries[t] + 1 = Probes
        /\ Goto(t, Failed(t)) /\ Result(t, "disk") /\ DiskFails
        /\ UNCHANGED tries
  /\ UNCHANGED <<fsVars, s_sd_fmt_busy, goal, kind>>

\* fs_mount: refused if the other thread got there first.
FsMount(t) ==
  /\ pc[t] = "mount"
  /\ \/ /\ mounted
        /\ Goto(t, Failed(t)) /\ Result(t, "ebusy")
        /\ UNCHANGED <<mounted, excused>>
     \/ /\ ~mounted /\ mounted' = TRUE
        /\ Goto(t, "publish")
        /\ UNCHANGED <<rc, excused>>
     \/ /\ ~mounted /\ Goto(t, Failed(t)) /\ Result(t, "disk") /\ DiskFails
        /\ UNCHANGED mounted
  /\ UNCHANGED <<mount_point, volume, file, s_sd_fmt_busy, tries, goal, kind>>

\* s_active and SD_MOUNT_POINT take the mount's values.
Publish(t) ==
  /\ pc[t] = "publish"
  /\ mount_point' = "/SD:"
  /\ Goto(t, Mounted(t)) /\ Result(t, "ok")
  /\ UNCHANGED <<mounted, volume, file, s_sd_fmt_busy, tries, goal, kind, excused>>

TryMount(t) == IsMounted(t) \/ DiskInit(t) \/ Probe(t) \/ FsMount(t) \/ Publish(t)

-----------------------------------------------------------------------------
(* sd_fmt_thread and sd_format_sync.                                       *)

\* The result of fs_unmount is ignored: it may have left the mount alone.
FmtUnmount ==
  /\ pc.sd_fmt = "unmount"
  /\ \/ /\ mounted' = FALSE
        /\ file' = IF file = "open" /\ mounted THEN "dangling" ELSE file
     \/ UNCHANGED <<mounted, file>>
  /\ Goto("sd_fmt", "settle")
  /\ UNCHANGED <<mount_point, volume, s_sd_fmt_busy, rc, tries, goal, kind, excused>>

\* Mutant: the flag is cleared when the thread has begun.
FmtSettleClears ==
  /\ pc.sd_fmt = "settle"
  /\ goal' = [goal EXCEPT !["sd_fmt"] = "mkfs"]
  /\ s_sd_fmt_busy' = FALSE
  /\ Goto("sd_fmt", "init")
  /\ UNCHANGED <<fsVars, rc, tries, kind, excused>>

\* 50 ms for the unmount to settle, then ensure_disk_ready.
FmtSettle ==
  /\ pc.sd_fmt = "settle"
  /\ goal' = [goal EXCEPT !["sd_fmt"] = "mkfs"]
  /\ Goto("sd_fmt", "init")
  /\ UNCHANGED <<fsVars, s_sd_fmt_busy, rc, tries, kind, excused>>

MkfsBegin ==
  /\ pc.sd_fmt = "mkfs"
  /\ volume' = "broken"
  /\ Goto("sd_fmt", "mkfs_end")
  /\ UNCHANGED <<mounted, mount_point, file, s_sd_fmt_busy, rc, tries, goal, kind, excused>>

\* Mutant: the card is mounted even if mkfs failed.
MkfsEndUnchecked ==
  /\ pc.sd_fmt = "mkfs_end"
  /\ \/ volume' = "new" /\ UNCHANGED excused
     \/ UNCHANGED volume /\ DiskFails
  /\ Goto("sd_fmt", "check")
  /\ UNCHANGED <<mounted, mount_point, file, s_sd_fmt_busy, rc, tries, goal, kind>>

\* fs_mkfs returns; with 0, 50 ms later s_mnt_a is mounted again.
MkfsEnd ==
  /\ pc.sd_fmt = "mkfs_end"
  /\ \/ volume' = "new" /\ Goto("sd_fmt", "check") /\ UNCHANGED <<rc, excused>>
     \/ /\ UNCHANGED volume
        /\ Goto("sd_fmt", "clear") /\ Result("sd_fmt", "disk") /\ DiskFails
  /\ UNCHANGED <<mounted, mount_point, file, s_sd_fmt_busy, tries, goal, kind>>

\* Mutant: the flag is cleared only after a successful format.
FmtClearIfOk ==
  /\ pc.sd_fmt = "clear"
  /\ s_sd_fmt_busy' = (rc.sd_fmt # "ok")
  /\ Goto("sd_fmt", "exit")
  /\ UNCHANGED <<fsVars, rc, tries, goal, kind, excused>>

FmtClear ==
  /\ pc.sd_fmt = "clear"
  /\ s_sd_fmt_busy' = FALSE
  /\ Goto("sd_fmt", "exit")
  /\ UNCHANGED <<fsVars, rc, tries, goal, kind, excused>>

\* The thread's function returns and the kernel ends the thread.
FmtExit ==
  /\ pc.sd_fmt = "exit"
  /\ Goto("sd_fmt", "none")
  /\ UNCHANGED <<fsVars, s_sd_fmt_busy, rc, tries, goal, kind, excused>>

Format ==
  \/ FmtUnmount \/ FmtSettle \/ MkfsBegin \/ MkfsEnd \/ FmtClear \/ FmtExit
  \/ TryMount("sd_fmt")

-----------------------------------------------------------------------------
(* The thread proto: h_format and the other SD commands.                   *)

\* Mutant: no look at s_sd_fmt_busy.
HFormatUnchecked ==
  /\ pc.proto = "idle"
  /\ s_sd_fmt_busy' = TRUE
  /\ Goto("sd_fmt", "unmount") /\ Result("sd_fmt", "ok")
  /\ UNCHANGED <<fsVars, tries, goal, kind, excused>>

\* h_format: the compare-and-exchange won, a thread is created; lost, nothing.
HFormat ==
  /\ pc.proto = "idle"
  /\ ~s_sd_fmt_busy /\ s_sd_fmt_busy' = TRUE
  /\ Goto("sd_fmt", "unmount") /\ Result("sd_fmt", "ok")
  /\ UNCHANGED <<fsVars, tries, goal, kind, excused>>

HFormatBusy ==
  /\ pc.proto = "idle" /\ s_sd_fmt_busy
  /\ UNCHANGED vars

\* Any other SD command.
HOp ==
  /\ pc.proto = "idle"
  /\ kind' \in OpKind
  /\ excused' = (s_sd_fmt_busy \/ volume = "broken")
  /\ Goto("proto", "ensure") /\ Result("proto", "ok")
  /\ UNCHANGED <<fsVars, s_sd_fmt_busy, tries, goal>>

\* Mounted: sd_status returns, the others join the path to SD_MOUNT_POINT.
Dispatch ==
  /\ pc.proto = "mounted"
  /\ Goto("proto", IF kind = "status" THEN "idle" ELSE "use")
  /\ UNCHANGED <<fsVars, s_sd_fmt_busy, rc, tries, goal, kind, excused>>

\* The path joined to SD_MOUNT_POINT leads to the mounted card.
PathFound == mounted /\ mount_point = "/SD:"

\* fs_open and the like, or the one call of a path operation.
Use ==
  /\ pc.proto = "use"
  /\ \/ /\ PathFound
        /\ file' = IF kind = "file" THEN "open" ELSE "none"
        /\ Goto("proto", IF kind = "file" THEN "io" ELSE "idle")
        /\ UNCHANGED <<rc, excused>>
     \/ /\ ~PathFound
        /\ Goto("proto", "idle") /\ Result("proto", "enoent")
        /\ UNCHANGED <<file, excused>>
     \/ /\ Goto("proto", "idle") /\ Result("proto", "disk") /\ DiskFails
        /\ UNCHANGED file
  /\ UNCHANGED <<mounted, mount_point, volume, s_sd_fmt_busy, tries, goal, kind>>

\* One read or write of the loop, after which the loop goes on or ends.  The
\* file system knows a file of a mount that is gone.
Io ==
  /\ pc.proto = "io"
  /\ \/ file = "open" /\ UNCHANGED <<pc, rc, excused>>
     \/ file = "open" /\ Goto("proto", "close") /\ UNCHANGED <<rc, excused>>
     \/ file = "dangling" /\ Goto("proto", "close") /\ Result("proto", "ebadf") /\ UNCHANGED excused
     \/ Goto("proto", "close") /\ Result("proto", "disk") /\ DiskFails
  /\ UNCHANGED <<fsVars, s_sd_fmt_busy, tries, goal, kind>>

Close ==
  /\ pc.proto = "close"
  /\ file' = "none"
  /\ Goto("proto", "idle")
  /\ UNCHANGED <<mounted, mount_point, volume, s_sd_fmt_busy, rc, tries, goal, kind, excused>>

Proto ==
  \/ HFormat \/ HFormatBusy \/ HOp \/ EnsureMounted \/ TryMount("proto")
  \/ Dispatch \/ Use \/ Io \/ Close

Next == Format \/ Proto

Spec == Init /\ [][Next]_vars

\* sd_fmt has one priority with the other threads, which all block or sleep in
\* every loop; disk and timers answer.
FairSpec == Spec /\ WF_vars(Format)

-----------------------------------------------------------------------------
MountPc == {"check", "init", "probe", "mount", "publish"}
ProtoPc == MountPc \cup {"idle", "ensure", "mounted", "use", "io", "close"}
FmtPc   == MountPc \cup {"none", "unmount", "settle", "mkfs", "mkfs_end", "clear", "exit"}

TypeOK ==
  /\ mounted \in BOOLEAN /\ mount_point \in {"/sd", "/SD:"}
  /\ volume \in {"old", "new", "broken"}
  /\ file \in {"none", "open", "dangling"}
  /\ s_sd_fmt_busy \in BOOLEAN /\ excused \in BOOLEAN /\ kind \in OpKind
  /\ pc \in [Thread -> ProtoPc \cup FmtPc] /\ pc.proto \in ProtoPc /\ pc.sd_fmt \in FmtPc
  /\ rc \in [Thread -> {"ok", "disk", "ebusy", "enoent", "ebadf"}]
  /\ tries \in [Thread -> 0 .. Probes - 1]
  /\ goal \in [Thread -> {"mount", "mkfs"}]

\* However requests and steps interleave, a format never begins while another
\* is under way in sd_format_sync.
FormatsDontOverlap ==
  [][pc'.sd_fmt = "unmount" => pc.sd_fmt \in {"none", "exit", "unmount"}]_vars

\* A format that returns 0 has rewritten the card and leaves it mounted,
\* whichever thread mounted it.
FormatLeavesMounted ==
  pc.sd_fmt = "clear" /\ rc.sd_fmt = "ok" => mounted /\ volume = "new"

\* An SD command fails only if the disk did, or a format was under way when it
\* arrived or had failed before: neither mounting by two threads, nor the mount
\* or the file that goes away under an operation, ever fails another command.
FailuresExplained == pc.proto = "idle" /\ rc.proto # "ok" => excused

\* A format that was accepted ends, so that the next may be.
FormatEnds == s_sd_fmt_busy ~> ~s_sd_fmt_busy

\* "This runs synchronously and will block until mkfs+mount complete"
\* (PROTOCOL.md:34): while mkfs rewrites the card no SD command uses it.
MkfsAlone == pc.sd_fmt = "mkfs_end" => pc.proto \notin {"use", "io", "close"}
=============================================================================
