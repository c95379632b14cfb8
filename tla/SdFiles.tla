------------------------------ MODULE SdFiles -------------------------------
(***************************************************************************)
(* The SD commands on a mounted card: the handlers of app/src/app/cmd_sd.c *)
(* and the operations of app/src/platform/sd_ops.c they call, in the       *)
(* thread proto, one command after the other.  A step is one call into the *)
(* file system, which may fail; SdFormat has the commands that overlap a   *)
(* format.  The file system is Zephyr's FAT driver: a file on which a call *)
(* failed refuses the calls that follow, a seek past the end fails, and a  *)
(* rename removes what stands at the new name first.                       *)
(***************************************************************************)
EXTENDS SdCard, FiniteSets

CONSTANTS
  ChunkCap,  \* sizeof(buf) of do_checksum
  FillCap,   \* sizeof(s_fill_buf)
  Word       \* 2^32, in units

ASSUME SdFilesAssumption ==
  ChunkCap \in Nat \ {0} /\ FillCap \in Nat \ {0} /\ Word \in Nat \ {0}

VARIABLES
  card,        \* what is on the card, by path
  req,         \* the request being served, or the last one
  pc, rc,
  file,        \* the open file: open?, its position, has a call on it
               \* failed?, has it been changed?
  total,       \* units read, written or listed so far
  seen,        \* the units crc_update has consumed, the entries listed
  rsp,         \* g_rsp_buf
  sd_dma_buf,
  answer,      \* the answer to the last request, until the next comes
  before,      \* history: the card when the request came
  again,       \* history: is it the last one again, which succeeded?
  lost         \* history: fs_close failed on a file written to

work == <<file, total, seen, rsp, sd_dma_buf>>
host == <<req, answer, before, again>>
vars == <<card, pc, rc, work, host, lost>>

F == INSTANCE FileStore WITH store <- IF pc = "idle" THEN card ELSE before

Closed == [open |-> FALSE, pos |-> 0, bad |-> FALSE, dirty |-> FALSE]
Old(n) == [i \in 1 .. n |-> Junk]

\* b with s copied to it behind its first n units.
Put(b, n, s) == [i \in DOMAIN b |-> IF i - n \in DOMAIN s THEN s[i - n] ELSE b[i]]

Init ==
  /\ card = [p \in Path |-> Absent] /\ before = card
  /\ req \in Request /\ answer = F!NoAnswer
  /\ pc = "idle" /\ rc = "ok" /\ file = Closed /\ total = 0 /\ seen = <<>>
  /\ rsp = Old(RspCap) /\ sd_dma_buf = Old(StageCap)
  /\ again = FALSE /\ lost = FALSE

At(label) == pc = label
Goto(label) == pc' = label
FailTo(label, e) == pc' = label /\ rc' = e

Named == IF Join(req.name) = Root THEN Dir ELSE card[Join(req.name)]
SetNamed(f) == card' = [card EXCEPT ![Join(req.name)] = f]

-----------------------------------------------------------------------------
(* The handlers, up to the call of sd_ops.                                 *)

\* Units of a write's request before its data.
Head32(r) == Len(r.name) + 3

\* A name without its NUL is refused, and a write whose length does not fit its
\* request, in 32 bits, or sd_dma_buf.
Accepts(r) ==
  /\ r.nul
  /\ r.op = "write" => /\ (Head32(r) + r.len) % Word <= Head32(r) + Len(r.data)
                       /\ r.len <= StageCap

\* A sector is read past the file system, mounted or not.
Begin(r) == IF r.op = "rawread" THEN "raw" ELSE "mount"

\* on_msg gives every handler the whole of g_rsp_buf.
Receive ==
  /\ At("idle")
  /\ \E r \in Request :
       /\ req' = r
       /\ again' = (answer.rc = "ok" /\ ~answer.lost /\ answer.req = <<r>>)
       /\ IF Accepts(r) THEN Goto(Begin(r)) /\ rc' = "ok" ELSE FailTo("reply", "einval")
       /\ sd_dma_buf' = IF r.op = "write" /\ Accepts(r)
                        THEN Put(Old(StageCap), 0, SubSeq(r.data, 1, Least(r.len, Len(r.data))))
                        ELSE Old(StageCap)
  /\ rsp' = Old(RspCap)
  /\ total' = 0 /\ seen' = <<>> /\ lost' = FALSE
  /\ before' = card /\ answer' = F!NoAnswer
  /\ UNCHANGED <<card, file>>

\* The first call of the operation on the file system.
FirstCall ==
  CASE req.op = "write" /\ req.off = 0 -> "unlink"
    [] req.op = "list" -> "opendir"
    [] req.op \in {"write", "read", "peek", "checksum", "fill"} -> "open"
    [] OTHER -> "path"

EnsureMounted ==
  /\ At("mount")
  /\ \/ Goto(FirstCall) /\ UNCHANGED rc
     \/ FailTo("reply", "disk")
  /\ UNCHANGED <<card, work, host, lost>>

\* h_rawread: one sector, whatever number of them is asked for.
RawRead ==
  /\ At("raw") /\ Goto("reply")
  /\ \/ sd_dma_buf' = Put(sd_dma_buf, 0, Sector(req.off))
        /\ total' = Least(SectorLen, Least(RspCap, StageCap)) /\ UNCHANGED rc
     \/ rc' = "disk" /\ UNCHANGED <<sd_dma_buf, total>>
  /\ UNCHANGED <<card, file, seen, rsp, host, lost>>

-----------------------------------------------------------------------------
(* Files: read_file, write_file, do_checksum and sd_fill_pattern.          *)

Writes == req.op \in {"write", "fill"}

\* Where a file that has been opened is used.
AfterOpen ==
  CASE req.op = "fill" \/ (req.op = "write" /\ req.off = 0) -> "truncate"
    [] req.op \in {"write", "read", "peek"} /\ req.off # 0 -> "seek"
    [] OTHER -> "io"

\* A write at the start removes the old file; a failure is ignored.
Unlink ==
  /\ At("unlink") /\ Goto("open")
  /\ \/ Named.type = "file" /\ SetNamed(Absent)
     \/ UNCHANGED card
  /\ UNCHANGED <<rc, work, host, lost>>

Open ==
  /\ At("open")
  /\ \/ /\ Named.type = "file" \/ (Writes /\ Named.type = "none")
        /\ file' = [Closed EXCEPT !.open = TRUE]
        /\ IF Named.type = "none" THEN SetNamed(File(<<>>)) ELSE UNCHANGED card
        /\ Goto(AfterOpen) /\ UNCHANGED rc
     \/ /\ Named.type = "dir" /\ FailTo("reply", "denied")
        /\ UNCHANGED <<card, file>>
     \/ /\ Named.type = "none" /\ ~Writes /\ FailTo("reply", "enoent")
        /\ UNCHANGED <<card, file>>
     \/ FailTo("reply", "disk") /\ UNCHANGED <<card, file>>
  /\ UNCHANGED <<total, seen, rsp, sd_dma_buf, host, lost>>

\* Its result is ignored, but a file that fails to be cut fails to be written.
Truncate ==
  /\ At("truncate")
  /\ SetNamed(File(<<>>)) \/ UNCHANGED card
  /\ \/ file' = [file EXCEPT !.bad = TRUE, !.dirty = TRUE]
     \/ file' = [file EXCEPT !.dirty = TRUE] /\ card'[Join(req.name)].data = <<>>
  /\ Goto(IF req.op = "write" THEN "seek" ELSE "io")
  /\ UNCHANGED <<rc, total, seen, rsp, sd_dma_buf, host, lost>>

\* Mutant: a seek that fails leaves by out_no_close.
SeekSkipsClose ==
  /\ At("seek")
  /\ \/ /\ ~file.bad /\ req.off <= Len(Named.data)
        /\ file' = [file EXCEPT !.pos = req.off]
        /\ Goto("io") /\ UNCHANGED rc
     \/ req.off > Len(Named.data) /\ FailTo("reply", "einval") /\ UNCHANGED file
     \/ FailTo("close", "disk") /\ file' = [file EXCEPT !.bad = TRUE]
  /\ UNCHANGED <<card, total, seen, rsp, sd_dma_buf, host, lost>>

\* Mutant: the data goes to the end of the file.
SeekToEnd ==
  /\ At("seek")
  /\ \/ /\ ~file.bad /\ req.off <= Len(Named.data)
        /\ file' = [file EXCEPT !.pos = Len(Named.data)]
        /\ Goto("io") /\ UNCHANGED rc
     \/ req.off > Len(Named.data) /\ FailTo("close", "einval") /\ UNCHANGED file
     \/ FailTo("close", "disk") /\ file' = [file EXCEPT !.bad = TRUE]
  /\ UNCHANGED <<card, total, seen, rsp, sd_dma_buf, host, lost>>

\* To where the request reads or writes; a write at the start seeks too.
Seek ==
  /\ At("seek")
  /\ \/ /\ ~file.bad /\ req.off <= Len(Named.data)
        /\ file' = [file EXCEPT !.pos = req.off]
        /\ Goto("io") /\ UNCHANGED rc
     \/ req.off > Len(Named.data) /\ FailTo("close", "einval") /\ UNCHANGED file
     \/ FailTo("close", "disk") /\ file' = [file EXCEPT !.bad = TRUE]
  /\ UNCHANGED <<card, total, seen, rsp, sd_dma_buf, host, lost>>

IoFails ==
  /\ FailTo("close", "disk")
  /\ file' = [file EXCEPT !.bad = TRUE]

\* The units of the file read by a call for at most want of them: short at will,
\* none only at the end.
ReadUpTo(want) ==
  LET left == Len(Named.data) - file.pos
  IN  IF want = 0 \/ left = 0 THEN {<<>>}
      ELSE {SubSeq(Named.data, file.pos + 1, file.pos + n) : n \in 1 .. Least(want, left)}

Advance(n) == file' = [file EXCEPT !.pos = @ + n]

\* The room h_read, or h_peek with its staging buffer, has for the answer.
Cap == Least(req.len, IF req.op = "peek" THEN StageCap ELSE RspCap)

\* Mutant: each read goes to the start of the buffer.
ReadLoopFromStart ==
  /\ At("io") /\ req.op \in {"read", "peek"}
  /\ \/ \E s \in ReadUpTo(Cap - total) :
          /\ IF req.op = "peek" THEN sd_dma_buf' = Put(sd_dma_buf, 0, s) /\ UNCHANGED rsp
                                ELSE rsp' = Put(rsp, 0, s) /\ UNCHANGED sd_dma_buf
          /\ total' = total + Len(s) /\ Advance(Len(s))
          /\ Goto(IF total' = Cap \/ s = <<>> THEN "close" ELSE "io")
          /\ UNCHANGED rc
     \/ total < Cap /\ IoFails /\ UNCHANGED <<total, rsp, sd_dma_buf>>
  /\ UNCHANGED <<card, seen, host, lost>>

\* One turn of read_file's loop, and its end.
ReadLoop ==
  /\ At("io") /\ req.op \in {"read", "peek"}
  /\ \/ \E s \in ReadUpTo(Cap - total) :
          /\ IF req.op = "peek" THEN sd_dma_buf' = Put(sd_dma_buf, total, s) /\ UNCHANGED rsp
                                ELSE rsp' = Put(rsp, total, s) /\ UNCHANGED sd_dma_buf
          /\ total' = total + Len(s) /\ Advance(Len(s))
          /\ Goto(IF total' = Cap \/ s = <<>> THEN "close" ELSE "io")
          /\ UNCHANGED rc
     \/ total < Cap /\ IoFails /\ UNCHANGED <<total, rsp, sd_dma_buf>>
  /\ UNCHANGED <<card, seen, host, lost>>

\* Mutant: no look at what fs_read returned, 0 at the end or an error.
ChecksumLoopForever ==
  /\ At("io") /\ req.op = "checksum"
  /\ \/ \E s \in ReadUpTo(ChunkCap) : seen' = seen \o s /\ Advance(Len(s))
     \/ file' = [file EXCEPT !.bad = TRUE] /\ UNCHANGED seen
  /\ UNCHANGED <<pc, rc>>
  /\ UNCHANGED <<card, total, rsp, sd_dma_buf, host, lost>>

\* One turn of do_checksum's loop.
ChecksumLoop ==
  /\ At("io") /\ req.op = "checksum"
  /\ \/ \E s \in ReadUpTo(ChunkCap) :
          /\ seen' = seen \o s /\ Advance(Len(s))
          /\ Goto(IF s = <<>> THEN "close" ELSE "io") /\ UNCHANGED rc
     \/ IoFails /\ UNCHANGED seen
  /\ UNCHANGED <<card, total, rsp, sd_dma_buf, host, lost>>

\* fs_write of s: all of it, a part because the card is full, or a failure with
\* a part written.
FsWrite(s, written) ==
  \/ /\ ~file.bad
     /\ \E n \in 0 .. Len(s) :
          /\ SetNamed(File(Overlay(Named.data, file.pos, SubSeq(s, 1, n))))
          /\ \/ n = Len(s) /\ Goto(written) /\ UNCHANGED rc
                /\ file' = [file EXCEPT !.pos = @ + n, !.dirty = TRUE]
             \/ n < Len(s) /\ FailTo("close", "eio")
                /\ file' = [file EXCEPT !.pos = @ + n, !.dirty = TRUE]
             \/ FailTo("close", "disk")
                /\ file' = [file EXCEPT !.bad = TRUE, !.dirty = TRUE]
  \/ file.bad /\ IoFails /\ UNCHANGED card

WriteOnce ==
  /\ At("io") /\ req.op = "write"
  /\ FsWrite(SubSeq(sd_dma_buf, 1, req.len), "close")
  /\ UNCHANGED <<total, seen, rsp, sd_dma_buf, host, lost>>

\* One turn of sd_fill_pattern's loop: a buffer of the pattern, and its write.
FillLoop ==
  /\ At("io") /\ req.op = "fill"
  /\ LET n == Least(req.len - total, FillCap)
     IN  IF n = 0 THEN Goto("close") /\ UNCHANGED <<card, rc, file, total>>
         ELSE /\ FsWrite([i \in 1 .. n |-> Xorshift(req.seed, total + i)], "io")
              /\ total' = total + n
  /\ UNCHANGED <<seen, rsp, sd_dma_buf, host, lost>>

\* What a file written to is when its directory entry cannot be saved.
Damaged(d) == {File(SubSeq(d, 1, n)) : n \in 0 .. Len(d)} \cup {File(<<Junk>>)}

\* fs_sync, for fill, and fs_close, whose results are ignored.
Close ==
  /\ At("close") /\ Goto("reply")
  /\ file' = Closed
  /\ \/ UNCHANGED <<card, lost>>
     \/ /\ file.dirty /\ lost' = TRUE
        /\ \E f \in Damaged(Named.data) : SetNamed(f)
  /\ UNCHANGED <<rc, total, seen, rsp, sd_dma_buf, host>>

-----------------------------------------------------------------------------
(* Directories and the operations that are one call.                       *)

OpenDir ==
  /\ At("opendir")
  /\ \/ Named.type = "dir" /\ Goto("readdir") /\ UNCHANGED rc
     \/ Named.type # "dir" /\ FailTo("reply", "enoent")
     \/ FailTo("reply", "disk")
  /\ UNCHANGED <<card, work, host, lost>>

\* The entries fs_readdir has yet to hand out.
Unlisted ==
  IF Join(req.name) # Root THEN {}
  ELSE {p \in Path : card[p].type # "none"} \ {seen[i] : i \in DOMAIN seen}

\* Mutant: no look at the room left.
ReadDirUnchecked ==
  /\ At("readdir")
  /\ \/ Unlisted = {} /\ Goto("reply") /\ UNCHANGED <<rc, total, seen, sd_dma_buf>>
     \/ \E p \in Unlisted :
          /\ sd_dma_buf' = Put(sd_dma_buf, total, Line(p, card[p]))
          /\ total' = total + Len(Line(p, card[p])) /\ seen' = Append(seen, p)
          /\ UNCHANGED <<pc, rc>>
     \/ FailTo("reply", "disk") /\ UNCHANGED <<total, seen, sd_dma_buf>>
  /\ UNCHANGED <<card, file, rsp, host, lost>>

\* One turn of list_dir's loop, and fs_closedir where it ends.
ReadDir ==
  /\ At("readdir")
  /\ \/ Unlisted = {} /\ Goto("reply") /\ UNCHANGED <<rc, total, seen, sd_dma_buf>>
     \/ \E p \in Unlisted :
          IF total + Len(Line(p, card[p])) > StageCap
          THEN FailTo("reply", "enospc") /\ UNCHANGED <<total, seen, sd_dma_buf>>
          ELSE /\ sd_dma_buf' = Put(sd_dma_buf, total, Line(p, card[p]))
               /\ total' = total + Len(Line(p, card[p])) /\ seen' = Append(seen, p)
               /\ UNCHANGED <<pc, rc>>
     \/ FailTo("reply", "disk") /\ UNCHANGED <<total, seen, sd_dma_buf>>
  /\ UNCHANGED <<card, file, rsp, host, lost>>

\* fs_rename, once what stood at the new name is gone.
Renamed == [card EXCEPT ![Join(req.to)] = Absent]

Rename ==
  LET from == Join(req.name)
  IN  \/ /\ Renamed[from].type # "none"
         /\ card' = [Renamed EXCEPT ![Join(req.to)] = card[from], ![from] = Absent]
         /\ UNCHANGED rc
      \/ Renamed[from].type = "none" /\ card' = Renamed /\ rc' = "enoent"
      \/ card' \in {card, Renamed} /\ rc' = "disk"

Mkdir ==
  \/ Named.type = "none" /\ SetNamed(Dir) /\ UNCHANGED rc
  \/ Named.type # "none" /\ UNCHANGED card /\ rc' = "eexist"
  \/ UNCHANGED card /\ rc' = "disk"

Delete ==
  \/ Named.type # "none" /\ SetNamed(Absent) /\ UNCHANGED rc
  \/ Named.type = "none" /\ UNCHANGED card /\ rc' = "enoent"
  \/ UNCHANGED card /\ rc' = "disk"

Stat ==
  /\ UNCHANGED card
  /\ \/ Named.type # "none" /\ UNCHANGED rc
     \/ Named.type = "none" /\ rc' = "enoent"
     \/ rc' = "disk"

PathCall ==
  /\ At("path") /\ Goto("reply")
  /\ \/ req.op = "rename" /\ Rename
     \/ req.op = "mkdir" /\ Mkdir
     \/ req.op = "delete" /\ Delete
     \/ req.op = "stat" /\ Stat
  /\ UNCHANGED <<work, host, lost>>

-----------------------------------------------------------------------------
\* What the handler leaves in rsp[0 .. rsp_len-1] when sd_ops returned 0.
Result ==
  CASE req.op = "stat" -> << <<"size", Len(Named.data)>>, <<"dir", Named.type = "dir">> >>
    [] req.op = "checksum" -> << <<"crc", UseIeee(req.name), seen>> >>
    [] req.op = "read" -> SubSeq(rsp, 1, total)
    [] req.op \in {"peek", "list", "rawread"} -> SubSeq(sd_dma_buf, 1, total)
    [] OTHER -> <<>>

\* The handler returns, and on_msg answers: nothing but the header on an error.
Reply ==
  /\ At("reply") /\ Goto("idle")
  /\ answer' = [req |-> <<req>>, rc |-> rc, lost |-> lost,
                data |-> IF rc = "ok" THEN Result ELSE <<>>]
  /\ UNCHANGED <<card, rc, work, req, before, again, lost>>

Serve ==
  \/ EnsureMounted \/ RawRead \/ Unlink \/ Open \/ Truncate \/ Seek \/ ReadLoop
  \/ ChecksumLoop \/ WriteOnce \/ FillLoop \/ Close \/ OpenDir \/ ReadDir
  \/ PathCall \/ Reply

Next == Receive \/ Serve

Spec == Init /\ [][Next]_vars

\* The thread proto runs on: the card's driver answers, if only with an error.
FairSpec == Spec /\ WF_vars(Serve)
-----------------------------------------------------------------------------
Label == {"idle", "mount", "raw", "unlink", "open", "truncate", "seek", "io", "close",
          "opendir", "readdir", "path", "reply"}

\* Room for the units of a command.
Room == IF req.op = "fill" THEN req.len ELSE IF req.op = "read" THEN RspCap ELSE StageCap

TypeOK ==
  /\ DOMAIN card = Path
  /\ \A p \in Path : card[p] \in {Absent, Dir} \/ card[p] = File(card[p].data)
  /\ req \in Request /\ pc \in Label
  /\ rc \in {"ok", "einval", "enoent", "eexist", "denied", "enospc", "eio", "disk"}
  /\ file.open \in BOOLEAN /\ file.bad \in BOOLEAN /\ file.dirty \in BOOLEAN /\ file.pos \in Nat
  /\ total \in 0 .. Room
  /\ DOMAIN rsp = 1 .. RspCap /\ DOMAIN sd_dma_buf = 1 .. StageCap
  /\ again \in BOOLEAN /\ lost \in BOOLEAN

\* Whatever fails, and however reads are cut, a command that returns 0 has the
\* effect and the answer documented for it, and no byte of an earlier one; a
\* command that fails leaves at most its own file damaged.
ImplementsFileStore == F!Spec

\* No way out of an operation leaves a file open, of the few the file system has.
NoHandleLeft == pc \in {"idle", "reply"} => ~file.open

\* A rename that is repeated removes the file it had renamed, and a fill of
\* nothing, which succeeds even if the file cannot be cut, may then cut it.
Repeatable == req.op # "rename" /\ (req.op = "fill" => req.len # 0)

\* The host's retries run a command again after it has succeeded.  That changes
\* nothing, whether it succeeds again or not, unless the disk fails.
RepeatChangesNothing ==
  (pc = "reply" /\ again /\ Repeatable /\ rc \notin {"disk", "eio"} /\ ~lost)
    => card = before

\* Every request is answered, whatever its offset and length.
Answered == pc # "idle" ~> pc = "idle"
=============================================================================
