--------------------------- MODULE SdFilesProofs ----------------------------
(***************************************************************************)
(* The SD commands on files, for every card, every set of requests and     *)
(* every size of the buffers: no file is left open, and what has succeeded *)
(* changes nothing when it is repeated.                                    *)
(***************************************************************************)
EXTENDS SdFiles, SequenceTheorems, TLAPS

-----------------------------------------------------------------------------
(* What is written to files.                                               *)

Unit ==
  {Junk} \cup (UNION {{r.data[k] : k \in DOMAIN r.data} : r \in Request})
    \cup {Xorshift(r.seed, k) : r \in Request, k \in Nat}

Entry == {Absent, Dir} \cup {File(d) : d \in Seq(Unit)}

\* sd_dma_buf when h_write has taken the data, and what is written of it.
Stage(r) == Put(Old(StageCap), 0, SubSeq(r.data, 1, Least(r.len, Len(r.data))))
Stuff(r) == SubSeq(Stage(r), 1, r.len)

\* The first n units of a fill.
Pattern(r, n) == [k \in 1 .. n |-> Xorshift(r.seed, k)]

LEMMA Units ==
  /\ Junk \in Unit
  /\ \A r \in Request : r.data \in Seq(Unit)
  /\ \A r \in Request, k \in Nat : Xorshift(r.seed, k) \in Unit
<1>1. Junk \in Unit /\ \A r \in Request, k \in Nat : Xorshift(r.seed, k) \in Unit
  BY DEF Unit
<1>2. ASSUME NEW r \in Request PROVE r.data \in Seq(Unit)
  <2> DEFINE D == {r.data[k] : k \in DOMAIN r.data}
  <2>1. r.data \in Seq(D)
    BY SdCardAssumption
  <2>2. D \subseteq Unit
    BY DEF Unit
  <2> HIDE DEF D
  <2> QED BY <2>1, <2>2, SeqMonotonic
<1> QED BY <1>1, <1>2

LEMMA Entries ==
  /\ Absent \in Entry /\ Dir \in Entry
  /\ \A d \in Seq(Unit) : File(d) \in Entry
  /\ File(<<>>) \in Entry
  /\ \A x \in Entry :
       /\ x.data \in Seq(Unit)
       /\ x.type \in {"none", "dir", "file"}
       /\ x.type = "none" => x = Absent
       /\ x.type = "dir" => x = Dir
       /\ x.type = "file" => x = File(x.data)
<1>1. /\ Absent \in Entry /\ Dir \in Entry
      /\ \A d \in Seq(Unit) : File(d) \in Entry
  BY DEF Entry
<1>2. ASSUME NEW x \in Entry
      PROVE  /\ x.data \in Seq(Unit)
             /\ x.type \in {"none", "dir", "file"}
             /\ x.type = "none" => x = Absent
             /\ x.type = "dir" => x = Dir
             /\ x.type = "file" => x = File(x.data)
  <2>1. CASE x = Absent
    BY <2>1 DEF Absent
  <2>2. CASE x = Dir
    BY <2>2 DEF Dir
  <2>3. ASSUME NEW d \in Seq(Unit), x = File(d)
        PROVE  x.data = d /\ x.type = "file"
    BY <2>3 DEF File
  <2> QED BY <2>1, <2>2, <2>3 DEF Entry
<1>3. File(<<>>) \in Entry
  <2>1. <<>> \in Seq(Unit)
    OBVIOUS
  <2> QED BY <1>1, <2>1
<1> QED BY <1>1, <1>2, <1>3

LEMMA PutDomain == \A b, n, s : DOMAIN Put(b, n, s) = DOMAIN b
  BY DEF Put

LEMMA StuffType ==
  ASSUME NEW r \in Request, r.len <= StageCap
  PROVE  Stuff(r) \in Seq(Unit) /\ Len(Stuff(r)) = r.len
<1> DEFINE s == SubSeq(r.data, 1, Least(r.len, Len(r.data)))
           st == Stage(r)
<1>1. r.data \in Seq(Unit) /\ r.len \in Nat /\ StageCap \in Nat
  BY Units, SdCardAssumption
<1>2. s \in Seq(Unit)
  <2>1. Least(r.len, Len(r.data)) \in 0 .. Len(r.data)
    BY <1>1 DEF Least
  <2>2. \A k \in 1 .. Least(r.len, Len(r.data)) : r.data[k] \in Unit
    BY <1>1, <2>1
  <2> QED BY <2>1, <2>2, SubSeqProperties
<1> HIDE DEF s
<1>3. st = [k \in 1 .. StageCap |-> IF k - 0 \in DOMAIN s THEN s[k - 0] ELSE Junk]
  BY DEF st, Stage, s, Put, Old
<1>4. \A k \in 1 .. StageCap : st[k] \in Unit
  BY <1>2, <1>3, Units
<1> HIDE DEF st
<1>5. \A k \in 1 .. r.len : st[k] \in Unit
  BY <1>1, <1>4
<1>6. SubSeq(st, 1, r.len) \in Seq(Unit) /\ Len(SubSeq(st, 1, r.len)) = r.len
  <2>1. /\ SubSeq(st, 1, r.len) \in Seq(Unit)
        /\ Len(SubSeq(st, 1, r.len)) = IF 1 <= r.len THEN (r.len - 1) + 1 ELSE 0
    BY <1>1, <1>5, SubSeqProperties
  <2> QED BY <1>1, <2>1
<1> QED BY <1>6 DEF Stuff, st

LEMMA PatternType ==
  ASSUME NEW r \in Request, NEW n \in Nat
  PROVE  Pattern(r, n) \in Seq(Unit) /\ Len(Pattern(r, n)) = n
<1>1. \A k \in 1 .. n : Xorshift(r.seed, k) \in Unit
  BY Units
<1>2. Pattern(r, n) \in [1 .. n -> Unit]
  BY <1>1 DEF Pattern
<1> QED BY <1>2

LEMMA OverlayIs ==
  ASSUME NEW T, NEW d \in Seq(T), NEW s \in Seq(T), NEW off \in 0 .. Len(d)
  PROVE  /\ Overlay(d, off, s) \in Seq(T)
         /\ Len(Overlay(d, off, s)) = IF off + Len(s) < Len(d) THEN Len(d) ELSE off + Len(s)
         /\ \A k \in 1 .. Len(Overlay(d, off, s)) :
              Overlay(d, off, s)[k] =
                IF k <= off THEN d[k] ELSE IF k <= off + Len(s) THEN s[k - off] ELSE d[k]
<1> DEFINE a == SubSeq(d, 1, off)
           m == off + Len(s) + 1
           c == SubSeq(d, m, Len(d))
<1>1. off \in Nat /\ Len(d) \in Nat /\ off <= Len(d) /\ Len(s) \in Nat
  OBVIOUS
<1>2. a \in Seq(T) /\ Len(a) = off /\ \A k \in 1 .. off : a[k] = d[k]
  <2>1. \A k \in 1 .. off : d[k] \in T
    BY <1>1
  <2>2. /\ a \in Seq(T) /\ Len(a) = (IF 1 <= off THEN (off - 1) + 1 ELSE 0)
        /\ \A k \in 1 .. (off - 1) + 1 : a[k] = d[(1 + k) - 1]
    BY <1>1, <2>1, SubSeqProperties
  <2> QED BY <1>1, <2>2
<1>3. m \in Int /\ m >= 1 /\ m = off + Len(s) + 1
  BY <1>1
<1>4. /\ c \in Seq(T) /\ Len(c) = (IF m <= Len(d) THEN (Len(d) - m) + 1 ELSE 0)
      /\ \A k \in 1 .. (Len(d) - m) + 1 : c[k] = d[(m + k) - 1]
  <2> HIDE DEF m
  <2>1. \A k \in m .. Len(d) : d[k] \in T
    BY <1>1, <1>3
  <2> QED BY <1>1, <1>3, <2>1, SubSeqProperties
<1> DEFINE o == Overlay(d, off, s)
           u == a \o s
<1>5. o = u \o c
  BY DEF Overlay
<1> HIDE DEF a, c, m
<1>6. u \in Seq(T) /\ Len(u) = off + Len(s)
  BY <1>2, ConcatProperties
<1>7. \A k \in 1 .. off + Len(s) : u[k] = IF k <= off THEN a[k] ELSE s[k - off]
  BY <1>2, ConcatProperties
<1> HIDE DEF u, o
<1>8. /\ o \in Seq(T) /\ Len(o) = Len(u) + Len(c)
      /\ \A k \in 1 .. Len(u) + Len(c) : o[k] = IF k <= Len(u) THEN u[k] ELSE c[k - Len(u)]
  BY <1>4, <1>5, <1>6, ConcatProperties
<1>9. Len(o) = IF off + Len(s) < Len(d) THEN Len(d) ELSE off + Len(s)
  <2>1. Len(o) = off + Len(s) + Len(c)
    BY <1>6, <1>8
  <2>2. CASE m <= Len(d)
    <3>1. Len(c) = (Len(d) - m) + 1
      BY <1>4, <2>2
    <3>2. Len(o) = Len(d) /\ off + Len(s) < Len(d)
      BY <1>1, <1>3, <2>1, <2>2, <3>1
    <3> QED BY <3>2
  <2>3. CASE ~(m <= Len(d))
    <3>1. Len(c) = 0
      BY <1>4, <2>3
    <3>2. Len(o) = off + Len(s) /\ ~(off + Len(s) < Len(d))
      BY <1>1, <1>3, <2>1, <2>3, <3>1
    <3> QED BY <3>2
  <2> QED BY <2>2, <2>3
<1>10. ASSUME NEW k \in 1 .. Len(o)
       PROVE  o[k] = IF k <= off THEN d[k] ELSE IF k <= off + Len(s) THEN s[k - off] ELSE d[k]
  <2>1. CASE k <= off + Len(s)
    <3>1. o[k] = u[k]
      BY <1>6, <1>8, <2>1
    <3>2. u[k] = IF k <= off THEN a[k] ELSE s[k - off]
      BY <1>7, <2>1, <1>8
    <3>3. k <= off => a[k] = d[k]
      BY <1>2, <1>8
    <3> QED BY <2>1, <3>1, <3>2, <3>3
  <2>2. CASE ~(k <= off + Len(s))
    <3>1. k \in Nat /\ m <= k /\ k <= Len(d) /\ m <= Len(d)
      BY <1>1, <1>3, <1>9, <2>2
    <3>2. o[k] = c[k - Len(u)]
      BY <1>6, <1>8, <2>2
    <3>3. k - Len(u) = (k - m) + 1 /\ (k - m) + 1 \in 1 .. (Len(d) - m) + 1
      BY <1>1, <1>3, <1>6, <3>1
    <3>4. c[(k - m) + 1] = d[(m + ((k - m) + 1)) - 1]
      BY <1>4, <3>3
    <3>5. (m + ((k - m) + 1)) - 1 = k
      BY <1>3, <3>1
    <3>6. o[k] = d[k]
      BY <3>2, <3>3, <3>4, <3>5
    <3>7. ~(k <= off)
      BY <1>1, <2>2, <3>1
    <3> QED BY <2>2, <3>6, <3>7
  <2> QED BY <2>1, <2>2
<1> QED BY <1>8, <1>9, <1>10 DEF o

\* To write what is there already changes nothing.
LEMMA OverlayOfItself ==
  ASSUME NEW T, NEW d \in Seq(T), NEW s \in Seq(T), NEW off \in Nat, off + Len(s) <= Len(d),
         \A k \in 1 .. Len(s) : d[off + k] = s[k]
  PROVE  Overlay(d, off, s) = d
<1> DEFINE o == Overlay(d, off, s)
<1>1. off \in 0 .. Len(d) /\ Len(d) \in Nat /\ Len(s) \in Nat
  OBVIOUS
<1>2. /\ o \in Seq(T)
      /\ Len(o) = IF off + Len(s) < Len(d) THEN Len(d) ELSE off + Len(s)
      /\ \A k \in 1 .. Len(o) :
           o[k] = IF k <= off THEN d[k] ELSE IF k <= off + Len(s) THEN s[k - off] ELSE d[k]
  BY <1>1, OverlayIs
<1> HIDE DEF o
<1>3. Len(o) = Len(d)
  BY <1>1, <1>2
<1>4. ASSUME NEW k \in 1 .. Len(o) PROVE o[k] = d[k]
  <2>1. CASE off < k /\ k <= off + Len(s)
    <3>1. k - off \in 1 .. Len(s) /\ off + (k - off) = k
      BY <1>1, <2>1
    <3>2. s[k - off] = d[k]
      BY <3>1
    <3>3. o[k] = s[k - off]
      BY <1>1, <1>2, <2>1
    <3> QED BY <3>2, <3>3
  <2>2. CASE ~(off < k /\ k <= off + Len(s))
    BY <1>1, <1>2, <2>2
  <2> QED BY <2>1, <2>2
<1>5. o = d
  BY <1>2, <1>3, <1>4, SeqEqual
<1> QED BY <1>5 DEF o

\* What is written is there.
LEMMA OverlayHolds ==
  ASSUME NEW T, NEW d \in Seq(T), NEW s \in Seq(T), NEW off \in 0 .. Len(d)
  PROVE  /\ off + Len(s) <= Len(Overlay(d, off, s))
         /\ \A k \in 1 .. Len(s) : Overlay(d, off, s)[off + k] = s[k]
<1> DEFINE o == Overlay(d, off, s)
<1>1. /\ o \in Seq(T)
      /\ Len(o) = IF off + Len(s) < Len(d) THEN Len(d) ELSE off + Len(s)
      /\ \A k \in 1 .. Len(o) :
           o[k] = IF k <= off THEN d[k] ELSE IF k <= off + Len(s) THEN s[k - off] ELSE d[k]
  BY OverlayIs
<1> HIDE DEF o
<1>2. off \in Nat /\ Len(s) \in Nat /\ Len(d) \in Nat
  OBVIOUS
<1>3. off + Len(s) <= Len(o)
  BY <1>1, <1>2
<1>4. ASSUME NEW k \in 1 .. Len(s) PROVE o[off + k] = s[k]
  <2>1. off + k \in 1 .. Len(o) /\ ~(off + k <= off) /\ off + k <= off + Len(s)
        /\ (off + k) - off = k
    BY <1>2, <1>3
  <2> QED BY <1>1, <2>1
<1> QED BY <1>3, <1>4 DEF o

\* A turn of sd_fill_pattern's loop goes on where the last one stopped.
LEMMA PatternGrows ==
  ASSUME NEW r \in Request, NEW t \in Nat, NEW n \in Nat
  PROVE  Overlay(Pattern(r, t), t, [k \in 1 .. n |-> Xorshift(r.seed, t + k)])
           = Pattern(r, t + n)
<1> DEFINE d == Pattern(r, t)
           s == [k \in 1 .. n |-> Xorshift(r.seed, t + k)]
           o == Overlay(d, t, s)
           p == Pattern(r, t + n)
<1>1. d \in Seq(Unit) /\ Len(d) = t /\ p \in Seq(Unit) /\ Len(p) = t + n
  BY PatternType
<1>2. s \in Seq(Unit) /\ Len(s) = n
  <2>1. \A k \in 1 .. n : Xorshift(r.seed, t + k) \in Unit
    BY Units
  <2>2. s \in [1 .. n -> Unit]
    BY <2>1
  <2> QED BY <2>2
<1>3. \A k \in 1 .. t : d[k] = Xorshift(r.seed, k)
  BY DEF Pattern
<1>4. \A k \in 1 .. n : s[k] = Xorshift(r.seed, t + k)
  OBVIOUS
<1>5. \A k \in 1 .. t + n : p[k] = Xorshift(r.seed, k)
  BY DEF Pattern
<1> HIDE DEF d, s, p
<1>6. /\ o \in Seq(Unit)
      /\ Len(o) = IF t + Len(s) < Len(d) THEN Len(d) ELSE t + Len(s)
      /\ \A k \in 1 .. Len(o) :
           o[k] = IF k <= t THEN d[k] ELSE IF k <= t + Len(s) THEN s[k - t] ELSE d[k]
  <2>1. t \in 0 .. Len(d)
    BY <1>1
  <2> QED BY <1>1, <1>2, <2>1, OverlayIs
<1> HIDE DEF o
<1>7. Len(o) = t + n
  BY <1>1, <1>2, <1>6
<1>8. ASSUME NEW k \in 1 .. Len(o) PROVE o[k] = p[k]
  <2>1. CASE k <= t
    BY <1>3, <1>5, <1>6, <1>7, <2>1
  <2>2. CASE ~(k <= t)
    <3>1. k - t \in 1 .. n /\ t + (k - t) = k
      BY <1>7, <2>2
    <3>2. o[k] = s[k - t]
      BY <1>2, <1>6, <1>7, <2>2
    <3>3. s[k - t] = Xorshift(r.seed, k)
      BY <1>4, <3>1
    <3> QED BY <1>5, <1>7, <3>2, <3>3
  <2> QED BY <2>1, <2>2
<1>9. o = p
  BY <1>1, <1>6, <1>7, <1>8, SeqEqual
<1> QED BY <1>9 DEF o, d, s, p

\* A file cut to nothing holds what is written at its start.
LEMMA OverlayNothing ==
  ASSUME NEW T, NEW s \in Seq(T)
  PROVE  Overlay(<<>>, 0, s) = s
<1> DEFINE d == <<>>
           o == Overlay(d, 0, s)
<1>1. /\ o \in Seq(T) /\ Len(o) = (IF 0 + Len(s) < Len(d) THEN Len(d) ELSE 0 + Len(s))
      /\ \A k \in 1 .. Len(o) :
           o[k] = IF k <= 0 THEN d[k] ELSE IF k <= 0 + Len(s) THEN s[k - 0] ELSE d[k]
  <2>1. d \in Seq(T) /\ 0 \in 0 .. Len(d)
    OBVIOUS
  <2> HIDE DEF d
  <2> QED BY <2>1, OverlayIs
<1>2. Len(d) = 0
  OBVIOUS
<1> HIDE DEF o, d
<1>3. Len(o) = Len(s)
  BY <1>1, <1>2
<1>4. \A k \in 1 .. Len(o) : o[k] = s[k]
  BY <1>1, <1>3
<1>5. o = s
  BY <1>1, <1>3, <1>4, SeqEqual
<1> QED BY <1>5 DEF o, d

-----------------------------------------------------------------------------
(* The inductive invariant.                                                *)

Name == Join(req.name)

\* r has had its effect on the card c.
Done(r, c) ==
  LET p == Join(r.name)
  IN  /\ r.op = "write" =>
           /\ p \in Path /\ c[p].type = "file"
           /\ r.off + r.len <= Len(c[p].data)
           /\ \A k \in 1 .. r.len : c[p].data[r.off + k] = Stuff(r)[k]
           /\ r.off = 0 => c[p].data = Stuff(r)
      /\ r.op = "fill" => p \in Path /\ c[p] = File(Pattern(r, r.len))
      /\ r.op = "delete" => p \in Path /\ c[p] = Absent
      /\ r.op = "mkdir" => p \in Path /\ c[p].type # "none"

Types ==
  /\ TypeOK
  /\ card \in [Path -> Entry] /\ before \in [Path -> Entry]
  /\ file \in [open : BOOLEAN, pos : Nat, bad : BOOLEAN, dirty : BOOLEAN]

OnFile == {"write", "fill", "read", "peek", "checksum"}
Change == {"write", "fill", "rename", "delete", "mkdir"}

\* The operations a step may be of.
Labels ==
  /\ pc = "raw" <=> (req.op = "rawread" /\ pc \notin {"idle", "reply"})
  /\ pc = "unlink" => req.op = "write" /\ req.off = 0
  /\ pc \in {"open", "truncate", "seek", "io", "close"} => req.op \in OnFile
  /\ pc = "truncate" => req.op = "fill" \/ (req.op = "write" /\ req.off = 0)
  /\ pc = "seek" => req.op \in {"write", "read", "peek"}
  /\ pc \in {"opendir", "readdir"} => req.op = "list"
  /\ pc = "path" => req.op \in {"rename", "delete", "mkdir", "stat"}

\* A file is open between fs_open and fs_close, and changed by those who write.
Handle ==
  /\ pc \in {"truncate", "seek", "io", "close"} \/ file = Closed
  /\ file.dirty => Writes

Starts ==
  /\ pc \in {"mount", "raw", "unlink", "open", "truncate", "seek", "opendir", "path"} =>
       total = 0
  /\ pc = "io" /\ req.op \in {"read", "peek"} => total <= Cap

\* Errors lead to the end.
Calm ==
  /\ pc \notin {"close", "reply", "idle"} => rc = "ok"
  /\ pc \notin {"reply", "idle"} => Accepts(req) /\ ~lost

Staged == req.op = "write" /\ pc \notin {"idle", "reply"} => sd_dma_buf = Stage(req)

\* Only the named file changes, and only from the call that changes it on.
Apart ==
  pc # "idle" /\ req.op # "rename" => \A p \in Path \ {Name} : card[p] = before[p]

Untouched ==
  /\ pc # "idle" /\ req.op \notin Change => card = before
  /\ pc \in {"mount", "unlink", "path"} => card = before
  /\ pc = "open" => \/ card = before
                    \/ /\ req.op = "write" /\ req.off = 0
                       /\ Name \in Path /\ card[Name] = Absent

\* A file that is written holds what was written of it, unless a call failed.
Writing ==
  LET f == card[Name]
  IN  Writes =>
        /\ pc \in {"truncate", "seek", "io", "close"} => Name \in Path /\ f.type = "file"
        /\ pc = "truncate" => file.pos = 0
        /\ pc = "io" /\ req.op = "write" =>
             ~file.bad /\ file.pos = req.off /\ req.off <= Len(f.data)
        /\ pc \in {"seek", "io"} /\ req.op = "write" =>
             /\ req.off = 0 /\ ~file.bad => f = File(<<>>)
             /\ req.off # 0 /\ again => f = before[Name]
        /\ pc = "io" /\ req.op = "fill" =>
             IF file.bad THEN total = 0 ELSE file.pos = total /\ f = File(Pattern(req, total))

\* What returns 0 is done.
Finished ==
  pc \in {"close", "reply"} /\ rc = "ok" /\ ~lost /\ Repeatable => Done(req, card)

Settled ==
  pc = "idle" /\ answer.rc = "ok" =>
    /\ answer.req = <<req>>
    /\ ~answer.lost /\ Repeatable => Done(req, card)

\* What is done again was done before, and is left so unless the disk fails.
AgainDone == pc # "idle" /\ again /\ Repeatable => Done(req, before)

Kept ==
  pc \in {"close", "reply"} /\ again /\ Repeatable /\ rc \notin {"disk", "eio"} /\ ~lost
    => card = before

IInv ==
  /\ Types /\ Labels /\ Handle /\ Starts /\ Calm /\ Staged /\ Apart /\ Untouched
  /\ Writing /\ Finished /\ Settled /\ AgainDone /\ Kept

LEMMA Names ==
  ASSUME Types
  PROVE  /\ Root \notin Path
         /\ Name \in Path \/ Name = Root
         /\ req.op \in {"rename", "delete"} => Name \in Path
         /\ req.op = "rename" => Join(req.to) \in Path
  BY SdCardAssumption DEF Types, TypeOK, Path, Name

LEMMA NamedIs ==
  ASSUME Types
  PROVE  /\ Named \in Entry
         /\ Name \in Path => Named = card[Name]
         /\ Name \notin Path => Named = Dir
         /\ Named.type # "dir" => Name \in Path
<1>1. card \in [Path -> Entry]
  BY DEF Types
<1>2. Named = IF Name = Root THEN Dir ELSE card[Name]
  BY DEF Named, Name
<1>3. Dir \in Entry /\ Dir.type = "dir"
  BY DEF Entry, Dir
<1>4. CASE Name \in Path
  BY <1>1, <1>2, <1>4, Names
<1>5. CASE Name \notin Path
  BY <1>2, <1>3, <1>5, Names
<1> QED BY <1>4, <1>5

LEMMA SetNamedIs ==
  ASSUME Types, NEW f \in Entry, SetNamed(f)
  PROVE  /\ card' \in [Path -> Entry]
         /\ Name \in Path => card'[Name] = f
         /\ \A p \in Path \ {Name} : card'[p] = card[p]
  BY DEF Types, SetNamed, Name

Code == {"ok", "einval", "enoent", "eexist", "denied", "enospc", "eio", "disk"}

LEMMA TypesPrime ==
  ASSUME card' \in [Path -> Entry], before' \in [Path -> Entry], req' \in Request,
         pc' \in Label, rc' \in Code,
         file' \in [open : BOOLEAN, pos : Nat, bad : BOOLEAN, dirty : BOOLEAN],
         total' \in 0 .. Room', DOMAIN rsp' = 1 .. RspCap, DOMAIN sd_dma_buf' = 1 .. StageCap,
         again' \in BOOLEAN, lost' \in BOOLEAN
  PROVE  Types'
<1>1. \A p \in Path : card'[p] \in {Absent, Dir} \/ card'[p] = File(card'[p].data)
  BY Entries
<1>2. /\ file'.open \in BOOLEAN /\ file'.bad \in BOOLEAN /\ file'.dirty \in BOOLEAN
      /\ file'.pos \in Nat
  OBVIOUS
<1>3. TypeOK'
  BY <1>1, <1>2 DEF TypeOK, Code
<1> QED BY <1>3 DEF Types

LEMMA Unprimed ==
  ASSUME Types
  PROVE  /\ card \in [Path -> Entry] /\ before \in [Path -> Entry] /\ req \in Request
         /\ pc \in Label /\ rc \in Code
         /\ file \in [open : BOOLEAN, pos : Nat, bad : BOOLEAN, dirty : BOOLEAN]
         /\ total \in 0 .. Room /\ total \in Nat
         /\ DOMAIN rsp = 1 .. RspCap /\ DOMAIN sd_dma_buf = 1 .. StageCap
         /\ again \in BOOLEAN /\ lost \in BOOLEAN
         /\ req.off \in Nat /\ req.len \in Nat /\ req.op \in Op /\ Room \in Nat
<1>1. req \in Request /\ total \in 0 .. Room
  BY DEF Types, TypeOK
<1>2. req.off \in Nat /\ req.len \in Nat /\ req.op \in Op /\ Room \in Nat
  BY <1>1, SdCardAssumption DEF Room
<1>3. total \in Nat
  BY <1>1, <1>2
<1> QED BY <1>1, <1>2, <1>3 DEF Types, TypeOK, Code

LEMMA InitIInv == Init => IInv
<1> SUFFICES ASSUME Init PROVE IInv
  OBVIOUS
<1>1. Types
  <2>1. card \in [Path -> Entry] /\ before \in [Path -> Entry]
    BY Entries DEF Init
  <2>2. \A p \in Path : card[p] \in {Absent, Dir}
    BY DEF Init
  <2>3. file \in [open : BOOLEAN, pos : Nat, bad : BOOLEAN, dirty : BOOLEAN]
    BY DEF Init, Closed
  <2>4. /\ file.open \in BOOLEAN /\ file.bad \in BOOLEAN /\ file.dirty \in BOOLEAN
        /\ file.pos \in Nat
    BY DEF Init, Closed
  <2>5. Room \in Nat
    BY SdCardAssumption DEF Init, Room
  <2>6. total \in 0 .. Room
    BY <2>5 DEF Init
  <2>7. DOMAIN rsp = 1 .. RspCap /\ DOMAIN sd_dma_buf = 1 .. StageCap
    BY DEF Init, Old
  <2>8. pc \in Label /\ rc \in Code /\ req \in Request /\ again \in BOOLEAN /\ lost \in BOOLEAN
    BY DEF Init, Label, Code
  <2>9. DOMAIN card = Path
    BY DEF Init
  <2> QED BY <2>1, <2>2, <2>3, <2>4, <2>6, <2>7, <2>8, <2>9 DEF Types, TypeOK, Code
<1>2. Labels /\ Handle /\ Starts /\ Calm /\ Staged /\ Apart /\ Untouched
  BY DEF Init, Labels, Handle, Starts, Calm, Staged, Apart, Untouched, Closed
<1>3. Writing /\ Finished /\ AgainDone /\ Kept
  BY DEF Init, Writing, Finished, AgainDone, Kept
<1>4. Settled
  BY DEF Init, Settled, F!NoAnswer
<1> QED BY <1>1, <1>2, <1>3, <1>4 DEF IInv

LEMMA MountKeeps == IInv /\ EnsureMounted => IInv'
<1> SUFFICES ASSUME IInv, EnsureMounted PROVE IInv'
  OBVIOUS
<1>1. /\ pc = "mount" /\ Types /\ req.op # "rawread" /\ file = Closed /\ total = 0
      /\ rc = "ok" /\ Accepts(req) /\ ~lost /\ card = before
  BY Unprimed DEF IInv, EnsureMounted, At, Labels, Handle, Starts, Calm, Untouched
<1>2. /\ card' = card /\ req' = req /\ before' = before /\ again' = again /\ lost' = lost
      /\ file' = file /\ total' = total /\ seen' = seen /\ rsp' = rsp
      /\ sd_dma_buf' = sd_dma_buf /\ answer' = answer
      /\ (pc' = FirstCall /\ rc' = rc) \/ (pc' = "reply" /\ rc' = "disk")
  BY DEF EnsureMounted, Goto, FailTo, work, host
<1>3. FirstCall \in {"unlink", "opendir", "open", "path"}
  BY DEF FirstCall
<1>4. Types'
  <2>1. Room' = Room
    BY <1>2 DEF Room
  <2>2. pc' \in Label /\ rc' \in Code
    BY <1>1, <1>2, <1>3 DEF Label, Code
  <2> QED BY <1>1, <1>2, <2>1, <2>2, Unprimed, TypesPrime
<1>5. Labels'
  BY <1>1, <1>2, Unprimed DEF Labels, FirstCall, OnFile, Op
<1>6. Handle'
  BY <1>1, <1>2 DEF IInv, Handle, Closed, Writes
<1>7. Starts'
  BY <1>1, <1>2, <1>3 DEF Starts
<1>8. Calm'
  BY <1>1, <1>2, <1>3 DEF Calm
<1>9. Staged'
  BY <1>1, <1>2, <1>3 DEF IInv, Staged
<1>10. Apart' /\ Untouched'
  BY <1>1, <1>2, <1>3 DEF Apart, Untouched, Name
<1>11. Writing' /\ Finished' /\ Settled' /\ Kept'
  BY <1>1, <1>2, <1>3 DEF Writing, Finished, Settled, Kept, Name, Writes
<1>12. AgainDone'
  BY <1>1, <1>2 DEF IInv, AgainDone, Repeatable
<1> QED BY <1>4, <1>5, <1>6, <1>7, <1>8, <1>9, <1>10, <1>11, <1>12 DEF IInv

LEMMA RawKeeps == IInv /\ RawRead => IInv'
<1> SUFFICES ASSUME IInv, RawRead PROVE IInv'
  OBVIOUS
<1>1. /\ pc = "raw" /\ Types /\ req.op = "rawread" /\ file = Closed /\ total = 0
      /\ rc = "ok" /\ ~lost /\ card = before
  BY Unprimed DEF IInv, RawRead, At, Labels, Handle, Starts, Calm, Untouched, Change
<1>2. /\ card' = card /\ req' = req /\ before' = before /\ again' = again /\ lost' = lost
      /\ file' = file /\ rsp' = rsp /\ answer' = answer /\ pc' = "reply"
  BY DEF RawRead, Goto, host
<1>3. /\ rc' \in {"ok", "disk"} /\ DOMAIN sd_dma_buf' = DOMAIN sd_dma_buf
      /\ total' \in 0 .. StageCap
  <2>1. Least(SectorLen, Least(RspCap, StageCap)) \in 0 .. StageCap
    BY SdCardAssumption DEF Least
  <2>2. 0 \in 0 .. StageCap
    BY SdCardAssumption
  <2> QED BY <1>1, <2>1, <2>2, PutDomain DEF RawRead
<1>4. Types'
  <2>1. Room' = StageCap
    BY <1>1, <1>2 DEF Room
  <2>2. pc' \in Label /\ rc' \in Code
    BY <1>2, <1>3 DEF Label, Code
  <2> QED BY <1>1, <1>2, <1>3, <2>1, <2>2, Unprimed, TypesPrime
<1>5. Labels' /\ Handle' /\ Starts' /\ Calm' /\ Staged'
  BY <1>1, <1>2 DEF Labels, Handle, Starts, Calm, Staged, Closed, Writes
<1>6. Apart' /\ Untouched' /\ Writing'
  BY <1>1, <1>2 DEF Apart, Untouched, Writing, Name, Writes
<1>7. Finished'
  BY <1>1, <1>2 DEF Finished, Done
<1>8. Settled' /\ Kept'
  BY <1>1, <1>2 DEF Settled, Kept
<1>9. AgainDone'
  BY <1>1, <1>2 DEF AgainDone, Done
<1> QED BY <1>4, <1>5, <1>6, <1>7, <1>8, <1>9 DEF IInv

LEMMA ReceiveKeeps == IInv /\ Receive => IInv'
<1> SUFFICES ASSUME IInv, Receive PROVE IInv'
  OBVIOUS
<1>1. PICK r \in Request :
        /\ req' = r
        /\ again' = (answer.rc = "ok" /\ ~answer.lost /\ answer.req = <<r>>)
        /\ IF Accepts(r) THEN pc' = Begin(r) /\ rc' = "ok" ELSE pc' = "reply" /\ rc' = "einval"
        /\ sd_dma_buf' = IF r.op = "write" /\ Accepts(r) THEN Stage(r) ELSE Old(StageCap)
  BY DEF Receive, Goto, FailTo, Stage
<1>2. /\ pc = "idle" /\ Types /\ file = Closed
      /\ card' = card /\ before' = card /\ file' = Closed /\ total' = 0 /\ rsp' = Old(RspCap)
      /\ lost' = FALSE
  BY DEF IInv, Handle, Receive, At
<1>3. pc' = "reply" \/ (Accepts(r) /\ pc' = Begin(r) /\ rc' = "ok")
  BY <1>1
<1>4. Begin(r) = (IF r.op = "rawread" THEN "raw" ELSE "mount")
  BY DEF Begin
<1>5. pc' \in {"reply", "raw", "mount"} /\ (pc' # "reply" => Accepts(r) /\ rc' = "ok")
  BY <1>3, <1>4
<1>6. Types'
  <2>1. Room' \in Nat
    BY <1>1, SdCardAssumption DEF Room
  <2>2. 0 \in 0 .. Room'
    BY <2>1
  <2>3. pc' \in Label /\ rc' \in Code
    BY <1>1, <1>4 DEF Label, Code
  <2>4. DOMAIN rsp' = 1 .. RspCap
    BY <1>2 DEF Old
  <2>5. DOMAIN sd_dma_buf' = 1 .. StageCap
    BY <1>1, PutDomain DEF Stage, Old
  <2>6. again' \in BOOLEAN
    BY <1>1
  <2>7. file' \in [open : BOOLEAN, pos : Nat, bad : BOOLEAN, dirty : BOOLEAN]
    BY <1>2 DEF Closed
  <2>8. card' \in [Path -> Entry] /\ before' \in [Path -> Entry]
    BY <1>2, Unprimed
  <2>9. req' \in Request /\ lost' \in BOOLEAN /\ total' \in 0 .. Room'
    BY <1>1, <1>2, <2>2
  <2> QED BY <2>3, <2>4, <2>5, <2>6, <2>7, <2>8, <2>9, TypesPrime
<1>7. Labels'
  BY <1>1, <1>3, <1>4 DEF Labels
<1>8. Handle'
  BY <1>2 DEF Handle, Closed
<1>9. Starts'
  BY <1>2, <1>5 DEF Starts
<1>10. Calm'
  BY <1>1, <1>2, <1>5 DEF Calm
<1>11. Staged'
  BY <1>1, <1>5 DEF Staged
<1>12. Apart' /\ Untouched' /\ Kept'
  BY <1>2, <1>5 DEF Apart, Untouched, Kept
<1>13. Writing' /\ Settled'
  BY <1>5 DEF Writing, Settled
<1>14. Finished'
  BY <1>1, <1>4 DEF Finished
<1>15. AgainDone'
  <2> SUFFICES ASSUME again', Repeatable' PROVE Done(req', before')
    BY DEF AgainDone
  <2>1. answer.rc = "ok" /\ ~answer.lost /\ answer.req = <<r>>
    BY <1>1
  <2>2. answer.req = <<req>> /\ (Repeatable => Done(req, card))
    BY <1>2, <2>1 DEF IInv, Settled
  <2>3. r = req
    BY <2>1, <2>2
  <2>4. Repeatable
    BY <1>1, <2>3 DEF Repeatable
  <2> QED BY <1>1, <1>2, <2>2, <2>3, <2>4
<1> QED BY <1>6, <1>7, <1>8, <1>9, <1>10, <1>11, <1>12, <1>13, <1>14, <1>15 DEF IInv

LEMMA UnlinkKeeps == IInv /\ Unlink => IInv'
<1> SUFFICES ASSUME IInv, Unlink PROVE IInv'
  OBVIOUS
<1>1. /\ pc = "unlink" /\ Types /\ req.op = "write" /\ req.off = 0 /\ file = Closed /\ total = 0
      /\ rc = "ok" /\ Accepts(req) /\ ~lost /\ card = before
  BY DEF IInv, Unlink, At, Labels, Handle, Starts, Calm, Untouched
<1>2. /\ req' = req /\ before' = before /\ again' = again /\ lost' = lost
      /\ file' = file /\ total' = total /\ seen' = seen /\ rsp' = rsp /\ rc' = rc
      /\ sd_dma_buf' = sd_dma_buf /\ answer' = answer /\ pc' = "open"
  BY DEF Unlink, Goto, work, host
<1>3. \/ card' = card
      \/ /\ Name \in Path /\ card' \in [Path -> Entry] /\ card'[Name] = Absent
         /\ \A p \in Path \ {Name} : card'[p] = card[p]
  <2>1. CASE Named.type = "file" /\ SetNamed(Absent)
    BY <1>1, <2>1, Entries, NamedIs, SetNamedIs
  <2> QED BY <2>1 DEF Unlink
<1>4. Types'
  <2>1. Room' = Room
    BY <1>2 DEF Room
  <2>2. pc' \in Label
    BY <1>2 DEF Label
  <2>3. card' \in [Path -> Entry]
    BY <1>1, <1>3, Unprimed
  <2> QED BY <1>1, <1>2, <2>1, <2>2, <2>3, Unprimed, TypesPrime
<1>5. Labels' /\ Handle' /\ Starts' /\ Calm'
  BY <1>1, <1>2 DEF Labels, Handle, Starts, Calm, Closed, Writes, OnFile
<1>6. Staged'
  BY <1>1, <1>2 DEF IInv, Staged
<1>7. Apart' /\ Untouched'
  BY <1>1, <1>2, <1>3 DEF Apart, Untouched, Name, Change
<1>8. Writing' /\ Finished' /\ Settled' /\ Kept'
  BY <1>2 DEF Writing, Finished, Settled, Kept
<1>9. AgainDone'
  BY <1>1, <1>2 DEF IInv, AgainDone, Repeatable
<1> QED BY <1>4, <1>5, <1>6, <1>7, <1>8, <1>9 DEF IInv

LEMMA OpenKeeps == IInv /\ Open => IInv'
<1> SUFFICES ASSUME IInv, Open PROVE IInv'
  OBVIOUS
<1>1. /\ pc = "open" /\ Types /\ req.op \in OnFile /\ file = Closed /\ total = 0
      /\ rc = "ok" /\ Accepts(req) /\ ~lost
  BY DEF IInv, Open, At, Labels, Handle, Starts, Calm
<1>2. /\ req' = req /\ before' = before /\ again' = again /\ lost' = lost
      /\ total' = total /\ seen' = seen /\ rsp' = rsp
      /\ sd_dma_buf' = sd_dma_buf /\ answer' = answer
  BY DEF Open, host
<1>3. \/ card = before
      \/ req.op = "write" /\ req.off = 0 /\ Name \in Path /\ card[Name] = Absent
  BY <1>1 DEF IInv, Untouched
<1>4. Room' = Room
  BY <1>2 DEF Room
<1>5. AgainDone'
  BY <1>1, <1>2 DEF IInv, AgainDone, Repeatable
<1>6. Staged'
  BY <1>1, <1>2 DEF IInv, Staged
<1>7. ASSUME Named.type = "file" \/ (Writes /\ Named.type = "none"),
             file' = [Closed EXCEPT !.open = TRUE],
             IF Named.type = "none" THEN SetNamed(File(<<>>)) ELSE UNCHANGED card,
             pc' = AfterOpen, rc' = rc
      PROVE  IInv'
  <2>1. AfterOpen \in {"truncate", "seek", "io"}
    BY DEF AfterOpen
  <2>2. /\ file'.open /\ file'.pos = 0 /\ ~file'.bad /\ ~file'.dirty
        /\ file' \in [open : BOOLEAN, pos : Nat, bad : BOOLEAN, dirty : BOOLEAN]
    BY <1>7 DEF Closed
  <2>3. Name \in Path /\ Named = card[Name]
    BY <1>1, <1>7, NamedIs
  <2>4. CASE Named.type = "file"
    <3>1. card' = card /\ card = before
      BY <1>3, <1>7, <2>3, <2>4 DEF Absent
    <3>2. Types'
      BY <1>1, <1>2, <1>4, <1>7, <2>1, <2>2, <3>1, Unprimed, TypesPrime DEF Label
    <3>3. Labels' /\ Handle'
      BY <1>1, <1>2, <1>7, <2>1, <2>2 DEF Labels, Handle, AfterOpen, OnFile
    <3>4. Starts'
      <4>1. 0 <= Cap
        BY <1>1, Unprimed, SdCardAssumption DEF Cap, Least
      <4>2. Cap' = Cap
        BY <1>2 DEF Cap
      <4> QED BY <1>1, <1>2, <4>1, <4>2 DEF Starts
    <3>5. Calm' /\ Finished' /\ Settled' /\ Kept'
      BY <1>1, <1>2, <1>7, <2>1 DEF Calm, Finished, Settled, Kept
    <3>6. Apart' /\ Untouched'
      BY <1>1, <1>2, <1>7, <2>1, <3>1 DEF Apart, Untouched, Name
    <3>7. Writing'
      BY <1>1, <1>2, <1>7, <2>1, <2>2, <2>3, <2>4, <3>1 DEF Writing, AfterOpen, Name, Writes
    <3> QED BY <1>5, <1>6, <3>2, <3>3, <3>4, <3>5, <3>6, <3>7 DEF IInv
  <2>5. CASE Named.type # "file"
    <3>1. Writes /\ Named.type = "none" /\ SetNamed(File(<<>>))
      BY <1>7, <2>5
    <3>2. File(<<>>) \in Entry
      BY Entries
    <3>3. /\ card' \in [Path -> Entry] /\ card'[Name] = File(<<>>)
          /\ \A p \in Path \ {Name} : card'[p] = card[p]
      BY <1>1, <2>3, <3>1, <3>2, SetNamedIs
    <3>4. Types'
      BY <1>1, <1>2, <1>4, <1>7, <2>1, <2>2, <3>3, Unprimed, TypesPrime DEF Label
    <3>5. Labels' /\ Handle'
      BY <1>1, <1>2, <1>7, <2>1, <2>2, <3>1 DEF Labels, Handle, AfterOpen, OnFile, Writes
    <3>6. Starts'
      BY <1>1, <1>2, <3>1 DEF Starts, Writes
    <3>7. Calm' /\ Finished' /\ Settled' /\ Kept'
      BY <1>1, <1>2, <1>7, <2>1 DEF Calm, Finished, Settled, Kept
    <3>8. Apart' /\ Untouched'
      <4>1. req.op \in Change
        BY <3>1 DEF Writes, Change
      <4>2. \A p \in Path \ {Name} : card[p] = before[p]
        BY <1>1, <3>1 DEF IInv, Apart, Writes
      <4> QED BY <1>2, <1>7, <2>1, <3>3, <4>1, <4>2 DEF Apart, Untouched, Name
    <3>9. Writing'
      <4>1. card'[Name].type = "file"
        BY <3>3 DEF File
      <4>2. req.op = "write" /\ req.off # 0 => ~again
        <5> SUFFICES ASSUME req.op = "write", req.off # 0, again PROVE FALSE
          OBVIOUS
        <5>1. card = before
          BY <1>3
        <5>2. Done(req, before)
          BY <1>1 DEF IInv, AgainDone, Repeatable
        <5>3. before[Name].type = "file"
          BY <5>2 DEF Done, Name
        <5> QED BY <2>3, <3>1, <5>1, <5>3
      <4> QED BY <1>1, <1>2, <1>7, <2>1, <2>2, <2>3, <3>1, <3>3, <4>1, <4>2
                 DEF Writing, AfterOpen, Name, Writes
    <3> QED BY <1>5, <1>6, <3>4, <3>5, <3>6, <3>7, <3>8, <3>9 DEF IInv
  <2> QED BY <2>4, <2>5
<1>8. ASSUME pc' = "reply", card' = card, file' = file, rc' \in {"denied", "enoent", "disk"},
             rc' = "denied" => Named.type = "dir",
             rc' = "enoent" => ~Writes
      PROVE  IInv'
  <2>1. rc' # "disk" => card = before
    <3>1. CASE rc' = "denied"
      <4>1. Named.type = "dir"
        BY <1>8, <3>1
      <4> QED BY <1>1, <1>3, <4>1, NamedIs DEF Absent
    <3>2. CASE rc' = "enoent"
      BY <1>3, <1>8, <3>2 DEF Writes
    <3> QED BY <1>8, <3>1, <3>2
  <2>2. Types'
    BY <1>1, <1>2, <1>4, <1>8, Unprimed, TypesPrime DEF Label, Code
  <2>3. Labels' /\ Handle' /\ Starts' /\ Calm'
    BY <1>1, <1>2, <1>8 DEF Labels, Handle, Starts, Calm, Closed, OnFile, Writes
  <2>4. Apart' /\ Untouched'
    BY <1>1, <1>2, <1>8 DEF IInv, Apart, Untouched, Name
  <2>5. Writing' /\ Finished' /\ Settled'
    BY <1>8 DEF Writing, Finished, Settled
  <2>6. Kept'
    BY <1>2, <1>8, <2>1 DEF Kept
  <2> QED BY <1>5, <1>6, <2>2, <2>3, <2>4, <2>5, <2>6 DEF IInv
<1> QED BY <1>7, <1>8 DEF Open, Goto, FailTo

LEMMA SameCard ==
  ASSUME Types, \A p \in Path \ {Name} : card[p] = before[p],
         Name \in Path => card[Name] = before[Name]
  PROVE  card = before
<1>1. card \in [Path -> Entry] /\ before \in [Path -> Entry]
  BY DEF Types
<1>2. \A p \in Path : card[p] = before[p]
  OBVIOUS
<1> QED BY <1>1, <1>2

LEMMA NoPattern == ASSUME NEW r \in Request PROVE Pattern(r, 0) = <<>>
  BY PatternType

LEMMA TruncateKeeps == IInv /\ Truncate => IInv'
<1> SUFFICES ASSUME IInv, Truncate PROVE IInv'
  OBVIOUS
<1>1. /\ pc = "truncate" /\ Types /\ Writes /\ (req.op = "write" => req.off = 0) /\ total = 0
      /\ rc = "ok" /\ Accepts(req) /\ ~lost
  BY DEF IInv, Truncate, At, Labels, Starts, Calm, Writes
<1>2. /\ req' = req /\ before' = before /\ again' = again /\ lost' = lost
      /\ total' = total /\ seen' = seen /\ rsp' = rsp /\ rc' = rc
      /\ sd_dma_buf' = sd_dma_buf /\ answer' = answer
      /\ pc' = IF req.op = "write" THEN "seek" ELSE "io"
  BY DEF Truncate, Goto, host
<1>3. Name \in Path /\ card[Name].type = "file" /\ file.pos = 0
  BY <1>1 DEF IInv, Writing
<1>4. /\ card' \in [Path -> Entry] /\ card'[Name].type = "file"
      /\ \A p \in Path \ {Name} : card'[p] = card[p]
  <2>1. CASE SetNamed(File(<<>>))
    <3>1. File(<<>>) \in Entry /\ File(<<>>).type = "file"
      BY Entries DEF File
    <3> QED BY <1>1, <1>3, <2>1, <3>1, SetNamedIs
  <2>2. CASE card' = card
    BY <1>1, <1>3, <2>2, Unprimed
  <2> QED BY <2>1, <2>2 DEF Truncate
<1>5. /\ file' \in [open : BOOLEAN, pos : Nat, bad : BOOLEAN, dirty : BOOLEAN]
      /\ file'.pos = 0
      /\ file'.bad \/ card'[Name] = File(<<>>)
  <2>1. file \in [open : BOOLEAN, pos : Nat, bad : BOOLEAN, dirty : BOOLEAN]
    BY <1>1, Unprimed
  <2>2. CASE file' = [file EXCEPT !.bad = TRUE, !.dirty = TRUE]
    BY <1>3, <2>1, <2>2
  <2>3. CASE file' = [file EXCEPT !.dirty = TRUE] /\ card'[Name].data = <<>>
    <3>1. card'[Name] = File(<<>>)
      BY <1>3, <1>4, <2>3, Entries
    <3> QED BY <1>3, <2>1, <2>3, <3>1
  <2> QED BY <2>2, <2>3 DEF Truncate, Name
<1>6. Types'
  <2>1. Room' = Room
    BY <1>2 DEF Room
  <2>2. pc' \in Label
    BY <1>2 DEF Label
  <2> QED BY <1>1, <1>2, <1>4, <1>5, <2>1, <2>2, Unprimed, TypesPrime
<1>7. Labels' /\ Handle'
  BY <1>1, <1>2 DEF Labels, Handle, OnFile, Writes
<1>8. Starts' /\ Calm'
  BY <1>1, <1>2 DEF Starts, Calm, Writes
<1>9. Staged'
  BY <1>1, <1>2 DEF IInv, Staged
<1>10. Apart' /\ Untouched'
  <2>1. req.op \in Change /\ req.op # "rename"
    BY <1>1 DEF Change, Writes
  <2>2. \A p \in Path \ {Name} : card[p] = before[p]
    BY <1>1, <2>1 DEF IInv, Apart
  <2> QED BY <1>2, <1>4, <2>1, <2>2 DEF Apart, Untouched, Name
<1>11. Writing'
  <2>1. Pattern(req, 0) = <<>>
    BY <1>1, NoPattern, Unprimed
  <2>2. CASE req.op = "write"
    BY <1>1, <1>2, <1>3, <1>4, <1>5, <2>2 DEF Writing, Name
  <2>3. CASE req.op = "fill"
    BY <1>1, <1>2, <1>3, <1>4, <1>5, <2>1, <2>3 DEF Writing, Name
  <2> QED BY <1>1, <2>2, <2>3 DEF Writes
<1>12. Finished' /\ Settled' /\ Kept'
  BY <1>2 DEF Finished, Settled, Kept
<1>13. AgainDone'
  BY <1>1, <1>2 DEF IInv, AgainDone, Repeatable
<1> QED BY <1>6, <1>7, <1>8, <1>9, <1>10, <1>11, <1>12, <1>13 DEF IInv

LEMMA SeekKeeps == IInv /\ Seek => IInv'
<1> SUFFICES ASSUME IInv, Seek PROVE IInv'
  OBVIOUS
<1>1. /\ pc = "seek" /\ Types /\ req.op \in {"write", "read", "peek"} /\ total = 0
      /\ rc = "ok" /\ Accepts(req) /\ ~lost
  BY DEF IInv, Seek, At, Labels, Starts, Calm
<1>2. /\ card' = card /\ req' = req /\ before' = before /\ again' = again /\ lost' = lost
      /\ total' = total /\ seen' = seen /\ rsp' = rsp
      /\ sd_dma_buf' = sd_dma_buf /\ answer' = answer
  BY DEF Seek, host
<1>3. /\ file \in [open : BOOLEAN, pos : Nat, bad : BOOLEAN, dirty : BOOLEAN]
      /\ file.dirty => Writes
  BY <1>1, Unprimed DEF IInv, Handle
<1>4. \/ ~file.bad /\ req.off <= Len(Named.data)
         /\ file' = [file EXCEPT !.pos = req.off] /\ pc' = "io" /\ rc' = rc
      \/ req.off > Len(Named.data) /\ pc' = "close" /\ rc' = "einval" /\ file' = file
      \/ pc' = "close" /\ rc' = "disk" /\ file' = [file EXCEPT !.bad = TRUE]
  BY DEF Seek, Goto, FailTo
<1>5. /\ file' \in [open : BOOLEAN, pos : Nat, bad : BOOLEAN, dirty : BOOLEAN]
      /\ file'.dirty = file.dirty
  BY <1>1, <1>3, <1>4, Unprimed
<1>6. Types'
  <2>1. Room' = Room
    BY <1>2 DEF Room
  <2>2. pc' \in Label /\ rc' \in Code
    BY <1>1, <1>4 DEF Label, Code
  <2> QED BY <1>1, <1>2, <1>5, <2>1, <2>2, Unprimed, TypesPrime
<1>7. pc' \in {"io", "close"}
  BY <1>4
<1>8. Labels' /\ Handle'
  BY <1>1, <1>2, <1>3, <1>5, <1>7 DEF Labels, Handle, OnFile, Writes
<1>9. Starts'
  <2>1. 0 <= Cap
    BY <1>1, Unprimed, SdCardAssumption DEF Cap, Least
  <2>2. Cap' = Cap
    BY <1>2 DEF Cap
  <2> QED BY <1>1, <1>2, <1>7, <2>1, <2>2 DEF Starts
<1>10. Calm'
  BY <1>1, <1>2, <1>4 DEF Calm
<1>11. Staged'
  BY <1>1, <1>2 DEF IInv, Staged
<1>12. Apart' /\ Untouched'
  BY <1>1, <1>2, <1>7 DEF IInv, Apart, Untouched, Name
<1>13. req.op = "write" => Name \in Path /\ card[Name].type = "file" /\ Named = card[Name]
  BY <1>1, NamedIs DEF IInv, Writing, Writes
<1>14. Writing'
  <2>1. CASE pc' = "io"
    <3>1. /\ ~file.bad /\ req.off <= Len(Named.data)
          /\ file'.pos = req.off /\ file'.bad = file.bad
      BY <1>3, <1>4, <2>1
    <3>2. req.op = "write" =>
            /\ req.off = 0 /\ ~file.bad => card[Name] = File(<<>>)
            /\ req.off # 0 /\ again => card[Name] = before[Name]
      BY <1>1 DEF IInv, Writing, Writes
    <3> QED BY <1>1, <1>2, <1>13, <2>1, <3>1, <3>2 DEF Writing, Name, Writes
  <2>2. CASE pc' = "close"
    BY <1>1, <1>2, <1>13, <2>2 DEF Writing, Name, Writes
  <2> QED BY <1>7, <2>1, <2>2
<1>15. Kept'
  <2> SUFFICES ASSUME pc' = "close", rc' = "einval", again PROVE card = before
    BY <1>2, <1>4, <1>7 DEF Kept
  <2>1. CASE req.op = "write"
    <3>1. Named \in Entry
      BY <1>1, NamedIs
    <3>2. req.off # 0
      BY <1>4, <3>1, Entries, Unprimed, <1>1
    <3>3. card[Name] = before[Name]
      BY <1>1, <2>1, <3>2 DEF IInv, Writing, Writes
    <3>4. \A p \in Path \ {Name} : card[p] = before[p]
      BY <1>1, <2>1 DEF IInv, Apart
    <3> QED BY <1>1, <3>3, <3>4, SameCard
  <2>2. CASE req.op # "write"
    BY <1>1, <2>2 DEF IInv, Untouched, Change
  <2> QED BY <2>1, <2>2
<1>16. Finished' /\ Settled'
  BY <1>4 DEF Finished, Settled
<1>17. AgainDone'
  BY <1>1, <1>2 DEF IInv, AgainDone, Repeatable
<1> QED BY <1>6, <1>8, <1>9, <1>10, <1>11, <1>12, <1>14, <1>15, <1>16, <1>17 DEF IInv

LEMMA ReadUpToIs ==
  ASSUME Types, NEW want \in Nat, NEW x \in ReadUpTo(want)
  PROVE  Len(x) \in Nat /\ Len(x) <= want
<1> DEFINE d == Named.data
           left == Len(d) - file.pos
<1>1. d \in Seq(Unit) /\ Len(d) \in Nat /\ file.pos \in Nat
  BY NamedIs, Entries, Unprimed
<1> HIDE DEF d
<1>2. CASE x = <<>>
  BY <1>2
<1>3. CASE x # <<>>
  <2>1. PICK n \in 1 .. Least(want, left) : x = SubSeq(d, file.pos + 1, file.pos + n)
    BY <1>3 DEF ReadUpTo, d
  <2>2. n \in Nat /\ 1 <= n /\ n <= want /\ n <= left
    BY <1>1 DEF Least
  <2>3. \A k \in file.pos + 1 .. file.pos + n : d[k] \in Unit
    BY <1>1, <2>2
  <2>4. Len(x) = IF file.pos + 1 <= file.pos + n
                 THEN ((file.pos + n) - (file.pos + 1)) + 1 ELSE 0
    BY <1>1, <2>1, <2>2, <2>3, SubSeqProperties
  <2>5. Len(x) = n
    BY <1>1, <2>2, <2>4
  <2> QED BY <2>2, <2>5
<1> QED BY <1>2, <1>3

LEMMA ReadKeeps == IInv /\ ReadLoop => IInv'
<1> SUFFICES ASSUME IInv, ReadLoop PROVE IInv'
  OBVIOUS
<1>1. /\ pc = "io" /\ Types /\ req.op \in {"read", "peek"} /\ total <= Cap
      /\ rc = "ok" /\ Accepts(req) /\ ~lost /\ card = before
  BY DEF IInv, ReadLoop, At, Starts, Calm, Untouched, Change
<1>2. /\ card' = card /\ req' = req /\ before' = before /\ again' = again /\ lost' = lost
      /\ seen' = seen /\ answer' = answer
  BY DEF ReadLoop, host
<1>3. Cap \in Nat /\ Cap <= Room /\ Cap' = Cap /\ Room' = Room
  BY <1>1, <1>2, Unprimed, SdCardAssumption DEF Cap, Room, Least
<1>4. /\ total' \in 0 .. Cap
      /\ DOMAIN rsp' = 1 .. RspCap /\ DOMAIN sd_dma_buf' = 1 .. StageCap
      /\ file' \in [open : BOOLEAN, pos : Nat, bad : BOOLEAN, dirty : BOOLEAN]
      /\ file'.dirty = file.dirty
      /\ (pc' \in {"close", "io"} /\ rc' = rc) \/ (pc' = "close" /\ rc' = "disk")
  <2>1. /\ total \in Nat /\ DOMAIN rsp = 1 .. RspCap /\ DOMAIN sd_dma_buf = 1 .. StageCap
        /\ file \in [open : BOOLEAN, pos : Nat, bad : BOOLEAN, dirty : BOOLEAN]
    BY <1>1, Unprimed
  <2>2. ASSUME NEW x \in ReadUpTo(Cap - total),
               IF req.op = "peek" THEN sd_dma_buf' = Put(sd_dma_buf, total, x) /\ rsp' = rsp
                                  ELSE rsp' = Put(rsp, total, x) /\ sd_dma_buf' = sd_dma_buf,
               total' = total + Len(x), file' = [file EXCEPT !.pos = @ + Len(x)],
               pc' \in {"close", "io"}, rc' = rc
        PROVE  <1>4!1 /\ <1>4!2 /\ <1>4!3 /\ <1>4!4 /\ <1>4!5
    <3>1. Cap - total \in Nat
      BY <1>1, <1>3, <2>1
    <3>2. Len(x) \in Nat /\ Len(x) <= Cap - total
      BY <1>1, <3>1, ReadUpToIs
    <3>3. total + Len(x) \in 0 .. Cap /\ file.pos + Len(x) \in Nat
      BY <1>3, <2>1, <3>2
    <3>4. DOMAIN rsp' = 1 .. RspCap /\ DOMAIN sd_dma_buf' = 1 .. StageCap
      BY <2>1, <2>2, PutDomain
    <3> QED BY <2>1, <2>2, <3>3, <3>4
  <2>3. CASE IoFails /\ UNCHANGED <<total, rsp, sd_dma_buf>>
    <3>1. total' \in 0 .. Cap /\ rsp' = rsp /\ sd_dma_buf' = sd_dma_buf
      BY <1>1, <1>3, <2>1, <2>3
    <3>2. pc' = "close" /\ rc' = "disk" /\ file' = [file EXCEPT !.bad = TRUE]
      BY <2>3 DEF IoFails, FailTo
    <3>3. /\ file' \in [open : BOOLEAN, pos : Nat, bad : BOOLEAN, dirty : BOOLEAN]
          /\ file'.dirty = file.dirty
      BY <2>1, <3>2
    <3> QED BY <2>1, <3>1, <3>2, <3>3
  <2> QED BY <2>2, <2>3 DEF ReadLoop, Goto, Advance
<1>5. Types'
  <2>1. pc' \in Label /\ rc' \in Code
    BY <1>1, <1>4 DEF Label, Code
  <2>2. total' \in 0 .. Room'
    BY <1>1, <1>3, <1>4, Unprimed
  <2> QED BY <1>1, <1>2, <1>4, <2>1, <2>2, Unprimed, TypesPrime
<1>6. Labels' /\ Handle' /\ Starts' /\ Calm'
  BY <1>1, <1>2, <1>3, <1>4 DEF IInv, Labels, Handle, Starts, Calm, OnFile, Writes
<1>7. Staged' /\ Apart' /\ Untouched' /\ Writing'
  BY <1>1, <1>2, <1>4 DEF Staged, Apart, Untouched, Writing, Name, Writes
<1>8. Finished' /\ Settled' /\ Kept' /\ AgainDone'
  BY <1>1, <1>2, <1>4 DEF Finished, Settled, Kept, AgainDone, Done
<1> QED BY <1>5, <1>6, <1>7, <1>8 DEF IInv

LEMMA ChecksumKeeps == IInv /\ ChecksumLoop => IInv'
<1> SUFFICES ASSUME IInv, ChecksumLoop PROVE IInv'
  OBVIOUS
<1>1. /\ pc = "io" /\ Types /\ req.op = "checksum"
      /\ rc = "ok" /\ Accepts(req) /\ ~lost /\ card = before
  BY DEF IInv, ChecksumLoop, At, Calm, Untouched, Change
<1>2. /\ card' = card /\ req' = req /\ before' = before /\ again' = again /\ lost' = lost
      /\ total' = total /\ answer' = answer /\ rsp' = rsp /\ sd_dma_buf' = sd_dma_buf
  BY DEF ChecksumLoop, host
<1>3. /\ file' \in [open : BOOLEAN, pos : Nat, bad : BOOLEAN, dirty : BOOLEAN]
      /\ file'.dirty = file.dirty
      /\ (pc' \in {"close", "io"} /\ rc' = rc) \/ (pc' = "close" /\ rc' = "disk")
  <2>1. file \in [open : BOOLEAN, pos : Nat, bad : BOOLEAN, dirty : BOOLEAN]
    BY <1>1, Unprimed
  <2>2. ASSUME NEW x \in ReadUpTo(ChunkCap), file' = [file EXCEPT !.pos = @ + Len(x)],
               pc' \in {"close", "io"}, rc' = rc
        PROVE  <1>3!1 /\ <1>3!2 /\ <1>3!3
    <3>1. Len(x) \in Nat
      BY <1>1, SdFilesAssumption, ReadUpToIs
    <3>2. file.pos + Len(x) \in Nat
      BY <2>1, <3>1
    <3> QED BY <2>1, <2>2, <3>2
  <2>3. CASE IoFails
    BY <1>1, <2>1, <2>3 DEF IoFails, FailTo
  <2> QED BY <2>2, <2>3 DEF ChecksumLoop, Goto, Advance
<1>4. Types'
  <2>1. pc' \in Label /\ rc' \in Code
    BY <1>1, <1>3 DEF Label, Code
  <2>2. Room' = Room
    BY <1>2 DEF Room
  <2> QED BY <1>1, <1>2, <1>3, <2>1, <2>2, Unprimed, TypesPrime
<1>5. Labels' /\ Handle' /\ Starts' /\ Calm'
  BY <1>1, <1>2, <1>3 DEF IInv, Labels, Handle, Starts, Calm, OnFile, Writes
<1>6. Staged' /\ Apart' /\ Untouched' /\ Writing'
  BY <1>1, <1>2, <1>3 DEF Staged, Apart, Untouched, Writing, Name, Writes
<1>7. Finished' /\ Settled' /\ Kept' /\ AgainDone'
  BY <1>1, <1>2, <1>3 DEF Finished, Settled, Kept, AgainDone, Done
<1> QED BY <1>4, <1>5, <1>6, <1>7 DEF IInv

LEMMA WholeSubSeq ==
  ASSUME NEW T, NEW x \in Seq(T)
  PROVE  SubSeq(x, 1, Len(x)) = x
<1> DEFINE y == SubSeq(x, 1, Len(x))
<1>1. \A k \in 1 .. Len(x) : x[k] \in T
  OBVIOUS
<1>2. /\ y \in Seq(T) /\ Len(y) = (IF 1 <= Len(x) THEN (Len(x) - 1) + 1 ELSE 0)
      /\ \A k \in 1 .. (Len(x) - 1) + 1 : y[k] = x[(1 + k) - 1]
  BY <1>1, SubSeqProperties
<1> HIDE DEF y
<1>3. Len(y) = Len(x)
  BY <1>2
<1>4. \A k \in 1 .. Len(y) : y[k] = x[k]
  BY <1>2, <1>3
<1>5. y = x
  BY <1>2, <1>3, <1>4, SeqEqual
<1> QED BY <1>5 DEF y

LEMMA PartSubSeq ==
  ASSUME NEW T, NEW x \in Seq(T), NEW n \in 0 .. Len(x)
  PROVE  SubSeq(x, 1, n) \in Seq(T)
<1>1. n \in Nat /\ \A k \in 1 .. n : x[k] \in T
  OBVIOUS
<1> QED BY <1>1, SubSeqProperties

\* What fs_write leaves: the file with x in it, or an error.
LEMMA FsWriteIs ==
  ASSUME Types, Name \in Path, card[Name].type = "file",
         file.bad \/ file.pos <= Len(card[Name].data),
         NEW x \in Seq(Unit), NEW w, FsWrite(x, w)
  PROVE  /\ card' \in [Path -> Entry] /\ card'[Name].type = "file"
         /\ \A p \in Path \ {Name} : card'[p] = card[p]
         /\ file' \in [open : BOOLEAN, pos : Nat, bad : BOOLEAN, dirty : BOOLEAN]
         /\ \/ /\ ~file.bad /\ pc' = w /\ rc' = rc
               /\ card'[Name] = File(Overlay(card[Name].data, file.pos, x))
               /\ ~file'.bad /\ file'.pos = file.pos + Len(x)
            \/ pc' = "close" /\ rc' \in {"eio", "disk"}
<1> DEFINE d == card[Name].data
           FileType == [open : BOOLEAN, pos : Nat, bad : BOOLEAN, dirty : BOOLEAN]
<1>1. card \in [Path -> Entry] /\ file \in FileType /\ d \in Seq(Unit) /\ Named = card[Name]
  BY NamedIs, Entries, Unprimed
<1>2. CASE file.bad /\ IoFails /\ card' = card
  <2>1. file' = [file EXCEPT !.bad = TRUE] /\ pc' = "close" /\ rc' = "disk"
    BY <1>2 DEF IoFails, FailTo
  <2>2. file' \in FileType
    BY <1>1, <2>1
  <2> QED BY <1>1, <1>2, <2>1, <2>2
<1>3. ASSUME ~file.bad, NEW n \in 0 .. Len(x),
             SetNamed(File(Overlay(Named.data, file.pos, SubSeq(x, 1, n)))),
             \/ n = Len(x) /\ pc' = w /\ rc' = rc
                  /\ file' = [file EXCEPT !.pos = @ + n, !.dirty = TRUE]
             \/ n < Len(x) /\ pc' = "close" /\ rc' = "eio"
                  /\ file' = [file EXCEPT !.pos = @ + n, !.dirty = TRUE]
             \/ pc' = "close" /\ rc' = "disk"
                  /\ file' = [file EXCEPT !.bad = TRUE, !.dirty = TRUE]
      PROVE  /\ card' \in [Path -> Entry] /\ card'[Name].type = "file"
             /\ \A p \in Path \ {Name} : card'[p] = card[p]
             /\ file' \in FileType
             /\ \/ /\ ~file.bad /\ pc' = w /\ rc' = rc
                   /\ card'[Name] = File(Overlay(d, file.pos, x))
                   /\ ~file'.bad /\ file'.pos = file.pos + Len(x)
                \/ pc' = "close" /\ rc' \in {"eio", "disk"}
  <2> DEFINE y == SubSeq(x, 1, n)
             o == Overlay(d, file.pos, y)
  <2>1. y \in Seq(Unit) /\ file.pos \in 0 .. Len(d)
    BY <1>1, <1>3, PartSubSeq
  <2>2. o \in Seq(Unit)
    BY <1>1, <2>1, OverlayIs
  <2>3. File(o) \in Entry /\ File(o).type = "file" /\ SetNamed(File(o))
    <3>1. SetNamed(File(o))
      BY <1>1, <1>3
    <3>2. File(o) \in Entry /\ File(o).type = "file"
      BY <2>2, Entries DEF File
    <3> QED BY <3>1, <3>2
  <2>4. n = Len(x) => y = x
    BY WholeSubSeq
  <2>5. n \in Nat /\ file.pos + n \in Nat
    BY <1>1
  <2>6. n = Len(x) => o = Overlay(d, file.pos, x)
    BY <2>4
  <2> HIDE DEF o, y, d
  <2>7. /\ card' \in [Path -> Entry] /\ card'[Name] = File(o)
        /\ \A p \in Path \ {Name} : card'[p] = card[p]
    BY <2>3, SetNamedIs
  <2>8. card'[Name].type = "file"
    BY <2>3, <2>7
  <2>9. CASE n = Len(x) /\ pc' = w /\ rc' = rc
               /\ file' = [file EXCEPT !.pos = @ + n, !.dirty = TRUE]
    <3>1. file' \in FileType /\ file'.bad = file.bad /\ file'.pos = file.pos + Len(x)
      BY <1>1, <2>5, <2>9
    <3>2. card'[Name] = File(Overlay(d, file.pos, x))
      BY <2>6, <2>7, <2>9
    <3> QED BY <1>3, <2>7, <2>8, <2>9, <3>1, <3>2
  <2>10. CASE pc' = "close" /\ rc' = "eio"
               /\ file' = [file EXCEPT !.pos = @ + n, !.dirty = TRUE]
    <3>1. file' \in FileType
      BY <1>1, <2>5, <2>10
    <3> QED BY <2>7, <2>8, <2>10, <3>1
  <2>11. CASE pc' = "close" /\ rc' = "disk"
               /\ file' = [file EXCEPT !.bad = TRUE, !.dirty = TRUE]
    <3>1. file' \in FileType
      BY <1>1, <2>11
    <3> QED BY <2>7, <2>8, <2>11, <3>1
  <2> QED BY <1>3, <2>9, <2>10, <2>11
<1> QED BY <1>2, <1>3 DEF FsWrite, Goto, FailTo

LEMMA WriteKeeps == IInv /\ WriteOnce => IInv'
<1> SUFFICES ASSUME IInv, WriteOnce PROVE IInv'
  OBVIOUS
<1> DEFINE d == card[Name].data
           x == Stuff(req)
           o == Overlay(d, req.off, x)
<1>1. /\ pc = "io" /\ Types /\ req.op = "write" /\ rc = "ok" /\ Accepts(req) /\ ~lost
      /\ sd_dma_buf = Stage(req)
  BY DEF IInv, WriteOnce, At, Calm, Staged
<1>2. /\ req' = req /\ before' = before /\ again' = again /\ lost' = lost
      /\ total' = total /\ answer' = answer /\ rsp' = rsp /\ sd_dma_buf' = sd_dma_buf
  BY DEF WriteOnce, host
<1>3. /\ Name \in Path /\ card[Name].type = "file"
      /\ ~file.bad /\ file.pos = req.off /\ req.off <= Len(d)
      /\ req.off = 0 => card[Name] = File(<<>>)
      /\ req.off # 0 /\ again => card[Name] = before[Name]
  BY <1>1 DEF IInv, Writing, Writes
<1>4. /\ req \in Request /\ req.off \in Nat /\ req.len \in Nat /\ req.len <= StageCap
      /\ card \in [Path -> Entry] /\ before \in [Path -> Entry]
  BY <1>1, Unprimed DEF Accepts
<1>5. x \in Seq(Unit) /\ Len(x) = req.len
  BY <1>4, StuffType
<1>6. d \in Seq(Unit)
  BY <1>3, <1>4, Entries
<1>7. FsWrite(x, "close")
  BY <1>1 DEF WriteOnce, Stuff
<1> HIDE DEF x, o, d
<1>8. /\ card' \in [Path -> Entry] /\ card'[Name].type = "file"
      /\ \A p \in Path \ {Name} : card'[p] = card[p]
      /\ file' \in [open : BOOLEAN, pos : Nat, bad : BOOLEAN, dirty : BOOLEAN]
      /\ pc' = "close"
      /\ (rc' = rc /\ card'[Name] = File(o)) \/ rc' \in {"eio", "disk"}
  BY <1>1, <1>3, <1>5, <1>7, FsWriteIs DEF d, o
<1>9. Types'
  <2>1. Room' = Room
    BY <1>2 DEF Room
  <2>2. pc' \in Label /\ rc' \in Code
    BY <1>1, <1>8 DEF Label, Code
  <2> QED BY <1>1, <1>2, <1>8, <2>1, <2>2, Unprimed, TypesPrime
<1>10. Labels' /\ Handle' /\ Starts' /\ Calm'
  BY <1>1, <1>2, <1>8 DEF Labels, Handle, Starts, Calm, OnFile, Writes
<1>11. Staged'
  BY <1>1, <1>2 DEF Staged
<1>12. \A p \in Path \ {Name} : card'[p] = before[p]
  BY <1>1, <1>8 DEF IInv, Apart
<1>13. Apart' /\ Untouched'
  BY <1>1, <1>2, <1>8, <1>12 DEF Apart, Untouched, Name, Change
<1>14. Writing' /\ Settled'
  BY <1>1, <1>2, <1>3, <1>8 DEF Writing, Settled, Name, Writes
<1>15. req.off = 0 => o = x
  BY <1>3, <1>5, OverlayNothing DEF o, d, File
<1>16. Finished'
  <2> SUFFICES ASSUME rc' = "ok" PROVE Done(req, card')
    BY <1>2 DEF Finished
  <2>1. card'[Name] = File(o)
    BY <1>8
  <2>2. card'[Name].data = o
    BY <2>1 DEF File
  <2>3. req.off \in 0 .. Len(d)
    BY <1>3, <1>4, <1>6
  <2>4. req.off + Len(x) <= Len(o) /\ \A k \in 1 .. Len(x) : o[req.off + k] = x[k]
    BY <1>5, <1>6, <2>3, OverlayHolds DEF o
  <2> QED BY <1>1, <1>3, <1>5, <1>8, <1>15, <2>2, <2>4 DEF Done, Name, x
<1>17. Kept'
  <2> SUFFICES ASSUME again, rc' = "ok" PROVE card' = before
    BY <1>1, <1>2, <1>8 DEF Kept
  <2> DEFINE b == before[Name].data
  <2>1. Done(req, before)
    BY <1>1 DEF IInv, AgainDone, Repeatable
  <2>2. /\ before[Name].type = "file" /\ req.off + Len(x) <= Len(b)
        /\ \A k \in 1 .. Len(x) : b[req.off + k] = x[k]
        /\ req.off = 0 => b = x
    BY <1>1, <1>5, <2>1 DEF Done, Name, x
  <2>3. b \in Seq(Unit) /\ before[Name] = File(b)
    BY <1>3, <1>4, <2>2, Entries
  <2> HIDE DEF b
  <2>4. o = b
    <3>1. CASE req.off = 0
      BY <1>15, <2>2, <3>1
    <3>2. CASE req.off # 0
      <4>1. d = b
        BY <1>3, <3>2 DEF d, b
      <4> QED BY <1>4, <1>5, <2>2, <2>3, <4>1, OverlayOfItself DEF o
    <3> QED BY <3>1, <3>2
  <2>5. card'[Name] = before[Name]
    BY <1>8, <2>3, <2>4
  <2>6. \A p \in Path : card'[p] = before[p]
    BY <1>12, <2>5
  <2> QED BY <1>4, <1>8, <2>6
<1>18. AgainDone'
  BY <1>1, <1>2 DEF IInv, AgainDone, Repeatable
<1> QED BY <1>9, <1>10, <1>11, <1>13, <1>14, <1>16, <1>17, <1>18 DEF IInv

LEMMA FillKeeps == IInv /\ FillLoop => IInv'
<1> SUFFICES ASSUME IInv, FillLoop PROVE IInv'
  OBVIOUS
<1> DEFINE n == Least(req.len - total, FillCap)
           x == [k \in 1 .. n |-> Xorshift(req.seed, total + k)]
<1>1. /\ pc = "io" /\ Types /\ req.op = "fill" /\ rc = "ok" /\ Accepts(req) /\ ~lost
  BY DEF IInv, FillLoop, At, Calm
<1>2. /\ req' = req /\ before' = before /\ again' = again /\ lost' = lost
      /\ answer' = answer /\ rsp' = rsp /\ sd_dma_buf' = sd_dma_buf
  BY DEF FillLoop, host
<1>3. /\ Name \in Path /\ card[Name].type = "file"
      /\ IF file.bad THEN total = 0
         ELSE file.pos = total /\ card[Name] = File(Pattern(req, total))
  BY <1>1 DEF IInv, Writing, Writes
<1>4. /\ req \in Request /\ req.len \in Nat /\ total \in Nat /\ total <= req.len
      /\ card \in [Path -> Entry] /\ before \in [Path -> Entry]
      /\ file \in [open : BOOLEAN, pos : Nat, bad : BOOLEAN, dirty : BOOLEAN]
  <2>1. total \in 0 .. req.len
    BY <1>1, Unprimed DEF Room
  <2> QED BY <1>1, <2>1, Unprimed
<1>5. Room = req.len /\ Room' = req.len
  BY <1>1, <1>2 DEF Room
<1>6. n \in Nat /\ n <= req.len - total /\ (n = 0 => total = req.len)
  BY <1>4, SdFilesAssumption DEF Least
<1>7. \A p \in Path \ {Name} : card[p] = before[p]
  BY <1>1 DEF IInv, Apart
<1>8. AgainDone'
  BY <1>1, <1>2 DEF IInv, AgainDone, Repeatable
<1>9. Staged'
  BY <1>1, <1>2 DEF Staged
<1>10. \/ n = 0 /\ pc' = "close" /\ card' = card /\ rc' = rc /\ file' = file /\ total' = total
       \/ n # 0 /\ FsWrite(x, "io") /\ total' = total + n
  BY DEF FillLoop, Goto
<1> HIDE DEF n, x
<1>11. CASE n = 0 /\ pc' = "close" /\ card' = card /\ rc' = rc /\ file' = file /\ total' = total
  <2>1. Types'
    BY <1>1, <1>2, <1>5, <1>11, Unprimed, TypesPrime DEF Label
  <2>2. Labels' /\ Handle' /\ Starts' /\ Calm'
    BY <1>1, <1>2, <1>11 DEF IInv, Labels, Handle, Starts, Calm, OnFile, Writes
  <2>3. Apart' /\ Untouched' /\ Writing' /\ Settled'
    BY <1>1, <1>2, <1>3, <1>7, <1>11
    DEF Apart, Untouched, Writing, Settled, Name, Change, Writes
  <2>4. req.len # 0 => card[Name] = File(Pattern(req, req.len))
    BY <1>3, <1>6, <1>11
  <2>5. Finished'
    BY <1>1, <1>2, <1>3, <1>11, <2>4 DEF Finished, Repeatable, Done, Name
  <2>6. Kept'
    <3> SUFFICES ASSUME again, req.len # 0 PROVE card = before
      BY <1>1, <1>2, <1>11 DEF Kept, Repeatable
    <3>1. Done(req, before)
      BY <1>1 DEF IInv, AgainDone, Repeatable
    <3>2. before[Name] = File(Pattern(req, req.len))
      BY <1>1, <3>1 DEF Done, Name
    <3> QED BY <1>1, <1>7, <2>4, <3>2, SameCard
  <2> QED BY <1>8, <1>9, <2>1, <2>2, <2>3, <2>5, <2>6 DEF IInv
<1>12. CASE n # 0 /\ FsWrite(x, "io") /\ total' = total + n
  <2>1. x \in Seq(Unit)
    <3>1. \A k \in 1 .. n : Xorshift(req.seed, total + k) \in Unit
      BY <1>4, <1>6, Units
    <3>2. x \in [1 .. n -> Unit]
      BY <3>1 DEF x
    <3> QED BY <1>6, <3>2
  <2>2. Len(x) = n
    BY <1>6 DEF x
  <2>3. file.bad \/ card[Name].data = Pattern(req, total)
    BY <1>3 DEF File
  <2>4. Len(Pattern(req, total)) = total
    BY <1>4, PatternType
  <2>5. file.bad \/ file.pos <= Len(card[Name].data)
    BY <1>3, <1>4, <2>3, <2>4
  <2>6. Overlay(Pattern(req, total), total, x) = Pattern(req, total + n)
    BY <1>4, <1>6, PatternGrows DEF x
  <2>7. /\ card' \in [Path -> Entry] /\ card'[Name].type = "file"
        /\ \A p \in Path \ {Name} : card'[p] = card[p]
        /\ file' \in [open : BOOLEAN, pos : Nat, bad : BOOLEAN, dirty : BOOLEAN]
        /\ \/ /\ ~file.bad /\ pc' = "io" /\ rc' = rc
              /\ card'[Name] = File(Overlay(card[Name].data, file.pos, x))
              /\ ~file'.bad /\ file'.pos = file.pos + Len(x)
           \/ pc' = "close" /\ rc' \in {"eio", "disk"}
    BY <1>1, <1>3, <1>12, <2>1, <2>5, FsWriteIs
  <2>8. \/ /\ pc' = "io" /\ rc' = rc /\ card'[Name] = File(Pattern(req, total + n))
           /\ ~file'.bad /\ file'.pos = total + n
        \/ pc' = "close" /\ rc' \in {"eio", "disk"}
    BY <1>3, <2>2, <2>3, <2>6, <2>7
  <2>9. Types'
    <3>1. total' \in 0 .. Room'
      BY <1>4, <1>5, <1>6, <1>12
    <3>2. pc' \in Label /\ rc' \in Code
      BY <1>1, <2>8 DEF Label, Code
    <3> QED BY <1>1, <1>2, <2>7, <3>1, <3>2, Unprimed, TypesPrime
  <2>10. Labels' /\ Handle' /\ Starts' /\ Calm'
    BY <1>1, <1>2, <2>8 DEF Labels, Handle, Starts, Calm, OnFile, Writes
  <2>11. Apart' /\ Untouched'
    BY <1>1, <1>2, <1>7, <2>7, <2>8 DEF Apart, Untouched, Name, Change
  <2>12. Writing'
    BY <1>1, <1>2, <1>3, <1>12, <2>7, <2>8 DEF Writing, Name, Writes
  <2>13. Finished' /\ Settled' /\ Kept'
    BY <2>8 DEF Finished, Settled, Kept
  <2> QED BY <1>8, <1>9, <2>9, <2>10, <2>11, <2>12, <2>13 DEF IInv
<1> QED BY <1>10, <1>11, <1>12

LEMMA DamagedIsEntry ==
  ASSUME NEW d \in Seq(Unit), NEW f \in Damaged(d)
  PROVE  f \in Entry
<1>1. CASE f = File(<<Junk>>)
  <2>1. <<Junk>> \in Seq(Unit)
    BY Units
  <2> QED BY <1>1, <2>1, Entries
<1>2. ASSUME NEW n \in 0 .. Len(d), f = File(SubSeq(d, 1, n))
      PROVE  f \in Entry
  BY <1>2, PartSubSeq, Entries
<1> QED BY <1>1, <1>2 DEF Damaged

LEMMA CloseKeeps == IInv /\ Close => IInv'
<1> SUFFICES ASSUME IInv, Close PROVE IInv'
  OBVIOUS
<1>1. /\ pc = "close" /\ Types /\ req.op \in OnFile /\ Accepts(req) /\ ~lost
  BY DEF IInv, Close, At, Labels, Calm
<1>2. /\ req' = req /\ before' = before /\ again' = again /\ rc' = rc /\ pc' = "reply"
      /\ total' = total /\ seen' = seen /\ rsp' = rsp /\ sd_dma_buf' = sd_dma_buf
      /\ answer' = answer /\ file' = Closed
  BY DEF Close, Goto, host
<1>3. /\ Closed \in [open : BOOLEAN, pos : Nat, bad : BOOLEAN, dirty : BOOLEAN]
      /\ ~Closed.dirty
  BY DEF Closed
<1>4. \/ card' = card /\ lost' = lost
      \/ /\ Writes /\ lost' /\ lost' \in BOOLEAN /\ card' \in [Path -> Entry]
         /\ \A p \in Path \ {Name} : card'[p] = card[p]
  <2>1. ASSUME file.dirty, lost' = TRUE, NEW f \in Damaged(Named.data), SetNamed(f)
        PROVE  /\ Writes /\ card' \in [Path -> Entry]
               /\ \A p \in Path \ {Name} : card'[p] = card[p]
    <3>1. Named.data \in Seq(Unit)
      BY <1>1, NamedIs, Entries
    <3>2. f \in Entry
      BY <3>1, DamagedIsEntry
    <3>3. Writes
      BY <2>1 DEF IInv, Handle
    <3> QED BY <1>1, <2>1, <3>2, <3>3, SetNamedIs
  <2> QED BY <2>1 DEF Close
<1>5. Types'
  <2>1. Room' = Room
    BY <1>2 DEF Room
  <2>2. pc' \in Label
    BY <1>2 DEF Label
  <2>3. card' \in [Path -> Entry] /\ lost' \in BOOLEAN
    BY <1>1, <1>4, Unprimed
  <2> QED BY <1>1, <1>2, <1>3, <2>1, <2>2, <2>3, Unprimed, TypesPrime
<1>6. Labels' /\ Handle' /\ Starts' /\ Calm' /\ Staged'
  BY <1>1, <1>2, <1>3 DEF Labels, Handle, Starts, Calm, Staged, OnFile
<1>7. Apart'
  BY <1>1, <1>2, <1>4 DEF IInv, Apart, Name
<1>8. Untouched'
  <2>1. CASE card' = card
    BY <1>1, <1>2, <2>1 DEF IInv, Untouched
  <2>2. CASE Writes
    BY <1>2, <2>2 DEF Untouched, Writes, Change
  <2> QED BY <1>4, <2>1, <2>2
<1>9. Writing' /\ Settled'
  BY <1>2 DEF Writing, Settled
<1>10. Finished' /\ Kept'
  <2>1. CASE card' = card /\ lost' = lost
    BY <1>1, <1>2, <2>1 DEF IInv, Finished, Kept, Repeatable
  <2>2. CASE lost'
    BY <2>2 DEF Finished, Kept
  <2> QED BY <1>4, <2>1, <2>2
<1>11. AgainDone'
  BY <1>1, <1>2 DEF IInv, AgainDone, Repeatable
<1> QED BY <1>5, <1>6, <1>7, <1>8, <1>9, <1>10, <1>11 DEF IInv

LEMMA OpenDirKeeps == IInv /\ OpenDir => IInv'
<1> SUFFICES ASSUME IInv, OpenDir PROVE IInv'
  OBVIOUS
<1>1. /\ pc = "opendir" /\ Types /\ req.op = "list" /\ file = Closed /\ total = 0
      /\ rc = "ok" /\ Accepts(req) /\ ~lost /\ card = before
  BY DEF IInv, OpenDir, At, Labels, Handle, Starts, Calm, Untouched, Change
<1>2. /\ card' = card /\ req' = req /\ before' = before /\ again' = again /\ lost' = lost
      /\ file' = file /\ total' = total /\ rsp' = rsp
      /\ sd_dma_buf' = sd_dma_buf /\ answer' = answer
      /\ (pc' = "readdir" /\ rc' = rc) \/ (pc' = "reply" /\ rc' \in {"enoent", "disk"})
  BY DEF OpenDir, Goto, FailTo, work, host
<1>3. Types'
  <2>1. Room' = Room
    BY <1>2 DEF Room
  <2>2. pc' \in Label /\ rc' \in Code
    BY <1>1, <1>2 DEF Label, Code
  <2> QED BY <1>1, <1>2, <2>1, <2>2, Unprimed, TypesPrime
<1>4. Labels' /\ Handle' /\ Starts' /\ Calm' /\ Staged'
  BY <1>1, <1>2 DEF Labels, Handle, Starts, Calm, Staged, Closed
<1>5. Apart' /\ Untouched' /\ Writing'
  BY <1>1, <1>2 DEF Apart, Untouched, Writing, Name, Writes
<1>6. Finished' /\ Settled' /\ Kept' /\ AgainDone'
  BY <1>1, <1>2 DEF Finished, Settled, Kept, AgainDone, Done
<1> QED BY <1>3, <1>4, <1>5, <1>6 DEF IInv

LEMMA ReadDirKeeps == IInv /\ ReadDir => IInv'
<1> SUFFICES ASSUME IInv, ReadDir PROVE IInv'
  OBVIOUS
<1>1. /\ pc = "readdir" /\ Types /\ req.op = "list" /\ file = Closed
      /\ rc = "ok" /\ Accepts(req) /\ ~lost /\ card = before
  BY DEF IInv, ReadDir, At, Labels, Handle, Calm, Untouched, Change
<1>2. /\ card' = card /\ req' = req /\ before' = before /\ again' = again /\ lost' = lost
      /\ file' = file /\ rsp' = rsp /\ answer' = answer
  BY DEF ReadDir, host
<1>3. Room = StageCap /\ Room' = StageCap
  BY <1>1, <1>2 DEF Room
<1>4. /\ total' \in 0 .. StageCap /\ DOMAIN sd_dma_buf' = 1 .. StageCap
      /\ (pc' \in {"readdir", "reply"} /\ rc' = rc)
           \/ (pc' = "reply" /\ rc' \in {"enospc", "disk"})
  <2>1. /\ total \in Nat /\ total \in 0 .. StageCap /\ DOMAIN sd_dma_buf = 1 .. StageCap
        /\ StageCap \in Nat
    BY <1>1, <1>3, Unprimed, SdCardAssumption
  <2>2. ASSUME NEW p \in Unlisted, ~(total + Len(Line(p, card[p])) > StageCap),
               sd_dma_buf' = Put(sd_dma_buf, total, Line(p, card[p])),
               total' = total + Len(Line(p, card[p]))
        PROVE  total' \in 0 .. StageCap /\ DOMAIN sd_dma_buf' = 1 .. StageCap
    <3>1. Len(Line(p, card[p])) \in Nat
      BY DEF Line
    <3>2. total' \in 0 .. StageCap
      BY <2>1, <2>2, <3>1
    <3>3. DOMAIN sd_dma_buf' = 1 .. StageCap
      BY <2>1, <2>2, PutDomain
    <3> QED BY <3>2, <3>3
  <2>3. CASE pc' = "reply" /\ rc' = rc /\ total' = total /\ sd_dma_buf' = sd_dma_buf
    BY <2>1, <2>3
  <2>4. CASE pc' = "reply" /\ rc' \in {"enospc", "disk"} /\ total' = total
               /\ sd_dma_buf' = sd_dma_buf
    BY <2>1, <2>4
  <2>5. ASSUME NEW p \in Unlisted,
               IF total + Len(Line(p, card[p])) > StageCap
               THEN /\ pc' = "reply" /\ rc' = "enospc" /\ total' = total
                    /\ sd_dma_buf' = sd_dma_buf
               ELSE /\ sd_dma_buf' = Put(sd_dma_buf, total, Line(p, card[p]))
                    /\ total' = total + Len(Line(p, card[p]))
                    /\ pc' = pc /\ rc' = rc
        PROVE  <1>4
    BY <1>1, <2>1, <2>2, <2>5
  <2> QED BY <2>3, <2>4, <2>5 DEF ReadDir, Goto, FailTo
<1>5. Types'
  <2>1. pc' \in Label /\ rc' \in Code
    BY <1>1, <1>4 DEF Label, Code
  <2> QED BY <1>1, <1>2, <1>3, <1>4, <2>1, Unprimed, TypesPrime
<1>6. Labels' /\ Handle' /\ Starts' /\ Calm' /\ Staged'
  BY <1>1, <1>2, <1>4 DEF Labels, Handle, Starts, Calm, Staged, Closed
<1>7. Apart' /\ Untouched' /\ Writing'
  BY <1>1, <1>2, <1>4 DEF Apart, Untouched, Writing, Name, Writes
<1>8. Finished' /\ Settled' /\ Kept' /\ AgainDone'
  BY <1>1, <1>2, <1>4 DEF Finished, Settled, Kept, AgainDone, Done
<1> QED BY <1>5, <1>6, <1>7, <1>8 DEF IInv

LEMMA PathCallKeeps == IInv /\ PathCall => IInv'
<1> SUFFICES ASSUME IInv, PathCall PROVE IInv'
  OBVIOUS
<1>1. /\ pc = "path" /\ Types /\ req.op \in {"rename", "delete", "mkdir", "stat"}
      /\ file = Closed /\ total = 0 /\ rc = "ok" /\ Accepts(req) /\ ~lost /\ card = before
  BY DEF IInv, PathCall, At, Labels, Handle, Starts, Calm, Untouched
<1>2. /\ req' = req /\ before' = before /\ again' = again /\ lost' = lost /\ pc' = "reply"
      /\ file' = file /\ total' = total /\ rsp' = rsp
      /\ sd_dma_buf' = sd_dma_buf /\ answer' = answer
  BY DEF PathCall, Goto, work, host
<1>3. card \in [Path -> Entry] /\ before \in [Path -> Entry]
  BY <1>1, Unprimed
<1>4. card' \in [Path -> Entry] /\ rc' \in Code
      /\ (req.op # "rename" => \A p \in Path \ {Name} : card'[p] = card[p])
  <2>1. rc \in Code /\ {"enoent", "eexist", "disk"} \subseteq Code
    BY <1>1 DEF Code
  <2>2. CASE req.op = "rename" /\ Rename
    <3>1. Name \in Path /\ Absent \in Entry
      BY <1>1, <2>2, Names, Entries
    <3>2. Renamed \in [Path -> Entry]
      BY <1>3, <3>1 DEF Renamed
    <3>3. card[Name] \in Entry
      BY <1>3, <3>1
    <3>4. [Renamed EXCEPT ![Join(req.to)] = card[Name], ![Name] = Absent] \in [Path -> Entry]
      BY <3>1, <3>2, <3>3
    <3> QED BY <1>3, <2>1, <2>2, <3>2, <3>4 DEF Rename, Name
  <2>3. CASE req.op = "mkdir" /\ Mkdir
    BY <1>1, <1>3, <2>1, <2>3, Entries, SetNamedIs DEF Mkdir
  <2>4. CASE req.op = "delete" /\ Delete
    BY <1>1, <1>3, <2>1, <2>4, Entries, SetNamedIs DEF Delete
  <2>5. CASE req.op = "stat" /\ Stat
    BY <1>1, <1>3, <2>1, <2>5 DEF Stat
  <2> QED BY <2>2, <2>3, <2>4, <2>5 DEF PathCall
<1>5. Types'
  <2>1. Room' = Room
    BY <1>2 DEF Room
  <2>2. pc' \in Label
    BY <1>2 DEF Label
  <2> QED BY <1>1, <1>2, <1>4, <2>1, <2>2, Unprimed, TypesPrime
<1>6. Labels' /\ Handle' /\ Starts' /\ Calm' /\ Staged'
  BY <1>1, <1>2 DEF Labels, Handle, Starts, Calm, Staged, Closed
<1>7. Apart'
  BY <1>1, <1>2, <1>4 DEF Apart, Name
<1>8. Untouched'
  <2>1. CASE req.op = "stat"
    BY <1>1, <1>2, <2>1 DEF PathCall, Stat, Untouched
  <2>2. CASE req.op # "stat"
    BY <1>1, <1>2, <2>2 DEF Untouched, Change
  <2> QED BY <2>1, <2>2
<1>9. Writing' /\ Settled'
  BY <1>2 DEF Writing, Settled
<1>10. Finished'
  <2> SUFFICES ASSUME rc' = "ok", req.op # "rename" PROVE Done(req, card')
    BY <1>2 DEF Finished, Repeatable
  <2>1. CASE req.op = "mkdir"
    <3>1. Named.type = "none" /\ SetNamed(Dir)
      BY <2>1 DEF PathCall, Mkdir
    <3>2. Name \in Path /\ card'[Name] = Dir
      BY <1>1, <3>1, NamedIs, SetNamedIs, Entries
    <3> QED BY <2>1, <3>2 DEF Done, Name, Dir
  <2>2. CASE req.op = "delete"
    <3>1. SetNamed(Absent)
      BY <2>2 DEF PathCall, Delete
    <3>2. Name \in Path /\ card'[Name] = Absent
      BY <1>1, <2>2, <3>1, Names, SetNamedIs, Entries
    <3> QED BY <2>2, <3>2 DEF Done, Name
  <2>3. CASE req.op = "stat"
    BY <2>3 DEF Done
  <2> QED BY <1>1, <2>1, <2>2, <2>3
<1>11. Kept'
  <2> SUFFICES ASSUME again, rc' # "disk", req.op # "rename" PROVE card' = before
    BY <1>2 DEF Kept, Repeatable
  <2>1. Done(req, card)
    BY <1>1 DEF IInv, AgainDone, Repeatable
  <2>2. CASE req.op = "mkdir"
    <3>1. Name \in Path /\ card[Name].type # "none"
      BY <2>1, <2>2 DEF Done, Name
    <3>2. Named.type # "none"
      BY <1>1, <3>1, NamedIs
    <3> QED BY <1>1, <2>2, <3>2 DEF PathCall, Mkdir
  <2>3. CASE req.op = "delete"
    <3>1. Name \in Path /\ card[Name].type = "none"
      BY <2>1, <2>3 DEF Done, Name, Absent
    <3>2. Named.type = "none"
      BY <1>1, <3>1, NamedIs
    <3> QED BY <1>1, <2>3, <3>2 DEF PathCall, Delete
  <2>4. CASE req.op = "stat"
    BY <1>1, <2>4 DEF PathCall, Stat
  <2> QED BY <1>1, <2>2, <2>3, <2>4
<1>12. AgainDone'
  BY <1>1, <1>2 DEF IInv, AgainDone, Repeatable
<1> QED BY <1>5, <1>6, <1>7, <1>8, <1>9, <1>10, <1>11, <1>12 DEF IInv

LEMMA ReplyKeeps == IInv /\ Reply => IInv'
<1> SUFFICES ASSUME IInv, Reply PROVE IInv'
  OBVIOUS
<1>1. pc = "reply" /\ Types /\ file = Closed
  BY DEF IInv, Reply, At, Handle
<1>2. /\ card' = card /\ req' = req /\ before' = before /\ again' = again /\ lost' = lost
      /\ file' = file /\ total' = total /\ rsp' = rsp /\ sd_dma_buf' = sd_dma_buf
      /\ rc' = rc /\ pc' = "idle"
      /\ answer'.req = <<req>> /\ answer'.rc = rc /\ answer'.lost = lost
  BY DEF Reply, Goto, work
<1>3. Types'
  <2>1. Room' = Room
    BY <1>2 DEF Room
  <2>2. pc' \in Label
    BY <1>2 DEF Label
  <2> QED BY <1>1, <1>2, <2>1, <2>2, Unprimed, TypesPrime
<1>4. Labels' /\ Handle' /\ Starts' /\ Calm' /\ Staged'
  BY <1>1, <1>2 DEF Labels, Handle, Starts, Calm, Staged, Closed
<1>5. Apart' /\ Untouched' /\ Writing' /\ Finished' /\ AgainDone' /\ Kept'
  BY <1>2 DEF Apart, Untouched, Writing, Finished, AgainDone, Kept
<1>6. Settled'
  BY <1>1, <1>2 DEF IInv, Finished, Settled, Repeatable
<1> QED BY <1>3, <1>4, <1>5, <1>6 DEF IInv

LEMMA StutterKeeps == IInv /\ UNCHANGED vars => IInv'
<1> SUFFICES ASSUME IInv, UNCHANGED vars PROVE IInv'
  OBVIOUS
<1>1. /\ card' = card /\ req' = req /\ before' = before /\ again' = again /\ lost' = lost
      /\ file' = file /\ total' = total /\ seen' = seen /\ rsp' = rsp
      /\ sd_dma_buf' = sd_dma_buf /\ rc' = rc /\ pc' = pc /\ answer' = answer
  BY DEF vars, work, host
<1>2. Types' /\ Labels' /\ Handle' /\ Starts'
  BY <1>1 DEF IInv, Types, TypeOK, Room, Labels, Handle, Closed, Writes, Starts, Cap
<1>3. Calm' /\ Staged' /\ Apart' /\ Untouched'
  BY <1>1 DEF IInv, Calm, Staged, Apart, Untouched, Name
<1>4. Writing'
  BY <1>1 DEF IInv, Writing, Writes, Name
<1>5. Finished' /\ Settled' /\ AgainDone' /\ Kept'
  BY <1>1 DEF IInv, Finished, Settled, AgainDone, Kept, Repeatable
<1> QED BY <1>2, <1>3, <1>4, <1>5 DEF IInv

-----------------------------------------------------------------------------
(* The theorems.                                                           *)

\* What is listed above IInv holds in every state of the handlers.
THEOREM Invariance == Spec => []IInv
<1>1. Init => IInv
  BY InitIInv
<1>2. IInv /\ [Next]_vars => IInv'
  BY ReceiveKeeps, MountKeeps, RawKeeps, UnlinkKeeps, OpenKeeps, TruncateKeeps, SeekKeeps,
     ReadKeeps, ChecksumKeeps, WriteKeeps, FillKeeps, CloseKeeps, OpenDirKeeps, ReadDirKeeps,
     PathCallKeeps, ReplyKeeps, StutterKeeps DEF Next, Serve
<1> QED BY <1>1, <1>2, PTL DEF Spec

\* No handler counts past the room it has for an answer (read_file, list_dir,
\* sd_fill_pattern), and card, buffers and error codes are as declared.
THEOREM SdTypeCorrect == Spec => []TypeOK
<1>1. IInv => TypeOK
  BY DEF IInv, Types
<1> QED BY <1>1, Invariance, PTL

\* Every way out of sd_ops closes the file it opened, for any requests, any
\* sizes of the buffers and any failures.
THEOREM FilesAreClosed == Spec => []NoHandleLeft
<1>1. IInv => NoHandleLeft
  BY DEF IInv, Handle, NoHandleLeft, Closed
<1> QED BY <1>1, Invariance, PTL

\* A command the host retries after it has succeeded leaves the card as it is,
\* whatever offset and length it names, unless the disk fails.
THEOREM RepetitionIsHarmless == Spec => []RepeatChangesNothing
<1>1. IInv => RepeatChangesNothing
  BY DEF IInv, Kept, RepeatChangesNothing
<1> QED BY <1>1, Invariance, PTL

\* Between commands, what the last one was asked for is on the card, if its
\* answer is 0 and the file system could save it.
THEOREM SuccessIsDone == Spec => []Settled
<1>1. IInv => Settled
  BY DEF IInv
<1> QED BY <1>1, Invariance, PTL
=============================================================================
