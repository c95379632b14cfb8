----------------------------- MODULE FileStore ------------------------------
(***************************************************************************)
(* What a caller may expect of the SD commands: each either has exactly    *)
(* the effect and the answer docs/PROTOCOL.md lists for it, or fails and   *)
(* leaves at most its own file damaged, in one of the ways below.          *)
(***************************************************************************)
EXTENDS SdCard, FiniteSets

LOCAL INSTANCE SequencesExt

VARIABLES
  store,   \* what is on the card
  answer   \* to the last request: the request, rc, data, and whether the
           \* file system failed to save the file, which no rc tells

NoAnswer == [req |-> <<>>, rc |-> "none", data |-> <<>>, lost |-> FALSE]

Init == store = [p \in Path |-> Absent] /\ answer = NoAnswer

Present == {p \in Path : store[p].type # "none"}

\* What the request's name stands for.
Named(r) == IF Join(r.name) = Root THEN Dir ELSE store[Join(r.name)]

\* The request is well formed and names what the command needs.
Possible(r) ==
  LET f == Named(r)
  IN  /\ r.nul  \* or, of a sector, all of its number
      /\ CASE r.op = "list" -> f.type = "dir"
           [] r.op \in {"read", "peek"} -> f.type = "file" /\ r.off <= Len(f.data)
           [] r.op = "write" -> /\ f.type # "dir" /\ r.off <= Len(f.data)
                                /\ r.len <= Len(r.data) /\ r.len <= StageCap
           [] r.op = "fill" -> f.type # "dir"
           [] r.op = "rename" -> f.type # "none" /\ Join(r.name) # Join(r.to)
           [] r.op = "mkdir" -> f.type = "none"
           [] r.op = "checksum" -> f.type = "file"
           [] r.op = "rawread" -> TRUE
           [] OTHER -> f.type # "none"

\* The first n units a write or a fill puts into its file.
Content(r, n) ==
  IF r.op = "write" THEN SubSeq(r.data, 1, n) ELSE [i \in 1 .. n |-> Xorshift(r.seed, i)]

\* The file when n of them are in it.
Holding(r, n) ==
  IF r.off = 0 THEN File(Content(r, n))
  ELSE File(Overlay(Named(r).data, r.off, Content(r, n)))

\* The card with the named path holding f.
With(r, f) == [store EXCEPT ![Join(r.name)] = f]

Effect(r) ==
  CASE r.op \in {"write", "fill"} -> With(r, Holding(r, r.len))
    [] r.op = "rename" -> [With(r, Absent) EXCEPT ![Join(r.to)] = Named(r)]
    [] r.op = "delete" -> With(r, Absent)
    [] r.op = "mkdir" -> With(r, Dir)
    [] OTHER -> store

\* What the answer may carry; a listing comes in any order.
Answers(r) ==
  LET f == Named(r)
      Slice(n) == SubSeq(f.data, r.off + 1, Least(Len(f.data), r.off + n))
      listed == IF Join(r.name) = Root THEN Present ELSE {}
  IN  CASE r.op = "read" -> {Slice(Least(r.len, RspCap))}
        [] r.op = "peek" -> {Slice(Least(r.len, StageCap))}
        [] r.op = "rawread" -> {SubSeq(Sector(r.off), 1, Least(SectorLen, StageCap))}
        [] r.op = "stat" -> {<< <<"size", Len(f.data)>>, <<"dir", f.type = "dir">> >>}
        [] r.op = "checksum" -> {<< <<"crc", UseIeee(r.name), f.data>> >>}
        [] r.op = "list" ->
             {FlattenSeq([i \in DOMAIN s |-> Line(s[i], store[s[i]])]) :
                s \in {t \in [1 .. Cardinality(listed) -> listed] :
                         \A i, j \in DOMAIN t : t[i] = t[j] => i = j}}
        [] OTHER -> {<<>>}

\* What a command that fails may leave: a file written at its start gone or cut
\* short, a file created but not written, the target of a rename removed.
Damage(r) ==
  LET f == Named(r)
  IN  {store} \cup
      CASE r.op \in {"write", "fill"} /\ Possible(r) ->
             {With(r, Holding(r, n)) : n \in 0 .. r.len}
             \cup {With(r, g) : g \in IF r.op = "write" /\ r.off = 0 THEN {Absent} ELSE {}}
        [] r.op = "write" /\ f.type = "none" -> {With(r, File(<<>>))}
        [] r.op = "rename" -> {[store EXCEPT ![Join(r.to)] = Absent]}
        [] OTHER -> {}

-----------------------------------------------------------------------------
\* The caller asks; what it learnt before is over.
Ask == answer' = NoAnswer /\ UNCHANGED store

Succeed(r) ==
  /\ Possible(r)
  /\ store' = Effect(r)
  /\ \E d \in Answers(r) : answer' = [req |-> <<r>>, rc |-> "ok", data |-> d, lost |-> FALSE]

\* A possible command fails only if the disk does, the card is full, or a
\* listing does not fit.
Reasons(r) ==
  {"disk", "eio"} \cup
    CASE ~Possible(r) -> {"einval", "enoent", "eexist", "denied"}
      [] r.op = "list" /\ \E d \in Answers(r) : Len(d) > StageCap -> {"enospc"}
      [] OTHER -> {}

Fail(r) ==
  /\ store' \in Damage(r)
  /\ \E e \in Reasons(r) :
       answer' = [req |-> <<r>>, rc |-> e, data |-> <<>>, lost |-> FALSE]

\* The file system could not save the file, and whatever rc says it is cut
\* short, before or after the change, or holds what nobody wrote.
Unsaved(r) ==
  /\ r.op \in {"write", "fill"} /\ Possible(r)
  /\ \E f \in {Named(r)} \cup {Holding(r, n) : n \in 0 .. r.len} \cup {File(<<Junk>>)} :
       \E n \in 0 .. Len(f.data) : store' = With(r, File(SubSeq(f.data, 1, n)))
  /\ \E e \in {"ok", "eio", "disk"} :
       answer' = [req |-> <<r>>, rc |-> e, data |-> <<>>, lost |-> TRUE]

\* A fill of nothing has no write that would fail after a file was not cut.
Uncut(r) ==
  /\ r.op = "fill" /\ r.len = 0 /\ Possible(r)
  /\ UNCHANGED store
  /\ answer' = [req |-> <<r>>, rc |-> "ok", data |-> <<>>, lost |-> FALSE]

Next == Ask \/ \E r \in Request : Succeed(r) \/ Fail(r) \/ Unsaved(r) \/ Uncut(r)

Spec == Init /\ [][Next]_<<store, answer>>
=============================================================================
