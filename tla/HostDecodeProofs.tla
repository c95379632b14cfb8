-------------------------- MODULE HostDecodeProofs --------------------------
(***************************************************************************)
(* Both readers of the frame format, for every magic whose first byte does *)
(* not occur again, every checksum, every size of pbuf and every line.     *)
(***************************************************************************)
EXTENDS HostDecode, SequenceTheorems, NaturalsInduction, WellFoundedInduction, TLAPS

\* The magic stands at j in s.
Stands(s, j) == \A k \in 1 .. Len(Magic) : s[(j + k) - 1] = Magic[k]

-----------------------------------------------------------------------------
(* The first magic in a sequence.                                          *)

LEMMA Least ==
  ASSUME NEW S \in SUBSET Nat, S # {}
  PROVE  Min(S) \in S /\ \A y \in S : Min(S) <= y
<1>1. IsWellFoundedOn(OpToRel(<, Nat), Nat)
  BY NatLessThanWellFounded
<1>2. PICK x \in S : \A y \in S : ~ (<<y, x>> \in OpToRel(<, Nat))
  BY <1>1, WFMin
<1>3. \A y \in S : ~(y < x)
  BY <1>2 DEF OpToRel
<1>4. \A y \in S : x <= y
  BY <1>3
<1> QED BY <1>4 DEF Min

\* Where the magic stands, byte by byte.
LEMMA StandsMeans ==
  ASSUME NEW s \in Seq(Byte), NEW j \in Nat \ {0}, j <= (Len(s) - Len(Magic)) + 1
  PROVE  SubSeq(s, j, j + Len(Magic) - 1) = Magic <=> Stands(s, j)
<1> DEFINE L == Len(Magic)
           sub == SubSeq(s, j, j + L - 1)
<1>1. L \in Nat /\ L > 0 /\ Magic \in Seq(Byte)
  BY StreamParserAssumption
<1>2. \A k \in j .. j + L - 1 : s[k] \in Byte
  BY <1>1
<1>3. /\ sub \in Seq(Byte) /\ Len(sub) = L
      /\ \A k \in 1 .. L : sub[k] = s[j + k - 1]
  BY <1>1, <1>2, SubSeqProperties
<1> HIDE DEF sub
<1>4. ASSUME Stands(s, j) PROVE sub = Magic
  <2>1. \A k \in 1 .. L : sub[k] = Magic[k]
    BY <1>3, <1>4 DEF Stands
  <2> QED BY <2>1, <1>1, <1>3, SeqEqual
<1>5. ASSUME sub = Magic PROVE Stands(s, j)
  BY <1>1, <1>3, <1>5 DEF Stands
<1> QED BY <1>4, <1>5 DEF sub

LEMMA FirstMagic ==
  ASSUME NEW s \in Seq(Byte), NEW i \in Nat \ {0}
  PROVE  LET m == MagicAt(s, i)  last == (Len(s) - Len(Magic)) + 1
         IN  \/ m = 0 /\ \A j \in i .. last : ~Stands(s, j)
             \/ m \in i .. last /\ Stands(s, m) /\ \A j \in i .. m - 1 : ~Stands(s, j)
<1> DEFINE last == (Len(s) - Len(Magic)) + 1
           at == {j \in i .. last : SubSeq(s, j, j + Len(Magic) - 1) = Magic}
<1>0. Len(s) \in Nat /\ Len(Magic) \in Nat /\ last \in Int
  BY StreamParserAssumption
<1>1. at = {j \in i .. last : Stands(s, j)}
  <2>1. ASSUME NEW j \in i .. last
        PROVE  SubSeq(s, j, j + Len(Magic) - 1) = Magic <=> Stands(s, j)
    <3>1. j \in Nat \ {0} /\ j <= last
      BY <1>0
    <3> QED BY <3>1, StandsMeans
  <2> QED BY <2>1
<1>2. MagicAt(s, i) = IF at = {} THEN 0 ELSE Min(at)
  BY DEF MagicAt
<1> HIDE DEF at
<1>3. CASE at = {}
  BY <1>1, <1>2, <1>3
<1>4. CASE at # {}
  <2>1. at \in SUBSET Nat
    BY <1>0, <1>1
  <2>2. Min(at) \in at /\ \A y \in at : Min(at) <= y
    BY <2>1, <1>4, Least
  <2>3. \A j \in i .. Min(at) - 1 : ~Stands(s, j)
    BY <2>1, <2>2, <1>0, <1>1
  <2> QED BY <2>2, <2>3, <1>1, <1>2, <1>4
<1> QED BY <1>3, <1>4

\* Another byte moves no magic, and makes at most one: at the very end.
LEMMA MagicGrows ==
  ASSUME NEW s \in Seq(Byte), NEW b \in Byte, NEW i \in Nat \ {0}
  PROVE  LET t == Append(s, b)
             last == (Len(t) - Len(Magic)) + 1
         IN  MagicAt(t, i) = IF MagicAt(s, i) # 0 THEN MagicAt(s, i)
                             ELSE IF i <= last /\ Stands(t, last) THEN last ELSE 0
<1> DEFINE t == Append(s, b)
           last == (Len(t) - Len(Magic)) + 1
<1>0. Len(s) \in Nat /\ Len(Magic) \in Nat /\ t \in Seq(Byte) /\ Len(t) = Len(s) + 1
  BY StreamParserAssumption
<1>1. \A j \in i .. last - 1 : Stands(t, j) <=> Stands(s, j)
  <2>1. \A k \in 1 .. Len(s) : t[k] = s[k]
    OBVIOUS
  <2> HIDE DEF t
  <2>2. ASSUME NEW j \in i .. last - 1, NEW k \in 1 .. Len(Magic) PROVE t[(j + k) - 1] = s[(j + k) - 1]
    BY <1>0, <2>1
  <2> QED BY <2>2 DEF Stands
<1> HIDE DEF t
<1>2. /\ \/ MagicAt(s, i) = 0 /\ \A j \in i .. last - 1 : ~Stands(s, j)
         \/ /\ MagicAt(s, i) \in i .. last - 1 /\ Stands(s, MagicAt(s, i))
            /\ \A j \in i .. MagicAt(s, i) - 1 : ~Stands(s, j)
  BY <1>0, FirstMagic
<1>3. \/ MagicAt(t, i) = 0 /\ \A j \in i .. last : ~Stands(t, j)
      \/ /\ MagicAt(t, i) \in i .. last /\ Stands(t, MagicAt(t, i))
         /\ \A j \in i .. MagicAt(t, i) - 1 : ~Stands(t, j)
  BY <1>0, FirstMagic
<1> QED BY <1>0, <1>1, <1>2, <1>3 DEF t

-----------------------------------------------------------------------------
(* Headers of another version, one after the other.                        *)

\* The search that begins at j in s meets a whole header of another version.
Skips(s, j) ==
  LET h == MagicAt(s, j) + Len(Magic)
  IN  MagicAt(s, j) # 0 /\ h + HdrLen <= Len(s) + 1 /\ s[h] # Version

\* Where it goes on.
Beyond(s, j) == MagicAt(s, j) + Len(Magic) + HdrLen

\* Begun at the start, it comes by i.
Reached(s, i) ==
  \A S \in SUBSET Nat : 1 \in S /\ (\A j \in S : Skips(s, j) => Beyond(s, j) \in S) => i \in S

LEMMA ReachedStart == ASSUME NEW s PROVE Reached(s, 1)
  BY DEF Reached

LEMMA ReachedNext ==
  ASSUME NEW s, NEW i, Reached(s, i), Skips(s, i) PROVE Reached(s, Beyond(s, i))
  BY DEF Reached

LEMMA ReachedGrows ==
  ASSUME NEW s \in Seq(Byte), NEW b \in Byte, NEW i, Reached(s, i)
  PROVE  Reached(Append(s, b), i)
<1> DEFINE t == Append(s, b)
<1>1. SUFFICES ASSUME NEW S \in SUBSET Nat, 1 \in S,
                      \A j \in S : Skips(t, j) => Beyond(t, j) \in S
               PROVE  i \in S
  BY DEF Reached
<1> DEFINE R == S \ {0}
<1>2. ASSUME NEW j \in R, Skips(s, j) PROVE Beyond(s, j) \in R
  <2>0. Len(s) \in Nat /\ Len(Magic) \in Nat /\ j \in Nat \ {0} /\ Len(t) = Len(s) + 1
    BY StreamParserAssumption
  <2>1. MagicAt(t, j) = MagicAt(s, j)
    BY <1>2, <2>0, MagicGrows DEF Skips
  <2>2. MagicAt(s, j) \in Nat \ {0}
    BY <1>2, <2>0, FirstMagic DEF Skips
  <2>3. t[MagicAt(s, j) + Len(Magic)] = s[MagicAt(s, j) + Len(Magic)]
    BY <1>2, <2>0, <2>2 DEF Skips, HdrLen
  <2> HIDE DEF t
  <2>4. Skips(t, j)
    BY <1>2, <2>0, <2>1, <2>2, <2>3 DEF Skips, HdrLen
  <2>5. Beyond(t, j) \in S
    BY <1>1, <2>4
  <2> QED BY <2>0, <2>1, <2>2, <2>5 DEF Beyond, HdrLen
<1>3. 1 \in R /\ R \in SUBSET Nat
  <2>1. 1 \in S /\ S \subseteq Nat
    BY <1>1
  <2> QED BY <2>1
<1>4. i \in R
  <2> HIDE DEF R
  <2> QED BY <1>2, <1>3 DEF Reached
<1> QED BY <1>4

\* HeaderAt's recursion has a solution, and so is what it says.
LEMMA HeaderUnfolds ==
  ASSUME NEW s \in Seq(Byte)
  PROVE  \E f : /\ HeaderAt(s) = f[1]
                /\ \A i \in 1 .. Len(s) + 1 :
                     f[i] = LET h == MagicAt(s, i) + Len(Magic)
                            IN  IF MagicAt(s, i) = 0 \/ h > Len(s) THEN 0
                                ELSE IF s[h] = Version \/ h + HdrLen > Len(s) + 1 THEN h
                                ELSE f[h + HdrLen]
<1> DEFINE n == Len(s)
           D == 1 .. n + 1
           Step(f, i) == LET h == MagicAt(s, i) + Len(Magic)
                         IN  IF MagicAt(s, i) = 0 \/ h > n THEN 0
                             ELSE IF s[h] = Version \/ h + HdrLen > n + 1 THEN h
                             ELSE f[h + HdrLen]
           Def(f) == f = [i \in D |-> Step(f, i)]
           From(k) == \E f : \A i \in D : i + k > n + 1 => f[i] = Step(f, i)
           Bad == {k \in Nat : ~From(k)}
<1>0. n \in Nat /\ Len(Magic) \in Nat /\ Len(Magic) > 0
  BY StreamParserAssumption
<1>1. \A i \in D : MagicAt(s, i) = 0 \/ MagicAt(s, i) \in i .. n
  BY <1>0, FirstMagic
<1> HIDE DEF n
<1>2. From(0)
  BY <1>0
<1>3. ASSUME NEW k \in Nat, From(k), k <= n PROVE From(k + 1)
  <2>1. PICK f : \A i \in D : i + k > n + 1 => f[i] = Step(f, i)
    BY <1>3
  <2> DEFINE j == (n + 1) - k
             g == [i \in D |-> IF i = j THEN Step(f, j) ELSE f[i]]
  <2>2. \A i \in D : i > j => i + k > n + 1
    BY <1>0, <1>3
  <2>3. j \in D
    BY <1>0, <1>3
  <2>4. ASSUME NEW i \in D, i >= j PROVE Step(g, i) = Step(f, i)
    <3> DEFINE h == MagicAt(s, i) + Len(Magic)
    <3>1. CASE MagicAt(s, i) = 0 \/ h > n \/ s[h] = Version \/ h + HdrLen > n + 1
      BY <3>1
    <3>2. CASE ~(MagicAt(s, i) = 0 \/ h > n \/ s[h] = Version \/ h + HdrLen > n + 1)
      <4>1. h + HdrLen \in D /\ h + HdrLen > j
        BY <3>2, <2>4, <2>3, <1>0, <1>1 DEF HdrLen
      <4>2. g[h + HdrLen] = f[h + HdrLen]
        BY <4>1, <2>3
      <4> QED BY <4>2
    <3> QED BY <3>1, <3>2
  <2>5. ASSUME NEW i \in D, i + (k + 1) > n + 1 PROVE g[i] = Step(g, i)
    <3>1. i >= j
      BY <2>5, <1>0, <1>3
    <3>2. Step(g, i) = Step(f, i)
      BY <3>1, <2>4
    <3>3. g[i] = Step(f, i)
      <4> HIDE DEF Step
      <4>1. CASE i = j
        BY <4>1
      <4>2. CASE i # j
        <5>1. i + k > n + 1
          BY <4>2, <3>1, <1>0, <1>3
        <5> QED BY <4>2, <5>1, <2>1
      <4> QED BY <4>1, <4>2
    <3> HIDE DEF g, Step
    <3> QED BY <3>2, <3>3
  <2> HIDE DEF g, Step
  <2> QED BY <2>5
<1>4. From(n + 1)
  <2> SUFFICES ASSUME ~From(n + 1) PROVE FALSE
    OBVIOUS
  <2> HIDE DEF From
  <2>1. n + 1 \in Bad /\ Bad \in SUBSET Nat
    BY <1>0
  <2>2. Min(Bad) \in Bad /\ \A y \in Bad : Min(Bad) <= y
    BY <2>1, Least
  <2> DEFINE m == Min(Bad)
  <2>3. m \in Nat /\ ~From(m) /\ m <= n + 1
    BY <2>1, <2>2
  <2> HIDE DEF m
  <2>4. m # 0
    BY <2>3, <1>2
  <2>5. m - 1 \in Nat /\ m - 1 <= n /\ (m - 1) + 1 = m
    BY <2>3, <2>4, <1>0
  <2>6. From(m - 1)
    BY <2>2, <2>5 DEF m
  <2> QED BY <2>3, <2>5, <2>6, <1>3
<1>5. PICK f : \A i \in D : f[i] = Step(f, i)
  <2>1. \A i \in D : i + (n + 1) > n + 1
    BY <1>0
  <2> HIDE DEF Step
  <2> QED BY <1>4, <2>1
<1> DEFINE g == [i \in D |-> f[i]]
<1>6. ASSUME NEW i \in D PROVE Step(g, i) = Step(f, i)
  <2> DEFINE h == MagicAt(s, i) + Len(Magic)
  <2>1. CASE MagicAt(s, i) = 0 \/ h > n \/ s[h] = Version \/ h + HdrLen > n + 1
    BY <2>1
  <2>2. CASE ~(MagicAt(s, i) = 0 \/ h > n \/ s[h] = Version \/ h + HdrLen > n + 1)
    <3>1. h + HdrLen \in D
      BY <2>2, <1>0, <1>1 DEF HdrLen
    <3> QED BY <3>1
  <2> QED BY <2>1, <2>2
<1>7. Def(g)
  <2> HIDE DEF Step
  <2>1. \A i \in D : g[i] = Step(g, i)
    BY <1>5, <1>6
  <2> QED BY <2>1
<1> DEFINE from == CHOOSE e : Def(e)
<1>8. Def(from)
  <2> HIDE DEF Def
  <2> QED BY <1>7
<1>9. HeaderAt(s) = from[1]
  BY DEF HeaderAt, n
<1>10. \A i \in D : from[i] = Step(from, i)
  <2> HIDE DEF from
  <2>1. from = [i \in D |-> Step(from, i)]
    BY <1>8
  <2> HIDE DEF Step
  <2> QED BY <2>1
<1> HIDE DEF from
<1> QED BY <1>9, <1>10 DEF n

\* What the whole-string reading finds where the search has come to.
LEMMA HeaderFound ==
  ASSUME NEW s \in Seq(Byte), NEW i \in 1 .. Len(s) + 1, Reached(s, i)
  PROVE  LET h == MagicAt(s, i) + Len(Magic)
         IN  /\ MagicAt(s, i) = 0 \/ h > Len(s) => HeaderAt(s) = 0
             /\ MagicAt(s, i) # 0 /\ h <= Len(s) /\ (s[h] = Version \/ h + HdrLen > Len(s) + 1)
                  => HeaderAt(s) = h
<1> DEFINE D == 1 .. Len(s) + 1
<1>0. Len(s) \in Nat /\ Len(Magic) \in Nat
  BY StreamParserAssumption
<1>1. PICK f : /\ HeaderAt(s) = f[1]
               /\ \A j \in D :
                    f[j] = LET h == MagicAt(s, j) + Len(Magic)
                           IN  IF MagicAt(s, j) = 0 \/ h > Len(s) THEN 0
                               ELSE IF s[h] = Version \/ h + HdrLen > Len(s) + 1 THEN h
                               ELSE f[h + HdrLen]
  BY HeaderUnfolds
<1> DEFINE S == {j \in D : f[j] = f[1]}
<1>2. ASSUME NEW j \in S, Skips(s, j) PROVE Beyond(s, j) \in S
  <2>1. MagicAt(s, j) \in Nat \ {0}
    BY <1>2, <1>0, FirstMagic DEF Skips
  <2>2. Beyond(s, j) \in D
    BY <1>2, <2>1, <1>0 DEF Skips, Beyond, HdrLen
  <2>3. f[j] = f[Beyond(s, j)]
    BY <1>1, <1>2, <2>1, <1>0 DEF Skips, Beyond, HdrLen
  <2> QED BY <2>2, <2>3
<1>3. 1 \in S /\ S \in SUBSET Nat
  BY <1>0
<1>4. i \in S
  <2> HIDE DEF S
  <2> QED BY <1>2, <1>3 DEF Reached
<1>5. HeaderAt(s) = f[i]
  BY <1>1, <1>4
<1> DEFINE h == MagicAt(s, i) + Len(Magic)
<1>6. f[i] = IF MagicAt(s, i) = 0 \/ h > Len(s) THEN 0
             ELSE IF s[h] = Version \/ h + HdrLen > Len(s) + 1 THEN h
             ELSE f[h + HdrLen]
  BY <1>1
<1>7. MagicAt(s, i) \in Nat
  BY <1>0, FirstMagic
<1> QED BY <1>0, <1>5, <1>6, <1>7

-----------------------------------------------------------------------------
(* Where the parser is in the line.                                        *)

\* The bytes fed since the last frame ended: a frame that has ended leaves none.
Line == IF ended THEN <<>> ELSE seg

\* acc holds the last bytes of s from i on, behind what it held before those.
Window(s, i, acc) ==
  \E old \in {Magic, NoMagic} : \A k \in 1 .. Len(Magic) :
    LET p == (Len(s) + k) - Len(Magic)
    IN  acc[k] = IF p >= i THEN s[p] ELSE old[(p + Len(Magic) + 1) - i]

Searching(i) == state = 0 /\ MagicAt(Line, i) = 0 /\ Window(Line, i, magic_acc)

InHeader(i) ==
  LET h == MagicAt(Line, i) + Len(Magic)
  IN  /\ state = 1 /\ MagicAt(Line, i) # 0 /\ magic_acc = Magic
      /\ h + Len(hdr) = Len(Line) + 1 /\ Len(hdr) < HdrLen
      /\ hdr = SubSeq(Line, h, Len(Line))

\* The header that ends before h + HdrLen in s, what of the payload the checksum
\* has taken, and what of it pbuf holds as long as it can hold it all.
HeaderText(s, h) == hdr = SubSeq(s, h, h + 3) /\ hdr \in Seq(Byte)
HeaderFields == hdr[1] = Version /\ payload_len = hdr[3] /\ crc_expect = hdr[4]
Summed(s, h) == crc_acc = SubSeq(s, h, h + 2) \o SubSeq(s, h + 4, Len(s))
Stored(s, h) ==
  payload_pos <= PbufSize =>
    payload_pos <= Len(pbuf) /\ SubSeq(pbuf, 1, payload_pos) = SubSeq(s, h + 4, Len(s))

InPayload(i) ==
  LET h == MagicAt(Line, i) + Len(Magic)
  IN  /\ state = 2 /\ MagicAt(Line, i) # 0
      /\ Len(Line) = h + 3 + payload_pos /\ payload_pos < payload_len
      /\ HeaderText(Line, h) /\ HeaderFields /\ Summed(Line, h) /\ Stored(Line, h)

\* The search has come to some place of the line, and the parser is where one
\* that began there would be.
Placed ==
  \E i \in 1 .. Len(Line) + 1 :
    Reached(Line, i) /\ (Searching(i) \/ InHeader(i) \/ InPayload(i))

\* A message was delivered with the frame that the whole-string reading finds.
Framed ==
  delivered # <<>> =>
    \E p \in 1 .. Len(seg) : Stands(seg, p) /\ HeaderAt(seg) = p + Len(Magic)

IInv ==
  /\ TypeOK /\ Placed /\ Framed
  /\ ended => state = 0 /\ magic_acc = NoMagic /\ MatchesReference
  /\ ~ended => delivered = <<>>

-----------------------------------------------------------------------------
(* The types, which rest on where the parser is.                           *)

LEMMA LineType == TypeOK => Line \in Seq(Byte)
  BY DEF TypeOK, Line

LEMMA SubType ==
  ASSUME NEW s \in Seq(Byte), NEW m \in Nat \ {0}, NEW n \in 0 .. Len(s)
  PROVE  /\ SubSeq(s, m, n) \in Seq(Byte)
         /\ Len(SubSeq(s, m, n)) = IF m <= n THEN (n - m) + 1 ELSE 0
         /\ \A k \in 1 .. (n - m) + 1 : SubSeq(s, m, n)[k] = s[(m + k) - 1]
<1>1. \A k \in m .. n : s[k] \in Byte
  OBVIOUS
<1> QED BY <1>1, SubSeqProperties

\* A byte more, in the cuts a step takes from the line.
LEMMA SubGrows ==
  ASSUME NEW s \in Seq(Byte), NEW b \in Byte, NEW m \in 1 .. Len(s) + 1
  PROVE  /\ SubSeq(Append(s, b), m, Len(s) + 1) = Append(SubSeq(s, m, Len(s)), b)
         /\ \A n \in 0 .. Len(s) : SubSeq(Append(s, b), m, n) = SubSeq(s, m, n)
<1> DEFINE t == Append(s, b)
<1>0. t \in Seq(Byte) /\ Len(t) = Len(s) + 1 /\ Len(s) \in Nat /\ t[Len(s) + 1] = b
  OBVIOUS
<1>1. \A k \in 1 .. Len(s) : t[k] = s[k]
  OBVIOUS
<1> HIDE DEF t
<1>2. SubSeq(t, m, Len(s) + 1) = Append(SubSeq(s, m, Len(s)), b)
  <2> DEFINE u == SubSeq(t, m, Len(s) + 1)
             v == SubSeq(s, m, Len(s))
  <2>1. /\ u \in Seq(Byte) /\ Len(u) = (Len(s) + 2) - m
        /\ \A k \in 1 .. (Len(s) + 2) - m : u[k] = t[(m + k) - 1]
    BY <1>0, SubType
  <2>2. /\ v \in Seq(Byte) /\ Len(v) = (Len(s) + 1) - m
        /\ \A k \in 1 .. (Len(s) + 1) - m : v[k] = s[(m + k) - 1]
    BY <1>0, SubType
  <2> HIDE DEF u, v
  <2>3. ASSUME NEW k \in 1 .. Len(u) PROVE u[k] = Append(v, b)[k]
    <3>1. CASE k = Len(u)
      <4>1. k = Len(v) + 1 /\ (m + k) - 1 = Len(s) + 1 /\ k \in 1 .. (Len(s) + 2) - m
        BY <1>0, <2>1, <2>2, <3>1
      <4>2. u[k] = b
        BY <1>0, <2>1, <4>1
      <4>3. Append(v, b)[k] = b
        BY <2>2, <4>1, AppendProperties
      <4> QED BY <4>2, <4>3
    <3>2. CASE k # Len(u)
      <4>1. (m + k) - 1 \in 1 .. Len(s) /\ k \in 1 .. Len(v)
        BY <1>0, <2>1, <2>2, <3>2
      <4>2. u[k] = s[(m + k) - 1]
        BY <1>1, <2>1, <4>1
      <4>3. Append(v, b)[k] = v[k]
        BY <2>2, <4>1
      <4>4. v[k] = s[(m + k) - 1]
        BY <2>2, <4>1
      <4> QED BY <4>2, <4>3, <4>4
    <3> QED BY <3>1, <3>2
  <2>4. Append(v, b) \in Seq(Byte) /\ Len(Append(v, b)) = Len(u)
    BY <1>0, <2>1, <2>2
  <2>5. u = Append(v, b)
    BY <2>1, <2>3, <2>4, SeqEqual
  <2> QED BY <2>5 DEF u, v
<1>3. ASSUME NEW n \in 0 .. Len(s) PROVE SubSeq(t, m, n) = SubSeq(s, m, n)
  <2> DEFINE u == SubSeq(t, m, n)
             v == SubSeq(s, m, n)
  <2>1. /\ u \in Seq(Byte) /\ Len(u) = IF m <= n THEN (n - m) + 1 ELSE 0
        /\ \A k \in 1 .. (n - m) + 1 : u[k] = t[(m + k) - 1]
    BY <1>0, SubType
  <2>2. /\ v \in Seq(Byte) /\ Len(v) = IF m <= n THEN (n - m) + 1 ELSE 0
        /\ \A k \in 1 .. (n - m) + 1 : v[k] = s[(m + k) - 1]
    BY <1>0, SubType
  <2> HIDE DEF u, v
  <2>3. ASSUME NEW k \in 1 .. Len(u) PROVE u[k] = v[k]
    <3>1. k \in 1 .. (n - m) + 1 /\ (m + k) - 1 \in 1 .. Len(s)
      BY <1>0, <2>1
    <3> QED BY <1>1, <2>1, <2>2, <3>1
  <2> QED BY <2>1, <2>2, <2>3, SeqEqual DEF u, v
<1> QED BY <1>2, <1>3 DEF t

-----------------------------------------------------------------------------
(* The steps that end no frame.                                            *)

LEMMA EmptyLine ==
  MagicAt(<<>>, 1) = 0 /\ HeaderAt(<<>>) = 0 /\ Window(<<>>, 1, NoMagic) /\ Len(<<>>) + 1 = 1
<1>0. Len(Magic) \in Nat \ {0} /\ <<>> \in Seq(Byte) /\ Len(<<>>) = 0
  BY StreamParserAssumption
<1>1. MagicAt(<<>>, 1) = 0
  <2>1. Len(<<>>) = 0 /\ 1 \in Nat \ {0}
    OBVIOUS
  <2>2. MagicAt(<<>>, 1) = 0 \/ MagicAt(<<>>, 1) \in 1 .. (0 - Len(Magic)) + 1
    BY <1>0, <2>1, FirstMagic
  <2> QED BY <1>0, <2>2
<1>2. HeaderAt(<<>>) = 0
  <2>1. 1 \in 1 .. Len(<<>>) + 1 /\ Reached(<<>>, 1)
    BY <1>0, ReachedStart
  <2> QED BY <1>0, <1>1, <2>1, HeaderFound
<1>3. Window(<<>>, 1, NoMagic)
  BY <1>0 DEF Window
<1> QED BY <1>0, <1>1, <1>2, <1>3

LEMMA InitPlaced == Init => IInv
<1> SUFFICES ASSUME Init PROVE IInv
  OBVIOUS
<1>0. Len(Magic) \in Nat \ {0} /\ Magic \in Seq(Byte) /\ 0 \in Byte
  BY StreamParserAssumption
<1>1. NoMagic \in Seq(Byte) /\ Len(NoMagic) = Len(Magic)
  BY <1>0, SeqDef DEF NoMagic
<1>2. TypeOK
  BY <1>0, <1>1, EmptySeq, StreamParserAssumption DEF Init, TypeOK, HdrLen
<1>3. Line = <<>> /\ seg = Line
  BY DEF Init, Line
<1>4. Placed
  BY <1>3, EmptyLine, ReachedStart DEF Init, Placed, Searching
<1>5. MatchesReference
  BY <1>3, EmptyLine DEF Init, MatchesReference, Reference
<1> QED BY <1>2, <1>4, <1>5 DEF Init, IInv, Framed

\* What all steps have in common.
LEMMA StepShape ==
  ASSUME TypeOK, NEW b \in Byte, Feed(b)
  PROVE  /\ seg' = Append(Line, b) /\ seg' \in Seq(Byte) /\ Len(seg') = Len(Line) + 1
         /\ ended' \in BOOLEAN /\ ~ended' => delivered' = <<>> /\ Line' = seg'
<1>1. \E end \in BOOLEAN : \E msgs : Record(b, msgs, end) /\ (~end => msgs = <<>>)
  BY DEF Feed, FindMagic, HeaderByte, BadVersion, HeaderWithPayload, HeaderOnly, PayloadByte,
     PayloadDone
<1>0. PICK end \in BOOLEAN : \E msgs : Record(b, msgs, end) /\ (~end => msgs = <<>>)
  BY <1>1
<1>2. PICK msgs : Record(b, msgs, end) /\ (~end => msgs = <<>>)
  BY <1>0
<1>3. Line \in Seq(Byte)
  BY LineType
<1>4. seg' = Append(Line, b)
  <2>1. CASE ended
    BY <1>2, <2>1 DEF Record, Line
  <2>2. CASE ~ended
    BY <1>2, <2>2 DEF Record, Line
  <2> QED BY <2>1, <2>2
<1>5. seg' \in Seq(Byte) /\ Len(seg') = Len(Line) + 1
  BY <1>3, <1>4
<1>6. ended' = end /\ delivered' = msgs
  BY <1>2 DEF Record
<1>7. ~ended' => Line' = seg'
  BY DEF Line
<1> QED BY <1>2, <1>4, <1>5, <1>6, <1>7

\* The accumulator is the magic exactly when the line, from i on, ends in it:
\* the first byte of what was there before is not that of a magic.
LEMMA WindowGrows ==
  ASSUME NEW s \in Seq(Byte), NEW b \in Byte, NEW i \in 1 .. Len(s) + 1,
         NEW acc \in Seq(Byte), Len(acc) = Len(Magic), Window(s, i, acc)
  PROVE  LET t == Append(s, b)
             last == (Len(t) - Len(Magic)) + 1
         IN  /\ ShiftIn(acc, b) \in Seq(Byte) /\ Len(ShiftIn(acc, b)) = Len(Magic)
             /\ Window(t, i, ShiftIn(acc, b))
             /\ ShiftIn(acc, b) = Magic <=> i <= last /\ Stands(t, last)
<1> DEFINE L == Len(Magic)
           n == Len(s)
           t == Append(s, b)
           new == ShiftIn(acc, b)
           last == (Len(t) - L) + 1
<1>0. /\ L \in Nat \ {0} /\ n \in Nat /\ Len(t) = n + 1 /\ t \in Seq(Byte)
      /\ Magic \in Seq(Byte)
  BY StreamParserAssumption
<1>1. t[n + 1] = b /\ \A p \in 1 .. n : t[p] = s[p]
  BY AppendProperties
<1>2. new \in Seq(Byte) /\ Len(new) = L /\ new[L] = b /\ \A k \in 1 .. L - 1 : new[k] = acc[k + 1]
  <2>1. acc # <<>>
    BY <1>0
  <2>2. /\ Tail(acc) \in Seq(Byte) /\ Len(Tail(acc)) = L - 1
        /\ \A k \in 1 .. L - 1 : Tail(acc)[k] = acc[k + 1]
    BY <2>1, HeadTailProperties
  <2> QED BY <1>0, <2>2, AppendProperties DEF ShiftIn
<1>3. PICK old \in {Magic, NoMagic} : \A k \in 1 .. L :
        acc[k] = IF (n + k) - L >= i THEN s[(n + k) - L] ELSE old[(((n + k) - L) + L + 1) - i]
  BY DEF Window
<1> HIDE DEF t, new, n, L
<1>4. ASSUME NEW k \in 1 .. L
      PROVE  new[k] = IF (Len(t) + k) - L >= i THEN t[(Len(t) + k) - L]
                      ELSE old[(((Len(t) + k) - L) + L + 1) - i]
  <2>1. CASE k = L
    <3>1. (Len(t) + k) - L = n + 1 /\ n + 1 >= i
      BY <1>0, <2>1 DEF n
    <3> QED BY <3>1, <2>1, <1>1, <1>2
  <2>2. CASE k # L
    <3>1. k + 1 \in 1 .. L /\ k \in 1 .. L - 1 /\ (Len(t) + k) - L = (n + (k + 1)) - L
      BY <1>0, <2>2
    <3>2. new[k] = IF (n + (k + 1)) - L >= i THEN s[(n + (k + 1)) - L]
                   ELSE old[(((n + (k + 1)) - L) + L + 1) - i]
      BY <1>2, <1>3, <3>1
    <3>3. (n + (k + 1)) - L >= i => (n + (k + 1)) - L \in 1 .. n
      BY <1>0, <3>1
    <3> QED BY <1>1, <3>1, <3>2, <3>3
  <2> QED BY <2>1, <2>2
<1>5. Window(t, i, new)
  BY <1>4 DEF Window, L
<1>6. ASSUME i <= last, Stands(t, last) PROVE new = Magic
  <2>1. ASSUME NEW k \in 1 .. L PROVE new[k] = Magic[k]
    <3>1. (Len(t) + k) - L = (last + k) - 1 /\ (Len(t) + k) - L >= i
      BY <1>0, <1>6
    <3> QED BY <1>4, <1>6, <3>1 DEF Stands, L
  <2> QED BY <2>1, <1>0, <1>2, SeqEqual DEF L
<1>7. ASSUME new = Magic PROVE i <= last /\ Stands(t, last)
  <2>1. i <= last
    <3> SUFFICES ASSUME i > last PROVE FALSE
      BY <1>0
    <3> DEFINE j == (last + L + 1) - i
    <3>1. j \in 2 .. L /\ 1 \in 1 .. L /\ (Len(t) + 1) - L = last
      BY <1>0 DEF n
    <3>2. new[1] = old[j]
      BY <1>0, <1>4, <3>1
    <3>3. old[j] # Magic[1]
      <4>1. CASE old = Magic
        <5>1. \A m \in 1 .. L : m > 1 => Magic[m] # Magic[1]
          BY StreamParserAssumption DEF L
        <5>2. j \in 1 .. L /\ j > 1
          BY <3>1, <1>0
        <5> HIDE DEF j
        <5> QED BY <4>1, <5>1, <5>2
      <4>2. CASE old = NoMagic
        BY <3>1, <4>2, StreamParserAssumption DEF L, NoMagic
      <4> QED BY <4>1, <4>2
    <3> QED BY <1>7, <3>2, <3>3
  <2>2. ASSUME NEW k \in 1 .. L PROVE t[(last + k) - 1] = Magic[k]
    <3>1. (Len(t) + k) - L = (last + k) - 1 /\ (Len(t) + k) - L >= i
      BY <1>0, <2>1
    <3> QED BY <1>4, <1>7, <3>1
  <2> QED BY <2>1, <2>2 DEF Stands, L
<1>8. new = Magic <=> i <= last /\ Stands(t, last)
  BY <1>6, <1>7
<1> QED BY <1>2, <1>5, <1>8 DEF new, t, L

LEMMA FindMagicStep ==
  ASSUME IInv, NEW b \in Byte, FindMagic(b)
  PROVE  IInv'
<1> DEFINE t == Append(Line, b)
           last == (Len(t) - Len(Magic)) + 1
<1>0. Len(Magic) \in Nat \ {0} /\ TypeOK /\ Line \in Seq(Byte)
  BY StreamParserAssumption, LineType DEF IInv
<1>1. ended' = FALSE /\ delivered' = <<>>
  BY DEF FindMagic, Record
<1>2. seg' = t /\ t \in Seq(Byte) /\ Len(t) = Len(Line) + 1 /\ Line' = t
  BY <1>0, <1>1, StepShape DEF Feed
<1> HIDE DEF t
<1>3. PICK i \in 1 .. Len(Line) + 1 : Reached(Line, i) /\ Searching(i)
  BY DEF IInv, Placed, FindMagic, InHeader, InPayload
<1>4. Reached(t, i) /\ i \in 1 .. Len(t) + 1 /\ i \in Nat \ {0}
  BY <1>0, <1>2, <1>3, ReachedGrows DEF t
<1>5. /\ magic_acc' \in Seq(Byte) /\ Len(magic_acc') = Len(Magic)
      /\ Window(t, i, magic_acc')
      /\ magic_acc' = Magic <=> i <= last /\ Stands(t, last)
  BY <1>0, <1>3, WindowGrows DEF FindMagic, Searching, TypeOK, t
<1>6. MagicAt(t, i) = IF i <= last /\ Stands(t, last) THEN last ELSE 0
  BY <1>0, <1>3, <1>4, MagicGrows DEF t, Searching
<1>7. Placed'
  <2>1. CASE magic_acc' # Magic
    <3>1. MagicAt(t, i) = 0 /\ state' = 0
      BY <1>5, <1>6, <2>1 DEF FindMagic
    <3> QED BY <1>2, <1>4, <1>5, <3>1 DEF Placed, Searching
  <2>2. CASE magic_acc' = Magic
    <3>1. MagicAt(t, i) = last /\ state' = 1 /\ hdr' = <<>> /\ i <= last
      BY <1>5, <1>6, <2>2 DEF FindMagic
    <3>2. SubSeq(t, last + Len(Magic), Len(t)) = <<>>
      <4>1. last + Len(Magic) = Len(t) + 1 /\ Len(t) \in Nat
        BY <1>0, <1>2
      <4> QED BY <4>1, SubSeqEmpty
    <3>3. (last + Len(Magic)) + Len(hdr') = Len(t) + 1 /\ last # 0 /\ Len(hdr') < HdrLen
      BY <1>0, <1>2, <1>4, <3>1 DEF HdrLen
    <3> QED BY <1>2, <1>4, <2>2, <3>1, <3>2, <3>3 DEF Placed, InHeader
  <2> QED BY <2>1, <2>2
<1>8. TypeOK'
  <2>1. hdr' \in Seq(Byte) /\ Len(hdr') <= HdrLen /\ state' \in {0, 1, 2}
    <3>1. CASE magic_acc' = Magic
      BY <3>1, <1>0 DEF FindMagic, TypeOK, HdrLen
    <3>2. CASE magic_acc' # Magic
      BY <3>2, <1>0 DEF FindMagic, TypeOK
    <3> QED BY <3>1, <3>2
  <2>2. delivered' \in Seq([cmd : Byte, payload : Seq(Byte)]) /\ Len(delivered') <= 1
    BY <1>1
  <2> QED BY <1>0, <1>1, <1>2, <1>5, <2>1, <2>2 DEF FindMagic, TypeOK
<1> QED BY <1>1, <1>7, <1>8 DEF IInv, Framed


\* g is what follows the magic in s.
BehindMagic(s, i, g) ==
  MagicAt(s, i) \in 1 .. Len(s) /\ (MagicAt(s, i) + Len(Magic)) + Len(g) = Len(s) + 1
Behind(s, i, g) == g = SubSeq(s, MagicAt(s, i) + Len(Magic), Len(s))

\* The header grows with the line.
LEMMA HeaderGrows ==
  ASSUME IInv, NEW b \in Byte, Feed(b), state = 1, hdr' = Append(hdr, b)
  PROVE  /\ hdr' \in Seq(Byte) /\ Len(hdr') = Len(hdr) + 1 /\ Len(hdr') <= HdrLen
         /\ magic_acc = Magic /\ Len(seg') \in Nat
         /\ \E i \in 1 .. Len(seg') + 1 :
              /\ Reached(seg', i) /\ Stands(seg', MagicAt(seg', i))
              /\ BehindMagic(seg', i, hdr') /\ Behind(seg', i, hdr')
<1> DEFINE t == Append(Line, b)
<1>0. Len(Magic) \in Nat \ {0} /\ TypeOK /\ Line \in Seq(Byte) /\ hdr \in Seq(Byte)
  BY StreamParserAssumption, LineType DEF IInv, TypeOK
<1>1. seg' = t /\ t \in Seq(Byte) /\ Len(t) = Len(Line) + 1
  BY <1>0, StepShape
<1>2. PICK i \in 1 .. Len(Line) + 1 : Reached(Line, i) /\ InHeader(i)
  BY DEF IInv, Placed, Searching, InPayload
<1> DEFINE m == MagicAt(Line, i)
           h == m + Len(Magic)
<1>3. m # 0 /\ magic_acc = Magic /\ h + Len(hdr) = Len(Line) + 1 /\ Len(hdr) < HdrLen
  BY <1>2 DEF InHeader
<1>4. m \in 1 .. Len(Line) /\ h \in 1 .. Len(Line) + 1 /\ Len(hdr) \in Nat
  <2>1. m \in i .. (Len(Line) - Len(Magic)) + 1
    BY <1>0, <1>3, FirstMagic
  <2> HIDE DEF m
  <2> QED BY <1>0, <1>3, <2>1
<1>5. MagicAt(t, i) = m
  BY <1>0, <1>2, <1>3, MagicGrows
<1>6. hdr = SubSeq(Line, h, Len(Line))
  BY <1>2 DEF InHeader
<1> HIDE DEF t, m
<1>7. Stands(t, m) /\ i \in 1 .. Len(t) + 1
  <2>1. i \in Nat \ {0} /\ i \in 1 .. Len(t) + 1
    BY <1>0, <1>1
  <2>2. MagicAt(t, i) # 0
    BY <1>3, <1>5
  <2> QED BY <1>1, <1>5, <2>1, <2>2, FirstMagic
<1>8. hdr' \in Seq(Byte) /\ Len(hdr') = Len(hdr) + 1 /\ Len(hdr') <= HdrLen
  BY <1>0, <1>3, <1>4, AppendProperties DEF HdrLen
<1>9. Behind(t, i, hdr')
  <2> HIDE DEF h
  <2>1. SubSeq(Append(Line, b), h, Len(Line) + 1) = Append(SubSeq(Line, h, Len(Line)), b)
    BY <1>0, <1>4, SubGrows
  <2>2. hdr' = SubSeq(t, h, Len(t))
    BY <1>1, <1>6, <2>1 DEF t
  <2> QED BY <1>5, <2>2 DEF Behind, h
<1>10. Reached(t, i)
  BY <1>0, <1>2, ReachedGrows DEF t
<1>11. m \in 1 .. Len(t) /\ h + Len(hdr') = Len(t) + 1 /\ Len(t) \in Nat
  <2>1. Len(Line) \in Nat /\ Len(t) = Len(Line) + 1
    BY <1>0, <1>1
  <2>2. Len(hdr') = Len(hdr) + 1 /\ h + Len(hdr) = Len(Line) + 1
    BY <1>3, <1>8
  <2> HIDE DEF h
  <2> QED BY <1>4, <2>1, <2>2
<1>12. BehindMagic(t, i, hdr')
  BY <1>5, <1>11 DEF BehindMagic
<1> QED BY <1>1, <1>3, <1>5, <1>7, <1>8, <1>9, <1>10, <1>11, <1>12

LEMMA HeaderByteStep ==
  ASSUME IInv, NEW b \in Byte, HeaderByte(b)
  PROVE  IInv'
<1>0. TypeOK /\ ended' = FALSE /\ delivered' = <<>> /\ hdr' = Append(hdr, b) /\ state' = 1
  BY DEF IInv, HeaderByte, Record
<1>1. seg' \in Seq(Byte) /\ Line' = seg'
  BY <1>0, StepShape DEF Feed
<1>2. /\ hdr' \in Seq(Byte) /\ Len(hdr') = Len(hdr) + 1 /\ magic_acc' = Magic
      /\ \E i \in 1 .. Len(seg') + 1 :
           Reached(seg', i) /\ BehindMagic(seg', i, hdr') /\ Behind(seg', i, hdr')
  BY HeaderGrows DEF Feed, HeaderByte
<1>3. Len(hdr') < HdrLen
  BY <1>2 DEF HeaderByte
<1>4. Placed'
  <2>1. PICK i \in 1 .. Len(seg') + 1 :
           Reached(seg', i) /\ BehindMagic(seg', i, hdr') /\ Behind(seg', i, hdr')
    BY <1>2
  <2>2. /\ MagicAt(seg', i) # 0
        /\ (MagicAt(seg', i) + Len(Magic)) + Len(hdr') = Len(seg') + 1
    BY <2>1 DEF BehindMagic
  <2>3. hdr' = SubSeq(seg', MagicAt(seg', i) + Len(Magic), Len(seg'))
    BY <2>1 DEF Behind
  <2>4. InHeader(i)'
    BY <1>0, <1>1, <1>2, <1>3, <2>2, <2>3, Zenon DEF InHeader
  <2> QED BY <1>1, <2>1, <2>4 DEF Placed
<1>5. TypeOK'
  <2>1. delivered' \in Seq([cmd : Byte, payload : Seq(Byte)]) /\ Len(delivered') <= 1
    BY <1>0
  <2>2. Len(hdr') <= HdrLen
    BY <1>2, <1>3 DEF HdrLen
  <2> QED BY <1>0, <1>1, <1>2, <2>1, <2>2 DEF HeaderByte, TypeOK
<1> QED BY <1>0, <1>4, <1>5 DEF IInv, Framed

LEMMA BadVersionStep ==
  ASSUME IInv, NEW b \in Byte, BadVersion(b)
  PROVE  IInv'
<1>0. /\ TypeOK /\ ended' = FALSE /\ delivered' = <<>> /\ hdr' = Append(hdr, b) /\ state' = 0
      /\ Len(Magic) \in Nat \ {0} /\ Magic \in Seq(Byte)
  BY StreamParserAssumption DEF IInv, BadVersion, Record
<1>1. seg' \in Seq(Byte) /\ Line' = seg'
  BY <1>0, StepShape DEF Feed
<1>2. /\ hdr' \in Seq(Byte) /\ Len(hdr') = Len(hdr) + 1 /\ magic_acc' = Magic /\ Len(seg') \in Nat
      /\ \E i \in 1 .. Len(seg') + 1 :
           Reached(seg', i) /\ BehindMagic(seg', i, hdr') /\ Behind(seg', i, hdr')
  BY HeaderGrows DEF Feed, BadVersion
<1>3. Len(hdr') = HdrLen
  BY <1>2 DEF BadVersion
<1>4. PICK i \in 1 .. Len(seg') + 1 :
        Reached(seg', i) /\ BehindMagic(seg', i, hdr') /\ Behind(seg', i, hdr')
  BY <1>2
<1> DEFINE m == MagicAt(seg', i)
           h == m + Len(Magic)
           j == Len(seg') + 1
           n == Len(seg')
<1>5. m \in 1 .. n /\ (m + Len(Magic)) + Len(hdr') = n + 1 /\ n \in Nat
  BY <1>2, <1>4 DEF BehindMagic
<1>6. hdr' = SubSeq(seg', h, n)
  BY <1>4 DEF Behind
<1> HIDE DEF m, n
<1>7. h \in 1 .. n /\ h + HdrLen = n + 1
  BY <1>0, <1>3, <1>5 DEF HdrLen
<1>8. seg'[h] # Version
  <2> HIDE DEF h
  <2>1. hdr'[1] # Version
    BY DEF BadVersion, HdrVersion
  <2>2. SubSeq(seg', h, n)[1] = seg'[(h + 1) - 1]
    <3>1. h \in Nat \ {0} /\ n \in 0 .. Len(seg') /\ 1 \in 1 .. (n - h) + 1
      BY <1>7, <1>5 DEF HdrLen, n
    <3> QED BY <1>1, <3>1, SubType
  <2>3. (h + 1) - 1 = h
    BY <1>7
  <2> QED BY <1>6, <2>1, <2>2, <2>3
<1>9. Skips(seg', i) /\ Beyond(seg', i) = j
  <2>1. m # 0 /\ h + HdrLen <= n + 1 /\ h + HdrLen = j
    BY <1>5, <1>7 DEF n, HdrLen
  <2> QED BY <1>8, <2>1 DEF Skips, Beyond, m, n
<1>10. Reached(seg', j) /\ j \in Nat \ {0} /\ j \in 1 .. Len(seg') + 1
  BY <1>4, <1>5, <1>9, ReachedNext DEF n
<1>11. MagicAt(seg', j) = 0
  <2>1. MagicAt(seg', j) = 0 \/ MagicAt(seg', j) \in j .. (n - Len(Magic)) + 1
    BY <1>1, <1>10, FirstMagic DEF n
  <2> QED BY <1>0, <1>5, <2>1 DEF n
<1>12. Window(seg', j, Magic)
  <2>1. ASSUME NEW k \in 1 .. Len(Magic)
        PROVE  LET p == (Len(seg') + k) - Len(Magic)
               IN  Magic[k] = IF p >= j THEN seg'[p] ELSE Magic[(p + Len(Magic) + 1) - j]
    <3>1. /\ ~((Len(seg') + k) - Len(Magic) >= j)
          /\ (((Len(seg') + k) - Len(Magic)) + Len(Magic) + 1) - j = k
      BY <1>0, <1>5 DEF n
    <3> QED BY <3>1
  <2> QED BY <2>1 DEF Window
<1>13. Placed'
  BY <1>0, <1>1, <1>2, <1>10, <1>11, <1>12 DEF Placed, Searching
<1>14. TypeOK'
  <2>1. delivered' \in Seq([cmd : Byte, payload : Seq(Byte)]) /\ Len(delivered') <= 1
    BY <1>0
  <2>2. Len(hdr') <= HdrLen
    BY <1>3 DEF HdrLen
  <2> QED BY <1>0, <1>1, <1>2, <2>1, <2>2 DEF BadVersion, TypeOK
<1> QED BY <1>0, <1>13, <1>14 DEF IInv, Framed

-----------------------------------------------------------------------------
(* The steps that end a frame, and those between.                          *)

\* After a frame, good or bad, the search begins anew.
LEMMA AtRest ==
  ASSUME ended', state' = 0, magic_acc' = NoMagic PROVE Placed'
<1>1. Line' = <<>>
  BY DEF Line
<1>2. Searching(1)'
  BY <1>1, EmptyLine DEF Searching
<1> QED BY <1>1, <1>2, EmptyLine, ReachedStart DEF Placed

\* A line whose search has come to i and whose frame begins at h and ends it.
EndsWhole(t, i, h) ==
  /\ Reached(t, i) /\ MagicAt(t, i) # 0 /\ h = MagicAt(t, i) + Len(Magic)
  /\ h + 3 <= Len(t) /\ t[h] = Version /\ h + 3 + t[h + 2] = Len(t)

\* What the whole-string reading makes of such a line.
LEMMA WholeFrame ==
  ASSUME NEW t \in Seq(Byte), NEW i \in 1 .. Len(t) + 1, NEW h, EndsWhole(t, i, h)
  PROVE  /\ Reference(t) =
              IF /\ Crc(SubSeq(t, h, h + 2) \o SubSeq(t, h + 4, Len(t))) = t[h + 3]
                 /\ t[h + 2] <= PbufSize
              THEN <<[cmd |-> t[h + 1], payload |-> SubSeq(t, h + 4, Len(t))]>> ELSE <<>>
         /\ \E p \in 1 .. Len(t) : Stands(t, p) /\ HeaderAt(t) = p + Len(Magic)
<1>0. Len(t) \in Nat /\ Len(Magic) \in Nat \ {0}
  BY StreamParserAssumption
<1>1. MagicAt(t, i) \in 1 .. Len(t) /\ Stands(t, MagicAt(t, i))
  <2>1. /\ MagicAt(t, i) \in i .. (Len(t) - Len(Magic)) + 1
        /\ Stands(t, MagicAt(t, i))
    BY FirstMagic DEF EndsWhole
  <2> QED BY <1>0, <2>1
<1>2. h \in Nat \ {0} /\ h + 3 <= Len(t)
  BY <1>0, <1>1 DEF EndsWhole
<1>3. HeaderAt(t) = h
  <2>1. h <= Len(t)
    BY <1>0, <1>2
  <2> QED BY <2>1, HeaderFound DEF EndsWhole
<1> DEFINE len == t[h + 2]
<1>4. len \in Nat
  <2>1. h + 2 \in 1 .. Len(t)
    BY <1>0, <1>2
  <2>2. t[h + 2] \in Byte
    BY <2>1
  <2> QED BY <2>2, StreamParserAssumption
<1>5. h + 3 + len = Len(t)
  BY DEF EndsWhole
<1>6. /\ h # 0 /\ h + HdrLen <= Len(t) + 1 /\ (h + HdrLen) + len = Len(t) + 1
      /\ h + HdrLen = h + 4 /\ (h + HdrLen) + (len - 1) = Len(t)
  <2> HIDE DEF len
  <2> QED BY <1>0, <1>2, <1>4, <1>5 DEF HdrLen
<1>7. Reference(t) =
        IF /\ Crc(SubSeq(t, h, h + 2) \o SubSeq(t, h + 4, Len(t))) = t[h + 3]
           /\ t[h + 2] <= PbufSize
        THEN <<[cmd |-> t[h + 1], payload |-> SubSeq(t, h + 4, Len(t))]>> ELSE <<>>
  <2> DEFINE Read(at) ==
    LET size == t[at + 2]
        payload == SubSeq(t, at + HdrLen, at + HdrLen + size - 1)
        sum == Crc(SubSeq(t, at, at + 2) \o payload)
    IN  IF /\ at # 0 /\ at + HdrLen <= Len(t) + 1
           /\ t[at] = Version
           /\ at + HdrLen + size = Len(t) + 1
           /\ sum = t[at + 3] /\ size <= PbufSize
        THEN <<[cmd |-> t[at + 1], payload |-> payload]>> ELSE <<>>
  <2>1. Reference(t) = Read(HeaderAt(t))
    BY Zenon DEF Reference
  <2>2. Reference(t) = Read(h)
    <3> HIDE DEF Read
    <3> QED BY <1>3, <2>1
  <2>3. t[h] = Version
    BY DEF EndsWhole
  <2>4. SubSeq(t, h + HdrLen, h + HdrLen + len - 1) = SubSeq(t, h + 4, Len(t))
    <3> HIDE DEF len
    <3>1. h + HdrLen = h + 4
      BY <1>6
    <3>2. h + HdrLen + len - 1 = Len(t)
      BY <1>6
    <3> QED BY <3>1, <3>2
  <2> QED BY <1>6, <2>2, <2>3, <2>4, Zenon
<1> QED BY <1>1, <1>3, <1>7 DEF EndsWhole

\* The last byte of a header of this version.
LEMMA HeaderEnds ==
  ASSUME IInv, NEW b \in Byte, Feed(b), HeaderDone(b)
  PROVE  \E i \in 1 .. Len(seg') + 1, h \in Nat \ {0} :
           /\ Reached(seg', i) /\ MagicAt(seg', i) # 0 /\ h = MagicAt(seg', i) + Len(Magic)
           /\ Len(seg') = h + 3 /\ hdr' = SubSeq(seg', h, h + 3) /\ seg'[h] = Version
           /\ seg'[h + 1] = hdr'[2] /\ seg'[h + 2] = hdr'[3] /\ seg'[h + 3] = hdr'[4]
           /\ SubSeq(hdr', 1, 3) = SubSeq(seg', h, h + 2)
           /\ SubSeq(seg', h + 4, Len(seg')) = <<>>
           /\ hdr'[2] \in Byte /\ hdr'[3] \in Byte /\ hdr'[4] \in Byte
<1>0. /\ TypeOK /\ hdr' = Append(hdr, b) /\ state = 1 /\ hdr'[1] = Version
      /\ Len(hdr) + 1 = HdrLen /\ Len(Magic) \in Nat \ {0}
  BY StreamParserAssumption DEF IInv, HeaderDone, HdrVersion
<1>1. seg' \in Seq(Byte)
  BY <1>0, StepShape
<1>2. /\ hdr' \in Seq(Byte) /\ Len(hdr') = Len(hdr) + 1 /\ Len(seg') \in Nat
      /\ \E i \in 1 .. Len(seg') + 1 :
           Reached(seg', i) /\ BehindMagic(seg', i, hdr') /\ Behind(seg', i, hdr')
  BY <1>0, HeaderGrows
<1>3. PICK i \in 1 .. Len(seg') + 1 :
        Reached(seg', i) /\ BehindMagic(seg', i, hdr') /\ Behind(seg', i, hdr')
  BY <1>2
<1> DEFINE m == MagicAt(seg', i)
           h == m + Len(Magic)
           n == Len(seg')
<1>4. m \in 1 .. n /\ (m + Len(Magic)) + Len(hdr') = n + 1 /\ n \in Nat
  BY <1>2, <1>3 DEF BehindMagic
<1>5. Len(hdr') = 4
  BY <1>0, <1>2 DEF HdrLen
<1>6. hdr' = SubSeq(seg', h, n)
  BY <1>3 DEF Behind
<1> HIDE DEF m
<1>7. h \in Nat \ {0} /\ n = h + 3 /\ m # 0
  BY <1>0, <1>4, <1>5
<1> HIDE DEF h
<1>8. \A k \in 1 .. 4 : hdr'[k] = seg'[(h + k) - 1]
  <2>1. \A k \in 1 .. (n - h) + 1 : SubSeq(seg', h, n)[k] = seg'[(h + k) - 1]
    BY <1>1, <1>4, <1>7, SubType DEF n
  <2>2. (n - h) + 1 = 4
    BY <1>7
  <2> QED BY <1>6, <2>1, <2>2
<1>9. hdr'[2] \in Byte /\ hdr'[3] \in Byte /\ hdr'[4] \in Byte
  <2>1. hdr' \in Seq(Byte)
    BY <1>2
  <2>2. \A k \in 1 .. Len(hdr') : hdr'[k] \in Byte
    BY <2>1, ElementOfSeq
  <2> QED BY <1>5, <2>2
<1>10. hdr'[1] = seg'[h] /\ hdr'[2] = seg'[h + 1] /\ hdr'[3] = seg'[h + 2] /\ hdr'[4] = seg'[h + 3]
  <2>1. (h + 1) - 1 = h /\ (h + 2) - 1 = h + 1 /\ (h + 3) - 1 = h + 2 /\ (h + 4) - 1 = h + 3
    BY <1>7
  <2>2. hdr'[1] = seg'[(h + 1) - 1] /\ hdr'[2] = seg'[(h + 2) - 1]
    BY <1>8
  <2>3. hdr'[3] = seg'[(h + 3) - 1] /\ hdr'[4] = seg'[(h + 4) - 1]
    BY <1>8
  <2> QED BY <2>1, <2>2, <2>3
<1>11. SubSeq(hdr', 1, 3) = SubSeq(seg', h, h + 2)
  <2>1. h \in 1 .. Len(seg') /\ n \in 1 .. Len(seg') /\ 1 \in 1 .. (n - h) + 1 /\ 3 \in 1 .. (n - h) + 1
    BY <1>7 DEF n
  <2>2. SubSeq(SubSeq(seg', h, n), 1, 3) = SubSeq(seg', (h + 1) - 1, (h + 3) - 1)
    BY <1>1, <2>1, SubSeqOfSubSeq
  <2>3. (h + 1) - 1 = h /\ (h + 3) - 1 = h + 2
    BY <1>7
  <2> QED BY <1>6, <2>2, <2>3
<1>12. SubSeq(seg', h + 4, n) = <<>>
  BY <1>7, SubSeqEmpty
<1>13. hdr' = SubSeq(seg', h, h + 3)
  BY <1>6, <1>7
<1>14. Reached(seg', i) /\ MagicAt(seg', i) # 0 /\ h = MagicAt(seg', i) + Len(Magic)
  BY <1>3, <1>7 DEF m, h
<1>15. Len(seg') = h + 3 /\ seg'[h] = Version /\ SubSeq(seg', h + 4, Len(seg')) = <<>>
  BY <1>0, <1>7, <1>10, <1>12 DEF n
<1> QED BY <1>7, <1>9, <1>10, <1>11, <1>13, <1>14, <1>15, Zenon

LEMMA HeaderWithPayloadStep ==
  ASSUME IInv, NEW b \in Byte, HeaderWithPayload(b)
  PROVE  IInv'
<1>0. /\ TypeOK /\ ended' = FALSE /\ delivered' = <<>> /\ state' = 2 /\ HeaderDone(b)
      /\ magic_acc' = magic_acc
  BY DEF IInv, HeaderWithPayload, Record
<1>1. seg' \in Seq(Byte) /\ Line' = seg'
  BY <1>0, StepShape DEF Feed
<1>2. PICK i \in 1 .. Len(seg') + 1, h \in Nat \ {0} :
        /\ Reached(seg', i) /\ MagicAt(seg', i) # 0 /\ h = MagicAt(seg', i) + Len(Magic)
        /\ Len(seg') = h + 3 /\ hdr' = SubSeq(seg', h, h + 3) /\ seg'[h] = Version
        /\ seg'[h + 1] = hdr'[2] /\ seg'[h + 2] = hdr'[3] /\ seg'[h + 3] = hdr'[4]
        /\ SubSeq(hdr', 1, 3) = SubSeq(seg', h, h + 2)
        /\ SubSeq(seg', h + 4, Len(seg')) = <<>>
        /\ hdr'[2] \in Byte /\ hdr'[3] \in Byte /\ hdr'[4] \in Byte
  BY HeaderEnds DEF Feed, HeaderWithPayload
<1>3. hdr' = Append(hdr, b) /\ hdr' \in Seq(Byte) /\ Len(hdr') <= HdrLen
  BY HeaderGrows DEF Feed, HeaderWithPayload, HeaderDone
<1>4. /\ payload_len' = hdr'[3] /\ payload_len' # 0 /\ payload_pos' = 0 /\ crc_expect' = hdr'[4]
      /\ crc_acc' = SubSeq(hdr', 1, 3) /\ pbuf' = pbuf /\ hdr'[1] = Version
  BY DEF HeaderWithPayload, HeaderDone, HdrLength, HdrCrc, HdrSummed, HdrVersion
<1>5. crc_acc' = SubSeq(seg', h, h + 2) /\ crc_acc' \in Seq(Byte)
  <2>1. SubSeq(seg', h, h + 2) \in Seq(Byte)
    <3>1. Len(seg') = h + 3
      BY <1>2
    <3>2. h + 2 \in 0 .. Len(seg')
      BY <3>1
    <3> QED BY <1>1, <3>2, SubType
  <2> QED BY <1>2, <1>4, <2>1
<1>6. payload_len' \in Nat /\ crc_expect' \in Nat /\ payload_pos' < payload_len'
  <2>1. hdr'[3] \in Nat /\ hdr'[4] \in Nat
    BY <1>2, StreamParserAssumption
  <2> QED BY <1>4, <2>1
<1>7. Placed'
  <2>1. HeaderText(Line, h)' /\ HeaderFields'
    BY <1>1, <1>2, <1>3, <1>4 DEF HeaderText, HeaderFields
  <2>2. Summed(Line, h)'
    <3>1. crc_acc' \o <<>> = crc_acc'
      BY <1>5, ConcatEmptySeq
    <3> QED BY <1>1, <1>2, <1>5, <3>1 DEF Summed
  <2>3. Stored(Line, h)'
    <3>1. SubSeq(pbuf', 1, 0) = <<>>
      BY SubSeqEmpty
    <3>2. pbuf \in Seq(Byte) /\ 0 <= Len(pbuf)
      BY <1>0 DEF TypeOK
    <3> QED BY <1>1, <1>2, <1>4, <3>1, <3>2 DEF Stored
  <2>4. Len(Line') = h + 3 + payload_pos'
    BY <1>1, <1>2, <1>4
  <2>5. InPayload(i)'
    BY <1>0, <1>1, <1>2, <1>6, <2>1, <2>2, <2>3, <2>4 DEF InPayload
  <2> QED BY <1>1, <1>2, <2>5 DEF Placed
<1>8. TypeOK'
  <2>1. delivered' \in Seq([cmd : Byte, payload : Seq(Byte)]) /\ Len(delivered') <= 1
    BY <1>0
  <2> QED BY <1>0, <1>1, <1>3, <1>4, <1>5, <1>6, <2>1 DEF TypeOK
<1> QED BY <1>0, <1>7, <1>8 DEF IInv, Framed

LEMMA HeaderOnlyStep ==
  ASSUME IInv, NEW b \in Byte, HeaderOnly(b)
  PROVE  IInv'
<1>0. TypeOK /\ ended' = TRUE /\ state' = 0 /\ magic_acc' = NoMagic /\ HeaderDone(b)
  BY DEF IInv, HeaderOnly, Record
<1>1. seg' \in Seq(Byte) /\ NoMagic \in Seq(Byte) /\ Len(NoMagic) = Len(Magic)
  <2>1. Len(Magic) \in Nat /\ 0 \in Byte
    BY StreamParserAssumption
  <2>2. NoMagic \in Seq(Byte) /\ Len(NoMagic) = Len(Magic)
    BY <2>1, SeqDef DEF NoMagic
  <2> QED BY <1>0, <2>2, StepShape DEF Feed
<1>2. PICK i \in 1 .. Len(seg') + 1, h \in Nat \ {0} :
        /\ Reached(seg', i) /\ MagicAt(seg', i) # 0 /\ h = MagicAt(seg', i) + Len(Magic)
        /\ Len(seg') = h + 3 /\ hdr' = SubSeq(seg', h, h + 3) /\ seg'[h] = Version
        /\ seg'[h + 1] = hdr'[2] /\ seg'[h + 2] = hdr'[3] /\ seg'[h + 3] = hdr'[4]
        /\ SubSeq(hdr', 1, 3) = SubSeq(seg', h, h + 2)
        /\ SubSeq(seg', h + 4, Len(seg')) = <<>>
        /\ hdr'[2] \in Byte /\ hdr'[3] \in Byte /\ hdr'[4] \in Byte
  BY HeaderEnds DEF Feed, HeaderOnly
<1>3. hdr' = Append(hdr, b) /\ hdr' \in Seq(Byte) /\ Len(hdr') <= HdrLen
  BY HeaderGrows DEF Feed, HeaderOnly, HeaderDone
<1>4. /\ payload_len' = hdr'[3] /\ hdr'[3] = 0 /\ payload_pos' = 0 /\ crc_expect' = hdr'[4]
      /\ crc_acc' = SubSeq(hdr', 1, 3) /\ pbuf' = pbuf
      /\ delivered' = IF Crc(crc_acc') = crc_expect'
                      THEN <<[cmd |-> hdr'[2], payload |-> <<>>]>> ELSE <<>>
  BY DEF HeaderOnly, HeaderDone, HdrLength, HdrCrc, HdrSummed, HdrVersion, HdrCmd, Record
<1>5. crc_acc' = SubSeq(seg', h, h + 2) /\ crc_acc' \in Seq(Byte)
  <2>1. SubSeq(seg', h, h + 2) \in Seq(Byte)
    <3>1. Len(seg') = h + 3
      BY <1>2
    <3>2. h + 2 \in 0 .. Len(seg')
      BY <3>1
    <3> QED BY <1>1, <3>2, SubType
  <2> QED BY <1>2, <1>4, <2>1
<1>6. EndsWhole(seg', i, h)
  <2>1. seg'[h + 2] = 0
    BY <1>2, <1>4
  <2>2. h + 3 <= Len(seg') /\ h + 3 + 0 = Len(seg')
    <3>1. Len(seg') = h + 3
      BY <1>2
    <3> QED BY <3>1
  <2> QED BY <1>2, <2>1, <2>2 DEF EndsWhole
<1>7. MatchesReference'
  <2>1. Reference(seg') =
          IF /\ Crc(SubSeq(seg', h, h + 2) \o SubSeq(seg', h + 4, Len(seg'))) = seg'[h + 3]
             /\ seg'[h + 2] <= PbufSize
          THEN <<[cmd |-> seg'[h + 1], payload |-> SubSeq(seg', h + 4, Len(seg'))]>> ELSE <<>>
    BY <1>1, <1>2, <1>6, WholeFrame
  <2>2. SubSeq(seg', h, h + 2) \o SubSeq(seg', h + 4, Len(seg')) = crc_acc'
    BY <1>2, <1>5, ConcatEmptySeq
  <2>3. seg'[h + 2] <= PbufSize
    BY <1>2, <1>4, StreamParserAssumption
  <2> QED BY <1>2, <1>4, <2>1, <2>2, <2>3, Zenon DEF MatchesReference
<1>8. Framed'
  BY <1>1, <1>2, <1>6, WholeFrame DEF Framed
<1>9. TypeOK'
  <2>1. hdr'[3] \in Nat /\ hdr'[4] \in Nat
    BY <1>2, StreamParserAssumption
  <2>2. delivered' \in Seq([cmd : Byte, payload : Seq(Byte)]) /\ Len(delivered') <= 1
    <3> DEFINE msg == [cmd |-> hdr'[2], payload |-> <<>>]
    <3>1. msg \in [cmd : Byte, payload : Seq(Byte)]
      BY <1>2
    <3>2. delivered' = <<>> \/ delivered' = <<msg>>
      BY <1>4
    <3> HIDE DEF msg
    <3>3. CASE delivered' = <<>>
      BY <3>3
    <3>4. CASE delivered' = <<msg>>
      BY <3>1, <3>4
    <3> QED BY <3>2, <3>3, <3>4
  <2> QED BY <1>0, <1>1, <1>3, <1>4, <1>5, <2>1, <2>2 DEF TypeOK
<1> QED BY <1>0, <1>7, <1>8, <1>9, AtRest DEF IInv

\* A payload byte more, and what it leaves alone.
LEMMA PayloadGrows ==
  ASSUME IInv, NEW b \in Byte, Feed(b), StorePayload(b)
  PROVE  /\ hdr' = hdr /\ payload_len' = payload_len /\ crc_expect' = crc_expect
         /\ crc_acc' \in Seq(Byte) /\ pbuf' \in Seq(Byte) /\ Len(pbuf') <= PbufSize
         /\ payload_pos' \in Nat /\ payload_pos' <= payload_len
         /\ \E i \in 1 .. Len(seg') + 1, h \in Nat \ {0} :
              /\ Reached(seg', i) /\ MagicAt(seg', i) # 0 /\ h = MagicAt(seg', i) + Len(Magic)
              /\ Len(seg') = h + 3 + payload_pos' /\ HeaderText(seg', h) /\ HeaderFields
              /\ crc_acc' = SubSeq(seg', h, h + 2) \o SubSeq(seg', h + 4, Len(seg'))
              /\ payload_pos' <= PbufSize =>
                   /\ payload_pos' <= Len(pbuf')
                   /\ SubSeq(pbuf', 1, payload_pos') = SubSeq(seg', h + 4, Len(seg'))
                   /\ pbuf' = SubSeq(seg', h + 4, Len(seg'))
<1> DEFINE t == Append(Line, b)
           n == Len(Line)
<1>0. TypeOK /\ Line \in Seq(Byte) /\ Len(Magic) \in Nat \ {0} /\ n \in Nat
  BY StreamParserAssumption, LineType DEF IInv
<1>1. seg' = t /\ t \in Seq(Byte) /\ Len(t) = n + 1
  BY <1>0, StepShape
<1>2. PICK i \in 1 .. Len(Line) + 1 : Reached(Line, i) /\ InPayload(i)
  BY DEF IInv, Placed, StorePayload, Searching, InHeader
<1> DEFINE m == MagicAt(Line, i)
           h == m + Len(Magic)
<1>3. m # 0 /\ n = h + 3 + payload_pos /\ payload_pos < payload_len
  BY <1>2 DEF InPayload
<1>4. HeaderText(Line, h) /\ HeaderFields /\ Summed(Line, h) /\ Stored(Line, h)
  BY <1>2 DEF InPayload
<1>5. MagicAt(t, i) = m
  BY <1>0, <1>2, <1>3, MagicGrows
<1>6. Reached(t, i) /\ i \in 1 .. Len(t) + 1
  BY <1>0, <1>1, <1>2, ReachedGrows
<1>7. payload_pos \in Nat /\ payload_len \in Nat /\ h \in Nat \ {0}
  <2>1. m \in Nat
    BY <1>0, <1>2, FirstMagic
  <2> HIDE DEF m
  <2> QED BY <1>0, <2>1 DEF TypeOK
<1>8. /\ hdr' = hdr /\ payload_len' = payload_len /\ crc_expect' = crc_expect
      /\ payload_pos' = payload_pos + 1 /\ crc_acc' = Append(crc_acc, b)
      /\ pbuf' = IF payload_pos < PbufSize
                 THEN Append(SubSeq(pbuf, 1, payload_pos), b) ELSE pbuf
  BY DEF StorePayload
<1> HIDE DEF t, m, n
<1> HIDE DEF h
<1>9. h \in 1 .. n /\ h + 2 \in 0 .. n /\ h + 3 \in 0 .. n /\ h + 4 \in 1 .. n + 1
      /\ n + 1 = h + 3 + payload_pos' /\ payload_pos' \in Nat /\ payload_pos' <= payload_len
  BY <1>0, <1>3, <1>7, <1>8
<1>10. /\ SubSeq(t, h, h + 2) = SubSeq(Line, h, h + 2)
       /\ SubSeq(t, h, h + 3) = SubSeq(Line, h, h + 3)
       /\ SubSeq(t, h + 4, n + 1) = Append(SubSeq(Line, h + 4, n), b)
  <2>1. h \in 1 .. Len(Line) + 1 /\ h + 4 \in 1 .. Len(Line) + 1
    BY <1>0, <1>9 DEF n
  <2>2. h + 2 \in 0 .. Len(Line) /\ h + 3 \in 0 .. Len(Line)
    BY <1>9 DEF n
  <2>3. /\ SubSeq(Append(Line, b), h, h + 2) = SubSeq(Line, h, h + 2)
        /\ SubSeq(Append(Line, b), h, h + 3) = SubSeq(Line, h, h + 3)
    BY <1>0, <2>1, <2>2, SubGrows
  <2>4. SubSeq(Append(Line, b), h + 4, Len(Line) + 1) = Append(SubSeq(Line, h + 4, Len(Line)), b)
    BY <1>0, <2>1, SubGrows
  <2> QED BY <2>3, <2>4 DEF t, n
<1>11. /\ SubSeq(Line, h, h + 2) \in Seq(Byte) /\ SubSeq(Line, h + 4, n) \in Seq(Byte)
       /\ Len(SubSeq(Line, h + 4, n)) = payload_pos
  <2>1. h + 4 \in Nat \ {0} /\ n \in 0 .. Len(Line) /\ h + 2 \in 0 .. Len(Line)
    BY <1>0, <1>9 DEF n
  <2>2. SubSeq(Line, h, h + 2) \in Seq(Byte)
    BY <1>0, <1>7, <2>1, SubType
  <2>3. /\ SubSeq(Line, h + 4, n) \in Seq(Byte)
        /\ Len(SubSeq(Line, h + 4, n)) = IF h + 4 <= n THEN (n - (h + 4)) + 1 ELSE 0
    BY <1>0, <2>1, SubType
  <2>4. (IF h + 4 <= n THEN (n - (h + 4)) + 1 ELSE 0) = payload_pos
    BY <1>0, <1>3, <1>7
  <2> QED BY <2>2, <2>3, <2>4
<1>12. crc_acc' = SubSeq(t, h, h + 2) \o SubSeq(t, h + 4, n + 1)
  <2> DEFINE u == SubSeq(Line, h, h + 2)
             v == SubSeq(Line, h + 4, n)
  <2>1. crc_acc = u \o v
    BY <1>4 DEF Summed, n
  <2>2. u \in Seq(Byte) /\ v \in Seq(Byte) /\ <<b>> \in Seq(Byte)
    BY <1>11
  <2> HIDE DEF u, v
  <2>3. Append(u \o v, b) = (u \o v) \o <<b>>
    BY <2>2, AppendIsConcat, ConcatProperties
  <2>4. Append(v, b) = v \o <<b>>
    BY <2>2, AppendIsConcat
  <2>5. (u \o v) \o <<b>> = u \o (v \o <<b>>)
    BY <2>2, ConcatAssociative
  <2>6. crc_acc' = u \o Append(v, b)
    BY <1>8, <2>1, <2>3, <2>4, <2>5
  <2> QED BY <1>10, <2>6 DEF u, v
<1>13. crc_acc' \in Seq(Byte)
  <2>1. crc_acc \in Seq(Byte)
    BY <1>0 DEF TypeOK
  <2> QED BY <1>8, <2>1
<1>14. /\ pbuf' \in Seq(Byte) /\ Len(pbuf') <= PbufSize
       /\ payload_pos' <= PbufSize =>
            /\ payload_pos' <= Len(pbuf')
            /\ SubSeq(pbuf', 1, payload_pos') = SubSeq(t, h + 4, n + 1)
            /\ pbuf' = SubSeq(t, h + 4, n + 1)
  <2>1. pbuf \in Seq(Byte) /\ Len(pbuf) <= PbufSize /\ Len(pbuf) \in Nat /\ PbufSize \in Nat
    BY <1>0, StreamParserAssumption DEF TypeOK
  <2>2. CASE payload_pos < PbufSize
    <3> DEFINE kept == SubSeq(pbuf, 1, payload_pos)
    <3>1. payload_pos <= PbufSize
      BY <1>7, <2>1, <2>2
    <3>2. payload_pos <= Len(pbuf) /\ kept = SubSeq(Line, h + 4, n)
      BY <1>4, <3>1 DEF Stored, n
    <3> HIDE DEF kept
    <3>3. pbuf' = SubSeq(t, h + 4, n + 1)
      BY <1>8, <1>10, <2>2, <3>2 DEF kept
    <3>4. pbuf' = Append(SubSeq(Line, h + 4, n), b)
      BY <1>10, <3>3
    <3>5. pbuf' \in Seq(Byte) /\ Len(pbuf') = payload_pos + 1
      BY <1>11, <3>4, AppendProperties
    <3>6. SubSeq(pbuf', 1, payload_pos + 1) = pbuf'
      BY <3>5, SubSeqFull
    <3>7. payload_pos + 1 <= PbufSize
      BY <1>7, <2>1, <2>2
    <3>8. payload_pos' = payload_pos + 1
      BY <1>8
    <3>9. Len(pbuf') <= PbufSize /\ payload_pos' <= Len(pbuf')
      BY <1>7, <3>5, <3>7, <3>8
    <3>10. SubSeq(pbuf', 1, payload_pos') = SubSeq(t, h + 4, n + 1)
      BY <3>3, <3>6, <3>8
    <3> QED BY <3>3, <3>5, <3>9, <3>10
  <2>3. CASE ~(payload_pos < PbufSize)
    <3>1. pbuf' = pbuf
      BY <1>8, <2>3
    <3>2. ~(payload_pos' <= PbufSize)
      BY <1>7, <1>8, <2>1, <2>3
    <3> QED BY <2>1, <3>1, <3>2
  <2> QED BY <2>2, <2>3
<1>15. HeaderText(t, h)
  BY <1>4, <1>10 DEF HeaderText
<1>16. MagicAt(t, i) # 0 /\ h = MagicAt(t, i) + Len(Magic) /\ Len(t) = n + 1
  BY <1>1, <1>3, <1>5 DEF h
<1>17. Len(t) = h + 3 + payload_pos'
  BY <1>9, <1>16
<1> QED BY <1>1, <1>4, <1>6, <1>7, <1>8, <1>9, <1>12, <1>13, <1>14, <1>15, <1>16, <1>17


LEMMA PayloadByteStep ==
  ASSUME IInv, NEW b \in Byte, PayloadByte(b)
  PROVE  IInv'
<1>0. /\ TypeOK /\ ended' = FALSE /\ delivered' = <<>> /\ state' = 2 /\ StorePayload(b)
      /\ payload_pos' # payload_len /\ magic_acc' = magic_acc
  BY DEF IInv, PayloadByte, StorePayload, Record
<1>1. seg' \in Seq(Byte) /\ Line' = seg'
  BY <1>0, StepShape DEF Feed
<1>2. /\ hdr' = hdr /\ payload_len' = payload_len /\ crc_expect' = crc_expect
      /\ crc_acc' \in Seq(Byte) /\ pbuf' \in Seq(Byte) /\ Len(pbuf') <= PbufSize
      /\ payload_pos' \in Nat /\ payload_pos' <= payload_len
  BY <1>0, PayloadGrows DEF Feed
<1>3. PICK i \in 1 .. Len(seg') + 1, h \in Nat \ {0} :
        /\ Reached(seg', i) /\ MagicAt(seg', i) # 0 /\ h = MagicAt(seg', i) + Len(Magic)
        /\ Len(seg') = h + 3 + payload_pos' /\ HeaderText(seg', h) /\ HeaderFields
        /\ crc_acc' = SubSeq(seg', h, h + 2) \o SubSeq(seg', h + 4, Len(seg'))
        /\ payload_pos' <= PbufSize =>
             /\ payload_pos' <= Len(pbuf')
             /\ SubSeq(pbuf', 1, payload_pos') = SubSeq(seg', h + 4, Len(seg'))
  BY <1>0, PayloadGrows DEF Feed
<1>4. payload_pos' < payload_len'
  BY <1>0, <1>2 DEF TypeOK
<1>5. Placed'
  <2>1. HeaderText(Line, h)' /\ HeaderFields'
    BY <1>1, <1>2, <1>3 DEF HeaderText, HeaderFields
  <2>2. Summed(Line, h)'
    BY <1>1, <1>3 DEF Summed
  <2>3. Stored(Line, h)'
    BY <1>1, <1>3 DEF Stored
  <2>4. InPayload(i)'
    BY <1>0, <1>1, <1>3, <1>4, <2>1, <2>2, <2>3 DEF InPayload
  <2> QED BY <1>1, <1>3, <2>4 DEF Placed
<1>6. TypeOK'
  <2>1. delivered' \in Seq([cmd : Byte, payload : Seq(Byte)]) /\ Len(delivered') <= 1
    BY <1>0
  <2> QED BY <1>0, <1>1, <1>2, <2>1 DEF TypeOK
<1> QED BY <1>0, <1>5, <1>6 DEF IInv, Framed

LEMMA PayloadDoneStep ==
  ASSUME IInv, NEW b \in Byte, PayloadDone(b)
  PROVE  IInv'
<1>0. /\ TypeOK /\ ended' = TRUE /\ state' = 0 /\ StorePayload(b) /\ payload_pos' = payload_len
      /\ magic_acc' = NoMagic
      /\ delivered' = IF Crc(crc_acc') = crc_expect /\ payload_len <= PbufSize
                      THEN <<[cmd |-> hdr[2], payload |-> pbuf']>> ELSE <<>>
  BY DEF IInv, PayloadDone, Record, Dispatched, HdrCmd
<1>1. seg' \in Seq(Byte) /\ NoMagic \in Seq(Byte) /\ Len(NoMagic) = Len(Magic)
  <2>1. Len(Magic) \in Nat /\ 0 \in Byte
    BY StreamParserAssumption
  <2>2. NoMagic \in Seq(Byte) /\ Len(NoMagic) = Len(Magic)
    BY <2>1, SeqDef DEF NoMagic
  <2> QED BY <1>0, <2>2, StepShape DEF Feed
<1>2. /\ hdr' = hdr /\ payload_len' = payload_len /\ crc_expect' = crc_expect
      /\ crc_acc' \in Seq(Byte) /\ pbuf' \in Seq(Byte) /\ Len(pbuf') <= PbufSize
      /\ payload_pos' \in Nat
  BY <1>0, PayloadGrows DEF Feed
<1>3. PICK i \in 1 .. Len(seg') + 1, h \in Nat \ {0} :
        /\ Reached(seg', i) /\ MagicAt(seg', i) # 0 /\ h = MagicAt(seg', i) + Len(Magic)
        /\ Len(seg') = h + 3 + payload_pos' /\ HeaderText(seg', h) /\ HeaderFields
        /\ crc_acc' = SubSeq(seg', h, h + 2) \o SubSeq(seg', h + 4, Len(seg'))
        /\ payload_pos' <= PbufSize => pbuf' = SubSeq(seg', h + 4, Len(seg'))
  BY <1>0, PayloadGrows DEF Feed
<1>4. /\ Len(seg') = h + 3 + payload_len /\ payload_len \in Nat
      /\ payload_len <= PbufSize => pbuf' = SubSeq(seg', h + 4, Len(seg'))
  BY <1>0, <1>2, <1>3
<1>5. /\ hdr \in Seq(Byte) /\ hdr[1] = seg'[h] /\ hdr[2] = seg'[h + 1] /\ hdr[3] = seg'[h + 2]
      /\ hdr[4] = seg'[h + 3] /\ hdr[2] \in Byte
  <2>1. hdr = SubSeq(seg', h, h + 3) /\ hdr \in Seq(Byte)
    BY <1>3 DEF HeaderText
  <2>2. h + 3 \in 0 .. Len(seg') /\ (h + 3 - h) + 1 = 4
    BY <1>4
  <2>3. \A k \in 1 .. ((h + 3) - h) + 1 : SubSeq(seg', h, h + 3)[k] = seg'[(h + k) - 1]
    BY <1>1, <2>2, SubType
  <2>4. ((h + 3) - h) + 1 = 4
    OBVIOUS
  <2>5. \A k \in 1 .. 4 : hdr[k] = seg'[(h + k) - 1]
    BY <2>1, <2>3, <2>4
  <2>6. (h + 1) - 1 = h /\ (h + 2) - 1 = h + 1 /\ (h + 3) - 1 = h + 2 /\ (h + 4) - 1 = h + 3
    OBVIOUS
  <2>7. hdr[1] = seg'[(h + 1) - 1] /\ hdr[2] = seg'[(h + 2) - 1]
    BY <2>5
  <2>8. hdr[3] = seg'[(h + 3) - 1] /\ hdr[4] = seg'[(h + 4) - 1]
    BY <2>5
  <2>9. seg'[h + 1] \in Byte
    <3>1. h + 1 \in 1 .. Len(seg')
      BY <1>4
    <3> QED BY <1>1, <3>1, ElementOfSeq
  <2> QED BY <2>1, <2>6, <2>7, <2>8, <2>9
<1>6. hdr[1] = Version /\ payload_len = hdr[3] /\ crc_expect = hdr[4]
  BY <1>3 DEF HeaderFields
<1>7. EndsWhole(seg', i, h)
  <2>1. seg'[h] = Version /\ seg'[h + 2] = payload_len
    BY <1>5, <1>6
  <2>2. h + 3 <= Len(seg') /\ h + 3 + payload_len = Len(seg')
    BY <1>4
  <2> QED BY <1>3, <2>1, <2>2 DEF EndsWhole
<1>8. MatchesReference'
  <2>1. Reference(seg') =
          IF /\ Crc(SubSeq(seg', h, h + 2) \o SubSeq(seg', h + 4, Len(seg'))) = seg'[h + 3]
             /\ seg'[h + 2] <= PbufSize
          THEN <<[cmd |-> seg'[h + 1], payload |-> SubSeq(seg', h + 4, Len(seg'))]>> ELSE <<>>
    BY <1>1, <1>3, <1>7, WholeFrame
  <2>2. SubSeq(seg', h, h + 2) \o SubSeq(seg', h + 4, Len(seg')) = crc_acc'
    BY <1>3
  <2>3. /\ crc_expect = seg'[h + 3] /\ seg'[h + 2] = payload_len
        /\ hdr[2] = seg'[h + 1]
    BY <1>5, <1>6
  <2>4. Reference(seg') = IF Crc(crc_acc') = crc_expect /\ payload_len <= PbufSize
                          THEN <<[cmd |-> hdr[2], payload |-> SubSeq(seg', h + 4, Len(seg'))]>>
                          ELSE <<>>
    BY <2>1, <2>2, <2>3
  <2>5. CASE payload_len <= PbufSize
    <3>1. pbuf' = SubSeq(seg', h + 4, Len(seg'))
      BY <1>4, <2>5
    <3> QED BY <1>0, <2>4, <3>1 DEF MatchesReference
  <2>6. CASE ~(payload_len <= PbufSize)
    BY <1>0, <2>4, <2>6 DEF MatchesReference
  <2> QED BY <2>5, <2>6
<1>9. Framed'
  BY <1>1, <1>3, <1>7, WholeFrame DEF Framed
<1>10. TypeOK'
  <2>1. delivered' \in Seq([cmd : Byte, payload : Seq(Byte)]) /\ Len(delivered') <= 1
    <3> DEFINE msg == [cmd |-> hdr[2], payload |-> pbuf']
    <3>1. msg \in [cmd : Byte, payload : Seq(Byte)]
      BY <1>2, <1>5
    <3>2. delivered' = <<>> \/ delivered' = <<msg>>
      BY <1>0
    <3> HIDE DEF msg
    <3>3. CASE delivered' = <<>>
      BY <3>3
    <3>4. CASE delivered' = <<msg>>
      BY <3>1, <3>4
    <3> QED BY <3>2, <3>3, <3>4
  <2> QED BY <1>0, <1>1, <1>2, <2>1 DEF TypeOK
<1> QED BY <1>0, <1>8, <1>9, <1>10, AtRest DEF IInv

-----------------------------------------------------------------------------
(* The invariant, and what follows from it.                                *)

LEMMA IInvNext == IInv /\ [Next]_vars => IInv'
<1> SUFFICES ASSUME IInv, [Next]_vars PROVE IInv'
  OBVIOUS
<1>1. ASSUME NEW b \in Byte, Feed(b) PROVE IInv'
  <2>1. CASE FindMagic(b)
    BY <2>1, FindMagicStep
  <2>2. CASE HeaderByte(b)
    BY <2>2, HeaderByteStep
  <2>3. CASE BadVersion(b)
    BY <2>3, BadVersionStep
  <2>4. CASE HeaderWithPayload(b)
    BY <2>4, HeaderWithPayloadStep
  <2>5. CASE HeaderOnly(b)
    BY <2>5, HeaderOnlyStep
  <2>6. CASE PayloadByte(b)
    BY <2>6, PayloadByteStep
  <2>7. CASE PayloadDone(b)
    BY <2>7, PayloadDoneStep
  <2> QED BY <1>1, <2>1, <2>2, <2>3, <2>4, <2>5, <2>6, <2>7 DEF Feed
<1>2. CASE UNCHANGED vars
  <2>1. TypeOK'
    BY <1>2 DEF vars, parser, IInv, TypeOK
  <2>2. Line' = Line
    BY <1>2 DEF vars, parser, Line
  <2>3. Placed'
    <3>1. ASSUME NEW i PROVE /\ Searching(i)' <=> Searching(i)
                             /\ InHeader(i)' <=> InHeader(i)
      BY <1>2, <2>2 DEF vars, parser, Searching, InHeader
    <3>2. ASSUME NEW h PROVE /\ HeaderText(Line, h)' <=> HeaderText(Line, h)
                             /\ HeaderFields' <=> HeaderFields
                             /\ Summed(Line, h)' <=> Summed(Line, h)
                             /\ Stored(Line, h)' <=> Stored(Line, h)
      BY <1>2, <2>2 DEF vars, parser, HeaderText, HeaderFields, Summed, Stored
    <3>3. ASSUME NEW i PROVE InPayload(i)' <=> InPayload(i)
      BY <1>2, <2>2, <3>2 DEF vars, parser, InPayload
    <3> QED BY <2>2, <3>1, <3>3 DEF IInv, Placed
  <2>4. Framed' /\ (ended' => MatchesReference')
    BY <1>2 DEF vars, parser, IInv, Framed, MatchesReference
  <2> QED BY <1>2, <2>1, <2>3, <2>4 DEF vars, parser, IInv
<1> QED BY <1>1, <1>2 DEF Next

\* While no frame has ended, the whole-string reading finds none either.
LEMMA UnfinishedReadsNothing == IInv /\ ~ended => Reference(seg) = <<>>
<1> SUFFICES ASSUME IInv, ~ended PROVE Reference(seg) = <<>>
  OBVIOUS
<1>0. seg \in Seq(Byte) /\ Line = seg /\ Len(Magic) \in Nat \ {0} /\ Len(seg) \in Nat /\ TypeOK
  BY StreamParserAssumption DEF IInv, TypeOK, Line
<1>1. PICK i \in 1 .. Len(seg) + 1 :
        Reached(seg, i) /\ (Searching(i) \/ InHeader(i) \/ InPayload(i))
  BY <1>0 DEF IInv, Placed
<1> DEFINE m == MagicAt(seg, i)
           h == m + Len(Magic)
<1>2. m \in Nat
  BY <1>0, <1>1, FirstMagic
<1> DEFINE at == HeaderAt(seg)
<1>3. CASE Searching(i)
  <2>1. m = 0
    BY <1>0, <1>3 DEF Searching
  <2>2. at = 0
    BY <1>0, <1>1, <2>1, HeaderFound
  <2> QED BY <2>2 DEF Reference
<1>4. CASE InHeader(i)
  <2>1. m # 0 /\ h + Len(hdr) = Len(seg) + 1 /\ Len(hdr) < 4
    BY <1>0, <1>4 DEF InHeader, HdrLen
  <2>2. Len(hdr) \in Nat
    BY <1>0 DEF TypeOK
  <2> HIDE DEF m
  <2>3. ~(h + HdrLen <= Len(seg) + 1) /\ h \in Nat
    BY <1>0, <1>2, <2>1, <2>2 DEF HdrLen
  <2>4. CASE h > Len(seg)
    <3>1. at = 0
      BY <1>0, <1>1, <2>4, HeaderFound DEF m
    <3> QED BY <3>1 DEF Reference
  <2>5. CASE h <= Len(seg)
    <3>0. h + HdrLen > Len(seg) + 1
      BY <1>0, <2>3 DEF HdrLen
    <3>1. at = h
      BY <1>0, <1>1, <2>1, <2>5, <3>0, HeaderFound DEF m
    <3>2. ~(at + HdrLen <= Len(seg) + 1)
      BY <2>3, <3>1
    <3> HIDE DEF at
    <3> QED BY <3>2, Zenon DEF Reference, at
  <2> QED BY <1>0, <2>3, <2>4, <2>5
<1>5. CASE InPayload(i)
  <2>1. m # 0 /\ Len(seg) = h + 3 + payload_pos /\ payload_pos < payload_len
    BY <1>0, <1>5 DEF InPayload
  <2>2. HeaderText(seg, h) /\ HeaderFields
    BY <1>0, <1>5 DEF InPayload
  <2> HIDE DEF m
  <2>3. payload_pos \in Nat /\ payload_len \in Nat /\ h \in Nat \ {0}
    BY <1>0, <1>2 DEF TypeOK
  <2> HIDE DEF h
  <2>4. seg[h] = Version /\ seg[h + 2] = payload_len
    <3>1. h + 3 \in 0 .. Len(seg)
      BY <1>0, <2>1, <2>3
    <3>2. \A k \in 1 .. ((h + 3) - h) + 1 : SubSeq(seg, h, h + 3)[k] = seg[(h + k) - 1]
      BY <1>0, <2>3, <3>1, SubType
    <3>3. ((h + 3) - h) + 1 = 4 /\ (h + 1) - 1 = h /\ (h + 3) - 1 = h + 2
      BY <2>3
    <3>4. \A k \in 1 .. 4 : SubSeq(seg, h, h + 3)[k] = seg[(h + k) - 1]
      BY <3>2, <3>3
    <3> DEFINE hd == SubSeq(seg, h, h + 3)
    <3>5. hd[1] = seg[(h + 1) - 1] /\ hd[3] = seg[(h + 3) - 1]
      <4>1. \A k \in 1 .. 4 : hd[k] = seg[(h + k) - 1]
        BY <3>4
      <4> HIDE DEF hd
      <4> QED BY <4>1
    <3>6. SubSeq(seg, h, h + 3)[1] = seg[h] /\ SubSeq(seg, h, h + 3)[3] = seg[h + 2]
      BY <3>3, <3>5
    <3> QED BY <2>2, <3>6 DEF HeaderText, HeaderFields
  <2>5. h <= Len(seg) /\ h + HdrLen + payload_len # Len(seg) + 1
    BY <2>1, <2>3 DEF HdrLen
  <2>6. at = h
    BY <1>0, <1>1, <2>1, <2>4, <2>5, HeaderFound DEF m, h
  <2>7. ~(at + HdrLen + seg[at + 2] = Len(seg) + 1)
    BY <2>4, <2>5, <2>6
  <2> HIDE DEF at
  <2> QED BY <2>7, Zenon DEF Reference, at
<1> QED BY <1>1, <1>3, <1>4, <1>5

THEOREM Invariance == Spec => []IInv
<1> QED BY InitPlaced, IInvNext, PTL DEF Spec

\* The parser keeps its types: hdr and pbuf are never written beyond their
\* size, whatever arrives on the line.
THEOREM ParserTypeCorrect == Spec => []TypeOK
<1>1. IInv => TypeOK
  BY DEF IInv
<1> QED BY <1>1, Invariance, PTL

\* Byte by byte the parser delivers what the whole-string reading delivers.
THEOREM MatchesWholeString == Spec => []MatchesReference
<1>1. IInv => MatchesReference
  BY UnfinishedReadsNothing DEF IInv, MatchesReference
<1> QED BY <1>1, Invariance, PTL


-----------------------------------------------------------------------------
(* The host's reading.                                                     *)

Msgs == [cmd : Byte, payload : Seq(Byte)]

\* The header at i, where the buffer holds it whole, and the frame's end.
LEMMA HostHeader ==
  ASSUME NEW s \in Seq(Byte), NEW i \in Nat \ {0}, i + FrameHead <= Len(s) + 1
  PROVE  /\ HdrAt(s, i) = SubSeq(s, i + Len(Magic), i + Len(Magic) + 3)
         /\ HdrAt(s, i) \in Seq(Byte) /\ Len(HdrAt(s, i)) = 4
         /\ \A k \in 1 .. 4 : HdrAt(s, i)[k] = s[(i + Len(Magic) + k) - 1]
         /\ HdrCmd(HdrAt(s, i)) \in Byte /\ HdrLength(HdrAt(s, i)) \in Nat
         /\ EndAt(s, i) \in Nat /\ EndAt(s, i) >= i + FrameHead
         /\ FrameHead = Len(Magic) + 4 /\ Len(Magic) \in Nat \ {0} /\ Len(s) \in Nat
<1> DEFINE a == i + Len(Magic)
           hd == HdrAt(s, i)
<1>0. /\ Len(Magic) \in Nat \ {0} /\ FrameHead = Len(Magic) + 4 /\ Byte \subseteq Nat
      /\ Len(s) \in Nat /\ a \in Nat \ {0} /\ a + 3 \in 0 .. Len(s)
  BY StreamParserAssumption DEF FrameHead, HdrLen
<1>1. hd = SubSeq(s, a, a + 3)
  <2>1. i + (FrameHead - 1) = a + 3
    BY <1>0
  <2> QED BY <2>1 DEF HdrAt
<1> HIDE DEF a, hd
<1>2. /\ hd \in Seq(Byte) /\ Len(hd) = 4
      /\ \A k \in 1 .. 4 : hd[k] = s[(a + k) - 1]
  <2>1. ((a + 3) - a) + 1 = 4 /\ a <= a + 3
    BY <1>0
  <2> QED BY <1>0, <1>1, <2>1, SubType
<1>3. HdrCmd(hd) \in Byte /\ HdrLength(hd) \in Nat
  <2>1. \A k \in 1 .. Len(hd) : hd[k] \in Byte
    BY <1>2, ElementOfSeq
  <2>2. hd[2] \in Byte /\ hd[3] \in Byte
    BY <1>2, <2>1
  <2> QED BY <1>0, <2>2 DEF HdrCmd, HdrLength
<1>4. EndAt(s, i) \in Nat /\ EndAt(s, i) >= i + FrameHead
  <2>1. EndAt(s, i) = i + FrameHead + HdrLength(hd)
    BY DEF EndAt, hd
  <2> QED BY <1>0, <1>3, <2>1
<1> QED BY <1>0, <1>1, <1>2, <1>3, <1>4 DEF a, hd

\* The payload of a frame the buffer holds to its end.
LEMMA HostPayload ==
  ASSUME NEW s \in Seq(Byte), NEW i \in Nat \ {0}, i + FrameHead <= Len(s) + 1,
         EndAt(s, i) <= Len(s) + 1
  PROVE  /\ PayloadAt(s, i) = SubSeq(s, i + FrameHead, EndAt(s, i) - 1)
         /\ PayloadAt(s, i) \in Seq(Byte) /\ MsgAt(s, i) \in Msgs
<1> DEFINE end == EndAt(s, i)
<1>0. /\ end \in Nat /\ end >= i + FrameHead /\ FrameHead \in Nat \ {0} /\ Len(s) \in Nat
      /\ HdrCmd(HdrAt(s, i)) \in Byte
  BY HostHeader
<1> HIDE DEF end
<1>1. Min({end - 1, Len(s)}) = end - 1
  <2>1. {end - 1, Len(s)} \in SUBSET Nat /\ end - 1 <= Len(s)
    BY <1>0 DEF end
  <2>2. /\ Min({end - 1, Len(s)}) \in {end - 1, Len(s)}
        /\ \A y \in {end - 1, Len(s)} : Min({end - 1, Len(s)}) <= y
    BY <2>1, Least
  <2> QED BY <1>0, <2>1, <2>2
<1>2. PayloadAt(s, i) = SubSeq(s, i + FrameHead, end - 1)
  BY <1>1 DEF PayloadAt, end
<1>3. PayloadAt(s, i) \in Seq(Byte)
  <2>1. i + FrameHead \in Nat \ {0} /\ end - 1 \in 0 .. Len(s)
    BY <1>0 DEF end
  <2> QED BY <1>2, <2>1, SubType
<1> QED BY <1>0, <1>2, <1>3 DEF MsgAt, Msgs, end

\* What the search does at i: it stops, or goes on, with a message or without.
Stops(s, i) ==
  \/ i + FrameHead > Len(s) + 1
  \/ /\ SubSeq(s, i, i + Len(Magic) - 1) = Magic /\ HdrVersion(HdrAt(s, i)) = Version
     /\ EndAt(s, i) > Len(s) + 1
Takes(s, i) ==
  /\ SubSeq(s, i, i + Len(Magic) - 1) = Magic /\ HdrVersion(HdrAt(s, i)) = Version
  /\ SumsUp(s, i)
GoesTo(s, i) == IF Takes(s, i) THEN EndAt(s, i) ELSE i + 1
Found(s, i)  == IF Takes(s, i) THEN <<MsgAt(s, i)>> ELSE <<>>

LEMMA GoesOn ==
  ASSUME NEW s \in Seq(Byte), NEW i \in 1 .. Len(s) + 1, ~Stops(s, i)
  PROVE  /\ GoesTo(s, i) \in 1 .. Len(s) + 1 /\ GoesTo(s, i) > i
         /\ i + FrameHead <= Len(s) + 1
         /\ Takes(s, i) => EndAt(s, i) <= Len(s) + 1 /\ MsgAt(s, i) \in Msgs
<1>0. i \in Nat \ {0} /\ i + FrameHead <= Len(s) + 1 /\ Len(s) \in Nat
  BY StreamParserAssumption DEF Stops, FrameHead, HdrLen
<1>1. /\ EndAt(s, i) \in Nat /\ EndAt(s, i) >= i + FrameHead
      /\ FrameHead = Len(Magic) + 4 /\ Len(Magic) \in Nat \ {0}
  BY <1>0, HostHeader
<1>2. CASE Takes(s, i)
  <2>1. EndAt(s, i) <= Len(s) + 1
    BY <1>0, <1>1, <1>2 DEF Stops, Takes
  <2>2. MsgAt(s, i) \in Msgs
    BY <1>0, <2>1, HostPayload
  <2> QED BY <1>0, <1>1, <1>2, <2>1, <2>2 DEF GoesTo
<1>3. CASE ~Takes(s, i)
  BY <1>0, <1>1, <1>3 DEF GoesTo
<1> QED BY <1>2, <1>3

\* DecodeStream's recursion has a solution, and so is what it says.
LEMMA DecodeUnfolds ==
  ASSUME NEW s \in Seq(Byte)
  PROVE  \E f : /\ DecodeStream(s) = f[1]
                /\ \A i \in 1 .. Len(s) + 1 :
                     f[i] = IF Stops(s, i) THEN <<>>
                            ELSE IF Takes(s, i) THEN <<MsgAt(s, i)>> \o f[EndAt(s, i)]
                            ELSE f[i + 1]
<1> DEFINE n == Len(s)
           D == 1 .. n + 1
           Step(f, i) == IF Stops(s, i) THEN <<>>
                         ELSE IF Takes(s, i) THEN <<MsgAt(s, i)>> \o f[EndAt(s, i)]
                         ELSE f[i + 1]
           Text(f, i) ==
             IF i + FrameHead > n + 1 THEN <<>>
             ELSE IF SubSeq(s, i, i + Len(Magic) - 1) # Magic \/ HdrVersion(HdrAt(s, i)) # Version
             THEN f[i + 1]
             ELSE IF EndAt(s, i) > n + 1 THEN <<>>
             ELSE IF ~SumsUp(s, i) THEN f[i + 1]
             ELSE <<MsgAt(s, i)>> \o f[EndAt(s, i)]
           Def(f) == f = [i \in D |-> Text(f, i)]
           From(k) == \E f : \A i \in D : i + k > n + 1 => f[i] = Step(f, i)
           Bad == {k \in Nat : ~From(k)}
<1>0. n \in Nat
  OBVIOUS
<1>1. ASSUME NEW i \in D, ~Stops(s, i)
      PROVE  GoesTo(s, i) \in D /\ GoesTo(s, i) > i
  BY <1>1, GoesOn
<1>2. \A f, i : Text(f, i) = Step(f, i)
  BY DEF Stops, Takes
<1> HIDE DEF n, Text
<1>3. From(0)
  BY <1>0
<1>4. ASSUME NEW k \in Nat, From(k), k <= n PROVE From(k + 1)
  <2>1. PICK f : \A i \in D : i + k > n + 1 => f[i] = Step(f, i)
    BY <1>4
  <2> DEFINE j == (n + 1) - k
             g == [i \in D |-> IF i = j THEN Step(f, j) ELSE f[i]]
  <2>2. j \in D
    BY <1>0, <1>4
  <2>3. ASSUME NEW i \in D, i >= j PROVE Step(g, i) = Step(f, i)
    <3>1. CASE Stops(s, i)
      BY <3>1
    <3>2. CASE ~Stops(s, i)
      <4>1. GoesTo(s, i) \in D /\ GoesTo(s, i) # j
        BY <1>0, <1>1, <2>2, <2>3, <3>2
      <4>2. g[GoesTo(s, i)] = f[GoesTo(s, i)]
        BY <4>1
      <4> HIDE DEF g
      <4> QED BY <3>2, <4>2 DEF GoesTo
    <3> QED BY <3>1, <3>2
  <2>4. ASSUME NEW i \in D, i + (k + 1) > n + 1 PROVE g[i] = Step(g, i)
    <3>1. i >= j
      BY <2>4, <1>0, <1>4
    <3>2. Step(g, i) = Step(f, i)
      BY <3>1, <2>3
    <3>3. g[i] = Step(f, i)
      <4> HIDE DEF Step
      <4>1. CASE i = j
        BY <4>1
      <4>2. CASE i # j
        <5>1. i + k > n + 1
          BY <4>2, <3>1, <1>0, <1>4
        <5> QED BY <4>2, <5>1, <2>1
      <4> QED BY <4>1, <4>2
    <3> HIDE DEF g, Step
    <3> QED BY <3>2, <3>3
  <2> HIDE DEF g, Step
  <2> QED BY <2>4
<1>5. From(n + 1)
  <2> SUFFICES ASSUME ~From(n + 1) PROVE FALSE
    OBVIOUS
  <2> HIDE DEF From
  <2>1. n + 1 \in Bad /\ Bad \in SUBSET Nat
    BY <1>0
  <2>2. Min(Bad) \in Bad /\ \A y \in Bad : Min(Bad) <= y
    BY <2>1, Least
  <2> DEFINE m == Min(Bad)
  <2>3. m \in Nat /\ ~From(m) /\ m <= n + 1
    BY <2>1, <2>2
  <2> HIDE DEF m
  <2>4. m # 0
    BY <2>3, <1>3
  <2>5. m - 1 \in Nat /\ m - 1 <= n /\ (m - 1) + 1 = m
    BY <2>3, <2>4, <1>0
  <2>6. From(m - 1)
    BY <2>2, <2>5 DEF m
  <2> QED BY <2>3, <2>5, <2>6, <1>4
<1>6. PICK f : \A i \in D : f[i] = Step(f, i)
  <2>1. \A i \in D : i + (n + 1) > n + 1
    BY <1>0
  <2> HIDE DEF Step
  <2> QED BY <1>5, <2>1
<1> DEFINE g == [i \in D |-> f[i]]
<1>7. ASSUME NEW i \in D PROVE Step(g, i) = Step(f, i)
  <2>1. CASE Stops(s, i)
    BY <2>1
  <2>2. CASE ~Stops(s, i)
    <3>1. g[GoesTo(s, i)] = f[GoesTo(s, i)]
      BY <2>2, <1>1
    <3> HIDE DEF g
    <3> QED BY <2>2, <3>1 DEF GoesTo
  <2> QED BY <2>1, <2>2
<1>8. Def(g)
  <2> HIDE DEF Step
  <2>1. \A i \in D : g[i] = Text(g, i)
    <3>1. \A i \in D : g[i] = Step(g, i)
      BY <1>6, <1>7
    <3> QED BY <1>2, <3>1
  <2> QED BY <2>1
<1> DEFINE from == CHOOSE e : Def(e)
<1>9. Def(from)
  <2> HIDE DEF Def
  <2> QED BY <1>8
<1>10. DecodeStream(s) = from[1]
  BY DEF DecodeStream, n, Text
<1>11. \A i \in D : from[i] = Step(from, i)
  <2> HIDE DEF from
  <2>1. from = [i \in D |-> Text(from, i)]
    BY <1>9
  <2> HIDE DEF Step
  <2> QED BY <1>2, <2>1
<1> HIDE DEF from
<1> QED BY <1>10, <1>11 DEF n


\* Where the search begins behind what holds no magic.
LEMMA SearchSkips ==
  ASSUME NEW s \in Seq(Byte), NEW f, NEW p \in Nat \ {0}, p + FrameHead <= Len(s) + 1,
         \A i \in 1 .. p - 1 : SubSeq(s, i, i + Len(Magic) - 1) # Magic,
         \A i \in 1 .. Len(s) + 1 :
           f[i] = IF Stops(s, i) THEN <<>>
                  ELSE IF Takes(s, i) THEN <<MsgAt(s, i)>> \o f[EndAt(s, i)]
                  ELSE f[i + 1]
  PROVE  f[1] = f[p]
<1> DEFINE S == {k \in Nat : k + 1 \in 1 .. p /\ f[k + 1] # f[1]}
<1>0. Len(s) \in Nat /\ FrameHead \in Nat
  BY StreamParserAssumption DEF FrameHead, HdrLen
<1> SUFFICES ASSUME f[p] # f[1] PROVE FALSE
  OBVIOUS
<1>1. p - 1 \in S /\ S \in SUBSET Nat
  BY <1>0
<1>2. Min(S) \in S /\ \A y \in S : Min(S) <= y
  BY <1>1, Least
<1> DEFINE m == Min(S)
<1>3. m \in Nat /\ m + 1 \in 1 .. p /\ f[m + 1] # f[1]
  BY <1>2
<1> HIDE DEF m
<1>4. m # 0
  BY <1>3
<1>5. m \in 1 .. p - 1 /\ m - 1 \in Nat /\ (m - 1) + 1 = m /\ m \in 1 .. Len(s) + 1
  BY <1>0, <1>3, <1>4
<1>6. f[m] = f[1]
  <2>1. m - 1 \notin S
    BY <1>2, <1>5 DEF m
  <2> QED BY <1>5, <2>1
<1>7. SubSeq(s, m, m + Len(Magic) - 1) # Magic
  BY <1>5
<1>8. ~Stops(s, m) /\ ~Takes(s, m)
  BY <1>0, <1>5, <1>7 DEF Stops, Takes
<1>9. f[m] = f[m + 1]
  BY <1>5, <1>8
<1> QED BY <1>3, <1>6, <1>9

LEMMA LenOfConcat ==
  ASSUME NEW S, NEW u \in Seq(S), NEW v \in Seq(S)
  PROVE  u \o v \in Seq(S) /\ Len(u \o v) = Len(u) + Len(v)
  BY ConcatProperties

LEMMA SidesAgreeInv == IInv => SidesAgree
<1> DEFINE n == Len(seg) - Len(Encode(delivered[1]))
<1> SUFFICES ASSUME IInv, delivered # <<>>,
                    \A i \in 1 .. n : SubSeq(seg, i, i + Len(Magic) - 1) # Magic
             PROVE  DecodeStream(seg) = delivered
  BY Zenon DEF SidesAgree
<1> DEFINE s == seg
           h == HeaderAt(seg)
           len == s[h + 2]
           payload == SubSeq(s, h + HdrLen, h + HdrLen + len - 1)
           sum == Crc(SubSeq(s, h, h + 2) \o payload)
           msg == [cmd |-> s[h + 1], payload |-> payload]
<1>0. s \in Seq(Byte) /\ Len(s) \in Nat /\ Len(Magic) \in Nat \ {0} /\ delivered = Reference(s)
  BY StreamParserAssumption DEF IInv, TypeOK, MatchesReference
<1>1. /\ h + HdrLen <= Len(s) + 1 /\ s[h] = Version /\ h + HdrLen + len = Len(s) + 1
      /\ sum = s[h + 3] /\ delivered = <<msg>>
  BY <1>0, Zenon DEF Reference
<1>2. PICK p \in 1 .. Len(s) : Stands(s, p) /\ h = p + Len(Magic)
  BY DEF IInv, Framed
<1>3. len \in Nat
  <2>1. h + 2 \in 1 .. Len(s)
    BY <1>0, <1>1, <1>2 DEF HdrLen
  <2>2. s[h + 2] \in Byte
    BY <1>0, <2>1, ElementOfSeq
  <2> QED BY <2>2, StreamParserAssumption
<1>4. FrameHead = Len(Magic) + 4 /\ HdrLen = 4
  BY DEF FrameHead, HdrLen
<1>5. /\ p \in Nat \ {0} /\ p + FrameHead = h + 4 /\ p + FrameHead <= Len(s) + 1
      /\ h + 4 + len = Len(s) + 1 /\ h \in Nat \ {0} /\ p + Len(Magic) = h
  <2>1. h + 4 <= Len(s) + 1 /\ h + 4 + len = Len(s) + 1
    BY <1>1, <1>4
  <2> HIDE DEF h, len, s
  <2> QED BY <1>0, <1>2, <1>4, <2>1
<1>6. payload = SubSeq(s, h + 4, Len(s)) /\ payload \in Seq(Byte) /\ Len(payload) = len
  <2> DEFINE last == h + HdrLen + len - 1
  <2> HIDE DEF h, len, s
  <2>1. h + HdrLen = h + 4 /\ last = Len(s)
    BY <1>0, <1>3, <1>4, <1>5
  <2>2. h + 4 \in Nat \ {0} /\ Len(s) \in 0 .. Len(s)
    BY <1>0, <1>5
  <2>3. (IF h + 4 <= Len(s) THEN (Len(s) - (h + 4)) + 1 ELSE 0) = len
    BY <1>0, <1>3, <1>5
  <2>4. /\ SubSeq(s, h + 4, Len(s)) \in Seq(Byte)
        /\ Len(SubSeq(s, h + 4, Len(s)))
             = IF h + 4 <= Len(s) THEN (Len(s) - (h + 4)) + 1 ELSE 0
    BY <1>0, <2>2, SubType
  <2> QED BY <2>1, <2>3, <2>4
<1> HIDE DEF payload
<1>7. n = p - 1
  <2>1. Encode(msg) = Magic \o <<Version, s[h + 1], Len(payload)>>
                        \o <<Crc(<<Version, s[h + 1], Len(payload)>> \o payload)>> \o payload
    BY DEF Encode
  <2> DEFINE x == <<Version, s[h + 1], Len(payload)>>
             y == <<Crc(<<Version, s[h + 1], Len(payload)>> \o payload)>>
             U == {Version, s[h + 1], Len(payload), Crc(<<Version, s[h + 1], Len(payload)>> \o payload)}
                    \cup Byte
  <2>2. x \in Seq(U) /\ Len(x) = 3 /\ y \in Seq(U) /\ Len(y) = 1
    OBVIOUS
  <2>3. payload \in Seq(U) /\ Magic \in Seq(U)
    BY <1>6, StreamParserAssumption
  <2> HIDE DEF x, y, U
  <2>4. Magic \o x \in Seq(U) /\ Len(Magic \o x) = Len(Magic) + 3
    BY <2>2, <2>3, LenOfConcat
  <2>5. (Magic \o x) \o y \in Seq(U) /\ Len((Magic \o x) \o y) = Len(Magic) + 4
    <3> DEFINE z == Magic \o x
    <3>1. z \in Seq(U) /\ Len(z) = Len(Magic) + 3
      BY <2>4
    <3> HIDE DEF z
    <3>2. z \o y \in Seq(U) /\ Len(z \o y) = Len(z) + Len(y)
      BY <2>2, <3>1, LenOfConcat
    <3>3. Len(z \o y) = Len(Magic) + 4
      BY <1>0, <2>2, <3>1, <3>2
    <3> QED BY <3>2, <3>3 DEF z
  <2>6. Len(((Magic \o x) \o y) \o payload) = Len(Magic) + 4 + len
    BY <1>6, <2>3, <2>5, ConcatProperties
  <2>7. Len(Encode(msg)) = Len(Magic) + 4 + len
    BY <2>1, <2>6 DEF x, y
  <2>8. n = Len(s) - (Len(Magic) + 4 + len)
    BY <1>1, <2>7
  <2> HIDE DEF h, len, s, n
  <2> QED BY <1>0, <1>3, <1>5, <2>8
<1>8. PICK f : /\ DecodeStream(s) = f[1]
               /\ \A i \in 1 .. Len(s) + 1 :
                    f[i] = IF Stops(s, i) THEN <<>>
                           ELSE IF Takes(s, i) THEN <<MsgAt(s, i)>> \o f[EndAt(s, i)]
                           ELSE f[i + 1]
  BY <1>0, DecodeUnfolds
<1>9. f[1] = f[p]
  <2>1. \A i \in 1 .. p - 1 : SubSeq(s, i, i + Len(Magic) - 1) # Magic
    BY <1>7
  <2> HIDE DEF n, s, h, len
  <2> QED BY <1>0, <1>5, <1>8, <2>1, SearchSkips
<1> HIDE DEF n
<1>10. /\ HdrAt(s, p) = SubSeq(s, h, h + 3)
       /\ HdrAt(s, p) \in Seq(Byte) /\ Len(HdrAt(s, p)) = 4
       /\ \A k \in 1 .. 4 : HdrAt(s, p)[k] = s[(h + k) - 1]
  <2> HIDE DEF s, h, len
  <2>1. p + Len(Magic) + 3 = h + 3
    BY <1>0, <1>5
  <2> QED BY <1>0, <1>5, <2>1, HostHeader
<1> DEFINE hd == HdrAt(s, p)
<1>11. hd[1] = s[h] /\ hd[2] = s[h + 1] /\ hd[3] = len /\ hd[4] = s[h + 3]
  <2>1. \A k \in 1 .. 4 : hd[k] = s[(h + k) - 1]
    BY <1>10
  <2> HIDE DEF hd, h, s
  <2>2. (h + 1) - 1 = h /\ (h + 2) - 1 = h + 1 /\ (h + 3) - 1 = h + 2 /\ (h + 4) - 1 = h + 3
    BY <1>5
  <2>3. hd[1] = s[(h + 1) - 1] /\ hd[2] = s[(h + 2) - 1]
    BY <2>1
  <2>4. hd[3] = s[(h + 3) - 1] /\ hd[4] = s[(h + 4) - 1]
    BY <2>1
  <2> QED BY <2>2, <2>3, <2>4
<1>12. EndAt(s, p) = Len(s) + 1
  <2>1. EndAt(s, p) = p + FrameHead + len
    BY <1>11 DEF EndAt, HdrLength
  <2> HIDE DEF s, h, len
  <2> QED BY <1>0, <1>3, <1>5, <2>1
<1>13. PayloadAt(s, p) = payload
  <2> HIDE DEF s, h, len
  <2>1. EndAt(s, p) <= Len(s) + 1 /\ EndAt(s, p) - 1 = Len(s)
    BY <1>0, <1>12
  <2>2. PayloadAt(s, p) = SubSeq(s, p + FrameHead, EndAt(s, p) - 1)
    BY <1>0, <1>5, <2>1, HostPayload
  <2> QED BY <1>5, <1>6, <2>1, <2>2
<1>14. SubSeq(s, p, p + Len(Magic) - 1) = Magic
  <2> HIDE DEF s, h, len
  <2>1. p <= (Len(s) - Len(Magic)) + 1
    BY <1>0, <1>3, <1>5
  <2> QED BY <1>0, <1>2, <1>5, <2>1, StandsMeans
<1>15. SubSeq(hd, 1, 3) = SubSeq(s, h, h + 2)
  <2> HIDE DEF s, len, h
  <2>1. /\ h \in 1 .. Len(s) /\ h + 3 \in 1 .. Len(s)
        /\ 1 \in 1 .. ((h + 3) - h) + 1 /\ 3 \in 1 .. ((h + 3) - h) + 1
    BY <1>0, <1>3, <1>5
  <2>2. SubSeq(SubSeq(s, h, h + 3), 1, 3) = SubSeq(s, (h + 1) - 1, (h + 3) - 1)
    BY <1>0, <2>1, SubSeqOfSubSeq
  <2>3. (h + 1) - 1 = h /\ (h + 3) - 1 = h + 2
    BY <1>5
  <2> QED BY <1>10, <2>2, <2>3
<1>16. MsgAt(s, p) = msg /\ SumsUp(s, p)
  <2>1. MsgAt(s, p) = msg
    BY <1>11, <1>13 DEF MsgAt, HdrCmd
  <2>2. Crc(SubSeq(hd, 1, 3) \o payload) = hd[4]
    BY <1>1, <1>11, <1>15
  <2>3. SumsUp(s, p)
    BY <1>13, <2>2 DEF SumsUp, HdrSummed, HdrCrc
  <2> QED BY <2>1, <2>3
<1>17. HdrVersion(HdrAt(s, p)) = Version
  BY <1>1, <1>11 DEF HdrVersion
<1> HIDE DEF hd, msg, sum
<1>18. Takes(s, p)
  BY <1>14, <1>16, <1>17 DEF Takes
<1> HIDE DEF s, h, len
<1>19. ~Stops(s, p) /\ p \in 1 .. Len(s) + 1
  BY <1>0, <1>4, <1>5, <1>12 DEF Stops
<1>20. f[p] = <<MsgAt(s, p)>> \o f[Len(s) + 1]
  BY <1>8, <1>12, <1>18, <1>19
<1>21. f[Len(s) + 1] = <<>>
  <2>1. Stops(s, Len(s) + 1)
    BY <1>0, <1>4 DEF Stops
  <2>2. Len(s) + 1 \in 1 .. Len(s) + 1
    BY <1>0
  <2> QED BY <1>8, <2>1, <2>2
<1>22. f[p] = <<msg>>
  <2>1. <<msg>> \in Seq({msg})
    OBVIOUS
  <2> QED BY <1>16, <1>20, <1>21, <2>1, ConcatEmptySeq
<1> QED BY <1>1, <1>8, <1>9, <1>22 DEF s

\* The host finds the frame that the device's parser has found, where nothing
\* before it is taken for a magic.
THEOREM HostFindsIt == Spec => []SidesAgree
<1> QED BY SidesAgreeInv, Invariance, PTL


-----------------------------------------------------------------------------
(* Reading again.                                                          *)

LEMMA Downward ==
  ASSUME NEW n \in Nat, NEW G,
         \A i \in 1 .. n : (\A j \in 1 .. n : j > i => j \in G) => i \in G
  PROVE  \A i \in 1 .. n : i \in G
<1> DEFINE S == {k \in Nat : n - k \in 1 .. n /\ n - k \notin G}
<1> SUFFICES ASSUME NEW i \in 1 .. n, i \notin G PROVE FALSE
  OBVIOUS
<1>1. n - i \in S /\ S \in SUBSET Nat
  <2>1. n - i \in Nat /\ n - (n - i) = i
    OBVIOUS
  <2> QED BY <2>1
<1>2. Min(S) \in S /\ \A y \in S : Min(S) <= y
  BY <1>1, Least
<1> DEFINE m == Min(S)
<1>3. m \in Nat /\ n - m \in 1 .. n /\ n - m \notin G
  BY <1>2
<1> HIDE DEF m
<1>4. ASSUME NEW j \in 1 .. n, j > n - m PROVE j \in G
  <2>1. n - j \in Nat /\ n - (n - j) = j /\ ~(m <= n - j)
    BY <1>3, <1>4
  <2>2. n - j \notin S
    BY <1>2, <2>1 DEF m
  <2> QED BY <2>1, <2>2
<1> QED BY <1>3, <1>4

\* A byte more changes nothing where the search has not stopped.
LEMMA SameFrame ==
  ASSUME NEW s \in Seq(Byte), NEW b \in Byte, NEW i \in 1 .. Len(s) + 1, ~Stops(s, i)
  PROVE  LET t == Append(s, b)
         IN  /\ ~Stops(t, i) /\ (Takes(t, i) <=> Takes(s, i)) /\ EndAt(t, i) = EndAt(s, i)
             /\ Takes(s, i) => MsgAt(t, i) = MsgAt(s, i)
<1> DEFINE t == Append(s, b)
           n == Len(s)
           L == Len(Magic)
<1>0. /\ L \in Nat \ {0} /\ FrameHead = L + 4 /\ n \in Nat /\ t \in Seq(Byte) /\ Len(t) = n + 1
      /\ i \in Nat \ {0}
  BY StreamParserAssumption DEF FrameHead, HdrLen
<1>1. i + FrameHead <= n + 1
  BY GoesOn
<1>2. \A m \in 1 .. n + 1 : \A k \in 0 .. n : SubSeq(t, m, k) = SubSeq(s, m, k)
  BY SubGrows
<1> HIDE DEF t, n, L
<1>3. SubSeq(t, i, i + Len(Magic) - 1) = SubSeq(s, i, i + Len(Magic) - 1)
  <2>1. i \in 1 .. n + 1 /\ i + (L - 1) \in 0 .. n
    BY <1>0, <1>1
  <2> QED BY <1>2, <2>1 DEF L
<1>4. HdrAt(t, i) = HdrAt(s, i)
  <2>1. i + L \in 1 .. n + 1 /\ i + (FrameHead - 1) \in 0 .. n
    BY <1>0, <1>1
  <2> QED BY <1>2, <2>1 DEF HdrAt, L
<1>5. EndAt(t, i) = EndAt(s, i)
  BY <1>4 DEF EndAt
<1>6. EndAt(s, i) \in Nat /\ EndAt(s, i) >= i + FrameHead
  BY <1>0, <1>1, HostHeader DEF n
<1>7. ASSUME EndAt(s, i) <= n + 1 PROVE PayloadAt(t, i) = PayloadAt(s, i)
  <2>1. PayloadAt(s, i) = SubSeq(s, i + FrameHead, EndAt(s, i) - 1)
    BY <1>0, <1>1, <1>7, HostPayload DEF n
  <2>2. PayloadAt(t, i) = SubSeq(t, i + FrameHead, EndAt(t, i) - 1)
    <3>1. i + FrameHead <= Len(t) + 1 /\ EndAt(t, i) <= Len(t) + 1
      BY <1>0, <1>1, <1>5, <1>6, <1>7
    <3> QED BY <1>0, <3>1, HostPayload
  <2>3. i + FrameHead \in 1 .. n + 1 /\ EndAt(s, i) - 1 \in 0 .. n
    BY <1>0, <1>1, <1>6, <1>7
  <2> QED BY <1>2, <1>5, <2>1, <2>2, <2>3
<1>8. CASE SubSeq(s, i, i + Len(Magic) - 1) = Magic /\ HdrVersion(HdrAt(s, i)) = Version
  <2>1. EndAt(s, i) <= n + 1
    BY <1>0, <1>6, <1>8 DEF Stops, n
  <2>2. PayloadAt(t, i) = PayloadAt(s, i)
    BY <1>7, <2>1
  <2>3. ~Stops(t, i)
    <3>1. ~(i + FrameHead > Len(t) + 1) /\ ~(EndAt(t, i) > Len(t) + 1)
      BY <1>0, <1>1, <1>5, <1>6, <2>1
    <3> QED BY <3>1 DEF Stops
  <2>4. Takes(t, i) <=> Takes(s, i)
    BY <1>3, <1>4, <2>2 DEF Takes, SumsUp
  <2>5. MsgAt(t, i) = MsgAt(s, i)
    BY <1>4, <2>2 DEF MsgAt
  <2> QED BY <1>5, <2>3, <2>4, <2>5 DEF t
<1>9. CASE ~(SubSeq(s, i, i + Len(Magic) - 1) = Magic /\ HdrVersion(HdrAt(s, i)) = Version)
  <2>1. ~(i + FrameHead > Len(t) + 1)
    BY <1>0, <1>1
  <2>2. ~Stops(t, i) /\ ~Takes(t, i) /\ ~Takes(s, i)
    BY <1>3, <1>4, <1>9, <2>1 DEF Stops, Takes
  <2> QED BY <1>5, <2>2 DEF t
<1> QED BY <1>8, <1>9

\* The reading of a grown buffer continues that of the buffer.
LEMMA ReadsOn ==
  ASSUME NEW s \in Seq(Byte), NEW b \in Byte
  PROVE  DecodeStream(s) \in Seq(Msgs)
         /\ \E r \in Seq(Msgs) : DecodeStream(Append(s, b)) = DecodeStream(s) \o r
<1> DEFINE t == Append(s, b)
           n == Len(s)
<1>0. n \in Nat /\ t \in Seq(Byte) /\ Len(t) = n + 1 /\ <<>> \in Seq(Msgs)
  OBVIOUS
<1>1. PICK f : /\ DecodeStream(s) = f[1]
               /\ \A i \in 1 .. n + 1 :
                    f[i] = IF Stops(s, i) THEN <<>>
                           ELSE IF Takes(s, i) THEN <<MsgAt(s, i)>> \o f[EndAt(s, i)]
                           ELSE f[i + 1]
  BY DecodeUnfolds
<1>2. PICK g : /\ DecodeStream(t) = g[1]
               /\ \A i \in 1 .. Len(t) + 1 :
                    g[i] = IF Stops(t, i) THEN <<>>
                           ELSE IF Takes(t, i) THEN <<MsgAt(t, i)>> \o g[EndAt(t, i)]
                           ELSE g[i + 1]
  BY <1>0, DecodeUnfolds
<1> DEFINE F == {i \in 1 .. n + 1 : f[i] \in Seq(Msgs)}
           G == {i \in 1 .. Len(t) + 1 : g[i] \in Seq(Msgs)}
           H == {i \in 1 .. n + 1 : \E r \in Seq(Msgs) : g[i] = f[i] \o r}
<1>3. \A i \in 1 .. n + 1 : ~Stops(s, i) =>
        GoesTo(s, i) \in 1 .. n + 1 /\ GoesTo(s, i) > i /\ (Takes(s, i) => MsgAt(s, i) \in Msgs)
  BY GoesOn
<1>4. \A i \in 1 .. Len(t) + 1 : ~Stops(t, i) =>
        /\ GoesTo(t, i) \in 1 .. Len(t) + 1 /\ GoesTo(t, i) > i
        /\ Takes(t, i) => MsgAt(t, i) \in Msgs
  BY <1>0, GoesOn
<1>5. \A i \in 1 .. n + 1 : ~Stops(s, i) =>
        /\ ~Stops(t, i) /\ (Takes(t, i) <=> Takes(s, i)) /\ EndAt(t, i) = EndAt(s, i)
        /\ Takes(s, i) => MsgAt(t, i) = MsgAt(s, i)
  BY SameFrame
<1> HIDE DEF t, n
<1>6. \A m \in Msgs : \A q \in Seq(Msgs) : <<m>> \o q \in Seq(Msgs)
  BY ConcatProperties
<1>7. \A i \in 1 .. n + 1 : f[i] \in Seq(Msgs)
  <2>1. ASSUME NEW i \in 1 .. n + 1, \A j \in 1 .. n + 1 : j > i => j \in F PROVE i \in F
    <3>1. CASE Stops(s, i)
      BY <1>0, <1>1, <3>1
    <3>2. CASE ~Stops(s, i)
      <4>1. f[GoesTo(s, i)] \in Seq(Msgs)
        BY <1>3, <2>1, <3>2
      <4>2. CASE Takes(s, i)
        BY <1>1, <1>3, <1>6, <3>2, <4>1, <4>2 DEF GoesTo
      <4>3. CASE ~Takes(s, i)
        BY <1>1, <3>2, <4>1, <4>3 DEF GoesTo
      <4> QED BY <4>2, <4>3
    <3> QED BY <3>1, <3>2
  <2>2. n + 1 \in Nat
    BY <1>0
  <2> HIDE DEF F
  <2>3. \A i \in 1 .. n + 1 : i \in F
    BY <2>1, <2>2, Downward
  <2> QED BY <2>3 DEF F
<1>8. \A i \in 1 .. Len(t) + 1 : g[i] \in Seq(Msgs)
  <2>1. ASSUME NEW i \in 1 .. Len(t) + 1, \A j \in 1 .. Len(t) + 1 : j > i => j \in G
        PROVE  i \in G
    <3>1. CASE Stops(t, i)
      BY <1>0, <1>2, <3>1
    <3>2. CASE ~Stops(t, i)
      <4>1. g[GoesTo(t, i)] \in Seq(Msgs)
        BY <1>4, <2>1, <3>2
      <4>2. CASE Takes(t, i)
        BY <1>2, <1>4, <1>6, <3>2, <4>1, <4>2 DEF GoesTo
      <4>3. CASE ~Takes(t, i)
        BY <1>2, <3>2, <4>1, <4>3 DEF GoesTo
      <4> QED BY <4>2, <4>3
    <3> QED BY <3>1, <3>2
  <2>2. Len(t) + 1 \in Nat
    BY <1>0
  <2> HIDE DEF G
  <2>3. \A i \in 1 .. Len(t) + 1 : i \in G
    BY <2>1, <2>2, Downward
  <2> QED BY <2>3 DEF G
<1>9. \A i \in 1 .. n + 1 : i \in H
  <2>1. ASSUME NEW i \in 1 .. n + 1, \A j \in 1 .. n + 1 : j > i => j \in H PROVE i \in H
    <3>0. i \in 1 .. Len(t) + 1
      BY <1>0
    <3>1. CASE Stops(s, i)
      <4>1. f[i] = <<>> /\ g[i] \in Seq(Msgs)
        BY <1>1, <1>8, <3>0, <3>1
      <4>2. g[i] = f[i] \o g[i]
        BY <4>1, ConcatEmptySeq
      <4> QED BY <4>1, <4>2
    <3>2. CASE ~Stops(s, i)
      <4>1. PICK r \in Seq(Msgs) : g[GoesTo(s, i)] = f[GoesTo(s, i)] \o r
        BY <1>3, <2>1, <3>2
      <4>2. CASE Takes(s, i)
        <5> DEFINE m == MsgAt(s, i)
                   e == EndAt(s, i)
        <5>1. f[i] = <<m>> \o f[e] /\ g[i] = <<m>> \o g[e] /\ g[e] = f[e] \o r
          BY <1>1, <1>2, <1>5, <3>0, <3>2, <4>1, <4>2 DEF GoesTo
        <5>2. <<m>> \in Seq(Msgs) /\ f[e] \in Seq(Msgs)
          BY <1>3, <1>7, <3>2, <4>2 DEF GoesTo
        <5> DEFINE u == <<m>>
                   v == f[e]
        <5>3. u \in Seq(Msgs) /\ v \in Seq(Msgs) /\ r \in Seq(Msgs)
          BY <5>2
        <5> HIDE DEF u, v
        <5>4. (u \o v) \o r = u \o (v \o r)
          BY <5>3, ConcatAssociative
        <5> QED BY <5>1, <5>4 DEF u, v
      <4>3. CASE ~Takes(s, i)
        <5>1. f[i] = f[i + 1] /\ g[i] = g[i + 1] /\ g[i + 1] = f[i + 1] \o r
          BY <1>1, <1>2, <1>5, <3>0, <3>2, <4>1, <4>3 DEF GoesTo
        <5> QED BY <5>1
      <4> QED BY <4>2, <4>3
    <3> QED BY <3>1, <3>2
  <2>2. n + 1 \in Nat
    BY <1>0
  <2> HIDE DEF H
  <2> QED BY <2>1, <2>2, Downward
<1>10. 1 \in 1 .. n + 1
  BY <1>0
<1> QED BY <1>1, <1>2, <1>7, <1>9, <1>10 DEF t

\* Read again with what has come since, the host's buffer yields the messages
\* it has yielded, unchanged and in their order, and perhaps more.
THEOREM RereadingKeepsAll == Spec => RereadingKeeps
<1>1. ASSUME IInv, [Next]_vars
      PROVE  [~ended => LET was == DecodeStream(seg)  is == DecodeStream(seg')
                        IN  Len(was) <= Len(is) /\ SubSeq(is, 1, Len(was)) = was]_vars
  <2> SUFFICES ASSUME Next, ~ended
               PROVE  LET was == DecodeStream(seg)  is == DecodeStream(seg')
                      IN  Len(was) <= Len(is) /\ SubSeq(is, 1, Len(was)) = was
    BY <1>1
  <2> DEFINE was == DecodeStream(seg)
             is == DecodeStream(seg')
  <2>1. PICK b \in Byte : Feed(b)
    BY DEF Next
  <2>2. seg \in Seq(Byte) /\ seg' = Append(seg, b)
    <3>1. TypeOK /\ Line = seg
      BY <1>1 DEF IInv, Line
    <3> QED BY <2>1, <3>1, StepShape DEF TypeOK
  <2>3. PICK r \in Seq(Msgs) : is = was \o r /\ was \in Seq(Msgs)
    BY <2>2, ReadsOn
  <2> HIDE DEF was, is
  <2>4. Len(is) = Len(was) + Len(r) /\ Len(was) \in Nat /\ Len(r) \in Nat
    BY <2>3, LenOfConcat
  <2>5. SubSeq(is, 1, Len(was)) = was
    <3>1. CASE Len(was) = 0
      <4>1. was = <<>>
        BY <2>3, <3>1
      <4>2. SubSeq(is, 1, 0) = <<>>
        BY SubSeqEmpty
      <4> QED BY <3>1, <4>1, <4>2
    <3>2. CASE Len(was) # 0
      <4>1. 1 \in 1 .. Len(was) /\ Len(was) \in 1 .. Len(was)
        BY <2>4, <3>2
      <4>2. SubSeq(was \o r, 1, Len(was)) = SubSeq(was, 1, Len(was))
        BY <2>3, <4>1, SubSeqOfConcat1
      <4>3. SubSeq(was, 1, Len(was)) = was
        BY <2>3, SubSeqFull
      <4> QED BY <2>3, <4>2, <4>3
    <3> QED BY <3>1, <3>2
  <2> QED BY <2>4, <2>5 DEF was, is
<1> QED BY <1>1, Invariance, PTL DEF Spec, RereadingKeeps

=============================================================================
