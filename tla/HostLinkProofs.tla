--------------------------- MODULE HostLinkProofs ---------------------------
(***************************************************************************)
(* For every program in which no command follows one of the same id, with  *)
(* any numbers of retries and any losses: each call returns a response to  *)
(* itself, and the calls are at-least-once calls in order, with what is    *)
(* deferred done at any time after it has been handled.                    *)
(***************************************************************************)
EXTENDS HostLink, SequenceTheorems, TLAPS

\* Nothing under way is older than the command before the current one, and
\* the device is at one of the two.
Window ==
  /\ Cur - 1 <= last /\ last <= Cur
  /\ \A i \in 1 .. Len(toHost) : Cur - 1 <= toHost[i].op
  /\ \A i \in 1 .. Len(toDevice) : toDevice[i] <= Cur
  /\ ~waiting /\ ~raised =>
       last < Cur /\ \A i \in 1 .. Len(toDevice) : toDevice[i] < Cur

\* From the host's end of the line to the device's, commands come in order.
Flow ==
  /\ \A i, j \in 1 .. Len(toHost) : i < j => toHost[i].op <= toHost[j].op
  /\ \A i \in 1 .. Len(toHost) : toHost[i].op <= last
  /\ \A i \in 1 .. Len(toDevice) : last <= toDevice[i]
  /\ \A i, j \in 1 .. Len(toDevice) : i < j => toDevice[i] <= toDevice[j]

\* Responses are to commands that have been executed, or begun.
Ran == \A k \in 1 .. last : k \in executed \/ k \in begun

IInv == TypeOK /\ Window /\ Flow /\ Ran /\ Genuine

\* t is s without its first d frames.
Without(t, s, d) ==
  /\ d \in 0 .. Len(s)
  /\ Len(t) = Len(s) - d
  /\ \A i \in 1 .. Len(t) : t[i] = s[i + d]

\* Taking frames from the front of the line to the host.
LEMMA DropIsWithout ==
  ASSUME TypeOK, DropBuffer
  PROVE  toHost' \in Seq(Response) /\ \E d \in Nat : Without(toHost', toHost, d)
<1>1. CASE UNCHANGED toHost
  <2>1. Without(toHost', toHost, 0)
    BY <1>1 DEF TypeOK, Without
  <2> QED BY <1>1, <2>1 DEF TypeOK
<1>2. CASE toHost # <<>> /\ toHost' = Tail(toHost)
  <2>1. /\ toHost' \in Seq(Response) /\ Len(toHost') = Len(toHost) - 1
        /\ \A i \in 1 .. Len(toHost') : toHost'[i] = toHost[i + 1]
    BY <1>2, HeadTailProperties DEF TypeOK
  <2>2. Len(toHost) \in Nat /\ Len(toHost') \in Nat
    BY <2>1, LenProperties DEF TypeOK
  <2>3. Without(toHost', toHost, 1)
    BY <2>1, <2>2 DEF Without
  <2> QED BY <2>1, <2>3
<1> QED BY <1>1, <1>2 DEF DropBuffer

\* The frames that stay keep their order.
LEMMA WithoutKeepsOrder ==
  ASSUME NEW t, NEW s, Len(s) \in Nat, Len(t) \in Nat, NEW d \in Nat, Without(t, s, d),
         \A i, j \in 1 .. Len(s) : i < j => s[i].op <= s[j].op
  PROVE  \A i, j \in 1 .. Len(t) : i < j => t[i].op <= t[j].op
<1> SUFFICES ASSUME NEW i \in 1 .. Len(t), NEW j \in 1 .. Len(t), i < j
             PROVE  t[i].op <= t[j].op
  OBVIOUS
<1>1. i + d \in 1 .. Len(s) /\ j + d \in 1 .. Len(s) /\ i + d < j + d
  BY DEF Without
<1>2. t[i] = s[i + d] /\ t[j] = s[j + d]
  BY DEF Without
<1>3. s[i + d].op <= s[j + d].op
  BY <1>1
<1> QED BY <1>2, <1>3

\* Frames put at the end of a line.
LEMMA AppendFacts ==
  ASSUME NEW S, NEW s \in Seq(S), NEW e \in S
  PROVE  /\ Append(s, e) \in Seq(S) /\ Len(Append(s, e)) = Len(s) + 1
         /\ \A i \in 1 .. Len(s) : Append(s, e)[i] = s[i]
         /\ Append(s, e)[Len(s) + 1] = e
OBVIOUS

\* The fields of a command.
LEMMA CommandType ==
  ASSUME NEW k \in 1 .. Len(Program)
  PROVE  Program[k] \in [id : STRING, empty_ok : BOOLEAN, retries : Nat]
BY ProgramAssumption, ElementOfSeq

\* What TypeOK says about numbers.
LEMMA Numbers ==
  ASSUME TypeOK
  PROVE  /\ Len(Program) \in Nat /\ Len(answers) \in Nat /\ Cur \in Nat /\ Cur >= 1
         /\ last \in Nat /\ Len(toHost) \in Nat /\ Len(toDevice) \in Nat
         /\ \A i \in 1 .. Len(toHost) : toHost[i] \in Response /\ toHost[i].op \in Nat
         /\ \A i \in 1 .. Len(toDevice) : toDevice[i] \in 1 .. Len(Program) /\ toDevice[i] \in Nat
<1>1. Len(Program) \in Nat
  BY ProgramAssumption, LenProperties
<1>2. \A i \in 1 .. Len(toHost) : toHost[i] \in Response
  BY ElementOfSeq DEF TypeOK
<1>3. \A i \in 1 .. Len(toDevice) : toDevice[i] \in 1 .. Len(Program)
  BY ElementOfSeq DEF TypeOK
<1>4. Len(answers) \in Nat /\ Len(toHost) \in Nat /\ Len(toDevice) \in Nat
  BY LenProperties DEF TypeOK
<1> QED BY <1>1, <1>2, <1>3, <1>4 DEF TypeOK, Cur, Response

\* The invariant holds initially.
LEMMA InitIInv == Init => IInv
<1> SUFFICES ASSUME Init PROVE IInv
  OBVIOUS
<1>1. Len(Program) \in Nat
  BY ProgramAssumption, LenProperties
<1>2. <<>> \in Seq(Response) /\ <<>> \in Seq(1 .. Len(Program)) /\ Len(<<>>) = 0
  BY EmptySeq
<1>3. answers = <<>> /\ Len(answers) = 0
  BY <1>2 DEF Init
<1>4. TypeOK
  <2>1. waiting \in BOOLEAN /\ raised \in BOOLEAN /\ ~waiting
    BY DEF Init
  <2>2. answers \in Seq(Response) /\ toHost \in Seq(Response) /\ toDevice \in Seq(1 .. Len(Program))
    BY <1>2 DEF Init
  <2>3. /\ attempt \in Nat /\ executed \subseteq 1 .. Len(Program) /\ last \in 0 .. Len(Program)
        /\ begun = {}
    BY <1>1 DEF Init
  <2> QED BY <1>1, <1>3, <2>1, <2>2, <2>3 DEF TypeOK
<1> QED BY <1>1, <1>2, <1>3, <1>4 DEF Init, IInv, Window, Flow, Ran, Genuine, Cur

\* A frame of the current command follows all the others.
LEMMA EnqueueIInv ==
  ASSUME IInv, Cur <= Len(Program),
         toDevice' = Append(toDevice, Cur),
         toHost' \in Seq(Response),
         NEW d \in Nat, Without(toHost', toHost, d),
         UNCHANGED <<answers, begun, executed, last, raised>>, waiting',
         attempt' \in Nat, attempt' <= Program[Cur].retries
  PROVE  IInv'
<1> USE Numbers DEF IInv
<1>1. Cur' = Cur
  BY DEF Cur
<1>2. /\ toDevice' \in Seq(1 .. Len(Program)) /\ Len(toDevice') = Len(toDevice) + 1
      /\ \A i \in 1 .. Len(toDevice) : toDevice'[i] = toDevice[i]
      /\ toDevice'[Len(toDevice) + 1] = Cur
  BY AppendFacts, Cur \in 1 .. Len(Program) DEF TypeOK
<1>3. TypeOK'
  BY <1>1, <1>2 DEF TypeOK
<1>4. \A i \in 1 .. Len(toDevice') :
        i \in 1 .. Len(toDevice) \/ (i = Len(toDevice) + 1 /\ toDevice'[i] = Cur)
  <2> HIDE DEF IInv
  <2>1. \A i \in 1 .. Len(toDevice') : i \in 1 .. Len(toDevice) \/ i = Len(toDevice) + 1
    BY <1>2
  <2> QED BY <1>2, <2>1
<1>5. \A i \in 1 .. Len(toDevice') : last <= toDevice'[i] /\ toDevice'[i] <= Cur
  <2> SUFFICES ASSUME NEW i \in 1 .. Len(toDevice')
               PROVE  last <= toDevice'[i] /\ toDevice'[i] <= Cur
    OBVIOUS
  <2>1. CASE i \in 1 .. Len(toDevice)
    <3>1. last <= toDevice[i] /\ toDevice[i] <= Cur
      BY <2>1 DEF Window, Flow
    <3> QED BY <1>2, <2>1, <3>1
  <2>2. CASE toDevice'[i] = Cur
    BY <2>2 DEF Window
  <2> QED BY <1>4, <2>1, <2>2
<1>6. \A i \in 1 .. Len(toHost') : i + d \in 1 .. Len(toHost) /\ toHost'[i] = toHost[i + d]
  BY DEF Without
<1>7. Window'
  <2>1. \A i \in 1 .. Len(toHost') : Cur - 1 <= toHost'[i].op
    BY <1>6 DEF Window
  <2>2. Cur - 1 <= last' /\ last' <= Cur /\ waiting'
    BY DEF Window
  <2> QED BY <2>1, <2>2, <1>1, <1>5 DEF Window
<1>8. Flow'
  <2>1. \A i, j \in 1 .. Len(toDevice') : i < j => toDevice'[i] <= toDevice'[j]
    <3> SUFFICES ASSUME NEW i \in 1 .. Len(toDevice'), NEW j \in 1 .. Len(toDevice'), i < j
                 PROVE  toDevice'[i] <= toDevice'[j]
      OBVIOUS
    <3>1. CASE j \in 1 .. Len(toDevice)
      BY <3>1, <1>2 DEF Flow
    <3>2. CASE toDevice'[j] = Cur
      BY <3>2, <1>5
    <3> QED BY <3>1, <3>2, <1>4
  <2>2. \A i \in 1 .. Len(toHost') : toHost'[i].op <= last
    BY <1>6 DEF Flow
  <2>3. \A i, j \in 1 .. Len(toHost') : i < j => toHost'[i].op <= toHost'[j].op
    <3>1. \A i, j \in 1 .. Len(toHost) : i < j => toHost[i].op <= toHost[j].op
      BY DEF Flow
    <3>2. Len(toHost) \in Nat /\ Len(toHost') \in Nat
      BY LenProperties
    <3> QED BY <3>1, <3>2, WithoutKeepsOrder
  <2> QED BY <1>5, <2>1, <2>2, <2>3 DEF Flow
<1> QED BY <1>1, <1>3, <1>7, <1>8 DEF Ran, Genuine

\* The first attempt of the next command follows all that is under way.
LEMMA SendIInv == IInv /\ Send => IInv'
<1> SUFFICES ASSUME IInv, Send PROVE IInv'
  OBVIOUS
<1>1. Without(toHost', toHost, 0)
  BY Numbers DEF IInv, Send, Without
<1>2. Program[Cur].retries \in Nat
  BY Numbers, CommandType, Cur \in 1 .. Len(Program) DEF IInv, Send
<1>3. toHost' \in Seq(Response)
  BY DEF IInv, TypeOK, Send
<1> QED BY <1>1, <1>2, <1>3, EnqueueIInv DEF Send, deviceVars

\* Another attempt at the current command follows all that is under way.
LEMMA RetryIInv == IInv /\ Retry => IInv'
<1> SUFFICES ASSUME IInv, Retry PROVE IInv'
  OBVIOUS
<1>1. PICK d \in Nat : toHost' \in Seq(Response) /\ Without(toHost', toHost, d)
  BY DropIsWithout DEF IInv, Retry
<1>2. Cur \in 1 .. Len(Program)
  BY Numbers DEF IInv, TypeOK, Retry
<1>3. Program[Cur].retries \in Nat
  BY <1>2, CommandType
<1>4. attempt' \in Nat /\ attempt' <= Program[Cur].retries
  BY <1>3 DEF IInv, TypeOK, Retry
<1> QED BY <1>1, <1>2, <1>4, EnqueueIInv DEF Retry, deviceVars

\* Frames leave the line to the host, nothing else moves but flags.
LEMMA DrainIInv ==
  ASSUME IInv, NEW d \in Nat, Without(toHost', toHost, d), toHost' \in Seq(Response),
         UNCHANGED <<answers, begun, executed, last, toDevice, attempt>>,
         \/ UNCHANGED <<waiting, raised>>
         \/ waiting' = FALSE /\ raised' = TRUE
  PROVE  IInv'
<1> USE Numbers DEF IInv
<1>1. Cur' = Cur
  BY DEF Cur
<1>2. TypeOK'
  <2>1. waiting' \in BOOLEAN /\ raised' \in BOOLEAN
    BY DEF TypeOK
  <2>2. waiting' => waiting
    OBVIOUS
  <2> QED BY <1>1, <2>1, <2>2 DEF TypeOK
<1>3. \A i \in 1 .. Len(toHost') : i + d \in 1 .. Len(toHost) /\ toHost'[i] = toHost[i + d]
  BY DEF Without
<1>4. Window'
  BY <1>1, <1>3 DEF Window
<1>5. Flow'
  <2>1. \A i \in 1 .. Len(toHost') : toHost'[i].op <= last
    BY <1>3 DEF Flow
  <2>2. \A i, j \in 1 .. Len(toHost') : i < j => toHost'[i].op <= toHost'[j].op
    <3>1. \A i, j \in 1 .. Len(toHost) : i < j => toHost[i].op <= toHost[j].op
      BY DEF Flow
    <3>2. Len(toHost) \in Nat /\ Len(toHost') \in Nat
      BY LenProperties
    <3> QED BY <3>1, <3>2, WithoutKeepsOrder
  <2> QED BY <2>1, <2>2 DEF Flow
<1> QED BY <1>2, <1>4, <1>5 DEF Ran, Genuine

\* Frames passed over are gone; the others keep their order.
LEMMA PassOverIInv == IInv /\ PassOver => IInv'
<1> SUFFICES ASSUME IInv, PassOver PROVE IInv'
  OBVIOUS
<1>1. PICK d \in Nat : toHost' \in Seq(Response) /\ Without(toHost', toHost, d)
  BY DropIsWithout DEF IInv, PassOver, DropBuffer
<1> QED BY <1>1, DrainIInv DEF PassOver, hostVars, deviceVars

\* Giving up sends nothing more.
LEMMA RaiseIInv == IInv /\ Raise => IInv'
<1> SUFFICES ASSUME IInv, Raise PROVE IInv'
  OBVIOUS
<1>1. PICK d \in Nat : toHost' \in Seq(Response) /\ Without(toHost', toHost, d)
  BY DropIsWithout DEF IInv, Raise
<1> QED BY <1>1, DrainIInv DEF Raise, deviceVars

\* A call returns: its response is not a late one to the command before, for
\* that one had another id, and whatever is left under way is of its command.
LEMMA ReturnIInv ==
  ASSUME NoRepeat, IInv, Return
  PROVE  IInv' /\ last = Cur /\ Head(toHost).op = Cur
<1> USE Numbers DEF IInv
<1> DEFINE r == toHost[1]
<1>1. Cur \in 1 .. Len(Program) /\ 1 \in 1 .. Len(toHost) /\ Head(toHost) = r
  BY EmptySeq DEF TypeOK, Return
<1>2. r \in Response /\ r.op \in 1 .. Len(Program) /\ r.op \in {Cur - 1, Cur}
  <2>1. Cur - 1 <= r.op /\ r.op <= last /\ last <= Cur
    BY <1>1 DEF Window, Flow
  <2> QED BY <1>1, <2>1 DEF Response
<1>3. r.op = Cur
  <2> SUFFICES ASSUME r.op = Cur - 1 PROVE FALSE
    BY <1>2
  <2>1. Cur - 1 \in 1 .. Len(Program) - 1
    BY <1>1, <1>2
  <2>2. Program[Cur - 1].id # Program[(Cur - 1) + 1].id
    BY <2>1 DEF NoRepeat
  <2>3. Program[r.op].id = Program[Cur].id
    BY <1>1 DEF Return, Accepts
  <2> QED BY <2>2, <2>3, <1>1
<1>4. last = Cur
  BY <1>1, <1>3 DEF Window, Flow
<1>5. /\ answers' \in Seq(Response) /\ Len(answers') = Len(answers) + 1
      /\ \A k \in 1 .. Len(answers) : answers'[k] = answers[k]
      /\ answers'[Len(answers) + 1] = r
  BY <1>1, <1>2, AppendFacts DEF TypeOK, Return
<1>6. Cur' = Cur + 1
  BY <1>5 DEF Cur
<1>7. PICK n \in 1 .. Len(toHost) : toHost' = SubSeq(toHost, n + 1, Len(toHost))
  BY DEF Return
<1>8. toHost' \in Seq(Response) /\ Without(toHost', toHost, n)
  <2>1. \A i \in n + 1 .. Len(toHost) : toHost[i] \in Response
    OBVIOUS
  <2>2. n + 1 \in Int /\ Len(toHost) \in Int
    OBVIOUS
  <2>3. /\ toHost' \in Seq(Response)
        /\ Len(toHost') = IF n + 1 <= Len(toHost) THEN Len(toHost) - (n + 1) + 1 ELSE 0
        /\ \A i \in 1 .. Len(toHost) - (n + 1) + 1 : toHost'[i] = toHost[(n + 1) + i - 1]
    BY <1>7, <2>1, <2>2, SubSeqProperties
  <2>4. Len(toHost') = Len(toHost) - n
    BY <2>3
  <2>5. n \in 0 .. Len(toHost)
    OBVIOUS
  <2>6. \A i \in 1 .. Len(toHost') : toHost'[i] = toHost[i + n]
    <3> SUFFICES ASSUME NEW i \in 1 .. Len(toHost') PROVE toHost'[i] = toHost[i + n]
      OBVIOUS
    <3>1. i \in 1 .. Len(toHost) - (n + 1) + 1 /\ (n + 1) + i - 1 = i + n
      BY <2>4
    <3> QED BY <2>3, <3>1
  <2> HIDE DEF IInv
  <2> QED BY <2>3, <2>4, <2>5, <2>6 DEF Without
<1>9. \A i \in 1 .. Len(toHost') : i + n \in 1 .. Len(toHost) /\ toHost'[i] = toHost[i + n]
  BY <1>8 DEF Without
<1>10. /\ waiting' = FALSE
       /\ UNCHANGED <<attempt, raised, toDevice, begun, executed, last>>
  BY DEF Return, deviceVars
<1>11. TypeOK'
  <2>1. answers' \in Seq(Response) /\ Len(answers') <= Len(Program)
    BY <1>1, <1>5 DEF Cur
  <2>2. toHost' \in Seq(Response)
    BY <1>8
  <2> QED BY <1>10, <2>1, <2>2 DEF TypeOK
<1>12. \A i \in 1 .. Len(toHost') : Cur <= toHost'[i].op
  <2> SUFFICES ASSUME NEW i \in 1 .. Len(toHost') PROVE Cur <= toHost'[i].op
    OBVIOUS
  <2>1. 1 < i + n /\ i + n \in 1 .. Len(toHost) /\ toHost'[i] = toHost[i + n]
    BY <1>9
  <2>2. toHost[1].op <= toHost[i + n].op
    BY <1>1, <2>1 DEF Flow
  <2> QED BY <1>3, <2>1, <2>2
<1>13. Window'
  BY <1>4, <1>6, <1>10, <1>12 DEF Window, Flow
<1>14. Flow'
  <2>1. \A i \in 1 .. Len(toHost') : toHost'[i].op <= last'
    BY <1>9, <1>10 DEF Flow
  <2>2. \A i, j \in 1 .. Len(toHost') : i < j => toHost'[i].op <= toHost'[j].op
    <3>1. \A i, j \in 1 .. Len(toHost) : i < j => toHost[i].op <= toHost[j].op
      BY DEF Flow
    <3>2. Len(toHost') \in Nat /\ Len(toHost) \in Nat /\ n \in Nat
      BY <1>8, LenProperties
    <3> QED BY <1>8, <3>1, <3>2, WithoutKeepsOrder
  <2> QED BY <1>10, <2>1, <2>2 DEF Flow
<1>15. Genuine'
  <2> SUFFICES ASSUME NEW k \in 1 .. Len(answers') PROVE answers'[k].op = k
    BY DEF Genuine
  <2>1. CASE k \in 1 .. Len(answers)
    BY <1>5, <2>1 DEF Genuine
  <2>2. CASE k = Len(answers) + 1
    BY <1>3, <1>5, <2>2 DEF Cur
  <2> QED BY <1>5, <2>1, <2>2
<1> QED BY <1>1, <1>3, <1>4, <1>10, <1>11, <1>13, <1>14, <1>15 DEF Ran

\* The oldest request leaves the line to the device.
LEMMA TakeRequest ==
  ASSUME TypeOK, toDevice # <<>>, toDevice' = Tail(toDevice)
  PROVE  /\ toDevice' \in Seq(1 .. Len(Program)) /\ Len(toDevice') \in Nat
         /\ 1 \in 1 .. Len(toDevice) /\ Head(toDevice) = toDevice[1]
         /\ \A i \in 1 .. Len(toDevice') :
              i + 1 \in 1 .. Len(toDevice) /\ toDevice'[i] = toDevice[i + 1]
<1>1. /\ toDevice' \in Seq(1 .. Len(Program)) /\ Len(toDevice') = Len(toDevice) - 1
      /\ \A i \in 1 .. Len(toDevice') : toDevice'[i] = toDevice[i + 1]
  BY HeadTailProperties DEF TypeOK
<1>2. Len(toDevice') \in Nat /\ Len(toDevice) \in Nat
  BY <1>1, LenProperties DEF TypeOK
<1> QED BY <1>1, <1>2

\* A lost request leaves the others in order.
LEMMA LoseIInv == IInv /\ Lose => IInv'
<1> SUFFICES ASSUME IInv, Lose PROVE IInv'
  OBVIOUS
<1> USE Numbers DEF IInv
<1>1. Cur' = Cur /\ UNCHANGED <<waiting, attempt, raised, answers, toHost, begun, executed, last>>
  BY DEF Lose, hostVars, deviceVars, Cur
<1>2. /\ toDevice' \in Seq(1 .. Len(Program)) /\ Len(toDevice') \in Nat
      /\ \A i \in 1 .. Len(toDevice') :
           i + 1 \in 1 .. Len(toDevice) /\ toDevice'[i] = toDevice[i + 1]
  BY TakeRequest DEF Lose
<1>3. TypeOK'
  BY <1>1, <1>2 DEF TypeOK
<1>4. Window'
  BY <1>1, <1>2 DEF Window
<1>5. \A i, j \in 1 .. Len(toDevice') : i < j => toDevice'[i] <= toDevice'[j]
  <2> SUFFICES ASSUME NEW i \in 1 .. Len(toDevice'), NEW j \in 1 .. Len(toDevice'), i < j
               PROVE  toDevice'[i] <= toDevice'[j]
    OBVIOUS
  <2>1. i + 1 < j + 1 /\ i + 1 \in 1 .. Len(toDevice) /\ j + 1 \in 1 .. Len(toDevice)
    BY <1>2
  <2>2. toDevice[i + 1] <= toDevice[j + 1]
    BY <2>1 DEF Flow
  <2> QED BY <1>2, <2>2
<1>6. Flow'
  BY <1>1, <1>2, <1>5 DEF Flow
<1> QED BY <1>1, <1>3, <1>4, <1>6 DEF Ran, Genuine

\* The device takes the oldest request, runs its handler and answers.
LEMMA OnMsgIInv == IInv /\ OnMsg => IInv' /\ last' >= last /\ last' = Head(toDevice)
<1> SUFFICES ASSUME IInv, OnMsg
             PROVE  IInv' /\ last' >= last /\ last' = Head(toDevice)
  OBVIOUS
<1> USE Numbers DEF IInv
<1> DEFINE k == toDevice[1]
<1>1. /\ toDevice' \in Seq(1 .. Len(Program)) /\ Len(toDevice') \in Nat
      /\ 1 \in 1 .. Len(toDevice) /\ Head(toDevice) = k
      /\ \A i \in 1 .. Len(toDevice') :
           i + 1 \in 1 .. Len(toDevice) /\ toDevice'[i] = toDevice[i + 1]
  BY TakeRequest DEF OnMsg
<1>2. k \in 1 .. Len(Program) /\ last <= k /\ k <= Cur
  BY <1>1 DEF Window, Flow
<1>3. /\ Cur' = Cur /\ UNCHANGED <<waiting, attempt, raised, answers>>
      /\ last' = k
      /\ \/ begun' = begun \cup {k} /\ UNCHANGED executed /\ Program[k].id \in Deferred
         \/ executed' = executed \cup {k} /\ UNCHANGED begun
  BY <1>1 DEF OnMsg, Handler, hostVars, Cur
<1>4. PICK o \in Outcome(Program[k].id) : toHost' = Append(toHost, Reply(k, o))
  BY <1>1 DEF OnMsg
<1>5. Reply(k, o) \in Response /\ Reply(k, o).op = k
  BY <1>2 DEF Reply, Response, Outcome
<1>6. /\ toHost' \in Seq(Response) /\ Len(toHost') = Len(toHost) + 1
      /\ \A i \in 1 .. Len(toHost) : toHost'[i] = toHost[i]
      /\ toHost'[Len(toHost) + 1].op = k
  BY <1>4, <1>5, AppendFacts DEF TypeOK
<1>7. \A i \in 1 .. Len(toHost') : i \in 1 .. Len(toHost) \/ (i = Len(toHost) + 1 /\ toHost'[i].op = k)
  BY <1>6
<1>8. TypeOK'
  <2>1. /\ executed' \subseteq 1 .. Len(Program)
        /\ begun' \subseteq {n \in 1 .. Len(Program) : Program[n].id \in Deferred}
    <3>1. /\ executed \subseteq 1 .. Len(Program)
          /\ begun \subseteq {n \in 1 .. Len(Program) : Program[n].id \in Deferred}
      BY DEF TypeOK
    <3> HIDE DEF k
    <3> QED BY <3>1, <1>2, <1>3
  <2>3. last' \in 0 .. Len(Program)
    <3> HIDE DEF k
    <3> QED BY <1>2, <1>3
  <2>2. toHost' \in Seq(Response) /\ toDevice' \in Seq(1 .. Len(Program))
    BY <1>1, <1>6
  <2> QED BY <1>3, <2>1, <2>2, <2>3 DEF TypeOK
<1>9. \A i \in 1 .. Len(toHost') : Cur - 1 <= toHost'[i].op /\ toHost'[i].op <= k
  <2> SUFFICES ASSUME NEW i \in 1 .. Len(toHost')
               PROVE  Cur - 1 <= toHost'[i].op /\ toHost'[i].op <= k
    OBVIOUS
  <2>1. Cur - 1 <= last /\ Cur \in Nat /\ last \in Nat /\ k \in Nat
    BY <1>2 DEF Window, TypeOK
  <2> HIDE DEF k
  <2>2. CASE i \in 1 .. Len(toHost)
    <3>1. /\ Cur - 1 <= toHost[i].op /\ toHost[i].op <= last
          /\ toHost[i] = toHost'[i]
      BY <2>2, <1>6 DEF Window, Flow
    <3>2. toHost[i].op \in Nat
      BY <2>2 DEF TypeOK, Response
    <3> QED BY <3>1, <3>2, <2>1, <1>2
  <2>3. CASE toHost'[i].op = k
    BY <2>1, <2>3, <1>2
  <2> QED BY <2>2, <2>3, <1>7
<1>10. Window'
  <2>1. Cur - 1 <= last' /\ last' <= Cur
    BY <1>2, <1>3 DEF Window
  <2>2. \A i \in 1 .. Len(toDevice') : toDevice'[i] <= Cur
    BY <1>1 DEF Window
  <2>3. ~waiting /\ ~raised =>
          last' < Cur /\ \A i \in 1 .. Len(toDevice') : toDevice'[i] < Cur
    BY <1>1, <1>3 DEF Window
  <2> QED BY <1>3, <1>9, <2>1, <2>2, <2>3 DEF Window
<1>11. Flow'
  <2>1. \A i, j \in 1 .. Len(toHost') : i < j => toHost'[i].op <= toHost'[j].op
    <3> SUFFICES ASSUME NEW i \in 1 .. Len(toHost'), NEW j \in 1 .. Len(toHost'), i < j
                 PROVE  toHost'[i].op <= toHost'[j].op
      OBVIOUS
    <3>1. CASE j \in 1 .. Len(toHost)
      <4>1. i \in 1 .. Len(toHost)
        BY <3>1, <1>7
      <4>2. toHost[i].op <= toHost[j].op
        BY <3>1, <4>1 DEF Flow
      <4> QED BY <3>1, <4>1, <4>2, <1>6
    <3>2. CASE toHost'[j].op = k
      BY <3>2, <1>9
    <3> QED BY <3>1, <3>2, <1>7
  <2>2. \A i \in 1 .. Len(toDevice') : k <= toDevice'[i]
    <3> SUFFICES ASSUME NEW i \in 1 .. Len(toDevice') PROVE k <= toDevice'[i]
      OBVIOUS
    <3>1. 1 < i + 1 /\ i + 1 \in 1 .. Len(toDevice) /\ toDevice'[i] = toDevice[i + 1]
      BY <1>1
    <3>2. toDevice[1] <= toDevice[i + 1]
      BY <1>1, <3>1 DEF Flow
    <3> QED BY <3>1, <3>2
  <2>3. \A i, j \in 1 .. Len(toDevice') : i < j => toDevice'[i] <= toDevice'[j]
    BY <1>1 DEF Flow
  <2> QED BY <1>3, <1>9, <2>1, <2>2, <2>3 DEF Flow
<1>12. Ran'
  <2>0. Cur - 1 <= last /\ Cur \in Nat /\ last \in Nat /\ k \in Nat
    BY <1>2 DEF Window, TypeOK
  <2> HIDE DEF k, IInv
  <2>1. k \in {last, last + 1} /\ last \in Nat
    BY <1>2, <2>0
  <2> USE DEF IInv
  <2> SUFFICES ASSUME NEW n \in 1 .. last'
               PROVE  n \in executed' \/ n \in begun'
    BY DEF Ran
  <2>2. executed \subseteq executed' /\ begun \subseteq begun'
    BY <1>3
  <2>3. n \in 1 .. last \/ n = k
    BY <1>3, <2>1
  <2>4. CASE n \in 1 .. last
    <3>1. n \in executed \/ n \in begun
      BY <2>4 DEF Ran
    <3> QED BY <2>2, <3>1
  <2>5. CASE n = k
    BY <1>3, <2>5
  <2> QED BY <2>3, <2>4, <2>5
<1>13. Genuine'
  BY <1>3 DEF Genuine
<1> QED BY <1>1, <1>2, <1>3, <1>8, <1>10, <1>11, <1>12, <1>13

\* What was begun is done; on the line nothing has changed.
LEMMA DeferredEndIInv == IInv /\ DeferredEnd => IInv'
<1> SUFFICES ASSUME IInv, DeferredEnd PROVE IInv'
  OBVIOUS
<1>1. /\ UNCHANGED <<waiting, attempt, raised, answers, toDevice, toHost, last>>
      /\ executed' = executed \cup begun /\ begun' = {}
  BY DEF DeferredEnd, hostVars
<1>2. TypeOK'
  BY <1>1 DEF IInv, TypeOK, Cur
<1>3. Window' /\ Flow' /\ Genuine'
  BY <1>1 DEF IInv, Window, Flow, Genuine, Cur
<1>4. Ran'
  BY <1>1 DEF IInv, Ran
<1> QED BY <1>2, <1>3, <1>4 DEF IInv

\* Every step keeps the invariant.
LEMMA NextIInv ==
  ASSUME NoRepeat
  PROVE  IInv /\ [Next]_vars => IInv'
<1> SUFFICES ASSUME IInv, [Next]_vars PROVE IInv'
  OBVIOUS
<1>1. CASE Send
  BY <1>1, SendIInv
<1>2. CASE PassOver
  BY <1>2, PassOverIInv
<1>3. CASE Return
  BY <1>3, ReturnIInv
<1>4. CASE Retry
  BY <1>4, RetryIInv
<1>5. CASE Raise
  BY <1>5, RaiseIInv
<1>6. CASE Lose
  BY <1>6, LoseIInv
<1>7. CASE OnMsg
  BY <1>7, OnMsgIInv
<1>8. CASE DeferredEnd
  BY <1>8, DeferredEndIInv
<1>9. CASE UNCHANGED vars
  BY <1>9 DEF vars, hostVars, deviceVars, IInv, TypeOK, Window, Flow, Ran, Genuine, Cur
<1> QED BY <1>1, <1>2, <1>3, <1>4, <1>5, <1>6, <1>7, <1>8, <1>9 DEF Next

\* The invariant of the commands' flow, for every program without repeats.
THEOREM Invariant ==
  ASSUME NoRepeat
  PROVE  Spec => []IInv
BY InitIInv, NextIInv, PTL DEF Spec

\* The variables keep their types.
THEOREM TypeCorrect ==
  ASSUME NoRepeat
  PROVE  Spec => []TypeOK
<1>1. IInv => TypeOK
  BY DEF IInv
<1> QED BY Invariant, <1>1, PTL

\* Each call returns with a response to itself.
THEOREM GenuineAnswers ==
  ASSUME NoRepeat
  PROVE  Spec => []Genuine
<1>1. IInv => Genuine
  BY DEF IInv
<1> QED BY Invariant, <1>1, PTL

\* When a call has returned, the device has executed its command, or has begun
\* it if it is a deferred one.
THEOREM AckedMeansExecuted ==
  ASSUME NoRepeat
  PROVE  Spec => []AckedIsExecuted
<1>1. IInv => AckedIsExecuted
  <2> SUFFICES ASSUME IInv, NEW k \in 1 .. Len(answers)
               PROVE  k \in executed \/ (Program[k].id \in Deferred /\ k \in begun)
    BY DEF AckedIsExecuted
  <2>1. k \in 1 .. last
    BY Numbers DEF IInv, Window, Cur
  <2>2. k \in executed \/ k \in begun
    BY <2>1 DEF IInv, Ran
  <2> QED BY <2>2 DEF IInv, TypeOK
<1> QED BY Invariant, <1>1, PTL

\* send_cmd on a program without repeats is an at-least-once call, in order but
\* for what is deferred.
THEOREM ImplementsCalls ==
  ASSUME NoRepeat
  PROVE  Spec => ImplementsAtLeastOnce
<1> DEFINE Later == {k \in 1 .. Len(Program) : Program[k].id \in Deferred}
<1>1. Init => Calls!Init
  BY EmptySeq DEF Init, Calls!Init
<1>2. IInv /\ [Next]_vars => [Calls!Next]_<<Len(answers), last, begun>>
  <2> SUFFICES ASSUME IInv, [Next]_vars PROVE [Calls!Next]_<<Len(answers), last, begun>>
    OBVIOUS
  <2>1. CASE Send \/ PassOver \/ Retry \/ Raise \/ Lose \/ UNCHANGED vars
    BY <2>1 DEF Send, PassOver, Retry, Raise, Lose, vars, hostVars, deviceVars
  <2>2. CASE Return
    <3>1. last = Cur /\ UNCHANGED <<last, begun>>
      BY <2>2, ReturnIInv DEF Return, deviceVars
    <3>2. Len(answers') = Len(answers) + 1
      <4>1. Head(toHost) \in Response
        BY <2>2, HeadTailProperties DEF IInv, TypeOK, Return
      <4> QED BY <2>2, <4>1, AppendFacts DEF IInv, TypeOK, Return
    <3> QED BY <3>1, <3>2 DEF Calls!Next, Calls!Return, Cur
  <2>3. CASE OnMsg
    <3>1. IInv' /\ last' >= last /\ UNCHANGED answers
      BY <2>3, OnMsgIInv DEF OnMsg, hostVars
    <3>2. last' = Head(toDevice) /\ Head(toDevice) \in 1 .. Len(Program)
      BY <2>3, OnMsgIInv, HeadTailProperties DEF OnMsg, IInv, TypeOK
    <3>3. last' \in {last, Len(answers) + 1} /\ last' > 0
      <4>1. Cur' = Cur /\ last' <= Cur /\ Cur - 1 <= last
        BY <3>1 DEF IInv, Window, Cur
      <4>3. last \in Nat /\ last' \in Nat /\ Cur \in Nat
        BY <3>1, <3>2, Numbers DEF IInv
      <4>4. last' \in {last, Cur} /\ last' > 0
        BY <3>1, <3>2, <4>1, <4>3
      <4> QED BY <4>4 DEF Cur
    <3>4. begun' = begun \cup ({last'} \cap Later)
      <4>1. \/ begun' = begun \cup {last'} /\ Program[last'].id \in Deferred
            \/ begun' = begun /\ Program[last'].id \notin Deferred
        BY <2>3, <3>2 DEF OnMsg, Handler
      <4> QED BY <4>1, <3>2
    <3> QED BY <3>1, <3>3, <3>4 DEF Calls!Next, Calls!Execute
  <2>4. CASE DeferredEnd
    <3>1. begun # {} /\ begun' = {} /\ UNCHANGED <<answers, last>>
      BY <2>4 DEF DeferredEnd, hostVars
    <3> QED BY <3>1 DEF Calls!Next, Calls!Finish
  <2> QED BY <2>1, <2>2, <2>3, <2>4 DEF Next
<1> QED BY Invariant, <1>1, <1>2, PTL DEF Spec, ImplementsAtLeastOnce, Calls!Spec
=============================================================================
