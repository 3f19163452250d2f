-------------------------- MODULE HttpClientProofs --------------------------
(* Proofs about HttpClient: the streams, the descriptors and what Do makes *)
(* of a reply, for every reply, every buffer size and every fault.         *)
EXTENDS HttpClient, SequenceTheorems, TLAPS

Units == HeaderLines \cup [line : {"status", "badstatus", "blank"}, n : {0}]
                     \cup [line : {"body"}, n : Nat]

HeadLen(r) == Len(r.headers) + 2

\* What a reply looks like on the wire, position by position.
LEMMA WireLayout ==
  ASSUME NEW r \in Replies
  PROVE  /\ Wire(r) \in Seq(Units)
         /\ Len(r.headers) \in Nat /\ r.body \in Nat /\ r.status \in {"status", "badstatus"}
         /\ Len(Wire(r)) = HeadLen(r) + r.body
         /\ Wire(r)[1] = Unit(r.status, 0)
         /\ \A i \in 1..Len(r.headers) : Wire(r)[i + 1] = r.headers[i] /\ r.headers[i] \in HeaderLines
         /\ Wire(r)[HeadLen(r)] = Unit("blank", 0)
         /\ \A i \in 1..r.body : Wire(r)[HeadLen(r) + i] = Unit("body", i)
<1> DEFINE S == <<Unit(r.status, 0)>>
           B == <<Unit("blank", 0)>>
<1>1. r.status \in {"status", "badstatus"} /\ r.headers \in Seq(HeaderLines) /\ r.body \in Nat
  BY HttpAssumption
<1>2. HeaderLines \subseteq Units
  BY DEF Units
<1>3. S \in Seq(Units) /\ Len(S) = 1 /\ S[1] = Unit(r.status, 0)
  BY <1>1 DEF Units, Unit
<1>4. B \in Seq(Units) /\ Len(B) = 1 /\ B[1] = Unit("blank", 0)
  BY DEF Units, Unit
<1>5. r.headers \in Seq(Units)
  BY <1>1, <1>2, SeqMonotonic
<1>6. Body(r) \in Seq(Units) /\ Len(Body(r)) = r.body /\ \A i \in 1..r.body : Body(r)[i] = Unit("body", i)
  <2>1. \A i \in 1..r.body : Unit("body", i) \in Units
    BY <1>1 DEF Units, Unit
  <2>2. Body(r) \in [1..r.body -> Units]
    BY <2>1 DEF Body
  <2> QED
    BY <1>1, <2>2, SeqDef DEF Body
<1>7. /\ S \o r.headers \in Seq(Units) /\ Len(S \o r.headers) = 1 + Len(r.headers)
      /\ \A i \in 1..(1 + Len(r.headers)) :
           (S \o r.headers)[i] = IF i <= 1 THEN S[i] ELSE r.headers[i - 1]
  BY <1>3, <1>5, ConcatProperties
<1>8. /\ (S \o r.headers) \o B \in Seq(Units) /\ Len((S \o r.headers) \o B) = HeadLen(r)
      /\ \A i \in 1..HeadLen(r) :
           ((S \o r.headers) \o B)[i] = IF i <= 1 + Len(r.headers) THEN (S \o r.headers)[i]
                                        ELSE B[i - (1 + Len(r.headers))]
  <2>1. Len(r.headers) \in Nat
    BY <1>5, LenProperties
  <2>2. HeadLen(r) = (1 + Len(r.headers)) + 1
    BY <2>1 DEF HeadLen
  <2> DEFINE P == S \o r.headers
  <2>3. P \in Seq(Units) /\ Len(P) = 1 + Len(r.headers)
    BY <1>7
  <2> HIDE DEF S, B, P
  <2>4. /\ P \o B \in Seq(Units) /\ Len(P \o B) = Len(P) + Len(B)
        /\ \A i \in 1..(Len(P) + Len(B)) : (P \o B)[i] = IF i <= Len(P) THEN P[i] ELSE B[i - Len(P)]
    BY <1>4, <2>3, ConcatProperties
  <2>5. /\ P \o B \in Seq(Units) /\ Len(P \o B) = HeadLen(r)
        /\ \A i \in 1..HeadLen(r) :
             (P \o B)[i] = IF i <= 1 + Len(r.headers) THEN P[i] ELSE B[i - (1 + Len(r.headers))]
    BY <1>4, <2>1, <2>2, <2>3, <2>4
  <2> QED
    BY <2>5 DEF P
<1>9. Wire(r) = ((S \o r.headers) \o B) \o Body(r)
  BY DEF Wire
<1>10. /\ Wire(r) \in Seq(Units) /\ Len(Wire(r)) = HeadLen(r) + r.body
       /\ \A i \in 1..(HeadLen(r) + r.body) :
            Wire(r)[i] = IF i <= HeadLen(r) THEN ((S \o r.headers) \o B)[i]
                         ELSE Body(r)[i - HeadLen(r)]
  <2> DEFINE P == (S \o r.headers) \o B
             Q == Body(r)
  <2>1. P \in Seq(Units) /\ Len(P) = HeadLen(r) /\ Q \in Seq(Units) /\ Len(Q) = r.body
    BY <1>6, <1>8
  <2>2. Wire(r) = P \o Q
    BY <1>9
  <2> HIDE DEF P, Q
  <2>3. /\ P \o Q \in Seq(Units) /\ Len(P \o Q) = Len(P) + Len(Q)
        /\ \A i \in 1..(Len(P) + Len(Q)) : (P \o Q)[i] = IF i <= Len(P) THEN P[i] ELSE Q[i - Len(P)]
    BY <2>1, ConcatProperties
  <2> QED
    BY <2>1, <2>2, <2>3 DEF P, Q
<1>11. Len(r.headers) \in Nat /\ HeadLen(r) \in Nat /\ HeadLen(r) = Len(r.headers) + 2
  BY <1>5, LenProperties DEF HeadLen
<1>12. \A i \in 1..Len(r.headers) : r.headers[i] \in HeaderLines
  BY <1>1, ElementOfSeq
<1> HIDE DEF S, B
<1>13. Wire(r)[1] = Unit(r.status, 0)
  BY <1>1, <1>3, <1>7, <1>8, <1>10, <1>11
<1>14. ASSUME NEW i \in 1..Len(r.headers) PROVE Wire(r)[i + 1] = r.headers[i]
  <2>1. /\ i + 1 \in 1..(HeadLen(r) + r.body) /\ i + 1 \in 1..HeadLen(r)
        /\ i + 1 \in 1..(1 + Len(r.headers))
        /\ i + 1 <= HeadLen(r) /\ i + 1 <= 1 + Len(r.headers)
        /\ ~(i + 1 <= 1) /\ (i + 1) - 1 = i
    BY <1>1, <1>11
  <2>2. Wire(r)[i + 1] = ((S \o r.headers) \o B)[i + 1]
    BY <1>10, <2>1
  <2>3. ((S \o r.headers) \o B)[i + 1] = (S \o r.headers)[i + 1]
    BY <1>8, <2>1
  <2>4. (S \o r.headers)[i + 1] = r.headers[i]
    BY <1>7, <2>1
  <2> QED
    BY <2>2, <2>3, <2>4
<1>15. Wire(r)[HeadLen(r)] = Unit("blank", 0)
  <2>1. HeadLen(r) \in 1..(HeadLen(r) + r.body) /\ HeadLen(r) \in 1..HeadLen(r)
        /\ HeadLen(r) - (1 + Len(r.headers)) = 1 /\ ~(HeadLen(r) <= 1 + Len(r.headers))
    BY <1>1, <1>11
  <2>2. Wire(r)[HeadLen(r)] = ((S \o r.headers) \o B)[HeadLen(r)]
    <3> HIDE DEF HeadLen
    <3>1. HeadLen(r) <= HeadLen(r)
      BY <1>11
    <3> QED
      BY <1>10, <2>1, <3>1
  <2>3. ((S \o r.headers) \o B)[HeadLen(r)] = B[1]
    BY <1>8, <2>1
  <2> QED
    BY <1>4, <2>2, <2>3
<1>16. \A i \in 1..r.body : Wire(r)[HeadLen(r) + i] = Unit("body", i)
  BY <1>1, <1>6, <1>10, <1>11
<1> QED
  BY <1>1, <1>10, <1>11, <1>12, <1>13, <1>14, <1>15, <1>16

\* What recv_buf holds after t units, position by position.
LEMMA PrefixLayout ==
  ASSUME NEW r \in Replies, NEW t \in 0..Len(Wire(r))
  PROVE  /\ SubSeq(Wire(r), 1, t) \in Seq(Units)
         /\ Len(SubSeq(Wire(r), 1, t)) = t
         /\ \A i \in 1..t : SubSeq(Wire(r), 1, t)[i] = Wire(r)[i]
<1>1. Wire(r) \in Seq(Units) /\ Len(Wire(r)) \in Nat
  BY WireLayout, LenProperties
<1>2. \A i \in 1..t : Wire(r)[i] \in Units
  BY <1>1, ElementOfSeq
<1> QED
  BY <1>1, <1>2, SubSeqProperties

\* Headers that were not received to the end are reported as such.
LEMMA ParseCutHead ==
  ASSUME NEW r \in Replies, NEW t \in 0..Len(Wire(r)), t < HeadLen(r)
  PROVE  ParseResponse(SubSeq(Wire(r), 1, t)) = Failed("Incomplete")
<1> DEFINE raw == SubSeq(Wire(r), 1, t)
<1>1. Len(raw) = t /\ \A i \in 1..t : raw[i] = Wire(r)[i]
  BY PrefixLayout
<1>2. \A i \in 1..t : Wire(r)[i].line # "blank"
  <2> TAKE i \in 1..t
  <2>1. CASE i = 1
    <3>1. Wire(r)[1] = Unit(r.status, 0) /\ r.status \in {"status", "badstatus"}
      BY WireLayout
    <3> QED
      BY <2>1, <3>1 DEF Unit
  <2>2. CASE i # 1
    <3>1. i - 1 \in 1..Len(r.headers) /\ (i - 1) + 1 = i
      BY <2>2, WireLayout DEF HeadLen
    <3>2. Wire(r)[i] \in HeaderLines
      BY <3>1, WireLayout
    <3> QED
      BY <3>2 DEF HeaderLines
  <2> QED
    BY <2>1, <2>2
<1> QED
  BY <1>1, <1>2 DEF ParseResponse

\* Otherwise the blank line found is the one that ends the headers.
LEMMA ParseWholeHead ==
  ASSUME NEW r \in Replies, NEW t \in 0..Len(Wire(r)), t >= HeadLen(r)
  PROVE  LET raw == SubSeq(Wire(r), 1, t)
         IN  /\ ~(\A i \in 1..Len(raw) : raw[i].line # "blank")
             /\ Boundary(raw) = HeadLen(r)
             /\ SubSeq(raw, 2, HeadLen(r) - 1) = r.headers
             /\ raw[1].line = r.status
             /\ Len(raw) = t
<1> DEFINE raw == SubSeq(Wire(r), 1, t)
<1>0. /\ r.headers \in Seq(HeaderLines) /\ Len(r.headers) \in Nat /\ HeadLen(r) = Len(r.headers) + 2
      /\ t \in Nat /\ HeadLen(r) \in 1..t
  BY WireLayout, HttpAssumption, LenProperties DEF HeadLen
<1>1. raw \in Seq(Units) /\ Len(raw) = t /\ \A i \in 1..t : raw[i] = Wire(r)[i]
  BY PrefixLayout
<1>2. raw[HeadLen(r)].line = "blank"
  <2>1. Wire(r)[HeadLen(r)] = Unit("blank", 0)
    BY WireLayout
  <2> QED
    BY <1>0, <1>1, <2>1 DEF Unit
<1>3. raw[1] = Unit(r.status, 0) /\ \A i \in 1..Len(r.headers) : raw[i + 1] = r.headers[i]
  BY <1>0, <1>1, WireLayout
<1> HIDE DEF raw
<1>4. \A i \in 1..(HeadLen(r) - 1) : raw[i].line # "blank"
  <2> TAKE i \in 1..(HeadLen(r) - 1)
  <2>1. CASE i = 1
    <3>1. r.status \in {"status", "badstatus"}
      BY WireLayout
    <3> QED
      BY <2>1, <3>1, <1>3 DEF Unit
  <2>2. CASE i # 1
    <3>1. i - 1 \in 1..Len(r.headers) /\ (i - 1) + 1 = i
      BY <1>0, <2>2
    <3>2. raw[i] \in HeaderLines
      BY <3>1, <1>3, WireLayout
    <3> QED
      BY <3>2 DEF HeaderLines
  <2> QED
    BY <2>1, <2>2
<1>5. \A i \in 1..t : (raw[i].line = "blank" /\ \A j \in 1..(i - 1) : raw[j].line # "blank") => i = HeadLen(r)
  <2> SUFFICES ASSUME NEW i \in 1..t, raw[i].line = "blank", \A j \in 1..(i - 1) : raw[j].line # "blank"
               PROVE  i = HeadLen(r)
    OBVIOUS
  <2>1. ~(i < HeadLen(r))
    BY <1>0, <1>4
  <2>2. ~(HeadLen(r) < i)
    BY <1>0, <1>2
  <2> QED
    BY <1>0, <2>1, <2>2
<1>6. Boundary(raw) = HeadLen(r)
  <2>1. HeadLen(r) \in 1..t /\ raw[HeadLen(r)].line = "blank"
        /\ \A j \in 1..(HeadLen(r) - 1) : raw[j].line # "blank"
    BY <1>0, <1>2, <1>4
  <2> QED
    BY <1>1, <1>5, <2>1 DEF Boundary
<1>7. SubSeq(raw, 2, HeadLen(r) - 1) = r.headers
  <2>1. \A i \in 2..(HeadLen(r) - 1) : raw[i] \in HeaderLines
    <3> TAKE i \in 2..(HeadLen(r) - 1)
    <3>1. i - 1 \in 1..Len(r.headers) /\ (i - 1) + 1 = i
      BY <1>0
    <3> QED
      BY <3>1, <1>3, WireLayout
  <2>2. /\ SubSeq(raw, 2, HeadLen(r) - 1) \in Seq(HeaderLines)
        /\ Len(SubSeq(raw, 2, HeadLen(r) - 1)) = Len(r.headers)
        /\ \A i \in 1..Len(r.headers) : SubSeq(raw, 2, HeadLen(r) - 1)[i] = raw[i + 1]
    <3>1. 2 \in Int /\ HeadLen(r) - 1 \in Int
      BY <1>0
    <3>2. /\ SubSeq(raw, 2, HeadLen(r) - 1) \in Seq(HeaderLines)
          /\ Len(SubSeq(raw, 2, HeadLen(r) - 1)) = IF 2 <= HeadLen(r) - 1 THEN HeadLen(r) - 1 - 2 + 1 ELSE 0
          /\ \A i \in 1..(HeadLen(r) - 1 - 2 + 1) : SubSeq(raw, 2, HeadLen(r) - 1)[i] = raw[2 + i - 1]
      BY <2>1, <3>1, SubSeqProperties
    <3> QED
      BY <1>0, <3>2
  <2> QED
    BY <1>0, <1>3, <2>2, SeqEqual
<1>8. ~(\A i \in 1..Len(raw) : raw[i].line # "blank")
  BY <1>0, <1>1, <1>2
<1>9. raw[1].line = r.status
  BY <1>3 DEF Unit
<1> QED
  BY <1>1, <1>6, <1>7, <1>8, <1>9 DEF raw

-----------------------------------------------------------------------------
(* The inductive invariant                                                 *)

\* Where the control is, and what is known of the connection there.
Control ==
  /\ pc \in {"ready", "recv"} => connected
  /\ pc = "connect" => ~connected /\ tries >= 1
  /\ (connected /\ pc \in {"ready", "send"}) => taken = 0
  /\ pc = "ready" => inbox = <<>> /\ request = 0
  /\ (connected /\ pc = "send" /\ peer = "open") => Len(inbox) = sent

\* A Do that parsed something parsed recv_buf, and had reason to stop reading.
Parsed ==
  (pc = "idle" /\ connected) =>
     \/ result.code \in {"BufferTooSmall", "SendFailed", "RecvFailed"}
     \/ /\ result = ParseResponse(buf)
        /\ Len(buf) = RecvSize \/ (peer # "open" /\ taken = written)

IInv == TypeOK /\ StreamIntact /\ OneDescriptor /\ Control /\ Parsed

LEMMA InitHolds == Init => IInv
<1> SUFFICES ASSUME Init PROVE IInv
  OBVIOUS
<1>1. Len(Wire(reply)) \in Nat
  BY WireLayout, LenProperties DEF Init
<1>2. <<>> \in Seq(Nat) /\ Len(buf) = 0
  BY DEF Init
<1>3. TypeOK
  <2>1. connected \in BOOLEAN
    BY DEF Init
  <2>2. /\ open \in Nat /\ tries \in 0..MaxAddrs /\ written \in 0..Len(Wire(reply)) /\ taken \in 0..written
        /\ request \in Nat /\ sent \in 0..request /\ Len(buf) <= RecvSize /\ calls \in 0..MaxCalls
    BY <1>1, <1>2, HttpAssumption DEF Init
  <2>3. /\ inbox \in Seq(Nat) /\ reply \in Replies /\ peer \in {"open", "closed", "reset"}
        /\ pc \in {"idle", "connect", "ready", "send", "recv"}
    BY <1>2 DEF Init
  <2> QED
    BY <2>1, <2>2, <2>3 DEF TypeOK
<1>4. StreamIntact /\ OneDescriptor /\ Control /\ Parsed
  BY DEF Init, StreamIntact, OneDescriptor, Control, Parsed
<1> QED
  BY <1>3, <1>4 DEF IInv

\* The bytes received so far, as numbers of units.
LEMMA BufLen ==
  ASSUME TypeOK, StreamIntact, connected
  PROVE  Len(buf) = taken /\ taken \in Nat /\ written \in Nat /\ Len(Wire(reply)) \in Nat
<1>1. Len(Wire(reply)) \in Nat
  BY WireLayout, LenProperties DEF TypeOK
<1> QED
  BY <1>1, PrefixLayout DEF TypeOK, StreamIntact

LEMMA SendSomeHolds ==
  ASSUME IInv, NEW n \in 1..ReqBuf, SendSome(n)
  PROVE  IInv'
<1> USE DEF SendSome, socket
<1>0. /\ inbox \in Seq(Nat) /\ Len(inbox) \in Nat /\ sent \in Nat /\ request \in Nat /\ n \in Nat
      /\ Len(Wire(reply)) \in Nat /\ written \in Nat /\ sent + n <= request
  BY HttpAssumption, LenProperties, BufLen DEF IInv, TypeOK
<1> DEFINE more == [i \in 1..n |-> sent + i]
<1>1. more \in Seq(Nat) /\ Len(more) = n /\ \A i \in 1..n : more[i] = sent + i
  <2>1. more \in [1..n -> Nat]
    BY <1>0
  <2> QED
    BY <1>0, <2>1, SeqDef
<1>2. /\ inbox' \in Seq(Nat) /\ Len(inbox') \in Nat /\ Len(inbox') <= sent'
      /\ \A i \in 1..Len(inbox') : inbox'[i] = i
      /\ peer = "open" => Len(inbox') = sent'
  <2>1. CASE peer = "open"
    <3>1. Len(inbox) = sent
      BY <2>1 DEF IInv, Control
    <3>2. inbox' = inbox \o more
      BY <2>1
    <3> HIDE DEF more
    <3>3. /\ inbox \o more \in Seq(Nat) /\ Len(inbox \o more) = Len(inbox) + Len(more)
          /\ \A i \in 1..(Len(inbox) + Len(more)) :
               (inbox \o more)[i] = IF i <= Len(inbox) THEN inbox[i] ELSE more[i - Len(inbox)]
      BY <1>0, <1>1, ConcatProperties
    <3>4. \A i \in 1..Len(inbox) : inbox[i] = i
      BY DEF IInv, StreamIntact
    <3>5. Len(inbox') = sent + n /\ sent' = sent + n /\ inbox' \in Seq(Nat)
      BY <1>0, <1>1, <3>1, <3>2, <3>3
    <3>6. ASSUME NEW i \in 1..(sent + n) PROVE inbox'[i] = i
      <4>1. CASE i <= sent
        BY <1>0, <1>1, <3>1, <3>2, <3>3, <3>4, <4>1
      <4>2. CASE ~(i <= sent)
        <5>1. i - sent \in 1..n /\ sent + (i - sent) = i
          BY <1>0, <4>2
        <5>2. inbox'[i] = more[i - sent]
          BY <1>0, <1>1, <3>1, <3>2, <3>3, <4>2
        <5> QED
          BY <1>1, <5>1, <5>2
      <4> QED
        BY <4>1, <4>2
    <3> QED
      BY <1>0, <3>5, <3>6
  <2>2. CASE peer # "open"
    BY <1>0, <2>2 DEF IInv, StreamIntact
  <2> QED
    BY <2>1, <2>2
<1> HIDE DEF more
<1>3. TypeOK'
  BY <1>0, <1>2 DEF IInv, TypeOK
<1>4. StreamIntact'
  BY <1>2 DEF IInv, StreamIntact
<1>5. OneDescriptor'
  BY DEF IInv, OneDescriptor
<1>6. Control'
  <2>1. taken = 0 /\ pc = "send" /\ pc' \in {"send", "recv"}
    BY DEF IInv, Control
  <2>2. peer' = peer /\ taken' = taken /\ connected' = connected /\ connected
    OBVIOUS
  <2> HIDE DEF SendSome
  <2>3. peer' = "open" => Len(inbox') = sent'
    BY <1>2, <2>2
  <2> QED
    BY <2>1, <2>2, <2>3 DEF Control
<1>7. Parsed'
  BY DEF IInv, Parsed
<1> QED
  BY <1>3, <1>4, <1>5, <1>6, <1>7 DEF IInv

LEMMA RecvSomeHolds ==
  ASSUME IInv, NEW n \in 1..RecvSize, RecvSome(n)
  PROVE  IInv'
<1> USE DEF RecvSome, socket
<1>0. connected /\ Len(buf) = taken /\ taken \in Nat /\ written \in Nat /\ n \in Nat \ {0}
      /\ Len(Wire(reply)) \in Nat /\ taken + n <= written /\ written <= Len(Wire(reply)) /\ RecvSize \in Nat
  BY BufLen, HttpAssumption DEF IInv, TypeOK, Control
<1>1. buf' = SubSeq(Wire(reply), 1, taken + n)
  <2>1. buf' = SubSeq(Wire(reply), 1, taken) \o SubSeq(Wire(reply), taken + 1, taken + n)
    BY <1>0 DEF IInv, StreamIntact
  <2>2. Wire(reply) \in Seq(Units)
    BY WireLayout DEF IInv, TypeOK
  <2>3. 1 \in 1..(Len(Wire(reply)) + 1) /\ taken \in (1 - 1)..Len(Wire(reply))
        /\ taken + n \in taken..Len(Wire(reply))
    BY <1>0
  <2> QED
    BY <2>1, <2>2, <2>3, ConcatAdjacentSubSeq
<1>2. Len(buf') = taken + n
  BY <1>0, <1>1, PrefixLayout DEF IInv, TypeOK
<1>3. TypeOK'
  BY <1>0, <1>2 DEF IInv, TypeOK
<1>4. StreamIntact'
  BY <1>0, <1>1 DEF IInv, StreamIntact
<1> QED
  BY <1>0, <1>3, <1>4 DEF IInv, OneDescriptor, Control, Parsed

LEMMA NextHolds == IInv /\ [Next]_vars => IInv'
<1> SUFFICES ASSUME IInv, [Next]_vars PROVE IInv'
  OBVIOUS
<1>0. /\ Len(Wire(reply)) \in Nat /\ written \in Nat /\ taken \in Nat /\ taken <= written
      /\ written <= Len(Wire(reply)) /\ RecvSize \in Nat /\ request \in Nat /\ open \in Nat
      /\ calls \in Nat /\ MaxCalls \in Nat /\ MaxAddrs \in Nat /\ tries \in Nat
  BY WireLayout, LenProperties, HttpAssumption DEF IInv, TypeOK
<1> USE DEF IInv, OneDescriptor, socket, conn, client
<1>1. CASE Connect
  <2>a. open' \in Nat
    <3>1. CASE connected
      BY <1>0, <1>1, <3>1 DEF Connect
    <3>2. CASE ~connected
      BY <1>0, <1>1, <3>2 DEF Connect
    <3> QED
      BY <3>1, <3>2
  <2>b. connected' \in BOOLEAN
    BY <1>1 DEF Connect
  <2>1. TypeOK'
    BY <1>0, <1>1, <2>a, <2>b DEF Connect, TypeOK
  <2> QED
    BY <1>0, <1>1, <2>1 DEF Connect, StreamIntact, Control, Parsed, TypeOK
<1>2. CASE ConnectFails
  <2>1. TypeOK'
    BY <1>0, <1>2 DEF ConnectFails, TypeOK, Control
  <2> QED
    BY <1>0, <1>2, <2>1 DEF ConnectFails, StreamIntact, Control, Parsed, TypeOK
<1>3. CASE Close
  <2>a. open' \in Nat
    <3>1. CASE connected
      BY <1>0, <1>3, <3>1 DEF Close
    <3>2. CASE ~connected
      BY <1>0, <1>3, <3>2 DEF Close
    <3> QED
      BY <3>1, <3>2
  <2>b. connected' \in BOOLEAN
    BY <1>3 DEF Close
  <2>1. TypeOK'
    BY <1>0, <1>3, <2>a, <2>b DEF Close, TypeOK
  <2> QED
    BY <1>0, <1>3, <2>1 DEF Close, StreamIntact, Control, Parsed, TypeOK
<1>4. ASSUME NEW r \in Replies, ConnectTo(r) PROVE IInv'
  <2>1. Len(Wire(r)) \in Nat /\ <<>> \in Seq(Nat) /\ Len(buf') = 0 /\ inbox' = <<>> /\ Len(inbox') = 0
    BY <1>4, WireLayout, LenProperties DEF ConnectTo
  <2>2. TypeOK'
    BY <1>0, <1>4, <2>1 DEF ConnectTo, TypeOK
  <2>3. StreamIntact'
    <3>1. SubSeq(Wire(r), 1, 0) = <<>>
      BY SubSeqEmpty
    <3> QED
      BY <1>4, <2>1, <3>1 DEF ConnectTo, StreamIntact
  <2> QED
    BY <1>0, <1>4, <2>1, <2>2, <2>3 DEF ConnectTo, Control, Parsed, TypeOK
<1>5. ASSUME NEW len \in RequestLens, Do(len) PROVE IInv'
  <2>1. len \in Nat /\ Len(buf') = 0
    BY <1>5, HttpAssumption DEF Do
  <2>2. TypeOK'
    BY <1>0, <1>5, <2>1 DEF Do, BuildRequest, TypeOK, Returns
  <2>3. connected => taken = 0 /\ inbox = <<>> /\ Len(inbox) = 0
    BY <1>5 DEF Do, BuildRequest, Control
  <2>4. StreamIntact'
    <3>1. SubSeq(Wire(reply), 1, 0) = <<>>
      BY SubSeqEmpty
    <3> QED
      BY <1>5, <2>3, <3>1 DEF Do, BuildRequest, StreamIntact
  <2> QED
    BY <1>0, <1>5, <2>1, <2>2, <2>3, <2>4 DEF Do, BuildRequest, Control, Parsed, TypeOK, Returns, Failed
<1>6. ASSUME NEW n \in 1..ReqBuf, SendSome(n) PROVE IInv'
  BY <1>6, SendSomeHolds
<1>7. CASE SendFails
  <2>1. TypeOK'
    BY <1>0, <1>7 DEF SendFails, Returns, TypeOK
  <2> QED
    BY <1>0, <1>7, <2>1 DEF SendFails, Returns, Failed, StreamIntact, Control, Parsed, TypeOK
<1>8. ASSUME NEW n \in 1..RecvSize, RecvSome(n) PROVE IInv'
  BY <1>8, RecvSomeHolds
<1>9. CASE RecvFails
  <2>1. TypeOK'
    BY <1>0, <1>9 DEF RecvFails, Returns, TypeOK
  <2> QED
    BY <1>0, <1>9, <2>1 DEF RecvFails, Returns, Failed, StreamIntact, Control, Parsed, TypeOK
<1>10. CASE DoEnd
  <2>1. TypeOK'
    BY <1>0, <1>10 DEF DoEnd, Returns, TypeOK
  <2> QED
    BY <1>0, <1>10, <2>1 DEF DoEnd, Returns, StreamIntact, Control, Parsed, TypeOK
<1>11. CASE PeerWrites
  <2>1. TypeOK'
    BY <1>0, <1>11 DEF PeerWrites, TypeOK
  <2> QED
    BY <1>0, <1>11, <2>1 DEF PeerWrites, StreamIntact, Control, Parsed
<1>12. CASE PeerCloses
  <2>1. TypeOK'
    BY <1>0, <1>12 DEF PeerCloses, TypeOK
  <2> QED
    BY <1>0, <1>12, <2>1 DEF PeerCloses, StreamIntact, Control, Parsed
<1>13. CASE PeerResets
  <2>1. TypeOK'
    BY <1>0, <1>13 DEF PeerResets, TypeOK
  <2> QED
    BY <1>0, <1>13, <2>1 DEF PeerResets, StreamIntact, Control, Parsed
<1>14. CASE UNCHANGED vars
  BY <1>14 DEF vars, TypeOK, StreamIntact, Control, Parsed
<1> QED
  BY <1>1, <1>2, <1>3, <1>4, <1>5, <1>6, <1>7, <1>8, <1>9, <1>10, <1>11, <1>12, <1>13, <1>14
  DEF Next, ClientStep, PeerStep

LEMMA Invariant == Spec => []IInv
<1> QED
  BY InitHolds, NextHolds, PTL DEF Spec

-----------------------------------------------------------------------------
(* The theorems                                                            *)

\* Types hold and recv_buf is never overrun, whatever its size and however the
\* reply arrives (Client::Do, PosixTcpSocket::Recv).
THEOREM HttpTypes == Spec => []TypeOK
<1>1. IInv => TypeOK
  BY DEF IInv
<1> QED
  BY Invariant, <1>1, PTL

\* The send and receive loops lose, repeat and misplace nothing, for every cut
\* of the streams into pieces and every reconnect.
THEOREM StreamsAreIntact == Spec => []StreamIntact
<1>1. IInv => StreamIntact
  BY DEF IInv
<1> QED
  BY Invariant, <1>1, PTL

\* PosixTcpSocket never leaks a descriptor.
THEOREM NoDescriptorLeaks == Spec => []OneDescriptor
<1>1. IInv => OneDescriptor
  BY DEF IInv
<1> QED
  BY Invariant, <1>1, PTL

\* What a parsed prefix of a reply comes to.
LEMMA ParseOutcome ==
  ASSUME NEW r \in Replies, NEW t \in 0..Len(Wire(r)), t >= HeadLen(r)
  PROVE  LET raw     == SubSeq(Wire(r), 1, t)
             headers == SelectSeq(r.headers, IsHeader)
             got     == t - HeadLen(r)
             length  == ContentLength(headers)
             kept    == IF length \in 0..(got - 1) THEN length ELSE got
         IN  ParseResponse(raw) =
               IF r.status # "status" THEN Failed("Malformed")
               ELSE IF Len(headers) > MaxHeaders THEN Failed("TooManyHeaders")
               ELSE [code |-> "Ok", headers |-> headers, length |-> length,
                     body |-> SubSeq(raw, HeadLen(r) + 1, HeadLen(r) + kept)]
<1> DEFINE raw == SubSeq(Wire(r), 1, t)
<1>1. /\ ~(\A i \in 1..Len(raw) : raw[i].line # "blank") /\ Boundary(raw) = HeadLen(r)
      /\ SubSeq(raw, 2, HeadLen(r) - 1) = r.headers /\ raw[1].line = r.status /\ Len(raw) = t
  BY ParseWholeHead
<1> HIDE DEF raw
<1>2. ParseResponse(raw) =
        LET headers == SelectSeq(r.headers, IsHeader)
            got     == t - HeadLen(r)
            length  == ContentLength(headers)
            kept    == IF length \in 0..(got - 1) THEN length ELSE got
        IN  IF r.status # "status" THEN Failed("Malformed")
            ELSE IF Len(headers) > MaxHeaders THEN Failed("TooManyHeaders")
            ELSE [code |-> "Ok", headers |-> headers, length |-> length,
                  body |-> SubSeq(raw, HeadLen(r) + 1, HeadLen(r) + kept)]
  BY <1>1, Zenon DEF ParseResponse
<1> QED
  BY <1>2 DEF raw

LEMMA ResponseHolds == IInv => ResponseIsRight
<1> SUFFICES ASSUME IInv, pc = "idle", connected, result.code = "Ok"
             PROVE  LET wanted == IF Declared \in 0..(reply.body - 1) THEN Declared ELSE reply.body
                    IN  /\ reply.status = "status"
                        /\ result.headers = SelectSeq(reply.headers, IsHeader)
                        /\ result.length = Declared
                        /\ Len(result.body) <= wanted
                        /\ \A i \in 1..Len(result.body) : result.body[i] = Unit("body", i)
                        /\ Len(result.body) < wanted => Cut \/ Full
  BY DEF ResponseIsRight
<1> DEFINE wanted == IF Declared \in 0..(reply.body - 1) THEN Declared ELSE reply.body
           raw    == SubSeq(Wire(reply), 1, taken)
           got    == taken - HeadLen(reply)
           kept   == IF Declared \in 0..(got - 1) THEN Declared ELSE got
<1>1. /\ result = ParseResponse(raw) /\ buf = raw
      /\ Len(buf) = RecvSize \/ (peer # "open" /\ taken = written)
  BY DEF IInv, Parsed, StreamIntact
<1>2. /\ reply \in Replies /\ taken \in 0..Len(Wire(reply)) /\ Len(Wire(reply)) = HeadLen(reply) + reply.body
      /\ reply.body \in Nat /\ HeadLen(reply) \in Nat /\ Len(raw) = taken
  BY BufLen, WireLayout, PrefixLayout DEF IInv, TypeOK, HeadLen
<1>3. taken >= HeadLen(reply)
  <2> SUFFICES ASSUME taken < HeadLen(reply) PROVE FALSE
    BY <1>2
  <2> QED
    BY <1>1, <1>2, ParseCutHead DEF Failed
<1>4. result = IF reply.status # "status" THEN Failed("Malformed")
               ELSE IF Len(SelectSeq(reply.headers, IsHeader)) > MaxHeaders THEN Failed("TooManyHeaders")
               ELSE [code |-> "Ok", headers |-> SelectSeq(reply.headers, IsHeader), length |-> Declared,
                     body |-> SubSeq(raw, HeadLen(reply) + 1, HeadLen(reply) + kept)]
  BY <1>1, <1>2, <1>3, ParseOutcome DEF Declared
<1>5. /\ reply.status = "status"
      /\ result = [code |-> "Ok", headers |-> SelectSeq(reply.headers, IsHeader), length |-> Declared,
                    body |-> SubSeq(raw, HeadLen(reply) + 1, HeadLen(reply) + kept)]
  BY <1>4 DEF Failed
<1>6. got \in Nat /\ got <= reply.body /\ kept \in 0..got /\ kept <= wanted
      /\ (kept < wanted => got < reply.body)
  BY <1>2, <1>3
<1>7. /\ Len(result.body) = kept
      /\ \A i \in 1..kept : result.body[i] = Unit("body", i)
  <2>1. \A i \in 1..taken : raw[i] = Wire(reply)[i] /\ Wire(reply)[i] \in Units
    BY <1>2, PrefixLayout, WireLayout, ElementOfSeq
  <2>2. \A i \in 1..reply.body : Wire(reply)[HeadLen(reply) + i] = Unit("body", i)
    BY <1>2, WireLayout
  <2>a. kept \in Nat /\ HeadLen(reply) + kept <= taken /\ kept <= reply.body /\ taken \in Nat
    BY <1>2, <1>6
  <2> HIDE DEF raw, kept, got, HeadLen
  <2>3. /\ HeadLen(reply) + 1 \in Int /\ HeadLen(reply) + kept \in Int
        /\ \A i \in (HeadLen(reply) + 1)..(HeadLen(reply) + kept) : raw[i] \in Units
    <3>1. HeadLen(reply) + 1 \in Int /\ HeadLen(reply) + kept \in Int
      BY <1>2, <2>a
    <3>2. ASSUME NEW i \in (HeadLen(reply) + 1)..(HeadLen(reply) + kept) PROVE raw[i] \in Units
      <4>1. i \in 1..taken
        BY <1>2, <2>a
      <4> QED
        BY <2>1, <4>1
    <3> QED
      BY <3>1, <3>2
  <2>4. /\ Len(SubSeq(raw, HeadLen(reply) + 1, HeadLen(reply) + kept)) =
              IF HeadLen(reply) + 1 <= HeadLen(reply) + kept
              THEN (HeadLen(reply) + kept) - (HeadLen(reply) + 1) + 1 ELSE 0
        /\ \A i \in 1..((HeadLen(reply) + kept) - (HeadLen(reply) + 1) + 1) :
             SubSeq(raw, HeadLen(reply) + 1, HeadLen(reply) + kept)[i] = raw[HeadLen(reply) + 1 + i - 1]
    BY <2>3, SubSeqProperties
  <2>5. Len(SubSeq(raw, HeadLen(reply) + 1, HeadLen(reply) + kept)) = kept
    BY <1>2, <2>a, <2>4
  <2>6. ASSUME NEW i \in 1..kept
        PROVE  SubSeq(raw, HeadLen(reply) + 1, HeadLen(reply) + kept)[i] = Unit("body", i)
    <3>1. HeadLen(reply) + 1 + i - 1 = HeadLen(reply) + i /\ HeadLen(reply) + i \in 1..taken
          /\ i \in 1..reply.body /\ i \in 1..((HeadLen(reply) + kept) - (HeadLen(reply) + 1) + 1)
      BY <1>2, <2>a
    <3> QED
      BY <2>1, <2>2, <2>4, <3>1
  <2> QED
    BY <1>5, <2>5, <2>6
<1>8. got < reply.body => Cut \/ Full
  BY <1>1, <1>2 DEF Cut, Full, IInv, TypeOK
<1> QED
  BY <1>5, <1>6, <1>7, <1>8

LEMMA RefusalHolds == IInv => RefusalIsRight
<1> SUFFICES ASSUME IInv, pc = "idle", connected
             PROVE  /\ result.code = "TooManyHeaders" =>
                         Len(SelectSeq(reply.headers, IsHeader)) > MaxHeaders
                    /\ result.code = "Malformed" => reply.status = "badstatus"
                    /\ result.code = "Incomplete" =>
                         taken < Len(reply.headers) + 2 /\ (Cut \/ Full)
  BY DEF RefusalIsRight
<1> DEFINE raw == SubSeq(Wire(reply), 1, taken)
<1>1. CASE result.code \in {"BufferTooSmall", "SendFailed", "RecvFailed"}
  BY <1>1
<1>2. CASE result = ParseResponse(buf) /\ (Len(buf) = RecvSize \/ (peer # "open" /\ taken = written))
  <2>1. /\ reply \in Replies /\ taken \in 0..Len(Wire(reply)) /\ Len(Wire(reply)) = HeadLen(reply) + reply.body
        /\ reply.body \in Nat /\ HeadLen(reply) \in Nat /\ reply.status \in {"status", "badstatus"} /\ buf = raw
    BY BufLen, WireLayout DEF IInv, TypeOK, HeadLen, StreamIntact
  <2>2. CASE taken < HeadLen(reply)
    <3>1. result = Failed("Incomplete")
      BY <1>2, <2>1, <2>2, ParseCutHead
    <3>2. Cut \/ Full
      BY <1>2, <2>1, <2>2 DEF Cut, Full
    <3> QED
      BY <2>2, <3>1, <3>2 DEF Failed, HeadLen
  <2>3. CASE taken >= HeadLen(reply)
    <3> DEFINE headers == SelectSeq(reply.headers, IsHeader)
               got     == taken - HeadLen(reply)
               length  == ContentLength(headers)
               kept    == IF length \in 0..(got - 1) THEN length ELSE got
               body    == SubSeq(raw, HeadLen(reply) + 1, HeadLen(reply) + kept)
    <3>1. result = IF reply.status # "status" THEN Failed("Malformed")
                   ELSE IF Len(headers) > MaxHeaders THEN Failed("TooManyHeaders")
                   ELSE [code |-> "Ok", headers |-> headers, length |-> length, body |-> body]
      BY <1>2, <2>1, <2>3, ParseOutcome
    <3> HIDE DEF headers, length, body
    <3>2. \/ reply.status # "status" /\ result.code = "Malformed"
          \/ Len(headers) > MaxHeaders /\ result.code = "TooManyHeaders"
          \/ result.code = "Ok"
      BY <3>1 DEF Failed
    <3> QED
      BY <2>1, <3>2 DEF headers
  <2> QED
    BY <2>1, <2>2, <2>3
<1> QED
  BY <1>1, <1>2 DEF IInv, Parsed

\* Every response Do returns is the server's, whatever the server declared and
\* wherever the connection or the buffer ended (ParseResponse, Client::Do).
THEOREM ResponsesAreRight == Spec => []ResponseIsRight
<1> QED
  BY Invariant, ResponseHolds, PTL

\* Every refusal of Do has the reason it gives (ParseResponse).
THEOREM RefusalsAreRight == Spec => []RefusalIsRight
<1> QED
  BY Invariant, RefusalHolds, PTL
=============================================================================
