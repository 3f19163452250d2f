------------------------- MODULE SimTransportProofs -------------------------
(* Proofs about SimTransport: however recv cuts up the stream and whatever *)
(* fails, a call hands out its own answer, a bus read one answer, and a    *)
(* session gives its descriptor back, for every buffer, header and payload *)
(* length, any set of descriptors and any number of commands.              *)
EXTENDS SimTransport, SequenceTheorems, FiniteSetTheorems, TLAPS

\* A slice is a piece of the sequence it is taken from.
LEMMA SliceOf ==
  ASSUME NEW S, NEW s \in Seq(S), NEW i \in Nat \ {0}, NEW n \in Nat, i + n - 1 <= Len(s)
  PROVE  /\ Slice(s, i, n) \in Seq(S) /\ Len(Slice(s, i, n)) = n
         /\ \A k \in 1..n : Slice(s, i, n)[k] = s[i + k - 1]
<1>1. Len(s) \in Nat
  BY LenProperties
<1> DEFINE m == i + n - 1
<1>2. m \in Int /\ i - 1 <= m /\ m <= Len(s)
  BY <1>1
<1>3. SubSeq(s, i, m) \in Seq(S) /\ Len(SubSeq(s, i, m)) = IF i <= m THEN m - i + 1 ELSE 0
  BY <1>1, <1>2, SubSeqProperties
<1>4. \A k \in 1..Len(SubSeq(s, i, m)) : SubSeq(s, i, m)[k] = s[i + k - 1]
  BY <1>1, <1>2, <1>3, SubSeqProperties
<1> QED
  BY <1>1, <1>2, <1>3, <1>4 DEF Slice

\* The bytes of an answer.
LEMMA AnswerBytes ==
  ASSUME NEW c \in 0..MaxCalls, NEW n \in Nat
  PROVE  /\ Answer(c, n) \in Seq(Byte) /\ Len(Answer(c, n)) = HeaderLen + n
         /\ \A i \in 1..(HeaderLen + n) : Answer(c, n)[i] = [cmd |-> c, place |-> i, len |-> n]
<1>1. HeaderLen + n \in Nat
  BY SimAssumption
<1>2. \A i \in 1..(HeaderLen + n) : [cmd |-> c, place |-> i, len |-> n] \in Byte
  BY SimAssumption DEF Byte
<1> QED
  BY <1>1, <1>2 DEF Answer

\* The empty sequence of bytes.
LEMMA NoBytes == <<>> \in Seq(Byte) /\ Len(<<>>) = 0
  OBVIOUS

\* A sequence of no bytes is the empty one.
LEMMA NothingLeft == ASSUME NEW s \in Seq(Byte), Len(s) = 0 PROVE s = <<>>
  BY EmptySeq

\* The first bytes of a sequence.
LEMMA Front ==
  ASSUME NEW s \in Seq(Byte), NEW k \in 0..Len(s)
  PROVE  /\ Slice(s, 1, k) \in Seq(Byte) /\ Len(Slice(s, 1, k)) = k
         /\ \A i \in 1..k : Slice(s, 1, k)[i] = s[i]
<1>0. Len(s) \in Nat /\ k \in Nat /\ 1 + k - 1 <= Len(s)
  BY LenProperties
<1>1. /\ Slice(s, 1, k) \in Seq(Byte) /\ Len(Slice(s, 1, k)) = k
      /\ \A i \in 1..k : Slice(s, 1, k)[i] = s[1 + i - 1]
  BY <1>0, SliceOf
<1> QED
  BY <1>0, <1>1

\* The bytes behind them.
LEMMA Rest ==
  ASSUME NEW s \in Seq(Byte), NEW k \in 0..Len(s)
  PROVE  /\ Slice(s, k + 1, Len(s) - k) \in Seq(Byte)
         /\ Len(Slice(s, k + 1, Len(s) - k)) = Len(s) - k
         /\ \A i \in 1..(Len(s) - k) : Slice(s, k + 1, Len(s) - k)[i] = s[k + i]
<1>0. Len(s) \in Nat /\ k \in Nat
  BY LenProperties
<1> DEFINE j == k + 1
           m == Len(s) - k
<1>1. j \in Nat \ {0} /\ m \in Nat /\ j + m - 1 <= Len(s)
  BY <1>0
<1>2. \A i \in 1..m : j + i - 1 = k + i
  BY <1>0
<1> HIDE DEF j, m
<1>3. /\ Slice(s, j, m) \in Seq(Byte) /\ Len(Slice(s, j, m)) = m
      /\ \A i \in 1..m : Slice(s, j, m)[i] = s[j + i - 1]
  BY <1>1, SliceOf
<1>4. \A i \in 1..m : Slice(s, j, m)[i] = s[k + i]
  BY <1>2, <1>3
<1> QED
  BY <1>3, <1>4 DEF j, m

\* A byte of a sequence.
LEMMA ByteAt ==
  ASSUME NEW s \in Seq(Byte), NEW i \in 1..Len(s)
  PROVE  s[i] \in Byte /\ s[i].len \in Nat
<1>1. s[i] \in Byte
  OBVIOUS
<1> QED
  BY <1>1 DEF Byte

\* What a call returns is a result.
LEMMA Returned ==
  ASSUME NEW c \in Results, NEW ok \in BOOLEAN, NEW b \in Seq(Byte)
  PROVE  [call |-> c, ok |-> ok, bytes |-> b] \in [call : Results, ok : BOOLEAN, bytes : Seq(Byte)]
  OBVIOUS

\* The two parts of a piece of an answer.
LEMMA PieceCut ==
  ASSUME NEW s \in Seq(Byte), NEW c, NEW from \in Nat, NEW n \in Nat,
         Piece(s, c, from, n), NEW k \in 0..Len(s)
  PROVE  /\ Piece(Slice(s, 1, k), c, from, n)
         /\ Piece(Slice(s, k + 1, Len(s) - k), c, from + k, n)
<1>0. Len(s) \in Nat /\ k \in Nat /\ Len(s) - k \in Nat
  BY LenProperties
<1>1. /\ Len(Slice(s, 1, k)) = k
      /\ \A i \in 1..k : Slice(s, 1, k)[i] = s[i]
  BY Front
<1> DEFINE t == Slice(s, k + 1, Len(s) - k)
<1>2. Len(t) = Len(s) - k /\ \A i \in 1..(Len(s) - k) : t[i] = s[k + i]
  BY Rest
<1>3. Piece(Slice(s, 1, k), c, from, n)
  BY <1>0, <1>1 DEF Piece
<1> HIDE DEF t
<1>4. Piece(t, c, from + k, n)
  <2>1. ASSUME NEW i \in 1..(Len(s) - k)
        PROVE  t[i] = [cmd |-> c, place |-> (from + k) + i - 1, len |-> n]
    <3>1. k + i \in 1..Len(s) /\ from + (k + i) - 1 = (from + k) + i - 1
      BY <1>0
    <3>2. s[k + i] = [cmd |-> c, place |-> from + (k + i) - 1, len |-> n]
      BY <3>1 DEF Piece
    <3> QED
      BY <1>2, <3>1, <3>2
  <2> QED
    BY <1>2, <2>1 DEF Piece
<1> QED
  BY <1>3, <1>4 DEF t

\* Two pieces of an answer that follow each other are one.
LEMMA PieceJoin ==
  ASSUME NEW s \in Seq(Byte), NEW t \in Seq(Byte), NEW c, NEW from \in Nat, NEW n \in Nat,
         Piece(s, c, from, n), Piece(t, c, from + Len(s), n)
  PROVE  Piece(s \o t, c, from, n)
<1>0. Len(s) \in Nat /\ Len(t) \in Nat
  BY LenProperties
<1>1. /\ Len(s \o t) = Len(s) + Len(t)
      /\ \A i \in 1..(Len(s) + Len(t)) : (s \o t)[i] = IF i <= Len(s) THEN s[i] ELSE t[i - Len(s)]
  BY ConcatProperties
<1>2. ASSUME NEW i \in 1..(Len(s) + Len(t))
      PROVE  (s \o t)[i] = [cmd |-> c, place |-> from + i - 1, len |-> n]
  <2>1. CASE i <= Len(s)
    BY <1>0, <1>1, <2>1 DEF Piece
  <2>2. CASE ~(i <= Len(s))
    <3>1. i - Len(s) \in 1..Len(t) /\ (from + Len(s)) + (i - Len(s)) - 1 = from + i - 1
      BY <1>0, <2>2
    <3>2. t[i - Len(s)] = [cmd |-> c, place |-> (from + Len(s)) + (i - Len(s)) - 1, len |-> n]
      BY <3>1 DEF Piece
    <3> QED
      BY <1>1, <2>2, <3>1, <3>2
  <2> QED
    BY <2>1, <2>2
<1> QED
  BY <1>1, <1>2 DEF Piece

\* A piece of an answer is the slice of it between its two ends.
LEMMA PieceIsSlice ==
  ASSUME NEW c \in 0..MaxCalls, NEW n \in Nat, NEW from \in Nat \ {0}, NEW s \in Seq(Byte),
         Piece(s, c, from, n), from + Len(s) - 1 <= HeaderLen + n
  PROVE  s = Slice(Answer(c, n), from, Len(s))
<1>0. Len(s) \in Nat /\ HeaderLen \in Nat
  BY LenProperties, SimAssumption
<1> DEFINE a == Answer(c, n)
<1>1. /\ a \in Seq(Byte) /\ Len(a) = HeaderLen + n
      /\ \A i \in 1..(HeaderLen + n) : a[i] = [cmd |-> c, place |-> i, len |-> n]
  BY AnswerBytes
<1> HIDE DEF a
<1> DEFINE t == Slice(a, from, Len(s))
<1>2. t \in Seq(Byte) /\ Len(t) = Len(s) /\ \A k \in 1..Len(s) : t[k] = a[from + k - 1]
  <2>1. from + Len(s) - 1 <= Len(a)
    BY <1>1
  <2>2. a \in Seq(Byte)
    BY <1>1
  <2> QED
    BY <1>0, <2>1, <2>2, SliceOf
<1> HIDE DEF t
<1>3. ASSUME NEW k \in 1..Len(s) PROVE s[k] = t[k]
  <2>1. from + k - 1 \in 1..(HeaderLen + n)
    BY <1>0
  <2> QED
    BY <1>1, <1>2, <2>1 DEF Piece
<1>4. s = t
  BY <1>2, <1>3, SeqEqual
<1> QED
  BY <1>4 DEF t, a

\* An empty queue of commands.
LEMMA NoCommands == <<>> \in Seq(Command) /\ Len(<<>>) = 0
  OBVIOUS

\* Commands the simulator gets are commands.
LEMMA CommandsGrow ==
  ASSUME NEW q \in Seq(Command), NEW k \in 0..MaxCalls, NEW c \in Framed \cup {"block"}
  PROVE  /\ <<[cmd |-> k, of |-> c]>> \in Seq(Command)
         /\ Append(q, [cmd |-> k, of |-> c]) \in Seq(Command)
         /\ Len(Append(q, [cmd |-> k, of |-> c])) = Len(q) + 1
         /\ \A i \in 1..Len(q) : Append(q, [cmd |-> k, of |-> c])[i] = q[i]
         /\ Append(q, [cmd |-> k, of |-> c])[Len(q) + 1] = [cmd |-> k, of |-> c]
<1>1. [cmd |-> k, of |-> c] \in Command
  BY DEF Command
<1> QED
  BY <1>1

\* An empty queue with a command behind it.
LEMMA FirstCommand == ASSUME NEW e PROVE Append(<<>>, e) = <<e>>
  OBVIOUS

\* The command at the head of the queue and those behind it.
LEMMA CommandsShrink ==
  ASSUME NEW q \in Seq(Command), q # <<>>
  PROVE  /\ Head(q) \in Command /\ Head(q) = q[1] /\ Tail(q) \in Seq(Command)
         /\ Len(q) \in Nat \ {0} /\ Len(Tail(q)) = Len(q) - 1
         /\ \A i \in 1..(Len(q) - 1) : Tail(q)[i] = q[i + 1]
  BY HeadTailProperties, EmptySeq, LenProperties

\* The answer the simulator gives is a sequence of bytes.
LEMMA ReplyBytes ==
  ASSUME NEW q \in Command, NEW n \in Nat
  PROVE  /\ Reply(q, n) \in Seq(Byte) /\ Piece(Reply(q, n), q.cmd, 1, n)
         /\ Len(Reply(q, n)) = IF q.of \in {"lock", "unlock"} THEN HeaderLen ELSE HeaderLen + n
<1> DEFINE a == Answer(q.cmd, n)
<1>0. q.cmd \in 0..MaxCalls /\ HeaderLen \in Nat \ {0}
  BY SimAssumption DEF Command
<1>1. /\ a \in Seq(Byte) /\ Len(a) = HeaderLen + n
      /\ \A i \in 1..(HeaderLen + n) : a[i] = [cmd |-> q.cmd, place |-> i, len |-> n]
  BY <1>0, AnswerBytes
<1>2. \A i \in 1..(HeaderLen + n) : 1 + i - 1 = i
  BY <1>0
<1> HIDE DEF a
<1>3. Piece(a, q.cmd, 1, n)
  BY <1>1, <1>2 DEF Piece
<1>4. HeaderLen \in 0..Len(a)
  BY <1>0, <1>1
<1>5. CASE q.of \in {"lock", "unlock"}
  <2>1. Reply(q, n) = Slice(a, 1, HeaderLen)
    BY <1>5 DEF Reply, a
  <2> QED
    BY <1>1, <1>3, <1>4, <1>5, <2>1, PieceCut, Front
<1>6. CASE q.of \notin {"lock", "unlock"}
  <2>1. Reply(q, n) = a
    BY <1>6 DEF Reply, a
  <2> QED
    BY <1>1, <1>3, <1>6, <2>1
<1> QED
  BY <1>5, <1>6

\* Bytes that a read takes from the stream stay in what is under way.
LEMMA TakeKeeps ==
  ASSUME NEW b \in Seq(Byte), NEW t \in Seq(Byte), NEW k \in 0..Len(t)
  PROVE  (b \o Slice(t, 1, k)) \o Slice(t, k + 1, Len(t) - k) = b \o t
<1> DEFINE x == Slice(t, 1, k)
           y == Slice(t, k + 1, Len(t) - k)
<1>0. Len(b) \in Nat /\ Len(t) \in Nat /\ k \in Nat
  BY LenProperties
<1>1. x \in Seq(Byte) /\ Len(x) = k /\ \A i \in 1..k : x[i] = t[i]
  BY Front
<1>2. y \in Seq(Byte) /\ Len(y) = Len(t) - k /\ \A i \in 1..(Len(t) - k) : y[i] = t[k + i]
  BY Rest
<1> HIDE DEF x, y
<1>3. /\ b \o x \in Seq(Byte) /\ Len(b \o x) = Len(b) + k
      /\ \A i \in 1..(Len(b) + k) : (b \o x)[i] = IF i <= Len(b) THEN b[i] ELSE x[i - Len(b)]
  BY <1>1, ConcatProperties
<1> DEFINE z == b \o x
<1>z. z \in Seq(Byte) /\ Len(z) = Len(b) + k
      /\ \A i \in 1..(Len(b) + k) : z[i] = IF i <= Len(b) THEN b[i] ELSE x[i - Len(b)]
  BY <1>3
<1> HIDE DEF z
<1>4. /\ z \o y \in Seq(Byte) /\ Len(z \o y) = Len(z) + Len(y)
      /\ \A i \in 1..(Len(z) + Len(y)) : (z \o y)[i] = IF i <= Len(z) THEN z[i] ELSE y[i - Len(z)]
  BY <1>2, <1>z, ConcatProperties
<1>5. /\ b \o t \in Seq(Byte) /\ Len(b \o t) = Len(b) + Len(t)
      /\ \A i \in 1..(Len(b) + Len(t)) : (b \o t)[i] = IF i <= Len(b) THEN b[i] ELSE t[i - Len(b)]
  BY ConcatProperties
<1>6. Len(z \o y) = Len(b \o t) /\ Len(b \o t) = Len(b) + Len(t)
  BY <1>0, <1>2, <1>z, <1>4, <1>5
<1>7. ASSUME NEW i \in 1..(Len(b) + Len(t)) PROVE (z \o y)[i] = (b \o t)[i]
  <2>1. CASE i <= Len(b)
    BY <1>0, <1>2, <1>z, <1>4, <1>5, <2>1
  <2>2. CASE i > Len(b) /\ i <= Len(b) + k
    <3>1. i - Len(b) \in 1..k
      BY <1>0, <2>2
    <3>2. z[i] = x[i - Len(b)] /\ x[i - Len(b)] = t[i - Len(b)]
      BY <1>0, <1>1, <1>z, <2>2, <3>1
    <3> QED
      BY <1>0, <1>2, <1>z, <1>4, <1>5, <2>2, <3>2
  <2>3. CASE i > Len(b) + k
    <3>1. i - Len(z) \in 1..(Len(t) - k) /\ k + (i - Len(z)) = i - Len(b)
      BY <1>0, <1>z, <2>3
    <3>2. y[i - Len(z)] = t[k + (i - Len(z))]
      BY <1>2, <3>1
    <3>3. i \in 1..(Len(z) + Len(y)) /\ ~(i <= Len(z)) /\ ~(i <= Len(b))
      BY <1>0, <1>2, <1>z, <2>3
    <3>4. (z \o y)[i] = y[i - Len(z)]
      BY <1>4, <3>3
    <3>5. (b \o t)[i] = t[i - Len(b)]
      BY <1>5, <3>3
    <3> QED
      BY <3>1, <3>2, <3>4, <3>5
  <2>4. i \in Nat /\ (i <= Len(b) \/ (i > Len(b) /\ i <= Len(b) + k) \/ i > Len(b) + k)
    BY <1>0
  <2> QED
    BY <2>1, <2>2, <2>3, <2>4
<1>8. z \o y = b \o t
  BY <1>4, <1>5, <1>6, <1>7, SeqEqual
<1> QED
  BY <1>8 DEF z, x, y

\* The numbers of a byte in a sequence of frames.
LEMMA FrameByte ==
  ASSUME NEW s \in Seq(Byte), Frames(s), NEW i \in 1..Len(s)
  PROVE  /\ s[i] \in Byte /\ s[i].len \in Nat /\ s[i].place \in Nat \ {0}
         /\ s[i].len \in Payloads /\ s[i].place <= HeaderLen + s[i].len
<1>1. s[i] \in Byte
  OBVIOUS
<1>2. s[i].len \in Payloads /\ s[i].place \in 1..(HeaderLen + s[i].len)
  BY DEF Frames
<1> QED
  BY <1>1, <1>2, SimAssumption DEF Byte

\* The bytes that follow in the same frame.
LEMMA FrameNext ==
  ASSUME NEW s \in Seq(Byte), Frames(s), NEW i \in 1..Len(s), NEW j \in 1..Len(s), i <= j,
         s[i].place + (j - i) <= HeaderLen + s[i].len
  PROVE  s[j] = [cmd |-> s[i].cmd, place |-> s[i].place + (j - i), len |-> s[i].len]
  BY DEF Frames

\* Behind its last byte another one begins.
LEMMA FrameBegins ==
  ASSUME NEW s \in Seq(Byte), Frames(s), NEW i \in 1..Len(s), i + 1 <= Len(s),
         s[i].place = HeaderLen + s[i].len
  PROVE  s[i + 1].place = 1
<1>1. i \in 1..(Len(s) - 1)
  BY LenProperties
<1> QED
  BY <1>1 DEF Frames

\* What is left of frames when some have been taken is frames, and the last of
\* them as complete as before.
LEMMA FramesRest ==
  ASSUME NEW s \in Seq(Byte), Frames(s), NEW t \in Seq(Byte), NEW k \in Nat,
         Len(s) = k + Len(t), \A i \in 1..Len(t) : t[i] = s[k + i]
  PROVE  Frames(t) /\ (Complete(s) => Complete(t))
<1>0. Len(s) \in Nat /\ Len(t) \in Nat /\ HeaderLen \in Nat
  BY LenProperties, SimAssumption
<1>1. ASSUME NEW i \in 1..Len(t)
      PROVE  /\ k + i \in 1..Len(s) /\ t[i] = s[k + i] /\ t[i].len \in Nat /\ t[i].place \in Nat
             /\ t[i].len \in Payloads /\ t[i].place \in 1..(HeaderLen + t[i].len)
  <2>1. k + i \in 1..Len(s)
    BY <1>0
  <2> QED
    BY <1>0, <2>1, FrameByte
<1>2. ASSUME NEW i \in 1..Len(t), NEW j \in 1..Len(t), i <= j,
             t[i].place + (j - i) <= HeaderLen + t[i].len
      PROVE  t[j] = [cmd |-> t[i].cmd, place |-> t[i].place + (j - i), len |-> t[i].len]
  <2>1. (k + j) - (k + i) = j - i /\ k + i <= k + j
    BY <1>0, <1>2
  <2>2. s[k + j] = [cmd |-> s[k + i].cmd, place |-> s[k + i].place + ((k + j) - (k + i)), len |-> s[k + i].len]
    BY <1>1, <1>2, <2>1, FrameNext
  <2> QED
    BY <1>1, <2>1, <2>2
<1>3. ASSUME NEW i \in 1..(Len(t) - 1), t[i].place = HeaderLen + t[i].len PROVE t[i + 1].place = 1
  <2>1. i \in 1..Len(t) /\ i + 1 \in 1..Len(t) /\ k + (i + 1) = (k + i) + 1
    BY <1>0
  <2>2. (k + i) + 1 <= Len(s)
    BY <1>0, <2>1
  <2>3. s[(k + i) + 1].place = 1
    BY <1>1, <1>3, <2>1, <2>2, FrameBegins
  <2> QED
    BY <2>1, <2>3
<1>4. ASSUME Complete(s), NEW i \in 1..Len(t)
      PROVE  i + (HeaderLen + t[i].len - t[i].place) <= Len(t)
  <2>1. (k + i) + (HeaderLen + s[k + i].len - s[k + i].place) <= Len(s)
    BY <1>1, <1>4 DEF Complete
  <2>2. t[i] = s[k + i] /\ s[k + i].len \in Nat /\ s[k + i].place \in Nat
    BY <1>1
  <2> DEFINE e == s[k + i]
  <2>3. t[i] = e /\ e.len \in Nat /\ e.place \in Nat /\ (k + i) + (HeaderLen + e.len - e.place) <= k + Len(t)
    BY <2>1, <2>2
  <2> HIDE DEF e
  <2>4. i + (HeaderLen + e.len - e.place) <= Len(t)
    BY <1>0, <2>3
  <2> QED
    BY <2>3, <2>4
<1> QED
  BY <1>1, <1>2, <1>3, <1>4 DEF Frames, Complete

\* The beginning of frames is frames.
LEMMA FramesFront ==
  ASSUME NEW s \in Seq(Byte), Frames(s), NEW t \in Seq(Byte), Len(t) <= Len(s),
         \A i \in 1..Len(t) : t[i] = s[i]
  PROVE  Frames(t)
<1>0. Len(s) \in Nat /\ Len(t) \in Nat
  BY LenProperties
<1>1. \A i \in 1..Len(t) : i \in 1..Len(s)
  BY <1>0
<1>2. \A i \in 1..(Len(t) - 1) : i \in 1..(Len(s) - 1) /\ i \in 1..Len(t) /\ i + 1 \in 1..Len(t)
  BY <1>0
<1> QED
  BY <1>1, <1>2 DEF Frames

\* No bytes are no frames.
LEMMA FramesNone == Frames(<<>>) /\ Complete(<<>>)
  BY NoBytes DEF Frames, Complete

\* An answer is a frame, and complete.
LEMMA FramesAnswer ==
  ASSUME NEW a \in Seq(Byte), NEW c, NEW n \in Payloads, Piece(a, c, 1, n), Len(a) = HeaderLen + n
  PROVE  Frames(a) /\ Complete(a)
<1>0. n \in Nat /\ HeaderLen \in Nat
  BY SimAssumption
<1>1. \A i \in 1..Len(a) : 1 + i - 1 = i
  BY <1>0
<1>2. \A i \in 1..Len(a) : a[i] = [cmd |-> c, place |-> i, len |-> n]
  BY <1>1 DEF Piece
<1>3. \A i, j \in 1..Len(a) : i <= j => i + (j - i) = j
  BY <1>0
<1>4. \A i \in 1..(Len(a) - 1) : i \in 1..Len(a) /\ i # HeaderLen + n
  BY <1>0
<1>5. \A i \in 1..Len(a) : i + (HeaderLen + n - i) <= Len(a) /\ i \in 1..(HeaderLen + n)
  BY <1>0
<1>6. Frames(a)
  BY <1>2, <1>3, <1>4, <1>5 DEF Frames
<1>7. Complete(a)
  BY <1>2, <1>5 DEF Complete
<1> QED
  BY <1>6, <1>7

\* An answer behind complete frames makes complete frames.
LEMMA FramesJoin ==
  ASSUME NEW s \in Seq(Byte), Frames(s), Complete(s), NEW a \in Seq(Byte), Frames(a), Complete(a),
         a # <<>> => a[1].place = 1
  PROVE  Frames(s \o a) /\ Complete(s \o a)
<1> DEFINE t == s \o a
<1>0. Len(s) \in Nat /\ Len(a) \in Nat /\ HeaderLen \in Nat
  BY LenProperties, SimAssumption
<1>1. /\ t \in Seq(Byte) /\ Len(t) = Len(s) + Len(a)
      /\ \A i \in 1..(Len(s) + Len(a)) : t[i] = IF i <= Len(s) THEN s[i] ELSE a[i - Len(s)]
  BY ConcatProperties
<1> HIDE DEF t
<1>2. ASSUME NEW i \in 1..Len(t), i <= Len(s)
      PROVE  /\ i \in 1..Len(s) /\ t[i] = s[i] /\ t[i].len \in Nat /\ t[i].place \in Nat
             /\ t[i].len \in Payloads /\ t[i].place \in 1..(HeaderLen + t[i].len)
             /\ i + (HeaderLen + t[i].len - t[i].place) <= Len(s)
  <2>1. i \in 1..Len(s) /\ t[i] = s[i]
    BY <1>0, <1>1, <1>2
  <2>2. i + (HeaderLen + s[i].len - s[i].place) <= Len(s)
    BY <2>1 DEF Complete
  <2> QED
    BY <1>0, <2>1, <2>2, FrameByte
<1>3. ASSUME NEW i \in 1..Len(t), ~(i <= Len(s))
      PROVE  /\ i - Len(s) \in 1..Len(a) /\ t[i] = a[i - Len(s)] /\ t[i].len \in Nat
             /\ t[i].place \in Nat /\ t[i].len \in Payloads
             /\ t[i].place \in 1..(HeaderLen + t[i].len)
             /\ i + (HeaderLen + t[i].len - t[i].place) <= Len(t)
  <2>1. i - Len(s) \in 1..Len(a) /\ t[i] = a[i - Len(s)]
    BY <1>0, <1>1, <1>3
  <2> DEFINE m == i - Len(s)
  <2>2. m + (HeaderLen + a[m].len - a[m].place) <= Len(a)
    BY <2>1 DEF Complete
  <2>3. /\ a[m].len \in Nat /\ a[m].place \in Nat \ {0}
        /\ a[m].len \in Payloads /\ a[m].place <= HeaderLen + a[m].len
    BY <2>1, FrameByte
  <2> QED
    BY <1>0, <1>1, <2>1, <2>2, <2>3
<1>4. ASSUME NEW i \in 1..Len(t), NEW j \in 1..Len(t), i <= j,
             t[i].place + (j - i) <= HeaderLen + t[i].len
      PROVE  t[j] = [cmd |-> t[i].cmd, place |-> t[i].place + (j - i), len |-> t[i].len]
  <2>1. CASE i <= Len(s)
    <3>1. j <= Len(s)
      BY <1>0, <1>2, <1>4, <2>1
    <3> QED
      BY <1>2, <1>4, <2>1, <3>1, FrameNext
  <2>2. CASE ~(i <= Len(s))
    <3>1. ~(j <= Len(s)) /\ (j - Len(s)) - (i - Len(s)) = j - i /\ i - Len(s) <= j - Len(s)
      BY <1>0, <1>4, <2>2
    <3> DEFINE u == i - Len(s)
               v == j - Len(s)
    <3>2. /\ u \in 1..Len(a) /\ t[i] = a[u] /\ v \in 1..Len(a) /\ t[j] = a[v] /\ u <= v
          /\ v - u = j - i
      BY <1>3, <2>2, <3>1
    <3>3. a[u].place + (v - u) <= HeaderLen + a[u].len
      BY <1>4, <3>2
    <3> HIDE DEF u, v
    <3>4. a[v] = [cmd |-> a[u].cmd, place |-> a[u].place + (v - u), len |-> a[u].len]
      BY <3>2, <3>3, FrameNext
    <3> QED
      BY <3>2, <3>4
  <2> QED
    BY <2>1, <2>2
<1>5. ASSUME NEW i \in 1..(Len(t) - 1), t[i].place = HeaderLen + t[i].len PROVE t[i + 1].place = 1
  <2>0. i \in 1..Len(t) /\ i + 1 \in 1..Len(t)
    BY <1>0, <1>1
  <2>1. CASE i + 1 <= Len(s)
    <3>1. i <= Len(s)
      BY <1>0, <2>1
    <3> QED
      BY <1>2, <1>5, <2>0, <2>1, <3>1, FrameBegins
  <2>2. CASE i = Len(s)
    <3>1. t[i + 1] = a[1] /\ a # <<>>
      BY <1>0, <1>1, <2>0, <2>2, NoBytes
    <3> QED
      BY <3>1
  <2>3. CASE i > Len(s)
    <3> DEFINE u == i - Len(s)
    <3>1. u \in 1..Len(a) /\ t[i] = a[u] /\ u + 1 <= Len(a) /\ t[i + 1] = a[u + 1]
      BY <1>0, <1>1, <2>0, <2>3
    <3> HIDE DEF u
    <3> QED
      BY <1>5, <3>1, FrameBegins
  <2> QED
    BY <1>0, <2>1, <2>2, <2>3
<1>6. Frames(t)
  BY <1>2, <1>3, <1>4, <1>5 DEF Frames
<1>7. Complete(t)
  <2>1. ASSUME NEW i \in 1..Len(t) PROVE i + (HeaderLen + t[i].len - t[i].place) <= Len(t)
    <3>1. CASE i <= Len(s)
      BY <1>0, <1>1, <1>2, <3>1
    <3>2. CASE ~(i <= Len(s))
      BY <1>3, <3>2
    <3> QED
      BY <3>1, <3>2
  <2> QED
    BY <2>1 DEF Complete
<1> QED
  BY <1>6, <1>7 DEF t

\* A framed call that has everything it expects has one answer, and nothing is
\* left behind it.
LEMMA AnswerTaken ==
  ASSUME IInv, call \in Framed, sound, owner[fd] = "session", Len(buf) >= expected
  PROVE  \E n \in Payloads :
           /\ n \in Nat /\ Piece(buf, issued, 1, n) /\ Len(buf) = LastPlace(n)
           /\ Len(buf) >= HeaderLen /\ stream = <<>> /\ ~(asked # <<>> /\ wire = "open")
<1>0. TypeOK /\ Shape /\ Framing
  BY DEF IInv
<1>1. /\ Len(buf) \in Nat /\ Len(stream) \in Nat /\ stream \in Seq(Byte) /\ HeaderLen \in Nat \ {0}
      /\ expected \in Nat
  BY <1>0, LenProperties, SimAssumption DEF TypeOK
<1>2. build = "socket" /\ call # "connect" /\ call # "none" /\ Working = fd /\ fd # NoFd
  BY <1>0, SimAssumption DEF Shape, Framed, Working, NoFd
<1>3. PICK n \in Payloads :
        /\ Piece(buf, issued, 1, n)
        /\ Len(buf) + Len(stream) <= LastPlace(n)
        /\ (asked # <<>> /\ wire = "open") => buf = <<>>
        /\ expected = IF Len(buf) < HeaderLen THEN HeaderLen ELSE LastPlace(n)
  BY <1>0, <1>2 DEF Framing
<1>4. n \in Nat /\ LastPlace(n) \in Nat
  BY <1>1, SimAssumption DEF LastPlace
<1>5. Len(buf) >= HeaderLen /\ Len(buf) = LastPlace(n) /\ Len(stream) = 0
  BY <1>1, <1>3, <1>4
<1>6. stream = <<>> /\ buf # <<>>
  BY <1>1, <1>5, NothingLeft, NoBytes
<1> QED
  BY <1>3, <1>4, <1>5, <1>6

\* OpenFails preserves the invariant.
LEMMA OpenFailsKeeps == IInv /\ OpenFails => IInv'
<1> SUFFICES ASSUME IInv, OpenFails PROVE IInv'
  OBVIOUS
<1> USE SimAssumption DEF OpenFails, Return, session, local, peer, notes, NoFd
<1>0. TypeOK /\ Shape /\ Framing /\ Flow /\ ResponseIsOwn
  BY DEF IInv
<1>1. TypeOK'
  <2>1. build' \in Builds /\ okIsZero' \in OkIsZero /\ ctx' \in Fds \cup {NoFd} /\ fd' \in Fds \cup {NoFd}
    BY <1>0 DEF TypeOK, Framed
  <2>2. owner' \in [Fds -> {"free", "session", "other"}]
    BY <1>0 DEF TypeOK, Framed
  <2>3. buf' \in Seq(Byte) /\ (call' \in Framed => Len(buf') <= MaxBuf)
    BY <1>0, NoBytes DEF TypeOK, Framed
  <2>4. last' \in [call : Results, ok : BOOLEAN, bytes : Seq(Byte)]
    BY <1>0, NoBytes DEF TypeOK, Framed, Results
  <2>5. wire' \in {"open", "ended", "reset"} /\ stream' \in Seq(Byte)
    BY <1>0, NoBytes DEF TypeOK
  <2>6. /\ call' \in Framed \cup {"none", "connect", "exact", "opened"}
        /\ expected' \in Nat /\ errno' \in {"clear", "EINTR", "other"}
        /\ issued' \in 0..MaxCalls /\ at' \in {1, HeaderLen + 1}
    BY <1>0 DEF TypeOK, Framed
  <2>7. asked' \in Seq(Command) /\ torn' \in BOOLEAN
    BY <1>0 DEF TypeOK, Framed
  <2>8. sound' \in BOOLEAN /\ answering' \in 0..MaxCalls /\ leaked' \in Nat
    BY <1>0 DEF TypeOK, Framed
  <2> QED
    BY <2>1, <2>2, <2>3, <2>4, <2>5, <2>6, <2>7, <2>8 DEF TypeOK
<1>2. Shape'
  BY <1>0 DEF TypeOK, Shape, Framed
<1>3. Framing'
  BY <1>0 DEF TypeOK, Shape, Framing, Framed, Working, Piece, LastPlace
<1>4. Flow'
  BY <1>0 DEF Shape, Flow, Underway, Framed
<1>5. ResponseIsOwn'
  BY <1>0 DEF TypeOK, Shape, ResponseIsOwn
<1> QED
  BY <1>1, <1>2, <1>3, <1>4, <1>5 DEF IInv

\* OpenSocket preserves the invariant.
LEMMA OpenSocketKeeps == IInv /\ OpenSocket => IInv'
<1> SUFFICES ASSUME IInv, OpenSocket PROVE IInv'
  OBVIOUS
<1> USE SimAssumption DEF OpenSocket, Lowest, session, local, peer, notes, NoFd
<1>0. TypeOK /\ Shape /\ Framing /\ Flow /\ ResponseIsOwn
  BY DEF IInv
<1>1. TypeOK'
  <2>1. build' \in Builds /\ okIsZero' \in OkIsZero /\ ctx' \in Fds \cup {NoFd} /\ fd' \in Fds \cup {NoFd}
    BY <1>0 DEF TypeOK, Framed
  <2>2. owner' \in [Fds -> {"free", "session", "other"}]
    BY <1>0 DEF TypeOK, Framed
  <2>3. buf' \in Seq(Byte) /\ (call' \in Framed => Len(buf') <= MaxBuf)
    BY <1>0, NoBytes DEF TypeOK, Framed
  <2>4. last' \in [call : Results, ok : BOOLEAN, bytes : Seq(Byte)]
    BY <1>0, NoBytes DEF TypeOK, Framed, Results
  <2>5. wire' \in {"open", "ended", "reset"} /\ stream' \in Seq(Byte)
    BY <1>0, NoBytes DEF TypeOK
  <2>6. /\ call' \in Framed \cup {"none", "connect", "exact", "opened"}
        /\ expected' \in Nat /\ errno' \in {"clear", "EINTR", "other"}
        /\ issued' \in 0..MaxCalls /\ at' \in {1, HeaderLen + 1}
    BY <1>0 DEF TypeOK, Framed
  <2>7. asked' \in Seq(Command) /\ torn' \in BOOLEAN
    BY <1>0 DEF TypeOK, Framed
  <2>8. sound' \in BOOLEAN /\ answering' \in 0..MaxCalls /\ leaked' \in Nat
    BY <1>0 DEF TypeOK, Framed
  <2> QED
    BY <2>1, <2>2, <2>3, <2>4, <2>5, <2>6, <2>7, <2>8 DEF TypeOK
<1>2. Shape'
  BY <1>0 DEF TypeOK, Shape, Framed
<1>3. Framing'
  BY <1>0 DEF TypeOK, Shape, Framing, Working
<1>4. Flow'
  BY <1>0 DEF Shape, Flow
<1>5. ResponseIsOwn'
  BY <1>0 DEF TypeOK, Shape, ResponseIsOwn
<1> QED
  BY <1>1, <1>2, <1>3, <1>4, <1>5 DEF IInv

\* ConnectFails preserves the invariant.
LEMMA ConnectFailsKeeps == IInv /\ ConnectFails => IInv'
<1> SUFFICES ASSUME IInv, ConnectFails PROVE IInv'
  OBVIOUS
<1> USE SimAssumption DEF ConnectFails, CloseFd, Return, session, local, peer, notes, NoFd
<1>0. TypeOK /\ Shape /\ Framing /\ Flow /\ ResponseIsOwn
  BY DEF IInv
<1>1. TypeOK'
  <2>1. build' \in Builds /\ okIsZero' \in OkIsZero /\ ctx' \in Fds \cup {NoFd} /\ fd' \in Fds \cup {NoFd}
    BY <1>0 DEF TypeOK, Framed
  <2>2. owner' \in [Fds -> {"free", "session", "other"}]
    BY <1>0 DEF TypeOK, Framed
  <2>3. buf' \in Seq(Byte) /\ (call' \in Framed => Len(buf') <= MaxBuf)
    BY <1>0, NoBytes DEF TypeOK, Framed
  <2>4. last' \in [call : Results, ok : BOOLEAN, bytes : Seq(Byte)]
    BY <1>0, NoBytes DEF TypeOK, Framed, Results
  <2>5. wire' \in {"open", "ended", "reset"} /\ stream' \in Seq(Byte)
    BY <1>0, NoBytes DEF TypeOK
  <2>6. /\ call' \in Framed \cup {"none", "connect", "exact", "opened"}
        /\ expected' \in Nat /\ errno' \in {"clear", "EINTR", "other"}
        /\ issued' \in 0..MaxCalls /\ at' \in {1, HeaderLen + 1}
    BY <1>0 DEF TypeOK, Framed
  <2>7. asked' \in Seq(Command) /\ torn' \in BOOLEAN
    BY <1>0 DEF TypeOK, Framed
  <2>8. sound' \in BOOLEAN /\ answering' \in 0..MaxCalls /\ leaked' \in Nat
    BY <1>0 DEF TypeOK, Framed
  <2> QED
    BY <2>1, <2>2, <2>3, <2>4, <2>5, <2>6, <2>7, <2>8 DEF TypeOK
<1>2. Shape'
  BY <1>0 DEF TypeOK, Shape, Framed
<1>3. Framing'
  BY <1>0 DEF TypeOK, Shape, Framing, Working
<1>4. Flow'
  BY <1>0 DEF Shape, Flow
<1>5. ResponseIsOwn'
  BY <1>0 DEF TypeOK, Shape, ResponseIsOwn
<1> QED
  BY <1>1, <1>2, <1>3, <1>4, <1>5 DEF IInv

\* GetATR preserves the invariant.
LEMMA GetATRKeeps == IInv /\ GetATR => IInv'
<1> SUFFICES ASSUME IInv, GetATR PROVE IInv'
  OBVIOUS
<1> USE SimAssumption DEF GetATR, Connected, Begin, CloseFd, Return, session, local, peer, notes, NoFd
<1>0. TypeOK /\ Shape /\ Framing /\ Flow /\ ResponseIsOwn
  BY DEF IInv
<1>1. TypeOK'
  <2>1. build' \in Builds /\ okIsZero' \in OkIsZero /\ ctx' \in Fds \cup {NoFd} /\ fd' \in Fds \cup {NoFd}
    BY <1>0 DEF TypeOK, Framed
  <2>2. owner' \in [Fds -> {"free", "session", "other"}]
    BY <1>0 DEF TypeOK, Framed
  <2>3. buf' \in Seq(Byte) /\ (call' \in Framed => Len(buf') <= MaxBuf)
    <3>1. buf' = <<>>
      OBVIOUS
    <3> QED
      BY <3>1, NoBytes
  <2>4. last' \in [call : Results, ok : BOOLEAN, bytes : Seq(Byte)]
    <3>1. last' = last \/ last' = [call |-> "open", ok |-> FALSE, bytes |-> <<>>]
      OBVIOUS
    <3>2. CASE last' = last
      BY <1>0, <3>2 DEF TypeOK
    <3>3. CASE last' = [call |-> "open", ok |-> FALSE, bytes |-> <<>>]
      BY <3>3, NoBytes, Returned DEF Results
    <3> QED
      BY <3>1, <3>2, <3>3
  <2>5. wire' \in {"open", "ended", "reset"} /\ stream' \in Seq(Byte)
    BY <1>0, NoBytes DEF TypeOK
  <2>6. /\ call' \in Framed \cup {"none", "connect", "exact", "opened"}
        /\ expected' \in Nat /\ errno' \in {"clear", "EINTR", "other"}
        /\ issued' \in 0..MaxCalls /\ at' \in {1, HeaderLen + 1}
    BY <1>0 DEF TypeOK, Framed
  <2>7. asked' \in Seq(Command) /\ torn' \in BOOLEAN
    <3>1. CASE issued' = issued + 1 /\ asked' = <<[cmd |-> issued + 1, of |-> "atr"]>> /\ torn' = FALSE
      <4>1. issued + 1 \in 0..MaxCalls /\ "atr" \in Framed \cup {"block"} /\ <<>> \in Seq(Command)
        BY <1>0, <3>1 DEF TypeOK, Framed
      <4> QED
        BY <3>1, <4>1, CommandsGrow
    <3>2. CASE asked' = <<>> /\ torn' \in BOOLEAN
      BY <3>2
    <3> QED
      BY <3>1, <3>2
  <2>8. sound' \in BOOLEAN /\ answering' \in 0..MaxCalls /\ leaked' \in Nat
    BY <1>0 DEF TypeOK, Framed
  <2> QED
    BY <2>1, <2>2, <2>3, <2>4, <2>5, <2>6, <2>7, <2>8 DEF TypeOK
<1>2. Shape'
  BY <1>0 DEF TypeOK, Shape, Framed
<1>3. Framing'
  <2>1. PICK n \in Payloads : n \in Nat
    OBVIOUS
  <2>2. buf' = <<>> /\ stream' = <<>> /\ Len(buf') = 0 /\ Len(stream') = 0
    BY <1>0, NoBytes DEF TypeOK, Shape
  <2>3. CASE call' = "atr" /\ expected' = HeaderLen /\ issued' = issued + 1
    <3>1. Piece(buf, issued, 1, n)' /\ Piece(stream, issued, 1 + Len(buf), n)'
      BY <2>2 DEF Piece
    <3>2. asked' # <<>> => asked' = <<[cmd |-> issued', of |-> call']>>
      BY <2>3
    <3> QED
      BY <2>1, <2>2, <2>3, <3>1, <3>2 DEF Framing, Framed, LastPlace
  <2>4. CASE call' = "none" /\ ctx' = NoFd
    BY <2>4 DEF Framing, Working
  <2> QED
    BY <1>0, <2>3, <2>4 DEF Shape
<1>4. Flow'
  BY <1>0 DEF Shape, Flow, Framed
<1>5. ResponseIsOwn'
  BY <1>0 DEF TypeOK, Shape, ResponseIsOwn
<1> QED
  BY <1>1, <1>2, <1>3, <1>4, <1>5 DEF IInv

\* Close preserves the invariant.
LEMMA CloseKeeps == IInv /\ Close => IInv'
<1> SUFFICES ASSUME IInv, Close PROVE IInv'
  OBVIOUS
<1> USE SimAssumption DEF Close, SendFails, Begin, Return, session, local, peer, notes, NoFd
<1>0. TypeOK /\ Shape /\ Framing /\ Flow /\ ResponseIsOwn
  BY DEF IInv
<1>1. TypeOK'
  <2>1. build' \in Builds /\ okIsZero' \in OkIsZero /\ ctx' \in Fds \cup {NoFd} /\ fd' \in Fds \cup {NoFd}
    BY <1>0 DEF TypeOK, Framed
  <2>2. owner' \in [Fds -> {"free", "session", "other"}]
    BY <1>0 DEF TypeOK, Framed
  <2>3. buf' \in Seq(Byte) /\ (call' \in Framed => Len(buf') <= MaxBuf)
    <3>1. buf' = <<>>
      BY <1>0 DEF TypeOK
    <3> QED
      BY <3>1, NoBytes
  <2>4. last' \in [call : Results, ok : BOOLEAN, bytes : Seq(Byte)]
    <3>1. last' = last \/ last' = [call |-> "close", ok |-> TRUE, bytes |-> <<>>]
      OBVIOUS
    <3>2. CASE last' = last
      BY <1>0, <3>2 DEF TypeOK
    <3>3. CASE last' = [call |-> "close", ok |-> TRUE, bytes |-> <<>>]
      BY <3>3, NoBytes, Returned DEF Framed, Results
    <3> QED
      BY <3>1, <3>2, <3>3
  <2>5. wire' \in {"open", "ended", "reset"} /\ stream' \in Seq(Byte)
    BY <1>0, NoBytes DEF TypeOK
  <2>6. /\ call' \in Framed \cup {"none", "connect", "exact", "opened"}
        /\ expected' \in Nat /\ errno' \in {"clear", "EINTR", "other"}
        /\ issued' \in 0..MaxCalls /\ at' \in {1, HeaderLen + 1}
    BY <1>0 DEF TypeOK, Framed
  <2>7. asked' \in Seq(Command) /\ torn' \in BOOLEAN
    <3>1. CASE issued < MaxCalls /\ Whole("close")
      <4>1. issued + 1 \in 0..MaxCalls /\ "close" \in Framed \cup {"block"} /\ asked \in Seq(Command)
        BY <1>0, <3>1 DEF TypeOK, Framed
      <4> QED
        BY <1>0, <3>1, <4>1, CommandsGrow DEF TypeOK, Whole
    <3>2. CASE asked' = asked /\ torn' \in {torn, TRUE}
      BY <1>0, <3>2 DEF TypeOK
    <3> QED
      BY <3>1, <3>2 DEF Sent, Part, Whole
  <2>8. sound' \in BOOLEAN /\ answering' \in 0..MaxCalls /\ leaked' \in Nat
    <3>1. sound' = sound \/ sound' = (sound /\ ~torn)
      BY DEF Sent
    <3>2. sound' \in BOOLEAN
      BY <1>0, <3>1 DEF TypeOK
    <3>3. leaked' = leaked \/ leaked' = leaked + 1
      OBVIOUS
    <3> QED
      BY <1>0, <3>2, <3>3 DEF TypeOK
  <2> QED
    BY <2>1, <2>2, <2>3, <2>4, <2>5, <2>6, <2>7, <2>8 DEF TypeOK
<1>2. Shape'
  BY <1>0 DEF TypeOK, Shape, Framed, Sent
<1>3. Framing'
  <2>1. SUFFICES ASSUME sound', ctx # NoFd, owner[ctx] = "session", call' # "none" \/ ctx' # NoFd
                   PROVE  Framing'
    BY <1>0 DEF Framing, Working, TypeOK, Shape
  <2>2. Working = ctx /\ sound /\ call # "connect"
    BY <1>0, <2>1 DEF Working, TypeOK, Sent
  <2>3. PICK n \in Payloads : n \in Nat /\ stream = <<>> /\ ~(asked # <<>> /\ wire = "open")
    BY <1>0, <2>1, <2>2 DEF Framing
  <2>4. /\ buf' = <<>> /\ stream' = <<>> /\ Len(buf') = 0 /\ Len(stream') = 0
    BY <1>0, <2>2, <2>3, NoBytes DEF TypeOK
  <2>5. Piece(buf, issued, 1, n)' /\ Piece(stream, issued, 1 + Len(buf), n)'
    BY <2>4 DEF Piece
  <2>6. Len(buf') + Len(stream') <= LastPlace(n)'
    BY <2>3, <2>4 DEF LastPlace
  <2>7. CASE call' = "close" /\ expected' = HeaderLen /\ issued' = issued + 1 /\ Sent("close", ctx)
    <3>1. (asked' # <<>> /\ wire' = "open") => asked' = <<[cmd |-> issued', of |-> call']>>
      <4>1. CASE Whole("close") /\ wire = "open"
        <5>1. asked = <<>>
          BY <2>3, <4>1
        <5> QED
          BY <2>7, <4>1, <5>1, FirstCommand DEF Whole
      <4>2. CASE asked' = asked
        BY <2>3, <4>2
      <4> QED
        BY <2>7, <4>1, <4>2 DEF Sent, Part
    <3> QED
      BY <2>3, <2>4, <2>5, <2>6, <2>7, <3>1 DEF Framing, Framed
  <2>8. CASE call' = "none" /\ ctx' = NoFd
    BY <2>1, <2>8
  <2> QED
    BY <1>0, <2>7, <2>8 DEF Framed
<1>4. Flow'
  BY <1>0 DEF Shape, Flow, Framed
<1>5. ResponseIsOwn'
  BY <1>0 DEF TypeOK, Shape, ResponseIsOwn
<1> QED
  BY <1>1, <1>2, <1>3, <1>4, <1>5 DEF IInv

\* A transceive, lock or unlock preserves the invariant.
LEMMA TransceiveKeeps ==
  ASSUME NEW c \in {"apdu", "raw", "lock", "unlock"}, IInv, Transceive(c) PROVE IInv'
<1> USE SimAssumption DEF Transceive, SendFails, Begin, Return, session, local, peer, notes, NoFd
<1>0. TypeOK /\ Shape /\ Framing /\ Flow /\ ResponseIsOwn
  BY DEF IInv
<1>1. TypeOK'
  <2>1. build' \in Builds /\ okIsZero' \in OkIsZero /\ ctx' \in Fds \cup {NoFd} /\ fd' \in Fds \cup {NoFd}
    BY <1>0 DEF TypeOK, Framed
  <2>2. owner' \in [Fds -> {"free", "session", "other"}]
    BY <1>0 DEF TypeOK, Framed
  <2>3. buf' \in Seq(Byte) /\ (call' \in Framed => Len(buf') <= MaxBuf)
    <3>1. buf' = <<>>
      BY <1>0 DEF TypeOK
    <3> QED
      BY <3>1, NoBytes
  <2>4. last' \in [call : Results, ok : BOOLEAN, bytes : Seq(Byte)]
    <3>1. last' = last \/ last' = [call |-> c, ok |-> FALSE, bytes |-> <<>>]
      OBVIOUS
    <3>2. CASE last' = last
      BY <1>0, <3>2 DEF TypeOK
    <3>3. CASE last' = [call |-> c, ok |-> FALSE, bytes |-> <<>>]
      BY <3>3, NoBytes, Returned DEF Framed, Results
    <3> QED
      BY <3>1, <3>2, <3>3
  <2>5. wire' \in {"open", "ended", "reset"} /\ stream' \in Seq(Byte)
    BY <1>0, NoBytes DEF TypeOK
  <2>6. /\ call' \in Framed \cup {"none", "connect", "exact", "opened"}
        /\ expected' \in Nat /\ errno' \in {"clear", "EINTR", "other"}
        /\ issued' \in 0..MaxCalls /\ at' \in {1, HeaderLen + 1}
    BY <1>0 DEF TypeOK, Framed
  <2>7. asked' \in Seq(Command) /\ torn' \in BOOLEAN
    <3>1. CASE issued < MaxCalls /\ Whole(c)
      <4>1. issued + 1 \in 0..MaxCalls /\ c \in Framed \cup {"block"} /\ asked \in Seq(Command)
        BY <1>0, <3>1 DEF TypeOK, Framed
      <4> QED
        BY <1>0, <3>1, <4>1, CommandsGrow DEF TypeOK, Whole
    <3>2. CASE asked' = asked /\ torn' \in {torn, TRUE}
      BY <1>0, <3>2 DEF TypeOK
    <3> QED
      BY <3>1, <3>2 DEF Sent, Part, Whole
  <2>8. sound' \in BOOLEAN /\ answering' \in 0..MaxCalls /\ leaked' \in Nat
    <3>1. sound' = sound \/ sound' = (sound /\ ~torn)
      BY DEF Sent
    <3>2. sound' \in BOOLEAN
      BY <1>0, <3>1 DEF TypeOK
    <3>3. leaked' = leaked \/ leaked' = leaked + 1
      OBVIOUS
    <3> QED
      BY <1>0, <3>2, <3>3 DEF TypeOK
  <2> QED
    BY <2>1, <2>2, <2>3, <2>4, <2>5, <2>6, <2>7, <2>8 DEF TypeOK
<1>2. Shape'
  BY <1>0 DEF TypeOK, Shape, Framed, Sent
<1>3. Framing'
  <2>1. SUFFICES ASSUME sound', ctx # NoFd, owner[ctx] = "session", call' # "none" \/ ctx' # NoFd
                   PROVE  Framing'
    BY <1>0 DEF Framing, Working, TypeOK, Shape
  <2>2. Working = ctx /\ sound /\ call # "connect"
    BY <1>0, <2>1 DEF Working, TypeOK, Sent
  <2>3. PICK n \in Payloads : n \in Nat /\ stream = <<>> /\ ~(asked # <<>> /\ wire = "open")
    BY <1>0, <2>1, <2>2 DEF Framing
  <2>4. /\ buf' = <<>> /\ stream' = <<>> /\ Len(buf') = 0 /\ Len(stream') = 0
    BY <1>0, <2>2, <2>3, NoBytes DEF TypeOK
  <2>5. Piece(buf, issued, 1, n)' /\ Piece(stream, issued, 1 + Len(buf), n)'
    BY <2>4 DEF Piece
  <2>6. Len(buf') + Len(stream') <= LastPlace(n)'
    BY <2>3, <2>4 DEF LastPlace
  <2>7. CASE call' = c /\ expected' = HeaderLen /\ issued' = issued + 1 /\ Sent(c, ctx)
    <3>1. (asked' # <<>> /\ wire' = "open") => asked' = <<[cmd |-> issued', of |-> call']>>
      <4>1. CASE Whole(c) /\ wire = "open"
        <5>1. asked = <<>>
          BY <2>3, <4>1
        <5> QED
          BY <2>7, <4>1, <5>1, FirstCommand DEF Whole
      <4>2. CASE asked' = asked
        BY <2>3, <4>2
      <4> QED
        BY <2>7, <4>1, <4>2 DEF Sent, Part
    <3> QED
      BY <2>3, <2>4, <2>5, <2>6, <2>7, <3>1 DEF Framing, Framed
  <2>8. CASE call' = "none" /\ asked' = asked
    BY <2>3, <2>4, <2>5, <2>6, <2>8 DEF Framing, Framed
  <2> QED
    BY <1>0, <2>7, <2>8 DEF Framed
<1>4. Flow'
  BY <1>0 DEF Shape, Flow, Framed
<1>5. ResponseIsOwn'
  <2>1. call' # "none" \/ last' = [call |-> c, ok |-> FALSE, bytes |-> <<>>]
    BY <1>0 DEF Shape
  <2>2. call' # "none" \/ ~last'.ok
    BY <2>1
  <2> QED
    BY <2>2 DEF ResponseIsOwn
<1> QED
  BY <1>1, <1>2, <1>3, <1>4, <1>5 DEF IInv

\* AxI2CInit preserves the invariant.
LEMMA AxI2CInitKeeps == IInv /\ AxI2CInit => IInv'
<1> SUFFICES ASSUME IInv, AxI2CInit PROVE IInv'
  OBVIOUS
<1> USE SimAssumption DEF AxI2CInit, Connected, Return, session, local, peer, notes, NoFd
<1>0. TypeOK /\ Shape /\ Framing /\ Flow /\ ResponseIsOwn
  BY DEF IInv
<1>1. TypeOK'
  <2>1. build' \in Builds /\ okIsZero' \in OkIsZero /\ ctx' \in Fds \cup {NoFd} /\ fd' \in Fds \cup {NoFd}
    BY <1>0 DEF TypeOK, Framed
  <2>2. owner' \in [Fds -> {"free", "session", "other"}]
    BY <1>0 DEF TypeOK, Framed
  <2>3. buf' \in Seq(Byte) /\ (call' \in Framed => Len(buf') <= MaxBuf)
    BY <1>0, NoBytes DEF TypeOK, Framed
  <2>4. last' \in [call : Results, ok : BOOLEAN, bytes : Seq(Byte)]
    BY <1>0, NoBytes DEF TypeOK, Framed, Results
  <2>5. wire' \in {"open", "ended", "reset"} /\ stream' \in Seq(Byte)
    BY <1>0, NoBytes DEF TypeOK
  <2>6. /\ call' \in Framed \cup {"none", "connect", "exact", "opened"}
        /\ expected' \in Nat /\ errno' \in {"clear", "EINTR", "other"}
        /\ issued' \in 0..MaxCalls /\ at' \in {1, HeaderLen + 1}
    BY <1>0 DEF TypeOK, Framed
  <2>7. asked' \in Seq(Command) /\ torn' \in BOOLEAN
    <3>1. asked' = <<>> /\ torn' = FALSE
      OBVIOUS
    <3> QED
      BY <3>1, NoCommands
  <2>8. sound' \in BOOLEAN /\ answering' \in 0..MaxCalls /\ leaked' \in Nat
    BY <1>0 DEF TypeOK, Framed
  <2> QED
    BY <2>1, <2>2, <2>3, <2>4, <2>5, <2>6, <2>7, <2>8 DEF TypeOK
<1>2. Shape'
  <2>1. Len(asked') = 0 /\ call' = "none" /\ buf' = <<>> /\ at' = 1 /\ ctx' = fd /\ owner' = owner
    OBVIOUS
  <2> QED
    BY <1>0, <2>1 DEF TypeOK, Shape, Framed
<1>3. Framing'
  BY <1>0 DEF Shape, Framing, Framed
<1>4. Flow'
  <2>1. Underway' = <<>>
    BY <1>0 DEF Underway
  <2> QED
    BY <2>1, FramesNone DEF Flow
<1>5. ResponseIsOwn'
  BY <1>0 DEF TypeOK, Shape, ResponseIsOwn
<1> QED
  BY <1>1, <1>2, <1>3, <1>4, <1>5 DEF IInv

\* AxI2CTerm preserves the invariant.
LEMMA AxI2CTermKeeps == IInv /\ AxI2CTerm => IInv'
<1> SUFFICES ASSUME IInv, AxI2CTerm PROVE IInv'
  OBVIOUS
<1> USE SimAssumption DEF AxI2CTerm, CloseFd, session, local, peer, notes, NoFd
<1>0. TypeOK /\ Shape /\ Framing /\ Flow /\ ResponseIsOwn
  BY DEF IInv
<1>1. TypeOK'
  <2>1. build' \in Builds /\ okIsZero' \in OkIsZero /\ ctx' \in Fds \cup {NoFd} /\ fd' \in Fds \cup {NoFd}
    BY <1>0 DEF TypeOK, Framed
  <2>2. owner' \in [Fds -> {"free", "session", "other"}]
    BY <1>0 DEF TypeOK, Framed
  <2>3. buf' \in Seq(Byte) /\ (call' \in Framed => Len(buf') <= MaxBuf)
    BY <1>0, NoBytes DEF TypeOK, Framed
  <2>4. last' \in [call : Results, ok : BOOLEAN, bytes : Seq(Byte)]
    BY <1>0, NoBytes DEF TypeOK, Framed, Results
  <2>5. wire' \in {"open", "ended", "reset"} /\ stream' \in Seq(Byte)
    BY <1>0, NoBytes DEF TypeOK
  <2>6. /\ call' \in Framed \cup {"none", "connect", "exact", "opened"}
        /\ expected' \in Nat /\ errno' \in {"clear", "EINTR", "other"}
        /\ issued' \in 0..MaxCalls /\ at' \in {1, HeaderLen + 1}
    BY <1>0 DEF TypeOK, Framed
  <2>7. asked' \in Seq(Command) /\ torn' \in BOOLEAN
    BY <1>0 DEF TypeOK, Framed
  <2>8. sound' \in BOOLEAN /\ answering' \in 0..MaxCalls /\ leaked' \in Nat
    BY <1>0 DEF TypeOK, Framed
  <2> QED
    BY <2>1, <2>2, <2>3, <2>4, <2>5, <2>6, <2>7, <2>8 DEF TypeOK
<1>2. Shape'
  BY <1>0 DEF TypeOK, Shape, Framed
<1>3. Framing'
  BY <1>0 DEF Shape, Framing, Framed
<1>4. Flow'
  BY DEF Flow
<1>5. ResponseIsOwn'
  BY <1>0 DEF TypeOK, Shape, ResponseIsOwn
<1> QED
  BY <1>1, <1>2, <1>3, <1>4, <1>5 DEF IInv

\* AxI2CWrite preserves the invariant.
LEMMA AxI2CWriteKeeps == IInv /\ AxI2CWrite => IInv'
<1> SUFFICES ASSUME IInv, AxI2CWrite PROVE IInv'
  OBVIOUS
<1> USE SimAssumption DEF AxI2CWrite, session, local, peer, notes, NoFd
<1>0. TypeOK /\ Shape /\ Framing /\ Flow /\ ResponseIsOwn
  BY DEF IInv
<1>1. TypeOK'
  <2>1. build' \in Builds /\ okIsZero' \in OkIsZero /\ ctx' \in Fds \cup {NoFd} /\ fd' \in Fds \cup {NoFd}
    BY <1>0 DEF TypeOK, Framed
  <2>2. owner' \in [Fds -> {"free", "session", "other"}]
    BY <1>0 DEF TypeOK, Framed
  <2>3. buf' \in Seq(Byte) /\ (call' \in Framed => Len(buf') <= MaxBuf)
    BY <1>0, NoBytes DEF TypeOK, Framed
  <2>4. last' \in [call : Results, ok : BOOLEAN, bytes : Seq(Byte)]
    <3>1. \E ok \in BOOLEAN : last' = [call |-> "write", ok |-> ok, bytes |-> <<>>]
      OBVIOUS
    <3> QED
      BY <3>1, NoBytes, Returned DEF Results
  <2>5. wire' \in {"open", "ended", "reset"} /\ stream' \in Seq(Byte)
    BY <1>0, NoBytes DEF TypeOK
  <2>6. /\ call' \in Framed \cup {"none", "connect", "exact", "opened"}
        /\ expected' \in Nat /\ errno' \in {"clear", "EINTR", "other"}
        /\ issued' \in 0..MaxCalls /\ at' \in {1, HeaderLen + 1}
    BY <1>0 DEF TypeOK, Framed
  <2>7. asked' \in Seq(Command) /\ torn' \in BOOLEAN
    <3>1. CASE issued < MaxCalls /\ Whole("block")
      <4>1. issued + 1 \in 0..MaxCalls /\ "block" \in Framed \cup {"block"} /\ asked \in Seq(Command)
        BY <1>0, <3>1 DEF TypeOK, Framed
      <4> QED
        BY <1>0, <3>1, <4>1, CommandsGrow DEF TypeOK, Whole
    <3>2. CASE asked' = asked /\ torn' \in {torn, TRUE}
      BY <1>0, <3>2 DEF TypeOK
    <3> QED
      BY <3>1, <3>2 DEF Part, Whole
  <2>8. sound' \in BOOLEAN /\ answering' \in 0..MaxCalls /\ leaked' \in Nat
    BY <1>0 DEF TypeOK, Framed
  <2> QED
    BY <2>1, <2>2, <2>3, <2>4, <2>5, <2>6, <2>7, <2>8 DEF TypeOK
<1>2. Shape'
  <2>1. \A i \in 1..Len(asked') : asked'[i].of = "block"
    <3>1. CASE Whole("block")
      <4>1. issued + 1 \in 0..MaxCalls /\ "block" \in Framed \cup {"block"} /\ asked \in Seq(Command)
        BY <1>0 DEF TypeOK
      <4>2. /\ Len(asked') = Len(asked) + 1 /\ \A i \in 1..Len(asked) : asked'[i] = asked[i]
            /\ asked'[Len(asked) + 1] = [cmd |-> issued + 1, of |-> "block"]
        BY <3>1, <4>1, CommandsGrow DEF Whole
      <4>3. Len(asked) \in Nat /\ \A i \in 1..Len(asked) : asked[i].of = "block"
        BY <1>0, <4>1, LenProperties DEF Shape
      <4> QED
        BY <4>2, <4>3
    <3>2. CASE asked' = asked
      BY <1>0, <3>2 DEF Shape
    <3> QED
      BY <3>1, <3>2 DEF Part
  <2> QED
    BY <1>0, <2>1 DEF TypeOK, Shape, Framed
<1>3. Framing'
  BY <1>0 DEF Shape, Framing, Framed
<1>4. Flow'
  <2>1. Underway' = Underway /\ (sound' => sound /\ at = 1 /\ at' = 1)
    BY DEF Underway
  <2> QED
    BY <1>0, <2>1 DEF Flow
<1>5. ResponseIsOwn'
  BY <1>0 DEF TypeOK, Shape, ResponseIsOwn
<1> QED
  BY <1>1, <1>2, <1>3, <1>4, <1>5 DEF IInv

\* AxI2CReadNothing preserves the invariant.
LEMMA AxI2CReadNothingKeeps == IInv /\ AxI2CReadNothing => IInv'
<1> SUFFICES ASSUME IInv, AxI2CReadNothing PROVE IInv'
  OBVIOUS
<1> USE SimAssumption DEF AxI2CReadNothing, session, local, peer, notes, NoFd
<1>0. TypeOK /\ Shape /\ Framing /\ Flow /\ ResponseIsOwn
  BY DEF IInv
<1>1. TypeOK'
  <2>1. build' \in Builds /\ okIsZero' \in OkIsZero /\ ctx' \in Fds \cup {NoFd} /\ fd' \in Fds \cup {NoFd}
    BY <1>0 DEF TypeOK, Framed
  <2>2. owner' \in [Fds -> {"free", "session", "other"}]
    BY <1>0 DEF TypeOK, Framed
  <2>3. buf' \in Seq(Byte) /\ (call' \in Framed => Len(buf') <= MaxBuf)
    BY <1>0, NoBytes DEF TypeOK, Framed
  <2>4. last' \in [call : Results, ok : BOOLEAN, bytes : Seq(Byte)]
    BY <1>0, NoBytes DEF TypeOK, Framed, Results
  <2>5. wire' \in {"open", "ended", "reset"} /\ stream' \in Seq(Byte)
    BY <1>0, NoBytes DEF TypeOK
  <2>6. /\ call' \in Framed \cup {"none", "connect", "exact", "opened"}
        /\ expected' \in Nat /\ errno' \in {"clear", "EINTR", "other"}
        /\ issued' \in 0..MaxCalls /\ at' \in {1, HeaderLen + 1}
    BY <1>0 DEF TypeOK, Framed
  <2>7. asked' \in Seq(Command) /\ torn' \in BOOLEAN
    BY <1>0 DEF TypeOK, Framed
  <2>8. sound' \in BOOLEAN /\ answering' \in 0..MaxCalls /\ leaked' \in Nat
    BY <1>0 DEF TypeOK, Framed
  <2> QED
    BY <2>1, <2>2, <2>3, <2>4, <2>5, <2>6, <2>7, <2>8 DEF TypeOK
<1>2. Shape'
  BY <1>0 DEF TypeOK, Shape, Framed
<1>3. Framing'
  BY <1>0 DEF Shape, Framing, Framed
<1>4. Flow'
  BY <1>0 DEF Shape, Flow, Underway, Framed
<1>5. ResponseIsOwn'
  BY <1>0 DEF TypeOK, Shape, ResponseIsOwn
<1> QED
  BY <1>1, <1>2, <1>3, <1>4, <1>5 DEF IInv

\* AxI2CRead preserves the invariant.
LEMMA AxI2CReadKeeps == IInv /\ AxI2CRead => IInv'
<1> SUFFICES ASSUME IInv, AxI2CRead PROVE IInv'
  OBVIOUS
<1> USE SimAssumption DEF AxI2CRead, Wanted, session, local, peer, notes, NoFd
<1>0. TypeOK /\ Shape /\ Framing /\ Flow /\ ResponseIsOwn
  BY DEF IInv
<1>1. TypeOK'
  <2>1. build' \in Builds /\ okIsZero' \in OkIsZero /\ ctx' \in Fds \cup {NoFd} /\ fd' \in Fds \cup {NoFd}
    BY <1>0 DEF TypeOK, Framed
  <2>2. owner' \in [Fds -> {"free", "session", "other"}]
    BY <1>0 DEF TypeOK, Framed
  <2>3. buf' \in Seq(Byte) /\ (call' \in Framed => Len(buf') <= MaxBuf)
    BY <1>0, NoBytes DEF TypeOK, Framed
  <2>4. last' \in [call : Results, ok : BOOLEAN, bytes : Seq(Byte)]
    BY <1>0, NoBytes DEF TypeOK, Framed, Results
  <2>5. wire' \in {"open", "ended", "reset"} /\ stream' \in Seq(Byte)
    BY <1>0, NoBytes DEF TypeOK
  <2>6. /\ call' \in Framed \cup {"none", "connect", "exact", "opened"}
        /\ expected' \in Nat /\ errno' \in {"clear", "EINTR", "other"}
        /\ issued' \in 0..MaxCalls /\ at' \in {1, HeaderLen + 1}
    BY <1>0 DEF TypeOK, Framed
  <2>7. asked' \in Seq(Command) /\ torn' \in BOOLEAN
    BY <1>0 DEF TypeOK, Framed
  <2>8. sound' \in BOOLEAN /\ answering' \in 0..MaxCalls /\ leaked' \in Nat
    BY <1>0 DEF TypeOK, Framed
  <2> QED
    BY <2>1, <2>2, <2>3, <2>4, <2>5, <2>6, <2>7, <2>8 DEF TypeOK
<1>2. Shape'
  BY <1>0 DEF TypeOK, Shape, Framed
<1>3. Framing'
  BY <1>0 DEF Shape, Framing, Framed
<1>4. Flow'
  <2>1. Underway' = Underway /\ (at # 1 => expected' = expected)
    BY <1>0 DEF Shape, Underway
  <2> QED
    BY <1>0, <2>1 DEF Flow
<1>5. ResponseIsOwn'
  BY <1>0 DEF TypeOK, Shape, ResponseIsOwn
<1> QED
  BY <1>1, <1>2, <1>3, <1>4, <1>5 DEF IInv

\* AxI2CScan preserves the invariant.
LEMMA AxI2CScanKeeps == IInv /\ AxI2CScan => IInv'
<1> SUFFICES ASSUME IInv, AxI2CScan PROVE IInv'
  OBVIOUS
<1>A. /\ build = "sim" /\ ctx # NoFd /\ call = "none" /\ at = 1
      /\ \E k \in 1..Len(stream) :
           /\ last' = [call |-> "scan", ok |-> TRUE, bytes |-> Slice(stream, 1, k)]
           /\ stream' = Slice(stream, k + 1, Len(stream) - k)
           /\ sound' = (sound /\ k = Len(stream))
      /\ build' = build /\ okIsZero' = okIsZero /\ ctx' = ctx /\ owner' = owner /\ call' = call
      /\ fd' = fd /\ buf' = buf /\ expected' = expected /\ errno' = errno /\ wire' = wire
      /\ asked' = asked /\ torn' = torn /\ issued' = issued /\ at' = at
      /\ answering' = answering /\ leaked' = leaked
  BY DEF AxI2CScan, session, local, peer, notes
<1> USE SimAssumption DEF NoFd
<1>0. TypeOK /\ Shape /\ Framing /\ Flow /\ ResponseIsOwn
  BY DEF IInv
<1>n. /\ Len(buf) \in Nat /\ Len(stream) \in Nat /\ buf \in Seq(Byte) /\ stream \in Seq(Byte)
      /\ HeaderLen \in Nat \ {0} /\ at \in Nat \ {0} /\ expected \in Nat /\ issued \in 0..MaxCalls
  BY <1>0, LenProperties DEF TypeOK
<1>k. PICK k \in 1..Len(stream) :
        /\ last' = [call |-> "scan", ok |-> TRUE, bytes |-> Slice(stream, 1, k)]
        /\ stream' = Slice(stream, k + 1, Len(stream) - k)
        /\ sound' = (sound /\ k = Len(stream))
  BY <1>A
<1>y. k \in 0..Len(stream)
  BY <1>n
<1>s. /\ Slice(stream, 1, k) \in Seq(Byte)
      /\ stream' \in Seq(Byte) /\ Len(stream') = Len(stream) - k
  BY <1>n, <1>k, <1>y, Front, Rest
<1>1. TypeOK'
  <2>1. build' \in Builds /\ okIsZero' \in OkIsZero /\ ctx' \in Fds \cup {NoFd} /\ fd' \in Fds \cup {NoFd}
    BY <1>0, <1>A DEF TypeOK, Framed
  <2>2. owner' \in [Fds -> {"free", "session", "other"}]
    BY <1>0, <1>A DEF TypeOK, Framed
  <2>3. buf' \in Seq(Byte) /\ (call' \in Framed => Len(buf') <= MaxBuf)
    BY <1>0, <1>A DEF TypeOK, Framed
  <2>4. last' \in [call : Results, ok : BOOLEAN, bytes : Seq(Byte)]
    BY <1>k, <1>s, Returned DEF Results
  <2>5. wire' \in {"open", "ended", "reset"} /\ stream' \in Seq(Byte)
    BY <1>0, <1>A, <1>s DEF TypeOK
  <2>6. /\ call' \in Framed \cup {"none", "connect", "exact", "opened"}
        /\ expected' \in Nat /\ errno' \in {"clear", "EINTR", "other"}
        /\ issued' \in 0..MaxCalls /\ at' \in {1, HeaderLen + 1}
    BY <1>0, <1>A DEF TypeOK, Framed
  <2>7. asked' \in Seq(Command) /\ torn' \in BOOLEAN
    BY <1>0, <1>A DEF TypeOK, Framed
  <2>8. sound' \in BOOLEAN /\ answering' \in 0..MaxCalls /\ leaked' \in Nat
    BY <1>0, <1>A, <1>k DEF TypeOK
  <2> QED
    BY <2>1, <2>2, <2>3, <2>4, <2>5, <2>6, <2>7, <2>8 DEF TypeOK
<1>2. Shape'
  BY <1>0, <1>A DEF TypeOK, Shape, Framed
<1>3. Framing'
  BY <1>A DEF Framing
<1>4. Flow'
  <2>1. SUFFICES ASSUME sound' PROVE Flow'
    BY DEF Flow
  <2>a. k = Len(stream)
    BY <1>k, <2>1
  <2>2. Len(stream') = 0 /\ buf' = <<>>
    BY <1>0, <1>A, <1>n, <1>s, <2>a DEF Shape
  <2>3. stream' = <<>>
    BY <1>s, <2>2, NothingLeft
  <2>4. Underway' = <<>>
    BY <2>2, <2>3 DEF Underway
  <2> QED
    BY <1>A, <2>4, FramesNone DEF Flow
<1>5. ResponseIsOwn'
  BY <1>0, <1>A DEF TypeOK, Shape, ResponseIsOwn, Framed
<1> QED
  BY <1>1, <1>2, <1>3, <1>4, <1>5 DEF IInv

\* RecvBytes preserves the invariant.
LEMMA RecvBytesKeeps == IInv /\ RecvBytes => IInv'
<1> SUFFICES ASSUME IInv, RecvBytes PROVE IInv'
  OBVIOUS
<1>A. /\ call \in Framed \cup {"exact"} /\ Len(buf) < expected /\ Fits /\ owner[fd] = "session"
      /\ \E k \in 1..Room : /\ k <= Len(stream) /\ buf' = buf \o Slice(stream, 1, k)
                           /\ stream' = Slice(stream, k + 1, Len(stream) - k)
      /\ expected' = Sized(buf')
      /\ build' = build /\ okIsZero' = okIsZero /\ ctx' = ctx /\ owner' = owner /\ call' = call
      /\ fd' = fd /\ errno' = errno /\ last' = last /\ wire' = wire /\ asked' = asked /\ torn' = torn
      /\ issued' = issued /\ at' = at /\ sound' = sound /\ answering' = answering /\ leaked' = leaked
  BY DEF RecvBytes, Receiving, session, local, peer, notes
<1> USE SimAssumption DEF NoFd
<1>0. TypeOK /\ Shape /\ Framing /\ Flow /\ ResponseIsOwn
  BY DEF IInv
<1>p. ASSUME build = "socket", sound, call # "connect", Working # NoFd, owner[Working] = "session"
      PROVE  \E n \in Payloads :
               /\ n \in Nat /\ Piece(buf, issued, 1, n) /\ Piece(stream, issued, 1 + Len(buf), n)
               /\ Len(buf) + Len(stream) <= LastPlace(n)
               /\ (asked # <<>> /\ wire = "open") =>
                    buf = <<>> /\ stream = <<>> /\ asked = <<[cmd |-> issued, of |-> call]>>
               /\ call \in {"none", "opened"} => stream = <<>> /\ ~(asked # <<>> /\ wire = "open")
               /\ call \in Framed =>
                    expected = IF Len(buf) < HeaderLen THEN HeaderLen ELSE LastPlace(n)
  BY <1>0, <1>p DEF Framing
<1>n. /\ Len(buf) \in Nat /\ Len(stream) \in Nat /\ buf \in Seq(Byte) /\ stream \in Seq(Byte)
      /\ HeaderLen \in Nat \ {0} /\ at \in Nat \ {0} /\ expected \in Nat /\ issued \in 0..MaxCalls
  BY <1>0, LenProperties DEF TypeOK
<1>k. PICK k \in 1..Room : /\ k <= Len(stream)
                       /\ buf' = buf \o Slice(stream, 1, k)
                       /\ stream' = Slice(stream, k + 1, Len(stream) - k)
  BY <1>A
<1>g. Room \in Int
  BY <1>n DEF Room
<1>q. /\ k \in Nat /\ k > 0 /\ k \in 0..Len(stream) /\ k + 1 \in Nat \ {0} /\ k <= Room
      /\ Len(stream) - k \in Nat
  BY <1>n, <1>k, <1>g
<1>s. /\ Slice(stream, 1, k) \in Seq(Byte) /\ Len(Slice(stream, 1, k)) = k
      /\ stream' \in Seq(Byte) /\ Len(stream') = Len(stream) - k
  BY <1>n, <1>k, <1>q, Front, Rest
<1>b. buf' \in Seq(Byte) /\ Len(buf') = Len(buf) + k
  BY <1>n, <1>k, <1>s, ConcatProperties
<1>m. call \in Framed => Len(buf') <= MaxBuf
  <2>1. CASE call = "atr"
    <3>1. Room <= MaxBuf - Len(buf)
      BY <1>A, <2>1 DEF Fits
    <3> QED
      BY <1>n, <1>g, <1>q, <1>b, <3>1
  <2>2. CASE call \in {"apdu", "raw"}
    <3>1. Room = MaxBuf - Len(buf)
      BY <2>2 DEF Room
    <3> QED
      BY <1>n, <1>g, <1>q, <1>b, <3>1
  <2>3. CASE call = "close"
    <3>1. Room <= MaxBuf - Len(buf)
      BY <1>A, <2>3 DEF Fits
    <3> QED
      BY <1>n, <1>g, <1>q, <1>b, <3>1
  <2>4. CASE call \in {"lock", "unlock"}
    <3>1. Room = expected - Len(buf) /\ expected = HeaderLen
      BY <1>0, <2>4 DEF Room, Shape
    <3> QED
      BY <1>n, <1>q, <1>b, <3>1
  <2> QED
    BY <2>1, <2>2, <2>3, <2>4 DEF Framed
<1>h. Len(buf') >= HeaderLen => buf'[HeaderLen].len \in Nat
  <2>1. ASSUME Len(buf') >= HeaderLen PROVE HeaderLen \in 1..Len(buf')
    BY <1>n, <1>b, <2>1
  <2> QED
    BY <1>b, <2>1, ByteAt
<1>e. expected' \in Nat /\ expected' >= expected
  <2>1. CASE Sized(buf') = expected
    BY <1>A, <1>n, <2>1
  <2>2. CASE Len(buf') >= HeaderLen /\ Sized(buf') = expected + buf'[HeaderLen].len
    <3>1. expected' = expected + buf'[HeaderLen].len
      BY <1>A, <2>2
    <3>2. buf'[HeaderLen].len \in Nat
      BY <1>h, <2>2
    <3>3. expected \in Nat
      BY <1>n
    <3> QED
      BY <3>1, <3>2, <3>3
  <2> QED
    BY <2>1, <2>2 DEF Sized
<1>1. TypeOK'
  <2>1. build' \in Builds /\ okIsZero' \in OkIsZero /\ ctx' \in Fds \cup {NoFd} /\ fd' \in Fds \cup {NoFd}
    BY <1>0, <1>A DEF TypeOK, Framed
  <2>2. owner' \in [Fds -> {"free", "session", "other"}]
    BY <1>0, <1>A DEF TypeOK, Framed
  <2>3. buf' \in Seq(Byte) /\ (call' \in Framed => Len(buf') <= MaxBuf)
    BY <1>A, <1>b, <1>m
  <2>4. last' \in [call : Results, ok : BOOLEAN, bytes : Seq(Byte)]
    BY <1>0, <1>A DEF TypeOK, Framed, Results
  <2>5. wire' \in {"open", "ended", "reset"} /\ stream' \in Seq(Byte)
    BY <1>0, <1>A, <1>s DEF TypeOK
  <2>6. /\ call' \in Framed \cup {"none", "connect", "exact", "opened"}
        /\ expected' \in Nat /\ errno' \in {"clear", "EINTR", "other"}
        /\ issued' \in 0..MaxCalls /\ at' \in {1, HeaderLen + 1}
    BY <1>0, <1>A, <1>e DEF TypeOK
  <2>7. asked' \in Seq(Command) /\ torn' \in BOOLEAN
    BY <1>0, <1>A DEF TypeOK, Framed
  <2>8. sound' \in BOOLEAN /\ answering' \in 0..MaxCalls /\ leaked' \in Nat
    BY <1>0, <1>A DEF TypeOK, Framed
  <2> QED
    BY <2>1, <2>2, <2>3, <2>4, <2>5, <2>6, <2>7, <2>8 DEF TypeOK
<1>2. Shape'
  <2>1. call = "exact" => Len(buf') <= expected /\ expected' = expected
    <3>1. ASSUME call = "exact" PROVE Room = expected - Len(buf) /\ expected' = expected
      BY <1>A, <3>1 DEF Room, Sized
    <3> QED
      BY <1>n, <1>g, <1>q, <1>b, <3>1
  <2>2. call \in {"lock", "unlock"} => expected' = expected
    BY <1>A DEF Sized
  <2>3. call \in Framed => expected' >= HeaderLen
    BY <1>0, <1>A, <1>n, <1>e DEF Shape
  <2>4. fd' = fd /\ ctx' = ctx /\ owner' = owner /\ owner[fd] = "session" /\ call' = call
    BY <1>A
  <2>5. at' # 1 => build' = "sim" /\ expected' > 0
    BY <1>0, <1>A, <1>n, <1>e DEF Shape
  <2> QED
    BY <1>0, <1>A, <2>1, <2>2, <2>3, <2>4, <2>5 DEF TypeOK, Shape, Framed
<1>3. Framing'
  <2>1. SUFFICES ASSUME build = "socket", sound, Working' # NoFd, owner'[Working'] = "session"
                 PROVE  Framing'
    BY <1>A DEF Framing
  <2>2. Working = fd /\ fd # NoFd /\ owner[fd] = "session" /\ call \in Framed /\ call # "connect"
    BY <1>0, <1>A, <2>1 DEF TypeOK, Shape, Working, Framed
  <2>3. PICK n \in Payloads :
          /\ n \in Nat /\ Piece(buf, issued, 1, n) /\ Piece(stream, issued, 1 + Len(buf), n)
          /\ Len(buf) + Len(stream) <= LastPlace(n)
          /\ (asked # <<>> /\ wire = "open") => stream = <<>>
          /\ expected = IF Len(buf) < HeaderLen THEN HeaderLen ELSE LastPlace(n)
    BY <1>p, <2>1, <2>2
  <2>4. Piece(Slice(stream, 1, k), issued, 1 + Len(buf), n) /\ Piece(stream', issued, (1 + Len(buf)) + k, n)
    <3>1. 1 + Len(buf) \in Nat
      BY <1>n
    <3> QED
      BY <1>n, <1>k, <1>q, <2>3, <3>1, PieceCut
  <2>5. Piece(buf', issued, 1, n)
    BY <1>n, <1>k, <1>s, <2>3, <2>4, PieceJoin
  <2>6. Piece(buf, issued, 1, n)' /\ Piece(stream, issued, 1 + Len(buf), n)'
    <3>1. 1 + Len(buf') = (1 + Len(buf)) + k
      BY <1>n, <1>b, <1>q
    <3> QED
      BY <1>A, <2>4, <2>5, <3>1 DEF Piece
  <2>7. Len(buf') + Len(stream') <= LastPlace(n)'
    <3>1. LastPlace(n)' = LastPlace(n) /\ LastPlace(n) \in Nat
      BY <1>A, <1>n, <2>3 DEF LastPlace
    <3> QED
      BY <1>n, <1>b, <1>s, <1>q, <2>3, <3>1
  <2>8. stream # <<>>
    BY <1>n, <1>q, NoBytes
  <2>9. expected' = IF Len(buf') < HeaderLen THEN HeaderLen ELSE LastPlace(n)'
    <3>1. CASE call \in {"lock", "unlock"}
      BY <1>0, <1>A, <1>n, <1>q, <1>b, <2>3, <3>1 DEF Shape, Framed, Room, Sized, LastPlace
    <3>2. CASE call \in {"atr", "apdu", "raw", "close"}
      <4>2. Len(buf') >= HeaderLen => buf'[HeaderLen].len = n
        BY <1>n, <1>b, <2>3, <2>5 DEF Piece
      <4>3. expected = IF Len(buf) < HeaderLen THEN HeaderLen ELSE HeaderLen + n
        BY <2>3, <3>2 DEF Framed, LastPlace
      <4>4. expected' = IF Len(buf') < HeaderLen THEN HeaderLen ELSE HeaderLen + n
        <5>1. CASE Len(buf) >= HeaderLen
          <6>1. expected' = expected
            BY <1>A, <1>n, <5>1 DEF Sized
          <6> QED
            BY <1>n, <1>b, <1>q, <4>3, <5>1, <6>1
        <5>2. CASE Len(buf) < HeaderLen /\ Len(buf') < HeaderLen
          <6>1. expected' = expected
            BY <1>A, <1>n, <1>b, <1>q, <5>2 DEF Sized
          <6> QED
            BY <4>3, <5>2, <6>1
        <5>3. CASE Len(buf) < HeaderLen /\ Len(buf') >= HeaderLen
          <6>1. expected' = expected + buf'[HeaderLen].len
            BY <1>A, <3>2, <5>3 DEF Sized
          <6> QED
            BY <1>n, <1>b, <1>q, <4>2, <4>3, <5>3, <6>1
        <5> QED
          BY <1>n, <1>b, <1>q, <5>1, <5>2, <5>3
      <4> QED
        BY <1>A, <3>2, <4>4 DEF LastPlace
    <3> QED
      BY <2>2, <3>1, <3>2 DEF Framed
  <2>10. call' \notin {"none", "opened"}
    BY <1>A, <2>2 DEF Framed
  <2> QED
    BY <1>A, <2>3, <2>6, <2>7, <2>8, <2>9, <2>10 DEF Framing
<1>4. Flow'
  <2>1. SUFFICES ASSUME build = "sim" PROVE Flow'
    BY <1>A DEF Flow
  <2>2. call = "exact" /\ expected' = expected
    BY <1>0, <1>A, <2>1 DEF Shape, Sized
  <2>3. Underway' = Underway
    BY <1>n, <1>k, <1>q, TakeKeeps DEF Underway
  <2> QED
    BY <1>0, <1>A, <2>2, <2>3 DEF Flow
<1>5. ResponseIsOwn'
  BY <1>0, <1>A DEF TypeOK, Shape, ResponseIsOwn, Framed
<1> QED
  BY <1>1, <1>2, <1>3, <1>4, <1>5 DEF IInv

\* RecvForeign preserves the invariant.
LEMMA RecvForeignKeeps == IInv /\ RecvForeign => IInv'
<1> SUFFICES ASSUME IInv, RecvForeign PROVE IInv'
  OBVIOUS
<1> USE SimAssumption DEF RecvForeign, Receiving, session, local, peer, notes, NoFd
<1>0. TypeOK /\ Shape /\ Framing /\ Flow /\ ResponseIsOwn
  BY DEF IInv
<1>a. build = "socket" /\ call \in Framed
  BY <1>0 DEF TypeOK, Shape, Framed
<1>1. TypeOK'
  <2>1. build' \in Builds /\ okIsZero' \in OkIsZero /\ ctx' \in Fds \cup {NoFd} /\ fd' \in Fds \cup {NoFd}
    BY <1>0 DEF TypeOK, Framed
  <2>2. owner' \in [Fds -> {"free", "session", "other"}]
    BY <1>0 DEF TypeOK, Framed
  <2>3. buf' \in Seq(Byte) /\ (call' \in Framed => Len(buf') <= MaxBuf)
    BY SimAssumption, AnswerBytes
  <2>4. last' \in [call : Results, ok : BOOLEAN, bytes : Seq(Byte)]
    BY <1>0, NoBytes DEF TypeOK, Framed, Results
  <2>5. wire' \in {"open", "ended", "reset"} /\ stream' \in Seq(Byte)
    BY <1>0, NoBytes DEF TypeOK
  <2>6. /\ call' \in Framed \cup {"none", "connect", "exact", "opened"}
        /\ expected' \in Nat /\ errno' \in {"clear", "EINTR", "other"}
        /\ issued' \in 0..MaxCalls /\ at' \in {1, HeaderLen + 1}
    BY <1>0 DEF TypeOK, Framed
  <2>7. asked' \in Seq(Command) /\ torn' \in BOOLEAN
    BY <1>0 DEF TypeOK, Framed
  <2>8. sound' \in BOOLEAN /\ answering' \in 0..MaxCalls /\ leaked' \in Nat
    BY <1>0 DEF TypeOK, Framed
  <2> QED
    BY <2>1, <2>2, <2>3, <2>4, <2>5, <2>6, <2>7, <2>8 DEF TypeOK
<1>2. Shape'
  BY <1>0, <1>a DEF TypeOK, Shape, Framed
<1>3. Framing'
  BY <1>0 DEF Framing
<1>4. Flow'
  BY <1>0 DEF Flow
<1>5. ResponseIsOwn'
  BY <1>0 DEF TypeOK, Shape, ResponseIsOwn
<1> QED
  BY <1>1, <1>2, <1>3, <1>4, <1>5 DEF IInv

\* RecvFails preserves the invariant.
LEMMA RecvFailsKeeps == IInv /\ RecvFails => IInv'
<1> SUFFICES ASSUME IInv, RecvFails PROVE IInv'
  OBVIOUS
<1> USE SimAssumption DEF RecvFails, Receiving, Return, GiveUp, CloseFd, session, local, peer, notes, NoFd
<1>0. TypeOK /\ Shape /\ Framing /\ Flow /\ ResponseIsOwn
  BY DEF IInv
<1>1. TypeOK'
  <2>1. build' \in Builds /\ okIsZero' \in OkIsZero /\ ctx' \in Fds \cup {NoFd} /\ fd' \in Fds \cup {NoFd}
    BY <1>0 DEF TypeOK, Framed
  <2>2. owner' \in [Fds -> {"free", "session", "other"}]
    BY <1>0 DEF TypeOK, Framed
  <2>3. buf' \in Seq(Byte) /\ (call' \in Framed => Len(buf') <= MaxBuf)
    BY <1>0, NoBytes DEF TypeOK, Framed
  <2>4. last' \in [call : Results, ok : BOOLEAN, bytes : Seq(Byte)]
    <3>1. call \in Results /\ last' = [call |-> call, ok |-> FALSE, bytes |-> <<>>]
      BY DEF Framed, Results
    <3> QED
      BY <3>1, NoBytes, Returned
  <2>5. wire' \in {"open", "ended", "reset"} /\ stream' \in Seq(Byte)
    BY <1>0, NoBytes DEF TypeOK
  <2>6. /\ call' \in Framed \cup {"none", "connect", "exact", "opened"}
        /\ expected' \in Nat /\ errno' \in {"clear", "EINTR", "other"}
        /\ issued' \in 0..MaxCalls /\ at' \in {1, HeaderLen + 1}
    BY <1>0 DEF TypeOK, Framed
  <2>7. asked' \in Seq(Command) /\ torn' \in BOOLEAN
    BY <1>0 DEF TypeOK, Framed
  <2>8. sound' \in BOOLEAN /\ answering' \in 0..MaxCalls /\ leaked' \in Nat
    BY <1>0 DEF TypeOK, Framed
  <2> QED
    BY <2>1, <2>2, <2>3, <2>4, <2>5, <2>6, <2>7, <2>8 DEF TypeOK
<1>2. Shape'
  BY <1>0 DEF TypeOK, Shape, Framed
<1>3. Framing'
  <2>1. CASE call # "exact"
    BY <1>0, <2>1 DEF TypeOK, Shape, Framing, Framed, Working
  <2>2. CASE call = "exact"
    BY <1>0, <2>2 DEF Shape, Framing
  <2> QED
    BY <2>1, <2>2
<1>4. Flow'
  <2>1. CASE call # "exact"
    BY <1>0, <2>1 DEF Shape, Flow, Framed
  <2>2. CASE call = "exact"
    <3>1. sound' => sound /\ Underway' = Underway
      BY <1>0, <2>2 DEF Underway
    <3> QED
      BY <1>0, <2>2, <3>1 DEF Shape, Flow
  <2> QED
    BY <2>1, <2>2
<1>5. ResponseIsOwn'
  <2>1. ~(last'.ok)
    BY <1>0 DEF Framed
  <2> QED
    BY <2>1 DEF ResponseIsOwn
<1> QED
  BY <1>1, <1>2, <1>3, <1>4, <1>5 DEF IInv

\* TooLong preserves the invariant.
LEMMA TooLongKeeps == IInv /\ TooLong => IInv'
<1> SUFFICES ASSUME IInv, TooLong PROVE IInv'
  OBVIOUS
<1> USE SimAssumption DEF TooLong, Receiving, GiveUp, CloseFd, session, local, peer, notes, NoFd
<1>0. TypeOK /\ Shape /\ Framing /\ Flow /\ ResponseIsOwn
  BY DEF IInv
<1>1. TypeOK'
  <2>1. build' \in Builds /\ okIsZero' \in OkIsZero /\ ctx' \in Fds \cup {NoFd} /\ fd' \in Fds \cup {NoFd}
    BY <1>0 DEF TypeOK, Framed
  <2>2. owner' \in [Fds -> {"free", "session", "other"}]
    BY <1>0 DEF TypeOK, Framed
  <2>3. buf' \in Seq(Byte) /\ (call' \in Framed => Len(buf') <= MaxBuf)
    BY <1>0, NoBytes DEF TypeOK, Framed
  <2>4. last' \in [call : Results, ok : BOOLEAN, bytes : Seq(Byte)]
    <3>1. call \in Results /\ \E ok \in BOOLEAN : last' = [call |-> call, ok |-> ok, bytes |-> <<>>]
      BY DEF Framed, Results
    <3> QED
      BY <3>1, NoBytes, Returned
  <2>5. wire' \in {"open", "ended", "reset"} /\ stream' \in Seq(Byte)
    BY <1>0, NoBytes DEF TypeOK
  <2>6. /\ call' \in Framed \cup {"none", "connect", "exact", "opened"}
        /\ expected' \in Nat /\ errno' \in {"clear", "EINTR", "other"}
        /\ issued' \in 0..MaxCalls /\ at' \in {1, HeaderLen + 1}
    BY <1>0 DEF TypeOK, Framed
  <2>7. asked' \in Seq(Command) /\ torn' \in BOOLEAN
    BY <1>0 DEF TypeOK, Framed
  <2>8. sound' \in BOOLEAN /\ answering' \in 0..MaxCalls /\ leaked' \in Nat
    BY <1>0 DEF TypeOK, Framed
  <2> QED
    BY <2>1, <2>2, <2>3, <2>4, <2>5, <2>6, <2>7, <2>8 DEF TypeOK
<1>2. Shape'
  BY <1>0 DEF TypeOK, Shape, Framed
<1>3. Framing'
  BY <1>0 DEF TypeOK, Shape, Framing, Framed, Working, Piece, LastPlace
<1>4. Flow'
  BY <1>0 DEF Shape, Flow, Framed
<1>5. ResponseIsOwn'
  BY <1>0 DEF TypeOK, Shape, ResponseIsOwn
<1> QED
  BY <1>1, <1>2, <1>3, <1>4, <1>5 DEF IInv

\* TransceiveDone preserves the invariant.
LEMMA TransceiveDoneKeeps == IInv /\ TransceiveDone => IInv'
<1> SUFFICES ASSUME IInv, TransceiveDone PROVE IInv'
  OBVIOUS
<1>A. /\ call \in {"apdu", "raw"} /\ Len(buf) >= expected /\ call' = "none" /\ buf' = <<>>
      /\ \/ last' = [call |-> call, ok |-> TRUE, bytes |-> Payload]
         \/ last' = [call |-> call, ok |-> FALSE, bytes |-> <<>>]
      /\ build' = build /\ okIsZero' = okIsZero /\ ctx' = ctx /\ owner' = owner
      /\ fd' = fd /\ expected' = expected /\ errno' = errno /\ wire' = wire /\ stream' = stream
      /\ asked' = asked /\ torn' = torn /\ issued' = issued /\ at' = at
      /\ sound' = sound /\ answering' = answering /\ leaked' = leaked
  BY DEF TransceiveDone, Received, Return, session, local, peer, notes
<1> USE SimAssumption DEF NoFd
<1>0. TypeOK /\ Shape /\ Framing /\ Flow /\ ResponseIsOwn
  BY DEF IInv
<1>n. /\ Len(buf) \in Nat /\ Len(stream) \in Nat /\ buf \in Seq(Byte) /\ stream \in Seq(Byte)
      /\ HeaderLen \in Nat \ {0} /\ at \in Nat \ {0} /\ expected \in Nat /\ issued \in 0..MaxCalls
  BY <1>0, LenProperties DEF TypeOK
<1>a. call \in Framed /\ fd \in Fds /\ build = "socket"
  BY <1>0, <1>A DEF Shape, Framed
<1>l. HeaderLen \in 0..Len(buf)
  BY <1>0, <1>A, <1>a, <1>n DEF Shape
<1>s. /\ Payload \in Seq(Byte) /\ Len(Payload) = Len(buf) - HeaderLen
      /\ \A k \in 1..(Len(buf) - HeaderLen) : Payload[k] = buf[HeaderLen + k]
  BY <1>n, <1>l, Rest DEF Payload
<1>1. TypeOK'
  <2>1. build' \in Builds /\ okIsZero' \in OkIsZero /\ ctx' \in Fds \cup {NoFd} /\ fd' \in Fds \cup {NoFd}
    BY <1>0, <1>A DEF TypeOK, Framed
  <2>2. owner' \in [Fds -> {"free", "session", "other"}]
    BY <1>0, <1>A DEF TypeOK, Framed
  <2>3. buf' \in Seq(Byte) /\ (call' \in Framed => Len(buf') <= MaxBuf)
    BY <1>A, NoBytes DEF Framed
  <2>4. last' \in [call : Results, ok : BOOLEAN, bytes : Seq(Byte)]
    <3>1. CASE last' = [call |-> call, ok |-> TRUE, bytes |-> Payload]
      BY <1>A, <1>s, <3>1, Returned DEF Framed, Results
    <3>2. CASE last' = [call |-> call, ok |-> FALSE, bytes |-> <<>>]
      BY <1>A, <3>2, NoBytes, Returned DEF Framed, Results
    <3> QED
      BY <1>A, <3>1, <3>2
  <2>5. wire' \in {"open", "ended", "reset"} /\ stream' \in Seq(Byte)
    BY <1>0, <1>A DEF TypeOK, Framed
  <2>6. /\ call' \in Framed \cup {"none", "connect", "exact", "opened"}
        /\ expected' \in Nat /\ errno' \in {"clear", "EINTR", "other"}
        /\ issued' \in 0..MaxCalls /\ at' \in {1, HeaderLen + 1}
    BY <1>0, <1>A DEF TypeOK, Framed
  <2>7. asked' \in Seq(Command) /\ torn' \in BOOLEAN
    BY <1>0, <1>A DEF TypeOK, Framed
  <2>8. sound' \in BOOLEAN /\ answering' \in 0..MaxCalls /\ leaked' \in Nat
    BY <1>0, <1>A DEF TypeOK, Framed
  <2> QED
    BY <2>1, <2>2, <2>3, <2>4, <2>5, <2>6, <2>7, <2>8 DEF TypeOK
<1>2. Shape'
  BY <1>0, <1>A DEF TypeOK, Shape, Framed
<1>3. Framing'
  <2>1. SUFFICES ASSUME sound', Working' # NoFd, owner'[Working'] = "session"
                 PROVE  Framing'
    BY DEF Framing
  <2>2. sound /\ owner[fd] = "session" /\ call \in Framed /\ Len(buf) >= expected
    BY <1>0, <1>A, <2>1 DEF TypeOK, Shape, Working, Framed
  <2>3. PICK n \in Payloads : n \in Nat /\ stream = <<>> /\ ~(asked # <<>> /\ wire = "open")
    BY <2>2, AnswerTaken
  <2>4. Piece(buf, issued, 1, n)' /\ Piece(stream, issued, 1 + Len(buf), n)'
    BY <1>A, <2>3, NoBytes DEF Piece
  <2>5. Len(buf') + Len(stream') <= LastPlace(n)'
    BY <1>A, <2>3, NoBytes DEF LastPlace
  <2> QED
    BY <1>0, <1>A, <2>3, <2>4, <2>5 DEF Framing, Framed
<1>4. Flow'
  BY <1>A, <1>a DEF Flow
<1>5. ResponseIsOwn'
  <2>a. SUFFICES ASSUME sound, last'.ok PROVE ResponseIsOwn'
    BY <1>A DEF ResponseIsOwn
  <2>b. last'.bytes = Payload /\ last'.call = call
    BY <1>A, <2>a
  <2>1. owner[fd] = "session"
    <3>1. Len(buf) # 0
      BY <1>n, <1>l
    <3> QED
      BY <1>0, <1>a, <2>a, <3>1, NoBytes DEF Shape
  <2>3. PICK n \in Payloads : n \in Nat /\ Piece(buf, issued, 1, n) /\ Len(buf) = LastPlace(n)
    BY <1>A, <1>a, <2>a, <2>1, AnswerTaken
  <2>6. Len(buf) = HeaderLen + n
    BY <1>A, <2>3 DEF LastPlace
  <2>7. Payload \in Seq(Byte) /\ Len(Payload) = n
    BY <1>n, <1>s, <2>3, <2>6
  <2>8. Piece(Payload, issued, HeaderLen + 1, n)
    <3>1. ASSUME NEW i \in 1..n
          PROVE  Payload[i] = [cmd |-> issued, place |-> (HeaderLen + 1) + i - 1, len |-> n]
      <4>1. HeaderLen + i \in 1..Len(buf) /\ i \in 1..(Len(buf) - HeaderLen)
        BY <1>n, <2>3, <2>6
      <4>2. buf[HeaderLen + i] = [cmd |-> issued, place |-> 1 + (HeaderLen + i) - 1, len |-> n]
        BY <2>3, <4>1 DEF Piece
      <4>3. Payload[i] = buf[HeaderLen + i]
        BY <1>s, <4>1
      <4>4. 1 + (HeaderLen + i) - 1 = (HeaderLen + 1) + i - 1
        BY <1>n, <2>3
      <4> QED
        BY <4>2, <4>3, <4>4
    <3> QED
      BY <2>7, <3>1 DEF Piece
  <2>9. Payload = Slice(Answer(issued, n), HeaderLen + 1, n)
    <3>1. HeaderLen + 1 \in Nat \ {0} /\ HeaderLen + 1 + Len(Payload) - 1 <= HeaderLen + n
      BY <1>n, <2>3, <2>7
    <3> QED
      BY <1>n, <2>3, <2>7, <2>8, <3>1, PieceIsSlice
  <2> QED
    BY <1>A, <2>b, <2>9 DEF ResponseIsOwn
<1> QED
  BY <1>1, <1>2, <1>3, <1>4, <1>5 DEF IInv

\* LockDone preserves the invariant.
LEMMA LockDoneKeeps == IInv /\ LockDone => IInv'
<1> SUFFICES ASSUME IInv, LockDone PROVE IInv'
  OBVIOUS
<1> USE SimAssumption DEF LockDone, Received, Return, session, local, peer, notes, NoFd
<1>0. TypeOK /\ Shape /\ Framing /\ Flow /\ ResponseIsOwn
  BY DEF IInv
<1>1. TypeOK'
  <2>1. build' \in Builds /\ okIsZero' \in OkIsZero /\ ctx' \in Fds \cup {NoFd} /\ fd' \in Fds \cup {NoFd}
    BY <1>0 DEF TypeOK, Framed
  <2>2. owner' \in [Fds -> {"free", "session", "other"}]
    BY <1>0 DEF TypeOK, Framed
  <2>3. buf' \in Seq(Byte) /\ (call' \in Framed => Len(buf') <= MaxBuf)
    BY <1>0, NoBytes DEF TypeOK, Framed
  <2>4. last' \in [call : Results, ok : BOOLEAN, bytes : Seq(Byte)]
    BY <1>0, NoBytes DEF TypeOK, Framed, Results
  <2>5. wire' \in {"open", "ended", "reset"} /\ stream' \in Seq(Byte)
    BY <1>0, NoBytes DEF TypeOK
  <2>6. /\ call' \in Framed \cup {"none", "connect", "exact", "opened"}
        /\ expected' \in Nat /\ errno' \in {"clear", "EINTR", "other"}
        /\ issued' \in 0..MaxCalls /\ at' \in {1, HeaderLen + 1}
    BY <1>0 DEF TypeOK, Framed
  <2>7. asked' \in Seq(Command) /\ torn' \in BOOLEAN
    BY <1>0 DEF TypeOK, Framed
  <2>8. sound' \in BOOLEAN /\ answering' \in 0..MaxCalls /\ leaked' \in Nat
    BY <1>0 DEF TypeOK, Framed
  <2> QED
    BY <2>1, <2>2, <2>3, <2>4, <2>5, <2>6, <2>7, <2>8 DEF TypeOK
<1>2. Shape'
  BY <1>0 DEF TypeOK, Shape, Framed
<1>3. Framing'
  <2>1. SUFFICES ASSUME sound', Working' # NoFd, owner'[Working'] = "session"
                 PROVE  Framing'
    BY DEF Framing
  <2>2. sound /\ owner[fd] = "session" /\ call \in Framed /\ Len(buf) >= expected
    BY <1>0, <2>1 DEF TypeOK, Shape, Working, Framed
  <2>3. PICK n \in Payloads : n \in Nat /\ stream = <<>> /\ ~(asked # <<>> /\ wire = "open")
    BY <2>2, AnswerTaken
  <2>4. Piece(buf, issued, 1, n)' /\ Piece(stream, issued, 1 + Len(buf), n)'
    BY <2>3, NoBytes DEF Piece
  <2>5. Len(buf') + Len(stream') <= LastPlace(n)'
    BY <2>3, NoBytes DEF LastPlace
  <2> QED
    BY <1>0, <2>3, <2>4, <2>5 DEF Framing, Framed
<1>4. Flow'
  BY <1>0 DEF Shape, Flow, Framed
<1>5. ResponseIsOwn'
  BY <1>0 DEF TypeOK, Shape, ResponseIsOwn
<1> QED
  BY <1>1, <1>2, <1>3, <1>4, <1>5 DEF IInv

\* CloseDone preserves the invariant.
LEMMA CloseDoneKeeps == IInv /\ CloseDone => IInv'
<1> SUFFICES ASSUME IInv, CloseDone PROVE IInv'
  OBVIOUS
<1> USE SimAssumption DEF CloseDone, Received, Return, CloseFd, session, local, peer, notes, NoFd
<1>0. TypeOK /\ Shape /\ Framing /\ Flow /\ ResponseIsOwn
  BY DEF IInv
<1>1. TypeOK'
  <2>1. build' \in Builds /\ okIsZero' \in OkIsZero /\ ctx' \in Fds \cup {NoFd} /\ fd' \in Fds \cup {NoFd}
    BY <1>0 DEF TypeOK, Framed
  <2>2. owner' \in [Fds -> {"free", "session", "other"}]
    BY <1>0 DEF TypeOK, Framed
  <2>3. buf' \in Seq(Byte) /\ (call' \in Framed => Len(buf') <= MaxBuf)
    BY <1>0, NoBytes DEF TypeOK, Framed
  <2>4. last' \in [call : Results, ok : BOOLEAN, bytes : Seq(Byte)]
    BY <1>0, NoBytes DEF TypeOK, Framed, Results
  <2>5. wire' \in {"open", "ended", "reset"} /\ stream' \in Seq(Byte)
    BY <1>0, NoBytes DEF TypeOK
  <2>6. /\ call' \in Framed \cup {"none", "connect", "exact", "opened"}
        /\ expected' \in Nat /\ errno' \in {"clear", "EINTR", "other"}
        /\ issued' \in 0..MaxCalls /\ at' \in {1, HeaderLen + 1}
    BY <1>0 DEF TypeOK, Framed
  <2>7. asked' \in Seq(Command) /\ torn' \in BOOLEAN
    BY <1>0 DEF TypeOK, Framed
  <2>8. sound' \in BOOLEAN /\ answering' \in 0..MaxCalls /\ leaked' \in Nat
    BY <1>0 DEF TypeOK, Framed
  <2> QED
    BY <2>1, <2>2, <2>3, <2>4, <2>5, <2>6, <2>7, <2>8 DEF TypeOK
<1>2. Shape'
  BY <1>0 DEF TypeOK, Shape, Framed
<1>3. Framing'
  BY <1>0 DEF Shape, Framing, Working, Framed
<1>4. Flow'
  BY <1>0 DEF Shape, Flow, Framed
<1>5. ResponseIsOwn'
  BY <1>0 DEF TypeOK, Shape, ResponseIsOwn
<1> QED
  BY <1>1, <1>2, <1>3, <1>4, <1>5 DEF IInv

\* AtrDone preserves the invariant.
LEMMA AtrDoneKeeps == IInv /\ AtrDone => IInv'
<1> SUFFICES ASSUME IInv, AtrDone PROVE IInv'
  OBVIOUS
<1> USE SimAssumption DEF AtrDone, Received, session, local, peer, notes, NoFd
<1>0. TypeOK /\ Shape /\ Framing /\ Flow /\ ResponseIsOwn
  BY DEF IInv
<1>n. /\ Len(buf) \in Nat /\ Len(stream) \in Nat /\ buf \in Seq(Byte) /\ stream \in Seq(Byte)
      /\ HeaderLen \in Nat \ {0} /\ at \in Nat \ {0} /\ expected \in Nat /\ issued \in 0..MaxCalls
  BY <1>0, LenProperties DEF TypeOK
<1>l. HeaderLen \in 0..Len(buf)
  BY <1>0, <1>n DEF Shape, Framed
<1>s. Payload \in Seq(Byte)
  BY <1>n, <1>l, Rest DEF Payload
<1>1. TypeOK'
  <2>1. build' \in Builds /\ okIsZero' \in OkIsZero /\ ctx' \in Fds \cup {NoFd} /\ fd' \in Fds \cup {NoFd}
    BY <1>0 DEF TypeOK, Framed
  <2>2. owner' \in [Fds -> {"free", "session", "other"}]
    BY <1>0 DEF TypeOK, Framed
  <2>3. buf' \in Seq(Byte) /\ (call' \in Framed => Len(buf') <= MaxBuf)
    BY <1>0, NoBytes DEF TypeOK, Framed
  <2>4. last' \in [call : Results, ok : BOOLEAN, bytes : Seq(Byte)]
    <3>1. \E b \in Seq(Byte) : last' = [call |-> "atr", ok |-> TRUE, bytes |-> b]
      BY <1>s, NoBytes
    <3> QED
      BY <3>1, Returned DEF Framed, Results
  <2>5. wire' \in {"open", "ended", "reset"} /\ stream' \in Seq(Byte)
    BY <1>0, NoBytes DEF TypeOK
  <2>6. /\ call' \in Framed \cup {"none", "connect", "exact", "opened"}
        /\ expected' \in Nat /\ errno' \in {"clear", "EINTR", "other"}
        /\ issued' \in 0..MaxCalls /\ at' \in {1, HeaderLen + 1}
    BY <1>0 DEF TypeOK, Framed
  <2>7. asked' \in Seq(Command) /\ torn' \in BOOLEAN
    BY <1>0 DEF TypeOK, Framed
  <2>8. sound' \in BOOLEAN /\ answering' \in 0..MaxCalls /\ leaked' \in Nat
    BY <1>0 DEF TypeOK, Framed
  <2> QED
    BY <2>1, <2>2, <2>3, <2>4, <2>5, <2>6, <2>7, <2>8 DEF TypeOK
<1>2. Shape'
  BY <1>0 DEF TypeOK, Shape, Framed
<1>3. Framing'
  <2>1. SUFFICES ASSUME sound', Working' # NoFd, owner'[Working'] = "session"
                 PROVE  Framing'
    BY DEF Framing
  <2>2. sound /\ owner[fd] = "session" /\ call \in Framed /\ Len(buf) >= expected
    BY <1>0, <2>1 DEF TypeOK, Shape, Working, Framed
  <2>3. PICK n \in Payloads : n \in Nat /\ stream = <<>> /\ ~(asked # <<>> /\ wire = "open")
    BY <2>2, AnswerTaken
  <2>4. Piece(buf, issued, 1, n)' /\ Piece(stream, issued, 1 + Len(buf), n)'
    BY <2>3, NoBytes DEF Piece
  <2>5. Len(buf') + Len(stream') <= LastPlace(n)'
    BY <2>3, NoBytes DEF LastPlace
  <2> QED
    BY <1>0, <2>3, <2>4, <2>5 DEF Framing, Framed
<1>4. Flow'
  BY <1>0 DEF Shape, Flow, Framed
<1>5. ResponseIsOwn'
  BY <1>0 DEF TypeOK, Shape, ResponseIsOwn
<1> QED
  BY <1>1, <1>2, <1>3, <1>4, <1>5 DEF IInv

\* OpenDone preserves the invariant.
LEMMA OpenDoneKeeps == IInv /\ OpenDone => IInv'
<1> SUFFICES ASSUME IInv, OpenDone PROVE IInv'
  OBVIOUS
<1> USE SimAssumption DEF OpenDone, CloseFd, session, local, peer, notes, NoFd
<1>0. TypeOK /\ Shape /\ Framing /\ Flow /\ ResponseIsOwn
  BY DEF IInv
<1>1. TypeOK'
  <2>1. build' \in Builds /\ okIsZero' \in OkIsZero /\ ctx' \in Fds \cup {NoFd} /\ fd' \in Fds \cup {NoFd}
    BY <1>0 DEF TypeOK, Framed
  <2>2. owner' \in [Fds -> {"free", "session", "other"}]
    BY <1>0 DEF TypeOK, Framed
  <2>3. buf' \in Seq(Byte) /\ (call' \in Framed => Len(buf') <= MaxBuf)
    BY <1>0, NoBytes DEF TypeOK, Framed
  <2>4. last' \in [call : Results, ok : BOOLEAN, bytes : Seq(Byte)]
    BY <1>0, NoBytes DEF TypeOK, Framed, Results
  <2>5. wire' \in {"open", "ended", "reset"} /\ stream' \in Seq(Byte)
    BY <1>0, NoBytes DEF TypeOK
  <2>6. /\ call' \in Framed \cup {"none", "connect", "exact", "opened"}
        /\ expected' \in Nat /\ errno' \in {"clear", "EINTR", "other"}
        /\ issued' \in 0..MaxCalls /\ at' \in {1, HeaderLen + 1}
    BY <1>0 DEF TypeOK, Framed
  <2>7. asked' \in Seq(Command) /\ torn' \in BOOLEAN
    BY <1>0 DEF TypeOK, Framed
  <2>8. sound' \in BOOLEAN /\ answering' \in 0..MaxCalls /\ leaked' \in Nat
    BY <1>0 DEF TypeOK, Framed
  <2> QED
    BY <2>1, <2>2, <2>3, <2>4, <2>5, <2>6, <2>7, <2>8 DEF TypeOK
<1>2. Shape'
  BY <1>0 DEF TypeOK, Shape, Framed
<1>3. Framing'
  BY <1>0 DEF TypeOK, Shape, Framing, Framed, Working, Piece, LastPlace
<1>4. Flow'
  BY <1>0 DEF Shape, Flow, Framed
<1>5. ResponseIsOwn'
  BY <1>0 DEF TypeOK, Shape, ResponseIsOwn
<1> QED
  BY <1>1, <1>2, <1>3, <1>4, <1>5 DEF IInv

\* RecvAgain preserves the invariant.
LEMMA RecvAgainKeeps == IInv /\ RecvAgain => IInv'
<1> SUFFICES ASSUME IInv, RecvAgain PROVE IInv'
  OBVIOUS
<1> USE SimAssumption DEF RecvAgain, session, local, peer, notes, NoFd
<1>0. TypeOK /\ Shape /\ Framing /\ Flow /\ ResponseIsOwn
  BY DEF IInv
<1>1. TypeOK'
  <2>1. build' \in Builds /\ okIsZero' \in OkIsZero /\ ctx' \in Fds \cup {NoFd} /\ fd' \in Fds \cup {NoFd}
    BY <1>0 DEF TypeOK, Framed
  <2>2. owner' \in [Fds -> {"free", "session", "other"}]
    BY <1>0 DEF TypeOK, Framed
  <2>3. buf' \in Seq(Byte) /\ (call' \in Framed => Len(buf') <= MaxBuf)
    BY <1>0, NoBytes DEF TypeOK, Framed
  <2>4. last' \in [call : Results, ok : BOOLEAN, bytes : Seq(Byte)]
    BY <1>0, NoBytes DEF TypeOK, Framed, Results
  <2>5. wire' \in {"open", "ended", "reset"} /\ stream' \in Seq(Byte)
    BY <1>0, NoBytes DEF TypeOK
  <2>6. /\ call' \in Framed \cup {"none", "connect", "exact", "opened"}
        /\ expected' \in Nat /\ errno' \in {"clear", "EINTR", "other"}
        /\ issued' \in 0..MaxCalls /\ at' \in {1, HeaderLen + 1}
    BY <1>0 DEF TypeOK, Framed
  <2>7. asked' \in Seq(Command) /\ torn' \in BOOLEAN
    BY <1>0 DEF TypeOK, Framed
  <2>8. sound' \in BOOLEAN /\ answering' \in 0..MaxCalls /\ leaked' \in Nat
    BY <1>0 DEF TypeOK, Framed
  <2> QED
    BY <2>1, <2>2, <2>3, <2>4, <2>5, <2>6, <2>7, <2>8 DEF TypeOK
<1>2. Shape'
  BY <1>0 DEF TypeOK, Shape, Framed
<1>3. Framing'
  BY <1>0 DEF TypeOK, Shape, Framing, Framed, Working, Piece, LastPlace
<1>4. Flow'
  BY <1>0 DEF Flow, Underway
<1>5. ResponseIsOwn'
  BY <1>0 DEF TypeOK, Shape, ResponseIsOwn
<1> QED
  BY <1>1, <1>2, <1>3, <1>4, <1>5 DEF IInv

\* OtherOpens preserves the invariant.
LEMMA OtherOpensKeeps == IInv /\ OtherOpens => IInv'
<1> SUFFICES ASSUME IInv, OtherOpens PROVE IInv'
  OBVIOUS
<1> USE SimAssumption DEF OtherOpens, Lowest, session, local, peer, notes, NoFd
<1>0. TypeOK /\ Shape /\ Framing /\ Flow /\ ResponseIsOwn
  BY DEF IInv
<1>1. TypeOK'
  <2>1. build' \in Builds /\ okIsZero' \in OkIsZero /\ ctx' \in Fds \cup {NoFd} /\ fd' \in Fds \cup {NoFd}
    BY <1>0 DEF TypeOK, Framed
  <2>2. owner' \in [Fds -> {"free", "session", "other"}]
    BY <1>0 DEF TypeOK, Framed
  <2>3. buf' \in Seq(Byte) /\ (call' \in Framed => Len(buf') <= MaxBuf)
    BY <1>0, NoBytes DEF TypeOK, Framed
  <2>4. last' \in [call : Results, ok : BOOLEAN, bytes : Seq(Byte)]
    BY <1>0, NoBytes DEF TypeOK, Framed, Results
  <2>5. wire' \in {"open", "ended", "reset"} /\ stream' \in Seq(Byte)
    BY <1>0, NoBytes DEF TypeOK
  <2>6. /\ call' \in Framed \cup {"none", "connect", "exact", "opened"}
        /\ expected' \in Nat /\ errno' \in {"clear", "EINTR", "other"}
        /\ issued' \in 0..MaxCalls /\ at' \in {1, HeaderLen + 1}
    BY <1>0 DEF TypeOK, Framed
  <2>7. asked' \in Seq(Command) /\ torn' \in BOOLEAN
    BY <1>0 DEF TypeOK, Framed
  <2>8. sound' \in BOOLEAN /\ answering' \in 0..MaxCalls /\ leaked' \in Nat
    BY <1>0 DEF TypeOK, Framed
  <2> QED
    BY <2>1, <2>2, <2>3, <2>4, <2>5, <2>6, <2>7, <2>8 DEF TypeOK
<1>2. Shape'
  BY <1>0 DEF TypeOK, Shape, Framed
<1>3. Framing'
  <2>1. Working' = Working /\ (Working \in Fds /\ owner'[Working] = "session" => owner[Working] = "session")
    BY <1>0 DEF TypeOK, Working
  <2>2. Working # NoFd => Working \in Fds
    BY <1>0 DEF TypeOK, Working
  <2> QED
    BY <1>0, <2>1, <2>2 DEF Framing, Piece, LastPlace
<1>4. Flow'
  BY <1>0 DEF Flow, Underway
<1>5. ResponseIsOwn'
  BY <1>0 DEF TypeOK, Shape, ResponseIsOwn
<1> QED
  BY <1>1, <1>2, <1>3, <1>4, <1>5 DEF IInv

\* OtherCloses preserves the invariant.
LEMMA OtherClosesKeeps == IInv /\ OtherCloses => IInv'
<1> SUFFICES ASSUME IInv, OtherCloses PROVE IInv'
  OBVIOUS
<1> USE SimAssumption DEF OtherCloses, session, local, peer, notes, NoFd
<1>0. TypeOK /\ Shape /\ Framing /\ Flow /\ ResponseIsOwn
  BY DEF IInv
<1>1. TypeOK'
  <2>1. build' \in Builds /\ okIsZero' \in OkIsZero /\ ctx' \in Fds \cup {NoFd} /\ fd' \in Fds \cup {NoFd}
    BY <1>0 DEF TypeOK, Framed
  <2>2. owner' \in [Fds -> {"free", "session", "other"}]
    BY <1>0 DEF TypeOK, Framed
  <2>3. buf' \in Seq(Byte) /\ (call' \in Framed => Len(buf') <= MaxBuf)
    BY <1>0, NoBytes DEF TypeOK, Framed
  <2>4. last' \in [call : Results, ok : BOOLEAN, bytes : Seq(Byte)]
    BY <1>0, NoBytes DEF TypeOK, Framed, Results
  <2>5. wire' \in {"open", "ended", "reset"} /\ stream' \in Seq(Byte)
    BY <1>0, NoBytes DEF TypeOK
  <2>6. /\ call' \in Framed \cup {"none", "connect", "exact", "opened"}
        /\ expected' \in Nat /\ errno' \in {"clear", "EINTR", "other"}
        /\ issued' \in 0..MaxCalls /\ at' \in {1, HeaderLen + 1}
    BY <1>0 DEF TypeOK, Framed
  <2>7. asked' \in Seq(Command) /\ torn' \in BOOLEAN
    BY <1>0 DEF TypeOK, Framed
  <2>8. sound' \in BOOLEAN /\ answering' \in 0..MaxCalls /\ leaked' \in Nat
    BY <1>0 DEF TypeOK, Framed
  <2> QED
    BY <2>1, <2>2, <2>3, <2>4, <2>5, <2>6, <2>7, <2>8 DEF TypeOK
<1>2. Shape'
  BY <1>0 DEF TypeOK, Shape, Framed
<1>3. Framing'
  <2>1. Working' = Working /\ (Working \in Fds /\ owner'[Working] = "session" => owner[Working] = "session")
    BY <1>0 DEF TypeOK, Working
  <2>2. Working # NoFd => Working \in Fds
    BY <1>0 DEF TypeOK, Working
  <2> QED
    BY <1>0, <2>1, <2>2 DEF Framing, Piece, LastPlace
<1>4. Flow'
  BY <1>0 DEF Flow, Underway
<1>5. ResponseIsOwn'
  BY <1>0 DEF TypeOK, Shape, ResponseIsOwn
<1> QED
  BY <1>1, <1>2, <1>3, <1>4, <1>5 DEF IInv

\* ReadDone preserves the invariant.
LEMMA ReadDoneKeeps == IInv /\ ReadDone => IInv'
<1> SUFFICES ASSUME IInv, ReadDone PROVE IInv'
  OBVIOUS
<1>A. /\ call = "exact" /\ Len(buf) >= expected /\ call' = "none" /\ buf' = <<>>
      /\ last' = [call |-> "exact", ok |-> TRUE, bytes |-> buf]
      /\ IF at = 1 /\ buf[HeaderLen].len > 0
           THEN at' = HeaderLen + 1 /\ expected' = buf[HeaderLen].len
           ELSE at' = 1 /\ expected' = expected
      /\ answering' = IF at = 1 THEN buf[HeaderLen].cmd ELSE answering
      /\ build' = build /\ okIsZero' = okIsZero /\ ctx' = ctx /\ owner' = owner
      /\ fd' = fd /\ errno' = errno /\ wire' = wire /\ stream' = stream
      /\ asked' = asked /\ torn' = torn /\ issued' = issued /\ sound' = sound /\ leaked' = leaked
  BY DEF ReadDone, Received, Return, session, local, peer, notes
<1> USE SimAssumption DEF NoFd
<1>0. TypeOK /\ Shape /\ Framing /\ Flow /\ ResponseIsOwn
  BY DEF IInv
<1>n. /\ Len(buf) \in Nat /\ Len(stream) \in Nat /\ buf \in Seq(Byte) /\ stream \in Seq(Byte)
      /\ HeaderLen \in Nat \ {0} /\ at \in Nat \ {0} /\ expected \in Nat /\ issued \in 0..MaxCalls
  BY <1>0, LenProperties DEF TypeOK
<1>a. /\ build = "sim" /\ fd = ctx /\ ctx # NoFd /\ Len(buf) = expected
      /\ (at = 1 => expected = HeaderLen) /\ (at # 1 => at = HeaderLen + 1 /\ expected > 0)
  <2>1. /\ build = "sim" /\ fd = ctx /\ fd \in Fds /\ Len(buf) <= expected
        /\ (at = 1 => expected = HeaderLen) /\ (at # 1 => expected > 0)
    BY <1>0, <1>A DEF Shape
  <2>2. at \in {1, HeaderLen + 1}
    BY <1>0 DEF TypeOK
  <2> QED
    BY <1>A, <1>n, <2>1, <2>2
<1>h. at = 1 => /\ buf[HeaderLen] \in Byte /\ buf[HeaderLen].len \in Nat
                /\ buf[HeaderLen].cmd \in 0..MaxCalls
  <2>1. SUFFICES ASSUME at = 1
                 PROVE  /\ buf[HeaderLen] \in Byte /\ buf[HeaderLen].len \in Nat
                        /\ buf[HeaderLen].cmd \in 0..MaxCalls
    OBVIOUS
  <2>2. HeaderLen \in 1..Len(buf)
    BY <1>n, <1>a, <2>1
  <2>3. buf[HeaderLen] \in Byte
    BY <1>n, <2>2, ByteAt
  <2> QED
    BY <2>3 DEF Byte
<1> DEFINE s == Underway
<1>s. /\ s \in Seq(Byte) /\ Len(s) = Len(buf) + Len(stream)
      /\ \A i \in 1..Len(buf) : s[i] = buf[i]
      /\ \A i \in 1..Len(stream) : s[Len(buf) + i] = stream[i]
  <2>1. /\ s \in Seq(Byte) /\ Len(s) = Len(buf) + Len(stream)
        /\ \A i \in 1..(Len(buf) + Len(stream)) : s[i] = IF i <= Len(buf) THEN buf[i] ELSE stream[i - Len(buf)]
    BY <1>n, ConcatProperties DEF Underway
  <2>2. ASSUME NEW i \in 1..Len(stream) PROVE s[Len(buf) + i] = stream[i]
    <3>1. Len(buf) + i \in 1..(Len(buf) + Len(stream)) /\ ~(Len(buf) + i <= Len(buf)) /\ (Len(buf) + i) - Len(buf) = i
      BY <1>n
    <3> QED
      BY <2>1, <3>1
  <2> QED
    BY <1>n, <2>1, <2>2
<1>f. ASSUME sound
      PROVE  /\ Frames(s) /\ (wire # "reset" => Complete(s))
             /\ Len(s) >= 1 /\ s[1].place = at
             /\ at # 1 => s[1].cmd = answering /\ s[1].len = expected
  <2>1. Len(s) >= 1 /\ Underway # <<>>
    <3>1. Len(buf) >= 1
      BY <1>n, <1>a
    <3> QED
      BY <1>n, <1>s, <3>1, NoBytes
  <2> QED
    BY <1>0, <1>a, <1>f, <2>1 DEF Flow
<1> HIDE DEF s
\* The bytes of this read: one answer from the place on where it began.
<1>r. ASSUME sound
      PROVE  \E n \in Payloads :
               /\ n \in Nat /\ n = s[1].len /\ Piece(buf, answering', at, n)
               /\ at = 1 => Len(buf) = HeaderLen /\ buf[HeaderLen].len = n
               /\ at # 1 => Len(buf) = n /\ n > 0
               /\ \A j \in 1..Len(s) : at + (j - 1) <= HeaderLen + n =>
                    s[j] = [cmd |-> answering', place |-> at + (j - 1), len |-> n]
  <2>0. Frames(s) /\ 1 \in 1..Len(s) /\ s[1].place = at
    BY <1>f, <1>n, <1>r, <1>s
  <2>1. s[1].len \in Payloads /\ s[1].len \in Nat
    BY <1>s, <2>0, FrameByte
  <2> DEFINE n == s[1].len
  <2>2. ASSUME NEW j \in 1..Len(s), at + (j - 1) <= HeaderLen + n
        PROVE  s[j] = [cmd |-> s[1].cmd, place |-> at + (j - 1), len |-> n]
    <3>1. 1 <= j /\ s[1].place + (j - 1) <= HeaderLen + s[1].len
      BY <2>0, <2>2
    <3> QED
      BY <1>s, <2>0, <3>1, FrameNext
  <2>3. \A j \in 1..Len(buf) : j \in 1..Len(s) /\ at + (j - 1) <= HeaderLen + n /\ at + (j - 1) = at + j - 1
    <3>1. CASE at = 1
      BY <1>n, <1>a, <1>s, <2>1, <3>1
    <3>2. CASE at # 1
      <4>1. at = HeaderLen + 1 /\ Len(buf) = n
        BY <1>a, <1>f, <1>r, <3>2
      <4> QED
        BY <1>n, <1>s, <2>1, <4>1
    <3> QED
      BY <3>1, <3>2
  <2>4. \A j \in 1..Len(buf) : buf[j] = [cmd |-> s[1].cmd, place |-> at + j - 1, len |-> n]
    BY <1>s, <2>2, <2>3
  <2>5. answering' = s[1].cmd /\ (at = 1 => Len(buf) = HeaderLen /\ buf[HeaderLen].len = n)
    <3>1. CASE at = 1
      <4>1. HeaderLen \in 1..Len(buf) /\ Len(buf) = HeaderLen
        BY <1>n, <1>a, <3>1
      <4> QED
        BY <1>A, <2>4, <3>1, <4>1
    <3>2. CASE at # 1
      BY <1>A, <1>f, <1>r, <3>2
    <3> QED
      BY <3>1, <3>2
  <2>6. at # 1 => Len(buf) = n /\ n > 0
    BY <1>a, <1>f, <1>r
  <2>7. Piece(buf, answering', at, n)
    BY <2>4, <2>5 DEF Piece
  <2> QED
    BY <2>1, <2>2, <2>5, <2>6, <2>7
<1>1. TypeOK'
  <2>1. build' \in Builds /\ okIsZero' \in OkIsZero /\ ctx' \in Fds \cup {NoFd} /\ fd' \in Fds \cup {NoFd}
    BY <1>0, <1>A DEF TypeOK, Framed
  <2>2. owner' \in [Fds -> {"free", "session", "other"}]
    BY <1>0, <1>A DEF TypeOK, Framed
  <2>3. buf' \in Seq(Byte) /\ (call' \in Framed => Len(buf') <= MaxBuf)
    BY <1>A, NoBytes DEF Framed
  <2>4. last' \in [call : Results, ok : BOOLEAN, bytes : Seq(Byte)]
    BY <1>A, <1>n, Returned DEF Framed, Results
  <2>5. wire' \in {"open", "ended", "reset"} /\ stream' \in Seq(Byte)
    BY <1>0, <1>A DEF TypeOK, Framed
  <2>6. /\ call' \in Framed \cup {"none", "connect", "exact", "opened"}
        /\ expected' \in Nat /\ errno' \in {"clear", "EINTR", "other"}
        /\ issued' \in 0..MaxCalls /\ at' \in {1, HeaderLen + 1}
    BY <1>0, <1>A, <1>h DEF TypeOK
  <2>7. asked' \in Seq(Command) /\ torn' \in BOOLEAN
    BY <1>0, <1>A DEF TypeOK, Framed
  <2>8. sound' \in BOOLEAN /\ answering' \in 0..MaxCalls /\ leaked' \in Nat
    BY <1>0, <1>A, <1>h DEF TypeOK
  <2> QED
    BY <2>1, <2>2, <2>3, <2>4, <2>5, <2>6, <2>7, <2>8 DEF TypeOK
<1>2. Shape'
  <2>1. at' # 1 => expected' > 0
    BY <1>A
  <2> QED
    BY <1>0, <1>A, <1>a, <2>1 DEF TypeOK, Shape, Framed
<1>3. Framing'
  BY <1>A, <1>a DEF Framing
<1>4. Flow'
  <2>1. SUFFICES ASSUME sound PROVE Flow'
    BY <1>A DEF Flow
  <2>2. Underway' = stream
    BY <1>A, <1>n DEF Underway
  <2>3. Frames(s) /\ (wire # "reset" => Complete(s)) /\ Len(s) >= 1 /\ s[1].place = at
    BY <1>f, <2>1
  <2>4. Frames(stream) /\ (wire # "reset" => Complete(stream))
    BY <1>n, <1>s, <2>3, FramesRest
  <2>5. PICK n \in Payloads :
          /\ n \in Nat /\ n = s[1].len
          /\ at = 1 => Len(buf) = HeaderLen /\ buf[HeaderLen].len = n
          /\ at # 1 => Len(buf) = n /\ n > 0
          /\ \A j \in 1..Len(s) : at + (j - 1) <= HeaderLen + n =>
               s[j] = [cmd |-> answering', place |-> at + (j - 1), len |-> n]
    BY <1>r, <2>1
  <2>6. ASSUME stream # <<>> PROVE Len(stream) >= 1 /\ Len(buf) + 1 \in 1..Len(s) /\ stream[1] = s[Len(buf) + 1]
    <3>1. Len(stream) # 0
      BY <1>n, <2>6, NothingLeft
    <3> QED
      BY <1>n, <1>s, <3>1
  <2>7. CASE at = 1 /\ n > 0
    <3>1. at' = HeaderLen + 1 /\ expected' = n
      BY <1>A, <2>5, <2>7
    <3>2. ASSUME stream # <<>> PROVE stream[1] = [cmd |-> answering', place |-> HeaderLen + 1, len |-> n]
      <4>1. HeaderLen + 1 \in 1..Len(s) /\ stream[1] = s[HeaderLen + 1]
        BY <2>5, <2>6, <2>7, <3>2
      <4>2. 1 + ((HeaderLen + 1) - 1) = HeaderLen + 1 /\ HeaderLen + 1 <= HeaderLen + n
        BY <1>n, <2>5, <2>7
      <4> QED
        BY <2>5, <2>7, <4>1, <4>2
    <3>3. wire = "open" => stream # <<>>
      <4>1. SUFFICES ASSUME wire = "open" PROVE stream # <<>>
        OBVIOUS
      <4>2. 1 + (HeaderLen + s[1].len - s[1].place) <= Len(s)
        BY <1>n, <1>s, <2>3, <4>1 DEF Complete
      <4>3. Len(stream) >= n
        BY <1>n, <1>s, <2>3, <2>5, <2>7, <4>2
      <4> QED
        BY <2>5, <2>7, <4>3, NoBytes
    <3> QED
      BY <1>A, <2>2, <2>4, <3>1, <3>2, <3>3 DEF Flow
  <2>8. CASE ~(at = 1 /\ n > 0)
    <3>1. at' = 1
      BY <1>A, <2>5, <2>8
    <3>2. ASSUME stream # <<>> PROVE stream[1].place = 1
      <4>1. Len(buf) \in 1..Len(s) /\ Len(buf) + 1 <= Len(s) /\ stream[1] = s[Len(buf) + 1]
        BY <1>n, <1>a, <1>s, <2>6, <3>2
      <4>2. at + (Len(buf) - 1) = HeaderLen + n
        <5>1. CASE at = 1
          BY <1>n, <2>5, <2>8, <5>1
        <5>2. CASE at # 1
          BY <1>n, <1>a, <2>5, <5>2
        <5> QED
          BY <5>1, <5>2
      <4>3. s[Len(buf)] = [cmd |-> answering', place |-> at + (Len(buf) - 1), len |-> n]
        BY <1>n, <2>5, <4>1, <4>2
      <4>4. s[Len(buf)].place = HeaderLen + s[Len(buf)].len
        BY <4>2, <4>3
      <4> QED
        BY <1>s, <2>3, <4>1, <4>4, FrameBegins
    <3> QED
      BY <1>A, <2>2, <2>4, <3>1, <3>2 DEF Flow
  <2> QED
    BY <2>7, <2>8
<1>5. ResponseIsOwn'
  <2>1. SUFFICES ASSUME sound PROVE ResponseIsOwn'
    BY <1>A DEF ResponseIsOwn
  <2>2. last'.bytes = buf /\ last'.call = "exact"
    BY <1>A
  <2>3. PICK n \in Payloads :
          /\ n \in Nat /\ Piece(buf, answering', at, n)
          /\ at = 1 => Len(buf) = HeaderLen
          /\ at # 1 => Len(buf) = n
    BY <1>r, <2>1
  <2>4. answering' \in 0..MaxCalls
    BY <1>0, <1>A, <1>h DEF TypeOK
  <2>5. at + Len(buf) - 1 <= HeaderLen + n
    BY <1>n, <1>a, <2>3
  <2>6. buf = Slice(Answer(answering', n), at, Len(buf))
    BY <1>n, <2>3, <2>4, <2>5, PieceIsSlice
  <2>7. CASE at = 1
    BY <2>2, <2>3, <2>6, <2>7 DEF ResponseIsOwn
  <2>8. CASE at # 1
    <3>1. at = HeaderLen + 1 /\ at' = 1 /\ Len(buf) = n
      BY <1>A, <1>a, <2>3, <2>8
    <3> QED
      BY <2>2, <2>6, <3>1 DEF ResponseIsOwn
  <2> QED
    BY <2>7, <2>8
<1> QED
  BY <1>1, <1>2, <1>3, <1>4, <1>5 DEF IInv

\* Replies preserves the invariant.
LEMMA RepliesKeeps == IInv /\ Replies => IInv'
<1> SUFFICES ASSUME IInv, Replies PROVE IInv'
  OBVIOUS
<1>A. /\ wire = "open" /\ asked # <<>> /\ asked' = Tail(asked)
      /\ \E n \in Payloads : stream' = stream \o Reply(Head(asked), n)
      /\ build' = build /\ okIsZero' = okIsZero /\ ctx' = ctx /\ owner' = owner /\ call' = call
      /\ fd' = fd /\ buf' = buf /\ expected' = expected /\ errno' = errno /\ last' = last
      /\ wire' = wire /\ torn' = torn /\ issued' = issued /\ at' = at
      /\ sound' = sound /\ answering' = answering /\ leaked' = leaked
  BY DEF Replies, session, local, peer, notes
<1> USE SimAssumption DEF NoFd
<1>0. TypeOK /\ Shape /\ Framing /\ Flow /\ ResponseIsOwn
  BY DEF IInv
<1>p. ASSUME build = "socket", sound, call # "connect", Working # NoFd, owner[Working] = "session"
      PROVE  \E n \in Payloads :
               /\ n \in Nat /\ Piece(buf, issued, 1, n) /\ Piece(stream, issued, 1 + Len(buf), n)
               /\ Len(buf) + Len(stream) <= LastPlace(n)
               /\ (asked # <<>> /\ wire = "open") =>
                    buf = <<>> /\ stream = <<>> /\ asked = <<[cmd |-> issued, of |-> call]>>
               /\ call \in {"none", "opened"} => stream = <<>> /\ ~(asked # <<>> /\ wire = "open")
               /\ call \in Framed =>
                    expected = IF Len(buf) < HeaderLen THEN HeaderLen ELSE LastPlace(n)
  BY <1>0, <1>p DEF Framing
<1>n. /\ Len(buf) \in Nat /\ Len(stream) \in Nat /\ buf \in Seq(Byte) /\ stream \in Seq(Byte)
      /\ HeaderLen \in Nat \ {0} /\ at \in Nat \ {0} /\ expected \in Nat /\ issued \in 0..MaxCalls
  BY <1>0, LenProperties DEF TypeOK
<1>k. PICK n \in Payloads : stream' = stream \o Reply(Head(asked), n)
  BY <1>A
<1>q. /\ asked \in Seq(Command) /\ Head(asked) \in Command /\ Head(asked) = asked[1]
      /\ Tail(asked) \in Seq(Command) /\ Len(asked) \in Nat \ {0} /\ Len(Tail(asked)) = Len(asked) - 1
      /\ \A i \in 1..(Len(asked) - 1) : Tail(asked)[i] = asked[i + 1]
  <2>1. asked \in Seq(Command)
    BY <1>0 DEF TypeOK
  <2> QED
    BY <1>A, <2>1, CommandsShrink
<1> DEFINE reply == Reply(Head(asked), n)
<1>m. n \in Nat
  BY <1>k
<1>r. /\ reply \in Seq(Byte) /\ Piece(reply, Head(asked).cmd, 1, n)
      /\ Len(reply) = IF Head(asked).of \in {"lock", "unlock"} THEN HeaderLen ELSE HeaderLen + n
  BY <1>m, <1>q, ReplyBytes
<1>t. stream' = stream \o reply
  BY <1>k
<1> HIDE DEF reply
<1>1. TypeOK'
  <2>1. build' \in Builds /\ okIsZero' \in OkIsZero /\ ctx' \in Fds \cup {NoFd} /\ fd' \in Fds \cup {NoFd}
    BY <1>0, <1>A DEF TypeOK, Framed
  <2>2. owner' \in [Fds -> {"free", "session", "other"}]
    BY <1>0, <1>A DEF TypeOK, Framed
  <2>3. buf' \in Seq(Byte) /\ (call' \in Framed => Len(buf') <= MaxBuf)
    BY <1>0, <1>A DEF TypeOK, Framed
  <2>4. last' \in [call : Results, ok : BOOLEAN, bytes : Seq(Byte)]
    BY <1>0, <1>A DEF TypeOK, Framed, Results
  <2>5. wire' \in {"open", "ended", "reset"} /\ stream' \in Seq(Byte)
    BY <1>0, <1>A, <1>n, <1>r, <1>t, ConcatProperties DEF TypeOK
  <2>6. /\ call' \in Framed \cup {"none", "connect", "exact", "opened"}
        /\ expected' \in Nat /\ errno' \in {"clear", "EINTR", "other"}
        /\ issued' \in 0..MaxCalls /\ at' \in {1, HeaderLen + 1}
    BY <1>0, <1>A DEF TypeOK, Framed
  <2>7. asked' \in Seq(Command) /\ torn' \in BOOLEAN
    BY <1>0, <1>A, <1>q DEF TypeOK
  <2>8. sound' \in BOOLEAN /\ answering' \in 0..MaxCalls /\ leaked' \in Nat
    BY <1>0, <1>A DEF TypeOK, Framed
  <2> QED
    BY <2>1, <2>2, <2>3, <2>4, <2>5, <2>6, <2>7, <2>8 DEF TypeOK
<1>2. Shape'
  <2>1. build = "sim" => \A i \in 1..Len(asked') : asked'[i].of = "block"
    <3>1. SUFFICES ASSUME build = "sim", NEW i \in 1..Len(asked') PROVE asked'[i].of = "block"
      OBVIOUS
    <3>2. i \in 1..(Len(asked) - 1) /\ i + 1 \in 1..Len(asked)
      BY <1>A, <1>q
    <3>3. asked'[i] = asked[i + 1]
      BY <1>A, <1>q, <3>2
    <3> QED
      BY <1>0, <3>1, <3>2, <3>3 DEF Shape
  <2> QED
    BY <1>0, <1>A, <2>1 DEF TypeOK, Shape, Framed
<1>3. Framing'
  <2>1. SUFFICES ASSUME build = "socket", sound, call # "connect", Working # NoFd, owner[Working] = "session"
                 PROVE  Framing'
    BY <1>A DEF Framing, Working
  <2>2. /\ buf = <<>> /\ stream = <<>> /\ asked = <<[cmd |-> issued, of |-> call]>>
        /\ call \notin {"none", "opened"} /\ Len(buf) = 0
        /\ call \in Framed => expected = HeaderLen
    BY <1>A, <1>p, <1>n, <2>1, NoBytes
  <2>3. Head(asked) = [cmd |-> issued, of |-> call] /\ Tail(asked) = <<>>
    <3>1. asked[1] = [cmd |-> issued, of |-> call] /\ Len(asked) = 1
      BY <2>2
    <3>2. Len(Tail(asked)) = 0
      BY <1>q, <3>1
    <3> QED
      BY <1>q, <3>1, <3>2, EmptySeq
  <2>4. stream' = reply
    BY <1>t, <1>r, <2>2
  <2>5. Piece(buf, issued, 1, n)' /\ Piece(stream, issued, 1 + Len(buf), n)'
    BY <1>A, <1>r, <2>2, <2>3, <2>4, NoBytes DEF Piece
  <2>6. Len(buf') + Len(stream') <= LastPlace(n)'
    BY <1>A, <1>n, <1>m, <1>r, <2>2, <2>3, <2>4 DEF LastPlace
  <2> QED
    BY <1>A, <1>n, <1>k, <2>2, <2>3, <2>5, <2>6 DEF Framing
<1>4. Flow'
  <2>1. SUFFICES ASSUME build = "sim", sound, ctx # NoFd PROVE Flow'
    BY <1>A DEF Flow
  <2>2. Head(asked).of = "block"
    <3>1. 1 \in 1..Len(asked)
      BY <1>q
    <3> QED
      BY <1>0, <1>q, <2>1, <3>1 DEF Shape
  <2>3. Len(reply) = HeaderLen + n /\ Frames(reply) /\ Complete(reply)
    BY <1>r, <2>2, <1>k, FramesAnswer
  <2>4. reply[1].place = 1
    <3>1. 1 \in 1..Len(reply)
      BY <1>n, <1>m, <2>3
    <3>2. reply[1] = [cmd |-> Head(asked).cmd, place |-> 1 + 1 - 1, len |-> n]
      BY <1>r, <3>1 DEF Piece
    <3> QED
      BY <3>2
  <2> DEFINE s == Underway
  <2>5. /\ s \in Seq(Byte) /\ Len(s) \in Nat /\ Frames(s) /\ Complete(s)
        /\ (s # <<>> => s[1].place = at) /\ (at # 1 => s # <<>>)
        /\ (at # 1 => s[1].cmd = answering /\ s[1].len = expected)
    BY <1>0, <1>A, <1>n, <2>1, ConcatProperties, LenProperties DEF Flow, Underway
  <2>6. Underway' = s \o reply
    <3>1. Underway' = buf \o (stream \o reply)
      BY <1>A, <1>t DEF Underway
    <3>2. (buf \o stream) \o reply = buf \o (stream \o reply)
      BY <1>n, <1>r, ConcatAssociative
    <3> QED
      BY <3>1, <3>2 DEF Underway
  <2> HIDE DEF s
  <2>7. Frames(s \o reply) /\ Complete(s \o reply)
    BY <1>r, <2>3, <2>4, <2>5, FramesJoin
  <2>8. /\ Len(s \o reply) = Len(s) + Len(reply)
        /\ \A i \in 1..(Len(s) + Len(reply)) : (s \o reply)[i] = IF i <= Len(s) THEN s[i] ELSE reply[i - Len(s)]
    BY <1>r, <2>5, ConcatProperties
  <2>9. CASE s = <<>>
    <3>1. s \o reply = reply /\ at = 1
      BY <1>r, <2>5, <2>9
    <3> QED
      BY <1>A, <2>4, <2>6, <2>7, <3>1 DEF Flow
  <2>10. CASE s # <<>>
    <3>1. Len(s) >= 1
      BY <2>5, <2>10, NothingLeft
    <3>2. (s \o reply)[1] = s[1] /\ s \o reply # <<>>
      <4>1. Len(reply) \in Nat
        BY <1>r, LenProperties
      <4> QED
        BY <2>5, <2>8, <3>1, <4>1, NoBytes
    <3> QED
      BY <1>A, <2>5, <2>6, <2>7, <2>10, <3>2 DEF Flow
  <2> QED
    BY <2>9, <2>10
<1>5. ResponseIsOwn'
  BY <1>0, <1>A DEF ResponseIsOwn
<1> QED
  BY <1>1, <1>2, <1>3, <1>4, <1>5 DEF IInv

\* Ends preserves the invariant.
LEMMA EndsKeeps == IInv /\ Ends => IInv'
<1> SUFFICES ASSUME IInv, Ends PROVE IInv'
  OBVIOUS
<1> USE SimAssumption DEF Ends, session, local, peer, notes, NoFd
<1>0. TypeOK /\ Shape /\ Framing /\ Flow /\ ResponseIsOwn
  BY DEF IInv
<1>p. ASSUME build = "socket", sound, call # "connect", Working # NoFd, owner[Working] = "session"
      PROVE  \E n \in Payloads :
               /\ n \in Nat /\ Piece(buf, issued, 1, n) /\ Piece(stream, issued, 1 + Len(buf), n)
               /\ Len(buf) + Len(stream) <= LastPlace(n)
               /\ (asked # <<>> /\ wire = "open") =>
                    buf = <<>> /\ stream = <<>> /\ asked = <<[cmd |-> issued, of |-> call]>>
               /\ call \in {"none", "opened"} => stream = <<>> /\ ~(asked # <<>> /\ wire = "open")
               /\ call \in Framed =>
                    expected = IF Len(buf) < HeaderLen THEN HeaderLen ELSE LastPlace(n)
  BY <1>0, <1>p DEF Framing
<1>n. /\ Len(buf) \in Nat /\ Len(stream) \in Nat /\ buf \in Seq(Byte) /\ stream \in Seq(Byte)
      /\ HeaderLen \in Nat \ {0} /\ at \in Nat \ {0} /\ expected \in Nat /\ issued \in 0..MaxCalls
  BY <1>0, LenProperties DEF TypeOK
<1>1. TypeOK'
  <2>1. build' \in Builds /\ okIsZero' \in OkIsZero /\ ctx' \in Fds \cup {NoFd} /\ fd' \in Fds \cup {NoFd}
    BY <1>0 DEF TypeOK, Framed
  <2>2. owner' \in [Fds -> {"free", "session", "other"}]
    BY <1>0 DEF TypeOK, Framed
  <2>3. buf' \in Seq(Byte) /\ (call' \in Framed => Len(buf') <= MaxBuf)
    BY <1>0, NoBytes DEF TypeOK, Framed
  <2>4. last' \in [call : Results, ok : BOOLEAN, bytes : Seq(Byte)]
    BY <1>0, NoBytes DEF TypeOK, Framed, Results
  <2>5. wire' \in {"open", "ended", "reset"} /\ stream' \in Seq(Byte)
    BY <1>0, NoBytes DEF TypeOK
  <2>6. /\ call' \in Framed \cup {"none", "connect", "exact", "opened"}
        /\ expected' \in Nat /\ errno' \in {"clear", "EINTR", "other"}
        /\ issued' \in 0..MaxCalls /\ at' \in {1, HeaderLen + 1}
    BY <1>0 DEF TypeOK, Framed
  <2>7. asked' \in Seq(Command) /\ torn' \in BOOLEAN
    BY <1>0 DEF TypeOK, Framed
  <2>8. sound' \in BOOLEAN /\ answering' \in 0..MaxCalls /\ leaked' \in Nat
    BY <1>0 DEF TypeOK, Framed
  <2> QED
    BY <2>1, <2>2, <2>3, <2>4, <2>5, <2>6, <2>7, <2>8 DEF TypeOK
<1>2. Shape'
  BY <1>0 DEF TypeOK, Shape, Framed
<1>3. Framing'
  <2>1. SUFFICES ASSUME build = "socket", sound, call # "connect", Working # NoFd, owner[Working] = "session"
                 PROVE  Framing'
    BY DEF Framing, Working
  <2>3. PICK n \in Payloads :
          /\ n \in Nat /\ Piece(buf, issued, 1, n) /\ Piece(stream, issued, 1 + Len(buf), n)
          /\ Len(buf) + Len(stream) <= LastPlace(n)
          /\ call \in {"none", "opened"} => stream = <<>>
          /\ call \in Framed =>
               expected = IF Len(buf) < HeaderLen THEN HeaderLen ELSE LastPlace(n)
    BY <1>p, <2>1
  <2>4. /\ stream' \in Seq(Byte) /\ Len(stream') \in Nat /\ Len(stream') <= Len(stream)
        /\ Piece(stream, issued, 1 + Len(buf), n)' /\ (stream = <<>> => stream' = <<>>)
    <3>1. CASE stream' = stream
      BY <1>n, <2>3, <3>1 DEF Piece
    <3>2. CASE stream' = <<>>
      BY <1>n, <3>2, NoBytes DEF Piece
    <3> QED
      BY <3>1, <3>2
  <2>5. Piece(buf, issued, 1, n)' /\ LastPlace(n)' = LastPlace(n) /\ LastPlace(n) \in Nat
    BY <1>n, <2>3 DEF Piece, LastPlace
  <2>6. Len(buf') + Len(stream') <= LastPlace(n)'
    BY <1>n, <2>3, <2>4, <2>5
  <2> QED
    BY <2>3, <2>4, <2>5, <2>6 DEF Framing
<1>4. Flow'
  <2>1. SUFFICES ASSUME build = "sim", sound, ctx # NoFd PROVE Flow'
    BY DEF Flow
  <2>2. CASE stream' = stream
    BY <1>0, <2>1, <2>2 DEF Flow, Underway
  <2>3. CASE stream' = <<>> /\ wire' = "reset"
    <3> DEFINE s == Underway
    <3>1. /\ s \in Seq(Byte) /\ Len(s) = Len(buf) + Len(stream) /\ Frames(s)
          /\ (s # <<>> => s[1].place = at)
          /\ (at # 1 /\ s # <<>>) => s[1].cmd = answering /\ s[1].len = expected
      BY <1>0, <1>n, <2>1, ConcatProperties DEF Flow, Underway
    <3>2. \A i \in 1..Len(buf) : s[i] = buf[i]
      BY <1>n, ConcatProperties DEF Underway
    <3>3. Underway' = buf
      BY <1>n, <2>3 DEF Underway
    <3> HIDE DEF s
    <3>4. Len(buf) <= Len(s)
      BY <1>n, <3>1
    <3>5. Frames(buf)
      BY <1>n, <3>1, <3>2, <3>4, FramesFront
    <3>6. buf # <<>> => s # <<>> /\ buf[1] = s[1]
      <4>1. SUFFICES ASSUME buf # <<>> PROVE s # <<>> /\ buf[1] = s[1]
        OBVIOUS
      <4>2. Len(buf) # 0
        BY <1>n, <4>1, NothingLeft
      <4> QED
        BY <1>n, <3>1, <3>2, <3>4, <4>2, NoBytes
    <3> QED
      BY <2>3, <3>1, <3>3, <3>5, <3>6 DEF Flow
  <2> QED
    BY <2>2, <2>3
<1>5. ResponseIsOwn'
  BY <1>0 DEF TypeOK, Shape, ResponseIsOwn
<1> QED
  BY <1>1, <1>2, <1>3, <1>4, <1>5 DEF IInv

\* The invariant holds at first.
LEMMA InitHolds == Init => IInv
<1> SUFFICES ASSUME Init PROVE IInv
  OBVIOUS
<1> USE SimAssumption DEF Init, NoFd
<1>1. TypeOK
  <2>1. buf \in Seq(Byte) /\ stream \in Seq(Byte) /\ asked \in Seq(Command)
    BY NoBytes, NoCommands
  <2>2. last \in [call : Results, ok : BOOLEAN, bytes : Seq(Byte)]
    BY NoBytes, Returned DEF Results
  <2>3. owner \in [Fds -> {"free", "session", "other"}]
    OBVIOUS
  <2>4. /\ build \in Builds /\ okIsZero \in OkIsZero
        /\ ctx \in Fds \cup {NoFd} /\ fd \in Fds \cup {NoFd}
        /\ call \in Framed \cup {"none", "connect", "exact", "opened"} /\ call \notin Framed
    BY DEF Framed
  <2>5. /\ expected \in Nat /\ errno \in {"clear", "EINTR", "other"}
        /\ wire \in {"open", "ended", "reset"} /\ issued \in 0..MaxCalls
        /\ at \in {1, HeaderLen + 1} /\ answering \in 0..MaxCalls /\ leaked \in Nat
    OBVIOUS
  <2>6. sound \in BOOLEAN /\ torn \in BOOLEAN
    OBVIOUS
  <2> HIDE DEF Init
  <2> QED
    BY <2>1, <2>2, <2>3, <2>4, <2>5, <2>6 DEF TypeOK
<1>2. Shape
  BY NoCommands DEF Shape, Framed
<1>3. Framing
  BY DEF Framing, Working
<1>4. Flow
  BY DEF Flow
<1>5. ResponseIsOwn
  BY DEF ResponseIsOwn
<1> QED
  BY <1>1, <1>2, <1>3, <1>4, <1>5 DEF IInv

\* Every step preserves the invariant.
LEMMA StepKeeps == IInv /\ [Next]_vars => IInv'
<1> SUFFICES ASSUME IInv, [Next]_vars PROVE IInv'
  OBVIOUS
<1>1. CASE OpenFails
  BY <1>1, OpenFailsKeeps
<1>2. CASE OpenSocket
  BY <1>2, OpenSocketKeeps
<1>3. CASE Close
  BY <1>3, CloseKeeps
<1>4. CASE AxI2CTerm
  BY <1>4, AxI2CTermKeeps
<1>5. CASE AxI2CWrite
  BY <1>5, AxI2CWriteKeeps
<1>6. CASE AxI2CReadNothing
  BY <1>6, AxI2CReadNothingKeeps
<1>7. CASE AxI2CRead
  BY <1>7, AxI2CReadKeeps
<1>8. CASE AxI2CScan
  BY <1>8, AxI2CScanKeeps
<1>9. CASE ConnectFails
  BY <1>9, ConnectFailsKeeps
<1>10. CASE GetATR
  BY <1>10, GetATRKeeps
<1>11. CASE AxI2CInit
  BY <1>11, AxI2CInitKeeps
<1>12. CASE RecvBytes
  BY <1>12, RecvBytesKeeps
<1>13. CASE RecvForeign
  BY <1>13, RecvForeignKeeps
<1>14. CASE RecvFails
  BY <1>14, RecvFailsKeeps
<1>15. CASE TooLong
  BY <1>15, TooLongKeeps
<1>16. CASE TransceiveDone
  BY <1>16, TransceiveDoneKeeps
<1>17. CASE LockDone
  BY <1>17, LockDoneKeeps
<1>18. CASE CloseDone
  BY <1>18, CloseDoneKeeps
<1>19. CASE AtrDone
  BY <1>19, AtrDoneKeeps
<1>20. CASE OpenDone
  BY <1>20, OpenDoneKeeps
<1>21. CASE ReadDone
  BY <1>21, ReadDoneKeeps
<1>22. CASE RecvAgain
  BY <1>22, RecvAgainKeeps
<1>23. CASE Replies
  BY <1>23, RepliesKeeps
<1>24. CASE Ends
  BY <1>24, EndsKeeps
<1>25. CASE OtherOpens
  BY <1>25, OtherOpensKeeps
<1>26. CASE OtherCloses
  BY <1>26, OtherClosesKeeps
<1>27. ASSUME NEW c \in {"apdu", "raw", "lock", "unlock"}, Transceive(c) PROVE IInv'
  BY <1>27, TransceiveKeeps
<1>28. CASE UNCHANGED vars
  BY <1>28 DEF vars, session, local, peer, notes, IInv, TypeOK, Shape, Framing, Flow, ResponseIsOwn,
     Working, Piece, LastPlace, Underway
<1> QED
  BY <1>1, <1>2, <1>3, <1>4, <1>5, <1>6, <1>7, <1>8, <1>9, <1>10, <1>11, <1>12, <1>13, <1>14,
     <1>15, <1>16, <1>17, <1>18, <1>19, <1>20, <1>21, <1>22, <1>23, <1>24, <1>25, <1>26,
     <1>27, <1>28
     DEF Next, CallStep

\* The descriptors of the session besides the one it works on.
Idles == {f \in Fds : owner[f] = "session"} \ {Working}

\* A step leaves one more of them behind only where CloseFD cannot send.
LEMMA IdlesStep ==
  ASSUME IInv, [Next]_vars
  PROVE  \/ Idles' \subseteq Idles /\ leaked' = leaked
         \/ Idles' \subseteq Idles \cup {ctx} /\ leaked' = leaked + 1
<1> USE SimAssumption DEF NoFd, Idles, Working, session, local, peer, notes
<1>0. TypeOK /\ Shape
  BY DEF IInv
<1>1. CASE OpenFails
  BY <1>0, <1>1 DEF TypeOK, Shape, Framed, OpenFails, Return
<1>2. CASE OpenSocket
  BY <1>0, <1>2 DEF TypeOK, Shape, Framed, OpenSocket, Lowest
<1>3. CASE Close
  <2>1. CASE Sent("close", ctx) /\ Begin("close", ctx) /\ UNCHANGED <<errno, last, leaked>>
    BY <1>0, <1>3, <2>1 DEF TypeOK, Close, Begin
  <2>2. CASE /\ call' = "none"
             /\ leaked' = IF owner[ctx] = "session" THEN leaked + 1 ELSE leaked
    BY <1>0, <1>3, <2>2 DEF TypeOK, Close
  <2> QED
    BY <1>3, <2>1, <2>2 DEF Close, Return
<1>4. CASE AxI2CTerm
  BY <1>0, <1>4 DEF TypeOK, Shape, Framed, AxI2CTerm, CloseFd
<1>5. CASE AxI2CWrite
  BY <1>0, <1>5 DEF TypeOK, Shape, Framed, AxI2CWrite
<1>6. CASE AxI2CReadNothing
  BY <1>0, <1>6 DEF TypeOK, Shape, Framed, AxI2CReadNothing
<1>7. CASE AxI2CRead
  BY <1>0, <1>7 DEF TypeOK, Shape, Framed, AxI2CRead
<1>8. CASE AxI2CScan
  BY <1>0, <1>8 DEF TypeOK, Shape, Framed, AxI2CScan
<1>9. CASE ConnectFails
  BY <1>0, <1>9 DEF TypeOK, Shape, Framed, ConnectFails, CloseFd, Return
<1>10. CASE GetATR
  BY <1>0, <1>10 DEF TypeOK, Shape, Framed, GetATR, Begin, CloseFd, Return
<1>11. CASE AxI2CInit
  BY <1>0, <1>11 DEF TypeOK, Shape, Framed, AxI2CInit, Return
<1>12. CASE RecvBytes
  BY <1>0, <1>12 DEF TypeOK, Shape, Framed, RecvBytes
<1>13. CASE RecvForeign
  BY <1>0, <1>13 DEF TypeOK, Shape, Framed, RecvForeign
<1>14. CASE RecvFails
  BY <1>0, <1>14 DEF TypeOK, Shape, Framed, RecvFails, Receiving, GiveUp, CloseFd, Return
<1>15. CASE TooLong
  BY <1>0, <1>15 DEF TypeOK, Shape, Framed, TooLong, Receiving, GiveUp, CloseFd
<1>16. CASE TransceiveDone
  BY <1>0, <1>16 DEF TypeOK, Shape, Framed, TransceiveDone, Return
<1>17. CASE LockDone
  BY <1>0, <1>17 DEF TypeOK, Shape, Framed, LockDone, Return
<1>18. CASE CloseDone
  BY <1>0, <1>18 DEF TypeOK, Shape, Framed, CloseDone, Return, CloseFd
<1>19. CASE AtrDone
  BY <1>0, <1>19 DEF TypeOK, Shape, Framed, AtrDone
<1>20. CASE OpenDone
  BY <1>0, <1>20 DEF TypeOK, Shape, Framed, OpenDone, CloseFd
<1>21. CASE ReadDone
  BY <1>0, <1>21 DEF TypeOK, Shape, Framed, ReadDone, Return
<1>22. CASE RecvAgain
  BY <1>0, <1>22 DEF TypeOK, Shape, Framed, RecvAgain
<1>23. CASE Replies
  BY <1>0, <1>23 DEF TypeOK, Shape, Framed, Replies
<1>24. CASE Ends
  BY <1>0, <1>24 DEF TypeOK, Shape, Framed, Ends
<1>25. CASE OtherOpens
  BY <1>0, <1>25 DEF TypeOK, Shape, Framed, OtherOpens, Lowest
<1>26. CASE OtherCloses
  BY <1>0, <1>26 DEF TypeOK, Shape, Framed, OtherCloses
<1>27. ASSUME NEW c \in {"apdu", "raw", "lock", "unlock"}, Transceive(c)
      PROVE  Idles' \subseteq Idles /\ leaked' = leaked
  BY <1>0, <1>27 DEF TypeOK, Transceive, Begin, Return
<1>28. CASE UNCHANGED vars
  BY <1>28 DEF vars
<1> QED
  BY <1>1, <1>2, <1>3, <1>4, <1>5, <1>6, <1>7, <1>8, <1>9, <1>10, <1>11, <1>12, <1>13, <1>14,
     <1>15, <1>16, <1>17, <1>18, <1>19, <1>20, <1>21, <1>22, <1>23, <1>24, <1>25, <1>26,
     <1>27, <1>28
     DEF Next, CallStep

\* Every descriptor besides the one the session works on stays accounted for.
LEMMA AccountedStep == ASSUME IInv, Accounted, [Next]_vars PROVE Accounted'
<1>0. TypeOK /\ IsFiniteSet(Fds)
  BY SimAssumption DEF IInv
<1>1. /\ IsFiniteSet(Idles) /\ Cardinality(Idles) \in Nat /\ Cardinality(Idles) <= leaked
      /\ leaked \in Nat
  <2>1. Idles \subseteq Fds
    BY DEF Idles
  <2>2. IsFiniteSet(Idles)
    BY <1>0, <2>1, FS_Subset
  <2> QED
    BY <1>0, <2>2, FS_CardinalityType DEF Accounted, Idles, TypeOK
<1>2. CASE Idles' \subseteq Idles /\ leaked' = leaked
  <2>1. Cardinality(Idles') <= Cardinality(Idles) /\ Cardinality(Idles') \in Nat
    BY <1>1, <1>2, FS_Subset, FS_CardinalityType
  <2> QED
    BY <1>1, <1>2, <2>1 DEF Accounted, Idles
<1>3. CASE Idles' \subseteq Idles \cup {ctx} /\ leaked' = leaked + 1
  <2>1. /\ IsFiniteSet(Idles \cup {ctx}) /\ Cardinality(Idles \cup {ctx}) \in Nat
        /\ Cardinality(Idles \cup {ctx}) <= Cardinality(Idles) + 1
    BY <1>1, FS_AddElement, FS_CardinalityType
  <2>2. /\ Cardinality(Idles') <= Cardinality(Idles \cup {ctx})
        /\ Cardinality(Idles') \in Nat
    BY <1>3, <2>1, FS_Subset, FS_CardinalityType
  <2> QED
    BY <1>1, <1>3, <2>1, <2>2 DEF Accounted, Idles
<1> QED
  BY <1>2, <1>3, IdlesStep

\* What is accounted for is not leaked.
LEMMA AccountedNoLeak == ASSUME IInv, Accounted PROVE NoLeak
<1> DEFINE held == {f \in Fds : owner[f] = "session"}
<1>0. TypeOK /\ IsFiniteSet(Fds) /\ Fds \subseteq Nat \ {0}
  BY SimAssumption DEF IInv
<1>1. /\ IsFiniteSet(Idles) /\ Cardinality(Idles) \in Nat /\ Cardinality(Idles) <= leaked
      /\ leaked \in Nat
  <2>1. Idles \subseteq Fds
    BY DEF Idles
  <2>2. IsFiniteSet(Idles)
    BY <1>0, <2>1, FS_Subset
  <2> QED
    BY <1>0, <2>2, FS_CardinalityType DEF Accounted, Idles, TypeOK
<1>2. CASE ctx # NoFd \/ call # "none"
  <2>1. held \subseteq Idles \cup {Working}
    BY DEF Idles
  <2>2. /\ IsFiniteSet(Idles \cup {Working}) /\ Cardinality(Idles \cup {Working}) \in Nat
        /\ Cardinality(Idles \cup {Working}) <= Cardinality(Idles) + 1
    BY <1>1, FS_AddElement, FS_CardinalityType
  <2>3. Cardinality(held) <= Cardinality(Idles \cup {Working}) /\ Cardinality(held) \in Nat
    BY <2>1, <2>2, FS_Subset, FS_CardinalityType
  <2> QED
    BY <1>1, <1>2, <2>2, <2>3 DEF NoLeak
<1>3. CASE ctx = NoFd /\ call = "none"
  <2>1. held = Idles
    BY <1>0, <1>3 DEF Idles, Working, NoFd
  <2> QED
    BY <1>1, <1>3, <2>1 DEF NoLeak
<1> QED
  BY <1>2, <1>3

\* No call of either transport writes past response[], and every piece of
\* state keeps its type: smComSocket_fd.c's receive loops and i2c_sim.c's
\* read_exact, for every buffer, header and payload length.
THEOREM TypeCorrect == Spec => []TypeOK
<1>1. IInv => TypeOK
  BY DEF IInv
<1> QED
  BY <1>1, InitHolds, StepKeeps, PTL DEF Spec

\* However recv cuts up the stream and whatever failed before, a transceive
\* that returns Ok hands out the payload of its own command's answer, and the
\* bus reads the header and then the payload of one answer, with late answers
\* to earlier blocks, timeouts and interrupted writes in between, as long as
\* the two ends are in step.
THEOREM ResponsesAreOwn == Spec => []ResponseIsOwn
<1>1. IInv => ResponseIsOwn
  BY DEF IInv
<1> QED
  BY <1>1, InitHolds, StepKeeps, PTL DEF Spec

\* A session leaves a descriptor behind only where CloseFD cannot send its
\* command: the error paths of Open, axI2CInit and the receive loops close
\* theirs.
THEOREM NothingLeaks == Spec => []NoLeak
<1>1. Init => Accounted
  <2> SUFFICES ASSUME Init PROVE Accounted
    OBVIOUS
  <2>1. {f \in Fds : owner[f] = "session"} \ {Working} = {}
    BY DEF Init
  <2>2. Cardinality({f \in Fds : owner[f] = "session"} \ {Working}) = 0
    BY <2>1, FS_EmptySet
  <2>3. leaked = 0
    BY DEF Init
  <2> QED
    BY <2>2, <2>3 DEF Accounted
<1>2. IInv /\ Accounted /\ [Next]_vars => Accounted'
  BY AccountedStep
<1>3. IInv /\ Accounted => NoLeak
  BY AccountedNoLeak
<1> QED
  BY <1>1, <1>2, <1>3, InitHolds, StepKeeps, PTL DEF Spec

=============================================================================
