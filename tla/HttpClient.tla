----------------------------- MODULE HttpClient -----------------------------
(***************************************************************************)
(* http::Client (src/http/http.cpp) over PosixTcpSocket                    *)
(* (ports/host/host_tcp.cpp): a request is sent in as many pieces as the   *)
(* kernel takes, the reply is read until the peer closes or the buffer is  *)
(* full, and what arrived is parsed.                                       *)
(*                                                                         *)
(* A request is its length.  A reply is a sequence of units: one for the   *)
(* status line, for each header line and for the blank line, one for each  *)
(* byte of the body.  A cut inside a line is a cut before it: the line is  *)
(* not terminated.  The caller makes one request per connection, as the    *)
(* "Connection: close" of every request implies.  A call interrupted by a  *)
(* signal is repeated by the code and is a stuttering step here.           *)
(***************************************************************************)
EXTENDS Integers, Sequences, FiniteSets

CONSTANTS
  ReqBuf,        \* sizeof(reqbuf) in Client::Do
  RecvSize,      \* recv_buf.size()
  MaxHeaders,    \* ETLX_HTTP_MAX_HEADERS
  SizeMod,       \* SIZE_MAX + 1
  RequestLens,   \* what the caller's requests come to when serialised
  Replies,       \* [headers, body]: what servers answer
  Faults,        \* of the network and the peer
  MaxAddrs,      \* bound: addresses getaddrinfo returns
  MaxCalls       \* bound: connections

HeaderLines == [line : {"plain", "junk", "badlength"}, n : {0}] \cup [line : {"length"}, n : Nat]

ASSUME HttpAssumption ==
  /\ ReqBuf \in Nat /\ RecvSize \in Nat /\ MaxHeaders \in Nat
  /\ SizeMod \in Nat \ {0}
  /\ RequestLens \subseteq Nat \ {0}
  /\ Replies \subseteq [status : {"status", "badstatus"}, headers : Seq(HeaderLines), body : Nat]
  /\ Faults \subseteq {"cut", "reset", "resolve", "refuse", "send"}
  /\ MaxAddrs \in Nat /\ MaxCalls \in Nat

VARIABLES
  \* PosixTcpSocket and the process's descriptors
  connected,     \* fd_ >= 0
  open,          \* open descriptors
  tries,         \* addresses Connect has not tried yet
  \* the connection: the peer's side and what is under way
  inbox,         \* what the peer has got of the request
  reply,         \* what it answers
  written,       \* units of it handed to the network
  taken,         \* units of it handed to the client
  peer,          \* "open", "closed" or "reset"
  \* Client::Do
  pc, request, sent,
  buf,           \* recv_buf, up to total
  result,
  calls

socket == <<connected, open, tries>>
conn   == <<inbox, reply, written, taken, peer>>
client == <<pc, request, sent, buf, result>>
vars   == <<socket, conn, client, calls>>

-----------------------------------------------------------------------------
(* The wire format and ParseResponse                                       *)

Unit(line, n) == [line |-> line, n |-> n]

Body(r) == [i \in 1..r.body |-> Unit("body", i)]
Wire(r) == <<Unit(r.status, 0)>> \o r.headers \o <<Unit("blank", 0)>> \o Body(r)

Failed(code) == [code |-> code, headers |-> <<>>, length |-> -1, body |-> <<>>]

IsHeader(u) == u.line # "junk"
IsLength(u) == u.line \in {"length", "badlength"}

\* The first blank line; positions after it are the body.
Boundary(raw) ==
  CHOOSE i \in 1..Len(raw) : raw[i].line = "blank" /\ \A j \in 1..(i - 1) : raw[j].line # "blank"

\* The first Content-Length header decides; its digits wrap around, and one
\* that is no number counts as none.
ContentLength(headers) ==
  LET lengths == SelectSeq(headers, IsLength)
  IN  IF lengths # <<>> /\ Head(lengths).line = "length" THEN Head(lengths).n % SizeMod ELSE -1

\* Mutant of ParseResponse: the body is whatever follows the blank line.
ParseResponseWholeBody(raw) ==
  IF \A i \in 1..Len(raw) : raw[i].line # "blank" THEN Failed("Incomplete")
  ELSE
  LET boundary == Boundary(raw)
      headers  == SelectSeq(SubSeq(raw, 2, boundary - 1), IsHeader)
  IN  IF raw[1].line # "status" THEN Failed("Malformed")
      ELSE IF Len(headers) > MaxHeaders THEN Failed("TooManyHeaders")
      ELSE [code |-> "Ok", headers |-> headers, length |-> ContentLength(headers),
            body |-> SubSeq(raw, boundary + 1, Len(raw))]

ParseResponse(raw) ==
  IF \A i \in 1..Len(raw) : raw[i].line # "blank" THEN Failed("Incomplete")
  ELSE
  LET boundary == Boundary(raw)
      headers  == SelectSeq(SubSeq(raw, 2, boundary - 1), IsHeader)
      length   == ContentLength(headers)
      got      == Len(raw) - boundary
      kept     == IF length \in 0..(got - 1) THEN length ELSE got
  IN  IF raw[1].line # "status" THEN Failed("Malformed")
      ELSE IF Len(headers) > MaxHeaders THEN Failed("TooManyHeaders")
      ELSE [code |-> "Ok", headers |-> headers, length |-> length,
            body |-> SubSeq(raw, boundary + 1, boundary + kept)]

-----------------------------------------------------------------------------

Init ==
  /\ connected = FALSE /\ open = 0 /\ tries = 0
  /\ inbox = <<>> /\ reply \in Replies /\ written = 0 /\ taken = 0 /\ peer = "closed"
  /\ pc = "idle" /\ request = 0 /\ sent = 0 /\ buf = <<>>
  /\ result = Failed("none")
  /\ calls = 0

(* PosixTcpSocket                                                          *)

\* Close whatever is open, then resolve the host.
Connect ==
  /\ pc = "idle" /\ calls < MaxCalls
  /\ calls' = calls + 1
  /\ connected' = FALSE
  /\ open' = IF connected THEN open - 1 ELSE open
  /\ \/ /\ "resolve" \in Faults
        /\ result' = Failed("ResolveFailed")
        /\ UNCHANGED <<tries, pc>>
     \/ /\ result' = Failed("none")
        /\ \E n \in 1..MaxAddrs : tries' = n
        /\ pc' = "connect"
  /\ UNCHANGED <<conn, request, sent, buf>>

\* The next address: a socket that cannot be had, or cannot connect, is none.
ConnectFails ==
  /\ pc = "connect" /\ "refuse" \in Faults
  /\ tries' = tries - 1
  /\ IF tries = 1 THEN pc' = "idle" /\ result' = Failed("ConnectFailed")
                  ELSE UNCHANGED <<pc, result>>
  /\ UNCHANGED <<connected, open, conn, request, sent, buf, calls>>

ConnectTo(r) ==
  /\ pc = "connect"
  /\ open' = open + 1 /\ connected' = TRUE /\ tries' = 0
  /\ inbox' = <<>> /\ reply' = r /\ written' = 0 /\ taken' = 0 /\ peer' = "open"
  /\ pc' = "ready" /\ request' = 0 /\ sent' = 0 /\ buf' = <<>>
  /\ UNCHANGED <<result, calls>>

Close ==
  /\ pc = "idle" /\ connected
  /\ connected' = FALSE /\ open' = open - 1
  /\ UNCHANGED <<tries, conn, client, calls>>

-----------------------------------------------------------------------------
(* Client::Do                                                              *)

Returns(r) == pc' = "idle" /\ result' = r

\* Does the serialised request fit into the buffer?  Nothing of it is used
\* when it does not.
BuildRequest(len) == len <= ReqBuf

\* Serialise the request, or find that reqbuf cannot hold it.  The socket may
\* be one that is not connected.
Do(len) ==
  /\ pc = "ready" \/ (pc = "idle" /\ ~connected)
  /\ request' = len /\ sent' = 0 /\ buf' = <<>>
  /\ IF BuildRequest(len) THEN pc' = "send" /\ UNCHANGED result ELSE Returns(Failed("BufferTooSmall"))
  /\ UNCHANGED <<socket, conn, calls>>

\* Mutant of SendSome: every piece starts at the beginning of the span.
SendSomeFromStart(n) ==
  /\ pc = "send" /\ connected /\ peer # "reset"
  /\ n \in 1..(request - sent)
  /\ sent' = sent + n
  /\ inbox' = IF peer = "open" THEN inbox \o [i \in 1..n |-> i] ELSE inbox
  /\ pc' = IF sent' = request THEN "recv" ELSE pc
  /\ UNCHANGED <<socket, reply, written, taken, peer, request, buf, result, calls>>

\* The kernel takes n more units; a peer that has closed never sees them.
SendSome(n) ==
  /\ pc = "send" /\ connected /\ peer # "reset"
  /\ n \in 1..(request - sent)
  /\ sent' = sent + n
  /\ inbox' = IF peer = "open" THEN inbox \o [i \in 1..n |-> sent + i] ELSE inbox
  /\ pc' = IF sent' = request THEN "recv" ELSE pc
  /\ UNCHANGED <<socket, reply, written, taken, peer, request, buf, result, calls>>

SendFails ==
  /\ pc = "send" /\ (~connected \/ peer # "open" \/ "send" \in Faults)
  /\ Returns(Failed("SendFailed"))
  /\ UNCHANGED <<socket, conn, request, sent, buf, calls>>

\* Mutant of RecvSome: the whole size is asked for, wherever total stands.
RecvSomeWholeSize(n) ==
  /\ pc = "recv" /\ Len(buf) < RecvSize /\ peer # "reset"
  /\ n \in 1..RecvSize /\ taken + n <= written
  /\ taken' = taken + n
  /\ buf' = buf \o SubSeq(Wire(reply), taken + 1, taken + n)
  /\ UNCHANGED <<socket, inbox, reply, written, peer, pc, request, sent, result, calls>>

RecvSome(n) ==
  /\ pc = "recv" /\ peer # "reset"
  /\ n \in 1..(RecvSize - Len(buf)) /\ taken + n <= written
  /\ taken' = taken + n
  /\ buf' = buf \o SubSeq(Wire(reply), taken + 1, taken + n)
  /\ UNCHANGED <<socket, inbox, reply, written, peer, pc, request, sent, result, calls>>

RecvFails ==
  /\ pc = "recv" /\ Len(buf) < RecvSize /\ peer = "reset"
  /\ Returns(Failed("RecvFailed"))
  /\ UNCHANGED <<socket, conn, request, sent, buf, calls>>

\* Mutant of DoEnd: a read of 0 does not end the reading.
DoEndOnlyFull ==
  /\ pc = "recv" /\ Len(buf) = RecvSize
  /\ Returns(ParseResponse(buf))
  /\ UNCHANGED <<socket, conn, request, sent, buf, calls>>

\* Mutant of DoEnd: a read with nothing there yet is taken for the end.
DoEndEarly ==
  /\ pc = "recv"
  /\ Len(buf) = RecvSize \/ (peer # "reset" /\ taken = written /\ written > 0)
  /\ Returns(ParseResponse(buf))
  /\ UNCHANGED <<socket, conn, request, sent, buf, calls>>

\* The buffer is full, or a read of 0: parse what is there.
DoEnd ==
  /\ pc = "recv"
  /\ Len(buf) = RecvSize \/ (peer = "closed" /\ taken = written)
  /\ Returns(ParseResponse(buf))
  /\ UNCHANGED <<socket, conn, request, sent, buf, calls>>

-----------------------------------------------------------------------------
(* The peer: it answers a whole request, and then closes.                  *)

GotRequest == inbox = [i \in 1..request |-> i] /\ request > 0

PeerWrites ==
  /\ connected /\ peer = "open" /\ GotRequest
  /\ \E n \in (written + 1)..Len(Wire(reply)) : written' = n
  /\ UNCHANGED <<socket, inbox, reply, taken, peer, client, calls>>

PeerCloses ==
  /\ connected /\ peer = "open"
  /\ written = Len(Wire(reply)) \/ "cut" \in Faults
  /\ peer' = "closed"
  /\ UNCHANGED <<socket, inbox, reply, written, taken, client, calls>>

PeerResets ==
  /\ connected /\ peer # "reset" /\ "reset" \in Faults
  /\ peer' = "reset"
  /\ UNCHANGED <<socket, inbox, reply, written, taken, client, calls>>

-----------------------------------------------------------------------------

ClientStep ==
  \/ \E n \in 1..ReqBuf : SendSome(n)
  \/ SendFails
  \/ \E n \in 1..RecvSize : RecvSome(n)
  \/ RecvFails
  \/ DoEnd

PeerStep == PeerWrites \/ PeerCloses \/ PeerResets

Next ==
  \/ Connect \/ ConnectFails \/ Close
  \/ \E r \in Replies : ConnectTo(r)
  \/ \E len \in RequestLens : Do(len)
  \/ ClientStep
  \/ PeerStep

Spec == Init /\ [][Next]_vars

\* The client runs; the server, asked with "Connection: close", answers a
\* whole request and closes.
FairSpec == Spec /\ WF_vars(ClientStep) /\ WF_vars(PeerWrites) /\ WF_vars(PeerCloses)

-----------------------------------------------------------------------------
(* Properties                                                              *)

\* Type correctness; recv_buf is never overrun.
TypeOK ==
  /\ connected \in BOOLEAN /\ open \in Nat /\ tries \in 0..MaxAddrs
  /\ inbox \in Seq(Nat) /\ reply \in Replies
  /\ written \in 0..Len(Wire(reply)) /\ taken \in 0..written
  /\ peer \in {"open", "closed", "reset"}
  /\ pc \in {"idle", "connect", "ready", "send", "recv"}
  /\ request \in Nat /\ sent \in 0..request
  /\ Len(buf) <= RecvSize
  /\ calls \in 0..MaxCalls

\* However sends and reads are cut into pieces, the peer has a prefix of the
\* request and recv_buf a prefix of the reply: nothing is lost, repeated or
\* out of place, also after a reconnect on the same socket object.
StreamIntact ==
  connected =>
  /\ Len(inbox) <= sent /\ \A i \in 1..Len(inbox) : inbox[i] = i
  /\ buf = SubSeq(Wire(reply), 1, taken)

\* The process holds one descriptor while the socket is connected and none
\* otherwise, across refused addresses and reconnects without a Close.
OneDescriptor == open = IF connected THEN 1 ELSE 0

Declared == ContentLength(SelectSeq(reply.headers, IsHeader))
Cut      == peer # "open" /\ written < Len(Wire(reply))
Full     == Len(buf) = RecvSize

\* A response that Do returns is the server's: its headers, its declared
\* length, a prefix of its body no longer than declared; and the body is short
\* of that only if the connection was cut or the buffer was full.
ResponseIsRight ==
  (pc = "idle" /\ connected /\ result.code = "Ok") =>
     LET wanted == IF Declared \in 0..(reply.body - 1) THEN Declared ELSE reply.body
     IN  /\ reply.status = "status"
         /\ result.headers = SelectSeq(reply.headers, IsHeader)
         /\ result.length = Declared
         /\ Len(result.body) <= wanted
         /\ \A i \in 1..Len(result.body) : result.body[i] = Unit("body", i)
         /\ Len(result.body) < wanted => Cut \/ Full

\* Do refuses a reply for the reason it gives and no other: too many headers,
\* a bad status line, or headers that the cut or the full buffer ended.
RefusalIsRight ==
  (pc = "idle" /\ connected) =>
     /\ result.code = "TooManyHeaders" =>
          Len(SelectSeq(reply.headers, IsHeader)) > MaxHeaders
     /\ result.code = "Malformed" => reply.status = "badstatus"
     /\ result.code = "Incomplete" =>
          taken < Len(reply.headers) + 2 /\ (Cut \/ Full)

\* Do returns: the pieces add up, and the peer's close or the buffer ends the
\* reading.
DoReturns == (pc \in {"send", "recv"}) ~> (pc = "idle")

=============================================================================
