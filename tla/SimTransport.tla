---------------------------- MODULE SimTransport ----------------------------
(***************************************************************************)
(* The two TCP transports to a simulated secure element, one per build:    *)
(* "socket", the session of ports/se05x/smComSocket.c over the framed      *)
(* calls of smComSocket_fd.c, and "sim", ports/se05x/i2c_sim.c, the bus of *)
(* the T=1 stack.                                                          *)
(*                                                                         *)
(* A byte of the simulator's answers is named by the command it answers,   *)
(* its place in the frame and the length of the payload, which is what the *)
(* header says; recv hands out any non-empty piece of what has arrived.    *)
(* The rest of the process opens and closes descriptors of its own.        *)
(***************************************************************************)
EXTENDS Integers, Sequences, FiniteSets

CONSTANTS
  Fds,           \* descriptor numbers
  HeaderLen,     \* REMOTE_JC_SHELL_HEADER_LEN, and the header of a T=1 block
  MaxBuf,        \* MAX_BUF_SIZE, size of response[]
  RxLen,         \* room the caller has for an answer or for the ATR
  Payloads,      \* payload lengths of answers
  Builds,        \* which transport is linked in
  OkIsZero,      \* is SMCOM_OK, of a header outside the repository, 0
  MaxCalls       \* bound: commands sent

ASSUME SimAssumption ==
  /\ Fds \subseteq Nat \ {0} /\ IsFiniteSet(Fds)
  /\ HeaderLen \in Nat \ {0} /\ MaxBuf \in Nat /\ HeaderLen < MaxBuf
  /\ RxLen \in Nat /\ Payloads \subseteq Nat /\ Payloads # {}
  /\ Builds \subseteq {"socket", "sim"} /\ OkIsZero \subseteq BOOLEAN
  /\ MaxCalls \in Nat

VARIABLES
  build, okIsZero,
  owner,         \* whose each descriptor is: "free", "session" or "other"
  ctx,           \* fd of the session's context, NoFd without a session
  \* the call in progress
  call,          \* which, "none" between calls
  fd,            \* its descriptor
  buf,           \* what it has received: totalReceived is the length
  expected,      \* expectedLength
  errno,         \* "clear", "EINTR" or "other"; a call that succeeds leaves it alone
  last,          \* what the last call returned
  \* the connection
  wire,          \* "open", "ended" when the simulator has closed it, or "reset"
  stream,        \* bytes under way to the client
  asked,         \* commands the simulator has in full and has not answered
  torn,          \* it has a part of one more
  issued,        \* commands sent so far
  at,            \* "sim": place in the answer where the T=1 stack reads on
  \* history
  sound,         \* both ends are still in step with the frames
  answering,     \* "sim": the command whose answer the stack read last
  leaked         \* descriptors a CloseFD has given up on

session == <<build, okIsZero, ctx>>
local   == <<call, fd, buf, expected>>
peer    == <<wire, stream, asked, torn>>
notes   == <<sound, answering, leaked>>
vars    == <<session, owner, local, errno, last, peer, issued, at, notes>>

NoFd    == 0
Framed  == {"atr", "apdu", "raw", "close", "lock", "unlock"}

\* An answer to command c with n bytes of payload, and a piece of it.
Answer(c, n)  == [i \in 1..(HeaderLen + n) |-> [cmd |-> c, place |-> i, len |-> n]]
Slice(s, i, n) == SubSeq(s, i, i + n - 1)

Init ==
  /\ build \in Builds /\ okIsZero \in OkIsZero
  /\ owner = [f \in Fds |-> "free"] /\ ctx = NoFd
  /\ call = "none" /\ fd = NoFd /\ buf = <<>> /\ expected = 0
  /\ errno = "clear" /\ last = [call |-> "none", ok |-> FALSE, bytes |-> <<>>]
  /\ wire = "ended" /\ stream = <<>> /\ asked = <<>> /\ torn = FALSE /\ issued = 0 /\ at = 1
  /\ sound = TRUE /\ answering = 0 /\ leaked = 0

-----------------------------------------------------------------------------
(* Descriptors                                                             *)

\* socket(), open(): the lowest free number.
Lowest(f) == owner[f] = "free" /\ \A g \in Fds : owner[g] = "free" => f <= g

\* close(f), whoever has that number by now.
CloseFd(f) == owner' = [owner EXCEPT ![f] = "free"]

OtherOpens ==
  /\ \E f \in Fds : Lowest(f) /\ owner' = [owner EXCEPT ![f] = "other"]
  /\ UNCHANGED <<session, local, errno, last, peer, issued, at, notes>>

OtherCloses ==
  /\ \E f \in Fds : owner[f] = "other" /\ owner' = [owner EXCEPT ![f] = "free"]
  /\ UNCHANGED <<session, local, errno, last, peer, issued, at, notes>>

-----------------------------------------------------------------------------
(* send()                                                                  *)

\* The simulator gets a command, of which kind says how it is answered, or
\* the beginning of one.
Whole(c) == asked' = Append(asked, [cmd |-> issued + 1, of |-> c]) /\ UNCHANGED torn
Part     == torn' = TRUE /\ UNCHANGED asked

\* One send(), whose result is only tested for an error: the command reaches
\* the simulator, or a part of it does, or it has closed and nobody reads it.
\* On a foreign descriptor it goes astray.  Behind a part of an earlier
\* command the simulator takes it for the rest of that.
Sent(c, f) ==
  \/ /\ owner[f] = "session" /\ wire = "open"
     /\ Whole(c) \/ Part
     /\ sound' = (sound /\ ~torn)
  \/ /\ owner[f] = "other" \/ (owner[f] = "session" /\ wire = "ended")
     /\ UNCHANGED <<asked, torn, sound>>

\* send() fails, or is interrupted before it has taken anything.
SendFails(f) ==
  /\ \/ errno' = "other" /\ (owner[f] # "session" \/ wire # "open")
     \/ errno' = "EINTR" /\ owner[f] = "session" /\ wire = "open"
  /\ UNCHANGED <<asked, torn, sound>>

\* The call's frame is on its way and its receive loop begins.
Begin(c, f) ==
  /\ call' = c /\ fd' = f /\ buf' = <<>> /\ expected' = HeaderLen
  /\ issued < MaxCalls /\ issued' = issued + 1

Return(c, ok, bytes) ==
  /\ last' = [call |-> c, ok |-> ok, bytes |-> bytes]
  /\ call' = "none" /\ buf' = <<>>

-----------------------------------------------------------------------------
(* smComSocket_Open and axI2CInit up to the connection                     *)

\* No address (getaddrinfo), no memory (calloc) or no descriptor (socket).
OpenFails ==
  /\ ctx = NoFd /\ call = "none"
  /\ errno' = "other"
  /\ Return("open", FALSE, <<>>)
  /\ UNCHANGED <<session, owner, fd, expected, peer, issued, at, notes>>

OpenSocket ==
  /\ ctx = NoFd /\ call = "none"
  /\ \E f \in Fds : Lowest(f) /\ owner' = [owner EXCEPT ![f] = "session"] /\ fd' = f
  /\ call' = "connect"
  /\ UNCHANGED <<session, buf, expected, errno, last, peer, issued, at, notes>>

\* Mutant of ConnectFails: the error path forgets its close().
ConnectFailsOpen ==
  /\ call = "connect"
  /\ errno' = "other"
  /\ Return("open", FALSE, <<>>)
  /\ UNCHANGED <<session, owner, fd, expected, peer, issued, at, notes>>

\* connect() fails, or inet_pton has refused the address behind socket().
ConnectFails ==
  /\ call = "connect"
  /\ CloseFd(fd) /\ errno' = "other"
  /\ Return("open", FALSE, <<>>)
  /\ UNCHANGED <<session, fd, expected, peer, issued, at, notes>>

Connected == wire' = "open" /\ stream' = <<>> /\ at' = 1 /\ sound' = TRUE

-----------------------------------------------------------------------------
(* "socket": smComSocket_Open, Transceive, TransceiveRaw, Close; the lock  *)
(* calls of smComSocket_fd.c, which no caller reaches, work the same way.  *)

\* Open goes on with the command for the ATR; if that cannot be sent GetATRFD
\* returns -1 and Open closes the descriptor.
GetATR ==
  /\ build = "socket" /\ call = "connect" /\ Connected
  /\ \/ /\ Begin("atr", fd)
        /\ \/ asked' = <<[cmd |-> issued + 1, of |-> "atr"]>> /\ torn' = FALSE
           \/ asked' = <<>> /\ torn' = TRUE
        /\ UNCHANGED <<owner, errno, last>>
     \/ /\ CloseFd(fd) /\ errno' \in {"EINTR", "other"}
        /\ Return("open", FALSE, <<>>)
        /\ asked' = <<>> /\ torn' = FALSE
        /\ UNCHANGED <<fd, expected, issued>>
  /\ UNCHANGED <<session, answering, leaked>>

\* Transceive, TransceiveRaw, Lock and Unlock on the context's descriptor.
\* The first two refuse a missing buffer and a command too long for theirs.
Transceive(c) ==
  /\ build = "socket" /\ ctx # NoFd /\ call = "none"
  /\ \/ Sent(c, ctx) /\ Begin(c, ctx) /\ UNCHANGED <<errno, last>>
     \/ /\ \/ SendFails(ctx)
           \/ c \in {"apdu", "raw"} /\ UNCHANGED <<errno, asked, torn, sound>>
        /\ Return(c, FALSE, <<>>)
        /\ UNCHANGED <<fd, expected, issued>>
  /\ UNCHANGED <<session, owner, wire, stream, at, answering, leaked>>

\* Close frees the context whatever CloseFD does; CloseFD leaves the
\* descriptor open if its command cannot be sent.
Close ==
  /\ build = "socket" /\ ctx # NoFd /\ call = "none"
  /\ ctx' = NoFd
  /\ \/ Sent("close", ctx) /\ Begin("close", ctx) /\ UNCHANGED <<errno, last, leaked>>
     \/ /\ SendFails(ctx)
        /\ leaked' = IF owner[ctx] = "session" THEN leaked + 1 ELSE leaked
        /\ Return("close", TRUE, <<>>)
        /\ UNCHANGED <<fd, expected, issued>>
  /\ UNCHANGED <<build, okIsZero, owner, wire, stream, at, answering>>

-----------------------------------------------------------------------------
(* The receive loops                                                       *)

Receiving == call \in Framed \cup {"exact"} /\ Len(buf) < expected

\* Mutant of Room: what has been received is not subtracted.
RoomOfBuffer ==
  CASE call = "atr"             -> expected
    [] call \in {"apdu", "raw"} -> MaxBuf
    [] OTHER                    -> expected

\* How much the next recv asks for.
Room ==
  CASE call = "atr"             -> expected
    [] call \in {"apdu", "raw"} -> MaxBuf - Len(buf)
    [] OTHER                    -> expected - Len(buf)

\* GetATRFD and CloseFD look whether that fits; the others rely on recv.
Fits == call \in {"atr", "close"} => Room <= MaxBuf - Len(buf)

\* The header, once it is complete, says how much follows; Lock and Unlock do
\* not look at it.
Sized(got) ==
  IF call \in {"atr", "apdu", "raw", "close"} /\ Len(got) >= HeaderLen /\ Len(buf) < HeaderLen
    THEN expected + got[HeaderLen].len
    ELSE expected

\* recv returns some of what is there.
RecvBytes ==
  /\ Receiving /\ Fits /\ owner[fd] = "session"
  /\ \E n \in 1..Room :
       /\ n <= Len(stream)
       /\ buf' = buf \o Slice(stream, 1, n)
       /\ stream' = Slice(stream, n + 1, Len(stream) - n)
  /\ expected' = Sized(buf')
  /\ UNCHANGED <<session, owner, call, fd, errno, last, wire, asked, torn, issued, at, notes>>

\* The call's number is somebody else's by now: what comes is theirs.
RecvForeign ==
  /\ Receiving /\ Fits /\ owner[fd] = "other"
  /\ buf' = Answer(0, 0) /\ expected' = HeaderLen
  /\ sound' = FALSE
  /\ UNCHANGED <<session, owner, call, fd, errno, last, peer, issued, at, answering, leaked>>

\* recv returns 0 at the end of the stream and when asked for nothing, which
\* says nothing in errno, or is interrupted or fails.
RecvNothing(e) ==
  \/ /\ owner[fd] = "session"
     /\ \/ e = errno   /\ (Room = 0 \/ (wire = "ended" /\ stream = <<>>))
        \/ e = "EINTR" /\ wire = "open" /\ stream = <<>>
        \/ e = "other" /\ wire = "reset"
  \/ e = "other" /\ owner[fd] # "session"

\* Mutant of Failed: what is not an error is tried again.
FailedOnErrorOnly(e) == e = "other"

\* The framed calls try again when errno says EINTR, whoever put it there;
\* read_exact never does.
Failed(e) == e # "EINTR" \/ call = "exact"

RecvAgain ==
  /\ Receiving /\ Fits
  /\ \E e \in {"clear", "EINTR", "other"} : RecvNothing(e) /\ ~Failed(e) /\ errno' = e
  /\ UNCHANGED <<session, owner, local, last, peer, issued, at, notes>>

\* A framed call closes the descriptor and returns; the context keeps its
\* number.
GiveUp ==
  /\ call' = IF call = "atr" THEN "opened" ELSE "none"
  /\ last' = [call |-> call, ok |-> FALSE, bytes |-> <<>>]
  /\ buf' = <<>>
  /\ CloseFd(fd)

RecvFails ==
  /\ Receiving /\ Fits
  /\ \E e \in {"clear", "EINTR", "other"} : RecvNothing(e) /\ Failed(e) /\ errno' = e
  /\ IF call = "exact"
       THEN /\ Return("exact", FALSE, <<>>)
            /\ sound' = (sound /\ buf = <<>>)
            /\ UNCHANGED owner
       ELSE GiveUp /\ UNCHANGED sound
  /\ UNCHANGED <<session, fd, expected, peer, issued, at, answering, leaked>>

\* An answer longer than the buffer: GetATRFD leaves the rest of it in the
\* stream and reports an ATR of no bytes, CloseFD gives up.
TooLong ==
  /\ Receiving /\ ~Fits
  /\ \/ /\ call = "atr" /\ call' = "opened"
        /\ last' = [call |-> "atr", ok |-> TRUE, bytes |-> <<>>]
        /\ buf' = <<>> /\ sound' = FALSE
        /\ UNCHANGED owner
     \/ call = "close" /\ GiveUp /\ UNCHANGED sound
  /\ UNCHANGED <<session, fd, expected, errno, peer, issued, at, answering, leaked>>

-----------------------------------------------------------------------------
(* The end of a call                                                       *)

\* Mutant of Received: the header is taken for the whole answer.
ReceivedHeader == call \in Framed \cup {"exact"} /\ Len(buf) >= HeaderLen

Received == call \in Framed \cup {"exact"} /\ Len(buf) >= expected

Payload == Slice(buf, HeaderLen + 1, Len(buf) - HeaderLen)

\* The answer, if the caller has room for it.
TransceiveDone ==
  /\ Received /\ call \in {"apdu", "raw"}
  /\ IF Len(Payload) <= RxLen THEN Return(call, TRUE, Payload) ELSE Return(call, FALSE, <<>>)
  /\ UNCHANGED <<session, owner, fd, expected, errno, peer, issued, at, notes>>

LockDone ==
  /\ Received /\ call \in {"lock", "unlock"}
  /\ Return(call, TRUE, <<>>)
  /\ UNCHANGED <<session, owner, fd, expected, errno, peer, issued, at, notes>>

CloseDone ==
  /\ Received /\ call = "close"
  /\ Return("close", TRUE, <<>>)
  /\ CloseFd(fd)
  /\ UNCHANGED <<session, fd, expected, errno, peer, issued, at, notes>>

AtrDone ==
  /\ Received /\ call = "atr"
  /\ call' = "opened" /\ buf' = <<>>
  /\ last' = [call |-> "atr", ok |-> TRUE,
              bytes |-> IF Len(Payload) <= RxLen THEN Payload ELSE <<>>]
  /\ UNCHANGED <<session, owner, fd, expected, errno, peer, issued, at, notes>>

\* Open compares what GetATRFD returned, 0 however the receiving ended, with
\* SMCOM_OK; without it, or without memory for the context, it closes.
OpenDone ==
  /\ call = "opened"
  /\ call' = "none"
  /\ \/ okIsZero /\ ctx' = fd /\ UNCHANGED owner
     \/ CloseFd(fd) /\ UNCHANGED ctx
  /\ UNCHANGED <<build, okIsZero, fd, buf, expected, errno, last, peer, issued, at, notes>>

-----------------------------------------------------------------------------
(* "sim": axI2CInit, axI2CWrite, axI2CRead and axI2CTerm, as the T=1 stack *)
(* calls them: blocks are written, also while answers are outstanding, an  *)
(* answer's header and payload are read, and what failed is tried again.   *)

AxI2CInit ==
  /\ build = "sim" /\ call = "connect" /\ Connected
  /\ ctx' = fd /\ asked' = <<>> /\ torn' = FALSE
  /\ Return("open", TRUE, <<>>)
  /\ UNCHANGED <<build, okIsZero, owner, fd, expected, errno, issued, answering, leaked>>

\* axI2CTerm cannot clear the pointer it gets; that the stack does not use it
\* again is an assumption on the stack.
AxI2CTerm ==
  /\ build = "sim" /\ ctx # NoFd /\ call = "none"
  /\ CloseFd(ctx) /\ ctx' = NoFd
  /\ UNCHANGED <<build, okIsZero, local, errno, last, peer, issued, at, notes>>

\* write_all goes on until everything is written, an error or an interruption.
\* The stack reads on with a header; the payload of an answer it has begun
\* stays in the stream.
AxI2CWrite ==
  /\ build = "sim" /\ ctx # NoFd /\ call = "none"
  /\ issued < MaxCalls /\ issued' = issued + 1
  /\ \E ok \in BOOLEAN :
       /\ last' = [call |-> "write", ok |-> ok, bytes |-> <<>>]
       /\ \/ ok /\ wire = "open" /\ Whole("block") /\ UNCHANGED errno
          \/ ok /\ wire = "ended" /\ UNCHANGED <<asked, torn, errno>>
          \/ ~ok /\ wire = "open" /\ (Part \/ UNCHANGED <<asked, torn>>) /\ errno' = "EINTR"
          \/ ~ok /\ wire # "open" /\ UNCHANGED <<asked, torn>> /\ errno' = "other"
  /\ at' = 1 /\ sound' = (sound /\ ~torn /\ at = 1)
  /\ UNCHANGED <<session, owner, local, wire, stream, answering, leaked>>

\* How many bytes the T=1 stack reads next.
Wanted == IF at = 1 THEN HeaderLen ELSE expected

\* poll() times out or fails, or the scan below meets the end of the stream.
AxI2CReadNothing ==
  /\ build = "sim" /\ ctx # NoFd /\ call = "none" /\ issued > 0
  /\ \/ stream = <<>> /\ wire # "reset" /\ UNCHANGED errno
     \/ errno' = "EINTR"
     \/ wire = "reset" /\ errno' = "other"
  /\ last' = [call |-> "exact", ok |-> FALSE, bytes |-> <<>>]
  /\ UNCHANGED <<session, owner, local, peer, issued, at, notes>>

\* Something can be read: read_exact takes over.
AxI2CRead ==
  /\ build = "sim" /\ ctx # NoFd /\ call = "none" /\ issued > 0
  /\ stream # <<>> \/ wire # "open"
  /\ call' = "exact" /\ fd' = ctx /\ buf' = <<>> /\ expected' = Wanted
  /\ UNCHANGED <<session, owner, errno, last, peer, issued, at, notes>>

\* A read of 260 bytes or more takes what is there, a part of the answer too.
AxI2CScan ==
  /\ build = "sim" /\ ctx # NoFd /\ call = "none" /\ at = 1
  /\ \E n \in 1..Len(stream) :
       /\ last' = [call |-> "scan", ok |-> TRUE, bytes |-> Slice(stream, 1, n)]
       /\ stream' = Slice(stream, n + 1, Len(stream) - n)
       /\ sound' = (sound /\ n = Len(stream))
  /\ UNCHANGED <<session, owner, local, errno, wire, asked, torn, issued, at, answering, leaked>>

\* read_exact has everything; the stack reads on behind it or is through.
ReadDone ==
  /\ Received /\ call = "exact"
  /\ Return("exact", TRUE, buf)
  /\ IF at = 1 /\ buf[HeaderLen].len > 0
       THEN at' = HeaderLen + 1 /\ expected' = buf[HeaderLen].len
       ELSE at' = 1 /\ UNCHANGED expected
  /\ answering' = IF at = 1 THEN buf[HeaderLen].cmd ELSE answering
  /\ UNCHANGED <<session, owner, fd, errno, peer, issued, sound, leaked>>

-----------------------------------------------------------------------------
(* The simulator                                                           *)

\* A frame; the answer to a lock is a header whose length is its status.
Reply(q, n) == IF q.of \in {"lock", "unlock"}
                 THEN Slice(Answer(q.cmd, n), 1, HeaderLen)
                 ELSE Answer(q.cmd, n)

\* It answers what it has in full, one command after the other.
Replies ==
  /\ wire = "open" /\ asked # <<>>
  /\ \E n \in Payloads : stream' = stream \o Reply(Head(asked), n)
  /\ asked' = Tail(asked)
  /\ UNCHANGED <<session, owner, local, errno, last, wire, torn, issued, at, notes>>

\* It goes away; what it has sent still arrives unless the connection breaks.
Ends ==
  /\ wire = "open"
  /\ \/ wire' = "ended" /\ UNCHANGED stream
     \/ wire' = "reset" /\ stream' = <<>>
  /\ UNCHANGED <<session, owner, local, errno, last, asked, torn, issued, at, notes>>

-----------------------------------------------------------------------------

CallStep ==
  \/ ConnectFails \/ GetATR \/ AxI2CInit
  \/ RecvBytes \/ RecvForeign \/ RecvFails \/ TooLong
  \/ TransceiveDone \/ LockDone \/ CloseDone \/ AtrDone \/ OpenDone \/ ReadDone

Next ==
  \/ OpenFails \/ OpenSocket \/ Close \/ (\E c \in {"apdu", "raw", "lock", "unlock"} : Transceive(c))
  \/ AxI2CTerm \/ AxI2CWrite \/ AxI2CReadNothing \/ AxI2CRead \/ AxI2CScan
  \/ CallStep \/ RecvAgain
  \/ Replies \/ Ends
  \/ OtherOpens \/ OtherCloses

Spec == Init /\ [][Next]_vars

\* The calling thread is scheduled and the simulator answers what it has got
\* in full.
FairSpec == Spec /\ WF_vars(CallStep) /\ WF_vars(Replies)

-----------------------------------------------------------------------------
(* Properties                                                              *)

Results == Framed \cup {"none", "open", "write", "exact", "scan"}
Byte == [cmd : 0..MaxCalls, place : Nat \ {0}, len : Nat]
Command == [cmd : 0..MaxCalls, of : Framed \cup {"block"}]

\* Type correctness: no call receives more than response[] holds.
TypeOK ==
  /\ build \in Builds /\ okIsZero \in OkIsZero
  /\ owner \in [Fds -> {"free", "session", "other"}]
  /\ ctx \in Fds \cup {NoFd} /\ fd \in Fds \cup {NoFd}
  /\ call \in Framed \cup {"none", "connect", "exact", "opened"}
  /\ buf \in Seq(Byte) /\ (call \in Framed => Len(buf) <= MaxBuf)
  /\ expected \in Nat /\ errno \in {"clear", "EINTR", "other"}
  /\ last \in [call : Results, ok : BOOLEAN, bytes : Seq(Byte)]
  /\ wire \in {"open", "ended", "reset"} /\ stream \in Seq(Byte)
  /\ asked \in Seq(Command) /\ torn \in BOOLEAN /\ issued \in 0..MaxCalls
  /\ at \in {1, HeaderLen + 1}
  /\ sound \in BOOLEAN /\ answering \in 0..MaxCalls /\ leaked \in Nat

\* However recv cuts up the stream, and whatever failed before, a transceive
\* that returns Ok hands out the whole payload of the answer to its own
\* command.  The bus does not tie an answer to a block, and a read after a
\* poll() that timed out may get the late answer to an earlier one; but what
\* it hands out is the header of one answer and then the whole payload of the
\* same, however many are queued behind it.  Once the two ends are out of step
\* (an ATR too long for the buffer, a bus read, a scan or a write that took a
\* part) nothing in the code puts them back.
ResponseIsOwn ==
  (call = "none" /\ last.ok /\ sound) =>
    /\ last.call \in {"apdu", "raw"} =>
         \E n \in Payloads : last.bytes = Slice(Answer(issued, n), HeaderLen + 1, n)
    /\ last.call = "exact" =>
         \E n \in Payloads :
           \/ last.bytes = Slice(Answer(answering, n), 1, HeaderLen)
           \/ at = 1 /\ last.bytes = Slice(Answer(answering, n), HeaderLen + 1, n)

\* A session has one descriptor and gives it back, on the error paths of Open
\* and axI2CInit and in every receive that fails: the only ones left behind
\* are those of a CloseFD that could not send its command.
NoLeak ==
  Cardinality({f \in Fds : owner[f] = "session"})
    <= leaked + (IF ctx # NoFd \/ call # "none" THEN 1 ELSE 0)

\* recv returns 0 for ever, and the EINTR of an earlier call is still in errno.
Spins ==
  /\ Receiving /\ errno = "EINTR"
  /\ Room = 0 \/ (wire = "ended" /\ stream = <<>>)

\* A call in progress returns, by the answer, the end of the stream or an
\* error, unless a stale EINTR makes the end of the stream look like an
\* interruption, or the simulator waits for the rest of a command that one
\* send() did not take, or the two ends are out of step.
CallReturns ==
  (call # "none") ~> (call = "none" \/ Spins \/ (torn /\ wire = "open") \/ ~sound)

\* The receive loops "Retry on EINTR error" (comments in smComSocket_fd.c):
\* a simulator that has closed is not one, and the call returns.  The code does
\* not keep this when an EINTR of an earlier call is left in errno.
EndIsSeen == (call # "none" /\ wire = "ended") ~> (call = "none")

\* "The session connection context owns the TCP file descriptor" (comment in
\* smComSocket.c), whatever the rest of the process opens and closes.  The code
\* does not keep this once a receive has failed.
ContextOwnsFd == ctx # NoFd => owner[ctx] = "session"

-----------------------------------------------------------------------------
(* The inductive invariant behind the theorems of SimTransportProofs.      *)

\* The descriptor the session works on, in a call and between two.
Working == IF call = "none" THEN ctx ELSE fd

\* Which calls a build makes, and on what.
Shape ==
  /\ call \in {"none", "connect", "opened"} => buf = <<>>
  /\ call # "none" => fd \in Fds
  /\ call \in {"apdu", "raw", "lock", "unlock", "exact"} => fd = ctx
  /\ call \in {"connect", "atr", "close", "opened"} => ctx = NoFd
  /\ call = "connect" => owner[fd] = "session"
  /\ call = "opened" => last.call = "atr"
  /\ call = "exact" => build = "sim" /\ Len(buf) <= expected
  /\ call \in Framed \cup {"opened"} => build = "socket"
  /\ build = "sim" /\ ctx # NoFd => owner[ctx] = "session"
  /\ at # 1 => build = "sim" /\ expected > 0
  /\ build = "sim" => \A i \in 1..Len(asked) : asked[i].of = "block"
  /\ call \in {"lock", "unlock"} => expected = HeaderLen
  /\ call = "exact" /\ at = 1 => expected = HeaderLen
  /\ call \in Framed => expected >= HeaderLen
  /\ call \in Framed /\ sound /\ owner[fd] # "session" => buf = <<>> /\ expected = HeaderLen

\* s is a piece of the answer to command c, from a place on.
Piece(s, c, from, n) ==
  \A i \in 1..Len(s) : s[i] = [cmd |-> c, place |-> from + i - 1, len |-> n]

\* The last place of an answer.
LastPlace(n) == IF call \in {"lock", "unlock"} THEN HeaderLen ELSE HeaderLen + n

\* "socket": what a call has received and what is under way make up one
\* answer, of which the call knows the length as soon as it has the header;
\* between two calls nothing is under way.
Framing ==
  (build = "socket" /\ sound /\ call # "connect" /\ Working # NoFd /\ owner[Working] = "session") =>
    \E n \in Payloads :
      /\ Piece(buf, issued, 1, n) /\ Piece(stream, issued, 1 + Len(buf), n)
      /\ Len(buf) + Len(stream) <= LastPlace(n)
      /\ (asked # <<>> /\ wire = "open") =>
           buf = <<>> /\ stream = <<>> /\ asked = <<[cmd |-> issued, of |-> call]>>
      /\ call \in {"none", "opened"} => stream = <<>> /\ ~(asked # <<>> /\ wire = "open")
      /\ call \in Framed =>
           expected = IF Len(buf) < HeaderLen THEN HeaderLen ELSE LastPlace(n)

\* Bytes that follow each other in answers that follow each other, the first
\* and the last of which may be cut.
Frames(s) ==
  /\ \A i \in 1..Len(s) : s[i].len \in Payloads /\ s[i].place \in 1..(HeaderLen + s[i].len)
  /\ \A i, j \in 1..Len(s) :
       (i <= j /\ s[i].place + (j - i) <= HeaderLen + s[i].len) =>
         s[j] = [cmd |-> s[i].cmd, place |-> s[i].place + (j - i), len |-> s[i].len]
  /\ \A i \in 1..(Len(s) - 1) : s[i].place = HeaderLen + s[i].len => s[i + 1].place = 1

\* The last of them is not.
Complete(s) == \A i \in 1..Len(s) : i + (HeaderLen + s[i].len - s[i].place) <= Len(s)

\* What a read has received and what is under way.
Underway == buf \o stream

\* "sim": those are answers without a gap, from the place on where the stack
\* reads.
Flow ==
  (build = "sim" /\ sound /\ ctx # NoFd) =>
    /\ Frames(Underway) /\ (wire # "reset" => Complete(Underway))
    /\ Underway # <<>> => Underway[1].place = at
    /\ (at # 1 /\ wire = "open") => Underway # <<>>
    /\ (at # 1 /\ Underway # <<>>) => Underway[1].cmd = answering /\ Underway[1].len = expected

\* Every descriptor the session holds besides the one it works on was given up
\* on.
Accounted == Cardinality({f \in Fds : owner[f] = "session"} \ {Working}) <= leaked

IInv == TypeOK /\ Shape /\ Framing /\ Flow /\ ResponseIsOwn

=============================================================================
