----------------------------- MODULE MtlsClient -----------------------------
(***************************************************************************)
(* net::TlsSocket (src/net/tls.cpp) over AsioTcpSocket                     *)
(* (ports/asio/asio_tcp.cpp), and the two programs that use it,            *)
(* examples/mtls_client and examples/se_mtls_client: a main thread that    *)
(* connects, exchanges one message and joins a one-shot server thread,     *)
(* with the private key in a PEM file or behind SetupOpaquePk              *)
(* (ports/se05x/se_pk.cpp) in the secure element.                          *)
(*                                                                         *)
(* A main may also connect again on the same TlsSocket, as the interface   *)
(* of net::Socket allows; each connection meets a server thread of its     *)
(* own.  mbedTLS is external: a handshake is a hello, a server's flight, a *)
(* client's flight and, up to TLS 1.2, a server's Finished, and the state  *)
(* of ssl_ is which of them is next.  WANT_READ and WANT_WRITE, which the  *)
(* blocking transports never produce, are stuttering steps.                *)
(***************************************************************************)
EXTENDS Integers, Sequences

CONSTANTS
  Configs,       \* [verify, cert]: what the TlsConfig asks for
  Servers,       \* [trusted, demands, version]: does the CA vouch for the
                 \* server, does the server demand a client certificate, and
                 \* which version does it agree to
  Faults,        \* what may go wrong
  MaxConnects    \* bound: calls of Connect

ASSUME MtlsAssumption ==
  /\ Configs \subseteq [verify : BOOLEAN, cert : BOOLEAN]
  /\ Servers \subseteq [trusted : BOOLEAN, demands : BOOLEAN, version : {"tls12", "tls13"}]
  /\ Faults \subseteq {"configure", "resolve", "connect", "hostname", "reset", "sign"}
  /\ MaxConnects \in Nat

VARIABLES
  \* TlsSocket: its members, and the parts of conf_ and ssl_ that matter
  key,           \* the private key: "none", "pem" or "external"
  fits,          \* does it belong to the client certificate
  cfg,           \* the TlsConfig
  authmode,      \* conf_: "none" or "required"
  ownCert,       \* conf_ has a client certificate and its key
  configured,    \* configured_
  handshaked,    \* handshaked_
  ssl,           \* ssl_: the next step of the handshake, or "over"
  version,       \* ssl_: what the last handshake agreed to
  \* the transport: "down", "open" or "reset", and the records under way in
  \* each direction
  link, c2s, s2c,
  \* the server thread of the newest connection
  peer, srv,
  \* the main thread
  pc,
  connects,      \* calls of Connect
  entry,         \* ssl when Connect was entered
  quiet,         \* the server has no way to know how the last Connect ended
  got            \* the echo has arrived on this connection

tls       == <<key, fits, cfg, authmode, ownCert, configured, handshaked,
               ssl, version>>
config    == <<key, fits, cfg, authmode, ownCert, configured>>
transport == <<link, c2s, s2c>>
server    == <<peer, srv>>
main      == <<pc, connects, entry, quiet, got>>
vars      == <<tls, transport, server, main>>

ClientRecords == {"hello", "bare", "forged", "signed", "app", "alert", "notify"}
ServerRecords == {"flight", "finished", "app", "alert", "notify"}

Init ==
  /\ key = "none" /\ fits = FALSE /\ cfg \in Configs
  /\ authmode = "none" /\ ownCert = FALSE
  /\ configured = FALSE /\ handshaked = FALSE /\ ssl = "fresh" /\ version = "tls12"
  /\ link = "down" /\ c2s = <<>> /\ s2c = <<>>
  /\ peer \in Servers /\ srv = "accept"
  /\ pc = "key" /\ connects = 0 /\ entry = "fresh" /\ quiet = TRUE /\ got = FALSE

-----------------------------------------------------------------------------
(* Before the connection                                                   *)

\* The key of the PEM file: mtls_client, and se_mtls_client when any of
\* Connection::Open, RsaKey::Open and SetupOpaquePk fails.
UsePemKey ==
  /\ pc = "key"
  /\ key' = "pem" /\ fits' = TRUE
  /\ pc' = "configure"
  /\ UNCHANGED <<cfg, authmode, ownCert, configured, handshaked, ssl, version,
                 transport, server, connects, entry, quiet, got>>

\* The RSA key of the secure element, whichever it is; the certificate is
\* the test client's.
UseExternalKey ==
  /\ pc = "key"
  /\ key' = "external" /\ fits' \in BOOLEAN
  /\ pc' = "configure"
  /\ UNCHANGED <<cfg, authmode, ownCert, configured, handshaked, ssl, version,
                 transport, server, connects, entry, quiet, got>>

\* Mutant of Configure: the CA is loaded, the authmode is not set.
ConfigureVerifyNone ==
  /\ pc = "configure"
  /\ authmode' = "none"
  /\ ownCert' = (cfg.cert /\ key # "none")
  /\ configured' = TRUE
  /\ pc' = "idle"
  /\ UNCHANGED <<key, fits, cfg, handshaked, ssl, version, transport, server,
                 connects, entry, quiet, got>>

\* Any step of it may fail; main then skips the connection.
Configure ==
  /\ pc = "configure"
  /\ \/ /\ authmode' = IF cfg.verify THEN "required" ELSE "none"
        /\ ownCert' = (cfg.cert /\ key # "none")
        /\ configured' = TRUE
        /\ pc' = "idle"
     \/ /\ "configure" \in Faults
        /\ pc' = "join"
        /\ UNCHANGED <<authmode, ownCert, configured>>
  /\ UNCHANGED <<key, fits, cfg, handshaked, ssl, version, transport, server,
                 connects, entry, quiet, got>>

-----------------------------------------------------------------------------
(* AsioTcpSocket                                                           *)

\* Resolve, then connect: an old connection is dropped only in between.  The
\* server finds the new one in its backlog.
AsioConnect(outcome) ==
  \/ /\ outcome = "unresolved" /\ "resolve" \in Faults
     /\ UNCHANGED <<transport, server>>
  \/ /\ outcome = "refused" /\ "connect" \in Faults
     /\ link' = "down" /\ c2s' = <<>> /\ s2c' = <<>>
     /\ peer' \in Servers /\ srv' = "accept"
  \/ /\ outcome = "connected"
     /\ link' = "open" /\ c2s' = <<>> /\ s2c' = <<>>
     /\ peer' \in Servers /\ srv' = "backlog"

\* The stream takes the record; a server that is gone never reads it.
AsioSend(record) == link = "open" /\ c2s' = Append(c2s, record)

\* The next record, and the end of the stream.
AsioRecv(record) == link = "open" /\ s2c # <<>> /\ record = Head(s2c) /\ s2c' = Tail(s2c)
AsioEof          == link = "open" /\ s2c = <<>> /\ srv = "gone"

AsioClose == link' = "down" /\ s2c' = <<>>

\* The connection breaks: what is under way is lost, and every further call of
\* either end on it fails.
LinkResets ==
  /\ link = "open" /\ "reset" \in Faults
  /\ link' = "reset" /\ c2s' = <<>> /\ s2c' = <<>>
  /\ UNCHANGED <<tls, server, main>>

-----------------------------------------------------------------------------
(* TlsSocket::Connect                                                      *)

\* The transport first; its failure is Connect's.  When mbedtls_ssl_set_hostname
\* fails, the transport stays open and the server is told nothing.
Connect ==
  /\ pc = "idle" /\ configured /\ connects < MaxConnects
  /\ connects' = connects + 1
  /\ entry' = ssl
  /\ got' = FALSE
  /\ \/ AsioConnect("connected") /\ pc' = "handshake" /\ quiet' = FALSE
     \/ AsioConnect("connected") /\ "hostname" \in Faults /\ quiet' = TRUE /\ UNCHANGED pc
     \/ AsioConnect("refused") /\ quiet' = TRUE /\ UNCHANGED pc
     \/ AsioConnect("unresolved") /\ UNCHANGED <<quiet, pc>>
  /\ UNCHANGED tls

\* The handshake loop ends with an error: Connect returns it and leaves the
\* transport open.
ConnectFails(isQuiet) ==
  /\ pc' = "idle"
  /\ quiet' = isQuiet
  /\ UNCHANGED <<connects, entry, got>>

InHandshake == pc = "handshake" /\ UNCHANGED <<config, server>>

SendHello ==
  /\ InHandshake /\ ssl = "fresh"
  /\ AsioSend("hello")
  /\ ssl' = "flight"
  /\ UNCHANGED <<handshaked, version, link, s2c, main>>

\* The server's flight: its certificate is checked as authmode demands.
TakeFlight ==
  /\ InHandshake /\ ssl = "flight"
  /\ AsioRecv("flight")
  /\ version' = peer.version
  /\ IF authmode = "required" /\ ~peer.trusted
       THEN /\ AsioSend("alert")
            /\ ConnectFails(FALSE)
            /\ UNCHANGED ssl
       ELSE ssl' = "answer" /\ UNCHANGED <<c2s, main>>
  /\ UNCHANGED <<handshaked, link>>

\* The client's flight.  A certificate is signed for, in software or by
\* SeSign.
Signature == IF ~peer.demands \/ ~ownCert THEN "bare" ELSE IF fits THEN "signed" ELSE "forged"

SendFlight ==
  /\ InHandshake /\ ssl = "answer"
  /\ AsioSend(Signature)
  /\ ssl' = IF version = "tls13" THEN "over" ELSE "finished"
  /\ UNCHANGED <<handshaked, version, link, s2c, main>>

\* SeSign fails; mbedTLS has no alert for it.
SignFails ==
  /\ InHandshake /\ ssl = "answer"
  /\ "sign" \in Faults /\ key = "external" /\ ownCert
  /\ ConnectFails(TRUE)
  /\ UNCHANGED <<handshaked, ssl, version, transport>>

TakeFinished ==
  /\ InHandshake /\ ssl = "finished"
  /\ AsioRecv("finished")
  /\ ssl' = "over"
  /\ UNCHANGED <<handshaked, version, link, c2s, main>>

\* Mutant of HandshakeRefused: a read of 0 is taken for WANT_READ.
HandshakeRefusedNoEof ==
  /\ InHandshake /\ ssl \in {"flight", "finished"}
  /\ AsioRecv("alert")
  /\ ConnectFails(FALSE)
  /\ UNCHANGED <<handshaked, ssl, version, link, c2s>>

\* An alert, or the end of the stream.
HandshakeRefused ==
  /\ InHandshake /\ ssl \in {"flight", "finished"}
  /\ AsioRecv("alert") \/ (AsioEof /\ UNCHANGED s2c)
  /\ ConnectFails(FALSE)
  /\ UNCHANGED <<handshaked, ssl, version, link, c2s>>

\* BioSend or BioRecv fails.
HandshakeBroken ==
  /\ InHandshake /\ ssl # "over" /\ link = "reset"
  /\ ConnectFails(FALSE)
  /\ UNCHANGED <<handshaked, ssl, version, transport>>

\* A context that is past its handshake has nothing left to do.
HandshakeOver ==
  /\ InHandshake /\ ssl = "over"
  /\ handshaked' = TRUE
  /\ pc' = "send"
  /\ UNCHANGED <<ssl, version, transport, connects, entry, quiet, got>>

-----------------------------------------------------------------------------
(* TlsSocket::Send, Recv and Close, as the two mains call them             *)

Send ==
  /\ pc = "send"
  /\ \/ AsioSend("app")
     \/ (link = "reset" \/ srv = "gone") /\ UNCHANGED c2s
  /\ pc' = "recv"
  /\ UNCHANGED <<tls, link, s2c, server, connects, entry, quiet, got>>

\* The result of Send is not looked at: main reads either way.
Recv ==
  /\ pc = "recv"
  /\ \/ AsioRecv("app") /\ got' = TRUE
     \/ (AsioRecv("alert") \/ AsioRecv("notify")) /\ UNCHANGED got
     \/ (AsioEof \/ link = "reset") /\ UNCHANGED <<s2c, got>>
  /\ pc' = "idle"
  /\ UNCHANGED <<tls, link, c2s, server, connects, entry, quiet>>

\* Mutant of Close: the transport is closed inside the test of handshaked_.
CloseIfHandshaked ==
  /\ pc = "idle" /\ configured /\ (handshaked \/ link # "down")
  /\ handshaked' = FALSE
  /\ IF handshaked THEN AsioClose ELSE UNCHANGED <<link, s2c>>
  /\ quiet' = (quiet /\ link = "down")
  /\ UNCHANGED <<config, ssl, version, c2s, server, pc, connects, entry, got>>

\* The close_notify may not make it; its result is not looked at.
Close ==
  /\ pc = "idle" /\ configured /\ (handshaked \/ link # "down")
  /\ (handshaked /\ AsioSend("notify")) \/ UNCHANGED c2s
  /\ handshaked' = FALSE
  /\ AsioClose
  /\ quiet' = (quiet /\ link = "down")
  /\ UNCHANGED <<config, ssl, version, server, pc, connects, entry, got>>

\* A connection that succeeded is closed before the join, one that failed is
\* not.
Join ==
  /\ pc = "idle" /\ connects > 0 /\ ~handshaked
  /\ pc' = "join"
  /\ UNCHANGED <<tls, transport, server, connects, entry, quiet, got>>

\* server.join() returns.
Joined ==
  /\ pc = "join" /\ srv = "gone"
  /\ pc' = "done"
  /\ UNCHANGED <<tls, transport, server, connects, entry, quiet, got>>

-----------------------------------------------------------------------------
(* RunServer, the one-shot server thread                                   *)

Reply(records, next) ==
  /\ s2c' = IF link = "open" THEN s2c \o records ELSE s2c
  /\ srv' = next
  /\ UNCHANGED <<tls, link, peer, main>>

\* The handshake loop ends with an error, for which mbedTLS may send an alert.
Refuse == Reply(<<"alert">>, "gone") \/ Reply(<<>>, "gone")

Accept ==
  /\ srv = "backlog"
  /\ srv' = "hello"
  /\ UNCHANGED <<tls, transport, peer, main>>

\* The server's handshake: a hello is answered by its flight.
ServerHello ==
  /\ srv = "hello" /\ c2s # <<>>
  /\ c2s' = Tail(c2s)
  /\ IF Head(c2s) = "hello" THEN Reply(<<"flight">>, "wait") ELSE Refuse

\* Mutant of Acceptable: VERIFY_OPTIONAL.
AcceptableOptional(record) == record \in {"bare", "forged", "signed"}

\* VERIFY_REQUIRED: a certificate, and a signature by its key.
Acceptable(record) == record = "signed" \/ (record = "bare" /\ ~peer.demands)

\* The client's flight.  "finished" is not sent from TLS 1.3 on.
ServerFlight ==
  /\ srv = "wait" /\ c2s # <<>>
  /\ c2s' = Tail(c2s)
  /\ IF Acceptable(Head(c2s))
       THEN Reply(IF peer.version = "tls12" THEN <<"finished">> ELSE <<>>, "read")
       ELSE Refuse

\* One read, the echo of what it got, close_notify and close.
ServerEcho ==
  /\ srv = "read" /\ c2s # <<>>
  /\ c2s' = Tail(c2s)
  /\ Reply(IF Head(c2s) = "app" THEN <<"app", "notify">> ELSE <<"notify">>, "gone")

\* The client has closed or the connection is broken: every read ends the
\* thread.
ServerEof ==
  /\ srv \in {"hello", "wait", "read"} /\ link # "open" /\ c2s = <<>>
  /\ srv' = "gone"
  /\ UNCHANGED <<tls, transport, peer, main>>

-----------------------------------------------------------------------------

Handshake ==
  \/ SendHello \/ TakeFlight \/ SendFlight \/ TakeFinished
  \/ HandshakeRefused \/ HandshakeBroken \/ HandshakeOver

MainStep == Handshake \/ Send \/ Recv \/ Joined

ServerStep ==
  \/ Accept \/ ServerHello \/ ServerFlight \/ ServerEcho \/ ServerEof

Next ==
  \/ UsePemKey \/ UseExternalKey \/ Configure
  \/ Connect \/ Close \/ Join
  \/ MainStep
  \/ ServerStep
  \/ SignFails \/ LinkResets

Spec == Init /\ [][Next]_vars

\* Both threads are scheduled.  What main calls next is its own affair, and
\* nothing has to fail.
FairSpec == Spec /\ WF_vars(MainStep) /\ WF_vars(ServerStep)

-----------------------------------------------------------------------------
(* Properties                                                              *)

\* Type correctness; a TlsSocket has shaken hands only if ssl_ is past the
\* handshake.
TypeOK ==
  /\ key \in {"none", "pem", "external"} /\ fits \in BOOLEAN /\ cfg \in Configs
  /\ authmode \in {"none", "required"} /\ ownCert \in BOOLEAN
  /\ configured \in BOOLEAN /\ handshaked \in BOOLEAN
  /\ ssl \in {"fresh", "flight", "answer", "finished", "over"}
  /\ version \in {"tls12", "tls13"}
  /\ link \in {"down", "open", "reset"} /\ c2s \in Seq(ClientRecords) /\ s2c \in Seq(ServerRecords)
  /\ peer \in Servers /\ srv \in {"accept", "backlog", "hello", "wait", "read", "gone"}
  /\ pc \in {"key", "configure", "idle", "handshake", "send", "recv", "join", "done"}
  /\ connects \in 0..MaxConnects
  /\ entry \in {"fresh", "flight", "answer", "finished", "over"}
  /\ quiet \in BOOLEAN /\ got \in BOOLEAN
  /\ handshaked => ssl = "over"

\* "Opens the underlying transport, then performs the TLS handshake": once
\* Connect has returned Ok, the server of this connection has answered a hello
\* of this connection, and it is one the CA vouches for unless skip_verify is
\* set.
ConnectAuthenticates ==
  pc \in {"send", "recv"} =>
    /\ srv \notin {"accept", "backlog", "hello"}
    /\ cfg.verify => peer.trusted

\* The same for every Connect on a context that has not begun a handshake yet,
\* whatever failed attempts came first.  A context that has completed one, or
\* that broke off one of TLS 1.3 before its own flight, goes on from there and
\* reports success to whoever is at the other end.
FirstConnectAuthenticates == entry = "fresh" => ConnectAuthenticates

\* The exchange succeeds only under mutual authentication: whatever Connect
\* reported, under TLS 1.3 too early, an echo means that the server of this
\* connection has seen the certificate it demands with a signature by its key,
\* and that it is one the client trusts.
EchoMeansMutual ==
  got => /\ peer.demands => ownCert /\ fits
         /\ cfg.verify => peer.trusted

\* Connect returns, whatever the server answers, unless it resumes a context
\* whose last handshake broke off while it was waiting for the server: both
\* ends then wait for each other.
ConnectReturns ==
  (pc = "handshake" /\ entry \notin {"flight", "finished"}) ~> (pc # "handshake")

\* The example programs end: join returns if the connection was closed or the
\* handshake ended with an alert.  After a Configure that failed, or a Connect
\* that failed without a word to the server, main waits for a server that
\* waits for main.
JoinReturns == (pc = "join" /\ ~quiet) ~> (pc = "done")

-----------------------------------------------------------------------------
(* The inductive invariant behind the theorems of MtlsClientProofs.        *)

\* The server has read nothing of this connection.
Unread == srv \in {"accept", "backlog", "hello"}

Trusted == cfg.verify => peer.trusted
Mutual  == Trusted /\ (peer.demands => ownCert /\ fits)

\* conf_ says what the TlsConfig asks for, and nothing moves before it does.
Prepared ==
  /\ pc \in {"key", "configure"} =>
       /\ link = "down" /\ c2s = <<>> /\ s2c = <<>>
       /\ srv = "accept" /\ ~configured /\ ~got
  /\ configured => (authmode = "required" <=> cfg.verify)
  /\ pc \in {"handshake", "send", "recv"} => configured
  /\ pc \in {"send", "recv"} => ssl = "over"

\* A server that has read nothing has said nothing; a hello it has yet to read
\* is all there is to read, and the client waits for the answer.
Greeting ==
  /\ Unread => s2c = <<>>
  /\ link = "reset" => c2s = <<>>
  /\ pc = "handshake" /\ ssl = "fresh" => c2s = <<>>
  /\ Unread /\ c2s # <<>> /\ Head(c2s) = "hello" =>
       c2s = <<"hello">> /\ pc = "handshake" /\ ssl = "flight"

\* A Connect that began the handshake has met a server it may trust by the
\* time the server's flight is behind it.
Met ==
  (entry = "fresh" /\ pc \in {"handshake", "send", "recv"}
     /\ ssl \in {"answer", "finished", "over"}) => ~Unread /\ Trusted

\* What the server goes by: the records on their way to it are of a client
\* that has checked it and holds the key it signed with.
Evidence ==
  /\ pc = "handshake" /\ ssl \in {"answer", "finished", "over"} /\ srv \in {"wait", "read"}
       => Trusted
  /\ \A i \in 1..Len(c2s) :
       /\ c2s[i] = "signed" => ownCert /\ fits
       /\ srv = "wait" /\ c2s[i] \in {"bare", "signed"} => Trusted
  /\ srv = "read" => Mutual
  /\ \A i \in 1..Len(s2c) : s2c[i] = "app" => Mutual
  /\ got => Mutual

IInv == TypeOK /\ Prepared /\ Greeting /\ Met /\ Evidence

=============================================================================
