-------------------------- MODULE MtlsClientProofs --------------------------
(* Proofs about MtlsClient: what a Connect and an echo prove about the     *)
(* server and the client, for every set of servers, configurations and     *)
(* faults and any number of connections.                                   *)
EXTENDS MtlsClient, SequenceTheorems, TLAPS

\* What the server's answer leaves in the stream to the client.
LEMMA ReplyRecords ==
  ASSUME NEW s \in Seq(ServerRecords), NEW r \in Seq(ServerRecords)
  PROVE  /\ s \o r \in Seq(ServerRecords)
         /\ \A i \in 1..Len(s \o r) :
              (\E j \in 1..Len(s) : (s \o r)[i] = s[j]) \/ (\E j \in 1..Len(r) : (s \o r)[i] = r[j])
<1> DEFINE t == s \o r
<1>1. /\ t \in Seq(ServerRecords) /\ Len(t) = Len(s) + Len(r)
      /\ \A i \in 1..(Len(s) + Len(r)) : t[i] = IF i <= Len(s) THEN s[i] ELSE r[i - Len(s)]
  BY ConcatProperties
<1> HIDE DEF t
<1>2. Len(s) \in Nat /\ Len(r) \in Nat
  BY LenProperties
<1>3. ASSUME NEW i \in 1..(Len(s) + Len(r))
      PROVE  (\E j \in 1..Len(s) : t[i] = s[j]) \/ (\E j \in 1..Len(r) : t[i] = r[j])
  <2>1. CASE i <= Len(s)
    BY <1>1, <1>2, <2>1
  <2>2. CASE ~(i <= Len(s))
    <3>1. i - Len(s) \in 1..Len(r) /\ t[i] = r[i - Len(s)]
      BY <1>1, <1>2, <2>2
    <3> QED
      BY <3>1
  <2> QED
    BY <2>1, <2>2
<1>4. \A i \in 1..Len(t) :
        (\E j \in 1..Len(s) : t[i] = s[j]) \/ (\E j \in 1..Len(r) : t[i] = r[j])
  BY <1>1, <1>3
<1>5. t \in Seq(ServerRecords)
  BY <1>1
<1> QED
  BY <1>4, <1>5, Zenon DEF t

\* The records of the stream behind its head.
LEMMA TailRecords ==
  ASSUME NEW S, NEW s \in Seq(S), s # <<>>
  PROVE  /\ Tail(s) \in Seq(S)
         /\ Head(s) = s[1] /\ 1 \in 1..Len(s)
         /\ \A i \in 1..Len(Tail(s)) : \E j \in 1..Len(s) : Tail(s)[i] = s[j]
<1>1. /\ Head(s) = s[1] /\ Tail(s) \in Seq(S) /\ Len(Tail(s)) = Len(s) - 1
      /\ \A i \in 1..Len(Tail(s)) : Tail(s)[i] = s[i + 1]
  BY HeadTailProperties
<1>2. Len(s) \in Nat /\ Len(s) > 0
  BY LenProperties, EmptySeq
<1> QED
  BY <1>1, <1>2

\* The records of the stream and the new one at its end.
LEMMA AppendRecords ==
  ASSUME NEW S, NEW s \in Seq(S), NEW e \in S
  PROVE  /\ Append(s, e) \in Seq(S)
         /\ \A i \in 1..Len(Append(s, e)) :
              Append(s, e)[i] = e \/ \E j \in 1..Len(s) : Append(s, e)[i] = s[j]
<1>1. /\ Append(s, e) \in Seq(S) /\ Len(Append(s, e)) = Len(s) + 1
      /\ \A i \in 1..Len(s) : Append(s, e)[i] = s[i]
      /\ Append(s, e)[Len(s) + 1] = e
  BY AppendProperties
<1>2. Len(s) \in Nat
  BY LenProperties
<1> QED
  BY <1>1, <1>2

\* UsePemKey preserves the invariant.
LEMMA UsePemKeyKeeps == IInv /\ UsePemKey => IInv'
<1> SUFFICES ASSUME IInv, UsePemKey PROVE IInv'
  OBVIOUS
<1> USE MtlsAssumption DEF UsePemKey, tls, config, transport, server, main
<1>0. TypeOK /\ Prepared /\ Greeting /\ Met /\ Evidence
  BY DEF IInv
<1>1. TypeOK'
  BY <1>0 DEF TypeOK
<1>2. Prepared'
  BY <1>0 DEF TypeOK, Prepared
<1>3. Greeting'
  BY <1>0 DEF TypeOK, Prepared, Greeting, Unread
<1>4. Met'
  BY <1>0 DEF TypeOK, Prepared, Greeting, Met, Unread, Trusted
<1>5. Evidence'
  BY <1>0 DEF TypeOK, Prepared, Greeting, Evidence, Unread, Trusted, Mutual
<1> QED
  BY <1>1, <1>2, <1>3, <1>4, <1>5 DEF IInv

\* UseExternalKey preserves the invariant.
LEMMA UseExternalKeyKeeps == IInv /\ UseExternalKey => IInv'
<1> SUFFICES ASSUME IInv, UseExternalKey PROVE IInv'
  OBVIOUS
<1> USE MtlsAssumption DEF UseExternalKey, tls, config, transport, server, main
<1>0. TypeOK /\ Prepared /\ Greeting /\ Met /\ Evidence
  BY DEF IInv
<1>1. TypeOK'
  BY <1>0 DEF TypeOK
<1>2. Prepared'
  BY <1>0 DEF TypeOK, Prepared
<1>3. Greeting'
  BY <1>0 DEF TypeOK, Prepared, Greeting, Unread
<1>4. Met'
  BY <1>0 DEF TypeOK, Prepared, Greeting, Met, Unread, Trusted
<1>5. Evidence'
  BY <1>0 DEF TypeOK, Prepared, Greeting, Evidence, Unread, Trusted, Mutual
<1> QED
  BY <1>1, <1>2, <1>3, <1>4, <1>5 DEF IInv

\* Configure preserves the invariant.
LEMMA ConfigureKeeps == IInv /\ Configure => IInv'
<1> SUFFICES ASSUME IInv, Configure PROVE IInv'
  OBVIOUS
<1> USE MtlsAssumption DEF Configure, tls, config, transport, server, main
<1>0. TypeOK /\ Prepared /\ Greeting /\ Met /\ Evidence
  BY DEF IInv
<1>1. TypeOK'
  <2>1. c2s' \in Seq(ClientRecords)
    BY <1>0 DEF TypeOK
  <2>2. s2c' \in Seq(ServerRecords)
    BY <1>0 DEF TypeOK
  <2>3. /\ fits' \in BOOLEAN /\ ownCert' \in BOOLEAN /\ configured' \in BOOLEAN
        /\ handshaked' \in BOOLEAN /\ quiet' \in BOOLEAN /\ got' \in BOOLEAN
    BY <1>0 DEF TypeOK
  <2>4. /\ key' \in {"none", "pem", "external"} /\ cfg' \in Configs
        /\ authmode' \in {"none", "required"}
        /\ ssl' \in {"fresh", "flight", "answer", "finished", "over"}
        /\ version' \in {"tls12", "tls13"}
        /\ handshaked' => ssl' = "over"
    BY <1>0 DEF TypeOK
  <2>5. /\ link' \in {"down", "open", "reset"}
        /\ peer' \in Servers /\ srv' \in {"accept", "backlog", "hello", "wait", "read", "gone"}
        /\ pc' \in {"key", "configure", "idle", "handshake", "send", "recv", "join", "done"}
        /\ connects' \in 0..MaxConnects
        /\ entry' \in {"fresh", "flight", "answer", "finished", "over"}
    BY <1>0 DEF TypeOK
  <2> QED
    BY <2>1, <2>2, <2>3, <2>4, <2>5 DEF TypeOK
<1>2. Prepared'
  BY <1>0 DEF TypeOK, Prepared
<1>3. Greeting'
  BY <1>0 DEF TypeOK, Prepared, Greeting, Unread
<1>4. Met'
  BY <1>0 DEF TypeOK, Prepared, Greeting, Met, Unread, Trusted
<1>5. Evidence'
  BY <1>0 DEF TypeOK, Prepared, Greeting, Evidence, Unread, Trusted, Mutual
<1> QED
  BY <1>1, <1>2, <1>3, <1>4, <1>5 DEF IInv

\* Connect preserves the invariant.
LEMMA ConnectKeeps == IInv /\ Connect => IInv'
<1> SUFFICES ASSUME IInv, Connect PROVE IInv'
  OBVIOUS
<1> USE MtlsAssumption DEF Connect, AsioConnect, tls, config, transport, server, main
<1>0. TypeOK /\ Prepared /\ Greeting /\ Met /\ Evidence
  BY DEF IInv
<1>e. <<>> \in Seq(ClientRecords) /\ <<>> \in Seq(ServerRecords)
  BY EmptySeq
<1>1. TypeOK'
  <2>1. c2s' \in Seq(ClientRecords)
    BY <1>0, <1>e DEF TypeOK
  <2>2. s2c' \in Seq(ServerRecords)
    BY <1>0, <1>e DEF TypeOK
  <2>3. /\ fits' \in BOOLEAN /\ ownCert' \in BOOLEAN /\ configured' \in BOOLEAN
        /\ handshaked' \in BOOLEAN /\ quiet' \in BOOLEAN /\ got' \in BOOLEAN
    BY <1>0 DEF TypeOK
  <2>4. /\ key' \in {"none", "pem", "external"} /\ cfg' \in Configs
        /\ authmode' \in {"none", "required"}
        /\ ssl' \in {"fresh", "flight", "answer", "finished", "over"}
        /\ version' \in {"tls12", "tls13"}
        /\ handshaked' => ssl' = "over"
    BY <1>0 DEF TypeOK
  <2>5. /\ link' \in {"down", "open", "reset"}
        /\ peer' \in Servers /\ srv' \in {"accept", "backlog", "hello", "wait", "read", "gone"}
        /\ pc' \in {"key", "configure", "idle", "handshake", "send", "recv", "join", "done"}
        /\ connects' \in 0..MaxConnects
        /\ entry' \in {"fresh", "flight", "answer", "finished", "over"}
    BY <1>0 DEF TypeOK
  <2> QED
    BY <2>1, <2>2, <2>3, <2>4, <2>5 DEF TypeOK
<1>2. Prepared'
  BY <1>0 DEF TypeOK, Prepared
<1>3. Greeting'
  BY <1>0 DEF TypeOK, Prepared, Greeting, Unread
<1>4. Met'
  BY <1>0 DEF TypeOK, Prepared, Greeting, Met, Unread, Trusted
<1>5. Evidence'
  BY <1>0 DEF TypeOK, Prepared, Greeting, Evidence, Unread, Trusted, Mutual
<1> QED
  BY <1>1, <1>2, <1>3, <1>4, <1>5 DEF IInv

\* Close preserves the invariant.
LEMMA CloseKeeps == IInv /\ Close => IInv'
<1> SUFFICES ASSUME IInv, Close PROVE IInv'
  OBVIOUS
<1> USE MtlsAssumption DEF Close, AsioSend, AsioClose, tls, config, transport, server, main
<1>0. TypeOK /\ Prepared /\ Greeting /\ Met /\ Evidence
  BY DEF IInv
<1>e. <<>> \in Seq(ClientRecords) /\ <<>> \in Seq(ServerRecords)
  BY EmptySeq
<1>a. /\ Append(c2s, "notify") \in Seq(ClientRecords)
      /\ Head(Append(c2s, "notify")) = IF c2s = <<>> THEN "notify" ELSE Head(c2s)
      /\ \A i \in 1..Len(Append(c2s, "notify")) :
           Append(c2s, "notify")[i] = "notify" \/ \E j \in 1..Len(c2s) : Append(c2s, "notify")[i] = c2s[j]
  BY <1>0, AppendRecords DEF TypeOK, ClientRecords
<1>1. TypeOK'
  <2>1. c2s' \in Seq(ClientRecords)
    BY <1>0, <1>a DEF TypeOK
  <2>2. s2c' \in Seq(ServerRecords)
    BY <1>0, <1>e DEF TypeOK
  <2>3. /\ fits' \in BOOLEAN /\ ownCert' \in BOOLEAN /\ configured' \in BOOLEAN
        /\ handshaked' \in BOOLEAN /\ quiet' \in BOOLEAN /\ got' \in BOOLEAN
    BY <1>0 DEF TypeOK
  <2>4. /\ key' \in {"none", "pem", "external"} /\ cfg' \in Configs
        /\ authmode' \in {"none", "required"}
        /\ ssl' \in {"fresh", "flight", "answer", "finished", "over"}
        /\ version' \in {"tls12", "tls13"}
        /\ handshaked' => ssl' = "over"
    BY <1>0 DEF TypeOK
  <2>5. /\ link' \in {"down", "open", "reset"}
        /\ peer' \in Servers /\ srv' \in {"accept", "backlog", "hello", "wait", "read", "gone"}
        /\ pc' \in {"key", "configure", "idle", "handshake", "send", "recv", "join", "done"}
        /\ connects' \in 0..MaxConnects
        /\ entry' \in {"fresh", "flight", "answer", "finished", "over"}
    BY <1>0 DEF TypeOK
  <2> QED
    BY <2>1, <2>2, <2>3, <2>4, <2>5 DEF TypeOK
<1>2. Prepared'
  BY <1>0, <1>a DEF TypeOK, Prepared
<1>3. Greeting'
  BY <1>0, <1>a DEF TypeOK, Prepared, Greeting, Unread
<1>4. Met'
  BY <1>0, <1>a DEF TypeOK, Prepared, Greeting, Met, Unread, Trusted
<1>5. Evidence'
  <2>1. (pc = "handshake" /\ ssl \in {"answer", "finished", "over"} /\ srv \in {"wait", "read"}
           => Trusted)'
    BY <1>0, <1>a DEF TypeOK, Prepared, Greeting, Evidence, Unread, Trusted, Mutual
  <2>2. (\A i \in 1..Len(c2s) :
           /\ c2s[i] = "signed" => ownCert /\ fits
           /\ srv = "wait" /\ c2s[i] \in {"bare", "signed"} => Trusted)'
    <3>1. CASE c2s' = c2s
      BY <1>0, <3>1 DEF TypeOK, Prepared, Evidence, Trusted
    <3>2. CASE c2s' = Append(c2s, "notify")
      BY <1>0, <1>a, <3>2 DEF TypeOK, Prepared, Evidence, Trusted
    <3> QED
      BY <3>1, <3>2
  <2>3. (srv = "read" => Mutual)'
    BY <1>0, <1>a DEF TypeOK, Prepared, Greeting, Evidence, Unread, Trusted, Mutual
  <2>4. (\A i \in 1..Len(s2c) : s2c[i] = "app" => Mutual)'
    BY <1>0, <1>a DEF TypeOK, Prepared, Greeting, Evidence, Unread, Trusted, Mutual
  <2>5. (got => Mutual)'
    BY <1>0, <1>a DEF TypeOK, Prepared, Greeting, Evidence, Unread, Trusted, Mutual
  <2> QED
    BY <2>1, <2>2, <2>3, <2>4, <2>5 DEF Evidence
<1> QED
  BY <1>1, <1>2, <1>3, <1>4, <1>5 DEF IInv

\* Join preserves the invariant.
LEMMA JoinKeeps == IInv /\ Join => IInv'
<1> SUFFICES ASSUME IInv, Join PROVE IInv'
  OBVIOUS
<1> USE MtlsAssumption DEF Join, tls, config, transport, server, main
<1>0. TypeOK /\ Prepared /\ Greeting /\ Met /\ Evidence
  BY DEF IInv
<1>1. TypeOK'
  BY <1>0 DEF TypeOK
<1>2. Prepared'
  BY <1>0 DEF TypeOK, Prepared
<1>3. Greeting'
  BY <1>0 DEF TypeOK, Prepared, Greeting, Unread
<1>4. Met'
  BY <1>0 DEF TypeOK, Prepared, Greeting, Met, Unread, Trusted
<1>5. Evidence'
  BY <1>0 DEF TypeOK, Prepared, Greeting, Evidence, Unread, Trusted, Mutual
<1> QED
  BY <1>1, <1>2, <1>3, <1>4, <1>5 DEF IInv

\* Joined preserves the invariant.
LEMMA JoinedKeeps == IInv /\ Joined => IInv'
<1> SUFFICES ASSUME IInv, Joined PROVE IInv'
  OBVIOUS
<1> USE MtlsAssumption DEF Joined, tls, config, transport, server, main
<1>0. TypeOK /\ Prepared /\ Greeting /\ Met /\ Evidence
  BY DEF IInv
<1>1. TypeOK'
  BY <1>0 DEF TypeOK
<1>2. Prepared'
  BY <1>0 DEF TypeOK, Prepared
<1>3. Greeting'
  BY <1>0 DEF TypeOK, Prepared, Greeting, Unread
<1>4. Met'
  BY <1>0 DEF TypeOK, Prepared, Greeting, Met, Unread, Trusted
<1>5. Evidence'
  BY <1>0 DEF TypeOK, Prepared, Greeting, Evidence, Unread, Trusted, Mutual
<1> QED
  BY <1>1, <1>2, <1>3, <1>4, <1>5 DEF IInv

\* SendHello preserves the invariant.
LEMMA SendHelloKeeps == IInv /\ SendHello => IInv'
<1> SUFFICES ASSUME IInv, SendHello PROVE IInv'
  OBVIOUS
<1> USE MtlsAssumption DEF SendHello, InHandshake, AsioSend, tls, config, transport, server, main
<1>0. TypeOK /\ Prepared /\ Greeting /\ Met /\ Evidence
  BY DEF IInv
<1>a. /\ Append(c2s, "hello") \in Seq(ClientRecords)
      /\ Head(Append(c2s, "hello")) = IF c2s = <<>> THEN "hello" ELSE Head(c2s)
      /\ \A i \in 1..Len(Append(c2s, "hello")) :
           Append(c2s, "hello")[i] = "hello" \/ \E j \in 1..Len(c2s) : Append(c2s, "hello")[i] = c2s[j]
  BY <1>0, AppendRecords DEF TypeOK, ClientRecords
<1>1. TypeOK'
  BY <1>0, <1>a DEF TypeOK
<1>2. Prepared'
  BY <1>0, <1>a DEF TypeOK, Prepared
<1>3. Greeting'
  BY <1>0, <1>a DEF TypeOK, Prepared, Greeting, Unread
<1>4. Met'
  BY <1>0, <1>a DEF TypeOK, Prepared, Greeting, Met, Unread, Trusted
<1>5. Evidence'
  BY <1>0, <1>a DEF TypeOK, Prepared, Greeting, Evidence, Unread, Trusted, Mutual
<1> QED
  BY <1>1, <1>2, <1>3, <1>4, <1>5 DEF IInv

\* TakeFlight preserves the invariant.
LEMMA TakeFlightKeeps == IInv /\ TakeFlight => IInv'
<1> SUFFICES ASSUME IInv, TakeFlight PROVE IInv'
  OBVIOUS
<1> USE MtlsAssumption DEF TakeFlight, InHandshake, AsioRecv, AsioSend, ConnectFails, tls, config, transport, server, main
<1>0. TypeOK /\ Prepared /\ Greeting /\ Met /\ Evidence
  BY DEF IInv
<1>r. s2c # <<>> => /\ Tail(s2c) \in Seq(ServerRecords)
                   /\ Head(s2c) = s2c[1] /\ 1 \in 1..Len(s2c)
                   /\ \A i \in 1..Len(Tail(s2c)) : \E j \in 1..Len(s2c) : Tail(s2c)[i] = s2c[j]
  BY <1>0, TailRecords DEF TypeOK
<1>a. /\ Append(c2s, "alert") \in Seq(ClientRecords)
      /\ Head(Append(c2s, "alert")) = IF c2s = <<>> THEN "alert" ELSE Head(c2s)
      /\ \A i \in 1..Len(Append(c2s, "alert")) :
           Append(c2s, "alert")[i] = "alert" \/ \E j \in 1..Len(c2s) : Append(c2s, "alert")[i] = c2s[j]
  BY <1>0, AppendRecords DEF TypeOK, ClientRecords
<1>1. TypeOK'
  <2>1. c2s' \in Seq(ClientRecords)
    BY <1>0, <1>a DEF TypeOK
  <2>2. s2c' \in Seq(ServerRecords)
    BY <1>0, <1>r DEF TypeOK
  <2>3. /\ fits' \in BOOLEAN /\ ownCert' \in BOOLEAN /\ configured' \in BOOLEAN
        /\ handshaked' \in BOOLEAN /\ quiet' \in BOOLEAN /\ got' \in BOOLEAN
    BY <1>0 DEF TypeOK
  <2>4. /\ key' \in {"none", "pem", "external"} /\ cfg' \in Configs
        /\ authmode' \in {"none", "required"}
        /\ ssl' \in {"fresh", "flight", "answer", "finished", "over"}
        /\ version' \in {"tls12", "tls13"}
        /\ handshaked' => ssl' = "over"
    BY <1>0 DEF TypeOK
  <2>5. /\ link' \in {"down", "open", "reset"}
        /\ peer' \in Servers /\ srv' \in {"accept", "backlog", "hello", "wait", "read", "gone"}
        /\ pc' \in {"key", "configure", "idle", "handshake", "send", "recv", "join", "done"}
        /\ connects' \in 0..MaxConnects
        /\ entry' \in {"fresh", "flight", "answer", "finished", "over"}
    BY <1>0 DEF TypeOK
  <2> QED
    BY <2>1, <2>2, <2>3, <2>4, <2>5 DEF TypeOK
<1>2. Prepared'
  BY <1>0, <1>r, <1>a DEF TypeOK, Prepared
<1>3. Greeting'
  BY <1>0, <1>r, <1>a DEF TypeOK, Prepared, Greeting, Unread
<1>4. Met'
  BY <1>0, <1>r, <1>a DEF TypeOK, Prepared, Greeting, Met, Unread, Trusted
<1>5. Evidence'
  <2>1. (pc = "handshake" /\ ssl \in {"answer", "finished", "over"} /\ srv \in {"wait", "read"}
           => Trusted)'
    BY <1>0, <1>r, <1>a DEF TypeOK, Prepared, Greeting, Evidence, Unread, Trusted, Mutual
  <2>2. (\A i \in 1..Len(c2s) :
           /\ c2s[i] = "signed" => ownCert /\ fits
           /\ srv = "wait" /\ c2s[i] \in {"bare", "signed"} => Trusted)'
    <3>1. CASE c2s' = c2s
      BY <1>0, <3>1 DEF TypeOK, Prepared, Evidence, Trusted
    <3>2. CASE c2s' = Append(c2s, "alert")
      BY <1>0, <1>a, <3>2 DEF TypeOK, Prepared, Evidence, Trusted
    <3> QED
      BY <3>1, <3>2
  <2>3. (srv = "read" => Mutual)'
    BY <1>0, <1>r, <1>a DEF TypeOK, Prepared, Greeting, Evidence, Unread, Trusted, Mutual
  <2>4. (\A i \in 1..Len(s2c) : s2c[i] = "app" => Mutual)'
    BY <1>0, <1>r, <1>a DEF TypeOK, Prepared, Greeting, Evidence, Unread, Trusted, Mutual
  <2>5. (got => Mutual)'
    BY <1>0, <1>r, <1>a DEF TypeOK, Prepared, Greeting, Evidence, Unread, Trusted, Mutual
  <2> QED
    BY <2>1, <2>2, <2>3, <2>4, <2>5 DEF Evidence
<1> QED
  BY <1>1, <1>2, <1>3, <1>4, <1>5 DEF IInv

\* SendFlight preserves the invariant.
LEMMA SendFlightKeeps == IInv /\ SendFlight => IInv'
<1> SUFFICES ASSUME IInv, SendFlight PROVE IInv'
  OBVIOUS
<1> USE MtlsAssumption DEF SendFlight, InHandshake, AsioSend, tls, config, transport, server, main
<1>0. TypeOK /\ Prepared /\ Greeting /\ Met /\ Evidence
  BY DEF IInv
<1>g. Signature \in {"bare", "signed", "forged"} /\ (Signature = "signed" => ownCert /\ fits)
  BY <1>0 DEF Signature, TypeOK
<1>a. /\ Append(c2s, Signature) \in Seq(ClientRecords)
      /\ Head(Append(c2s, Signature)) = IF c2s = <<>> THEN Signature ELSE Head(c2s)
      /\ \A i \in 1..Len(Append(c2s, Signature)) :
           Append(c2s, Signature)[i] = Signature \/ \E j \in 1..Len(c2s) : Append(c2s, Signature)[i] = c2s[j]
  BY <1>0, <1>g, AppendRecords DEF TypeOK, ClientRecords
<1>1. TypeOK'
  BY <1>0, <1>a DEF TypeOK
<1>2. Prepared'
  BY <1>0, <1>g, <1>a DEF TypeOK, Prepared
<1>3. Greeting'
  BY <1>0, <1>g, <1>a DEF TypeOK, Prepared, Greeting, Unread
<1>4. Met'
  BY <1>0, <1>g, <1>a DEF TypeOK, Prepared, Greeting, Met, Unread, Trusted
<1>5. Evidence'
  BY <1>0, <1>g, <1>a DEF TypeOK, Prepared, Greeting, Evidence, Unread, Trusted, Mutual
<1> QED
  BY <1>1, <1>2, <1>3, <1>4, <1>5 DEF IInv

\* SignFails preserves the invariant.
LEMMA SignFailsKeeps == IInv /\ SignFails => IInv'
<1> SUFFICES ASSUME IInv, SignFails PROVE IInv'
  OBVIOUS
<1> USE MtlsAssumption DEF SignFails, InHandshake, ConnectFails, tls, config, transport, server, main
<1>0. TypeOK /\ Prepared /\ Greeting /\ Met /\ Evidence
  BY DEF IInv
<1>1. TypeOK'
  BY <1>0 DEF TypeOK
<1>2. Prepared'
  BY <1>0 DEF TypeOK, Prepared
<1>3. Greeting'
  BY <1>0 DEF TypeOK, Prepared, Greeting, Unread
<1>4. Met'
  BY <1>0 DEF TypeOK, Prepared, Greeting, Met, Unread, Trusted
<1>5. Evidence'
  BY <1>0 DEF TypeOK, Prepared, Greeting, Evidence, Unread, Trusted, Mutual
<1> QED
  BY <1>1, <1>2, <1>3, <1>4, <1>5 DEF IInv

\* TakeFinished preserves the invariant.
LEMMA TakeFinishedKeeps == IInv /\ TakeFinished => IInv'
<1> SUFFICES ASSUME IInv, TakeFinished PROVE IInv'
  OBVIOUS
<1> USE MtlsAssumption DEF TakeFinished, InHandshake, AsioRecv, tls, config, transport, server, main
<1>0. TypeOK /\ Prepared /\ Greeting /\ Met /\ Evidence
  BY DEF IInv
<1>r. s2c # <<>> => /\ Tail(s2c) \in Seq(ServerRecords)
                   /\ Head(s2c) = s2c[1] /\ 1 \in 1..Len(s2c)
                   /\ \A i \in 1..Len(Tail(s2c)) : \E j \in 1..Len(s2c) : Tail(s2c)[i] = s2c[j]
  BY <1>0, TailRecords DEF TypeOK
<1>1. TypeOK'
  BY <1>0, <1>r DEF TypeOK
<1>2. Prepared'
  BY <1>0, <1>r DEF TypeOK, Prepared
<1>3. Greeting'
  BY <1>0, <1>r DEF TypeOK, Prepared, Greeting, Unread
<1>4. Met'
  BY <1>0, <1>r DEF TypeOK, Prepared, Greeting, Met, Unread, Trusted
<1>5. Evidence'
  BY <1>0, <1>r DEF TypeOK, Prepared, Greeting, Evidence, Unread, Trusted, Mutual
<1> QED
  BY <1>1, <1>2, <1>3, <1>4, <1>5 DEF IInv

\* HandshakeRefused preserves the invariant.
LEMMA HandshakeRefusedKeeps == IInv /\ HandshakeRefused => IInv'
<1> SUFFICES ASSUME IInv, HandshakeRefused PROVE IInv'
  OBVIOUS
<1> USE MtlsAssumption DEF HandshakeRefused, InHandshake, AsioRecv, AsioEof, ConnectFails, tls, config, transport, server, main
<1>0. TypeOK /\ Prepared /\ Greeting /\ Met /\ Evidence
  BY DEF IInv
<1>r. s2c # <<>> => /\ Tail(s2c) \in Seq(ServerRecords)
                   /\ Head(s2c) = s2c[1] /\ 1 \in 1..Len(s2c)
                   /\ \A i \in 1..Len(Tail(s2c)) : \E j \in 1..Len(s2c) : Tail(s2c)[i] = s2c[j]
  BY <1>0, TailRecords DEF TypeOK
<1>1. TypeOK'
  <2>1. c2s' \in Seq(ClientRecords)
    BY <1>0 DEF TypeOK
  <2>2. s2c' \in Seq(ServerRecords)
    BY <1>0, <1>r DEF TypeOK
  <2>3. /\ fits' \in BOOLEAN /\ ownCert' \in BOOLEAN /\ configured' \in BOOLEAN
        /\ handshaked' \in BOOLEAN /\ quiet' \in BOOLEAN /\ got' \in BOOLEAN
    BY <1>0 DEF TypeOK
  <2>4. /\ key' \in {"none", "pem", "external"} /\ cfg' \in Configs
        /\ authmode' \in {"none", "required"}
        /\ ssl' \in {"fresh", "flight", "answer", "finished", "over"}
        /\ version' \in {"tls12", "tls13"}
        /\ handshaked' => ssl' = "over"
    BY <1>0 DEF TypeOK
  <2>5. /\ link' \in {"down", "open", "reset"}
        /\ peer' \in Servers /\ srv' \in {"accept", "backlog", "hello", "wait", "read", "gone"}
        /\ pc' \in {"key", "configure", "idle", "handshake", "send", "recv", "join", "done"}
        /\ connects' \in 0..MaxConnects
        /\ entry' \in {"fresh", "flight", "answer", "finished", "over"}
    BY <1>0 DEF TypeOK
  <2> QED
    BY <2>1, <2>2, <2>3, <2>4, <2>5 DEF TypeOK
<1>2. Prepared'
  BY <1>0, <1>r DEF TypeOK, Prepared
<1>3. Greeting'
  BY <1>0, <1>r DEF TypeOK, Prepared, Greeting, Unread
<1>4. Met'
  BY <1>0, <1>r DEF TypeOK, Prepared, Greeting, Met, Unread, Trusted
<1>5. Evidence'
  <2>1. (pc = "handshake" /\ ssl \in {"answer", "finished", "over"} /\ srv \in {"wait", "read"}
           => Trusted)'
    BY <1>0, <1>r DEF TypeOK, Prepared, Greeting, Evidence, Unread, Trusted, Mutual
  <2>2. (\A i \in 1..Len(c2s) :
           /\ c2s[i] = "signed" => ownCert /\ fits
           /\ srv = "wait" /\ c2s[i] \in {"bare", "signed"} => Trusted)'
    BY <1>0, <1>r DEF TypeOK, Prepared, Greeting, Evidence, Unread, Trusted, Mutual
  <2>3. (srv = "read" => Mutual)'
    BY <1>0, <1>r DEF TypeOK, Prepared, Greeting, Evidence, Unread, Trusted, Mutual
  <2>4. (\A i \in 1..Len(s2c) : s2c[i] = "app" => Mutual)'
    BY <1>0, <1>r DEF TypeOK, Prepared, Greeting, Evidence, Unread, Trusted, Mutual
  <2>5. (got => Mutual)'
    BY <1>0, <1>r DEF TypeOK, Prepared, Greeting, Evidence, Unread, Trusted, Mutual
  <2> QED
    BY <2>1, <2>2, <2>3, <2>4, <2>5 DEF Evidence
<1> QED
  BY <1>1, <1>2, <1>3, <1>4, <1>5 DEF IInv

\* HandshakeBroken preserves the invariant.
LEMMA HandshakeBrokenKeeps == IInv /\ HandshakeBroken => IInv'
<1> SUFFICES ASSUME IInv, HandshakeBroken PROVE IInv'
  OBVIOUS
<1> USE MtlsAssumption DEF HandshakeBroken, InHandshake, ConnectFails, tls, config, transport, server, main
<1>0. TypeOK /\ Prepared /\ Greeting /\ Met /\ Evidence
  BY DEF IInv
<1>1. TypeOK'
  <2>1. c2s' \in Seq(ClientRecords)
    BY <1>0 DEF TypeOK
  <2>2. s2c' \in Seq(ServerRecords)
    BY <1>0 DEF TypeOK
  <2>3. /\ fits' \in BOOLEAN /\ ownCert' \in BOOLEAN /\ configured' \in BOOLEAN
        /\ handshaked' \in BOOLEAN /\ quiet' \in BOOLEAN /\ got' \in BOOLEAN
    BY <1>0 DEF TypeOK
  <2>4. /\ key' \in {"none", "pem", "external"} /\ cfg' \in Configs
        /\ authmode' \in {"none", "required"}
        /\ ssl' \in {"fresh", "flight", "answer", "finished", "over"}
        /\ version' \in {"tls12", "tls13"}
        /\ handshaked' => ssl' = "over"
    BY <1>0 DEF TypeOK
  <2>5. /\ link' \in {"down", "open", "reset"}
        /\ peer' \in Servers /\ srv' \in {"accept", "backlog", "hello", "wait", "read", "gone"}
        /\ pc' \in {"key", "configure", "idle", "handshake", "send", "recv", "join", "done"}
        /\ connects' \in 0..MaxConnects
        /\ entry' \in {"fresh", "flight", "answer", "finished", "over"}
    BY <1>0 DEF TypeOK
  <2> QED
    BY <2>1, <2>2, <2>3, <2>4, <2>5 DEF TypeOK
<1>2. Prepared'
  BY <1>0 DEF TypeOK, Prepared
<1>3. Greeting'
  BY <1>0 DEF TypeOK, Prepared, Greeting, Unread
<1>4. Met'
  BY <1>0 DEF TypeOK, Prepared, Greeting, Met, Unread, Trusted
<1>5. Evidence'
  BY <1>0 DEF TypeOK, Prepared, Greeting, Evidence, Unread, Trusted, Mutual
<1> QED
  BY <1>1, <1>2, <1>3, <1>4, <1>5 DEF IInv

\* HandshakeOver preserves the invariant.
LEMMA HandshakeOverKeeps == IInv /\ HandshakeOver => IInv'
<1> SUFFICES ASSUME IInv, HandshakeOver PROVE IInv'
  OBVIOUS
<1> USE MtlsAssumption DEF HandshakeOver, InHandshake, tls, config, transport, server, main
<1>0. TypeOK /\ Prepared /\ Greeting /\ Met /\ Evidence
  BY DEF IInv
<1>1. TypeOK'
  BY <1>0 DEF TypeOK
<1>2. Prepared'
  BY <1>0 DEF TypeOK, Prepared
<1>3. Greeting'
  BY <1>0 DEF TypeOK, Prepared, Greeting, Unread
<1>4. Met'
  BY <1>0 DEF TypeOK, Prepared, Greeting, Met, Unread, Trusted
<1>5. Evidence'
  BY <1>0 DEF TypeOK, Prepared, Greeting, Evidence, Unread, Trusted, Mutual
<1> QED
  BY <1>1, <1>2, <1>3, <1>4, <1>5 DEF IInv

\* Send preserves the invariant.
LEMMA SendKeeps == IInv /\ Send => IInv'
<1> SUFFICES ASSUME IInv, Send PROVE IInv'
  OBVIOUS
<1> USE MtlsAssumption DEF Send, AsioSend, tls, config, transport, server, main
<1>0. TypeOK /\ Prepared /\ Greeting /\ Met /\ Evidence
  BY DEF IInv
<1>a. /\ Append(c2s, "app") \in Seq(ClientRecords)
      /\ Head(Append(c2s, "app")) = IF c2s = <<>> THEN "app" ELSE Head(c2s)
      /\ \A i \in 1..Len(Append(c2s, "app")) :
           Append(c2s, "app")[i] = "app" \/ \E j \in 1..Len(c2s) : Append(c2s, "app")[i] = c2s[j]
  BY <1>0, AppendRecords DEF TypeOK, ClientRecords
<1>1. TypeOK'
  BY <1>0, <1>a DEF TypeOK
<1>2. Prepared'
  BY <1>0, <1>a DEF TypeOK, Prepared
<1>3. Greeting'
  BY <1>0, <1>a DEF TypeOK, Prepared, Greeting, Unread
<1>4. Met'
  BY <1>0, <1>a DEF TypeOK, Prepared, Greeting, Met, Unread, Trusted
<1>5. Evidence'
  <2>1. (pc = "handshake" /\ ssl \in {"answer", "finished", "over"} /\ srv \in {"wait", "read"}
           => Trusted)'
    BY <1>0, <1>a DEF TypeOK, Prepared, Greeting, Evidence, Unread, Trusted, Mutual
  <2>2. (\A i \in 1..Len(c2s) :
           /\ c2s[i] = "signed" => ownCert /\ fits
           /\ srv = "wait" /\ c2s[i] \in {"bare", "signed"} => Trusted)'
    <3>1. CASE c2s' = c2s
      BY <1>0, <3>1 DEF TypeOK, Prepared, Evidence, Trusted
    <3>2. CASE c2s' = Append(c2s, "app")
      BY <1>0, <1>a, <3>2 DEF TypeOK, Prepared, Evidence, Trusted
    <3> QED
      BY <3>1, <3>2
  <2>3. (srv = "read" => Mutual)'
    BY <1>0, <1>a DEF TypeOK, Prepared, Greeting, Evidence, Unread, Trusted, Mutual
  <2>4. (\A i \in 1..Len(s2c) : s2c[i] = "app" => Mutual)'
    BY <1>0, <1>a DEF TypeOK, Prepared, Greeting, Evidence, Unread, Trusted, Mutual
  <2>5. (got => Mutual)'
    BY <1>0, <1>a DEF TypeOK, Prepared, Greeting, Evidence, Unread, Trusted, Mutual
  <2> QED
    BY <2>1, <2>2, <2>3, <2>4, <2>5 DEF Evidence
<1> QED
  BY <1>1, <1>2, <1>3, <1>4, <1>5 DEF IInv

\* Recv preserves the invariant.
LEMMA RecvKeeps == IInv /\ Recv => IInv'
<1> SUFFICES ASSUME IInv, Recv PROVE IInv'
  OBVIOUS
<1> USE MtlsAssumption DEF Recv, AsioRecv, AsioEof, tls, config, transport, server, main
<1>0. TypeOK /\ Prepared /\ Greeting /\ Met /\ Evidence
  BY DEF IInv
<1>r. s2c # <<>> => /\ Tail(s2c) \in Seq(ServerRecords)
                   /\ Head(s2c) = s2c[1] /\ 1 \in 1..Len(s2c)
                   /\ \A i \in 1..Len(Tail(s2c)) : \E j \in 1..Len(s2c) : Tail(s2c)[i] = s2c[j]
  BY <1>0, TailRecords DEF TypeOK
<1>1. TypeOK'
  <2>1. c2s' \in Seq(ClientRecords)
    BY <1>0 DEF TypeOK
  <2>2. s2c' \in Seq(ServerRecords)
    BY <1>0, <1>r DEF TypeOK
  <2>3. /\ fits' \in BOOLEAN /\ ownCert' \in BOOLEAN /\ configured' \in BOOLEAN
        /\ handshaked' \in BOOLEAN /\ quiet' \in BOOLEAN /\ got' \in BOOLEAN
    BY <1>0 DEF TypeOK
  <2>4. /\ key' \in {"none", "pem", "external"} /\ cfg' \in Configs
        /\ authmode' \in {"none", "required"}
        /\ ssl' \in {"fresh", "flight", "answer", "finished", "over"}
        /\ version' \in {"tls12", "tls13"}
        /\ handshaked' => ssl' = "over"
    BY <1>0 DEF TypeOK
  <2>5. /\ link' \in {"down", "open", "reset"}
        /\ peer' \in Servers /\ srv' \in {"accept", "backlog", "hello", "wait", "read", "gone"}
        /\ pc' \in {"key", "configure", "idle", "handshake", "send", "recv", "join", "done"}
        /\ connects' \in 0..MaxConnects
        /\ entry' \in {"fresh", "flight", "answer", "finished", "over"}
    BY <1>0 DEF TypeOK
  <2> QED
    BY <2>1, <2>2, <2>3, <2>4, <2>5 DEF TypeOK
<1>2. Prepared'
  BY <1>0, <1>r DEF TypeOK, Prepared
<1>3. Greeting'
  BY <1>0, <1>r DEF TypeOK, Prepared, Greeting, Unread
<1>4. Met'
  BY <1>0, <1>r DEF TypeOK, Prepared, Greeting, Met, Unread, Trusted
<1>5. Evidence'
  <2>1. (pc = "handshake" /\ ssl \in {"answer", "finished", "over"} /\ srv \in {"wait", "read"}
           => Trusted)'
    BY <1>0, <1>r DEF TypeOK, Prepared, Greeting, Evidence, Unread, Trusted, Mutual
  <2>2. (\A i \in 1..Len(c2s) :
           /\ c2s[i] = "signed" => ownCert /\ fits
           /\ srv = "wait" /\ c2s[i] \in {"bare", "signed"} => Trusted)'
    BY <1>0, <1>r DEF TypeOK, Prepared, Greeting, Evidence, Unread, Trusted, Mutual
  <2>3. (srv = "read" => Mutual)'
    BY <1>0, <1>r DEF TypeOK, Prepared, Greeting, Evidence, Unread, Trusted, Mutual
  <2>4. (\A i \in 1..Len(s2c) : s2c[i] = "app" => Mutual)'
    BY <1>0, <1>r DEF TypeOK, Prepared, Greeting, Evidence, Unread, Trusted, Mutual
  <2>5. (got => Mutual)'
    BY <1>0, <1>r DEF TypeOK, Prepared, Greeting, Evidence, Unread, Trusted, Mutual
  <2> QED
    BY <2>1, <2>2, <2>3, <2>4, <2>5 DEF Evidence
<1> QED
  BY <1>1, <1>2, <1>3, <1>4, <1>5 DEF IInv

\* LinkResets preserves the invariant.
LEMMA LinkResetsKeeps == IInv /\ LinkResets => IInv'
<1> SUFFICES ASSUME IInv, LinkResets PROVE IInv'
  OBVIOUS
<1> USE MtlsAssumption DEF LinkResets, tls, config, transport, server, main
<1>0. TypeOK /\ Prepared /\ Greeting /\ Met /\ Evidence
  BY DEF IInv
<1>e. <<>> \in Seq(ClientRecords) /\ <<>> \in Seq(ServerRecords)
  BY EmptySeq
<1>1. TypeOK'
  BY <1>0, <1>e DEF TypeOK
<1>2. Prepared'
  BY <1>0 DEF TypeOK, Prepared
<1>3. Greeting'
  BY <1>0 DEF TypeOK, Prepared, Greeting, Unread
<1>4. Met'
  BY <1>0 DEF TypeOK, Prepared, Greeting, Met, Unread, Trusted
<1>5. Evidence'
  BY <1>0 DEF TypeOK, Prepared, Greeting, Evidence, Unread, Trusted, Mutual
<1> QED
  BY <1>1, <1>2, <1>3, <1>4, <1>5 DEF IInv

\* Accept preserves the invariant.
LEMMA AcceptKeeps == IInv /\ Accept => IInv'
<1> SUFFICES ASSUME IInv, Accept PROVE IInv'
  OBVIOUS
<1> USE MtlsAssumption DEF Accept, tls, config, transport, server, main
<1>0. TypeOK /\ Prepared /\ Greeting /\ Met /\ Evidence
  BY DEF IInv
<1>1. TypeOK'
  BY <1>0 DEF TypeOK
<1>2. Prepared'
  BY <1>0 DEF TypeOK, Prepared
<1>3. Greeting'
  BY <1>0 DEF TypeOK, Prepared, Greeting, Unread
<1>4. Met'
  BY <1>0 DEF TypeOK, Prepared, Greeting, Met, Unread, Trusted
<1>5. Evidence'
  BY <1>0 DEF TypeOK, Prepared, Greeting, Evidence, Unread, Trusted, Mutual
<1> QED
  BY <1>1, <1>2, <1>3, <1>4, <1>5 DEF IInv

\* ServerHello preserves the invariant.
LEMMA ServerHelloKeeps == IInv /\ ServerHello => IInv'
<1> SUFFICES ASSUME IInv, ServerHello PROVE IInv'
  OBVIOUS
<1> USE MtlsAssumption DEF ServerHello, Reply, Refuse, tls, config, transport, server, main
<1>0. TypeOK /\ Prepared /\ Greeting /\ Met /\ Evidence
  BY DEF IInv
<1>c. /\ Tail(c2s) \in Seq(ClientRecords)
      /\ Head(c2s) = c2s[1] /\ 1 \in 1..Len(c2s)
      /\ \A i \in 1..Len(Tail(c2s)) : \E j \in 1..Len(c2s) : Tail(c2s)[i] = c2s[j]
  BY <1>0, TailRecords DEF TypeOK
<1>s. \A r \in Seq(ServerRecords) :
        /\ s2c \o r \in Seq(ServerRecords)
        /\ \A i \in 1..Len(s2c \o r) :
             \/ (\E j \in 1..Len(s2c) : (s2c \o r)[i] = s2c[j])
             \/ (\E j \in 1..Len(r) : (s2c \o r)[i] = r[j])
  BY <1>0, ReplyRecords DEF TypeOK
<1>n. /\ <<>> \in Seq(ServerRecords)
      /\ <<"flight">> \in Seq(ServerRecords)
      /\ <<"alert">> \in Seq(ServerRecords)
  BY DEF ServerRecords
<1>r. s2c' = s2c \/ \E r \in {<<>>, <<"flight">>, <<"alert">>} : s2c' = s2c \o r
  OBVIOUS
<1>1. TypeOK'
  <2>0. s2c \in Seq(ServerRecords)
    BY <1>0 DEF TypeOK
  <2>1. s2c' \in Seq(ServerRecords)
    <3>1. \A r \in {<<>>, <<"flight">>, <<"alert">>} : s2c \o r \in Seq(ServerRecords)
      BY ONLY <1>s, <1>n
    <3> QED
      BY ONLY <1>r, <2>0, <3>1
  <2> QED
    BY <1>0, <1>c, <2>1 DEF TypeOK
<1>2. Prepared'
  BY <1>0, <1>c, <1>s, <1>n DEF TypeOK, Prepared
<1>3. Greeting'
  BY <1>0, <1>c, <1>s, <1>n DEF TypeOK, Prepared, Greeting, Unread
<1>4. Met'
  BY <1>0, <1>c, <1>s, <1>n DEF TypeOK, Prepared, Greeting, Met, Unread, Trusted
<1>5. Evidence'
  BY <1>0, <1>c, <1>s, <1>n DEF TypeOK, Prepared, Greeting, Evidence, Unread, Trusted, Mutual
<1> QED
  BY <1>1, <1>2, <1>3, <1>4, <1>5 DEF IInv

\* ServerFlight preserves the invariant.
LEMMA ServerFlightKeeps == IInv /\ ServerFlight => IInv'
<1> SUFFICES ASSUME IInv, ServerFlight PROVE IInv'
  OBVIOUS
<1> USE MtlsAssumption DEF ServerFlight, Reply, Refuse, Acceptable, tls, config, transport, server, main
<1>0. TypeOK /\ Prepared /\ Greeting /\ Met /\ Evidence
  BY DEF IInv
<1>c. /\ Tail(c2s) \in Seq(ClientRecords)
      /\ Head(c2s) = c2s[1] /\ 1 \in 1..Len(c2s)
      /\ \A i \in 1..Len(Tail(c2s)) : \E j \in 1..Len(c2s) : Tail(c2s)[i] = c2s[j]
  BY <1>0, TailRecords DEF TypeOK
<1>s. \A r \in Seq(ServerRecords) :
        /\ s2c \o r \in Seq(ServerRecords)
        /\ \A i \in 1..Len(s2c \o r) :
             \/ (\E j \in 1..Len(s2c) : (s2c \o r)[i] = s2c[j])
             \/ (\E j \in 1..Len(r) : (s2c \o r)[i] = r[j])
  BY <1>0, ReplyRecords DEF TypeOK
<1>n. /\ <<>> \in Seq(ServerRecords)
      /\ <<"finished">> \in Seq(ServerRecords)
      /\ <<"alert">> \in Seq(ServerRecords)
  BY DEF ServerRecords
<1>1. TypeOK'
  <2>1. c2s' \in Seq(ClientRecords)
    BY <1>0, <1>c DEF TypeOK
  <2>2. s2c' \in Seq(ServerRecords)
    <3>1. s2c' = s2c \/ \E r \in {<<>>, <<"finished">>, <<"alert">>} : s2c' = s2c \o r
      BY DEF TypeOK
    <3>2. \A r \in {<<>>, <<"finished">>, <<"alert">>} : s2c \o r \in Seq(ServerRecords)
      BY <1>s, <1>n
    <3>3. s2c \in Seq(ServerRecords)
      BY <1>0 DEF TypeOK
    <3> HIDE DEF ServerFlight, Reply, Refuse, Acceptable
    <3> QED
      BY <3>1, <3>2, <3>3
  <2>3. /\ fits' \in BOOLEAN /\ ownCert' \in BOOLEAN /\ configured' \in BOOLEAN
        /\ handshaked' \in BOOLEAN /\ quiet' \in BOOLEAN /\ got' \in BOOLEAN
    BY <1>0 DEF TypeOK
  <2>4. /\ key' \in {"none", "pem", "external"} /\ cfg' \in Configs
        /\ authmode' \in {"none", "required"}
        /\ ssl' \in {"fresh", "flight", "answer", "finished", "over"}
        /\ version' \in {"tls12", "tls13"}
        /\ handshaked' => ssl' = "over"
    BY <1>0 DEF TypeOK
  <2>5. /\ link' \in {"down", "open", "reset"}
        /\ peer' \in Servers /\ srv' \in {"accept", "backlog", "hello", "wait", "read", "gone"}
        /\ pc' \in {"key", "configure", "idle", "handshake", "send", "recv", "join", "done"}
        /\ connects' \in 0..MaxConnects
        /\ entry' \in {"fresh", "flight", "answer", "finished", "over"}
    BY <1>0 DEF TypeOK
  <2> QED
    BY <2>1, <2>2, <2>3, <2>4, <2>5 DEF TypeOK
<1>2. Prepared'
  BY <1>0, <1>c, <1>s, <1>n DEF TypeOK, Prepared
<1>3. Greeting'
  BY <1>0, <1>c, <1>s, <1>n DEF TypeOK, Prepared, Greeting, Unread
<1>4. Met'
  BY <1>0, <1>c, <1>s, <1>n DEF TypeOK, Prepared, Greeting, Met, Unread, Trusted
<1>5. Evidence'
  <2>1. (pc = "handshake" /\ ssl \in {"answer", "finished", "over"} /\ srv \in {"wait", "read"}
           => Trusted)'
    BY <1>0, <1>c, <1>s, <1>n DEF TypeOK, Prepared, Greeting, Evidence, Unread, Trusted, Mutual
  <2>2. (\A i \in 1..Len(c2s) :
           /\ c2s[i] = "signed" => ownCert /\ fits
           /\ srv = "wait" /\ c2s[i] \in {"bare", "signed"} => Trusted)'
    BY <1>0, <1>c, <1>s, <1>n DEF TypeOK, Prepared, Greeting, Evidence, Unread, Trusted, Mutual
  <2>3. (srv = "read" => Mutual)'
    BY <1>0, <1>c, <1>s, <1>n DEF TypeOK, Prepared, Greeting, Evidence, Unread, Trusted, Mutual
  <2>4. (\A i \in 1..Len(s2c) : s2c[i] = "app" => Mutual)'
    BY <1>0, <1>c, <1>s, <1>n DEF TypeOK, Prepared, Greeting, Evidence, Unread, Trusted, Mutual
  <2>5. (got => Mutual)'
    BY <1>0, <1>c, <1>s, <1>n DEF TypeOK, Prepared, Greeting, Evidence, Unread, Trusted, Mutual
  <2> QED
    BY <2>1, <2>2, <2>3, <2>4, <2>5 DEF Evidence
<1> QED
  BY <1>1, <1>2, <1>3, <1>4, <1>5 DEF IInv

\* ServerEcho preserves the invariant.
LEMMA ServerEchoKeeps == IInv /\ ServerEcho => IInv'
<1> SUFFICES ASSUME IInv, ServerEcho PROVE IInv'
  OBVIOUS
<1> USE MtlsAssumption DEF ServerEcho, Reply, tls, config, transport, server, main
<1>0. TypeOK /\ Prepared /\ Greeting /\ Met /\ Evidence
  BY DEF IInv
<1>c. /\ Tail(c2s) \in Seq(ClientRecords)
      /\ Head(c2s) = c2s[1] /\ 1 \in 1..Len(c2s)
      /\ \A i \in 1..Len(Tail(c2s)) : \E j \in 1..Len(c2s) : Tail(c2s)[i] = c2s[j]
  BY <1>0, TailRecords DEF TypeOK
<1>s. \A r \in Seq(ServerRecords) :
        /\ s2c \o r \in Seq(ServerRecords)
        /\ \A i \in 1..Len(s2c \o r) :
             \/ (\E j \in 1..Len(s2c) : (s2c \o r)[i] = s2c[j])
             \/ (\E j \in 1..Len(r) : (s2c \o r)[i] = r[j])
  BY <1>0, ReplyRecords DEF TypeOK
<1>n. /\ <<>> \in Seq(ServerRecords)
      /\ <<"notify">> \in Seq(ServerRecords)
      /\ <<"app", "notify">> \in Seq(ServerRecords)
  BY DEF ServerRecords
<1>1. TypeOK'
  <2>1. c2s' \in Seq(ClientRecords)
    BY <1>0, <1>c DEF TypeOK
  <2>2. s2c' \in Seq(ServerRecords)
    BY <1>0, <1>s, <1>n DEF TypeOK
  <2>3. /\ fits' \in BOOLEAN /\ ownCert' \in BOOLEAN /\ configured' \in BOOLEAN
        /\ handshaked' \in BOOLEAN /\ quiet' \in BOOLEAN /\ got' \in BOOLEAN
    BY <1>0 DEF TypeOK
  <2>4. /\ key' \in {"none", "pem", "external"} /\ cfg' \in Configs
        /\ authmode' \in {"none", "required"}
        /\ ssl' \in {"fresh", "flight", "answer", "finished", "over"}
        /\ version' \in {"tls12", "tls13"}
        /\ handshaked' => ssl' = "over"
    BY <1>0 DEF TypeOK
  <2>5. /\ link' \in {"down", "open", "reset"}
        /\ peer' \in Servers /\ srv' \in {"accept", "backlog", "hello", "wait", "read", "gone"}
        /\ pc' \in {"key", "configure", "idle", "handshake", "send", "recv", "join", "done"}
        /\ connects' \in 0..MaxConnects
        /\ entry' \in {"fresh", "flight", "answer", "finished", "over"}
    BY <1>0 DEF TypeOK
  <2> QED
    BY <2>1, <2>2, <2>3, <2>4, <2>5 DEF TypeOK
<1>2. Prepared'
  BY <1>0, <1>c, <1>s, <1>n DEF TypeOK, Prepared
<1>3. Greeting'
  BY <1>0, <1>c, <1>s, <1>n DEF TypeOK, Prepared, Greeting, Unread
<1>4. Met'
  BY <1>0, <1>c, <1>s, <1>n DEF TypeOK, Prepared, Greeting, Met, Unread, Trusted
<1>5. Evidence'
  <2>1. (pc = "handshake" /\ ssl \in {"answer", "finished", "over"} /\ srv \in {"wait", "read"}
           => Trusted)'
    BY <1>0, <1>c, <1>s, <1>n DEF TypeOK, Prepared, Greeting, Evidence, Unread, Trusted, Mutual
  <2>2. (\A i \in 1..Len(c2s) :
           /\ c2s[i] = "signed" => ownCert /\ fits
           /\ srv = "wait" /\ c2s[i] \in {"bare", "signed"} => Trusted)'
    BY <1>0, <1>c, <1>s, <1>n DEF TypeOK, Prepared, Greeting, Evidence, Unread, Trusted, Mutual
  <2>3. (srv = "read" => Mutual)'
    BY <1>0, <1>c, <1>s, <1>n DEF TypeOK, Prepared, Greeting, Evidence, Unread, Trusted, Mutual
  <2>4. (\A i \in 1..Len(s2c) : s2c[i] = "app" => Mutual)'
    BY <1>0, <1>c, <1>s, <1>n DEF TypeOK, Prepared, Greeting, Evidence, Unread, Trusted, Mutual
  <2>5. (got => Mutual)'
    BY <1>0, <1>c, <1>s, <1>n DEF TypeOK, Prepared, Greeting, Evidence, Unread, Trusted, Mutual
  <2> QED
    BY <2>1, <2>2, <2>3, <2>4, <2>5 DEF Evidence
<1> QED
  BY <1>1, <1>2, <1>3, <1>4, <1>5 DEF IInv

\* ServerEof preserves the invariant.
LEMMA ServerEofKeeps == IInv /\ ServerEof => IInv'
<1> SUFFICES ASSUME IInv, ServerEof PROVE IInv'
  OBVIOUS
<1> USE MtlsAssumption DEF ServerEof, tls, config, transport, server, main
<1>0. TypeOK /\ Prepared /\ Greeting /\ Met /\ Evidence
  BY DEF IInv
<1>1. TypeOK'
  BY <1>0 DEF TypeOK
<1>2. Prepared'
  BY <1>0 DEF TypeOK, Prepared
<1>3. Greeting'
  BY <1>0 DEF TypeOK, Prepared, Greeting, Unread
<1>4. Met'
  BY <1>0 DEF TypeOK, Prepared, Greeting, Met, Unread, Trusted
<1>5. Evidence'
  BY <1>0 DEF TypeOK, Prepared, Greeting, Evidence, Unread, Trusted, Mutual
<1> QED
  BY <1>1, <1>2, <1>3, <1>4, <1>5 DEF IInv

\* The first state satisfies the invariant.
LEMMA InitEstablishes == Init => IInv
<1> SUFFICES ASSUME Init PROVE IInv
  OBVIOUS
<1>1. c2s \in Seq(ClientRecords) /\ s2c \in Seq(ServerRecords)
  BY EmptySeq DEF Init
<1>2. TypeOK
  <2>1. connects \in 0..MaxConnects
    BY MtlsAssumption DEF Init
  <2>2. /\ fits \in BOOLEAN /\ ownCert \in BOOLEAN /\ configured \in BOOLEAN
        /\ handshaked \in BOOLEAN /\ quiet \in BOOLEAN /\ got \in BOOLEAN
    BY DEF Init
  <2> QED
    BY <1>1, <2>1, <2>2 DEF Init, TypeOK
<1>3. Prepared /\ Greeting /\ Met
  BY DEF Init, Prepared, Greeting, Met, Unread
<1>4. Evidence
  BY DEF Init, Evidence
<1> QED
  BY <1>2, <1>3, <1>4 DEF IInv

\* Every step preserves the invariant.
LEMMA NextKeeps == IInv /\ [Next]_vars => IInv'
<1> SUFFICES ASSUME IInv, [Next]_vars PROVE IInv'
  OBVIOUS
<1>1. CASE UsePemKey
  BY <1>1, UsePemKeyKeeps
<1>2. CASE UseExternalKey
  BY <1>2, UseExternalKeyKeeps
<1>3. CASE Configure
  BY <1>3, ConfigureKeeps
<1>4. CASE Connect
  BY <1>4, ConnectKeeps
<1>5. CASE Close
  BY <1>5, CloseKeeps
<1>6. CASE Join
  BY <1>6, JoinKeeps
<1>7. CASE SendHello
  BY <1>7, SendHelloKeeps
<1>8. CASE TakeFlight
  BY <1>8, TakeFlightKeeps
<1>9. CASE SendFlight
  BY <1>9, SendFlightKeeps
<1>10. CASE TakeFinished
  BY <1>10, TakeFinishedKeeps
<1>11. CASE HandshakeRefused
  BY <1>11, HandshakeRefusedKeeps
<1>12. CASE HandshakeBroken
  BY <1>12, HandshakeBrokenKeeps
<1>13. CASE HandshakeOver
  BY <1>13, HandshakeOverKeeps
<1>14. CASE Send
  BY <1>14, SendKeeps
<1>15. CASE Recv
  BY <1>15, RecvKeeps
<1>16. CASE Joined
  BY <1>16, JoinedKeeps
<1>17. CASE Accept
  BY <1>17, AcceptKeeps
<1>18. CASE ServerHello
  BY <1>18, ServerHelloKeeps
<1>19. CASE ServerFlight
  BY <1>19, ServerFlightKeeps
<1>20. CASE ServerEcho
  BY <1>20, ServerEchoKeeps
<1>21. CASE ServerEof
  BY <1>21, ServerEofKeeps
<1>22. CASE SignFails
  BY <1>22, SignFailsKeeps
<1>23. CASE LinkResets
  BY <1>23, LinkResetsKeeps
<1>24. CASE UNCHANGED vars
  BY <1>24 DEF vars, tls, transport, server, main, IInv, TypeOK, Prepared, Greeting, Met,
       Evidence, Unread, Trusted, Mutual
<1> QED
  BY <1>1, <1>2, <1>3, <1>4, <1>5, <1>6, <1>7, <1>8, <1>9, <1>10, <1>11, <1>12, <1>13, <1>14, <1>15, <1>16, <1>17, <1>18, <1>19, <1>20, <1>21, <1>22, <1>23, <1>24
     DEF Next, MainStep, Handshake, ServerStep

\* The invariant holds in every state of every behaviour.
LEMMA Invariance == Spec => []IInv
<1>1. Init => IInv
  BY InitEstablishes
<1>2. IInv /\ [Next]_vars => IInv'
  BY NextKeeps
<1> QED
  BY <1>1, <1>2, PTL DEF Spec

\* Every state of TlsSocket, of its transport and of the two threads has the
\* declared shape, and handshaked_ implies that ssl_ is past its handshake.
THEOREM TypeCorrect == Spec => []TypeOK
<1>1. IInv => TypeOK
  BY DEF IInv
<1> QED
  BY <1>1, Invariance, PTL

\* A Connect on a context that has not begun a handshake returns Ok only when
\* this connection's server has answered it and is one that authmode accepts:
\* for any servers, configurations and faults and any number of connections.
THEOREM FreshConnectAuthenticates == Spec => []FirstConnectAuthenticates
<1>1. IInv => FirstConnectAuthenticates
  BY DEF IInv, TypeOK, Prepared, Met, FirstConnectAuthenticates, ConnectAuthenticates,
         Unread, Trusted
<1> QED
  BY <1>1, Invariance, PTL

\* The echo reaches the client only when both ends have authenticated each
\* other as far as they demand it, on a reused context too.
THEOREM EchoIsMutual == Spec => []EchoMeansMutual
<1>1. IInv => EchoMeansMutual
  BY DEF IInv, Evidence, EchoMeansMutual, Mutual, Trusted
<1> QED
  BY <1>1, Invariance, PTL

=============================================================================
