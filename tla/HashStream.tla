----------------------------- MODULE HashStream -----------------------------
(***************************************************************************)
(* Streams into sinks and hashes: io::Copy from a reader through a scratch *)
(* buffer into one writer or a TeeWriter of two (src/io/io.cpp), crypto's  *)
(* HashStream on top of it, and the hashers it feeds, Sha256 and           *)
(* HmacSha256 (src/crypto).  Copy and Final advance one read, one write    *)
(* and one padding byte at a time.                                         *)
(*                                                                         *)
(* A byte is a tuple <<kind, ...>>.  The compression function is taken for *)
(* injective: a hash state is the sequence of blocks it has compressed.    *)
(***************************************************************************)
EXTENDS Integers, Sequences, SequencesExt

CONSTANTS
  Block,         \* kBlock, size of buffer_ (64)
  LenSize,       \* bytes of the length field (8)
  BitMod,        \* values of bitlen_, a uint64_t with as many bits as that field
  DigestSize,    \* kSha256DigestSize (32)
  Keys,          \* HMAC keys, sequences of bytes <<"key", n>>
  Lengths,       \* lengths of sources
  Scratches,     \* sizes of scratch buffers
  Capacity,      \* size of a SpanWriter's buffer
  Pipes,         \* what is written to: <<w>>, or <<a, b>> for a TeeWriter
  MaxCalls       \* bound: calls on the same hasher and writers

ASSUME HashAssumption ==
  /\ LenSize \in Nat \ {0} /\ Block \in Nat /\ LenSize < Block /\ DigestSize \in Nat \ {0}
  /\ BitMod \in Nat \ {0} /\ BitMod = 256^LenSize
  /\ \A k \in Keys : k \in Seq({"key"} \X Nat)
  /\ Lengths \subseteq Nat /\ Scratches \subseteq Nat /\ Capacity \in Nat /\ MaxCalls \in Nat
  /\ \A p \in Pipes :
       /\ p \in Seq({"hash", "span", "count", "file"}) /\ Len(p) \in {1, 2}
       /\ Len(p) = 2 => p[1] # p[2]    \* a tee has two writers

VARIABLES
  key,           \* of the HmacSha256, NoKey for a Sha256
  sha,           \* the hasher, and the outer Sha256 of HmacSha256::Final
  sinks,         \* what each other writer has taken
  \* the call in progress
  pc,            \* "idle", "read", "write", "final", "zero"
  obj,           \* which hash Final works on: "inner" or "outer"
  call,          \* "copy", "stream" or "final"
  pipe, scratch, \* its arguments
  src,           \* what the reader has left
  piece,         \* what scratch holds
  sink,          \* which writer of the pipe is next
  total,         \* bytes copied
  bits,          \* bitlen_ when Final was entered
  result,        \* what the last call returned
  calls,
  \* history
  fed,           \* every byte Update took since the hasher was made
  before         \* what the sinks, the hasher among them, had when the call began, and its source

args == <<call, pipe, scratch>>
copy == <<src, piece, sink, total>>
vars == <<key, sha, sinks, pc, obj, args, copy, bits, result, calls, fed, before>>

NoKey == <<"none">>
Zero  == <<"zero">>
Pad   == <<"0x80">>

Source(n) == [i \in 1..n |-> <<"data", i>>]
Cut(s, i, n) == SubSeq(s, i, i + n - 1)

\* The whole blocks of a message, and what is left of it behind them.
Blocks(m)    == [i \in 1..(Len(m) \div Block) |-> Cut(m, (i - 1) * Block + 1, Block)]
Remainder(m) == Cut(m, (Len(m) \div Block) * Block + 1, Len(m) % Block)

-----------------------------------------------------------------------------
(* Sha256                                                                  *)

Fresh == [state |-> <<>>, buffer |-> <<>>, bitlen |-> 0, finalized |-> FALSE]

\* Mutant of Update: a full buffer waits for the next byte.
UpdateLate(h, data) ==
  LET room  == IF h.buffer = <<>> THEN 0 ELSE Block + 1 - Len(h.buffer)
      k     == IF Len(data) < room THEN Len(data) ELSE room
      full  == h.buffer \o Cut(data, 1, k)
      head  == IF Len(full) >= Block THEN <<full>> ELSE <<>>
      rest  == Cut(data, k + 1, Len(data) - k)
  IN  [h EXCEPT !.bitlen = @ + 8 * Len(data),
                !.state  = @ \o head \o Blocks(rest),
                !.buffer = (IF head = <<>> THEN full ELSE <<>>) \o Remainder(rest)]

\* Update on a hash that is not finalized: a partial block is filled first,
\* then whole blocks are compressed where they are, and the rest is kept.
Update(h, data) ==
  LET room  == IF h.buffer = <<>> THEN 0 ELSE Block - Len(h.buffer)
      k     == IF Len(data) < room THEN Len(data) ELSE room
      full  == h.buffer \o Cut(data, 1, k)
      head  == IF Len(full) = Block THEN <<full>> ELSE <<>>
      rest  == Cut(data, k + 1, Len(data) - k)
  IN  [h EXCEPT !.bitlen = (@ + 8 * Len(data)) % BitMod,
                !.state  = @ \o head \o Blocks(rest),
                !.buffer = (IF head = <<>> THEN full ELSE <<>>) \o Remainder(rest)]

\* lenbuf: the length, most significant byte first.
Lenbuf(n) == [i \in 1..LenSize |-> <<"len", (n \div 256^(LenSize - i)) % 256>>]

Zeros(n) == [i \in 1..n |-> Zero]

\* The bytes of a digest.
Digest(state) == [i \in 1..DigestSize |-> <<"digest", state, i>>]

\* What Final makes of a hash, in one go where nothing can come between: the
\* loop takes as many zeros as bring buffer_ to the place of the length.
Zeroed(h, n) == Update(Update(h, <<Pad>>), Zeros(n))
Finished(h) ==
  LET zeros == CHOOSE n \in 0..(Block - 1) : Len(Zeroed(h, n).buffer) = Block - LenSize
  IN  Append(Zeroed(h, zeros).state, Zeroed(h, zeros).buffer \o Lenbuf(h.bitlen))

\* Sha256::Hash, Update and Final on a hash of its own.
Hash(data) == Finished(Update(Fresh, data))

-----------------------------------------------------------------------------
(* HmacSha256                                                              *)

\* k of Init, for each key: zeros, and the key, or the digest of one longer
\* than a block, copied over the beginning.
KeyBlock ==
  [k \in Keys |->
     LET short == IF Len(k) > Block THEN Digest(Hash(k)) ELSE k
     IN  [i \in 1..Block |-> IF i <= Len(short) THEN short[i] ELSE Zero]]

\* ikey and okey_.
Xor(p, k) == [i \in 1..Block |-> <<p, KeyBlock[k][i]>>]

-----------------------------------------------------------------------------
(* What SHA-256 and HMAC are, whatever the pieces they are fed in          *)

Padded(m) ==
  m \o <<Pad>> \o Zeros((2 * Block - LenSize - 1 - (Len(m) % Block)) % Block)
    \o Lenbuf((8 * Len(m)) % BitMod)

Sha(m) == Blocks(Padded(m))

\* The key of HMAC is a block: one that is longer is hashed, a shorter one
\* padded with zeros.
HmacKey(k) ==
  LET short == IF Len(k) > Block THEN Digest(Sha(k)) ELSE k
  IN  short \o Zeros(Block - Len(short))

Masked(p, k) == LET b == HmacKey(k) IN [i \in 1..Block |-> <<p, b[i]>>]

Hmac(k, m) == Sha(Masked("opad", k) \o Digest(Sha(Masked("ipad", k) \o m)))

Reference(m) == IF key = NoKey THEN Sha(m) ELSE Hmac(key, m)

-----------------------------------------------------------------------------

\* A hasher just made, or a Sha256 after Reset.
Made(k) == IF k = NoKey THEN Fresh ELSE Update(Fresh, Xor("ipad", k))

Nothing == [w \in {"span", "count", "file"} |-> <<>>]

Init ==
  /\ key \in Keys \cup {NoKey}
  /\ sha = [inner |-> Made(key), outer |-> Fresh] /\ sinks = Nothing
  /\ pc = "idle" /\ obj = "inner" /\ call = "none" /\ pipe = <<>> /\ scratch = 0
  /\ src = <<>> /\ piece = <<>> /\ sink = 1 /\ total = 0 /\ bits = 0
  /\ result = [call |-> "none", ok |-> FALSE, value |-> <<>>] /\ calls = 0
  /\ fed = <<>> /\ before = [sinks |-> Nothing, fed |-> <<>>, src |-> <<>>]

Returns(ok, value) == pc' = "idle" /\ result' = [call |-> call', ok |-> ok, value |-> value]

\* Reset, or a new hasher, and new writers.
Reset ==
  /\ pc = "idle" /\ calls < MaxCalls /\ calls' = calls + 1
  /\ sha' = [inner |-> Made(key), outer |-> Fresh] /\ fed' = <<>> /\ sinks' = Nothing
  /\ call' = "reset" /\ Returns(TRUE, <<>>)
  /\ UNCHANGED <<key, obj, pipe, scratch, copy, bits, before>>

\* Copy, alone or from HashStream, which writes to the hasher.
Copy ==
  /\ pc = "idle" /\ calls < MaxCalls /\ calls' = calls + 1
  /\ \E n \in Lengths, s \in Scratches :
       /\ src' = Source(n) /\ scratch' = s
       /\ before' = [sinks |-> sinks, fed |-> fed, src |-> Source(n)]
       /\ \/ call' = "copy" /\ pipe' \in Pipes
          \/ call' = "stream" /\ pipe' = <<"hash">>
       /\ IF s = 0 THEN Returns(FALSE, <<>>) ELSE pc' = "read" /\ UNCHANGED result
  /\ piece' = <<>> /\ total' = 0 /\ sink' = 1
  /\ UNCHANGED <<key, sha, sinks, obj, bits, fed>>

\* SpanReader::Read takes what fits; another reader may take less.
Read ==
  /\ pc = "read" /\ src # <<>>
  /\ \E n \in 1..scratch :
       /\ n <= Len(src)
       /\ piece' = Cut(src, 1, n) /\ src' = Cut(src, n + 1, Len(src) - n)
  /\ pc' = "write" /\ sink' = 1
  /\ UNCHANGED <<key, sha, sinks, obj, args, total, bits, result, calls, fed, before>>

ReadFails ==
  /\ pc = "read"
  /\ UNCHANGED call /\ Returns(FALSE, <<>>)
  /\ UNCHANGED <<key, sha, sinks, obj, pipe, scratch, copy, bits, calls, fed, before>>

\* Mutant of Written: the count is of the buffer, not of what was read.
WrittenScratch ==
  IF sink < Len(pipe) THEN sink' = sink + 1 /\ UNCHANGED <<pc, total>>
  ELSE sink' = 1 /\ pc' = "read" /\ total' = total + scratch

\* The next writer of the tee, or the next read.
Written ==
  IF sink < Len(pipe) THEN sink' = sink + 1 /\ UNCHANGED <<pc, total>>
  ELSE sink' = 1 /\ pc' = "read" /\ total' = total + Len(piece)

WriteHash ==
  /\ pc = "write" /\ pipe[sink] = "hash"
  /\ IF sha["inner"].finalized
       THEN /\ UNCHANGED call /\ Returns(FALSE, <<>>) /\ UNCHANGED <<sha, fed, sink, total>>
       ELSE /\ sha' = [sha EXCEPT !["inner"] = Update(@, piece)] /\ fed' = fed \o piece
            /\ Written /\ UNCHANGED <<call, result>>
  /\ UNCHANGED <<key, sinks, obj, pipe, scratch, src, piece, bits, calls, before>>

\* SpanWriter refuses what does not fit.
Fits(w) == w = "span" => Len(piece) <= Capacity - Len(sinks[w])

WriteSink ==
  /\ pc = "write" /\ pipe[sink] # "hash" /\ Fits(pipe[sink])
  /\ sinks' = [sinks EXCEPT ![pipe[sink]] = @ \o piece]
  /\ Written
  /\ UNCHANGED <<key, sha, obj, args, src, piece, bits, result, calls, fed, before>>

\* A full SpanWriter takes nothing, an fwrite cut short a part.
WriteFails ==
  /\ pc = "write" /\ pipe[sink] # "hash"
  /\ \/ ~Fits(pipe[sink]) /\ UNCHANGED sinks
     \/ /\ pipe[sink] = "file"
        /\ \E n \in 0..(Len(piece) - 1) : sinks' = [sinks EXCEPT !["file"] = @ \o Cut(piece, 1, n)]
  /\ UNCHANGED call /\ Returns(FALSE, <<>>)
  /\ UNCHANGED <<key, sha, obj, pipe, scratch, copy, bits, calls, fed, before>>

\* A read of nothing is the end of the stream.
CopyDone ==
  /\ pc = "read" /\ src = <<>>
  /\ IF call = "stream"
       THEN pc' = "final" /\ UNCHANGED <<call, result>>
       ELSE UNCHANGED call /\ Returns(TRUE, <<total>>)
  /\ UNCHANGED <<key, sha, sinks, obj, pipe, scratch, copy, bits, calls, fed, before>>

\* A Final of the caller's own.
Final ==
  /\ pc = "idle" /\ calls < MaxCalls /\ calls' = calls + 1
  /\ call' = "final" /\ pc' = "final"
  /\ UNCHANGED <<key, sha, sinks, obj, pipe, scratch, copy, bits, result, fed, before>>

\* Mutant of FinalPad: the padding counts as data.
FinalPadCounted ==
  /\ pc = "final" /\ ~sha[obj].finalized
  /\ sha' = [sha EXCEPT ![obj] = Update(@, <<Pad>>)] /\ bits' = sha'[obj].bitlen
  /\ pc' = "zero"
  /\ UNCHANGED <<key, sinks, obj, args, copy, result, calls, fed, before>>

FinalPad ==
  /\ pc = "final" /\ ~sha[obj].finalized
  /\ bits' = sha[obj].bitlen /\ sha' = [sha EXCEPT ![obj] = Update(@, <<Pad>>)]
  /\ pc' = "zero"
  /\ UNCHANGED <<key, sinks, obj, args, copy, result, calls, fed, before>>

FinalRefused ==
  /\ pc = "final" /\ sha[obj].finalized
  /\ UNCHANGED call /\ Returns(FALSE, <<>>)
  /\ UNCHANGED <<key, sha, sinks, obj, pipe, scratch, copy, bits, calls, fed, before>>

\* Mutant of FinalZero: no second block when the first has no room left.
FinalZeroBelow ==
  /\ pc = "zero" /\ Len(sha[obj].buffer) < Block - LenSize
  /\ sha' = [sha EXCEPT ![obj] = Update(@, <<Zero>>)]
  /\ UNCHANGED <<key, sinks, pc, obj, args, copy, bits, result, calls, fed, before>>

FinalZero ==
  /\ pc = "zero" /\ Len(sha[obj].buffer) # Block - LenSize
  /\ sha' = [sha EXCEPT ![obj] = Update(@, <<Zero>>)]
  /\ UNCHANGED <<key, sinks, pc, obj, args, copy, bits, result, calls, fed, before>>

\* The length goes into the buffer without Update, and the last block is
\* compressed.  HmacSha256::Final goes on with the outer hash.
FinalLength ==
  /\ pc = "zero" /\ Len(sha[obj].buffer) = Block - LenSize
  /\ LET state == Append(sha[obj].state, sha[obj].buffer \o Lenbuf(bits))
         over  == [sha[obj] EXCEPT !.state = state, !.buffer = <<>>, !.finalized = TRUE]
     IN  IF key # NoKey /\ obj = "inner"
           THEN /\ sha' = [inner |-> over,
                           outer |-> Update(Update(Fresh, Xor("opad", key)), Digest(state))]
                /\ obj' = "outer" /\ pc' = "final" /\ UNCHANGED <<call, result>>
           ELSE /\ sha' = [sha EXCEPT ![obj] = over]
                /\ obj' = "inner" /\ UNCHANGED call /\ Returns(TRUE, state)
  /\ UNCHANGED <<key, sinks, pipe, scratch, copy, bits, calls, fed, before>>

Step ==
  \/ Read \/ CopyDone \/ WriteHash \/ WriteSink \/ WriteFails
  \/ FinalPad \/ FinalRefused \/ FinalZero \/ FinalLength

Next == Reset \/ Copy \/ Final \/ ReadFails \/ Step

Spec == Init /\ [][Next]_vars

\* The thread that made the call goes on with it.
FairSpec == Spec /\ WF_vars(Step)

-----------------------------------------------------------------------------
(* Properties                                                              *)

\* Type correctness: buffer_ never holds a whole block between two calls and
\* a SpanWriter never more than its buffer.
TypeOK ==
  /\ \A o \in {"inner", "outer"} : Len(sha[o].buffer) < Block /\ sha[o].finalized \in BOOLEAN
  /\ \A o \in {"inner", "outer"} : \A i \in 1..Len(sha[o].state) : Len(sha[o].state[i]) = Block
  /\ Len(sinks["span"]) <= Capacity
  /\ pc \in {"idle", "read", "write", "final", "zero"} /\ sink \in 1..2

\* A digest is the SHA-256, or the HMAC, of everything the hasher was fed
\* since it was made, however the bytes were cut into reads and updates, and
\* a HashStream on a new hasher returns the one of its source.
DigestIsReference ==
  (pc = "idle" /\ result.ok) =>
    /\ result.call \in {"stream", "final"} => result.value = Reference(fed)
    /\ result.call = "stream" => fed = before.fed \o before.src

\* A writer of the pipe has what it had before the call and then a beginning
\* of the source.
Grown(w) == LET now == IF w = "hash" THEN fed ELSE sinks[w]
                was == IF w = "hash" THEN before.fed ELSE before.sinks[w]
            IN  Cut(now, Len(was) + 1, Len(now) - Len(was))

\* At every moment of a copy each sink has grown by a beginning of the source,
\* the second of a tee by no more than the first and by at most one read less;
\* a copy that returned Ok has given all of them all of it.
CopyIsExact ==
  (call \in {"copy", "stream"} /\ scratch # 0) =>
    /\ \A i \in 1..Len(pipe) : IsPrefix(Grown(pipe[i]), before.src)
    /\ Len(pipe) = 2 =>
         /\ Len(Grown(pipe[2])) <= Len(Grown(pipe[1]))
         /\ Len(Grown(pipe[1])) <= Len(Grown(pipe[2])) + scratch
    /\ (call = "copy" /\ pc = "idle" /\ result.ok) =>
         /\ result.value = <<Len(before.src)>>
         /\ \A i \in 1..Len(pipe) : Grown(pipe[i]) = before.src

\* Every call returns: the padding of Final reaches the place of the length
\* whatever the length of the message.
CallReturns == (pc # "idle") ~> (pc = "idle")

=============================================================================
