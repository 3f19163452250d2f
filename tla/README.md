# Verification of etlx

TLA+ models of etlx, a heap-free C++ starter kit for embedded systems: common
services (event loop, storage, HTTP, sockets, JSON, crypto, CLI, state machine),
their host ports, and a port to the NXP SE05x secure element with a factory
provisioning tool. The models are checked with TLC on small instances and their
main properties are proved with TLAPS for all instances. Paths below are
relative to the repository.

`PROJECT.json` lists the components, the runs with their properties, the lines
each definition models, the hazards, the findings and the theorems.

## 1. Inventory

| Component | State it keeps | Operations | Works with | What is hard |
|---|---|---|---|---|
| Event loop (`src/events/loop.cpp`), Clock (`core/time.hpp`, `ports/host/host_clock.cpp`) | FIFO `immediate_`, table `timers_`, `running_`; the simulated clock's time | Post, PostAfter, RunOnce, Run, Stop; Advance | calls the callbacks, which call it back; reads and sleeps on a Clock | re-entrance: callbacks change the queue being drained and the table being scanned; full queue or table; Stop against pending work; lost or doubled callbacks; timers of delay zero; a clock that jumps |
| Key-value store (`src/storage/kv.cpp`), file store (`ports/host/host_kv.cpp`) | bounded sorted map; file and temporary file | Get, Set, Has, Remove; Open, Load, Commit | stdio, rename | crash inside Commit, failed writes, a stale temporary file, truncated files |
| SCP03 rotation (`ports/se05x/scp03.cpp`), key file (`scp03_keyfile.cpp`), session (`se_connection.cpp`) | keys of the element; key file, `.bak`, tmp; DEK in use | Rotate (file and memory), dry run, Read, ReadDek, Write | element over APDUs; `se_factory`, `se_quickstart` | PUT KEY cannot be undone; crash or failure between it and the file; stale DEK |
| Object store, RSA and EC keys, CSR (`ports/se05x/object_store.cpp`, `rsa_key.cpp`, `ec_key.cpp`, `csr_build.cpp`), `apps/se_factory`, `examples/se_quickstart` | objects of the element; the open key's size; the CSR under way | the six commands besides rotation, the tour | element, files, a CA | erase and write are two calls; any answer may be lost; failures after the old key is gone; buffers sized for RSA-2048 |
| HTTP client (`src/http/http.cpp`), TCP socket (`ports/host/host_tcp.cpp`) | descriptor; send and receive positions; response | Connect, Send, Recv, Close; Do, Get | the peer | partial sends, arbitrary splits of the reply, cut connections, full buffer, several addresses |
| democli (`apps/democli`), option iterator (`src/conf/cli.cpp`), update FSM (`sm/update_fsm.hpp`) | argument position, static pool of actions, FSM state | ParseArguments, Next, Execute, receive | each other | tokens read twice or as another kind; state left by an earlier call; driver and machine drifting apart |
| TLS socket (`src/net/tls.cpp`), opaque key (`se_pk.cpp`), `examples/mtls_client`, `examples/se_mtls_client` | mbedTLS contexts, `configured_`, `handshaked_`; main thread and server thread | Configure, UseExternalKey, Connect, Send, Recv, Close; RunServer, join | a socket, mbedTLS, the element's key | reconnect on a used context, a refusal that arrives after Connect returned, a key that cannot sign, two threads waiting for each other |
| Asio socket (`ports/asio`) | Boost socket | Connect, Send, Recv, Close | TLS, HTTP | a failed resolve keeps the old connection |
| Simulator transports (`smComSocket*.c`, `i2c_sim.c`) | descriptor, frame position, errno | Open, Transceive, TransceiveRaw, Lock, Unlock, Close; axI2CInit, Write, Read, WriteRead, Term | simulator over TCP; the T=1 stack; every other descriptor of the process | short reads, answers that arrive after a timeout, a descriptor number kept after its close, stale errno |
| JSON tokenizer (`src/json/json.cpp`) | token array, `toksuper` | Parse, ParseToView, size, operator[] | callers' buffers | nesting kept in one index, full token array, truncated input |
| SHA-256, HMAC (`src/crypto`), streams (`src/io`, `host_io.cpp`) | block buffer, bit length, `finalized_`; reader and writer positions | Reset, Update, Final; Copy, Tee, HashStream | each other | block boundaries, padding, partial failure of a tee |
| Logging, core value types, random source | level and sink | | all | nothing a property could be about |

What makes each modelled component correct is listed with its run in section 3.

The components meet in few places: democli drives the option iterator and the
state machine; the HTTP client drives a socket; the TLS socket drives a transport
and, through mbedTLS, the element's key; HashStream drives Copy and a hasher;
`se_factory` and `se_quickstart` drive the key objects, the object store and the
rotation. Each of these groups is one module with an action per step that others
can interleave with (a callback, a piece of a stream, an APDU, a stdio call). The
only threads are the two of the mTLS examples.

## 2. Modules

Every component module has its state as VARIABLES, `Init`, one action per
operation or step, `Next`, `Spec`, and its properties at the end. An operator
whose comment begins with "Mutant of" is a plausible mistake in the definition
that follows it; it is used by no action and exists to show that a property
depends on the code. `MC*.tla` extend the component for TLC; `*Proofs.tla` extend
it for TLAPS. Two proof modules extend two components each: ParserProofs (Json and
DemoCli) and SecureElementProofs (SeFactory and Scp03Rotation). For their sake Json
and Scp03Rotation put the component's name before `Init`, `Next`, `Spec` and `TypeOK`.

**EventLoop** models `loop.cpp` statement by statement where a callback can come
between: entering RunOnce fixes the batch (`EnterRunOnce`), `DrainOne` pops and
invokes, `CallbackReturn` ends a callback, `ReadNow` reads the clock once,
`FireFirstDue` erases the first due timer in table order and invokes it, `Run`
iterates, idles and sleeps. A callback is named by the number of the Post or
PostAfter that submitted it; its body is arbitrary (`UserCode`: any Post, PostAfter
and Stop). Callbacks that call Run or RunOnce are excluded. Both clocks are
modelled: the simulated one moves to the sleep target and by its owner's `Advance`,
the host's `Tick`s at any time. The history variable `skipped` has the timers an
Advance jumped past, which fire in table order. **OnceExecutor** is the abstract
specification: a submission is refused or runs exactly once, and callbacks do not
overlap.

**FileKv** models the map with its capacity errors and the file behind it. Commit
is three steps (open the temporary file, write, rename), each with its failure; a
crash may come anywhere and leaves any truncation of the file being written. With
the fault "open" the constructor meets a file that fopen cannot open.
**DurableMap** is the abstract specification: edits change a working copy, only a
successful commit replaces the durable copy, as a whole, and a reopen restores it.

**Scp03Rotation** models both `Rotate` overloads with the DEK they use, PUT KEY
(accepted, rejected, or carried out with its answer lost), each stdio call of the
key file's rewriting with its failure, that of fclose included ("flush"), the
session, and three callers: a program that keeps the element's keys in the key file,
`se_factory rotate-scp03` and the quickstart.

**SeFactory** models every command of `se_factory` except rotation, and the
quickstart's tour, call by call. The element's objects are a function of the slot;
key pairs are numbered as they are generated, a certificate is the number of the
key it certifies, a CSR the pair of the public key in it and the key that signed
it. Each call may fail with or without effect (`Fault`), a write may stop half way
(`Torn`), the process may be killed between two calls, a file may be unreadable or
larger than its buffer (`Cut`). The history variables `before` and `failed` record
the element at the start of the command and the steps a fault has hit.

**HttpClient** models Connect over several addresses, the send loop, the receive
loop and `ParseResponse`. A request is its length, a reply one unit per line and
per body byte, so that every split, cut and buffer size that falls differently is
distinguished. Content-Length wraps at `SizeMod`, as the `size_t` does.

**UpdateFsm** is the transition table of `update_fsm.hpp`. **DemoCli** models
`ParseArguments`, the iterator's `Next` token by token, and the install action
driving the state machine, over several command lines in one process.

**MtlsClient** composes `TlsSocket`, `AsioTcpSocket`, `SeSign` and the two threads
of the mTLS examples. A handshake is a hello, the server's flight, the client's
flight and, up to TLS 1.2, the server's Finished; `ssl` is which of them mbedTLS
does next, and nothing but a completed step changes it, since `Connect` never resets
the context. A record is named by what it proves: the client's flight is "bare",
"signed" by the certificate's key, or "forged" (signed by another). Main may connect
again on the same socket; each connection meets a server thread of its own.

**SimTransport** models both TCP transports to the simulator, one per build. A byte
of an answer is the command it answers, its place and the payload length, so that
any mix-up of frames is visible; `recv` hands out any non-empty piece, is
interrupted, ends or fails, and `errno` keeps what the last failure left. The rest
of the process opens and closes descriptors at any moment, which take the lowest
free number. Opening is a step per system call that can fail, so that each error path
has its descriptor to close. On the bus the T=1 stack may write the next block at any
time, also after a read that timed out, so that answers queue up and arrive late. The
history variables `sound`, `answering` and `leaked` record that bytes were dropped or
left over, which command's answer the bus read last, and how many descriptors CloseFD
left open.

**Json** feeds the parser one lexeme at a time, together with a reference reader
that follows the JSON grammar with an explicit stack and records every member of
every container; the parser has only `toksuper`. An input may end behind a primitive
(`EndInPrimitive`) or inside a string (`Malformed`). Lookups in the view are then
compared with what the reader recorded.

**HashStream** models Copy through a scratch buffer into one writer or a tee, and
the hashers: Update's partial block, whole blocks and rest, Final's padding byte by
byte, the two hashes of HMAC. The compression function is injective: a hash state is
the sequence of compressed blocks, so a digest equals the reference exactly when the
padded message was cut into the right blocks. The reference (`Sha`, `Hmac`) pads whole
messages and prepares its HMAC key itself; the model's key block goes through the
model's own `Hash`, as `hmac.cpp` has it.

### External parts

The element, the peers, mbedTLS, the CA, callbacks' bodies and crashes are not code
of the repository and are marked external in the map. The element is assumed to
erase and overwrite what the policy allows, to fail a read into a buffer that is too
small, to accept PUT KEY only when wrapped with its own DEK and to drop the channel
afterwards (the quickstart's comment says so). mbedTLS is assumed to go on with a
context where it left off: `mbedtls_ssl_handshake` returns 0 at once when the
handshake is over. The T=1 stack is assumed not to use a context again that it has
given to `axI2CTerm`, which cannot clear the caller's pointer. `SMCOM_OK` comes from
a header outside the repository; both a zero and a non-zero value are tried.

## 3. Runs

| Run | Bounds | Distinct states | Checks |
|---|---|---|---|
| `EventLoop_clocks` | both clocks; queue 2, timers 3, delays {0, 1, 2}, 4 submissions, time ≤ 3 | 514,283 | every accepted callback runs exactly once (`ImplementsOnce`); the drain never pops an empty queue (`DrainSafe`); a phase of RunOnce invokes older work only, but for a timer due at the very instant the phase read (`RunOnceDefers`); no timer is overtaken (`NoOvertaking`), and on the simulated clock they fire in deadline order, but for those an Advance jumped past (`TimersFireInDueOrder`); Run returns (`RunEventuallyReturns`) |
| `FileKv_crash` | 3 keys, 2 values, 2 entries, a key and a value too long; crashes and I/O failures | 97,927 | Commit reports Ok only for what the file has (`CommitReports`); the store is a durable map (`ImplementsDurableMap`) |
| `Scp03Rotation_callers` | 3 key sets, 3 callers; crashes, I/O failures, write errors that only fclose meets, lost answers | 5,682 | after an Ok the key file has the element's keys or is visibly damaged, never other keys (`OkNeverMisleads`); the keeper's DEK is the element's (`KeeperDekMatches`); no step removes the last copy of the element's keys, with the two exceptions it names (`LastCopyKept`) |
| `Scp03Rotation_dek` | `se_factory` alone, no faults | violation | `DekMatches` fails: finding 1 |
| `SeFactory_provision` | 3 commands, 3 keys of 2048 or 4096 bits, every documented policy, 1 blob; all faults | 349,552 | a command changes its own slot only and exits with 0 only when it has, a key in the size asked for and in the policy where the program knows its name (`CommandEffect`); CSRs are of the key that signed them and are delivered (`CsrIsRight`); verify answers truly (`BindingIsTruthful`) |
| `HttpClient_exchange` | 2 connections, 2 addresses, 3 request sizes around the buffer's, ten replies, 6 units of buffer, lengths modulo 4 | 34,368 | streams intact for every split (`StreamIntact`); the response or the refusal is right (`ResponseIsRight`, `RefusalIsRight`); Do returns (`DoReturns`) |
| `DemoCli_calls` | 2 command lines of up to 3 of 7 tokens | 198,939 | the iterator reads a line as an independent left-to-right reading does (`ParseIsRight`); phases are performed in the right FSM state (`PhaseInState`); `--stop-before` halts in time (`StopBeforeObeyed`) |
| `MtlsClient_exchange` | 2 connections of one socket, four configurations, all kinds of server (trusted or not, demanding or not, TLS 1.2 or 1.3), both keys; failing Configure, resolve, connect, host name and signature, resets | 52,604 | a first handshake authenticates (`FirstConnectAuthenticates`); an echo means mutual authentication (`EchoMeansMutual`); Connect returns (`ConnectReturns`) and so does join (`JoinReturns`), except in the cases they name |
| `MtlsClient_reconnect` | the same without faults | violation | `ConnectAuthenticates` fails: finding 2 |
| `SimTransport_frames` | both builds, both values of SMCOM_OK, 3 commands or blocks, 1 descriptor number, header 2, buffer 4, room 1, payloads {0, 1, 2, 3} | 1,283,469 | an Ok of the framed session is the whole answer to the call's own command, and reads of the bus that return Ok hand out one answer's header and then its whole payload, however many are queued up (`ResponseIsOwn`); descriptors are given back on every error path (`NoLeak`); calls return, except in the cases it names (`CallReturns`) |
| `Json_documents` | 7 tokens, 2 names, any input up to 5 lexemes, beginnings of documents up to 13 | 1,360,526 | the right verdict, but for a bare primitive (`VerdictIsRight`); every member reads back (`ReadsBack`) |
| `HashStream_pieces` | block 4, length field 2, digest 2, no key and keys of 2 and 5 bytes, sources of 0, 3 and 6, scratch 0 and 5, span 6, 2 calls | 84,356 | digests are the reference SHA-256 and HMAC (`DigestIsReference`); copies are exact, also half way (`CopyIsExact`); calls return (`CallReturns`) |

Six of the runs check their module's type invariant besides (`TypeOK`, `JsonTypeOK`),
where it also says that a buffer, table or array is not overrun.

**Why the bounds are enough.** They are the smallest at which each interesting case
occurs: a full queue and a full table while a callback posts, timers with equal and
with different deadlines and with one that is due at once, an Advance past two
deadlines, a map at capacity with a key to spare, a rotation after a rotation, a
command after a failed one and a certificate for a key since replaced, a reply that
fits the buffer exactly, one more and one less, a second connection on a used
socket, an option whose value looks like an option. MtlsClient's second Connect
meets every state the first can leave the context in. In SimTransport the payloads
are none, one the caller has room for, one only the buffer has, and one that
overflows it; the one descriptor number is given up by a session and taken over by
the rest of the process; with three blocks on the bus a late answer meets another
one behind it. Json's 13 lexemes hold an
object with two members one of which is a container with two more, and an eighth
token. In HashStream 0, 3 and 6 bytes end on a block boundary, in the last place
before the length field does not fit, and after a whole block, and two calls fill a
block across them; the bit length is counted modulo 65536, what a length field of 2
bytes holds. What the bounds leave open of the safety properties is covered by the
theorems, which have none.

**Fairness.** All of it is weak. `EventLoop_clocks` assumes it of the loop's own
steps (the thread that called Run keeps running), of the return of callbacks (they
are required not to block) and of the clock's ticks. `HttpClient_exchange` assumes
it of the client's steps and of a peer that was asked with `Connection: close`, as
every request of `BuildRequest` does: it writes its reply and closes.
`MtlsClient_exchange` assumes that both threads are scheduled, but not that main
calls anything. `SimTransport_frames` assumes that the calling thread is scheduled
and that the simulator answers a command it has received in full; a retry after an
interruption is not forced, and where it is the only step left the call is stuck
either way. `HashStream_pieces` assumes that a call goes on.
Nothing is assumed of failures. All other runs are safety checks without fairness.

**Deadlock** is checked except where the modelled program ends: after the last
command (SeFactory, DemoCli), when a rotation's callers have finished
(Scp03Rotation), when main has returned (MtlsClient; that it does is `JoinReturns`)
or the input is read (Json) or the calls are used up (HashStream).

## 4. Findings

1. **`se_factory rotate-scp03` wraps with the wrong DEK** (`Scp03Rotation_dek`). It
   passes the file of the keys to install as the key file, from which Rotate loads
   the "current" DEK.
2. **A second `TlsSocket::Connect` succeeds without a handshake**
   (`MtlsClient_reconnect`). `ssl_` is never reset; on a context past its handshake
   the loop ends at once, and Connect returns Ok to whichever server answers the new
   connection. `tls.hpp` says that Connect "performs the TLS handshake".

### Claims the code does not keep

Each of these is a property of its module, stated as a comment or the help text of
the repository words it, that TLC refutes with the constants given (the rest as in
the module's own configuration). None is among the invariants above: the property
named last in each item is what does hold and is checked.

- `RunOnceBounded` (EventLoop; delays {0}, simulated clock). The comment at
  `loop.cpp:32` says that work enqueued by a callback "runs on the next iteration,
  keeping each RunOnce bounded". That holds of `Post`; a timer callback that calls
  `PostAfter(0, ...)` is followed by its own work in the same RunOnce, whose scan
  restarts with the same `now` (line 45). What holds for every delay:
  `RunOnceDefers`.
- `OpenRestores` (FileKv; Faults {"open"}). Load takes every failure of fopen for "no
  file yet" (`host_kv.cpp:50`), and the next Commit replaces the file that is there.
  `host_kv.hpp:15` says that of a missing file only. Without that fault:
  `ImplementsDurableMap`.
- `OkMeansPersisted` (Scp03Rotation; the keeper alone, Failures {"flush"}).
  `scp03_keyfile::Write` ignores the result of `fclose` (line 74), which is what
  writes the three buffered lines, after PUT KEY has made the old keys useless;
  `scp03.hpp:52` promises an atomic write on success. What an Ok is worth:
  `OkNeverMisleads`.
- `PolicyAsAsked` (SeFactory; one `provision`, no faults). `--policy sign-only` makes
  a Full key and exits with 0: the option loop does not know the word
  (`main.cpp:111-113`), which the help at line 33 documents. For the words it knows:
  `CommandEffect`.
- `ContextOwnsFd` (SimTransport; two commands). A failed receive closes the descriptor
  under the context, which keeps the number that the comment at `smComSocket.c:24`
  says it owns; later calls and Close hit whatever the process has opened under it
  since. What holds of the descriptors: `NoLeak`.
- `EndIsSeen` (SimTransport; FairSpec, two commands). The receive loops look at errno
  also when recv returned 0, which leaves it alone: with an EINTR from before they
  retry for ever. `CallReturns` excepts it (`Spins`).
- `PartialMeansCut` (Json; 2 tokens, up to 3 lexemes). `json.cpp:48-49` refuses `42` as
  "unterminated" although nothing is missing; `json.hpp:23` says that Partial means
  "input ended mid-value". `VerdictIsRight` excepts this case only.

### Observations

Consequences of the code that no run singles out. The first contradicts a line of the
repository.

- **`provision --bits 4096` cannot make its CSR**: the public key needs 550 bytes of a
  512-byte buffer (`rsa_key.cpp:137`; `BUILDING.md:132` and the help at `main.cpp:32`
  offer it). The old key is erased by then. `RsaKey::Open` has the same limit, takes
  such a key for a 2048-bit one and cannot sign with it.
- TLS: a context whose handshake broke off while it waited for the server waits again
  on the next connection, and so does the server (`ConnectReturns` excepts it). One
  that broke off a TLS 1.3 handshake before its own flight reports Ok to a server
  that has done nothing. Under TLS 1.3 Connect returns Ok before the server has
  judged the client's certificate. An end of stream without close_notify is reported
  as "clean EOF" too.
- The mTLS examples hang in `server.join()` after a failed Configure, a failed TCP
  connect, a host name that mbedTLS cannot store or a signature the element refuses,
  which sends no alert (`JoinReturns` excepts them): the socket is closed only on
  the success path.
- `smComSocket_GetATRFD` returns 0 on success and on most failures, and Open compares
  it with `SMCOM_OK`: depending on that constant Open ignores failures or always
  fails. CloseFD leaks its descriptor when its command cannot be sent (`NoLeak` counts
  it in `leaked`). A single `send` is not completed. An ATR longer than the buffer
  stays in the stream and is read as the next answer.
- `i2c_sim.c`: `read_exact` and the ATR scan may drop a part of a block, and a write
  may stop half way, after which the T=1 stack reads out of step (`ResponseIsOwn`
  excepts it through `sound`). A block written after a read timed out is answered
  behind the late answer to the one before; nothing in `i2c_sim.c` tells them apart.
  `parse_hostport` has written host and port when it rejects the string, which
  axI2CInit then uses although it says "ignoring".
- JSON: inputs that are not documents, such as `{"a" "b"}`, are accepted; AsInt overflows
  (undefined behaviour) beyond 19 digits. `VerdictIsRight` is about documents and
  their beginnings.
- A failed HashStream leaves its hasher fed with a part of the source; a retry on the
  same hasher digests that part too (`DigestIsReference` says of what).
- `MonotonicClock::SleepUntil` may return early after a signal; Run copes, since it
  only iterates again.
- Commit does not call fsync before the rename, so the guarantees of FileKv are
  those of a process crash, not of a power failure.
- A crash between the two renames of the key file leaves no file at its path, only
  the copies in `.bak` and tmp (`LastCopyKept` holds; a reader of the path fails).
- democli's static action pool keeps the artifact of an earlier command line, so a
  second `install` without one in the same process would use it. The application
  parses one line per process.
- A Content-Length past SIZE_MAX wraps to a small one and cuts the body
  (`http.cpp:161`); `ResponseIsRight` compares with the wrapped value.
- An HTTP body shorter than its Content-Length is returned as a success
  (`ResponseIsRight` says exactly when).
- `ObjectStore::Erase` of an absent object is an error, where `object_store.hpp`
  calls it a no-op; all callers test `Exists` first.
- `RsaKey::Verify` and `EcKey::Verify` answer "invalid" also when the element fails,
  where `rsa_key.hpp` says that a hardware fault is told from a bad signature.
- `se_factory` cuts an oversized file at its buffer, writes what it read and exits
  with 0.

## 5. Proofs

Each theorem is `Spec => []P` (or an action property, or the abstract
specification) for every value of the constants allowed by the module's ASSUME.
Each rests on an inductive invariant that implies the property, with one lemma for
`Init` and one for a step, split by action.

**EventLoopProofs.** `IInv` adds to `TypeOK`, `Conservation`, `DrainSafe` and
`ImmediateFifo` that submission numbers grow along the queue and the table
(`Sorted`), that each holds callbacks of its own kind with numbers already given
out (`Kinds`), and that a callback runs only inside RunOnce (`Control`). Without
`Sorted` a popped callback could be younger than a waiting one; without `Kinds` a
new number could already be queued. Proved: `TypeCorrect`, `DrainIsSafe`,
`NothingLost`, `FifoOrder`, `TimersNotEarly`, `TimersNotOvertaken`,
`LoopRunsOnce` (the refinement of OnceExecutor); `LaterWorkDeferred`, for delays of
every length, from `Deferred`: what the rest of a phase will invoke was submitted
before it, and what is submitted during the scan is not due before the instant the
scan read; and for the simulated clock `TimersOnTime` and `DueOrder`, from the lemma
that Run sleeps until the earliest deadline of the table, so that what a scan finds
due is due now and nothing in the table was due before but what an Advance has jumped
past.

**FileKvProofs.** `IInv` is `TypeOK` and "while the rename is due the temporary file
holds the whole map" (`TmpReady`), the fact that makes the rename a commit. Proved:
`CapacityKept`, `CommitIsTruthful`, `FileIntact`, `KvIsDurable` (the refinement of
DurableMap).

**SecureElementProofs.** *SeFactory:* `Base` is `TypeOK` with the shape of the
command line, where each command can be (`Control`) and "the CSR under way is of the
key in the slot" (`CsrOK`). `Work` states for each command what it has done to the
element so far, so that the last step of a command yields its effect:
`CommandsDoWhatTheySay`. `CsrsAreRight` and `FactoryTypes` follow from `Base`;
`VerifyIsTruthful` needs that the size of the open key is its own or the default.
*Scp03Rotation:* `IInv` is `RotationTypeOK` with `FilesFollowElement`; `OkInv` adds
that tmp has the element's keys between its writing and the last rename, or lost its
lines in fclose; `DekInv` adds what each caller can have in its files (`CallerInv`); `KeepInv` adds what a
crash may leave in tmp. Proved, under every failure: `RotationTypes`, `ElementFirst`,
`KeeperDek`, `OkIsHonest` and `CopyIsKept`.

**ParserProofs.** *Json:* `JsonInv` is `Shape` (the token array is within its capacity
and every index in it is of an earlier token, whatever the input: `JsonTypes`) and
`Agree`: as long as what was read begins a document, the parser and the reference
reader mirror each other. The parser keeps the nesting in `toksuper` and in the
parents of the tokens, the reader in a stack, so `Mirror` has to say that the open
containers are the tokens without an end (`Nesting`), that `toksuper` is where the
grammar stands and each open container's parent is where its closing returns to
(`Supers`), that what may come next fits the innermost container (`Expected`), and that
the children of a container are its members and no others (`Listed`). Without `Supers`
a comma could return to the wrong token; without `Listed` the sizes the view counts
on could be of something else. `VerdictsAreRight` follows from `Nesting` and
`Expected`. `ViewsReadBack` rests on an order-preserving map from the members
of a container onto its children (`Place`): the first child with a key, the n-th child
and the number of children the view finds are then those of the members.
*DemoCli:* `IInv` is `TypeOK`, the phases performed so far (`Locals`), `PhaseInState`
and `Halting`: the loop has not gone past the phase at which it was told to stop, and
the pool has the command line's value; from it `CliTypes`, `DriverAgrees` and
`StopsInTime`. `ParsesRight` adds `Walking`: the tokens behind `index_` have the roles
the reference reading gives them, and the locals hold what those roles say. The
reference is a recursive function of the position; that its equation has a solution
for every line is shown from a least length without one, which the well-ordering of
the naturals would provide (the library's induction theorems are out of the provers'
reach).

**HashStreamProofs.** `IInv` has what the two hashers hold (`Hashing`: outside Final
the blocks compressed so far with the partial block are the padded key and what was
fed, inside it the padding under way completes the reference's), where a call can
be (`Shapes`, `Control`), how far a copy is (`Copying`: between two reads every writer
of the pipe has the first `total` bytes and the reader the others; between a read and
its last write the first writer may be one piece ahead) and `Answers`. The lemmas
under it are about cutting a sequence into blocks: appending in pieces cuts as
appending at once does. Proved: `HashTypes`, `DigestsAreReference`, `CopiesAreExact`,
from the assumptions that the length field is shorter than a block, that the bit
length wraps where the field does (`BitMod = 256^LenSize`, `uint64_t` and 8 bytes in
the code) and that the two writers of a tee are different.

**HttpClientProofs.** `IInv` is `TypeOK`, `StreamIntact`, `OneDescriptor`, where the
client can be (`Control`) and "a Do that parsed something parsed the receive buffer
and had reason to stop reading" (`Parsed`). Lemmas give the layout of a reply on
the wire and what `ParseResponse` makes of a prefix of it. Proved: `HttpTypes`,
`StreamsAreIntact`, `NoDescriptorLeaks`, `ResponsesAreRight`, `RefusalsAreRight`.

**MtlsClientProofs.** `IInv` is `TypeOK` with what is known before the connection
(`Prepared`: conf_ says what the TlsConfig asks for), at its beginning (`Greeting`: a
server that has read nothing has said nothing, and a hello on its way means a client
that waits for the answer), once the server's flight is behind (`Met`) and from the
server's side (`Evidence`: the records on their way to a server are of a client that
trusts it and holds the key it signed with). `Greeting` is what makes `Evidence`
inductive when a used context meets a new server. Proved: `TypeCorrect`,
`FreshConnectAuthenticates`, `EchoIsMutual`.

**SimTransportProofs.** `IInv` is `TypeOK` with which calls a build makes and on what
(`Shape`), `ResponseIsOwn`, and one invariant for each build. `Framing`, of the framed
session: what a call has received and what is under way make up one answer to the last
command, whose length the call knows as soon as it has the header, and between two
calls nothing is under way. `Flow`, of the bus: what a read has received and what is
under way are answers without a gap, the first of them from the place on where the
stack reads; an answer that is late is one more in the row. Without `Flow` a payload
could be read from another answer than its header. Proved: `TypeCorrect`,
`ResponsesAreOwn`, and `NothingLeaks` from `Accounted`, by counting the descriptors
besides the one in use.

**Model-checked only.** `RunEventuallyReturns`, `DoReturns`, `ConnectReturns`,
`JoinReturns` and the two `CallReturns` are liveness under fairness, outside the
prover's reach. Every invariant and action property of a passing run is also a
theorem.

## 6. Abstractions and what is not modelled

- Strings are tokens of small sets. democli declares no option without a value, so
  the iterator's branch for flags is left out of DemoCli. DemoCli also leaves out
  empty arguments and the truncation of long ones, and failures to write to the
  terminal; log texts, help texts and hex dumps are left out everywhere.
- HttpClient: one request per connection; an interrupted system call is a
  stuttering step; trimming, case folding and the digits of a status code are
  inside a line.
- FileKv and Scp03Rotation: the file formats are abstracted to complete or cut
  short, with the entries that can still be read.
- SeFactory: signatures and DER are the key they come from and a length; the
  option loop of `provision` ends the command on an error before the element is
  touched; `GetType` only feeds a log line.
- Bounds in guards: `MaxPosts`, `MaxTime`, `MaxCalls`, `MaxArgs`, `MaxAddrs`,
  `MaxKeys`, `MaxCommands`. They are constants; the theorems hold for all values.

- MtlsClient: certificates are trusted or not; host names, session tickets,
  renegotiation and the content of records are left out; a close_notify or an alert
  may be lost where the code ignores the result of sending it.
- SimTransport: the T=1 stack is a caller that writes blocks and reads the header
  and the payload of answers, in the order it likes; addresses and environment
  variables are left out.
- Json: whitespace is skipped; the inside of a string or primitive is in order or not.
- HashStream: sizes are scaled down (a block is 4 bytes instead of 64); the bit length
  wraps as its field does; a tee into the same writer twice, which no program builds, is
  left out.

Not modelled, because there is no state a property could be about: logging, core value
types, the random source, StderrLogSink. Test tooling: the simulator bridge and the
probe. Outside the models: callbacks that re-enter the event loop, a power loss (as
opposed to a process crash), what a half-failed session open leaves in the NXP
middleware, and the update machine's Commit, Rollback and Abort, which no program
sends.

## 7. Plan

In this order; all but the last item are done.

1. EventLoop with OnceExecutor: the scheduler everything asynchronous would run on.
2. FileKv with DurableMap; Scp03Rotation: what must survive a crash.
3. HttpClient over the socket; DemoCli over the iterator and the state machine.
4. SeFactory over the object store and the keys.
5. MtlsClient: the TLS socket over the Asio transport, the opaque key and the two
   threads of the examples.
6. SimTransport: framing and the life of the descriptor in both simulator transports.
7. Json and HashStream, against reference definitions.
8. Left: a page cache under FileKv, to say what a power loss may leave; callbacks
   that re-enter the loop, to say which of them are safe.
