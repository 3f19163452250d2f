----------------------------- MODULE SeFactory -----------------------------
(***************************************************************************)
(* Factory provisioning of a secure element: the commands of se_factory    *)
(* (apps/se_factory/main.cpp) and the tour of examples/se_quickstart, over *)
(* ObjectStore, RsaKey and EcKey (ports/se05x).  Every operation is a few  *)
(* calls into the element; each may fail, the answer of one that was       *)
(* carried out may be lost, and the program may be killed between two.     *)
(*                                                                         *)
(* Key pairs are numbered in the order of their generation.  A certificate *)
(* is the number of the key it certifies, a CSR the pair of the public key *)
(* in it and the key that signed it.  The element is external: it erases   *)
(* and overwrites what its policy allows, and fails a read into a buffer   *)
(* that is too small.                                                      *)
(***************************************************************************)
EXTENDS Naturals, Sequences

CONSTANTS
  None,          \* an empty slot
  Missing,       \* a file that cannot be opened or is empty
  Cut, Torn,     \* a file cut at the buffer's size; an object half written
  Blobs,         \* contents that are not certificates
  Bits,          \* key sizes given with --bits
  PolicyArgs,    \* words given with --policy
  SpkiCapacity,  \* ETLX_SE_SPKI_CAPACITY, and the buffer of RsaKey::Open
  Faults,        \* what may go wrong: the "link", a "kill", a full "disk"
  MaxKeys,       \* bound: key pairs generated
  MaxCommands    \* bound: commands run

Kinds  == {None, Missing, Cut, Torn}

ASSUME FactoryAssumption ==
  /\ (Kinds \cup Blobs) \cap Nat = {} /\ Kinds \cap Blobs = {}
  /\ None # Missing /\ None # Cut /\ None # Torn
  /\ Missing # Cut /\ Missing # Torn /\ Cut # Torn
  /\ Bits \subseteq Nat
  /\ Faults \subseteq {"link", "kill", "disk"}
  /\ SpkiCapacity \in Nat /\ MaxKeys \in Nat /\ MaxCommands \in Nat

VARIABLES
  obj,           \* the element's objects, by slot
  keys,          \* the key pairs generated so far: size and policy
  csrs, certs,   \* CSRs delivered, keys a CA has certified
  cmd,           \* the command line
  pc, slot,      \* next step of the command, the slot it works on
  bits,          \* bits_ of the open RsaKey
  csr,           \* the CSR being made: the public key in it, the signing key
  code,          \* exit code of the last command
  failed,        \* history: the steps of this command that a fault hit
  before,        \* history: objects and number of keys when it began
  ran            \* number of commands run

host    == <<bits, csr>>
history == <<cmd, before, ran>>
vars    == <<obj, keys, csrs, certs, cmd, pc, slot, host, code, failed, before, ran>>

Slots  == {"rsa", "cert", "ec", "info", "demo"}
KeySlots == {"rsa", "ec"}
Killed == 137    \* no exit code of its own

Go(step)  == pc' = step /\ UNCHANGED <<slot, code>>
Exit(c)   == pc' = "idle" /\ code' = c /\ UNCHANGED slot
Fault     == "link" \in Faults /\ failed' = failed \cup {<<pc, slot>>}
NoFault   == UNCHANGED failed

-----------------------------------------------------------------------------
(* Command lines (main, CmdProvision)                                      *)

\* out: was --out given; subject: is the DN well formed; long: is the file
\* larger than the buffer it is read into.
Line(name) == [name |-> name, bits |-> 2048, policy |-> "full", subject |-> TRUE, out |-> TRUE,
               file |-> Missing, long |-> FALSE, force |-> TRUE]

Provision(b, p, s, o) ==
  [Line("provision") EXCEPT !.bits = b, !.policy = p, !.subject = s, !.out = o]
WithFile(name, f, l) == [Line(name) EXCEPT !.file = f, !.long = l]
Unforced(f)          == [Line("write-info") EXCEPT !.file = f, !.force = FALSE]

Files == certs \cup Blobs \cup {Missing}

\* The word of --policy, as CmdProvision reads it.
PolicyOf(word) == IF word = "sign-decrypt" THEN "SignDecrypt" ELSE "Full"

SlotOf(name) ==
  CASE name = "write-cert" -> "cert"
    [] name \in {"write-info", "read-info"} -> "info"
    [] OTHER -> "rsa"

FirstStep(name) ==
  CASE name = "provision" -> "exists"
    [] name \in {"write-cert", "write-info"} -> "file"
    [] name = "read-info" -> "read"
    [] name = "verify" -> "file"
    [] OTHER -> "uid"

\* main and the option loop: the session may not open, an option or an
\* argument may be wrong; the element is not touched then.
Run(line) ==
  /\ line.name \in {"provision", "tour"} => Len(keys) + 2 <= MaxKeys
  /\ cmd' = line /\ slot' = SlotOf(line.name)
  /\ \/ pc' = FirstStep(line.name) /\ failed' = {} /\ UNCHANGED code
     \/ pc' = "idle" /\ failed' = {<<"open", slot'>>} /\ code' = 1

\* WriteBinary without force is for callers of the library.
Start ==
  /\ pc = "idle" /\ ran < MaxCommands
  /\ \/ \E b \in Bits, p \in PolicyArgs, s, o \in BOOLEAN :
          Run(Provision(b, p, s, o))
     \/ \E n \in {"write-cert", "verify", "write-info"}, f \in Files, l \in BOOLEAN :
          Run(WithFile(n, f, l))
     \/ \E f \in Blobs : Run(WithFile("tour", f, FALSE)) \/ Run(Unforced(f))
     \/ Run(Line("read-info")) \/ Run(Line("uid"))
  /\ before' = [obj |-> obj, made |-> Len(keys)] /\ ran' = ran + 1
  /\ UNCHANGED <<obj, keys, csrs, certs, host>>

-----------------------------------------------------------------------------
(* ObjectStore                                                             *)

\* What ReadFile put into the buffer.
Content == IF cmd.long THEN Cut ELSE cmd.file

ReadFile ==
  /\ pc = "file"
  /\ IF cmd.file = Missing THEN Exit(1)
     ELSE Go(IF cmd.name = "verify" THEN "rng" ELSE "exists")
  /\ UNCHANGED <<obj, keys, csrs, certs, host, failed, history>>

\* The tour opens a key that exists; everything else replaces the object.
AfterExists(found) ==
  IF ~found THEN Go(IF slot \in KeySlots THEN "generate" ELSE "store")
  ELSE IF cmd.name = "tour" /\ slot \in KeySlots THEN Go("open")
  ELSE IF cmd.force THEN Go("erase") ELSE Exit(0)

\* Exists: a handle that cannot be had, for whatever reason, means absent.
Exists ==
  /\ pc = "exists"
  /\ \/ NoFault /\ AfterExists(obj[slot] # None)
     \/ Fault /\ AfterExists(FALSE)
  /\ UNCHANGED <<obj, keys, csrs, certs, host, history>>

\* can_Delete and can_Write are off in every policy but Full.
Deletable(s) == s \in KeySlots => keys[obj[s]].policy = "Full"

EraseOk ==
  /\ obj[slot] # None /\ Deletable(slot)
  /\ obj' = [obj EXCEPT ![slot] = None]

\* Erase of an absent or protected object is an error; so is a lost answer.
EraseFails ==
  \/ NoFault /\ ~(obj[slot] # None /\ Deletable(slot)) /\ UNCHANGED obj
  \/ Fault /\ (UNCHANGED obj \/ EraseOk)

Erase ==
  /\ pc = "erase"
  /\ \/ EraseOk /\ NoFault /\ Go(IF slot \in KeySlots THEN "generate" ELSE "store")
     \/ EraseFails /\ Exit(1)
  /\ UNCHANGED <<keys, csrs, certs, host, history>>

\* The tour removes its blob; a failure is only logged.
Cleanup ==
  /\ pc = "cleanup"
  /\ (EraseOk /\ NoFault) \/ EraseFails
  /\ Exit(0)
  /\ UNCHANGED <<keys, csrs, certs, host, history>>

AfterStore == IF cmd.name = "tour" THEN Go("read") ELSE Exit(0)

\* Mutant of StoreBinary: the status of set_key is not looked at.
StoreBinaryUnchecked ==
  /\ pc = "store"
  /\ \/ obj' = [obj EXCEPT ![slot] = Content] /\ NoFault
     \/ Fault /\ \E v \in {obj[slot], Torn, Content} : obj' = [obj EXCEPT ![slot] = v]
  /\ AfterStore
  /\ UNCHANGED <<keys, csrs, certs, host, history>>

\* StoreBinary: the element may refuse to write over an object, and a write
\* of several APDUs may stop half way.
StoreBinary ==
  /\ pc = "store"
  /\ \/ obj' = [obj EXCEPT ![slot] = Content] /\ NoFault /\ AfterStore
     \/ obj[slot] # None /\ UNCHANGED obj /\ NoFault /\ Exit(1)
     \/ /\ Fault /\ Exit(1)
        /\ \E v \in {obj[slot], Torn, Content} : obj' = [obj EXCEPT ![slot] = v]
  /\ UNCHANGED <<keys, csrs, certs, host, history>>

ReadBinary ==
  /\ pc = "read"
  /\ \/ /\ obj[slot] # None /\ NoFault
        /\ IF cmd.name = "tour" THEN Go("cleanup") ELSE Exit(0)
     \/ obj[slot] = None /\ NoFault /\ Exit(1)
     \/ Fault /\ Exit(1)
  /\ UNCHANGED <<obj, keys, csrs, certs, host, history>>

\* GetUid, and the random bytes of SeRandom::Fill and VerifyBinding.
GetUid ==
  /\ pc = "uid"
  /\ \/ NoFault /\ (IF cmd.name = "tour" THEN Go("rng") ELSE Exit(0))
     \/ Fault /\ Exit(1)
  /\ UNCHANGED <<obj, keys, csrs, certs, host, history>>

GetRandom ==
  /\ pc = "rng"
  /\ \/ NoFault /\ Go(IF cmd.name = "tour" THEN "exists" ELSE "open")
     \/ Fault /\ Exit(1)
  /\ UNCHANGED <<obj, keys, csrs, certs, host, history>>

-----------------------------------------------------------------------------
(* RsaKey and EcKey                                                        *)

\* bits_ and curve_ of a key object not yet looked at; what the tour makes.
DefaultSize == IF slot = "rsa" THEN 2048 ELSE 256

KeyAsked ==
  IF cmd.name = "provision" THEN [bits |-> cmd.bits, policy |-> PolicyOf(cmd.policy)]
  ELSE [bits |-> DefaultSize, policy |-> "Full"]

MakesKey ==
  /\ obj[slot] # None => Deletable(slot)
  /\ keys' = Append(keys, KeyAsked)
  /\ obj' = [obj EXCEPT ![slot] = Len(keys) + 1]

\* Generate: an element asked to generate over an object may refuse.
Generate ==
  /\ pc = "generate"
  /\ \/ MakesKey /\ bits' = KeyAsked.bits /\ NoFault /\ Go("spki")
     \/ obj[slot] # None /\ NoFault /\ Exit(1) /\ UNCHANGED <<obj, keys, bits>>
     \/ Fault /\ Exit(1) /\ (MakesKey \/ UNCHANGED <<obj, keys>>) /\ UNCHANGED bits
  /\ UNCHANGED <<csr, csrs, certs, history>>

\* Length of the DER public key: modulus, exponent and headers of an RSA key,
\* at most a P-521 point of an EC key.
SpkiLen == IF slot = "rsa" THEN keys[obj[slot]].bits \div 8 + 38 ELSE 158

PublicKeyReadable == obj[slot] # None /\ SpkiLen <= SpkiCapacity

AfterOpen == Go(IF cmd.name = "tour" THEN "spki" ELSE "sign")

\* Open: the size stays at its default when the public key cannot be read.
OpenKey ==
  /\ pc = "open"
  /\ \/ /\ obj[slot] # None /\ NoFault /\ AfterOpen
        /\ bits' = IF PublicKeyReadable THEN keys[obj[slot]].bits ELSE DefaultSize
     \/ obj[slot] # None /\ Fault /\ AfterOpen /\ bits' = DefaultSize
     \/ obj[slot] = None /\ NoFault /\ Exit(1) /\ UNCHANGED bits
     \/ Fault /\ Exit(1) /\ UNCHANGED bits
  /\ UNCHANGED <<obj, keys, csr, csrs, certs, history>>

\* PublicKeyDer, the first half of MakeCsr.
PublicKeyDer ==
  /\ pc = "spki"
  /\ \/ PublicKeyReadable /\ NoFault /\ Go("csr") /\ csr' = <<obj[slot], None>>
     \/ ~PublicKeyReadable /\ NoFault /\ Exit(1) /\ UNCHANGED csr
     \/ Fault /\ Exit(1) /\ UNCHANGED csr
  /\ UNCHANGED <<obj, keys, bits, csrs, certs, history>>

\* The signature of an RSA key must fit the buffer sized by bits_; that of an
\* EC key has a buffer of the largest size.
SignatureFits == slot = "rsa" => keys[obj[slot]].bits <= bits
CanSign       == obj[slot] # None /\ SignatureFits

\* BuildCri needs a well-formed DN; AssembleCsr puts the signature made now
\* beside the public key read before.
CanBuildCsr == cmd.subject /\ CanSign
SignedCsr   == <<csr[1], obj[slot]>>

\* The rest of MakeCsr: a bad DN only shows here; the tour logs the CSR.
MakeCsr ==
  /\ pc = "csr"
  /\ \/ /\ CanBuildCsr /\ NoFault
        /\ csr' = SignedCsr
        /\ IF cmd.name = "tour" THEN csrs' = csrs \cup {csr'} /\ Go("sign")
           ELSE UNCHANGED csrs /\ Go("save")
     \/ ~CanBuildCsr /\ NoFault /\ Exit(1) /\ UNCHANGED <<csr, csrs>>
     \/ Fault /\ Exit(1) /\ UNCHANGED <<csr, csrs>>
  /\ UNCHANGED <<obj, keys, bits, certs, history>>

DiskFault == "disk" \in Faults /\ failed' = failed \cup {<<pc, slot>>} /\ UNCHANGED csrs

\* Mutant of SaveCsr: the results of fwrite and fclose are not looked at.
SaveCsrUnchecked ==
  /\ pc = "save"
  /\ \/ csrs' = csrs \cup {csr} /\ NoFault
     \/ DiskFault
  /\ Exit(0)
  /\ UNCHANGED <<obj, keys, certs, host, history>>

\* The end of CmdProvision: a failing --out file is reported, stdout is not.
SaveCsr ==
  /\ pc = "save"
  /\ \/ csrs' = csrs \cup {csr} /\ NoFault /\ Exit(0)
     \/ DiskFault /\ Exit(IF cmd.out THEN 1 ELSE 0)
  /\ UNCHANGED <<obj, keys, certs, host, history>>

Certifies(content) == content \in 1..Len(keys)

\* Mutant of Sign: a failure to sign counts as a signature that does not match.
SignNoError ==
  /\ pc = "sign"
  /\ \/ /\ CanSign /\ NoFault
        /\ IF cmd.name = "tour" THEN Go("verify")
           ELSE Exit(IF ~Certifies(Content) THEN 1 ELSE IF Content = obj[slot] THEN 0 ELSE 2)
     \/ ~CanSign /\ NoFault /\ Exit(2)
     \/ Fault /\ Exit(2)
  /\ UNCHANGED <<obj, keys, host, csrs, certs, history>>

\* Sign; VerifyBinding then checks the signature against the certificate.
Sign ==
  /\ pc = "sign"
  /\ \/ /\ CanSign /\ NoFault
        /\ IF cmd.name = "tour" THEN Go("verify")
           ELSE Exit(IF ~Certifies(Content) THEN 1 ELSE IF Content = obj[slot] THEN 0 ELSE 2)
     \/ ~CanSign /\ NoFault /\ Exit(1)
     \/ Fault /\ Exit(1)
  /\ UNCHANGED <<obj, keys, host, csrs, certs, history>>

NextSlot == IF slot = "rsa" THEN "ec" ELSE "demo"

\* Verify: the tour logs an invalid signature and goes on to its next slot.
Verify ==
  /\ pc = "verify"
  /\ \/ /\ NoFault \/ Fault
        /\ pc' = "exists" /\ slot' = NextSlot
        /\ UNCHANGED code
     \/ Fault /\ Exit(1)
  /\ UNCHANGED <<obj, keys, host, csrs, certs, history>>

-----------------------------------------------------------------------------
(* The program's environment                                               *)

\* A CA certifies the key of a CSR that the key itself has signed.
IssueCert ==
  /\ \E c \in csrs : c[1] = c[2] /\ c[1] \notin certs /\ certs' = certs \cup {c[1]}
  /\ pc = "idle"
  /\ UNCHANGED <<obj, keys, csrs, pc, slot, host, code, failed, history>>

Kill ==
  /\ "kill" \in Faults /\ pc # "idle"
  /\ Exit(Killed)
  /\ UNCHANGED <<obj, keys, csrs, certs, host, failed, history>>

Init ==
  /\ obj = [s \in Slots |-> None] /\ keys = <<>>
  /\ csrs = {} /\ certs = {}
  /\ cmd = Line("uid") /\ pc = "idle" /\ slot = "rsa"
  /\ bits = 2048 /\ csr = <<None, None>>
  /\ code = 0 /\ failed = {}
  /\ before = [obj |-> obj, made |-> 0] /\ ran = 0

Next ==
  \/ Start \/ ReadFile \/ Exists \/ Erase \/ Cleanup \/ StoreBinary \/ ReadBinary
  \/ GetUid \/ GetRandom \/ Generate \/ OpenKey \/ PublicKeyDer \/ MakeCsr \/ SaveCsr
  \/ Sign \/ Verify \/ IssueCert \/ Kill

Spec == Init /\ [][Next]_vars

-----------------------------------------------------------------------------
(* Properties                                                              *)

Steps == {"idle", "file", "exists", "erase", "cleanup", "store", "read", "uid", "rng",
          "generate", "open", "spki", "csr", "save", "sign", "verify"}
Made  == 1..Len(keys)

\* Type correctness: key slots have keys that were generated, the others what
\* some file had, or part of it; never the contents of an unreadable file.
TypeOK ==
  /\ obj \in [Slots -> {None, Cut, Torn} \cup Blobs \cup Made]
  /\ \A s \in KeySlots : obj[s] \in {None} \cup Made
  /\ keys \in Seq([bits : Nat, policy : {"Full", "SignDecrypt"}])
  /\ certs \subseteq Made
  /\ csrs \subseteq Made \X Made
  /\ pc \in Steps /\ slot \in Slots /\ bits \in Nat
  /\ code \in {0, 1, 2, Killed}

Fresh == {n \in Made : n > before.made}

OnlyTouches(S) == \A s \in Slots \ S : obj[s] = before.obj[s]

\* The policy that the help of --policy promises for a word: "full | sign-only
\* | sign-decrypt" (main.cpp:33), the names of KeyPolicy (rsa_key.hpp:22-26).
NamedPolicy(word) ==
  CASE word = "full" -> "Full"
    [] word = "sign-only" -> "SignOnly"
    [] word = "sign-decrypt" -> "SignDecrypt"

\* The key now in the RSA slot is new and has the size that was asked for, and
\* the policy too when it was named by one of the words in `words`.
KeyAsAsked(words) ==
  /\ obj["rsa"] \in Fresh
  /\ keys[obj["rsa"]].bits = cmd.bits
  /\ cmd.policy \in words => keys[obj["rsa"]].policy = NamedPolicy(cmd.policy)

ProvisionEffect ==
  /\ OnlyTouches({"rsa"})
  /\ IF code = 0 THEN KeyAsAsked({"full", "sign-decrypt"})
     ELSE obj["rsa"] \in Fresh \cup {before.obj["rsa"], None}

WriteEffect(s) ==
  /\ OnlyTouches({s})
  /\ IF code = 0
     THEN obj[s] = IF before.obj[s] # None /\ ~cmd.force /\ <<"exists", s>> \notin failed
                   THEN before.obj[s]
                   ELSE Content
     ELSE obj[s] \in {before.obj[s], None, Torn, Content}

TourEffect ==
  /\ OnlyTouches({"rsa", "ec", "demo"})
  /\ code = 0 => \A s \in KeySlots : obj[s] # None
  /\ \A s \in KeySlots :
       before.obj[s] # None /\ <<"exists", s>> \notin failed => obj[s] = before.obj[s]

\* What a finished command has done to the element: exactly its own slot is
\* replaced when it exits with 0, a key by one of the size that was asked for
\* and of the policy, where the option loop knows its name (PolicyAsAsked is
\* about the others), an object by what was read of the file; a failed or
\* killed one leaves that slot as it was, empty, half written or replaced and
\* touches no other.  The tour keeps the keys it finds, unless the look for
\* them failed, which Exists does not tell from absence.
CommandEffect ==
  pc = "idle" =>
    CASE cmd.name = "provision" -> ProvisionEffect
      [] cmd.name \in {"write-cert", "write-info"} -> WriteEffect(SlotOf(cmd.name))
      [] cmd.name = "tour" -> TourEffect
      [] OTHER -> OnlyTouches({})

\* The help of provision, "--policy full | sign-only | sign-decrypt"
\* (main.cpp:33): a provision that exits with 0 has made a key of the policy
\* that was named.  The code does not keep this for sign-only.
PolicyAsAsked ==
  (pc = "idle" /\ cmd.name = "provision" /\ code = 0)
    => KeyAsAsked({"full", "sign-only", "sign-decrypt"})

\* Every CSR delivered has the public key of the key that signed it, and after
\* a provision --out that exits with 0 the one of the key now in the element
\* is among them.
CsrIsRight ==
  /\ \A c \in csrs : c[1] = c[2]
  /\ pc = "idle" /\ cmd.name = "provision" /\ code = 0 /\ cmd.out
       => <<obj["rsa"], obj["rsa"]>> \in csrs

\* verify answers OK or FAIL only after it has compared a readable certificate
\* with the element's key, and then truly; an error has a reason.
BindingIsTruthful ==
  pc = "idle" /\ cmd.name = "verify" =>
    /\ code = 0 => Certifies(Content) /\ Content = obj["rsa"]
    /\ code = 2 => Certifies(Content) /\ obj["rsa"] \in Made \ {Content}
    /\ code = 1 => \/ ~Certifies(Content) \/ obj["rsa"] = None \/ failed # {}
                   \/ keys[obj["rsa"]].bits > 2048

=============================================================================
