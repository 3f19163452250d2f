------------------------ MODULE SecureElementProofs ------------------------
(***************************************************************************)
(* Theorems about the programs that work on the secure element: SeFactory, *)
(* for any sizes, policies, faults and number of commands, and             *)
(* Scp03Rotation, for any number of key sets.                              *)
(***************************************************************************)
EXTENDS SeFactory, Scp03Rotation, TLAPS

-----------------------------------------------------------------------------
(* The commands of se_factory and the quickstart.  The inductive invariant *)
(* adds to the properties where each command can be and what it has done   *)
(* to the element so far.                                                  *)

Writes == {"write-cert", "write-info"}
Names  == Writes \cup {"provision", "verify", "read-info", "uid", "tour"}

\* The command line in progress.
CmdOK ==
  /\ cmd.name \in Names
  /\ cmd.file \in Made \cup Blobs \cup {Missing}
  /\ cmd.bits \in Nat
  /\ cmd.name = "tour" => cmd.file \in Blobs /\ cmd.force
  /\ cmd.name \in {"provision", "write-cert"} => cmd.force

\* Where each command can be.
Control ==
  /\ cmd.name = "provision" =>
       slot = "rsa" /\ pc \in {"idle", "exists", "erase", "generate", "spki", "csr", "save"}
  /\ cmd.name \in Writes =>
       /\ slot = SlotOf(cmd.name) /\ pc \in {"idle", "file", "exists", "erase", "store"}
       /\ pc \in {"exists", "erase", "store"} => cmd.file # Missing
  /\ cmd.name = "verify" =>
       slot = "rsa" /\ pc \in {"idle", "file", "rng", "open", "sign"}
  /\ cmd.name = "read-info" => slot = "info" /\ pc \in {"idle", "read"}
  /\ cmd.name = "uid" => slot = "rsa" /\ pc \in {"idle", "uid"}
  /\ cmd.name = "tour" =>
       /\ slot \in {"rsa", "ec", "demo"}
       /\ pc \in {"uid", "rng"} => slot = "rsa"
       /\ pc \in {"generate", "open", "spki", "csr", "sign", "verify"} => slot \in KeySlots
       /\ pc \in {"erase", "store", "read", "cleanup"} => slot = "demo"
       /\ pc \notin {"file", "save"}

\* The CSR under way.
CsrOK ==
  /\ csr \in ({None} \cup Made) \X ({None} \cup Made)
  /\ pc = "csr" => csr[1] = obj[slot] /\ csr[1] \in Made
  /\ pc = "save" => csr = <<obj["rsa"], obj["rsa"]>> /\ csr[1] \in Made

Base == TypeOK /\ CmdOK /\ Control /\ CsrOK

-----------------------------------------------------------------------------
(* Base                                                                    *)

\* What Start starts with.
LEMMA Started ==
  ASSUME TypeOK, Start
  PROVE  /\ cmd'.name \in Names
         /\ cmd'.file \in Made \cup Blobs \cup {Missing}
         /\ cmd'.bits \in Nat
         /\ cmd'.name = "tour" => cmd'.file \in Blobs /\ cmd'.force
         /\ cmd'.name \in {"provision", "write-cert"} => cmd'.force
         /\ slot' = SlotOf(cmd'.name)
         /\ \/ pc' = FirstStep(cmd'.name) /\ failed' = {} /\ UNCHANGED code
            \/ pc' = "idle" /\ failed' # {} /\ code' = 1
<1>0. PICK line : cmd' = line /\ Run(line)
  BY DEF Start, Run
<1>1. ASSUME NEW b \in Bits, NEW p, NEW w, NEW o, cmd' = Provision(b, p, w, o)
      PROVE  cmd'.name = "provision" /\ cmd'.file = Missing /\ cmd'.bits \in Nat /\ cmd'.force
  BY <1>1, FactoryAssumption DEF Provision, Line
<1>2. ASSUME NEW n, NEW f, NEW l, cmd' = WithFile(n, f, l)
      PROVE  cmd'.name = n /\ cmd'.file = f /\ cmd'.bits \in Nat /\ cmd'.force
  BY <1>2 DEF WithFile, Line
<1>4. ASSUME NEW f \in Blobs, cmd' = Unforced(f)
      PROVE  cmd'.name = "write-info" /\ cmd'.file = f /\ cmd'.bits \in Nat
  BY <1>4 DEF Unforced, Line
<1>5. ASSUME NEW n \in {"read-info", "uid"}, cmd' = Line(n)
      PROVE  cmd'.name = n /\ cmd'.file = Missing /\ cmd'.bits \in Nat
  BY <1>5 DEF Line
<1>6. /\ cmd'.name \in Names
      /\ cmd'.file \in Made \cup Blobs \cup {Missing}
      /\ cmd'.bits \in Nat
      /\ cmd'.name = "tour" => cmd'.file \in Blobs /\ cmd'.force
      /\ cmd'.name \in {"provision", "write-cert"} => cmd'.force
  <2>1. CASE \E b \in Bits, p \in PolicyArgs, s, o \in BOOLEAN : Run(Provision(b, p, s, o))
    BY <2>1, <1>1 DEF Run, Names
  <2>2. CASE \E n \in {"write-cert", "verify", "write-info"}, f \in Files, l \in BOOLEAN :
               Run(WithFile(n, f, l))
    BY <2>2, <1>2 DEF Run, Names, Writes, Files, TypeOK
  <2>3. CASE \E f \in Blobs : Run(WithFile("tour", f, FALSE))
    BY <2>3, <1>2 DEF Run, Names
  <2>4. CASE \E f \in Blobs : Run(Unforced(f))
    BY <2>4, <1>4 DEF Run, Names, Writes
  <2>5. CASE Run(Line("read-info")) \/ Run(Line("uid"))
    BY <2>5, <1>5 DEF Run, Names
  <2>6. QED
    BY <2>1, <2>2, <2>3, <2>4, <2>5 DEF Start
<1>7. QED
  BY <1>0, <1>6 DEF Run

LEMMA BaseInit == Init => Base
<1> SUFFICES ASSUME Init PROVE Base
  OBVIOUS
<1>1. TypeOK
  BY DEF Init, TypeOK, Slots, KeySlots, Made, Steps, Killed
<1>2. CmdOK /\ Control /\ CsrOK
  BY FactoryAssumption DEF Init, Line, CmdOK, Names, Writes, Control, CsrOK, Made
<1>3. QED
  BY <1>1, <1>2 DEF Base

\* The key in a slot.
LEMMA KeyAt ==
  ASSUME TypeOK, NEW s \in KeySlots, obj[s] # None
  PROVE  obj[s] \in Made /\ keys[obj[s]].bits \in Nat
<1>1. obj[s] \in Made
  BY DEF TypeOK
<1>2. keys \in Seq([bits : Nat, policy : {"Full", "SignDecrypt"}])
  BY DEF TypeOK
<1> DEFINE Pair == [bits : Nat, policy : {"Full", "SignDecrypt"}]
<1>3. keys[obj[s]] \in Pair
  <2> HIDE DEF Pair
  <2>1. keys \in Seq(Pair)
    BY <1>2 DEF Pair
  <2>2. \A n \in 1..Len(keys) : keys[n] \in Pair
    BY <2>1
  <2>3. QED
    BY <1>1, <2>2 DEF Made
<1>4. QED
  BY <1>1, <1>3

\* Key pairs are never forgotten.
LEMMA KeysGrow ==
  ASSUME TypeOK, CmdOK, Next
  PROVE  /\ Made \subseteq Made'
         /\ Len(keys) \in Nat /\ Len(keys') \in Nat /\ Len(keys) <= Len(keys')
         /\ \A n \in Made : keys'[n] = keys[n]
         /\ keys' \in Seq([bits : Nat, policy : {"Full", "SignDecrypt"}])
         /\ keys' # keys => pc = "generate"
<1>1. keys \in Seq([bits : Nat, policy : {"Full", "SignDecrypt"}])
  BY DEF TypeOK
<1>2. KeyAsked \in [bits : Nat, policy : {"Full", "SignDecrypt"}]
  BY DEF KeyAsked, PolicyOf, CmdOK, DefaultSize
<1>3. CASE UNCHANGED keys
  BY <1>1, <1>3 DEF Made
<1>4. CASE keys' = Append(keys, KeyAsked) /\ pc = "generate"
  BY <1>1, <1>2, <1>4 DEF Made
<1>5. Start \/ ReadFile \/ Exists \/ Erase \/ Cleanup \/ StoreBinary \/ ReadBinary \/ GetUid
        \/ GetRandom => UNCHANGED keys
  BY DEF Start, ReadFile, Exists, Erase, Cleanup, StoreBinary, ReadBinary, GetUid, GetRandom
<1>6. OpenKey \/ PublicKeyDer \/ MakeCsr \/ SaveCsr \/ Sign \/ Verify \/ IssueCert \/ Kill
        => UNCHANGED keys
  BY DEF OpenKey, PublicKeyDer, MakeCsr, SaveCsr, Sign, Verify, IssueCert, Kill
<1>7. Generate => UNCHANGED keys \/ (keys' = Append(keys, KeyAsked) /\ pc = "generate")
  BY DEF Generate, MakesKey
<1>8. QED
  BY <1>3, <1>4, <1>5, <1>6, <1>7 DEF Next

\* Everything but the start of a command.
Working ==
  \/ ReadFile \/ Exists \/ Erase \/ Cleanup \/ StoreBinary \/ ReadBinary \/ GetUid \/ GetRandom
  \/ Generate \/ OpenKey \/ PublicKeyDer \/ MakeCsr \/ SaveCsr \/ Sign \/ Verify
  \/ IssueCert \/ Kill

LEMMA Frame == ASSUME Working PROVE UNCHANGED <<cmd, before, ran>>
<1>1. UNCHANGED history
  BY DEF Working, ReadFile, Exists, Erase, Cleanup, StoreBinary, ReadBinary, GetUid, GetRandom,
      Generate, OpenKey, PublicKeyDer, MakeCsr, SaveCsr, Sign, Verify, IssueCert, Kill
<1>2. QED
  BY <1>1 DEF history

LEMMA CmdStep == ASSUME Base, Next PROVE CmdOK'
<1>0. TypeOK /\ CmdOK /\ Made \subseteq Made'
  BY KeysGrow DEF Base
<1>1. CASE Start
  <2>1. UNCHANGED keys
    BY <1>1 DEF Start
  <2>2. QED
    BY <1>0, <1>1, <2>1, Started DEF CmdOK, Made
<1>2. CASE Working
  BY <1>0, <1>2, Frame DEF CmdOK
<1>3. QED
  BY <1>1, <1>2 DEF Next, Working

LEMMA ControlStep == ASSUME Base, Next PROVE Control'
<1>0. Control /\ CmdOK
  BY DEF Base
<1>1. CASE Start
  BY <1>1, Started DEF Base, Control, Names, Writes, SlotOf, FirstStep
<1>2. ASSUME Working PROVE UNCHANGED cmd
  BY <1>2, Frame
<1>3. CASE ReadFile
  BY <1>0, <1>2, <1>3 DEF Working, ReadFile, Control, Go, Exit, CmdOK, Names, Writes
<1>4. CASE Exists
  BY <1>0, <1>2, <1>4 DEF Working, Exists, AfterExists, Control, Go, Exit, CmdOK, Names, Writes,
      KeySlots, SlotOf
<1>5. CASE Erase
  BY <1>0, <1>2, <1>5 DEF Working, Erase, Control, Go, Exit, CmdOK, Names, Writes, KeySlots, SlotOf
<1>6. CASE Cleanup \/ Kill
  BY <1>0, <1>2, <1>6 DEF Working, Cleanup, Kill, Control, Exit, CmdOK, Names, Writes
<1>7. CASE StoreBinary
  BY <1>0, <1>2, <1>7 DEF Working, StoreBinary, AfterStore, Control, Go, Exit, CmdOK, Names, Writes
<1>8. CASE ReadBinary
  BY <1>0, <1>2, <1>8 DEF Working, ReadBinary, Control, Go, Exit, CmdOK, Names, Writes
<1>9. CASE GetUid \/ GetRandom
  BY <1>0, <1>2, <1>9 DEF Working, GetUid, GetRandom, Control, Go, Exit, CmdOK, Names, Writes
<1>10. CASE Generate
  BY <1>0, <1>2, <1>10 DEF Working, Generate, Control, Go, Exit, CmdOK, Names, Writes
<1>11. CASE OpenKey
  BY <1>0, <1>2, <1>11 DEF Working, OpenKey, AfterOpen, Control, Go, Exit, CmdOK, Names, Writes
<1>12. CASE PublicKeyDer
  BY <1>0, <1>2, <1>12 DEF Working, PublicKeyDer, Control, Go, Exit, CmdOK, Names, Writes
<1>13. CASE MakeCsr
  BY <1>0, <1>2, <1>13 DEF Working, MakeCsr, Control, Go, Exit, CmdOK, Names, Writes
<1>14. CASE SaveCsr
  BY <1>0, <1>2, <1>14 DEF Working, SaveCsr, Control, Go, Exit, CmdOK, Names, Writes
<1>15. CASE Sign
  BY <1>0, <1>2, <1>15 DEF Working, Sign, Control, Go, Exit, CmdOK, Names, Writes
<1>16. CASE Verify
  BY <1>0, <1>2, <1>16 DEF Working, Verify, Control, Exit, CmdOK, Names, Writes, KeySlots, NextSlot
<1>17. CASE IssueCert
  BY <1>0, <1>2, <1>17 DEF Working, IssueCert, Control
<1>18. QED
  BY <1>1, <1>3, <1>4, <1>5, <1>6, <1>7, <1>8, <1>9, <1>10, <1>11, <1>12, <1>13, <1>14, <1>15,
     <1>16, <1>17 DEF Next

\* The contents of a file that was read.
LEMMA ContentOK ==
  ASSUME Base, pc = "store"
  PROVE  slot \in Slots \ KeySlots /\ Content \in {Cut} \cup Blobs \cup Made
BY FactoryAssumption DEF Base, Control, CmdOK, Names, Writes, SlotOf, Slots, KeySlots, Content

\* What a step can do to the element.
ObjectChange ==
  \/ UNCHANGED obj
  \/ pc \in {"erase", "cleanup"} /\ obj' = [obj EXCEPT ![slot] = None]
  \/ pc = "store" /\ \E v \in {Torn, Content} : obj' = [obj EXCEPT ![slot] = v]
  \/ /\ pc = "generate" /\ obj' = [obj EXCEPT ![slot] = Len(keys) + 1]
     /\ keys' = Append(keys, KeyAsked)

LEMMA ObjStep == ASSUME Base, Next PROVE ObjectChange
<1>1. CASE Start \/ ReadFile \/ Exists \/ ReadBinary \/ GetUid \/ GetRandom \/ OpenKey
             \/ PublicKeyDer \/ MakeCsr \/ SaveCsr \/ Sign \/ Verify \/ IssueCert \/ Kill
  BY <1>1 DEF ObjectChange, Start, ReadFile, Exists, ReadBinary, GetUid, GetRandom, OpenKey,
      PublicKeyDer, MakeCsr, SaveCsr, Sign, Verify, IssueCert, Kill
<1>2. CASE Erase \/ Cleanup
  BY <1>2 DEF ObjectChange, Erase, Cleanup, EraseOk, EraseFails
<1>3. CASE StoreBinary
  <2>1. obj \in [Slots -> {None, Cut, Torn} \cup Blobs \cup Made]
    BY DEF Base, TypeOK
  <2>2. [obj EXCEPT ![slot] = obj[slot]] = obj
    BY <2>1
  <2>3. QED
    BY <1>3, <2>2 DEF ObjectChange, StoreBinary
<1>4. CASE Generate
  BY <1>4 DEF ObjectChange, Generate, MakesKey
<1>5. QED
  BY <1>1, <1>2, <1>3, <1>4 DEF Next

LEMMA ObjType ==
  ASSUME Base, Next
  PROVE  /\ obj' \in [Slots -> {None, Cut, Torn} \cup Blobs \cup Made']
         /\ \A s \in KeySlots : obj'[s] \in {None} \cup Made'
<1>0. /\ obj \in [Slots -> {None, Cut, Torn} \cup Blobs \cup Made]
      /\ \A s \in KeySlots : obj[s] \in {None} \cup Made
      /\ slot \in Slots /\ Made \subseteq Made' /\ KeySlots \subseteq Slots
  BY KeysGrow DEF Base, TypeOK, KeySlots, Slots
<1>1. CASE UNCHANGED obj
  BY <1>0, <1>1
<1>2. CASE obj' = [obj EXCEPT ![slot] = None]
  BY <1>0, <1>2
<1>3. CASE pc = "store" /\ \E v \in {Torn, Content} : obj' = [obj EXCEPT ![slot] = v]
  BY <1>0, <1>3, ContentOK
<1>4. CASE obj' = [obj EXCEPT ![slot] = Len(keys) + 1] /\ keys' = Append(keys, KeyAsked)
  <2>1. Len(keys) + 1 \in Made'
    BY <1>4, KeysGrow DEF Made, Base, TypeOK
  <2>2. QED
    BY <1>0, <1>4, <2>1
<1>5. QED
  BY <1>1, <1>2, <1>3, <1>4, ObjStep DEF ObjectChange

LEMMA TypeStep == ASSUME Base, Next PROVE TypeOK'
<1>0. TypeOK /\ CmdOK /\ Control /\ CsrOK
  BY DEF Base
<1>1. keys' \in Seq([bits : Nat, policy : {"Full", "SignDecrypt"}]) /\ Made \subseteq Made'
  BY <1>0, KeysGrow
<1>2. certs' \subseteq Made'
  <2>1. CASE IssueCert
    BY <1>0, <1>1, <2>1 DEF IssueCert, TypeOK
  <2>2. CASE ~IssueCert
    <3>1. UNCHANGED certs
      BY <2>2 DEF Next, Start, ReadFile, Exists, Erase, Cleanup, StoreBinary, ReadBinary, GetUid,
          GetRandom, Generate, OpenKey, PublicKeyDer, MakeCsr, SaveCsr, Sign, Verify, Kill
    <3>2. QED
      BY <1>0, <1>1, <3>1 DEF TypeOK
  <2>3. QED
    BY <2>1, <2>2
<1>3. csrs' \subseteq Made' \X Made'
  <2>1. CASE MakeCsr
    <3>1. csr[1] \in Made /\ obj[slot] # None => obj[slot] \in Made
      BY <1>0, <2>1 DEF MakeCsr, CsrOK
    <3>2. csrs' \subseteq csrs \cup {<<csr[1], obj[slot]>>}
      BY <2>1 DEF MakeCsr, SignedCsr
    <3>3. QED
      BY <1>0, <1>1, <2>1, <3>1, <3>2 DEF TypeOK, MakeCsr, CsrOK
  <2>2. CASE SaveCsr
    BY <1>0, <1>1, <2>2 DEF TypeOK, SaveCsr, DiskFault, CsrOK
  <2>3. CASE ~MakeCsr /\ ~SaveCsr
    <3>1. UNCHANGED csrs
      BY <2>3 DEF Next, Start, ReadFile, Exists, Erase, Cleanup, StoreBinary, ReadBinary, GetUid,
          GetRandom, Generate, OpenKey, PublicKeyDer, Sign, Verify, Kill, IssueCert
    <3>2. QED
      BY <1>0, <1>1, <3>1 DEF TypeOK
  <2>4. QED
    BY <2>1, <2>2, <2>3
<1>4. pc' \in Steps /\ slot' \in Slots /\ code' \in {0, 1, 2, Killed}
  <2> USE DEF Go, Exit, Steps, Slots
  <2>1. CASE Start
    BY <1>0, <2>1, Started DEF TypeOK, FirstStep, SlotOf
  <2>2. CASE ReadFile \/ Exists \/ Erase \/ Cleanup \/ StoreBinary \/ ReadBinary
    BY <1>0, <2>2 DEF TypeOK, ReadFile, Exists, AfterExists, Erase, Cleanup, StoreBinary,
        AfterStore, ReadBinary
  <2>3. CASE GetUid \/ GetRandom \/ Generate \/ OpenKey \/ PublicKeyDer \/ MakeCsr
    BY <1>0, <2>3 DEF TypeOK, GetUid, GetRandom, Generate, OpenKey, AfterOpen, PublicKeyDer, MakeCsr
  <2>4. CASE SaveCsr \/ Sign \/ Verify \/ IssueCert \/ Kill
    BY <1>0, <2>4 DEF TypeOK, SaveCsr, Sign, Verify, IssueCert, Kill, NextSlot
  <2>5. QED
    BY <2>1, <2>2, <2>3, <2>4 DEF Next
<1>5. bits' \in Nat
  <2>1. CASE Generate
    BY <1>0, <2>1 DEF TypeOK, CmdOK, Generate, KeyAsked, DefaultSize
  <2>2. CASE OpenKey
    <3>2. slot \in KeySlots
      BY <1>0, <2>2 DEF OpenKey, Control, CmdOK, Names, Writes, KeySlots
    <3>1. obj[slot] # None => keys[obj[slot]].bits \in Nat
      BY <1>0, <3>2, KeyAt
    <3>3. QED
      BY <1>0, <2>2, <3>1, <3>2 DEF OpenKey, TypeOK, DefaultSize
  <2>3. CASE ~Generate /\ ~OpenKey
    BY <1>0, <2>3 DEF TypeOK, host, Next, Start, ReadFile, Exists, Erase, Cleanup, StoreBinary,
        ReadBinary, GetUid, GetRandom, PublicKeyDer, MakeCsr, SaveCsr, Sign, Verify, IssueCert, Kill
  <2>4. QED
    BY <2>1, <2>2, <2>3
<1>6. QED
  BY <1>1, <1>2, <1>3, <1>4, <1>5, ObjType DEF TypeOK

LEMMA CsrStep == ASSUME Base, Next PROVE CsrOK'
<1>0. TypeOK /\ CmdOK /\ Control /\ CsrOK /\ Made \subseteq Made'
  BY KeysGrow DEF Base
<1>1. CASE PublicKeyDer
  <2>1. slot \in KeySlots
    BY <1>0, <1>1 DEF PublicKeyDer, Control, CmdOK, Names, Writes, KeySlots
  <2>2. obj[slot] # None => obj[slot] \in Made
    BY <1>0, <2>1, KeyAt
  <2>3. QED
    BY <1>0, <1>1, <2>2 DEF PublicKeyDer, CsrOK, Go, Exit, PublicKeyReadable
<1>2. CASE MakeCsr
  <2>1. slot \in KeySlots /\ (cmd.name # "tour" => slot = "rsa")
    BY <1>0, <1>2 DEF MakeCsr, Control, CmdOK, Names, Writes, KeySlots
  <2>2. obj[slot] \in Made /\ csr[1] = obj[slot]
    BY <1>0, <1>2 DEF MakeCsr, CsrOK
  <2>3. QED
    BY <1>0, <1>2, <2>1, <2>2 DEF MakeCsr, CsrOK, Go, Exit, SignedCsr
<1>3. CASE ~PublicKeyDer /\ ~MakeCsr
  <2>1. UNCHANGED csr
    BY <1>3 DEF host, Next, Start, ReadFile, Exists, Erase, Cleanup, StoreBinary, ReadBinary,
        GetUid, GetRandom, Generate, OpenKey, SaveCsr, Sign, Verify, IssueCert, Kill
  <2>2. pc' \notin {"csr", "save"}
    <3>1. CASE Start
      BY <1>0, <3>1, Started DEF FirstStep
    <3>2. CASE IssueCert
      BY <3>2 DEF IssueCert
    <3>3. CASE ~Start /\ ~IssueCert
      BY <1>3, <3>3 DEF Next, ReadFile, Exists, AfterExists, Erase, Cleanup, StoreBinary,
          AfterStore, ReadBinary, GetUid, GetRandom, Generate, OpenKey, AfterOpen, SaveCsr, Sign,
          Verify, Kill, Go, Exit
    <3>4. QED
      BY <3>1, <3>2, <3>3
  <2>3. QED
    BY <1>0, <2>1, <2>2 DEF CsrOK
<1>4. QED
  BY <1>1, <1>2, <1>3

LEMMA BaseStep == Base /\ [Next]_vars => Base'
<1> SUFFICES ASSUME Base, [Next]_vars PROVE Base'
  OBVIOUS
<1>1. CASE Next
  BY <1>1, CmdStep, ControlStep, TypeStep, CsrStep DEF Base
<1>2. CASE UNCHANGED vars
  BY <1>2 DEF vars, host, Base, TypeOK, CmdOK, Control, CsrOK, Made
<1>3. QED
  BY <1>1, <1>2

\* Type correctness for every instance: a key slot only ever has a key the
\* element generated, and no slot the contents of a file that ReadFile
\* (main.cpp:85-91) could not read.
THEOREM FactoryTypes == Spec => []TypeOK
<1>1. Base => TypeOK
  BY DEF Base
<1>2. QED
  BY <1>1, BaseInit, BaseStep, PTL DEF Spec

-----------------------------------------------------------------------------
(* CSRs                                                                    *)

CsrInv == Base /\ CsrIsRight

LEMMA CsrInvStep == CsrInv /\ [Next]_vars => CsrInv'
<1> SUFFICES ASSUME CsrInv, [Next]_vars PROVE CsrInv'
  OBVIOUS
<1>0. Base' /\ Base /\ CsrOK /\ Control /\ CsrIsRight /\ CmdOK
  BY BaseStep DEF CsrInv, Base
<1>1. CASE MakeCsr
  <2>1. csr[1] = obj[slot] /\ csrs' \subseteq csrs \cup {<<csr[1], obj[slot]>>}
    BY <1>0, <1>1 DEF MakeCsr, CsrOK, SignedCsr
  <2>2. pc' = "idle" => code' # 0
    BY <1>1 DEF MakeCsr, Go, Exit
  <2>3. QED
    BY <1>0, <2>1, <2>2 DEF CsrIsRight, CsrInv
<1>2. CASE SaveCsr
  <2>1. csr = <<obj["rsa"], obj["rsa"]>> /\ UNCHANGED <<cmd, obj>>
    BY <1>0, <1>2 DEF SaveCsr, CsrOK, history
  <2>2. QED
    BY <1>0, <1>2, <2>1 DEF SaveCsr, DiskFault, Exit, CsrIsRight, CsrInv
<1>3. CASE Next /\ ~MakeCsr /\ ~SaveCsr
  <2>1. UNCHANGED csrs
    BY <1>3 DEF Next, Start, ReadFile, Exists, Erase, Cleanup, StoreBinary, ReadBinary, GetUid,
        GetRandom, Generate, OpenKey, PublicKeyDer, Sign, Verify, Kill, IssueCert
  <2>2. CASE IssueCert
    BY <1>0, <2>1, <2>2 DEF IssueCert, CsrIsRight, CsrInv, history
  <2>3. CASE Start
    BY <1>0, <2>1, <2>3, Started DEF CsrIsRight, CsrInv, FirstStep, Base
  <2>4. CASE ~IssueCert /\ ~Start
    <3>1. pc' = "idle" /\ cmd.name = "provision" => code' # 0
      BY <1>0, <1>3, <2>4 DEF Next, ReadFile, Exists, AfterExists, Erase, Cleanup, StoreBinary,
          AfterStore, ReadBinary, GetUid, GetRandom, Generate, OpenKey, AfterOpen, PublicKeyDer,
          Sign, Verify, Kill, Go, Exit, Control, CmdOK, Names, Writes, Killed
    <3>2. UNCHANGED cmd
      BY <1>3, <2>4, Frame DEF Next, Working
    <3>3. QED
      BY <1>0, <2>1, <3>1, <3>2 DEF CsrIsRight, CsrInv
  <2>5. QED
    BY <2>2, <2>3, <2>4
<1>4. CASE UNCHANGED vars
  BY <1>0, <1>4 DEF vars, CsrInv, CsrIsRight
<1>5. QED
  BY <1>1, <1>2, <1>3, <1>4

\* For every instance: a CSR always has the public key of the key that signed
\* it, and a provision --out that exits with 0 has delivered the one of the
\* key it left in the element (MakeCsr, CmdProvision).
THEOREM CsrsAreRight == Spec => []CsrIsRight
<1>1. Init => CsrInv
  <2>1. Init => CsrIsRight
    BY DEF Init, CsrIsRight, Line
  <2>2. QED
    BY <2>1, BaseInit DEF CsrInv
<1>2. CsrInv => CsrIsRight
  BY DEF CsrInv
<1>3. QED
  BY <1>1, <1>2, CsrInvStep, PTL DEF Spec

-----------------------------------------------------------------------------
(* What a command has done to the element so far                           *)

ProvisionWork ==
  /\ OnlyTouches({"rsa"})
  /\ obj["rsa"] \in Fresh \cup {before.obj["rsa"], None}
  /\ pc \in {"spki", "csr", "save"} \/ (pc = "idle" /\ code = 0) =>
       /\ obj["rsa"] \in Fresh /\ keys[obj["rsa"]].bits = cmd.bits
       /\ keys[obj["rsa"]].policy = PolicyOf(cmd.policy)

WriteWork ==
  /\ OnlyTouches({slot})
  /\ obj[slot] \in {before.obj[slot], None, Torn, Content}
  /\ pc \in {"file", "exists"} => failed = {}
  /\ pc \in {"file", "exists", "erase"} => obj[slot] = before.obj[slot]
  /\ pc = "erase" => cmd.force
  /\ pc = "store" => cmd.force \/ before.obj[slot] = None \/ <<"exists", slot>> \in failed
  /\ pc = "idle" => WriteEffect(slot)

TourWork ==
  /\ OnlyTouches({"rsa", "ec", "demo"})
  /\ \A s \in KeySlots :
       before.obj[s] # None /\ <<"exists", s>> \notin failed => obj[s] = before.obj[s]
  /\ slot = "rsa" => obj["ec"] = before.obj["ec"]
  /\ pc \in {"uid", "rng", "exists"} /\ slot \in KeySlots => obj[slot] = before.obj[slot]
  /\ pc = "generate" => before.obj[slot] = None \/ <<"exists", slot>> \in failed
  /\ slot \in {"ec", "demo"} => obj["rsa"] # None
  /\ slot = "demo" => obj["ec"] # None
  /\ pc \in {"spki", "csr", "sign", "verify"} => obj[slot] # None
  /\ pc = "idle" /\ code = 0 => slot = "demo"

ReadWork == OnlyTouches({})

Work ==
  /\ before.made \in Nat /\ before.made <= Len(keys)
  /\ cmd.name = "provision" => ProvisionWork
  /\ cmd.name \in Writes => WriteWork
  /\ cmd.name = "tour" => TourWork
  /\ cmd.name \in {"verify", "read-info", "uid"} => ReadWork

EffectInv == Base /\ Work

LEMMA FailedGrows == ASSUME Working PROVE failed \subseteq failed'
<1> USE DEF Fault, NoFault
<1>1. CASE ReadFile \/ Exists \/ StoreBinary \/ ReadBinary \/ GetUid \/ GetRandom
  BY <1>1 DEF ReadFile, Exists, StoreBinary, ReadBinary, GetUid, GetRandom
<1>2. CASE Erase \/ Cleanup
  BY <1>2 DEF Erase, Cleanup, EraseFails
<1>3. CASE Generate \/ OpenKey \/ PublicKeyDer \/ MakeCsr
  BY <1>3 DEF Generate, OpenKey, PublicKeyDer, MakeCsr
<1>4. CASE SaveCsr \/ Sign \/ Verify \/ IssueCert \/ Kill
  BY <1>4 DEF SaveCsr, DiskFault, Sign, Verify, IssueCert, Kill
<1>5. QED
  BY <1>1, <1>2, <1>3, <1>4 DEF Working

\* The effect of a command is what its last step leaves of its work.
LEMMA EffectFromWork == EffectInv => CommandEffect
<1> SUFFICES ASSUME Base, Work, pc = "idle" PROVE CommandEffect
  BY DEF CommandEffect, EffectInv
<1>1. cmd.name = "provision" => ProvisionEffect
  BY DEF Work, ProvisionWork, ProvisionEffect, KeyAsAsked, NamedPolicy, PolicyOf
<1>2. cmd.name = "tour" => TourEffect
  BY DEF Work, TourWork, TourEffect, KeySlots
<1>3. cmd.name \in Writes => WriteEffect(SlotOf(cmd.name))
  BY DEF Base, Control, Work, WriteWork
<1>4. cmd.name \notin Writes \cup {"tour", "provision"} => OnlyTouches({})
  BY DEF Base, CmdOK, Names, Work, ReadWork
<1>5. QED
  BY <1>1, <1>2, <1>3, <1>4 DEF CommandEffect, Writes

\* A new command has done nothing.
LEMMA WorkStart == ASSUME Base, Start PROVE Work'
<1>0. TypeOK
  BY DEF Base
<1>1. UNCHANGED <<obj, keys>> /\ before' = [obj |-> obj, made |-> Len(keys)] /\ Len(keys) \in Nat
  BY <1>0 DEF Start, TypeOK
<1>2. before'.obj = obj' /\ before'.made = Len(keys')
  BY <1>1
<1>3. /\ OnlyTouches({"rsa"})' /\ OnlyTouches({"rsa", "ec", "demo"})' /\ OnlyTouches({})'
      /\ OnlyTouches({slot})'
  BY <1>2 DEF OnlyTouches
<1>4. pc' = "idle" => code' = 1
  BY <1>0, Started DEF FirstStep
<1>5. /\ cmd'.name \in Names /\ slot' = SlotOf(cmd'.name)
      /\ pc' = "idle" \/ (pc' = FirstStep(cmd'.name) /\ failed' = {})
  BY <1>0, Started
<1>6. cmd'.name = "provision" => ProvisionWork'
  BY <1>2, <1>3, <1>4, <1>5 DEF ProvisionWork, FirstStep
<1>7. cmd'.name \in Writes => WriteWork'
  <2>1. pc' = "idle" => WriteEffect(slot)'
    BY <1>2, <1>3, <1>4 DEF WriteEffect
  <2>2. QED
    BY <2>1, <1>2, <1>3, <1>4, <1>5 DEF WriteWork, FirstStep, Writes
<1>8. cmd'.name = "tour" => TourWork'
  BY <1>2, <1>3, <1>4, <1>5 DEF TourWork, FirstStep, SlotOf
<1>9. QED
  BY <1>1, <1>2, <1>3, <1>6, <1>7, <1>8 DEF Work, ReadWork

\* What a step of a command can do to the slot it works on, and to the rest.
LEMMA Touch ==
  ASSUME Base, Working
  PROVE  /\ \A s \in Slots : s # slot => obj'[s] = obj[s]
         /\ pc \notin {"erase", "cleanup", "store", "generate"} => UNCHANGED obj
         /\ pc \in {"erase", "cleanup"} => obj'[slot] \in {obj[slot], None}
         /\ pc = "store" => obj'[slot] \in {obj[slot], Torn, Content}
         /\ pc = "generate" /\ obj'[slot] # obj[slot]
              => obj'[slot] = Len(keys) + 1 /\ keys' = Append(keys, KeyAsked)
<1>1. Next
  BY DEF Next, Working
<1>2. obj \in [Slots -> {None, Cut, Torn} \cup Blobs \cup Made] /\ slot \in Slots
  BY DEF Base, TypeOK
<1>3. ObjectChange
  BY <1>1, ObjStep
<1>4. QED
  BY <1>2, <1>3 DEF ObjectChange

\* Between commands only certificates are issued.
LEMMA Idle == ASSUME Base, Work, Working, pc = "idle" PROVE Work'
<1>1. IssueCert
  BY DEF Working, ReadFile, Exists, Erase, Cleanup, StoreBinary, ReadBinary, GetUid,
      GetRandom, Generate, OpenKey, PublicKeyDer, MakeCsr, SaveCsr, Sign, Verify, Kill
<1>2. UNCHANGED <<obj, keys, pc, slot, code, failed, cmd, before>>
  BY <1>1 DEF IssueCert, history
<1>3. QED
  BY <1>2 DEF Work, ProvisionWork, WriteWork, TourWork, ReadWork, OnlyTouches, Fresh, Made,
      WriteEffect, Content

LEMMA ProvisionStep ==
  ASSUME Base, Work, Working, pc # "idle", cmd.name = "provision" PROVE ProvisionWork'
<1>0. /\ TypeOK /\ CmdOK /\ ProvisionWork /\ slot = "rsa"
      /\ pc \in {"exists", "erase", "generate", "spki", "csr", "save"}
      /\ before.made \in Nat /\ before.made <= Len(keys)
  BY DEF Base, Work, Control
<1>1. UNCHANGED <<cmd, before>> /\ Next
  BY Frame DEF Working, Next
<1>2. OnlyTouches({"rsa"})'
  BY <1>0, <1>1, Touch DEF ProvisionWork, OnlyTouches
<1>3. Fresh \subseteq Fresh' /\ \A n \in Fresh : keys'[n] = keys[n]
  BY <1>0, <1>1, KeysGrow DEF Fresh
<1>4. keys' = Append(keys, KeyAsked) =>
        /\ Len(keys) + 1 \in Fresh' /\ keys'[Len(keys) + 1].bits = cmd.bits
        /\ keys'[Len(keys) + 1].policy = PolicyOf(cmd.policy)
  <2>1. SUFFICES ASSUME keys' = Append(keys, KeyAsked)
                 PROVE  /\ Len(keys) + 1 \in Fresh' /\ keys'[Len(keys) + 1].bits = cmd.bits
                        /\ keys'[Len(keys) + 1].policy = PolicyOf(cmd.policy)
    OBVIOUS
  <2>2. keys \in Seq([bits : Nat, policy : {"Full", "SignDecrypt"}])
    BY <1>0 DEF TypeOK
  <2>3. Len(keys') = Len(keys) + 1 /\ keys'[Len(keys) + 1] = KeyAsked /\ Len(keys) \in Nat
    BY <2>1, <2>2
  <2>4. KeyAsked.bits = cmd.bits /\ KeyAsked.policy = PolicyOf(cmd.policy)
    BY DEF KeyAsked
  <2>5. QED
    BY <1>0, <1>1, <2>3, <2>4 DEF Fresh, Made
<1>5. obj'["rsa"] \in (Fresh \cup {before.obj["rsa"], None})'
  BY <1>0, <1>1, <1>3, <1>4, Touch DEF ProvisionWork
<1>6. ASSUME pc' \in {"spki", "csr", "save"} \/ (pc' = "idle" /\ code' = 0)
      PROVE  /\ obj'["rsa"] \in Fresh' /\ keys'[obj'["rsa"]].bits = cmd.bits
             /\ keys'[obj'["rsa"]].policy = PolicyOf(cmd.policy)
  <2>1. CASE Generate
    <3>1. MakesKey
      BY <1>6, <2>1 DEF Generate, Go, Exit
    <3>2. obj'["rsa"] = Len(keys) + 1
      BY <1>0, <3>1 DEF MakesKey, TypeOK
    <3>3. QED
      BY <1>4, <3>1, <3>2 DEF MakesKey
  <2>2. CASE PublicKeyDer \/ MakeCsr \/ SaveCsr
    <3>1. pc \in {"spki", "csr", "save"} /\ UNCHANGED obj
      BY <2>2 DEF PublicKeyDer, MakeCsr, SaveCsr
    <3>2. QED
      BY <1>0, <1>3, <3>1 DEF ProvisionWork
  <2>3. CASE ~Generate /\ ~PublicKeyDer /\ ~MakeCsr /\ ~SaveCsr
    BY <1>0, <1>6, <2>3 DEF Working, ReadFile, Exists, AfterExists, Erase, Cleanup, StoreBinary,
        ReadBinary, GetUid, GetRandom, OpenKey, Sign, Verify, IssueCert, Kill, Go, Exit, Killed,
        KeySlots, CmdOK
  <2>4. QED
    BY <2>1, <2>2, <2>3
<1>7. QED
  BY <1>1, <1>2, <1>5, <1>6 DEF ProvisionWork

LEMMA WriteStep ==
  ASSUME Base, Work, Working, pc # "idle", cmd.name \in Writes PROVE WriteWork'
<1>0. /\ TypeOK /\ CmdOK /\ WriteWork /\ slot \in {"cert", "info"}
      /\ pc \in {"file", "exists", "erase", "store"}
  BY DEF Base, Work, Control, Writes, SlotOf
<1>1. UNCHANGED <<cmd, before>> /\ failed \subseteq failed' /\ Content' = Content
  BY Frame, FailedGrows DEF Content
<1>2. UNCHANGED slot
  BY <1>0 DEF Working, ReadFile, Exists, AfterExists, Erase, Cleanup, StoreBinary, AfterStore,
      ReadBinary, GetUid, GetRandom, Generate, OpenKey, PublicKeyDer, MakeCsr, SaveCsr, Sign,
      Verify, IssueCert, Kill, Go, Exit
<1>3. OnlyTouches({slot})'
  BY <1>0, <1>1, <1>2, Touch DEF WriteWork, OnlyTouches
<1>4. obj'[slot] \in {before.obj[slot], None, Torn, Content}
  BY <1>0, <1>1, Touch DEF WriteWork
<1>5. (pc' = "idle" /\ code' # 0) => WriteWork'
  BY <1>1, <1>2, <1>3, <1>4 DEF WriteWork, WriteEffect
<1>6. CASE ReadFile
  <2>1. pc' = "exists" \/ (pc' = "idle" /\ code' # 0)
    BY <1>6 DEF ReadFile, Go, Exit, Writes
  <2>2. UNCHANGED <<obj, failed>>
    BY <1>6 DEF ReadFile
  <2>3. QED
    BY <1>0, <1>1, <1>2, <1>3, <1>4, <1>5, <1>6, <2>1, <2>2 DEF WriteWork, ReadFile
<1>7. CASE Exists
  <2>0. UNCHANGED obj /\ obj[slot] = before.obj[slot] /\ failed = {} /\ slot \notin KeySlots
    BY <1>0, <1>7 DEF Exists, WriteWork, KeySlots
  <2>1. CASE pc' = "store" /\ (obj[slot] = None \/ <<"exists", slot>> \in failed')
    BY <1>1, <1>2, <1>3, <1>4, <2>0, <2>1 DEF WriteWork
  <2>2. CASE pc' = "erase" /\ cmd.force
    BY <1>1, <1>2, <1>3, <1>4, <2>0, <2>2 DEF WriteWork
  <2>3. CASE pc' = "idle" /\ obj[slot] # None /\ ~cmd.force /\ failed' = {}
    BY <1>1, <1>2, <1>3, <1>4, <2>0, <2>3 DEF WriteWork, WriteEffect
  <2>4. QED
    BY <1>7, <2>0, <2>1, <2>2, <2>3 DEF Exists, AfterExists, NoFault, Fault, Go, Exit, Writes
<1>8. CASE Erase
  <2>1. (pc' = "store" /\ cmd.force) \/ (pc' = "idle" /\ code' # 0)
    BY <1>0, <1>8 DEF Erase, Go, Exit, WriteWork, KeySlots
  <2>2. QED
    BY <1>1, <1>2, <1>3, <1>4, <1>5, <2>1 DEF WriteWork
<1>9. CASE StoreBinary
  <2>1. CASE pc' = "idle" /\ obj'[slot] = Content /\ failed' = failed
    BY <1>0, <1>1, <1>2, <1>3, <1>4, <1>9, <2>1 DEF WriteWork, WriteEffect, StoreBinary
  <2>2. CASE pc' = "idle" /\ code' # 0
    BY <1>5, <2>2
  <2>3. QED
    BY <1>0, <1>9, <2>1, <2>2 DEF StoreBinary, AfterStore, Writes, NoFault, Exit, TypeOK
<1>10. CASE Kill
  BY <1>5, <1>10 DEF Kill, Exit, Killed
<1>11. QED
  BY <1>0, <1>6, <1>7, <1>8, <1>9, <1>10 DEF Working, Cleanup, ReadBinary, GetUid, GetRandom,
      Generate, OpenKey, PublicKeyDer, MakeCsr, SaveCsr, Sign, Verify, IssueCert

LEMMA TourStep ==
  ASSUME Base, Work, Working, pc # "idle", cmd.name = "tour" PROVE TourWork'
<1>0. TypeOK /\ CmdOK /\ Control /\ TourWork /\ slot \in {"rsa", "ec", "demo"} /\ cmd.force
  BY DEF Base, Work, Control, CmdOK
<1>1. UNCHANGED <<cmd, before>> /\ failed \subseteq failed'
  BY Frame, FailedGrows
<1>2. OnlyTouches({"rsa", "ec", "demo"})'
  BY <1>0, <1>1, Touch DEF TourWork, OnlyTouches
<1>3. pc \in {"erase", "cleanup", "store"} => slot = "demo"
  BY <1>0 DEF Control
<1>4. ASSUME NEW s \in KeySlots, before.obj[s] # None, <<"exists", s>> \notin failed'
      PROVE  obj'[s] = before.obj[s]
  <2>1. obj[s] = before.obj[s]
    BY <1>0, <1>1, <1>4 DEF TourWork
  <2>2. pc # "generate" \/ slot # s
    BY <1>0, <1>1, <1>4 DEF TourWork
  <2>3. s \in Slots /\ s # "demo"
    BY DEF KeySlots, Slots
  <2>4. QED
    BY <1>3, <2>1, <2>2, <2>3, Touch
<1>5. CASE Verify
  <2>1. UNCHANGED obj /\ slot \in KeySlots /\ obj[slot] # None
    BY <1>0, <1>5 DEF Verify, Control, TourWork
  <2>2. CASE pc' = "exists" /\ slot' = NextSlot
    BY <1>0, <1>1, <1>2, <1>4, <2>1, <2>2 DEF TourWork, KeySlots, NextSlot
  <2>3. CASE pc' = "idle" /\ code' = 1 /\ UNCHANGED slot
    BY <1>0, <1>1, <1>2, <1>4, <2>1, <2>3 DEF TourWork, KeySlots
  <2>4. QED
    BY <1>5, <2>2, <2>3 DEF Verify, Exit
<1>6. CASE ~Verify
  <2>1. UNCHANGED slot
    BY <1>0, <1>6 DEF Working, ReadFile, Exists, AfterExists, Erase, Cleanup, StoreBinary,
        AfterStore, ReadBinary, GetUid, GetRandom, Generate, OpenKey, AfterOpen, PublicKeyDer,
        MakeCsr, SaveCsr, Sign, IssueCert, Kill, Go, Exit
  <2>2. /\ slot = "rsa" => obj'["ec"] = before.obj["ec"]
        /\ slot \in {"ec", "demo"} => obj'["rsa"] # None
        /\ slot = "demo" => obj'["ec"] # None
    BY <1>0, Touch DEF TourWork, Slots
  <2> DEFINE Rest ==
        /\ pc' \in {"uid", "rng", "exists"} /\ slot \in KeySlots => obj'[slot] = before.obj[slot]
        /\ pc' = "generate" => before.obj[slot] = None \/ <<"exists", slot>> \in failed'
        /\ pc' \in {"spki", "csr", "sign", "verify"} => obj'[slot] # None
        /\ pc' = "idle" /\ code' = 0 => slot = "demo"
  <2>3. CASE GetUid \/ GetRandom
    <3>1. Rest
      BY <1>0, <2>3 DEF GetUid, GetRandom, Go, Exit, TourWork
    <3>2. QED
      BY <1>1, <1>2, <1>4, <2>1, <2>2, <3>1 DEF TourWork
  <2>4. CASE Exists
    <3>1. Rest
      BY <1>0, <2>4 DEF Exists, AfterExists, Fault, Go, Exit, TourWork, KeySlots
    <3>2. QED
      BY <1>1, <1>2, <1>4, <2>1, <2>2, <3>1 DEF TourWork
  <2>5. CASE Erase \/ Cleanup \/ StoreBinary \/ ReadBinary \/ Kill
    <3>0. slot \notin KeySlots \/ Kill
      BY <1>0, <2>5 DEF Erase, Cleanup, StoreBinary, ReadBinary, Control, KeySlots
    <3>1. Rest
      BY <1>0, <2>5, <3>0 DEF Erase, Cleanup, StoreBinary, AfterStore, ReadBinary, Kill, Killed,
          Go, Exit, Control
    <3>2. QED
      BY <1>1, <1>2, <1>4, <2>1, <2>2, <3>1 DEF TourWork
  <2>6. CASE Generate
    <3>0. slot \in KeySlots /\ MakesKey => obj'[slot] = Len(keys) + 1 /\ Len(keys) + 1 # None
      <4>1. Len(keys) + 1 \in Nat /\ None \notin Nat
        BY <1>0, FactoryAssumption DEF TypeOK, Kinds
      <4>2. MakesKey => obj'[slot] = Len(keys) + 1
        BY <1>0 DEF MakesKey, TypeOK
      <4>3. QED
        BY <4>1, <4>2
    <3>1. Rest
      BY <1>0, <2>6, <3>0 DEF Generate, Go, Exit, Control
    <3>2. QED
      BY <1>1, <1>2, <1>4, <2>1, <2>2, <3>1 DEF TourWork
  <2>7. CASE OpenKey \/ PublicKeyDer \/ MakeCsr \/ Sign
    <3>1. Rest
      BY <1>0, <2>7 DEF OpenKey, AfterOpen, PublicKeyDer, PublicKeyReadable, MakeCsr, CanSign, Sign,
          Go, Exit, TourWork
    <3>2. QED
      BY <1>1, <1>2, <1>4, <2>1, <2>2, <3>1 DEF TourWork
  <2>8. QED
    BY <1>0, <1>6, <2>3, <2>4, <2>5, <2>6, <2>7 DEF Working, ReadFile, SaveCsr, IssueCert, Control
<1>7. QED
  BY <1>5, <1>6

LEMMA EffectInvStep == EffectInv /\ [Next]_vars => EffectInv'
<1> SUFFICES ASSUME Base, Work, [Next]_vars PROVE Work'
  BY BaseStep DEF EffectInv
<1>1. CASE Start
  BY <1>1, WorkStart
<1>2. CASE Working /\ pc = "idle"
  BY <1>2, Idle
<1>3. CASE Working /\ pc # "idle"
  <2>1. UNCHANGED <<cmd, before>> /\ Next
    BY <1>3, Frame DEF Working, Next
  <2>2. before'.made \in Nat /\ before'.made <= Len(keys')
    BY <2>1, KeysGrow DEF Base, Work
  <2>3. cmd.name \in {"verify", "read-info", "uid"} => ReadWork'
    <3>1. SUFFICES ASSUME cmd.name \in {"verify", "read-info", "uid"} PROVE ReadWork'
      OBVIOUS
    <3>2. UNCHANGED obj
      BY <1>3, <3>1, Touch DEF Base, Control
    <3>3. QED
      BY <2>1, <3>1, <3>2 DEF Work, ReadWork, OnlyTouches
  <2>4. QED
    BY <1>3, <2>1, <2>2, <2>3, ProvisionStep, WriteStep, TourStep DEF Work
<1>4. CASE UNCHANGED vars
  BY <1>4 DEF vars, Work, ProvisionWork, WriteWork, TourWork, ReadWork, OnlyTouches, Fresh, Made,
      WriteEffect, Content
<1>5. QED
  BY <1>1, <1>2, <1>3, <1>4 DEF Next, Working

\* For every instance and every sequence of commands, faults and kills: a
\* command changes nothing but its own slot, and an exit with 0 means that the
\* slot has the contents of the file, or a new key of the size that was asked
\* for and, for the words that CmdProvision knows (main.cpp:111-113), of the
\* policy too (the commands of se_factory and RunTour).
THEOREM CommandsDoWhatTheySay == Spec => []CommandEffect
<1>1. Init => EffectInv
  <2>1. Init => Work
    BY DEF Init, Line, Work, Writes, ReadWork, OnlyTouches
  <2>2. QED
    BY <2>1, BaseInit DEF EffectInv
<1>2. QED
  BY <1>1, EffectFromWork, EffectInvStep, PTL DEF Spec

-----------------------------------------------------------------------------
(* verify                                                                  *)

\* The size of the open key is the default or its own.
BindInv ==
  /\ Base
  /\ cmd.name = "verify" /\ pc = "sign" =>
       obj["rsa"] # None /\ (bits = 2048 \/ bits = keys[obj["rsa"]].bits)
  /\ BindingIsTruthful

LEMMA BindStep == BindInv /\ [Next]_vars => BindInv'
<1> SUFFICES ASSUME BindInv, [Next]_vars PROVE BindInv'
  OBVIOUS
<1>0. Base /\ Base' /\ TypeOK /\ Control
  BY BaseStep DEF BindInv, Base
<1>1. CASE Start
  <2>1. cmd'.name = "verify" /\ pc' = "idle" => code' = 1 /\ failed' # {}
    BY <1>0, <1>1, Started DEF FirstStep
  <2>2. pc' # "sign"
    BY <1>0, <1>1, Started DEF FirstStep
  <2>3. QED
    BY <1>0, <2>1, <2>2 DEF BindInv, BindingIsTruthful
<1>2. CASE Working /\ cmd.name # "verify"
  BY <1>0, <1>2, Frame DEF BindInv, BindingIsTruthful
<1>3. CASE Working /\ cmd.name = "verify"
  <2>0. UNCHANGED cmd /\ Content' = Content /\ slot = "rsa"
    BY <1>0, <1>3, Frame DEF Content, Control
  <2>1. UNCHANGED <<obj, keys>>
    BY <1>0, <1>3, Touch, KeysGrow DEF Control, Working, Next, Base
  <2>2. Made' = Made /\ Certifies(Content)' = Certifies(Content)
    BY <2>0, <2>1 DEF Made, Certifies
  <2>3. CASE IssueCert
    BY <1>0, <2>0, <2>1, <2>2, <2>3 DEF IssueCert, BindInv, BindingIsTruthful, host
  <2>4. CASE Sign
    <3>0. obj["rsa"] \in Made /\ keys[obj["rsa"]].bits \in Nat
      BY <1>0, <1>3, <2>4, KeyAt DEF BindInv, Sign, KeySlots
    <3>1. CASE CanSign /\ pc' = "idle" /\ code' = (IF ~Certifies(Content) THEN 1
                                                ELSE IF Content = obj["rsa"] THEN 0 ELSE 2)
      BY <1>0, <2>0, <2>1, <2>2, <3>0, <3>1 DEF BindInv, BindingIsTruthful
    <3>2. CASE ~CanSign /\ pc' = "idle" /\ code' = 1
      <4>1. keys[obj["rsa"]].bits > 2048
        BY <1>0, <1>3, <2>0, <2>4, <3>0, <3>2 DEF CanSign, BindInv, Sign, SignatureFits
      <4>2. QED
        BY <1>0, <2>0, <2>1, <2>2, <3>2, <4>1 DEF BindInv, BindingIsTruthful
    <3>3. CASE failed' # {} /\ pc' = "idle" /\ code' = 1
      BY <1>0, <2>0, <2>1, <2>2, <3>3 DEF BindInv, BindingIsTruthful
    <3>4. QED
      BY <1>3, <2>0, <2>4, <3>1, <3>2, <3>3 DEF Sign, Exit, Fault
  <2>5. CASE OpenKey
    <3>1. obj["rsa"] = None \/ failed' # {} \/ pc' = "sign"
      <4>1. Fault => failed' # {}
        BY DEF Fault
      <4>2. AfterOpen => pc' = "sign"
        BY <1>3 DEF AfterOpen, Go
      <4>3. QED
        BY <2>0, <2>5, <4>1, <4>2 DEF OpenKey
    <3>2. pc' = "sign" => obj["rsa"] # None /\ (bits' = 2048 \/ bits' = keys[obj["rsa"]].bits)
      BY <2>0, <2>5 DEF OpenKey, Exit, DefaultSize
    <3>3. pc' = "sign" \/ (pc' = "idle" /\ code' = 1)
      BY <1>3, <2>5 DEF OpenKey, AfterOpen, Go, Exit
    <3>4. QED
      BY <1>0, <2>0, <2>1, <2>2, <3>1, <3>2, <3>3 DEF BindInv, BindingIsTruthful
  <2>6. CASE ReadFile
    <3>1. Content = Missing \/ Content = Cut => ~Certifies(Content)
      BY <1>0, FactoryAssumption DEF Certifies, Kinds, TypeOK
    <3>2. pc' = "rng" \/ (pc' = "idle" /\ code' = 1 /\ ~Certifies(Content))
      BY <1>3, <2>6, <3>1 DEF ReadFile, Go, Exit, Content
    <3>3. QED
      BY <1>0, <2>0, <2>1, <2>2, <3>2 DEF BindInv, BindingIsTruthful
  <2>7. CASE GetRandom
    <3>1. pc' = "open" \/ (pc' = "idle" /\ code' = 1 /\ failed' # {})
      BY <1>3, <2>7 DEF GetRandom, Go, Exit, Fault
    <3>2. QED
      BY <1>0, <2>0, <2>1, <2>2, <3>1 DEF BindInv, BindingIsTruthful
  <2>8. CASE Kill
    BY <1>0, <2>0, <2>1, <2>2, <2>8 DEF Kill, Exit, Killed, BindInv, BindingIsTruthful
  <2>9. QED
    BY <1>0, <1>3, <2>3, <2>4, <2>5, <2>6, <2>7, <2>8 DEF Working, Control, Exists, Erase, Cleanup,
        StoreBinary, ReadBinary, GetUid, Generate, PublicKeyDer, MakeCsr, SaveCsr, Verify
<1>4. CASE UNCHANGED vars
  BY <1>0, <1>4 DEF vars, host, BindInv, BindingIsTruthful, Certifies, Content, Made
<1>5. QED
  BY <1>1, <1>2, <1>3, <1>4 DEF Next, Working

\* For every instance: the OK, FAIL or error of verify (CmdVerify over
\* VerifyBinding) is what the certificate and the element's key call for.
THEOREM VerifyIsTruthful == Spec => []BindingIsTruthful
<1>1. Init => BindInv
  <2>1. Init => cmd.name # "verify"
    BY DEF Init, Line
  <2>2. QED
    BY <2>1, BaseInit DEF BindInv, BindingIsTruthful
<1>2. BindInv => BindingIsTruthful
  BY DEF BindInv
<1>3. QED
  BY <1>1, <1>2, BindStep, PTL DEF Spec

-----------------------------------------------------------------------------
(* The rotation of the SCP03 keys, for every program that drives it and    *)
(* under every failure, those that fclose hides included.                  *)

WritePcs == {"open", "write", "backup", "rename", "replace"}

IInv == RotationTypeOK /\ FilesFollowElement

LEMMA IInvInit == RotationInit => IInv
BY RotationAssumption DEF RotationInit, IInv, RotationTypeOK, FilesFollowElement, FileContents

\* Opening, starting a rotation and ending the process leave the element and
\* the files alone and do not enter Write.
LEMMA Quiet ==
  ASSUME RotationTypeOK, OpenCall \/ RotateCall \/ Leave \/ Crash, UNCHANGED caller
  PROVE  /\ UNCHANGED <<se, files>>
         /\ phase' \in {"idle", "put"}
         /\ RotationTypeOK'
<1>1. ASSUME NEW set \in KeySets, Open(set)
      PROVE  UNCHANGED <<se, files>> /\ phase' \in {"idle", "put"} /\ RotationTypeOK'
  BY <1>1 DEF Open, Returns, files, RotationTypeOK
<1>2. ASSUME NEW set \in KeySets, DryRun(set)
      PROVE  UNCHANGED <<se, files>> /\ phase' \in {"idle", "put"} /\ RotationTypeOK'
  BY <1>2 DEF DryRun, StartRotate, Returns, files, RotationTypeOK
<1>3. ASSUME NEW set \in KeySets, NEW w \in BOOLEAN, RotateFile(set, w)
      PROVE  UNCHANGED <<se, files>> /\ phase' \in {"idle", "put"} /\ RotationTypeOK'
  BY <1>3 DEF RotateFile, StartRotate, Returns, files, RotationTypeOK
<1>4. ASSUME NEW set \in KeySets, NEW current \in KeySets, NEW dry, RotateMemory(current, set, dry)
      PROVE  UNCHANGED <<se, files>> /\ phase' \in {"idle", "put"} /\ RotationTypeOK'
  BY <1>4 DEF RotateMemory, StartRotate, Returns, files, RotationTypeOK
<1>5. CASE Leave \/ Crash
  BY <1>5 DEF Leave, Crash, EndProcess, files, RotationTypeOK
<1>6. CASE OpenCall
  BY <1>1, <1>6, RotationAssumption DEF OpenCall
<1>7. CASE RotateCall
  BY <1>2, <1>3, <1>4, <1>7 DEF RotateCall, QuickstartRotate, RotationTypeOK
<1>8. QED
  BY <1>5, <1>6, <1>7

KeyFileStep == WriteOpen \/ WriteTmp \/ WriteRemoveBak \/ WriteBackup \/ WriteReplace

\* A step of Write touches nothing but the files, and only inside Write.
LEMMA WriteFrame ==
  ASSUME IInv, KeyFileStep, UNCHANGED caller
  PROVE  /\ UNCHANGED <<se, session, dek, new, persist>>
         /\ phase \in WritePcs /\ phase' \in WritePcs \cup {"idle"}
         /\ RotationTypeOK'
<1> USE DEF WriteUnchanged, WriteFails, Returns, WritePcs, IInv, RotationTypeOK, FileContents
<1>1. CASE WriteOpen
  BY <1>1 DEF WriteOpen
<1>2. CASE WriteTmp
  BY <1>2 DEF WriteTmp
<1>3. CASE WriteRemoveBak
  BY <1>3 DEF WriteRemoveBak
<1>4. CASE WriteBackup
  BY <1>4 DEF WriteBackup
<1>5. CASE WriteReplace
  BY <1>5 DEF WriteReplace
<1>6. QED
  BY <1>1, <1>2, <1>3, <1>4, <1>5 DEF KeyFileStep

LEMMA IInvStep == IInv /\ [RotationNext]_rotationVars => IInv'
<1> SUFFICES ASSUME IInv, [RotationNext]_rotationVars PROVE IInv'
  OBVIOUS
<1>1. CASE (OpenCall \/ RotateCall \/ Leave \/ Crash) /\ UNCHANGED caller
  BY <1>1, Quiet DEF IInv, FilesFollowElement
<1>2. CASE SendPutKey /\ UNCHANGED caller
  BY <1>2 DEF SendPutKey, SeAccepts, Returns, files, IInv, RotationTypeOK, FilesFollowElement
<1>3. CASE KeyFileStep /\ UNCHANGED caller
  BY <1>3, WriteFrame DEF IInv, FilesFollowElement, WritePcs
<1>4. CASE UNCHANGED rotationVars
  BY <1>4 DEF rotationVars, files, IInv, RotationTypeOK, FilesFollowElement, FileContents
<1>5. QED
  BY <1>1, <1>2, <1>3, <1>4 DEF RotationNext, Step, KeyFileStep

\* Type correctness of the rotation, under every fault and for every caller.
THEOREM RotationTypes == RotationSpec => []RotationTypeOK
<1>1. IInv => RotationTypeOK
  BY DEF IInv
<1>2. QED
  BY <1>1, IInvInit, IInvStep, PTL DEF RotationSpec

\* The key file is rewritten only after the element took the new keys and only
\* when one was named (Rotate, scp03.cpp:214-239), under every fault.
THEOREM ElementFirst == RotationSpec => []FilesFollowElement
<1>1. IInv => FilesFollowElement
  BY DEF IInv
<1>2. QED
  BY <1>1, IInvInit, IInvStep, PTL DEF RotationSpec

-----------------------------------------------------------------------------
(* A rotation that returned Ok                                             *)

\* From the write of the temporary file to its rename it has the new keys, or
\* lacks its lines because fclose could not write them.
TmpHolds ==
  phase \in {"backup", "rename", "replace"} =>
    tmp = new \/ ("flush" \in Failures /\ tmp = Incomplete)

OkInv == IInv /\ TmpHolds /\ OkNeverMisleads

\* Whatever starts or ends an activity does not report a persisted rotation.
LEMMA NoOkFromCalls ==
  ASSUME IInv, OpenCall \/ RotateCall \/ Leave \/ Crash
  PROVE  ~(phase' = "idle" /\ session' = "dropped" /\ persist' /\ ret' = "ok")
<1> DEFINE Ok == phase' = "idle" /\ session' = "dropped" /\ persist' /\ ret' = "ok"
<1>1. ASSUME NEW set, Open(set) PROVE ~Ok
  BY <1>1 DEF Open, Returns
<1>2. ASSUME NEW set, DryRun(set) PROVE ~Ok
  BY <1>2 DEF DryRun, StartRotate
<1>3. ASSUME NEW set, NEW w, RotateFile(set, w) PROVE ~Ok
  BY <1>3 DEF RotateFile, Returns
<1>4. ASSUME NEW set, NEW current, NEW dry, RotateMemory(current, set, dry) PROVE ~Ok
  BY <1>4 DEF RotateMemory, StartRotate
<1>5. CASE Leave \/ Crash
  BY <1>5 DEF Leave, Crash, EndProcess
<1>6. QED
  BY <1>1, <1>2, <1>3, <1>4, <1>5 DEF OpenCall, RotateCall, QuickstartRotate

LEMMA OkStep ==
  ASSUME OkInv, [RotationNext]_rotationVars
  PROVE  OkInv'
<1>0. IInv'
  BY IInvStep DEF OkInv
<1>1. CASE (OpenCall \/ RotateCall \/ Leave \/ Crash) /\ UNCHANGED caller
  <2>1. TmpHolds'
    BY <1>1, Quiet DEF TmpHolds, OkInv, IInv
  <2>2. OkNeverMisleads'
    BY <1>1, NoOkFromCalls DEF OkNeverMisleads, PersistedOk, OkInv
  <2>3. QED
    BY <1>0, <2>1, <2>2 DEF OkInv
<1>2. CASE SendPutKey
  <2>1. phase' \in {"idle", "open"} /\ (phase' = "idle" => ret' = "error" \/ ~persist')
    BY <1>2 DEF SendPutKey, Returns
  <2>2. QED
    BY <1>0, <2>1 DEF OkInv, TmpHolds, OkNeverMisleads, PersistedOk
<1>3. CASE KeyFileStep /\ UNCHANGED caller
  <2>0. IInv /\ TmpHolds
    BY DEF OkInv
  <2>1. UNCHANGED <<se, session, dek, new, persist>> /\ se = new
    BY <1>3, <2>0, WriteFrame DEF IInv, FilesFollowElement, WritePcs
  <2>2. TmpHolds'
    BY <1>3, <2>0, <2>1 DEF KeyFileStep, WriteOpen, WriteTmp, WriteRemoveBak, WriteBackup,
        WriteReplace, WriteFails, Returns, TmpHolds
  <2>3. OkNeverMisleads'
    BY <1>3, <2>0, <2>1 DEF KeyFileStep, WriteOpen, WriteTmp, WriteRemoveBak, WriteBackup,
        WriteReplace, WriteFails, Returns, TmpHolds, OkNeverMisleads, PersistedOk
  <2>4. QED
    BY <1>0, <2>2, <2>3 DEF OkInv
<1>4. CASE UNCHANGED rotationVars
  BY <1>0, <1>4 DEF rotationVars, files, OkInv, TmpHolds, OkNeverMisleads, PersistedOk
<1>5. QED
  BY <1>1, <1>2, <1>3, <1>4 DEF RotationNext, Step, KeyFileStep

LEMMA OkInit == RotationInit => OkInv
BY IInvInit DEF RotationInit, OkInv, TmpHolds, OkNeverMisleads, PersistedOk

\* A rotation with a key file that returned Ok has left the element's keys in
\* it, or a file that cannot be read when fclose hid a write error: crashes,
\* failed renames, lost answers and repeated rotations included.
THEOREM OkIsHonest == RotationSpec => []OkNeverMisleads
<1>1. OkInv /\ [RotationNext]_rotationVars => OkInv'
  BY OkStep
<1>2. OkInv => OkNeverMisleads
  BY DEF OkInv
<1>3. QED
  BY <1>1, <1>2, OkInit, PTL DEF RotationSpec

-----------------------------------------------------------------------------
(* What each program knows about the keys it rotates with                  *)

\* While a keeper's session is up the key file has the element's keys, and so
\* has the DEK with which PUT KEY goes out.
SessionPath ==
  session = "open" => /\ path = se /\ phase \in {"idle", "put"}
                      /\ phase = "put" => dek = se

\* se_factory sends PUT KEY only to persist the keys, with the file's DEK; the
\* quickstart never comes near a file.
CallerInv ==
  /\ caller = "keeper" => SessionPath
  /\ caller = "factory" /\ phase = "put" => persist /\ dek = path
  /\ caller = "quickstart" => tmp = NoFile /\ ~persist

DekInv == IInv /\ CallerInv

LEMMA SessionStep ==
  ASSUME caller = "keeper", IInv, SessionPath, RotationNext PROVE SessionPath'
<1> USE DEF SessionPath
<1>1. CASE OpenCall
  BY <1>1 DEF OpenCall, Open, Returns, files
<1>2. CASE RotateCall
  <2>1. PICK set \in KeySets : RotateFile(set, TRUE) \/ RotateFile(set, FALSE) \/ DryRun(set)
    BY <1>2 DEF RotateCall, QuickstartRotate
  <2>2. QED
    BY <2>1 DEF RotateFile, DryRun, StartRotate, Returns, files
<1>3. CASE SendPutKey
  BY <1>3 DEF SendPutKey, SeAccepts, Returns, files
<1>4. CASE KeyFileStep
  BY <1>4, WriteFrame DEF RotationNext, WritePcs
<1>5. CASE Leave \/ Crash
  BY <1>5 DEF Leave, Crash, EndProcess
<1>6. QED
  BY <1>1, <1>2, <1>3, <1>4, <1>5 DEF RotationNext, Step, KeyFileStep

LEMMA FactoryStep ==
  ASSUME caller = "factory", IInv, CallerInv, RotationNext PROVE phase' = "put" => persist' /\ dek' = path'
<1>1. CASE OpenCall \/ Leave \/ Crash
  BY <1>1 DEF OpenCall, Open, Leave, Crash, EndProcess, Returns
<1>2. CASE RotateCall
  BY <1>2 DEF RotateCall, QuickstartRotate, RotateFile, DryRun, StartRotate, Returns, files
<1>3. CASE SendPutKey
  BY <1>3 DEF SendPutKey, Returns
<1>4. CASE KeyFileStep
  BY <1>4 DEF KeyFileStep, WriteOpen, WriteTmp, WriteRemoveBak, WriteBackup, WriteReplace,
      WriteFails, Returns
<1>5. QED
  BY <1>1, <1>2, <1>3, <1>4 DEF RotationNext, Step, KeyFileStep

LEMMA QuickstartStep ==
  ASSUME caller = "quickstart", IInv, CallerInv, RotationNext PROVE tmp' = NoFile /\ ~persist'
<1>0. tmp = NoFile /\ ~persist
  BY DEF CallerInv
<1>1. CASE OpenCall \/ Leave \/ Crash
  BY <1>0, <1>1 DEF OpenCall, Open, Leave, Crash, EndProcess, files
<1>2. CASE RotateCall
  BY <1>0, <1>2 DEF RotateCall, QuickstartRotate, RotateMemory, StartRotate, files
<1>3. CASE SendPutKey
  BY <1>0, <1>3 DEF SendPutKey, files
<1>4. ~KeyFileStep
  BY <1>0, WriteFrame DEF IInv, FilesFollowElement, WritePcs, RotationNext
<1>5. QED
  BY <1>1, <1>2, <1>3, <1>4 DEF RotationNext, Step, KeyFileStep

LEMMA DekInvStep == DekInv /\ [RotationNext]_rotationVars => DekInv'
<1> SUFFICES ASSUME DekInv, [RotationNext]_rotationVars PROVE DekInv'
  OBVIOUS
<1>1. IInv'
  BY IInvStep DEF DekInv
<1>2. CASE RotationNext
  <2>1. UNCHANGED caller
    BY <1>2 DEF RotationNext
  <2>2. QED
    BY <1>1, <1>2, <2>1, SessionStep, FactoryStep, QuickstartStep DEF DekInv, CallerInv
<1>3. CASE UNCHANGED rotationVars
  BY <1>1, <1>3 DEF rotationVars, files, DekInv, CallerInv, SessionPath
<1>4. QED
  BY <1>2, <1>3

LEMMA DekInvInit == RotationInit => DekInv
BY IInvInit DEF RotationInit, DekInv, CallerInv, SessionPath

\* A keeper's PUT KEY is always wrapped with the element's DEK (LoadCurrentDek,
\* scp03.cpp:54-64), after crashes and lost answers too: a file that fell
\* behind the element cannot open a session.
THEOREM KeeperDek == RotationSpec => []KeeperDekMatches
<1>1. DekInv => KeeperDekMatches
  BY DEF DekInv, CallerInv, SessionPath, KeeperDekMatches, DekMatches
<1>2. QED
  BY <1>1, DekInvInit, DekInvStep, PTL DEF RotationSpec

\* A temporary file that a crash left behind is not the only copy of the keys
\* of an element that can still be reached; the old backup is gone before the
\* key file becomes the new one.
LeftTmp ==
  /\ phase \in {"idle", "put"} /\ path = se => tmp \notin KeySets \/ tmp = path
  /\ phase = "open" => tmp \notin KeySets \/ tmp = path
  /\ phase = "write" => tmp = Incomplete
  /\ phase = "rename" => bak = NoFile

KeepInv == DekInv /\ OkInv /\ LeftTmp

LEMMA LeftTmpStep ==
  ASSUME KeepInv, RotationNext PROVE LeftTmp'
<1>0. /\ IInv /\ RotationTypeOK /\ CallerInv /\ TmpHolds /\ FilesFollowElement /\ LeftTmp
      /\ UNCHANGED caller
  BY DEF KeepInv, DekInv, OkInv, IInv, RotationNext
<1>1. CASE OpenCall \/ RotateCall \/ Leave \/ Crash
  <2>1. UNCHANGED <<se, path, tmp>> /\ phase' \in {"idle", "put"}
    BY <1>0, <1>1, Quiet DEF files
  <2>2. path = se => tmp \notin KeySets \/ tmp = path
    BY <1>0, RotationAssumption DEF LeftTmp, TmpHolds, FilesFollowElement, RotationTypeOK
  <2>3. QED
    BY <2>1, <2>2 DEF LeftTmp
<1>2. CASE SendPutKey
  <2>1. UNCHANGED <<path, tmp>> /\ phase = "put" /\ phase' \in {"idle", "open"}
    BY <1>2 DEF SendPutKey, Returns, files
  <2>2. CASE SeAccepts
    <3>1. tmp = NoFile \/ path = se
      BY <1>0, <2>1, <2>2, RotationAssumption DEF SeAccepts, CallerInv, SessionPath, RotationTypeOK
    <3>2. (phase' = "idle" /\ path = se') => tmp \notin KeySets \/ tmp = path
      BY <1>0, <1>2, <2>1, <3>1, RotationAssumption DEF LeftTmp
    <3>3. QED
      BY <1>0, <2>1, <3>1, <3>2, RotationAssumption DEF LeftTmp
  <2>3. CASE ~SeAccepts
    BY <1>0, <1>2, <2>1, <2>3 DEF SendPutKey, Returns, LeftTmp
  <2>4. QED
    BY <2>2, <2>3
<1>3. CASE KeyFileStep
  BY <1>0, <1>3, RotationAssumption DEF KeyFileStep, WriteOpen, WriteTmp, WriteRemoveBak,
      WriteBackup, WriteReplace, WriteFails, WriteUnchanged, Returns, LeftTmp
<1>4. QED
  BY <1>1, <1>2, <1>3 DEF RotationNext, Step, KeyFileStep

LEMMA CopyStep ==
  ASSUME KeepInv, RotationNext, se \in Stored, se' = se, se \notin Stored'
  PROVE  /\ new = se
         /\ \/ phase = "replace" /\ ret' = "error"
            \/ phase \in {"backup", "replace"} /\ tmp = Incomplete
<1>0. /\ IInv /\ RotationTypeOK /\ TmpHolds /\ FilesFollowElement /\ LeftTmp /\ UNCHANGED caller
  BY DEF KeepInv, DekInv, OkInv, IInv, RotationNext
<1>1. CASE OpenCall \/ RotateCall \/ Leave \/ Crash
  BY <1>0, <1>1, Quiet DEF files, Stored
<1>2. CASE SendPutKey
  BY <1>2 DEF SendPutKey, files, Stored
<1>3. CASE WriteOpen
  BY <1>0, <1>3 DEF WriteOpen, Stored, LeftTmp, RotationTypeOK
<1>4. CASE WriteTmp
  BY <1>0, <1>4, RotationAssumption
      DEF WriteTmp, WriteFails, Returns, Stored, LeftTmp, FilesFollowElement, RotationTypeOK
<1>5. CASE WriteRemoveBak
  BY <1>0, <1>5 DEF WriteRemoveBak, Stored, TmpHolds, FilesFollowElement
<1>6. CASE WriteBackup
  BY <1>0, <1>6, RotationAssumption DEF WriteBackup, Stored, LeftTmp, RotationTypeOK
<1>7. CASE WriteReplace
  BY <1>0, <1>7 DEF WriteReplace, WriteFails, Returns, Stored, TmpHolds, FilesFollowElement
<1>8. QED
  BY <1>1, <1>2, <1>3, <1>4, <1>5, <1>6, <1>7 DEF RotationNext, Step

\* No step of Write (scp03_keyfile.cpp:55-94) and no crash inside it removes
\* the last file with the element's keys; only the failing last rename does,
\* with an error to a caller who still has them, or a rewriting that goes on
\* after fclose lost the lines of the temporary file.
THEOREM CopyIsKept == RotationSpec => LastCopyKept
<1>1. RotationInit => KeepInv
  <2>1. RotationInit => LeftTmp
    BY RotationAssumption DEF RotationInit, LeftTmp
  <2>2. QED
    BY <2>1, DekInvInit, OkInit DEF KeepInv
<1>2. KeepInv /\ [RotationNext]_rotationVars => KeepInv'
  <2> SUFFICES ASSUME KeepInv, [RotationNext]_rotationVars PROVE KeepInv'
    OBVIOUS
  <2>1. DekInv' /\ OkInv'
    BY DekInvStep, OkStep DEF KeepInv
  <2>2. CASE RotationNext
    BY <2>1, <2>2, LeftTmpStep DEF KeepInv
  <2>3. CASE UNCHANGED rotationVars
    BY <2>1, <2>3 DEF KeepInv, rotationVars, files, LeftTmp
  <2>4. QED
    BY <2>2, <2>3
<1>3. KeepInv /\ [RotationNext]_rotationVars =>
        [(se \in Stored /\ se' = se /\ se \notin Stored')
           => /\ new = se
              /\ \/ phase = "replace" /\ ret' = "error"
                 \/ phase \in {"backup", "replace"} /\ tmp = Incomplete]_rotationVars
  BY CopyStep
<1>4. QED
  BY <1>1, <1>2, <1>3, PTL DEF RotationSpec, LastCopyKept

=============================================================================
