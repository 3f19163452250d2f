---------------------------- MODULE FileKvProofs ----------------------------
(***************************************************************************)
(* Theorems about FileKv, for every set of keys and values and every       *)
(* capacity, and under every combination of faults.                        *)
(***************************************************************************)
EXTENDS FileKv, FiniteSetTheorems, TLAPS

IInv == TypeOK /\ TmpReady

-----------------------------------------------------------------------------
(* Maps                                                                    *)

\* A function with domain in Keys and values in Values is a map.
LEMMA MapIntro ==
  ASSUME NEW D \in SUBSET Keys, NEW m \in [D -> Values]
  PROVE  m \in Maps
BY DEF Maps

LEMMA MapElim ==
  ASSUME NEW m \in Maps
  PROVE  /\ DOMAIN m \subseteq Keys
         /\ m \in [DOMAIN m -> Values]
         /\ m = [k \in DOMAIN m |-> m[k]]
BY DEF Maps

LEMMA EmptyMap == Empty \in Maps /\ Small(Empty) /\ DOMAIN Empty = {}
<1>1. DOMAIN Empty = {} /\ Empty \in [{} -> Values]
  BY DEF Empty
<1>2. Empty \in Maps
  BY <1>1, MapIntro
<1>3. QED
  BY <1>1, <1>2, FS_EmptySet, KvAssumption DEF Small

\* Any restriction of a map that fits is a map that fits.
LEMMA RestrictMap ==
  ASSUME NEW m \in Maps, Small(m), NEW S \in SUBSET (DOMAIN m)
  PROVE  [j \in S |-> m[j]] \in Maps /\ Small([j \in S |-> m[j]])
<1> DEFINE r == [j \in S |-> m[j]]
<1>1. DOMAIN r = S /\ S \subseteq Keys /\ r \in [S -> Values]
  BY MapElim
<1> HIDE DEF r
<1>2. r \in Maps
  BY <1>1, MapIntro
<1>3. IsFiniteSet(S) /\ Cardinality(S) <= Cardinality(DOMAIN m)
  BY FS_Subset DEF Small
<1>4. Cardinality(S) \in Nat /\ Cardinality(DOMAIN m) \in Nat
  BY <1>3, FS_CardinalityType DEF Small
<1>5. Small(r)
  BY <1>1, <1>3, <1>4, KvAssumption DEF Small
<1>6. QED
  BY <1>2, <1>5 DEF r

\* Set on a map with room, or on a key it has, gives a map that fits.
LEMMA PutMap ==
  ASSUME NEW m \in Maps, Small(m), NEW k \in Keys, NEW v \in Values,
         k \in DOMAIN m \/ Cardinality(DOMAIN m) # MaxEntries
  PROVE  LET p == [j \in DOMAIN m \cup {k} |-> IF j = k THEN v ELSE m[j]]
         IN  p \in Maps /\ Small(p)
<1> DEFINE D == DOMAIN m \cup {k}
           p == [j \in D |-> IF j = k THEN v ELSE m[j]]
<1>1. D \subseteq Keys /\ p \in [D -> Values] /\ DOMAIN p = D
  BY MapElim
<1>2. /\ IsFiniteSet(D)
      /\ Cardinality(D) = IF k \in DOMAIN m THEN Cardinality(DOMAIN m)
                                            ELSE Cardinality(DOMAIN m) + 1
  BY FS_AddElement DEF Small
<1>3. Cardinality(DOMAIN m) \in Nat /\ Cardinality(DOMAIN m) <= MaxEntries
  BY FS_CardinalityType DEF Small
<1> HIDE DEF D, p
<1>4. Cardinality(D) <= MaxEntries
  BY <1>2, <1>3, KvAssumption
<1>5. p \in Maps
  BY <1>1, MapIntro
<1>6. Small(p)
  BY <1>1, <1>2, <1>4 DEF Small
<1>7. QED
  BY <1>5, <1>6 DEF p, D

\* Load drops nothing of a file that fits: its Set calls all succeed.
LEMMA LoadedAll ==
  ASSUME NEW f, f.entries \in Maps, Small(f.entries)
  PROVE  Loaded(f) = f.entries
<1> DEFINE D == DOMAIN f.entries
<1>1. ASSUME NEW k \in D
      PROVE  Cardinality({j \in D : j < k}) < MaxEntries
  <2>1. k \in Nat
    BY MapElim, KvAssumption
  <2>2. IsFiniteSet(D \ {k}) /\ Cardinality(D \ {k}) = Cardinality(D) - 1
    BY FS_RemoveElement DEF Small
  <2>3. {j \in D : j < k} \subseteq D \ {k}
    BY <2>1
  <2>4. /\ IsFiniteSet({j \in D : j < k})
        /\ Cardinality({j \in D : j < k}) <= Cardinality(D \ {k})
    BY <2>2, <2>3, FS_Subset
  <2>5. /\ Cardinality({j \in D : j < k}) \in Nat /\ Cardinality(D) \in Nat
        /\ Cardinality(D) <= MaxEntries
    BY <2>4, FS_CardinalityType DEF Small
  <2> HIDE DEF D
  <2>6. QED
    BY <2>2, <2>4, <2>5, KvAssumption
<1>2. {j \in D : Cardinality({i \in D : i < j}) < MaxEntries} = D
  BY <1>1
<1>3. Loaded(f) = [k \in D |-> f.entries[k]]
  BY <1>2 DEF Loaded
<1>4. QED
  BY <1>3, MapElim

\* What a cut-off write leaves is part of the map that was written.
LEMMA TruncatedFile ==
  ASSUME NEW m \in Maps, Small(m), NEW f \in Truncations(m)
  PROVE  f \in Files /\ Small(f.entries)
<1>1. CASE f = CutFile(Empty)
  BY <1>1, EmptyMap DEF CutFile, Files
<1>2. CASE f # CutFile(Empty)
  <2>1. PICK k \in DOMAIN m : f = CutFile([j \in {i \in DOMAIN m : i < k} |-> m[j]])
    BY <1>2 DEF Truncations
  <2> DEFINE r == [j \in {i \in DOMAIN m : i < k} |-> m[j]]
  <2>2. r \in Maps /\ Small(r)
    BY RestrictMap
  <2> HIDE DEF r
  <2>3. f = CutFile(r)
    BY <2>1 DEF r
  <2>4. QED
    BY <2>2, <2>3 DEF CutFile, Files
<1>3. QED
  BY <1>1, <1>2

-----------------------------------------------------------------------------
(* Capacity and types, under every fault                                   *)

FileOK(f) == f \in Files /\ Small(f.entries)

LEMMA FileFacts ==
  /\ FileOK(Missing) /\ FileOK(CutFile(Empty))
  /\ \A m \in Maps : Small(m) => FileOK(File(m)) /\ File(m).entries = m
BY EmptyMap DEF FileOK, Missing, CutFile, File, Files

LEMMA LoadStep ==
  ASSUME IInv, NEW f, FileOK(f) PROVE Loaded(f) \in Maps /\ Small(Loaded(f))
<1>1. f.entries \in Maps
  BY DEF FileOK, Files
<1>2. QED
  BY <1>1, LoadedAll DEF FileOK

LEMMA SetStep ==
  ASSUME IInv, NEW k \in Keys \cup LongKeys, NEW v \in Values \cup LongValues, Set(k, v)
  PROVE  mem' \in Maps /\ Small(mem')
<1>1. CASE mem' = mem
  BY <1>1 DEF IInv, TypeOK, Small
<1>2. CASE mem' # mem
  <2>1. /\ ~(k \in LongKeys \/ v \in LongValues)
        /\ ~(~Has(k) /\ Full)
        /\ mem' = [j \in DOMAIN mem \cup {k} |-> IF j = k THEN v ELSE mem[j]]
    BY <1>2 DEF Set
  <2>2. k \in Keys /\ v \in Values /\ (k \in DOMAIN mem \/ Cardinality(DOMAIN mem) # MaxEntries)
    BY <2>1 DEF Has, Full
  <2>3. QED
    BY <2>1, <2>2, PutMap DEF IInv, TypeOK
<1>3. QED
  BY <1>1, <1>2

LEMMA IInvStep == IInv /\ [Next]_vars => IInv'
<1> SUFFICES ASSUME IInv, [Next]_vars PROVE IInv'
  OBVIOUS
<1>0. /\ mem \in Maps /\ Small(mem) /\ FileOK(path) /\ FileOK(tmp)
      /\ pc \in {"down", "up", "write", "rename"} /\ TmpReady
  BY DEF IInv, TypeOK, FileOK
<1>1. ASSUME NEW k \in Keys \cup LongKeys, NEW v \in Values \cup LongValues, Set(k, v)
      PROVE  IInv'
  <2>1. pc = "up" /\ UNCHANGED <<path, tmp, pc>>
    BY <1>1 DEF Set
  <2>2. QED
    BY <1>0, <1>1, <2>1, SetStep DEF IInv, TypeOK, TmpReady, FileOK
<1>2. ASSUME NEW k \in Keys \cup LongKeys, Remove(k) PROVE IInv'
  <2>1. pc = "up" /\ UNCHANGED <<path, tmp, pc>>
    BY <1>2 DEF Remove
  <2>2. mem' = mem \/ mem' = [j \in DOMAIN mem \ {k} |-> mem[j]]
    BY <1>2 DEF Remove
  <2>3. mem' \in Maps /\ Small(mem')
    BY <1>0, <2>2, RestrictMap
  <2>4. QED
    BY <1>0, <2>1, <2>3 DEF IInv, TypeOK, TmpReady, FileOK
<1>3. ASSUME NEW k \in Keys \cup LongKeys, NEW b \in BOOLEAN, Get(k, b) PROVE IInv'
  BY <1>0, <1>3 DEF Get, IInv, TypeOK, TmpReady, FileOK
<1>4. CASE Open \/ Load
  <2>1. PICK f \in Readable : LoadFrom(f)
    BY <1>4 DEF Open, Load
  <2>2. FileOK(f)
    BY <1>0, FileFacts DEF Readable
  <2>3. mem' \in Maps /\ Small(mem') /\ UNCHANGED <<path, tmp>>
    BY <2>1, <2>2, LoadStep DEF LoadFrom
  <2>4. pc' = "up"
    BY <1>4 DEF Open, Load
  <2>5. QED
    BY <1>0, <2>3, <2>4 DEF IInv, TypeOK, TmpReady, FileOK
<1>5. CASE CommitOpen
  BY <1>0, <1>5, FileFacts DEF CommitOpen, CommitFails, IInv, TypeOK, TmpReady, FileOK
<1>6. CASE CommitWrite
  <2>1. UNCHANGED <<mem, path>>
    BY <1>6 DEF CommitWrite, CommitFails
  <2>2. CASE tmp' = File(mem) /\ pc' = "rename"
    BY <1>0, <2>1, <2>2, FileFacts DEF IInv, TypeOK, TmpReady, FileOK
  <2>3. CASE tmp' \in Truncations(mem) /\ pc' = "up"
    BY <1>0, <2>1, <2>3, TruncatedFile DEF IInv, TypeOK, TmpReady, FileOK
  <2>4. QED
    BY <1>6, <2>2, <2>3 DEF CommitWrite, CommitFails
<1>7. CASE CommitRename
  BY <1>0, <1>7, FileFacts DEF CommitRename, CommitFails, IInv, TypeOK, TmpReady, FileOK
<1>8. CASE Close
  BY <1>0, <1>8, EmptyMap DEF Close, IInv, TypeOK, TmpReady, FileOK
<1>9. CASE Crash
  <2>1. pc' = "down" /\ mem' = Empty /\ UNCHANGED <<path>>
    BY <1>9 DEF Crash
  <2>2. tmp' = tmp \/ tmp' \in Truncations(mem)
    BY <1>9 DEF Crash
  <2>3. FileOK(tmp')
    BY <1>0, <2>2, TruncatedFile DEF FileOK
  <2>4. QED
    BY <1>0, <2>1, <2>3, EmptyMap DEF IInv, TypeOK, TmpReady, FileOK
<1>10. CASE UNCHANGED vars
  BY <1>0, <1>10 DEF vars, IInv, TypeOK, TmpReady, FileOK
<1>11. QED
  BY <1>1, <1>2, <1>3, <1>4, <1>5, <1>6, <1>7, <1>8, <1>9, <1>10 DEF Next

LEMMA IInvInit == Init => IInv
BY EmptyMap, FileFacts DEF Init, IInv, TypeOK, TmpReady, FileOK

\* Capacity: no map, in memory or in a file, ever exceeds MaxEntries, so the
\* errors of Set that Load ignores (host_kv.cpp:80) cannot occur.
THEOREM CapacityKept == Spec => []TypeOK
<1>1. IInv => TypeOK
  BY DEF IInv
<1>2. QED
  BY <1>1, IInvInit, IInvStep, PTL DEF Spec

-----------------------------------------------------------------------------
(* The file and the durable map                                            *)

LEMMA IntactStep ==
  ASSUME IInv, PathIntact, [Next]_vars PROVE PathIntact'
<1>1. CASE CommitRename
  BY <1>1 DEF CommitRename, CommitFails, PathIntact, IInv, TmpReady, File
<1>2. CASE \/ Open \/ Load \/ CommitOpen \/ CommitWrite \/ Close \/ Crash
           \/ UNCHANGED vars
           \/ \E k \in Keys \cup LongKeys :
                \/ Remove(k)
                \/ \E fits \in BOOLEAN : Get(k, fits)
                \/ \E v \in Values \cup LongValues : Set(k, v)
  <2>1. path' = path
    BY <1>2 DEF Open, Load, LoadFrom, CommitOpen, CommitWrite, CommitFails, Close, Crash,
        vars, Remove, Get, Set
  <2>2. QED
    BY <2>1 DEF PathIntact
<1>3. QED
  BY <1>1, <1>2 DEF Next

\* The file is never cut short: the rename happens only
\* after the temporary file holds the whole map (Commit, host_kv.cpp:86-112).
THEOREM FileIntact == Spec => []PathIntact
<1>1. Init => IInv /\ PathIntact
  <2>1. Init => PathIntact
    BY DEF Init, PathIntact, Missing
  <2>2. QED
    BY <2>1, IInvInit
<1>2. IInv /\ PathIntact /\ [Next]_vars => IInv' /\ PathIntact'
  BY IInvStep, IntactStep
<1>3. QED
  BY <1>1, <1>2, PTL DEF Spec

LEMMA ReportsStep ==
  ASSUME IInv, CommitReports, [Next]_vars PROVE CommitReports'
<1>1. CASE CommitRename
  <2>1. CASE CommitFails
    BY <2>1 DEF CommitFails, CommitReports, Returns
  <2>2. CASE ~CommitFails
    <3>1. path' = File(mem) /\ UNCHANGED mem
      BY <1>1, <2>2 DEF CommitRename, IInv, TmpReady
    <3>2. QED
      BY <3>1 DEF CommitReports, File
  <2>3. QED
    BY <2>1, <2>2
<1>2. CASE \/ Open \/ Load
           \/ \E k \in Keys \cup LongKeys :
                \/ Remove(k)
                \/ \E fits \in BOOLEAN : Get(k, fits)
                \/ \E v \in Values \cup LongValues : Set(k, v)
  <2>1. ASSUME NEW op, op # "Commit", NEW code, Returns(op, code) PROVE CommitReports'
    BY <2>1 DEF CommitReports, Returns
  <2>2. CASE Open
    BY <2>1, <2>2 DEF Open
  <2>3. CASE Load
    BY <2>1, <2>3 DEF Load
  <2>4. ASSUME NEW k, Remove(k) PROVE CommitReports'
    BY <2>1, <2>4 DEF Remove
  <2>5. ASSUME NEW k, NEW fits, Get(k, fits) PROVE CommitReports'
    BY <2>1, <2>5 DEF Get
  <2>6. ASSUME NEW k, NEW v, Set(k, v) PROVE CommitReports'
    BY <2>1, <2>6 DEF Set
  <2>7. QED
    BY <1>2, <2>2, <2>3, <2>4, <2>5, <2>6
<1>3. CASE CommitOpen \/ CommitWrite
  BY <1>3 DEF CommitOpen, CommitWrite, CommitFails, CommitReports, Returns
<1>4. CASE Close \/ Crash
  BY <1>4 DEF Close, Crash, CommitReports
<1>5. CASE UNCHANGED vars
  BY <1>5 DEF vars, CommitReports
<1>6. QED
  BY <1>1, <1>2, <1>3, <1>4, <1>5 DEF Next

\* A Commit that returned Ok has left exactly the map in the file, whatever an
\* earlier Commit that failed or was cut off left behind.
THEOREM CommitIsTruthful == Spec => []CommitReports
<1>1. Init => CommitReports
  BY DEF Init, CommitReports
<1>2. IInv /\ CommitReports /\ [Next]_vars => CommitReports'
  BY ReportsStep
<1>3. QED
  BY <1>1, <1>2, IInvInit, IInvStep, PTL DEF Spec

\* Whatever Load could open, it restores the whole of it.
LEMMA RestoredStep ==
  ASSUME path.entries \in Maps, Small(path.entries), NEW f \in Readable, LoadFrom(f)
  PROVE  mem' \in Abstract!Restored /\ UNCHANGED path
<1>1. CASE f = path
  BY <1>1, LoadedAll DEF LoadFrom, Abstract!Restored
<1>2. CASE f # path
  <2>1. f = Missing /\ "open" \in Faults
    BY <1>2 DEF Readable
  <2>2. mem' = Empty
    BY <2>1, LoadedAll, EmptyMap DEF LoadFrom, Missing
  <2>3. QED
    BY <2>1, <2>2 DEF LoadFrom, Abstract!Restored, Abstract!Empty, Empty
<1>3. QED
  BY <1>1, <1>2

\* Every step of the store is a step of the durable map or a stutter.
LEMMA RefineStep ==
  ASSUME IInv, PathIntact, [Next]_vars
  PROVE  [Abstract!Next]_(Abstract!vars)
<1> USE DEF Returns, Abstract!Returns
<1>0. /\ mem \in Maps /\ path.entries \in Maps /\ Small(path.entries) /\ path.complete
  BY DEF IInv, TypeOK, Files, PathIntact
<1>1. ASSUME NEW k \in Keys \cup LongKeys, NEW v \in Values \cup LongValues, Set(k, v)
      PROVE  Abstract!Next
  <2>1. pc = "up" /\ UNCHANGED <<path, pc>>
    BY <1>1 DEF Set
  <2>2. CASE k \in LongKeys \/ v \in LongValues
    <3>1. mem' = mem /\ ret' = [op |-> "Set", code |-> "TooLarge"]
      BY <1>1, <2>2 DEF Set
    <3>2. Abstract!Refuse
      BY <2>1, <3>1 DEF Abstract!Refuse, Abstract!Errors
    <3>3. QED
      BY <3>2 DEF Abstract!Next
  <2>3. CASE ~(k \in LongKeys \/ v \in LongValues) /\ (~Has(k) /\ Full)
    <3>1. mem' = mem /\ ret' = [op |-> "Set", code |-> "Full"]
      BY <1>1, <2>3 DEF Set
    <3>2. Abstract!Refuse
      BY <2>1, <3>1 DEF Abstract!Refuse, Abstract!Errors
    <3>3. QED
      BY <3>2 DEF Abstract!Next
  <2>4. CASE ~(k \in LongKeys \/ v \in LongValues) /\ ~(~Has(k) /\ Full)
    <3>1. /\ mem' = [j \in DOMAIN mem \cup {k} |-> IF j = k THEN v ELSE mem[j]]
          /\ ret' = [op |-> "Set", code |-> "Ok"]
      BY <1>1, <2>4 DEF Set
    <3>2. Abstract!Set(k, v)
      BY <2>1, <3>1 DEF Abstract!Set, Abstract!Put
    <3>3. QED
      BY <2>4, <3>2 DEF Abstract!Next
  <2>5. QED
    BY <2>2, <2>3, <2>4
<1>2. ASSUME NEW k \in Keys \cup LongKeys, Remove(k) PROVE Abstract!Next
  <2>1. pc = "up" /\ UNCHANGED <<path, pc>>
    BY <1>2 DEF Remove
  <2>2. CASE k \in LongKeys
    <3>1. mem' = mem /\ ret' = [op |-> "Remove", code |-> "TooLarge"]
      BY <1>2, <2>2 DEF Remove
    <3>2. Abstract!Refuse
      BY <2>1, <3>1 DEF Abstract!Refuse, Abstract!Errors
    <3>3. QED
      BY <3>2 DEF Abstract!Next
  <2>3. CASE k \notin LongKeys
    <3>1. Abstract!Remove(k)
      BY <1>2, <2>1, <2>3 DEF Remove, Abstract!Remove, Abstract!Without
    <3>2. QED
      BY <2>3, <3>1 DEF Abstract!Next
  <2>4. QED
    BY <2>2, <2>3
<1>3. ASSUME NEW k \in Keys \cup LongKeys, NEW b \in BOOLEAN, Get(k, b) PROVE Abstract!Next
  <2>1. pc = "up" /\ UNCHANGED <<mem, path, pc>>
    BY <1>3 DEF Get
  <2>2. CASE k \notin LongKeys /\ Has(k) /\ b
    <3>1. ret' = [op |-> "Get", code |-> mem[k]] /\ k \in Keys /\ k \in DOMAIN mem
      BY <1>3, <2>2 DEF Get, Has
    <3>2. Abstract!Get(k)
      BY <2>1, <3>1 DEF Abstract!Get
    <3>3. QED
      BY <3>1, <3>2 DEF Abstract!Next
  <2>3. CASE ~(k \notin LongKeys /\ Has(k) /\ b)
    <3>1. \E e \in {"TooLarge", "NotFound"} : ret' = [op |-> "Get", code |-> e]
      BY <1>3, <2>3, KvAssumption DEF Get, Has
    <3>2. Abstract!Refuse
      BY <2>1, <3>1 DEF Abstract!Refuse, Abstract!Errors
    <3>3. QED
      BY <3>2 DEF Abstract!Next
  <2>4. QED
    BY <2>2, <2>3
<1>4. CASE Open
  <2>1. mem' \in Abstract!Restored /\ UNCHANGED path
    BY <1>0, <1>4, RestoredStep DEF Open
  <2>2. Abstract!Open
    BY <1>4, <2>1 DEF Open, Abstract!Open
  <2>3. QED
    BY <2>2 DEF Abstract!Next
<1>5. CASE Load
  <2>1. mem' \in Abstract!Restored /\ UNCHANGED path
    BY <1>0, <1>5, RestoredStep DEF Load
  <2>2. UNCHANGED pc /\ ret' = [op |-> "Load", code |-> "Ok"]
    BY <1>0, <1>5 DEF Load, Readable, Missing
  <2>3. Abstract!Load
    BY <1>5, <2>1, <2>2 DEF Load, Abstract!Load
  <2>4. QED
    BY <2>3 DEF Abstract!Next
<1>6. CASE CommitFails /\ pc # "down"
  <2>1. Abstract!Refuse
    BY <1>6 DEF CommitFails, Abstract!Refuse, Abstract!Errors
  <2>2. QED
    BY <2>1 DEF Abstract!Next
<1>7. CASE (CommitOpen \/ CommitWrite) /\ ~CommitFails
  <2>1. UNCHANGED <<mem, path, ret>> /\ pc # "down" /\ pc' # "down"
    BY <1>7 DEF CommitOpen, CommitWrite
  <2>2. QED
    BY <2>1 DEF Abstract!vars
<1>8. CASE CommitRename /\ ~CommitFails
  <2>1. path' = tmp /\ tmp = File(mem)
    BY <1>8 DEF CommitRename, IInv, TmpReady
  <2>2. path'.entries = mem
    BY <2>1 DEF File
  <2>3. Abstract!Commit
    BY <1>8, <2>2 DEF CommitRename, Abstract!Commit
  <2>4. QED
    BY <2>3 DEF Abstract!Next
<1>9. CASE Close \/ Crash
  <2>1. pc # "down" /\ pc' = "down" /\ mem' = Empty /\ UNCHANGED <<path, ret>>
    BY <1>9 DEF Close, Crash
  <2>2. Abstract!Down
    BY <2>1 DEF Abstract!Down, Abstract!Empty, Empty
  <2>3. QED
    BY <2>2 DEF Abstract!Next
<1>10. CASE UNCHANGED vars
  BY <1>10 DEF vars, Abstract!vars
<1>11. CommitOpen \/ CommitWrite \/ CommitRename => pc # "down"
  BY DEF CommitOpen, CommitWrite, CommitRename
<1>12. QED
  BY <1>1, <1>2, <1>3, <1>4, <1>5, <1>6, <1>7, <1>8, <1>9, <1>10, <1>11 DEF Next

\* The file-backed store implements the durable map across process crashes at
\* any point of Commit and any reported I/O failure.
THEOREM KvIsDurable == Spec => ImplementsDurableMap
<1>1. Init => IInv /\ PathIntact /\ Abstract!Init
  <2>1. Init => PathIntact
    BY DEF Init, PathIntact, Missing
  <2>2. Init => Abstract!Init
    BY DEF Init, Abstract!Init, Abstract!Empty, Empty, Missing
  <2>3. QED
    BY <2>1, <2>2, IInvInit
<1>2. IInv /\ PathIntact /\ [Next]_vars => IInv' /\ PathIntact'
  BY IInvStep, IntactStep
<1>3. IInv /\ PathIntact /\ [Next]_vars => [Abstract!Next]_(Abstract!vars)
  BY RefineStep
<1>4. QED
  BY <1>1, <1>2, <1>3, PTL DEF Spec, ImplementsDurableMap, Abstract!Spec
=============================================================================
