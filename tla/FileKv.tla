------------------------------- MODULE FileKv -------------------------------
(***************************************************************************)
(* MemoryKeyValueStore (src/storage/kv.cpp) and FileKeyValueStore          *)
(* (ports/host/host_kv.cpp): a bounded map with a file behind it, which    *)
(* Commit rewrites through a temporary file and a rename.                  *)
(*                                                                         *)
(* A file is [exists, complete, entries]: `complete` is FALSE when it was  *)
(* cut short (in the magic, the count or an entry), and `entries` are the  *)
(* entries that can still be read from it.  The store writes its entries   *)
(* in key order (etl::flat_map), so keys are numbers.                      *)
(***************************************************************************)
EXTENDS Integers, FiniteSets

CONSTANTS
  Keys,          \* keys within ETLX_KV_KEY_CAPACITY, numbered in map order
  LongKeys,      \* keys beyond it
  Values,        \* values within ETLX_KV_VALUE_CAPACITY
  LongValues,    \* values beyond it
  MaxEntries,    \* ETLX_KV_MAX_ENTRIES
  Faults         \* what may go wrong: a process "crash", a reported "io"
                 \* failure, an existing file that fopen cannot "open"

ASSUME KvAssumption ==
  /\ Keys \subseteq Nat /\ Keys \cap LongKeys = {} /\ Values \cap LongValues = {}
  /\ MaxEntries \in Nat
  /\ Faults \subseteq {"crash", "io", "open"}

VARIABLES
  mem,           \* map_
  path,          \* the file at path_, as the file system shows it
  tmp,           \* the file at path_ + ".tmp"
  pc,            \* "down": no store object; "up": idle; or inside Commit
  ret            \* the last call and what it returned

vars == <<mem, path, tmp, pc, ret>>

Empty == [k \in {} |-> k]

Missing   == [exists |-> FALSE, complete |-> TRUE, entries |-> Empty]
File(m)   == [exists |-> TRUE, complete |-> TRUE, entries |-> m]
CutFile(m) == [exists |-> TRUE, complete |-> FALSE, entries |-> m]

\* A write of m cut short: the entries below some key got through.
Truncations(m) ==
  {CutFile(Empty)} \cup
  {CutFile([j \in {i \in DOMAIN m : i < k} |-> m[j]]) : k \in DOMAIN m}

Returns(op, code) == ret' = [op |-> op, code |-> code]

Init ==
  /\ mem = Empty /\ path = Missing /\ tmp = Missing
  /\ pc = "down"
  /\ ret = [op |-> "none", code |-> "Ok"]

-----------------------------------------------------------------------------
(* The map (kv.cpp)                                                        *)

Full == Cardinality(DOMAIN mem) = MaxEntries

Has(k) == k \in Keys /\ k \in DOMAIN mem

\* Mutant of Set: no test for a full map.
SetUnbounded(k, v) ==
  /\ pc = "up"
  /\ k \in Keys /\ v \in Values
  /\ Returns("Set", "Ok")
  /\ mem' = [j \in DOMAIN mem \cup {k} |-> IF j = k THEN v ELSE mem[j]]
  /\ UNCHANGED <<path, tmp, pc>>

Set(k, v) ==
  /\ pc = "up"
  /\ LET code == IF k \in LongKeys \/ v \in LongValues THEN "TooLarge"
                 ELSE IF ~Has(k) /\ Full THEN "Full" ELSE "Ok"
     IN  /\ Returns("Set", code)
         /\ mem' = IF code = "Ok"
                   THEN [j \in DOMAIN mem \cup {k} |-> IF j = k THEN v ELSE mem[j]]
                   ELSE mem
  /\ UNCHANGED <<path, tmp, pc>>

\* Get copies the value out when it fits the caller's buffer.
Get(k, fits) ==
  /\ pc = "up"
  /\ Returns("Get", CASE k \in LongKeys            -> "TooLarge"
                      [] k \in Keys /\ ~Has(k)    -> "NotFound"
                      [] Has(k) /\ ~fits          -> "TooLarge"
                      [] Has(k) /\ fits           -> mem[k])
  /\ UNCHANGED <<mem, path, tmp, pc>>

Remove(k) ==
  /\ pc = "up"
  /\ Returns("Remove", IF k \in LongKeys THEN "TooLarge" ELSE "Ok")
  /\ mem' = IF k \in LongKeys THEN mem ELSE [j \in DOMAIN mem \ {k} |-> mem[j]]
  /\ UNCHANGED <<path, tmp, pc>>

-----------------------------------------------------------------------------
(* The file (host_kv.cpp)                                                  *)

\* Load Sets the readable entries one by one, in order, and drops what Set
\* refuses: the map keeps the first MaxEntries.
Loaded(f) ==
  LET Fits(k) == Cardinality({j \in DOMAIN f.entries : j < k}) < MaxEntries
  IN  [k \in {j \in DOMAIN f.entries : Fits(j)} |-> f.entries[k]]

\* fopen may fail on a file that is there; Load takes it for a missing one.
Readable == {path} \cup (IF "open" \in Faults THEN {Missing} ELSE {})

LoadFrom(f) ==
  /\ mem' = Loaded(f)
  /\ UNCHANGED <<path, tmp>>

\* The constructor ignores what Load returns.
Open ==
  /\ pc = "down"
  /\ \E f \in Readable : LoadFrom(f)
  /\ pc' = "up"
  /\ Returns("Open", "Ok")

Load ==
  /\ pc = "up"
  /\ \E f \in Readable :
       /\ LoadFrom(f)
       /\ Returns("Load", IF f.complete THEN "Ok" ELSE "IoError")
  /\ UNCHANGED pc

CommitFails ==
  /\ "io" \in Faults
  /\ Returns("Commit", "IoError")
  /\ pc' = "up"
  /\ UNCHANGED <<mem, path>>

\* Mutant of CommitOpen: the file itself is opened for writing.
CommitInPlace ==
  /\ pc = "up"
  /\ path' = CutFile(Empty) /\ pc' = "write"
  /\ UNCHANGED <<mem, tmp, ret>>

\* fopen(tmp, "wb") empties whatever an earlier Commit left there.
CommitOpen ==
  /\ pc = "up"
  /\ \/ /\ tmp' = CutFile(Empty)
        /\ pc' = "write"
        /\ UNCHANGED <<mem, path, ret>>
     \/ /\ CommitFails
        /\ UNCHANGED tmp

\* A full map of the default capacities takes 2664 bytes, less than the
\* stream's buffer: all writes reach the file in fflush, which is checked.
CommitWrite ==
  /\ pc = "write"
  /\ \/ /\ tmp' = File(mem)
        /\ pc' = "rename"
        /\ UNCHANGED <<mem, path, ret>>
     \/ /\ tmp' \in Truncations(mem)
        /\ CommitFails

\* Mutant of CommitRename: a failed rename is reported as success.
CommitRenameUnchecked ==
  /\ pc = "rename"
  /\ \/ path' = tmp /\ tmp' = Missing
     \/ "io" \in Faults /\ UNCHANGED <<path, tmp>>
  /\ pc' = "up"
  /\ Returns("Commit", "Ok")
  /\ UNCHANGED <<mem>>

CommitRename ==
  /\ pc = "rename"
  /\ \/ /\ path' = tmp
        /\ tmp' = Missing
        /\ pc' = "up"
        /\ Returns("Commit", "Ok")
        /\ UNCHANGED <<mem>>
     \/ /\ CommitFails
        /\ UNCHANGED tmp

-----------------------------------------------------------------------------
(* The environment                                                         *)

\* The store object is destroyed without a Commit.
Close ==
  /\ pc = "up"
  /\ pc' = "down" /\ mem' = Empty
  /\ UNCHANGED <<path, tmp, ret>>

\* The process dies; an unfinished write leaves part of the temporary file.
Crash ==
  /\ "crash" \in Faults /\ pc # "down"
  /\ pc' = "down" /\ mem' = Empty
  /\ tmp' \in (IF pc = "write" THEN Truncations(mem) ELSE {}) \cup {tmp}
  /\ UNCHANGED <<path, ret>>

Next ==
  \/ Open \/ Load \/ CommitOpen \/ CommitWrite \/ CommitRename
  \/ Close \/ Crash
  \/ \E k \in Keys \cup LongKeys :
       \/ Remove(k)
       \/ \E fits \in BOOLEAN : Get(k, fits)
       \/ \E v \in Values \cup LongValues : Set(k, v)

Spec == Init /\ [][Next]_vars

-----------------------------------------------------------------------------
(* Properties                                                              *)

Maps  == UNION {[D -> Values] : D \in SUBSET Keys}
Files == [exists : BOOLEAN, complete : BOOLEAN, entries : Maps]
Small(m) == IsFiniteSet(DOMAIN m) /\ Cardinality(DOMAIN m) <= MaxEntries

\* Type correctness; no map, in memory or in a file, exceeds the capacity, so
\* the Set errors that Load ignores never happen.
TypeOK ==
  /\ mem \in Maps /\ Small(mem)
  /\ \A f \in {path, tmp} : f \in Files /\ Small(f.entries)
  /\ pc \in {"down", "up", "write", "rename"}

\* Commit reports Ok only when the file holds exactly the map: also after an
\* earlier Commit failed or was cut off and left its temporary file behind.
CommitReports ==
  (pc # "down" /\ ret = [op |-> "Commit", code |-> "Ok"])
    => path.complete /\ path.entries = mem

\* "A missing file is treated as empty" (host_kv.hpp:15), and so a file that
\* is there is loaded: a store that opens holds what the file holds.  The code
\* does not keep this when fopen fails on a file that exists.
OpenRestores == [][(pc = "down" /\ pc' = "up") => mem' = path.entries]_vars

\* "Writes all entries back to the file atomically": the file at path is
\* never one that was cut short.
PathIntact == path.complete

Abstract == INSTANCE DurableMap WITH
              up <- pc # "down", work <- mem, durable <- path.entries,
              MayForget <- "open" \in Faults

\* While the rename is due, the temporary file holds the whole map.
TmpReady == pc = "rename" => tmp = File(mem)

\* The store is a durable map: edits stay in memory, a Commit replaces the
\* durable copy as a whole at its rename or not at all, and a reopen after
\* any crash restores the last committed map (or finds nothing, where fopen
\* may fail on a file that exists).
ImplementsDurableMap == Abstract!Spec
=============================================================================
