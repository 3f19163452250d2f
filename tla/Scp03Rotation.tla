--------------------------- MODULE Scp03Rotation ---------------------------
(***************************************************************************)
(* Rotation of the Platform SCP03 keys of a secure element:                *)
(* Scp03Admin::Rotate (ports/se05x/scp03.cpp), the key file it reads and   *)
(* rewrites (scp03_keyfile.cpp), the session it runs over                  *)
(* (se_connection.cpp) and its callers.  PUT KEY is irreversible, so the   *)
(* host must not lose the keys that the element holds.                     *)
(*                                                                         *)
(* A key set is one value; its DEK stands for the set.  The element is     *)
(* external: it authenticates a session with the keys it holds, accepts a  *)
(* PUT KEY wrapped with its own DEK (the block carries a check value) and  *)
(* drops the secure channel after rotating its keys.                       *)
(***************************************************************************)
EXTENDS Naturals

CONSTANTS
  KeySets,       \* key sets in play
  Default,       \* DefaultScp03Keys()
  NoFile,        \* content of a missing file
  Incomplete,    \* content of a file without all three lines
  Callers,       \* the programs that may drive the rotation
  Failures       \* what may go wrong: a "crash", a reported "io" failure, a
                 \* "flush" error of fclose, a "lost" answer to PUT KEY

ASSUME RotationAssumption ==
  /\ Default \in KeySets
  /\ NoFile \notin KeySets /\ Incomplete \notin KeySets
  /\ Callers \subseteq {"keeper", "factory", "quickstart"}
  /\ Failures \subseteq {"crash", "io", "flush", "lost"}

VARIABLES
  caller,        \* which program this is, the same throughout
  se,            \* the keys the element holds
  session,       \* "none", "open" or "dropped" by the element
  dek,           \* pStatic_ctx->Dek
  path, tmp, bak,\* the key file, <path>.tmp and <path>.bak
  phase,         \* "idle" or the next step of Rotate
  new,           \* the keys being installed
  persist,       \* was Rotate given a key_file to write
  ret            \* what the last call returned

files        == <<path, tmp, bak>>
rotationVars == <<caller, se, session, dek, files, phase, new, persist, ret>>

Returns(r) == ret' = r /\ phase' = "idle"

\* The keeper and the quickstart start with the default keys on the element
\* and in the file; se_factory is given a file with the keys to install.
RotationInit ==
  /\ caller \in Callers
  /\ se = Default /\ session = "none" /\ dek = Default
  /\ path \in IF caller = "factory" THEN KeySets ELSE {Default}
  /\ tmp = NoFile /\ bak = NoFile
  /\ phase = "idle" /\ new = Default /\ persist = FALSE /\ ret = "none"

-----------------------------------------------------------------------------
(* Connection::Open: SCP03 mutual authentication with `keys`.              *)

Open(keys) ==
  /\ phase = "idle" /\ session = "none"
  /\ IF keys = se
     THEN session' = "open" /\ dek' = keys /\ Returns("ok")
     ELSE Returns("error") /\ UNCHANGED <<session, dek>>
  /\ UNCHANGED <<se, files, new, persist>>

\* se_factory opens with the compiled-in keys, a keeper with those of its
\* key file, the quickstart with whatever it believes is current.
OpenCall ==
  \/ caller = "factory" /\ Open(Default)
  \/ caller = "keeper" /\ path \in KeySets /\ Open(path)
  \/ caller = "quickstart" /\ \E keys \in KeySets : Open(keys)

-----------------------------------------------------------------------------
(* Rotate                                                                  *)

StartRotate(keys, write) ==
  /\ phase = "idle" /\ session # "none"
  /\ new' = keys /\ persist' = write
  /\ UNCHANGED <<se, session, files>>

\* A dry run stops before anything is built or sent.
DryRun(keys) == StartRotate(keys, FALSE) /\ Returns("ok") /\ UNCHANGED dek

\* Mutant of RotateFile: the DEK of the new keys wraps them.
RotateFileNewDek(keys, write) ==
  /\ StartRotate(keys, write)
  /\ path \in KeySets
  /\ dek' = keys /\ phase' = "put"
  /\ UNCHANGED ret

\* Rotate(new, dry_run, key_file): the file's DEK is taken for the current one.
RotateFile(keys, write) ==
  /\ StartRotate(keys, write)
  /\ IF path \in KeySets
     THEN dek' = path /\ phase' = "put" /\ UNCHANGED ret
     ELSE Returns("error") /\ UNCHANGED dek

\* Rotate(current, new, dry_run): the caller supplies the current DEK, which
\* is loaded on a dry run too.
RotateMemory(current, keys, dry) ==
  /\ StartRotate(keys, FALSE)
  /\ dek' = current
  /\ IF dry THEN Returns("ok") ELSE phase' = "put" /\ UNCHANGED ret

\* RotateOnce of the quickstart supplies the keys it opened the session with.
QuickstartRotate ==
  \E keys \in KeySets, dry \in BOOLEAN : RotateMemory(dek, keys, dry)

\* se_factory reads the keys to install from the file it then passes on as
\* key_file; a keeper may leave key_file out and rely on the environment.
RotateCall ==
  \/ /\ caller = "factory" /\ path \in KeySets
     /\ RotateFile(path, TRUE) \/ DryRun(path)
  \/ /\ caller = "keeper"
     /\ \E keys \in KeySets : RotateFile(keys, TRUE) \/ RotateFile(keys, FALSE) \/ DryRun(keys)
  \/ caller = "quickstart" /\ QuickstartRotate

\* The element's side of PUT KEY.
SeAccepts == session = "open" /\ dek = se

\* SendPutKey.  A rejection, a key block that cannot be built and a transport
\* error look alike to the caller; behind a lost answer the keys may be in.
SendPutKey ==
  /\ phase = "put"
  /\ \/ /\ SeAccepts
        /\ se' = new /\ session' = "dropped"
        /\ IF persist THEN phase' = "open" /\ UNCHANGED ret ELSE Returns("ok")
     \/ /\ ~SeAccepts
        /\ Returns("error")
        /\ UNCHANGED <<se, session>>
     \/ /\ "lost" \in Failures
        /\ SeAccepts
        /\ se' = new /\ session' = "dropped"
        /\ Returns("error")
     \/ /\ "io" \in Failures
        /\ Returns("error")
        /\ UNCHANGED <<se, session>>
  /\ UNCHANGED <<dek, files, new, persist>>

-----------------------------------------------------------------------------
(* scp03_keyfile::Write(key_file, new_keys)                                *)

WriteFails == "io" \in Failures /\ Returns("error")

WriteUnchanged == UNCHANGED <<se, session, dek, new, persist>>

\* Mutant of WriteOpen: the key file itself is opened for writing.
WriteOpenInPlace ==
  /\ phase = "open"
  /\ path' = Incomplete /\ phase' = "write"
  /\ UNCHANGED <<tmp, bak, ret>>
  /\ WriteUnchanged

WriteOpen ==
  /\ phase = "open"
  /\ \/ tmp' = Incomplete /\ phase' = "write" /\ UNCHANGED ret
     \/ WriteFails /\ UNCHANGED tmp
  /\ UNCHANGED <<path, bak>>
  /\ WriteUnchanged

\* The three lines stay in the stream's buffer until fclose, whose result is
\* not looked at: a full disk leaves a file without them.
WriteTmp ==
  /\ phase = "write"
  /\ \/ tmp' = new /\ phase' = "backup" /\ UNCHANGED ret
     \/ "flush" \in Failures /\ tmp' = Incomplete /\ phase' = "backup" /\ UNCHANGED ret
     \/ WriteFails /\ tmp' = NoFile
  /\ UNCHANGED <<path, bak>>
  /\ WriteUnchanged

\* remove(bak), then rename(path, bak), a failure of which is ignored.
WriteRemoveBak ==
  /\ phase = "backup"
  /\ bak' = NoFile
  /\ phase' = "rename"
  /\ UNCHANGED <<path, tmp, ret>>
  /\ WriteUnchanged

WriteBackup ==
  /\ phase = "rename"
  /\ \/ bak' = path /\ path' = NoFile
     \/ "io" \in Failures /\ UNCHANGED <<path, bak>>
  /\ phase' = "replace"
  /\ UNCHANGED <<tmp, ret>>
  /\ WriteUnchanged

\* Mutant of WriteReplace: a failed rename is reported as success.
WriteReplaceUnchecked ==
  /\ phase = "replace"
  /\ path' = tmp \/ ("io" \in Failures /\ path' = path)
  /\ Returns("ok")
  /\ tmp' = NoFile
  /\ UNCHANGED bak
  /\ WriteUnchanged

WriteReplace ==
  /\ phase = "replace"
  /\ \/ path' = tmp /\ Returns("ok")
     \/ WriteFails /\ UNCHANGED path
  /\ tmp' = NoFile
  /\ UNCHANGED bak
  /\ WriteUnchanged

-----------------------------------------------------------------------------

\* The process ends; the element and the files are all that remains.
EndProcess ==
  /\ session' = "none" /\ phase' = "idle" /\ ret' = "none"
  /\ UNCHANGED <<se, dek, files, new, persist>>

Leave == phase = "idle" /\ session # "none" /\ EndProcess
Crash == "crash" \in Failures /\ phase # "idle" /\ EndProcess

Step ==
  \/ OpenCall \/ RotateCall \/ SendPutKey
  \/ WriteOpen \/ WriteTmp \/ WriteRemoveBak \/ WriteBackup \/ WriteReplace
  \/ Leave \/ Crash

RotationNext == Step /\ UNCHANGED caller

RotationSpec == RotationInit /\ [][RotationNext]_rotationVars

-----------------------------------------------------------------------------
(* Properties                                                              *)

FileContents == KeySets \cup {NoFile, Incomplete}

\* Type correctness.
RotationTypeOK ==
  /\ caller \in Callers
  /\ se \in KeySets /\ dek \in KeySets /\ new \in KeySets
  /\ session \in {"none", "open", "dropped"}
  /\ path \in FileContents /\ tmp \in FileContents /\ bak \in FileContents
  /\ phase \in {"idle", "put", "open", "write", "backup", "rename", "replace"}
  /\ persist \in BOOLEAN
  /\ ret \in {"none", "ok", "error"}

Stored == {path, tmp, bak}

\* Once a file has the element's keys, no step of the key file's rewriting
\* and no crash in it removes their last copy, with two exceptions: a failed
\* last rename, which is reported to the caller, who still has the keys; and a
\* rewriting that goes on with a temporary file whose lines fclose lost.
LastCopyKept ==
  [][(se \in Stored /\ se' = se /\ se \notin Stored')
       => /\ new = se
          /\ \/ phase = "replace" /\ ret' = "error"
             \/ phase \in {"backup", "replace"} /\ tmp = Incomplete]_rotationVars

\* The files are only touched after the element took the new keys: a rejected
\* or failed PUT KEY never reaches the key file.
FilesFollowElement ==
  phase \in {"open", "write", "backup", "rename", "replace"} => se = new /\ persist

PersistedOk == phase = "idle" /\ session = "dropped" /\ persist /\ ret = "ok"

\* "If key_file is non-null and dry_run is false, atomically writes the new
\* key set to the file on success" (scp03.hpp:52-53): a rotation that was asked
\* to persist the keys and returned Ok has left the element's keys in the key
\* file.  The code does not keep this when only fclose meets the write error.
OkMeansPersisted == PersistedOk => path = se

\* What an Ok is worth under every failure: the key file has the element's
\* keys, or it is visibly damaged, which takes a write error hidden in fclose.
\* It never holds another complete key set, which the next session would try.
OkNeverMisleads ==
  PersistedOk => path = se \/ ("flush" \in Failures /\ path = Incomplete)

\* "The DEK must match what the SE currently holds": whenever PUT KEY goes
\* out, the DEK that wraps the new keys is the element's.
DekMatches == phase = "put" /\ session = "open" => dek = se

\* A program that keeps the element's keys in the key file, which
\* LoadCurrentDek reads, is safe from that mismatch.
KeeperDekMatches == caller = "keeper" => DekMatches
=============================================================================
