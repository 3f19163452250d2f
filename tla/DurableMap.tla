----------------------------- MODULE DurableMap -----------------------------
(***************************************************************************)
(* What a durable key-value store promises across crashes: a working copy  *)
(* that edits change, a durable copy that only a successful Commit         *)
(* replaces, as a whole, and a reopen that restores the durable copy.      *)
(***************************************************************************)
CONSTANTS
  Keys, Values,
  MayForget  \* may a reopen fail to find the durable copy

VARIABLES
  up,        \* is a store object open
  work,      \* its working copy, a partial function from Keys to Values
  durable,   \* the durable copy
  ret        \* the last call and what it returned: [op, code]

vars == <<up, work, durable, ret>>

Empty  == [k \in {} |-> k]
Errors == {"NotFound", "Full", "TooLarge", "IoError"}

Returns(op, code) == ret' = [op |-> op, code |-> code]

Put(m, k, v)   == [j \in DOMAIN m \cup {k} |-> IF j = k THEN v ELSE m[j]]
Without(m, k)  == [j \in DOMAIN m \ {k} |-> m[j]]

Init ==
  /\ up = FALSE /\ work = Empty /\ durable = Empty
  /\ ret = [op |-> "none", code |-> "Ok"]

Restored == {durable} \cup (IF MayForget THEN {Empty} ELSE {})

Open == ~up /\ up' = TRUE /\ work' \in Restored /\ Returns("Open", "Ok") /\ UNCHANGED durable

\* The object goes away, by a crash or because it is destroyed.
Down == up /\ up' = FALSE /\ work' = Empty /\ UNCHANGED <<durable, ret>>

Set(k, v) == up /\ work' = Put(work, k, v) /\ Returns("Set", "Ok") /\ UNCHANGED <<up, durable>>

Remove(k) == up /\ work' = Without(work, k) /\ Returns("Remove", "Ok") /\ UNCHANGED <<up, durable>>

Get(k) ==
  /\ up /\ k \in DOMAIN work
  /\ Returns("Get", work[k])
  /\ UNCHANGED <<up, work, durable>>

\* A call that reports an error changes neither copy.
Refuse ==
  /\ up
  /\ \E op \in {"Set", "Remove", "Get", "Commit"}, e \in Errors : Returns(op, e)
  /\ UNCHANGED <<up, work, durable>>

Commit == up /\ durable' = work /\ Returns("Commit", "Ok") /\ UNCHANGED <<up, work>>

Load == up /\ work' \in Restored /\ Returns("Load", "Ok") /\ UNCHANGED <<up, durable>>

Next ==
  \/ Open \/ Down \/ Refuse \/ Commit \/ Load
  \/ \E k \in Keys : Remove(k) \/ Get(k) \/ \E v \in Values : Set(k, v)

Spec == Init /\ [][Next]_vars
=============================================================================
