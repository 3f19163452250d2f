---------------------------- MODULE OnceExecutor ----------------------------
(***************************************************************************)
(* What an executor of callbacks promises: a submission is either refused  *)
(* or runs exactly once, and callbacks never overlap.  Order, time and     *)
(* capacity are left open.                                                 *)
(***************************************************************************)
CONSTANT Ids            \* the submissions

VARIABLES
  pending,              \* accepted, not started
  active,               \* started, not finished
  done                  \* finished

vars == <<pending, active, done>>

Init == pending = {} /\ active = {} /\ done = {}

Accept(id) ==
  /\ id \notin pending \cup active \cup done
  /\ pending' = pending \cup {id}
  /\ UNCHANGED <<active, done>>

Start(id) ==
  /\ active = {}
  /\ id \in pending
  /\ pending' = pending \ {id}
  /\ active' = {id}
  /\ UNCHANGED done

Finish(id) ==
  /\ active = {id}
  /\ active' = {}
  /\ done' = done \cup {id}
  /\ UNCHANGED pending

Next == \E id \in Ids : Accept(id) \/ Start(id) \/ Finish(id)

Spec == Init /\ [][Next]_vars
=============================================================================
