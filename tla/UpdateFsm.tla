----------------------------- MODULE UpdateFsm -----------------------------
(***************************************************************************)
(* etlx::sm::UpdateFsm (sm/update_fsm.hpp): the update workflow as a       *)
(* transition table.  A message a state has no on_event for goes to its    *)
(* on_event_unknown, which keeps the state.                                *)
(***************************************************************************)

FsmStates   == {"Idle", "Download", "Verify", "Install", "AwaitCommit", "Done", "Failed"}
FsmMessages == {"Start", "Next", "Commit", "Rollback", "Abort"}

\* What on_event returns in each state, for the messages it handles.
OnEvent ==
  [ Idle        |-> [Start |-> "Download"],
    Download    |-> [Next |-> "Verify", Abort |-> "Failed"],
    Verify      |-> [Next |-> "Install", Abort |-> "Failed"],
    Install     |-> [Next |-> "AwaitCommit", Abort |-> "Failed"],
    AwaitCommit |-> [Commit |-> "Done", Rollback |-> "Failed", Abort |-> "Failed"],
    Done        |-> [m \in {} |-> m],
    Failed      |-> [m \in {} |-> m] ]

Receive(state, message) ==
  IF message \in DOMAIN OnEvent[state] THEN OnEvent[state][message] ELSE state
=============================================================================
