\* Two command lines in one process, of up to three arguments.
CONSTANTS
  Tokens = {"img", "verify", "--", "--stop-before", "--stop-before=verify", "--bogus", "--help"}
  MaxArgs = 3
  MaxCalls = 2
SPECIFICATION Spec
INVARIANTS ParseIsRight PhaseInState StopBeforeObeyed
CHECK_DEADLOCK FALSE
