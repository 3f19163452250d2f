----------------------------- MODULE MCDemoCli -----------------------------
(* Instances of DemoCli for TLC; the .cfg files give the constants.        *)
EXTENDS DemoCli

=============================================================================
