---------------------------- MODULE MCSeFactory ----------------------------
(* Instances of SeFactory for TLC; the .cfg files give the constants.      *)
EXTENDS SeFactory

=============================================================================
