-------------------------- MODULE MCScp03Rotation --------------------------
(* Instances of Scp03Rotation for TLC; the .cfg files give the constants.  *)
EXTENDS Scp03Rotation

=============================================================================
