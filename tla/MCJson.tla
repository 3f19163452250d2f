------------------------------- MODULE MCJson -------------------------------
(* Instances of Json for TLC; the .cfg files give the constants.           *)
EXTENDS Json

=============================================================================
