--------------------------- MODULE MCSimTransport ---------------------------
(* Instances of SimTransport for TLC; the .cfg files give the constants.   *)
EXTENDS SimTransport

=============================================================================
