----------------------------- MODULE MCFileKv ------------------------------
(* Instances of FileKv for TLC; the .cfg files give the constants.         *)
EXTENDS FileKv

=============================================================================
