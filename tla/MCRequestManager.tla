-------------------------- MODULE MCRequestManager --------------------------
(* Instances of RequestManager for TLC; the constants are in the .cfg      *)
(* files.                                                                  *)
EXTENDS RequestManager
=============================================================================
