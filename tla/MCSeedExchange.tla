--------------------------- MODULE MCSeedExchange ---------------------------
(* Instances of SeedExchange for TLC.                                      *)
EXTENDS SeedExchange
=============================================================================
