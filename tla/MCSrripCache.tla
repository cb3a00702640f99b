--------------------------- MODULE MCSrripCache ---------------------------
(* Instances of SrripCache for TLC. *)
EXTENDS SrripCache, MCWindows
=============================================================================
