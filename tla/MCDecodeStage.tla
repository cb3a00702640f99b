---------------------------- MODULE MCDecodeStage ----------------------------
(* Instances of DecodeStage for TLC: all values are given in the cfg. *)
EXTENDS DecodeStage
=============================================================================
