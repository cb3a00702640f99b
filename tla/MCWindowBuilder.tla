-------------------------- MODULE MCWindowBuilder --------------------------
(* Instances of WindowBuilder for TLC: two lines of three instructions. *)
EXTENDS WindowBuilder

MCAddrs == 3..8
=============================================================================
