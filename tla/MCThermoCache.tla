--------------------------- MODULE MCThermoCache ---------------------------
(* Instances of ThermoCache for TLC. *)
EXTENDS ThermoCache, MCWindows

MCWeight == [a \in Starts |-> WeightOf(a)]
=============================================================================
