--------------------------- MODULE MCFurbysCache ---------------------------
(* Instances of FurbysCache for TLC. *)
EXTENDS FurbysCache, MCWindows

MCWeight == [a \in Starts |-> WeightOf(a)]

MCBypassMap == {20}
=============================================================================
