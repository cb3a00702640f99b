---------------------------- MODULE MCFetchStage ----------------------------
(* Instances of FetchStage for TLC. *)
EXTENDS FetchStage

(* FETCH_OFF_PATH_OPS, SWITCH_IC_FETCH_ON_RECOVERY and a bubble after a     *)
(* taken branch: each pair of values of two of them occurs.                *)
MCSettings ==
  {<<FALSE, TRUE, FALSE>>, <<FALSE, FALSE, TRUE>>,
   <<TRUE, TRUE, TRUE>>, <<TRUE, FALSE, FALSE>>}
=============================================================================
