----------------------------- MODULE MCFrontEnd -----------------------------
(* Instances of FrontEnd for TLC. *)
EXTENDS FrontEnd

(* Addresses 4 to 7 share an instruction-cache line, 8 is in the next.     *)
MCAddrs == 4..8

Loop == [a \in MCAddrs |-> IF a = 8 THEN {4} ELSE {a + 1}]

(* A loop; one with a jump over 6; one around the loop of 5 and 6; one     *)
(* with both.                                                              *)
MCPrograms ==
  {Loop, [Loop EXCEPT ![5] = {6, 7}], [Loop EXCEPT ![6] = {5, 7}],
   [Loop EXCEPT ![5] = {6, 7}, ![6] = {5, 7}]}
=============================================================================
