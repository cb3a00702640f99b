---------------------------- MODULE WindowCache ----------------------------
(***************************************************************************)
(* What a set of the micro-op cache promises to the front end, whatever    *)
(* its replacement policy: it holds whole prediction windows, as many as   *)
(* fit, at most one for each start address.  A window enters at once; any  *)
(* windows may leave at any time.                                          *)
(***************************************************************************)
EXTENDS Naturals, FiniteSets

CONSTANTS
  Assoc,    (* lines in the set                                             *)
  Windows   (* records with at least the fields first and lines             *)

VARIABLE
  resident  (* the windows that a lookup can hit                            *)

(* The lines that a set of windows takes. *)
LinesOf(R) == UNION {{p} \X (1..p.lines) : p \in R}

Fits(R) ==
  /\ Cardinality(LinesOf(R)) <= Assoc
  /\ \A p, q \in R : p.first = q.first => p = q

Init == resident = {}

Enter(p) ==
  /\ p \notin resident
  /\ \E S \in SUBSET resident : resident' = (resident \ S) \cup {p}
  /\ Fits(resident')

Leave == resident' \in SUBSET resident

Next == Leave \/ \E p \in Windows : Enter(p)

Spec == Init /\ [][Next]_resident
=============================================================================
