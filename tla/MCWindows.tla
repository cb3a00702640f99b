----------------------------- MODULE MCWindows -----------------------------
(* The prediction windows of the instances, four bytes to an instruction-  *)
(* cache line; all lines index the one set.                                *)
EXTENDS Naturals

W(first, last, lines) == [first |-> first, last |-> last, lines |-> lines]

(* A start with two ends, two starts in one line, PWs of one line, of      *)
(* several lines and of the whole set.                                     *)
FewWindows == {W(4, 4, 1), W(4, 6, 2), W(8, 8, 1), W(9, 9, 1), W(12, 14, 3)}

(* And one that is too long. *)
AllWindows == FewWindows \cup {W(8, 11, 4)}

(* And one whose start the static bypass list has. *)
WindowsAndBypassed == AllWindows \cup {W(20, 20, 1)}

(* Weights that are equal, one apart and two apart. *)
WeightOf(a) == CASE a = 4 -> 1 [] a = 8 -> 1 [] a = 9 -> 2 [] OTHER -> 3
=============================================================================
