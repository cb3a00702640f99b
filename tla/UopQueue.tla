----------------------------- MODULE UopQueue -----------------------------
(***************************************************************************)
(* What the decode stage promises to the rest of the pipeline, whatever    *)
(* its depth and however it moves uops between its slots: it is a queue of *)
(* consecutive uops.  They come in at one end, numbered one after the      *)
(* other; each is handed to the accumulation of prediction windows once,   *)
(* in order; those that were handed over, and no others, go on to the map  *)
(* stage; a recovery drops all that are younger than the recovering one.   *)
(***************************************************************************)
EXTENDS Naturals

CONSTANT
  MaxOps     (* bound of the model: the highest op number fetched           *)

VARIABLES
  flying,    (* the numbers of the uops in the fetch and decode stages      *)
  next,      (* the number of the next uop                                  *)
  handed     (* the uop handed to the accumulation last                     *)

Init ==
  /\ flying = {}
  /\ next = 1
  /\ handed = 0

Fetch(n) ==
  /\ next + n <= MaxOps + 1
  /\ next' = next + n
  /\ flying' = flying \cup next..(next + n - 1)
  /\ UNCHANGED handed

HandOver(n) ==
  /\ (handed + 1)..(handed + n) \subseteq flying
  /\ handed' = handed + n
  /\ UNCHANGED <<flying, next>>

Take ==
  /\ flying' = {m \in flying : m > handed}
  /\ UNCHANGED <<next, handed>>

Flush(r) ==
  /\ r < next
  /\ flying' = {m \in flying : m <= r}
  /\ next' = r + 1
  /\ handed' = IF r < handed THEN r ELSE handed

Next ==
  \/ \E n \in 1..MaxOps : Fetch(n) \/ HandOver(n)
  \/ Take
  \/ \E r \in 1..MaxOps : Flush(r)

Spec == Init /\ [][Next]_<<flying, next, handed>>
=============================================================================
