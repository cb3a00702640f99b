------------------------------ MODULE LruCache ------------------------------
(***************************************************************************)
(* The LRU configuration of the micro-op cache (REPL_TRUE_LRU), and GHRP   *)
(* (REPL_GHRP), which first replaces what it predicts to be dead and falls *)
(* back on LRU.  Unlike the searches of the other policies, the one for    *)
(* the least recent line does not pass over the lines of the PW that is    *)
(* being inserted.                                                         *)
(***************************************************************************)
EXTENDS StampCache

VARIABLES
  ghrp,    (* REPL_GHRP, else REPL_TRUE_LRU: a parameter                    *)
  dead,    (* entry->prediction of each way                                 *)
  curDead  (* the prediction for the PW that is being inserted              *)

prediction == <<dead, curDead>>
vars == <<entries, pc, cur, idx, saved, uocPref, now, stage, stamp, ghrp, prediction>>

(* Type invariant: no stamp is of a cycle to come. *)
TypeOK ==
  /\ TypeOKStamp
  /\ ghrp \in BOOLEAN
  /\ dead \in [Ways -> BOOLEAN] /\ curDead \in BOOLEAN

Init ==
  /\ InitStamp
  /\ ghrp \in BOOLEAN
  /\ dead = [w \in Ways |-> FALSE] /\ curDead = FALSE

-----------------------------------------------------------------------------
(* Predictions.  What the tables of counters answer is left open. *)

Predictions == IF ghrp THEN BOOLEAN ELSE {FALSE}

(* Mutant: a hit changes the prediction of one of the lines only. *)
RepredictFirst(a) ==
  \E d \in Predictions :
    dead' = [w \in Ways |-> IF IsFirst(w, HitWays(entries, a)) THEN d ELSE dead[w]]

(* A hit makes a new prediction for all lines of the PW. *)
Repredict(a) ==
  \E d \in Predictions :
    dead' = [w \in Ways |-> IF w \in HitWays(entries, a) THEN d ELSE dead[w]]

(* A PW that comes in gets one before its lines are inserted. *)
PredictInserted ==
  /\ curDead' \in IF pc' = "insert" THEN Predictions ELSE {FALSE}
  /\ UNCHANGED <<dead, ghrp>>

(* A lookup by packet_build, with update_repl. *)
Lookup(a) == Hit(a) /\ Repredict(a) /\ UNCHANGED <<ghrp, curDead>>

(* Any other lookup leaves the stamps alone. *)
LookupOnly(a) ==
  /\ pc = "idle"
  /\ HitWays(entries, a) # {}
  /\ Repredict(a)
  /\ stage' = "fetch"
  /\ UNCHANGED <<entries, pc, cur, idx, saved, uocPref, now, stamp, ghrp, curDead>>

-----------------------------------------------------------------------------
EndAccumulate(p) == Decoded(p) /\ PwInsert(p, TRUE) /\ PredictInserted

FillPrefetch(a) ==
  Prefetched(a) /\ PwInsert(saved[a], TRUE) /\ PredictInserted

ICacheEvict(l) == ICacheReplaces(l) /\ UNCHANGED <<ghrp, prediction>>

(* find_repl_entry has chosen way w. *)
InsertPredicted(w) ==
  /\ InsertInto(w)
  /\ dead' = [dead EXCEPT ![w] = curDead]
  /\ curDead' = (curDead /\ pc' = "insert")
  /\ UNCHANGED ghrp

InsertInFreeWay ==
  /\ pc = "insert"
  /\ \E w \in Ways : IsFirst(w, FreeWays(entries)) /\ InsertPredicted(w)

(* Mutant: with the lines of the PW itself. *)
AllDeadWays == {w \in Ways : ghrp /\ dead[w]}

(* The ways that are predicted to be dead and hold no line of the PW. *)
DeadWays == {w \in OtherWays : ghrp /\ dead[w]}

SelectDead ==
  /\ pc = "insert"
  /\ FreeWays(entries) = {}
  /\ \E w \in Ways : IsFirst(w, DeadWays) /\ InsertPredicted(w)

SelectLeastRecent ==
  /\ pc = "insert"
  /\ FreeWays(entries) = {}
  /\ DeadWays = {}
  /\ \E w \in Oldest(Ways) : InsertPredicted(w)

Next ==
  \/ \E a \in Starts : Lookup(a)
  \/ \E a \in Starts : LookupOnly(a)
  \/ \E p \in Windows : EndAccumulate(p)
  \/ \E a \in Starts : FillPrefetch(a)
  \/ \E l \in ICacheLines : ICacheEvict(l)
  \/ InsertInFreeWay
  \/ SelectDead
  \/ SelectLeastRecent
  \/ NextCycle /\ UNCHANGED <<ghrp, prediction>>

Spec == Init /\ [][Next]_vars

-----------------------------------------------------------------------------
(* Properties. *)

(* Without prefetching into the uop cache, a hit never serves a PW of      *)
(* which a line is gone: no two PWs of several lines enter in one cycle,   *)
(* so the lines of the PW being inserted are younger than a whole other PW.*)
WholeWithoutPrefetch == ~uocPref => WholeWindows

(* Without prefetching, the set is a WindowCache. *)
OnDemand == INSTANCE WindowCache WITH resident <- IF uocPref THEN {} ELSE Visible
ImplementsWithoutPrefetch == OnDemand!Spec

(* Without prefetching, an insertion brings in every line of the PW.       *)
CompletesWithoutPrefetch ==
  [][~uocPref /\ pc # "idle" /\ pc' = "idle" => cur \in Resident(entries')]_vars

(* The lines of a PW carry one stamp and one prediction. *)
AlikeInPW ==
  \A v, w \in Ways :
    Valid(entries, v) /\ Valid(entries, w) /\ entries[v].pw = entries[w].pw
      => stamp[v] = stamp[w] /\ dead[v] = dead[w]

(* Recency and predictions are kept per line but PWs are lost as a whole:  *)
(* all lines of a PW carry the stamp of its last use, so the oldest line   *)
(* belongs to the oldest PW, and the same prediction.                      *)
OneStampPerWindow == pc = "idle" => AlikeInPW

(* The inductive invariant.  Of the set, what holds with prefetching too:  *)
(* lines of a PW are alike during an insertion as well, and those of the   *)
(* PW being inserted are the ones of this cycle.  Its lines may have been  *)
(* evicted by its own insertion.                                           *)
OwnLinesNew ==
  pc # "idle" =>
    /\ cur \in Windows
    /\ \A w \in OwnWays :
         entries[w].pw = cur /\ stamp[w] = now /\ dead[w] = curDead

(* Without prefetching: at the start of a cycle, and while a PW of several *)
(* lines is inserted, all other lines are of earlier cycles.               *)
OthersEarlier ==
  /\ stage = "memory" =>
       pc = "idle" /\ \A w \in Ways : Valid(entries, w) => stamp[w] < now
  /\ pc # "idle" /\ cur.lines > 1 =>
       \A w \in OtherWays : Valid(entries, w) => stamp[w] < now

Inv ==
  /\ TypeOK
  /\ OneWindowPerStart
  /\ AlikeInPW
  /\ OwnLinesNew
  /\ pc \in {"idle", "insert"}
  /\ uocPref \/ (CacheInv /\ OthersEarlier)
=============================================================================
