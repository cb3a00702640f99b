----------------------------- MODULE SrripCache -----------------------------
(***************************************************************************)
(* The SRRIP configuration of the micro-op cache (REPL_SRRIP), the         *)
(* baseline that FURBYS degrades to.  With UOP_RRIP_PW, pw_insert first    *)
(* frees ways for the whole PW by their RRPV.  The parameter is a variable *)
(* that keeps its first value, so that one model shows both settings.      *)
(***************************************************************************)
EXTENDS RripCache

VARIABLE rripPw   (* UOP_RRIP_PW *)

vars == <<entries, pc, cur, idx, saved, rrpv, rripPw>>

(* Type invariant: RRPVs keep their width through all aging loops. *)
TypeOK == TypeOKRrip /\ rripPw \in BOOLEAN

Init == InitRrip /\ rripPw \in BOOLEAN

-----------------------------------------------------------------------------
Lookup(a) == Hit(a) /\ UNCHANGED rripPw

FirstLoop == IF rripPw THEN "room" ELSE "insert"

EndAccumulate(p) ==
  /\ pc = "idle"
  /\ SavePW(p)
  /\ PwInsert(p, FirstLoop)
  /\ UNCHANGED rripPw

FillPrefetch(a) ==
  /\ pc = "idle"
  /\ saved[a] # NoWindow
  /\ PwInsert(saved[a], FirstLoop)
  /\ UNCHANGED <<saved, rripPw>>

ICacheEvict(l) == ICacheReplaces(l) /\ UNCHANGED rripPw

-----------------------------------------------------------------------------
(* UOP_RRIP_PW: the room that the PW needs is made before its first line   *)
(* is placed.  The count of free ways is taken once, at the start.         *)

Missing == cur.lines - Cardinality(FreeWays(entries))

EnoughRoom ==
  /\ pc = "room"
  /\ Missing <= 0
  /\ pc' = "insert"
  /\ UNCHANGED <<entries, cur, idx, saved, rrpv, rripPw>>

(* One pass over the set clears the valid flag of the first ways at the    *)
(* maximum, and counts each of them as won, valid or not.                  *)
MakeRoom ==
  /\ pc = "room"
  /\ Missing > 0
  /\ AgedOut(Ways) # {}
  /\ LET freed == {w \in AgedOut(Ways) :
                     Cardinality({v \in AgedOut(Ways) : v <= w}) <= Missing}
     IN entries' = [w \in Ways |-> IF w \in freed THEN Invalid ELSE entries[w]]
  /\ pc' = "insert"
  /\ UNCHANGED <<cur, idx, saved, rrpv, rripPw>>

AgeForRoom ==
  /\ pc = "room"
  /\ Missing > 0
  /\ AgedOut(Ways) = {}
  /\ Age(Ways)
  /\ UNCHANGED <<entries, pc, cur, idx, saved, rripPw>>

-----------------------------------------------------------------------------
(* The insertion loop: find_repl_entry, then the write of the line. *)

InsertInFreeWay == FillFreeWay /\ UNCHANGED rripPw
Select          == pc = "insert" /\ SelectAgedOut /\ UNCHANGED rripPw
AgeForVictim    == pc = "insert" /\ AgeOthers /\ UNCHANGED rripPw

InsertionStep ==
  \/ EnoughRoom
  \/ MakeRoom
  \/ AgeForRoom
  \/ InsertInFreeWay
  \/ Select
  \/ AgeForVictim

Next ==
  \/ \E a \in Starts : Lookup(a)
  \/ \E p \in Windows : EndAccumulate(p)
  \/ \E a \in Starts : FillPrefetch(a)
  \/ \E l \in ICacheLines : ICacheEvict(l)
  \/ InsertionStep

(* The simulator thread does not stop inside a loop whose body can run. *)
Spec == Init /\ [][Next]_vars /\ WF_vars(InsertionStep)

-----------------------------------------------------------------------------
(* Properties. *)

(* Without UOP_RRIP_PW, a hit never serves a PW of which a line is gone.   *)
WholeUnlessRoomIsMade == ~rripPw => WholeWindows

(* Without UOP_RRIP_PW, the set is a WindowCache. *)
LineByLine == INSTANCE WindowCache WITH resident <- IF rripPw THEN {} ELSE Visible
ImplementsUnlessRoomIsMade == LineByLine!Spec

(* The lines of a PW have the same value. *)
EquallyOld ==
  \A v, w \in Ways :
    Valid(entries, v) /\ Valid(entries, w) /\ entries[v].pw = entries[w].pw
      => rrpv[v] = rrpv[w]

(* Replacement is decided line by line but applied PW by PW.  That is      *)
(* sound because the lines of a PW are always equally old: hits, aging and *)
(* insertion treat them alike although each goes way by way.               *)
WindowsAgeTogether == pc = "idle" => EquallyOld

(* The inductive invariant, for both settings. *)
Inv ==
  /\ RripSetInv
  /\ EquallyOld
  /\ rripPw \in BOOLEAN
  /\ pc = "room" => rripPw /\ idx = 0
  /\ rripPw \/ OthersWhole

(* A search takes MaxRrpv passes and a choice; making room comes before    *)
(* the first line.                                                         *)
SearchLeft ==
  IF pc = "room"
  THEN MaxRrpv + 2 + (IF Missing > 0 THEN PassesLeft(Ways) ELSE 0)
  ELSE 1 + (IF FreeWays(entries) = {} THEN PassesLeft(OtherWays) ELSE 0)

WorkLeft == StepsLeft(MaxRrpv + 1, SearchLeft)

(* The steps of an insertion, at any time: at most so many for each way,   *)
(* and as many to make room.                                               *)
WorkIsBounded == WorkLeft \in 0..((Assoc + 1) * (MaxRrpv + 1))

(* Each iteration of the loops of pw_insert and find_repl_entry brings the *)
(* insertion nearer to its end, by a count that cannot fall below zero.    *)
InsertionProgress ==
  [][pc # "idle" => WorkLeft' \in 0..(WorkLeft - 1)]_vars

(* All loops of pw_insert and find_repl_entry end. *)
InsertionEnds == pc # "idle" ~> pc = "idle"
=============================================================================
