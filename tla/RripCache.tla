----------------------------- MODULE RripCache -----------------------------
(***************************************************************************)
(* What the SRRIP and FURBYS configurations of the micro-op cache share: a *)
(* re-reference prediction value (RRPV) in every way.  Hits clear it, a    *)
(* line enters one below the maximum, freed lines go to the maximum, and   *)
(* the search for a victim ages the set until a way reaches it.            *)
(***************************************************************************)
EXTENDS UopCache, FiniteSetsExt

CONSTANT MaxRrpv   (* 2^RRIP_BIT_SIZE - 1 *)

ASSUME MaxRrpvAssumption == MaxRrpv \in Nat \ {0}

VARIABLE rrpv      (* entry->rrpv of each way *)

rripVars == <<entries, pc, cur, idx, saved, rrpv>>

TypeOKRrip ==
  /\ TypeOKCache
  /\ rrpv \in [Ways -> 0..MaxRrpv]

InitRrip ==
  /\ InitCache
  /\ rrpv = [w \in Ways |-> MaxRrpv]

-----------------------------------------------------------------------------
(* Mutant of Touch: only one of the lines that were hit. *)
TouchOne(S) == rrpv' = [w \in Ways |-> IF IsFirst(w, S) THEN 0 ELSE rrpv[w]]

Touch(S) == rrpv' = [w \in Ways |-> IF w \in S THEN 0 ELSE rrpv[w]]

(* cache_access_all, for a lookup that hits. *)
Hit(a) ==
  /\ pc = "idle"
  /\ HitWays(entries, a) # {}
  /\ Touch(HitWays(entries, a))
  /\ UNCHANGED <<entries, pc, cur, idx, saved>>

(* pw_insert up to its first loop.  A PW that is already there counts as   *)
(* hit; cache_invalidate_all also sets the values of the lines it frees.   *)
PwInsert(p, loop) ==
  IF p.lines > Assoc
  THEN UNCHANGED <<entries, pc, cur, idx, rrpv>>
  ELSE IF SameWindowWays(p) # {}
  THEN Touch(SameWindowWays(p)) /\ UNCHANGED <<entries, pc, cur, idx>>
  ELSE /\ BeginInsertion(p, loop)
       /\ rrpv' = [w \in Ways |->
                     IF Holds(entries, w, p.first) THEN MaxRrpv ELSE rrpv[w]]

(* The instruction cache replaces line l; the values of the freed ways are *)
(* left as they are.                                                       *)
ICacheReplaces(l) ==
  /\ pc = "idle"
  /\ \E w \in Ways : InICacheLine(entries, w, l)
  /\ entries' = DropICacheLine(entries, l)
  /\ UNCHANGED <<pc, cur, idx, saved, rrpv>>

-----------------------------------------------------------------------------
(* The insertion loop: find_repl_entry, then the write of the line. *)

(* A free way is taken first. *)
FillFreeWay ==
  /\ pc = "insert"
  /\ \E w \in Ways :
       /\ IsFirst(w, FreeWays(entries))
       /\ entries' = Place(entries, w, cur, idx)
       /\ rrpv' = [rrpv EXCEPT ![w] = MaxRrpv - 1]
  /\ Advance
  /\ UNCHANGED saved

AgedOut(S) == {w \in S : rrpv[w] = MaxRrpv}

(* Mutant of Age: the values saturate one below the maximum. *)
AgeShort(S) ==
  rrpv' = [w \in Ways |-> IF w \in S /\ rrpv[w] + 1 < MaxRrpv
                         THEN rrpv[w] + 1 ELSE rrpv[w]]

Age(S) == rrpv' = [w \in Ways |-> IF w \in S THEN rrpv[w] + 1 ELSE rrpv[w]]

(* The way w takes the line and the rest of its PW is invalidated.  The    *)
(* selection has already set its value to MaxRrpv - 1, as the write of the *)
(* line does again.                                                        *)
ReplaceWay(w) ==
  /\ entries' = Place(entries, w, cur, idx)
  /\ rrpv' = [v \in Ways |->
                IF v \in Wiped(entries, w, cur, idx) THEN MaxRrpv
                ELSE IF v = w THEN MaxRrpv - 1 ELSE rrpv[v]]
  /\ Advance
  /\ UNCHANGED saved

(* The REPL_SRRIP search: the first way at the maximum, or everything but  *)
(* the PW's own lines gets older.                                          *)
SelectAgedOut ==
  /\ FreeWays(entries) = {}
  /\ \E w \in Ways : IsFirst(w, AgedOut(Ways)) /\ ReplaceWay(w)

(* Mutant of AgeOthers: the PW's own lines age too. *)
AgeAll ==
  /\ FreeWays(entries) = {}
  /\ AgedOut(Ways) = {}
  /\ Age(Ways)
  /\ UNCHANGED <<entries, pc, cur, idx, saved>>

AgeOthers ==
  /\ FreeWays(entries) = {}
  /\ AgedOut(Ways) = {}
  /\ Age(OtherWays)
  /\ UNCHANGED <<entries, pc, cur, idx, saved>>

-----------------------------------------------------------------------------
(* What keeps the PW's own lines from being selected: while it is inserted *)
(* they have the insertion value, which aging does not touch.              *)
OwnLinesFresh == pc # "idle" => \A w \in OwnWays : rrpv[w] = MaxRrpv - 1

(* The inductive invariant of an insertion that is guided by RRPVs,        *)
(* however ways are freed, and with it that whole PWs stay whole.          *)
RripSetInv == TypeOKRrip /\ SetInv /\ OwnLinesFresh

RripInv == RripSetInv /\ OthersWhole

(* How often the ways of S have to age until one of them is at the maximum. *)
PassesLeft(S) == Min({MaxRrpv - rrpv[w] : w \in S})
=============================================================================
