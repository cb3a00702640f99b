------------------------- MODULE FurbysCacheProofs -------------------------
(***************************************************************************)
(* The FURBYS configuration, for every associativity, set of prediction    *)
(* windows, profile, bypass map, bypass rate and number of locks: the      *)
(* invariants of the set, the ASSERTs of find_repl_entry, and that no      *)
(* insertion evicts its own lines.                                         *)
(***************************************************************************)
EXTENDS FurbysCache, UopCacheProofs

-----------------------------------------------------------------------------
(* The steps of RripCache: each preserves RripSetInv, and that all other   *)
(* PWs are whole if they are.                                              *)

(* The initial set satisfies the invariant. *)
LEMMA RripInvInit ==
  ASSUME InitRrip
  PROVE  RripInv
  <1>1. CacheInv
    BY CacheInvInit DEF InitRrip
  <1> QED
    BY <1>1, MaxRrpvAssumption
    DEF InitRrip, InitCache, TypeOKRrip, OwnLinesFresh, RripInv, RripSetInv, CacheInv, SetInv

(* The values may change in any way where the PW's own lines keep theirs.  *)
LEMMA ValuesPreserve ==
  ASSUME RripSetInv, UNCHANGED <<entries, pc, cur, idx>>,
         saved' \in [Starts -> Windows \cup {NoWindow}], rrpv' \in [Ways -> 0..MaxRrpv],
         pc # "idle" => \A w \in OwnWays : rrpv'[w] = rrpv[w]
  PROVE  RripSetInv' /\ (OthersWhole => OthersWhole')
  <1>1. SetInv' /\ (OthersWhole => OthersWhole')
    BY SearchPreserves DEF RripSetInv, SetInv, TypeOKCache
  <1>2. OwnWays' = OwnWays
    BY DEF OwnWays, HitWays, Holds, Valid
  <1> QED
    BY <1>1, <1>2 DEF RripSetInv, TypeOKRrip, SetInv, OwnLinesFresh

(* pw_insert up to its first loop, in each of its three outcomes. *)
LEMMA PwInsertPreserves ==
  ASSUME RripSetInv, pc = "idle", NEW p \in Windows, NEW loop \in {"room", "insert"},
         PwInsert(p, loop), saved' \in [Starts -> Windows \cup {NoWindow}]
  PROVE  RripSetInv' /\ (OthersWhole => OthersWhole')
  <1>1. SetInv /\ rrpv \in [Ways -> 0..MaxRrpv]
    BY DEF RripSetInv, TypeOKRrip
  <1>2. CASE p.lines > Assoc \/ SameWindowWays(p) # {}
    <2>1. UNCHANGED <<entries, pc, cur, idx>> /\ rrpv' \in [Ways -> 0..MaxRrpv]
      BY <1>1, <1>2, MaxRrpvAssumption DEF PwInsert, Touch
    <2> QED
      BY <2>1, ValuesPreserve
  <1>3. CASE ~(p.lines > Assoc \/ SameWindowWays(p) # {})
    <2>1. BeginInsertion(p, loop) /\ rrpv' \in [Ways -> 0..MaxRrpv]
      BY <1>1, <1>3, MaxRrpvAssumption DEF PwInsert
    <2>2. p.lines <= Assoc
      BY <1>3, WindowFields, AssocAssumption
    <2>3. SetInv' /\ (OthersWhole => OthersWhole')
      BY <1>1, <2>1, <2>2, BeginPreserves
    <2>4. OwnWays' = {}
      BY <2>1, BeginLeavesNoOwn
    <2> QED
      BY <2>1, <2>3, <2>4 DEF RripSetInv, TypeOKRrip, SetInv, OwnLinesFresh
  <1> QED
    BY <1>2, <1>3

(* The instruction cache replaces a line between two insertions. *)
LEMMA ICacheReplacesPreserves ==
  ASSUME RripSetInv, NEW l, ICacheReplaces(l)
  PROVE  RripSetInv' /\ (OthersWhole => OthersWhole')
  <1>1. SetInv' /\ (OthersWhole => OthersWhole')
    BY DropPreserves DEF ICacheReplaces, RripSetInv
  <1> QED
    BY <1>1 DEF ICacheReplaces, RripSetInv, TypeOKRrip, SetInv, OwnLinesFresh

(* A way that no line of the PW holds takes the next one. *)
LEMMA PlaceFreshPreserves ==
  ASSUME RripSetInv, pc # "idle", NEW w \in Ways, w \notin OwnWays,
         entries' = Place(entries, w, cur, idx), Advance, saved' = saved,
         rrpv' \in [Ways -> 0..MaxRrpv], rrpv'[w] = MaxRrpv - 1,
         \A v \in OwnWays : rrpv'[v] = rrpv[v]
  PROVE  RripSetInv' /\ (OthersWhole => OthersWhole')
  <1>1. SetInv' /\ (OthersWhole => OthersWhole')
    BY PlacePreserves DEF RripSetInv
  <1>2. ASSUME pc' # "idle", NEW v \in OwnWays', v # w
        PROVE  v \in OwnWays
    BY <1>2, OwnWaysGrow DEF Advance, RripSetInv, SetInv, OwnPrefix
  <1> QED
    BY <1>1, <1>2 DEF RripSetInv, TypeOKRrip, SetInv, OwnLinesFresh

(* A free way is no way of the PW. *)
LEMMA FillFreeWayPreserves ==
  ASSUME RripSetInv, FillFreeWay
  PROVE  RripSetInv' /\ (OthersWhole => OthersWhole')
  <1>1. PICK w \in Ways : /\ w \notin OwnWays
                          /\ entries' = Place(entries, w, cur, idx)
                          /\ rrpv' = [rrpv EXCEPT ![w] = MaxRrpv - 1]
    BY DEF FillFreeWay, IsFirst, FreeWays, OwnWays, HitWays, Holds
  <1>2. rrpv \in [Ways -> 0..MaxRrpv]
    BY DEF RripSetInv, TypeOKRrip
  <1>3. /\ rrpv' \in [Ways -> 0..MaxRrpv]
        /\ rrpv'[w] = MaxRrpv - 1
        /\ \A v \in OwnWays : rrpv'[v] = rrpv[v]
    BY <1>1, <1>2, MaxRrpvAssumption DEF OwnWays, HitWays
  <1> QED
    BY <1>1, <1>3, PlaceFreshPreserves DEF FillFreeWay

(* Aged-out ways do not belong to the PW that is being inserted. *)
LEMMA AgedOutIsOther ==
  ASSUME RripSetInv, pc # "idle", NEW w \in Ways, rrpv[w] = MaxRrpv
  PROVE  w \notin OwnWays
  BY MaxRrpvAssumption DEF RripSetInv, OwnLinesFresh

(* An aged-out way takes the next line and the rest of its PW goes. *)
LEMMA ReplaceWayPreserves ==
  ASSUME RripSetInv, pc # "idle", NEW w \in Ways, rrpv[w] = MaxRrpv, ReplaceWay(w)
  PROVE  RripSetInv' /\ (OthersWhole => OthersWhole')
  <1>1. w \notin OwnWays
    BY AgedOutIsOther
  <1>2. rrpv \in [Ways -> 0..MaxRrpv]
    BY DEF RripSetInv, TypeOKRrip
  <1>3. rrpv' = [v \in Ways |->
                   IF v \in Wiped(entries, w, cur, idx) THEN MaxRrpv
                   ELSE IF v = w THEN MaxRrpv - 1 ELSE rrpv[v]]
    BY DEF ReplaceWay
  <1>4. \A v \in Wiped(entries, w, cur, idx) : v # w /\ v \notin OwnWays
    BY <1>1, WipedIsOther DEF RripSetInv, SetInv
  <1>5. /\ rrpv' \in [Ways -> 0..MaxRrpv]
        /\ rrpv'[w] = MaxRrpv - 1
        /\ \A v \in OwnWays : rrpv'[v] = rrpv[v]
    BY <1>1, <1>2, <1>3, <1>4, MaxRrpvAssumption DEF OwnWays, HitWays
  <1> QED
    BY <1>1, <1>5, PlaceFreshPreserves DEF ReplaceWay

(* A search that finds no aged-out way ages ways of other PWs. *)
LEMMA AgePreserves ==
  ASSUME RripSetInv, pc # "idle", NEW S \in SUBSET OtherWays, AgedOut(S) = {}, Age(S),
         UNCHANGED <<entries, pc, cur, idx, saved>>
  PROVE  RripSetInv' /\ (OthersWhole => OthersWhole')
  <1>1. /\ rrpv \in [Ways -> 0..MaxRrpv] /\ \A w \in S : rrpv[w] # MaxRrpv
        /\ saved \in [Starts -> Windows \cup {NoWindow}]
    BY DEF RripSetInv, SetInv, TypeOKRrip, TypeOKCache, AgedOut
  <1>2. rrpv' \in [Ways -> 0..MaxRrpv]
    BY <1>1, MaxRrpvAssumption DEF Age
  <1>3. \A w \in OwnWays : rrpv'[w] = rrpv[w]
    BY DEF Age, OtherWays, OwnWays, HitWays
  <1> QED
    BY <1>1, <1>2, <1>3, ValuesPreserve

-----------------------------------------------------------------------------
(* The initial state satisfies the inductive invariant. *)
LEMMA InvInit == Init => Inv
  <1> SUFFICES ASSUME Init
               PROVE  Inv
    OBVIOUS
  <1>1. RripInv
    BY RripInvInit DEF Init
  <1>2. chosen \in [1..RemoveLock -> Ways \cup {NoWay}]
    BY DEF Init
  <1>3. DegradesByLock
    BY DEF Init, InitRrip, InitCache, DegradesByLock
  <1> QED
    BY <1>1, <1>2, <1>3 DEF Inv, TypeOK, RripInv, RripSetInv

(* The list of replaced ways stays one. *)
LEMMA RememberTypeOK ==
  ASSUME TypeOK, NEW w \in Ways, Remember(w)
  PROVE  chosen' \in [1..RemoveLock -> Ways \cup {NoWay}]
  <1>1. \A i \in 1..RemoveLock : i # 1 => i - 1 \in 1..RemoveLock
    BY RemoveLockAssumption
  <1> QED
    BY <1>1 DEF TypeOK, Remember

(* What is lightest and locked depends on the lines, the PW and the list   *)
(* of replaced ways only.                                                  *)
LEMMA LightestUnchanged ==
  ASSUME UNCHANGED <<entries, cur, chosen>>, LightestIsLocked
  PROVE  LightestIsLocked'
  BY DEF LightestIsLocked, IsLightest, OtherWays, OwnWays, HitWays, Holds, Valid,
         WeightAt, Locked

(* An aged-out way that weighs as little as the lightest line of another   *)
(* PW is such a line.                                                      *)
LEMMA AgedOutIsLightest ==
  ASSUME RripSetInv, pc # "idle", NEW w \in AgedOut(LightestWays)
  PROVE  w \in Ways \ OwnWays /\ IsLightest(w)
  <1>1. w \in LightestWays /\ w \in Ways /\ rrpv[w] = MaxRrpv
    BY DEF AgedOut, LightestWays
  <1>2. w \in OtherWays
    BY <1>1, AgedOutIsOther DEF OtherWays
  <1> QED
    BY <1>1, <1>2 DEF LightestWays, IsLightest, OtherWays

(* Every step preserves what the two searches rely on. *)
LEMMA RripInvNext ==
  ASSUME TypeOK, RripInv, [Next]_vars
  PROVE  TypeOK' /\ RripInv'
  <1> DEFINE ChosenOK == chosen \in [1..RemoveLock -> Ways \cup {NoWay}]
             Goal     == RripInv' /\ ChosenOK'
  <1> SUFFICES Goal
    BY DEF TypeOK, RripInv, RripSetInv
  <1>1. /\ ChosenOK /\ RripSetInv /\ OthersWhole /\ TypeOKRrip /\ SetInv
        /\ saved \in [Starts -> Windows \cup {NoWindow}]
    BY DEF RripInv, RripSetInv, SetInv, TypeOKCache, TypeOK
  <1>2. ASSUME RripSetInv' /\ (OthersWhole => OthersWhole'), UNCHANGED chosen
        PROVE  Goal
    BY <1>1, <1>2 DEF RripInv
  <1>3. ASSUME NEW a \in Starts, Lookup(a)
        PROVE  Goal
    <2>1. /\ pc = "idle" /\ UNCHANGED <<entries, pc, cur, idx, saved, chosen>>
          /\ rrpv' \in [Ways -> 0..MaxRrpv]
      BY <1>1, <1>3, MaxRrpvAssumption DEF Lookup, Hit, Touch, TypeOKRrip
    <2> QED
      BY <1>1, <1>2, <2>1, ValuesPreserve
  <1>4. ASSUME NEW p \in Windows, EndAccumulate(p)
        PROVE  Goal
    <2>1. pc = "idle" /\ SavePW(p) /\ PwInsert(p, "insert") /\ UNCHANGED chosen
      BY <1>4 DEF EndAccumulate
    <2>2. saved' \in [Starts -> Windows \cup {NoWindow}]
      BY <1>1, <2>1 DEF SavePW
    <2> QED
      BY <1>1, <1>2, <2>1, <2>2, PwInsertPreserves
  <1>5. ASSUME NEW a \in Starts, FillPrefetch(a)
        PROVE  Goal
    <2>1. pc = "idle" /\ saved[a] \in Windows /\ PwInsert(saved[a], "insert")
          /\ UNCHANGED <<saved, chosen>>
      BY <1>1, <1>5 DEF FillPrefetch
    <2> QED
      BY <1>1, <1>2, <2>1, PwInsertPreserves
  <1>6. ASSUME NEW l \in ICacheLines, ICacheEvict(l)
        PROVE  Goal
    BY <1>1, <1>2, <1>6, ICacheReplacesPreserves DEF ICacheEvict
  <1>7. CASE InsertInFreeWay
    BY <1>1, <1>2, <1>7, FillFreeWayPreserves DEF InsertInFreeWay
  <1>8. CASE SelectLightest
    <2>1. PICK w \in Ways :
            /\ pc = "insert" /\ IsFirst(w, AgedOut(LightestWays))
            /\ \/ ReplaceWay(w) /\ Remember(w)
               \/ /\ pc' = "degrade"
                  /\ rrpv' = [rrpv EXCEPT ![w] = MaxRrpv - 1]
                  /\ UNCHANGED <<entries, cur, idx, saved, chosen>>
      BY <1>8 DEF SelectLightest
    <2>2. rrpv[w] = MaxRrpv
      BY <2>1 DEF IsFirst, AgedOut
    <2>3. CASE ReplaceWay(w) /\ Remember(w)
      BY <1>1, <2>1, <2>2, <2>3, ReplaceWayPreserves, RememberTypeOK DEF RripInv
    <2>4. CASE /\ pc' = "degrade"
               /\ rrpv' = [rrpv EXCEPT ![w] = MaxRrpv - 1]
               /\ UNCHANGED <<entries, cur, idx, saved, chosen>>
      <3>1. SetInv' /\ (OthersWhole => OthersWhole')
        BY <1>1, <2>1, <2>4, SearchPreserves DEF SetInv, TypeOKCache
      <3>2. TypeOKRrip'
        BY <1>1, <2>4, <3>1, MaxRrpvAssumption DEF TypeOKRrip, SetInv
      <3>3. OwnLinesFresh'
        <4>1. OwnWays' = OwnWays /\ w \notin OwnWays
          BY <1>1, <2>1, <2>2, <2>4, AgedOutIsOther
          DEF OwnWays, HitWays, Holds, Valid
        <4>2. \A v \in OwnWays : rrpv[v] = MaxRrpv - 1
          BY <1>1, <2>1 DEF RripSetInv, OwnLinesFresh
        <4>3. \A v \in OwnWays : rrpv'[v] = rrpv[v]
          BY <1>1, <2>4, <4>1 DEF TypeOKRrip, OwnWays, HitWays
        <4> QED
          BY <4>1, <4>2, <4>3 DEF OwnLinesFresh
      <3> QED
        BY <1>2, <2>4, <3>1, <3>2, <3>3 DEF RripSetInv
    <2> QED
      BY <2>1, <2>3, <2>4
  <1>9. CASE AgeLightest
    <2>1. /\ pc # "idle" /\ AgedOut(LightestWays \ OwnWays) = {}
          /\ Age(LightestWays \ OwnWays)
          /\ UNCHANGED <<entries, pc, cur, idx, saved, chosen>>
      BY <1>9 DEF AgeLightest, AgedOut
    <2>2. LightestWays \ OwnWays \in SUBSET OtherWays
      BY DEF LightestWays, OtherWays
    <2> QED
      BY <1>1, <1>2, <2>1, <2>2, AgePreserves
  <1>10. CASE DegradeSelect
    <2>1. PICK w \in Ways : IsFirst(w, AgedOut(Ways)) /\ ReplaceWay(w)
      BY <1>10 DEF DegradeSelect, SelectAgedOut
    <2>2. PICK v \in Ways : IsFirst(v, AgedOut(Ways)) /\ Remember(v)
      BY <1>10 DEF DegradeSelect
    <2>3. rrpv[w] = MaxRrpv /\ pc # "idle"
      BY <1>10, <2>1 DEF DegradeSelect, IsFirst, AgedOut
    <2> QED
      BY <1>1, <2>1, <2>2, <2>3, ReplaceWayPreserves, RememberTypeOK DEF RripInv
  <1>11. CASE DegradeAge
    <2>1. /\ pc # "idle" /\ AgedOut(OtherWays) = {} /\ Age(OtherWays)
          /\ UNCHANGED <<entries, pc, cur, idx, saved, chosen>>
      BY <1>11 DEF DegradeAge, AgeOthers, AgedOut, OtherWays
    <2> QED
      BY <1>1, <1>2, <2>1, AgePreserves
  <1>12. CASE UNCHANGED vars
    BY <1>1, <1>2, <1>12, ValuesPreserve DEF vars, TypeOKRrip
  <1> QED
    BY <1>3, <1>4, <1>5, <1>6, <1>7, <1>8, <1>9, <1>10, <1>11, <1>12
    DEF Next, InsertionStep

(* The degraded search is entered on a locked way and keeps the set and    *)
(* the locks until it ends.                                                *)
LEMMA DegradesByLockNext ==
  ASSUME RripSetInv, DegradesByLock, [Next]_vars
  PROVE  DegradesByLock'
  <1> SUFFICES ASSUME pc' = "degrade"
               PROVE  LightestIsLocked'
    BY DEF DegradesByLock
  <1>1. CASE pc = "degrade" /\ UNCHANGED <<entries, cur, chosen>>
    BY <1>1, LightestUnchanged DEF DegradesByLock
  <1>2. CASE SelectLightest
    <2>1. PICK w \in Ways :
            /\ IsFirst(w, AgedOut(LightestWays))
            /\ \/ ReplaceWay(w)
               \/ Locked(w) /\ UNCHANGED <<entries, cur, chosen>>
      BY <1>2 DEF SelectLightest
    <2>2. ~ReplaceWay(w)
      BY DEF ReplaceWay, Advance
    <2>3. IsLightest(w)
      BY <1>2, <2>1, AgedOutIsLightest DEF IsFirst, SelectLightest
    <2>4. LightestIsLocked /\ UNCHANGED <<entries, cur, chosen>>
      BY <2>1, <2>2, <2>3 DEF LightestIsLocked
    <2> QED
      BY <2>4, LightestUnchanged
  <1>3. CASE DegradeAge \/ AgeLightest \/ UNCHANGED vars
    BY <1>1, <1>3 DEF DegradeAge, AgeOthers, AgeLightest, vars
  <1>4. CASE InsertInFreeWay \/ DegradeSelect
    BY <1>4 DEF InsertInFreeWay, FillFreeWay, DegradeSelect, SelectAgedOut, ReplaceWay, Advance
  <1>5. CASE \/ \E a \in Starts : Lookup(a) \/ FillPrefetch(a)
             \/ \E p \in Windows : EndAccumulate(p)
             \/ \E l \in ICacheLines : ICacheEvict(l)
    BY <1>5 DEF Lookup, Hit, FillPrefetch, EndAccumulate, PwInsert, BeginInsertion,
                ICacheEvict, ICacheReplaces
  <1> QED
    BY <1>2, <1>3, <1>4, <1>5 DEF Next, InsertionStep

(* Every step preserves the inductive invariant. *)
LEMMA InvNext == Inv /\ [Next]_vars => Inv'
  BY RripInvNext, DegradesByLockNext DEF Inv, RripInv

(* The inductive invariant holds in every reachable state. *)
THEOREM Invariance == Spec => []Inv
  <1>1. Init => Inv
    BY InvInit
  <1>2. Inv /\ [Next]_vars => Inv'
    BY InvNext
  <1> QED
    BY <1>1, <1>2, PTL DEF Spec

-----------------------------------------------------------------------------
(* Every variable keeps its type. *)
THEOREM TypeCorrect == Spec => []TypeOK
  BY Invariance, PTL DEF Inv

(* A start address has the lines of one PW only. *)
THEOREM OneWindowPerStartHolds == Spec => []OneWindowPerStart
  <1>1. Inv => OneWindowPerStart
    BY DEF Inv, RripInv, RripSetInv, SetInv
  <1> QED
    BY <1>1, Invariance, PTL

(* No line is stored in two ways. *)
THEOREM NoDuplicateLineHolds == Spec => []NoDuplicateLine
  <1>1. Inv => NoDuplicateLine
    BY DEF Inv, RripInv, RripSetInv, SetInv
  <1> QED
    BY <1>1, Invariance, PTL

(* Between insertions every PW of the set is there with all of its lines:  *)
(* whatever is replaced, locked, bypassed or dropped, nothing is saved     *)
(* partially.                                                              *)
THEOREM WholeWindowsHolds == Spec => []WholeWindows
  <1>1. Inv => WholeWindows
    BY DEF Inv, RripInv, OthersWhole, WholeWindows
  <1> QED
    BY <1>1, Invariance, PTL

(* None of the ASSERTs of the REPL_PMC search can fail. *)
THEOREM CodeAssertionsHold == Spec => []CodeAssertions
  <1>1. Inv => CodeAssertions
    <2> SUFFICES ASSUME Inv
                 PROVE  CodeAssertions
      OBVIOUS
    <2>1. SetInv /\ OwnLinesFresh
      BY DEF Inv, RripInv, RripSetInv
    <2>2. pc # "idle" => OtherWays # {}
      BY <2>1, OtherWaysExist
    <2>3. pc # "idle" /\ OwnWays # {} => idx > 0
      <3> SUFFICES ASSUME pc # "idle", NEW w \in OwnWays
                   PROVE  idx > 0
        OBVIOUS
      <3>1. entries[w] \in Line /\ idx \in Nat
        BY <2>1 DEF SetInv, TypeOKCache, OwnWays, HitWays, Holds, Valid
      <3>2. entries[w].idx < idx
        BY <2>1 DEF SetInv, OwnPrefix
      <3> QED
        BY <3>1, <3>2 DEF Line
    <2> QED
      BY <2>1, <2>2, <2>3 DEF CodeAssertions, OwnLinesFresh
  <1> QED
    BY <1>1, Invariance, PTL

-----------------------------------------------------------------------------
(* A step that places a line of cur in a way of no line of cur, and that   *)
(* takes it from one of the lightest PWs unless one of those is locked.    *)
PlacesByWeight ==
  /\ pc # "idle"
  /\ \E w \in Ways \ OwnWays :
       /\ entries' = Place(entries, w, cur, idx)
       /\ \/ ~Valid(entries, w)
          \/ IsLightest(w)
          \/ LightestIsLocked
  /\ Advance

(* Seen from the set there are no other steps. *)
LEMMA StepKinds ==
  ASSUME Inv, [Next]_vars
  PROVE  PlacesByWeight \/ PlacesNothing
  <1>1. entries \in [Ways -> Line \cup {Invalid}] /\ RripSetInv
    BY DEF Inv, RripInv, RripSetInv, SetInv, TypeOKCache
  <1>2. CASE \/ \E a \in Starts : Lookup(a) \/ FillPrefetch(a)
             \/ \E p \in Windows : EndAccumulate(p)
             \/ \E l \in ICacheLines : ICacheEvict(l)
    <2>1. pc = "idle"
      BY <1>2 DEF Lookup, Hit, FillPrefetch, EndAccumulate, ICacheEvict, ICacheReplaces
    <2>2. \/ entries' = entries
          \/ \E a : entries' = InvalidateAll(entries, a)
          \/ \E l : entries' = DropICacheLine(entries, l)
      BY <1>2 DEF Lookup, Hit, FillPrefetch, EndAccumulate, PwInsert, BeginInsertion,
                  ICacheEvict, ICacheReplaces
    <2> QED
      BY <2>1, <2>2 DEF PlacesNothing, InvalidateAll, DropICacheLine
  <1>3. CASE InsertInFreeWay
    <2>1. PICK w \in Ways : w \in FreeWays(entries) /\ entries' = Place(entries, w, cur, idx)
      BY <1>3 DEF InsertInFreeWay, FillFreeWay, IsFirst
    <2>2. ~Valid(entries, w) /\ w \notin OwnWays
      BY <2>1 DEF FreeWays, OwnWays, HitWays, Holds
    <2>3. pc # "idle" /\ Advance
      BY <1>3 DEF InsertInFreeWay, FillFreeWay
    <2> QED
      BY <2>1, <2>2, <2>3 DEF PlacesByWeight
  <1>4. CASE SelectLightest
    <2>1. pc # "idle"
      BY <1>4 DEF SelectLightest
    <2>2. PICK w \in Ways :
            /\ IsFirst(w, AgedOut(LightestWays))
            /\ ReplaceWay(w) \/ (pc' = "degrade" /\ UNCHANGED <<entries, cur>>)
      BY <1>4 DEF SelectLightest
    <2>3. w \in Ways \ OwnWays /\ IsLightest(w)
      BY <1>1, <2>1, <2>2, AgedOutIsLightest DEF IsFirst
    <2> QED
      BY <2>1, <2>2, <2>3 DEF ReplaceWay, PlacesByWeight, PlacesNothing
  <1>5. CASE DegradeSelect
    <2>1. pc = "degrade" /\ LightestIsLocked
      BY <1>5 DEF DegradeSelect, Inv, DegradesByLock
    <2>2. PICK w \in Ways : IsFirst(w, AgedOut(Ways)) /\ ReplaceWay(w)
      BY <1>5 DEF DegradeSelect, SelectAgedOut
    <2>3. w \notin OwnWays
      BY <1>1, <2>1, <2>2, AgedOutIsOther DEF IsFirst, AgedOut
    <2> QED
      BY <2>1, <2>2, <2>3 DEF ReplaceWay, PlacesByWeight
  <1>6. CASE AgeLightest \/ DegradeAge
    BY <1>6 DEF AgeLightest, DegradeAge, AgeOthers, PlacesNothing
  <1>7. CASE UNCHANGED vars
    BY <1>7 DEF vars, PlacesNothing
  <1> QED
    BY <1>2, <1>3, <1>4, <1>5, <1>6, <1>7 DEF Next, InsertionStep

(* An insertion never evicts a line that it has itself placed. *)
THEOREM OwnLinesStayHolds == Spec => OwnLinesStay
  <1>1. Inv /\ [Next]_vars =>
          [pc # "idle" => \A w \in OwnWays : entries'[w] = entries[w]]_cacheVars
    <2> SUFFICES ASSUME Inv, [Next]_vars, pc # "idle", NEW w \in OwnWays
                 PROVE  entries'[w] = entries[w]
      OBVIOUS
    <2>1. SetInv /\ (PlacesLine \/ PlacesNothing)
      BY StepKinds DEF Inv, RripInv, RripSetInv, PlacesByWeight, PlacesLine
    <2> QED
      BY <2>1, StepKeepsOwn
  <1> QED
    BY <1>1, Invariance, PTL DEF Spec, OwnLinesStay

(* An insertion that has ended has brought in the whole PW. *)
THEOREM InsertionCompletesHolds == Spec => InsertionCompletes
  <1>1. Inv /\ [Next]_vars =>
          [pc # "idle" /\ pc' = "idle" => cur \in Resident(entries')]_cacheVars
    <2> SUFFICES ASSUME Inv, [Next]_vars, pc # "idle", pc' = "idle"
                 PROVE  cur \in Resident(entries')
      OBVIOUS
    <2>1. SetInv /\ (PlacesLine \/ PlacesNothing)
      BY StepKinds DEF Inv, RripInv, RripSetInv, PlacesByWeight, PlacesLine
    <2> QED
      BY <2>1, StepCompletes
  <1> QED
    BY <1>1, Invariance, PTL DEF Spec, InsertionCompletes

(* A line is taken from a PW that is not the lightest only when a way of   *)
(* the lightest weight is locked.                                          *)
THEOREM EvictsLightestHolds == Spec => EvictsLightestUnlessLocked
  <1>1. Inv /\ [Next]_vars =>
          [\A w \in Ways :
             (pc # "idle" /\ Valid(entries, w) /\ entries'[w] = [pw |-> cur, idx |-> idx])
               => IsLightest(w) \/ LightestIsLocked]_vars
    <2> SUFFICES ASSUME Inv, [Next]_vars, NEW w \in Ways, pc # "idle",
                        Valid(entries, w), entries'[w] = [pw |-> cur, idx |-> idx]
                 PROVE  IsLightest(w) \/ LightestIsLocked
      OBVIOUS
    <2>1. /\ TypeOKCache /\ cur \in Windows /\ idx \in Nat
          /\ \A v \in OwnWays : entries[v].idx < idx
      BY DEF Inv, RripInv, RripSetInv, SetInv, OwnPrefix, TypeOKCache
    <2>2. entries[w] # [pw |-> cur, idx |-> idx]
      <3> SUFFICES ASSUME entries[w] = [pw |-> cur, idx |-> idx]
                   PROVE  FALSE
        OBVIOUS
      <3>1. w \in OwnWays /\ entries[w].idx = idx
        BY DEF OwnWays, HitWays, Holds
      <3> QED
        BY <2>1, <3>1
    <2>3. [pw |-> cur, idx |-> idx] # Invalid
      BY <2>1, SentinelAssumption DEF Line
    <2>4. PlacesByWeight
      BY <2>2, StepKinds DEF PlacesNothing
    <2>5. PICK x \in Ways \ OwnWays :
            /\ entries' = Place(entries, x, cur, idx)
            /\ \/ ~Valid(entries, x)
               \/ IsLightest(x)
               \/ LightestIsLocked
      BY <2>4 DEF PlacesByWeight
    <2>6. x = w
      BY <2>1, <2>2, <2>3, <2>5, PlaceEffect
    <2> QED
      BY <2>5, <2>6
  <1> QED
    BY <1>1, Invariance, PTL DEF Spec, EvictsLightestUnlessLocked

(* A set without a free way has a lightest line of another PW. *)
LEMMA LightestExists ==
  ASSUME SetInv, pc # "idle", FreeWays(entries) = {}
  PROVE  LightestWays \ OwnWays # {}
  <1> DEFINE weights == {WeightAt(w) : w \in OtherWays}
  <1>1. \A w \in OtherWays : WeightAt(w) \in Nat
    BY WeightAssumption DEF SetInv, TypeOKCache, FreeWays, Valid, OtherWays, WeightAt, Line, Starts
  <1>2. weights # {}
    BY OtherWaysExist
  <1>3. Min(weights) \in weights /\ \A y \in weights : Min(weights) <= y
    BY <1>1, <1>2, MinIsLeast
  <1>4. PICK v \in OtherWays : \A u \in OtherWays : WeightAt(v) <= WeightAt(u)
    BY <1>3
  <1> QED
    BY <1>4 DEF LightestWays, OtherWays

(* The passes that a search needs. *)
LEMMA PassesLeftBounds ==
  ASSUME TypeOKRrip, NEW S \in SUBSET Ways, S # {}
  PROVE  PassesLeft(S) \in 0..MaxRrpv
  <1>1. Distance(MaxRrpv, S, rrpv) \in 0..MaxRrpv
    BY MaxRrpvAssumption, LeastDistance DEF TypeOKRrip
  <1> QED
    BY <1>1 DEF PassesLeft, Distance

(* What is left of the search for a way, before it degrades and after.     *)
SearchLeftInRange ==
  pc # "idle" =>
    SearchLeft \in (IF pc = "degrade" THEN 1..(MaxRrpv + 1)
                    ELSE (MaxRrpv + 2)..(2 * (MaxRrpv + 1)))

LEMMA SearchLeftBounds == Inv => SearchLeftInRange
  <1> SUFFICES ASSUME Inv, pc # "idle"
               PROVE  SearchLeftInRange
    BY DEF SearchLeftInRange
  <1>1. SetInv /\ TypeOKRrip
    BY DEF Inv, RripInv, RripSetInv
  <1>2. PassesLeft(OtherWays) \in 0..MaxRrpv
    BY <1>1, OtherWaysExist, PassesLeftBounds DEF OtherWays
  <1>3. FreeWays(entries) = {} => PassesLeft(LightestWays \ OwnWays) \in 0..MaxRrpv
    BY <1>1, LightestExists, PassesLeftBounds DEF LightestWays
  <1> QED
    BY <1>2, <1>3, MaxRrpvAssumption DEF SearchLeft, SearchLeftInRange

(* An aging pass brings the search one pass nearer to its end. *)
LEMMA PassIsNearer ==
  ASSUME TypeOKRrip, NEW S \in SUBSET Ways, S # {}, AgedOut(S) = {}, Age(S)
  PROVE  /\ PassesLeft(S) \in Nat \ {0}
         /\ Min({MaxRrpv - rrpv'[w] : w \in S}) = PassesLeft(S) - 1
  <1>1. /\ \A w \in S : rrpv[w] \in 0..MaxRrpv /\ rrpv[w] # MaxRrpv
        /\ \A w \in S : rrpv'[w] = rrpv[w] + 1
    BY DEF TypeOKRrip, AgedOut, Age
  <1>2. /\ Distance(MaxRrpv, S, rrpv) \in Nat \ {0}
        /\ Distance(MaxRrpv, S, rrpv') = Distance(MaxRrpv, S, rrpv) - 1
    BY <1>1, MaxRrpvAssumption, OnePassNearer
  <1> QED
    BY <1>2 DEF PassesLeft, Distance

(* An insertion takes at most 2 * (MaxRrpv + 1) steps for each way.        *)
THEOREM WorkIsBoundedHolds == Spec => []WorkIsBounded
  <1>1. Inv => WorkIsBounded
    <2> SUFFICES ASSUME Inv
                 PROVE  WorkIsBounded
      OBVIOUS
    <2> DEFINE perLine == 2 * (MaxRrpv + 1)
    <2>1. /\ SetInv /\ perLine \in Nat
          /\ pc # "idle" => SearchLeft \in 0..perLine
      BY SearchLeftBounds, MaxRrpvAssumption
      DEF SearchLeftInRange, Inv, RripInv, RripSetInv
    <2> HIDE DEF perLine
    <2>2. StepsLeft(perLine, SearchLeft) \in 0..(Assoc * perLine)
      BY <2>1, StepsAreBounded
    <2> QED
      BY <2>2 DEF WorkIsBounded, WorkLeft, perLine
  <1> QED
    BY <1>1, Invariance, PTL

(* No iteration of the loops of an insertion is in vain. *)
THEOREM InsertionProgressHolds == Spec => InsertionProgress
  <1>1. Inv /\ Inv' /\ [Next]_vars =>
          [pc # "idle" => WorkLeft' \in 0..(WorkLeft - 1)]_vars
    <2> SUFFICES ASSUME Inv, Inv', Next, pc # "idle"
                 PROVE  WorkLeft' \in 0..(WorkLeft - 1)
      OBVIOUS
    <2> DEFINE perLine == 2 * (MaxRrpv + 1)
    <2>1. SetInv /\ TypeOKRrip /\ RripSetInv
      BY DEF Inv, RripInv, RripSetInv
    <2>2. perLine \in Nat /\ MaxRrpv \in Nat \ {0}
      BY MaxRrpvAssumption
    <2>3. /\ SearchLeft \in Nat \ {0}
          /\ pc # "degrade" => SearchLeft >= MaxRrpv + 2
      BY <2>2, SearchLeftBounds DEF SearchLeftInRange
    <2>4. pc' # "idle" => /\ SearchLeft' \in 0..perLine
                          /\ pc' = "degrade" => SearchLeft' < MaxRrpv + 2
      <3>1. SearchLeftInRange'
        BY SearchLeftBounds, PTL
      <3> QED
        BY <2>2, <3>1 DEF SearchLeftInRange
    <2>5. /\ WorkLeft = StepsLeft(perLine, SearchLeft)
          /\ WorkLeft' = IF pc' = "idle" THEN 0
                         ELSE (cur'.lines - idx' - 1) * perLine + SearchLeft'
      BY DEF WorkLeft, StepsLeft
    <2> HIDE DEF perLine
    <2>6. ASSUME Advance
          PROVE  WorkLeft' \in 0..(WorkLeft - 1)
      BY <2>1, <2>2, <2>3, <2>4, <2>5, <2>6, AdvanceIsNearer
    <2>7. ASSUME UNCHANGED <<cur, idx>>, pc' # "idle", SearchLeft' < SearchLeft
          PROVE  WorkLeft' \in 0..(WorkLeft - 1)
      BY <2>1, <2>2, <2>3, <2>4, <2>5, <2>7, SearchIsNearer
    <2>8. CASE InsertInFreeWay \/ DegradeSelect
      BY <2>6, <2>8 DEF InsertInFreeWay, FillFreeWay, DegradeSelect, SelectAgedOut, ReplaceWay
    <2>9. CASE SelectLightest
      <3>1. \/ Advance
            \/ pc = "insert" /\ pc' = "degrade" /\ UNCHANGED <<cur, idx>>
        BY <2>9 DEF SelectLightest, ReplaceWay
      <3> QED
        BY <2>2, <2>3, <2>4, <2>6, <2>7, <3>1
    <2>10. CASE AgeLightest
      <3> DEFINE S == LightestWays \ OwnWays
      <3>1. /\ pc = "insert" /\ FreeWays(entries) = {} /\ Age(S)
            /\ UNCHANGED <<entries, pc, cur, idx>>
        BY <2>10 DEF AgeLightest
      <3>2. S \in SUBSET Ways /\ S # {} /\ AgedOut(S) = {}
        BY <2>1, <2>10, <3>1, LightestExists DEF AgeLightest, LightestWays, AgedOut
      <3>3. S' = S /\ FreeWays(entries)' = {}
        BY <3>1 DEF LightestWays, OtherWays, OwnWays, HitWays, Holds, Valid, WeightAt, FreeWays
      <3> HIDE DEF S
      <3>4. /\ PassesLeft(S) \in Nat \ {0}
            /\ PassesLeft(S)' = PassesLeft(S) - 1
        BY <2>1, <3>1, <3>2, <3>3, PassIsNearer DEF PassesLeft
      <3>5. /\ SearchLeft = MaxRrpv + 2 + PassesLeft(S)
            /\ SearchLeft' = MaxRrpv + 2 + PassesLeft(S)'
        BY <3>1, <3>3 DEF SearchLeft, S
      <3> QED
        BY <2>2, <2>7, <3>1, <3>4, <3>5
    <2>11. CASE DegradeAge
      <3>1. /\ pc = "degrade" /\ Age(OtherWays) /\ AgedOut(OtherWays) = {}
            /\ UNCHANGED <<entries, pc, cur, idx>>
        BY <2>11 DEF DegradeAge, AgeOthers, AgedOut, OtherWays
      <3>2. OtherWays \in SUBSET Ways /\ OtherWays # {}
        BY <2>1, OtherWaysExist DEF OtherWays
      <3>3. OtherWays' = OtherWays
        BY <3>1 DEF OtherWays, OwnWays, HitWays, Holds, Valid
      <3>4. /\ PassesLeft(OtherWays) \in Nat \ {0}
            /\ PassesLeft(OtherWays)' = PassesLeft(OtherWays) - 1
        BY <2>1, <3>1, <3>2, <3>3, PassIsNearer DEF PassesLeft
      <3>5. /\ SearchLeft = 1 + PassesLeft(OtherWays)
            /\ SearchLeft' = 1 + PassesLeft(OtherWays)'
        BY <3>1 DEF SearchLeft
      <3> QED
        BY <2>7, <3>1, <3>4, <3>5
    <2> QED
      BY <2>8, <2>9, <2>10, <2>11
      DEF Next, InsertionStep, Lookup, Hit, EndAccumulate, FillPrefetch, ICacheEvict,
          ICacheReplaces
  <1> QED
    BY <1>1, Invariance, PTL DEF Spec, InsertionProgress

(* What lookups can hit behaves like a WindowCache. *)
THEOREM Refinement == Spec => ImplementsWindowCache
  <1>1. Init => Promise!Init
    BY InitIsPromised DEF Init, InitRrip
  <1>2. Inv /\ Inv' /\ [Next]_vars => [Promise!Next]_Visible
    <2> SUFFICES ASSUME Inv, Inv', [Next]_vars
                 PROVE  [Promise!Next]_Visible
      OBVIOUS
    <2>1. CacheInv /\ CacheInv'
      BY DEF Inv, RripInv, RripSetInv, CacheInv
    <2>2. PlacesLine \/ PlacesNothing
      BY StepKinds DEF PlacesByWeight, PlacesLine
    <2> QED
      BY <2>1, <2>2, StepIsPromised
  <1> QED
    BY <1>1, <1>2, Invariance, PTL DEF Spec, ImplementsWindowCache, Promise!Spec
=============================================================================
