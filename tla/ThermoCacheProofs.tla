------------------------- MODULE ThermoCacheProofs --------------------------
(***************************************************************************)
(* Thermometer, for every associativity, set of prediction windows, table  *)
(* of weights and length of the run: a PW is whole or absent, the ASSERTs  *)
(* of the search for a victim hold, an insertion starts with a victim that *)
(* is no hotter than the new PW, and the set is a WindowCache.             *)
(***************************************************************************)
EXTENDS ThermoCache, UopCacheProofs

(* The initial state satisfies the inductive invariant. *)
LEMMA InvInit == Init => Inv
  <1> SUFFICES ASSUME Init
               PROVE  Inv
    OBVIOUS
  <1>1. CacheInv
    BY CacheInvInit DEF Init, InitStamp
  <1>2. pc = "idle"
    BY DEF Init, InitStamp, InitCache
  <1>3. TypeOK
    <2>1. TypeOKCache /\ 1 \in 1..MaxTime /\ uocPref \in BOOLEAN
      BY <1>1, StampAssumption DEF Init, InitStamp, CacheInv, SetInv
    <2>2. now = 1 /\ stage = "memory" /\ stamp \in [Ways -> 0..now]
      BY DEF Init, InitStamp
    <2> QED
      BY <2>1, <2>2 DEF TypeOK, TypeOKStamp
  <1> QED
    BY <1>1, <1>2, <1>3 DEF Inv, VictimIsKnown

-----------------------------------------------------------------------------
(* Weights. *)

(* The weight of a line is the weight of its PW, a natural number.         *)
LEMMA WeightsAreNat ==
  ASSUME TypeOKCache
  PROVE  /\ \A w \in Ways : Valid(entries, w) => WeightAt(w) \in Nat
         /\ \A p \in Windows : Weight[p.first] \in Nat
  BY WeightAssumption DEF TypeOKCache, Line, Starts, Valid, WeightAt

(* When should_insert lets a PW in, its first line finds a free way or     *)
(* meets a line that is no hotter.                                         *)
LEMMA AdmittedMeetsVictim ==
  ASSUME Inv, NEW p \in Windows, ShouldInsert(p), BeginInsertion(p, "insert")
  PROVE  VictimIsKnown'
  <1>1. entries' = InvalidateAll(entries, p.first) /\ cur' = p
    BY DEF BeginInsertion
  <1>2. CASE Cardinality(FreeWays(entries')) >= p.lines
    <2>1. p.lines \in Nat \ {0}
      BY WindowFields
    <2>2. FreeWays(entries') # {}
      <3> SUFFICES ASSUME FreeWays(entries') = {}
                   PROVE  FALSE
        OBVIOUS
      <3> QED
        BY <1>2, <2>1, FS_EmptySet
    <2> QED
      BY <2>2 DEF VictimIsKnown
  <1>3. CASE \E w \in Ways : Valid(entries', w) /\ WeightAt(w) <= Weight[p.first]
    <2>1. PICK w \in Ways : Valid(entries', w) /\ WeightAt(w) <= Weight[p.first]
      BY <1>3
    <2>2. entries'[w] = entries[w]
      BY <1>1, <2>1 DEF InvalidateAll, Valid
    <2> QED
      BY <1>1, <2>1, <2>2 DEF VictimIsKnown, WeightAt
  <1> QED
    BY <1>1, <1>2, <1>3 DEF ShouldInsert

-----------------------------------------------------------------------------
(* Steps that change neither the set nor the place reached in the loop.    *)
LEMMA QuietKeepsInv ==
  ASSUME Inv, UNCHANGED <<entries, pc, cur, idx>>, TypeOK'
  PROVE  Inv'
  <1>1. CacheInv'
    BY SearchPreserves DEF Inv, CacheInv, TypeOK, TypeOKStamp, TypeOKCache
  <1>2. VictimIsKnown'
    BY DEF Inv, VictimIsKnown, FreeWays, Valid, WeightAt
  <1> QED
    BY <1>1, <1>2 DEF Inv

(* Outside of an insertion, no stamp but the current cycle is given.       *)
LEMMA TouchKeepsType ==
  ASSUME TypeOK, NEW S, Touch(S) \/ stamp' = stamp
  PROVE  stamp' \in [Ways -> 0..now]
  <1>1. stamp \in [Ways -> 0..now] /\ now \in 0..now
    BY DEF TypeOK, TypeOKStamp
  <1> QED
    BY <1>1 DEF Touch

LEMMA LookupKeepsInv ==
  ASSUME Inv, NEW a \in Starts, Lookup(a)
  PROVE  Inv'
  <1>1. /\ Touch(HitWays(entries, a)) /\ stage' = "fetch"
        /\ UNCHANGED <<entries, pc, cur, idx, saved, uocPref, now>>
    BY DEF Lookup, Hit
  <1>2. stamp' \in [Ways -> 0..now]
    BY <1>1, TouchKeepsType DEF Inv
  <1>3. TypeOK'
    BY <1>1, <1>2 DEF Inv, TypeOK, TypeOKStamp, TypeOKCache
  <1> QED
    BY <1>1, <1>3, QuietKeepsInv

(* pw_insert up to its loop, from decode or from a prefetch.  A PW that is *)
(* turned away has lost the PW with the same start already.                *)
LEMMA PwInsertKeepsInv ==
  ASSUME Inv, pc = "idle", NEW p \in Windows, PwInsert(p, ShouldInsert(p)),
         UNCHANGED <<uocPref, now>>, stage' \in {"memory", "decode", "fetch"},
         saved' \in [Starts -> Windows \cup {NoWindow}]
  PROVE  Inv'
  <1>1. \/ UNCHANGED <<entries, pc, cur, idx, stamp>>
        \/ Touch(SameWindowWays(p)) /\ UNCHANGED <<entries, pc, cur, idx>>
        \/ /\ p.lines <= Assoc /\ ShouldInsert(p) /\ BeginInsertion(p, "insert")
           /\ stamp' = stamp
        \/ /\ entries' = InvalidateAll(entries, p.first)
           /\ UNCHANGED <<pc, cur, idx, stamp>>
    <2>1. p.lines > Assoc \/ p.lines <= Assoc
      BY WindowFields, AssocAssumption
    <2> QED
      BY <2>1 DEF PwInsert
  <1>2. stamp' \in [Ways -> 0..now]
    BY <1>1, TouchKeepsType DEF Inv
  <1>3. CASE UNCHANGED <<entries, pc, cur, idx>>
    <2>1. TypeOK'
      BY <1>2, <1>3 DEF Inv, TypeOK, TypeOKStamp, TypeOKCache
    <2> QED
      BY <1>3, <2>1, QuietKeepsInv
  <1>4. CASE p.lines <= Assoc /\ ShouldInsert(p) /\ BeginInsertion(p, "insert")
    <2>1. CacheInv'
      BY <1>4, BeginPreserves DEF Inv, CacheInv
    <2>2. TypeOK' /\ pc' = "insert"
      BY <1>2, <1>4, <2>1
      DEF Inv, TypeOK, TypeOKStamp, CacheInv, SetInv, BeginInsertion
    <2>3. VictimIsKnown'
      BY <1>4, AdmittedMeetsVictim
    <2> QED
      BY <2>1, <2>2, <2>3 DEF Inv
  <1>5. CASE entries' = InvalidateAll(entries, p.first) /\ UNCHANGED <<pc, cur, idx>>
    <2>1. CacheInv'
      BY <1>5, InvalidateAllPreserves DEF Inv, CacheInv
    <2>2. TypeOK'
      BY <1>2, <2>1 DEF Inv, TypeOK, TypeOKStamp, CacheInv, SetInv
    <2> QED
      BY <1>5, <2>1, <2>2 DEF Inv, VictimIsKnown
  <1> QED
    BY <1>1, <1>3, <1>4, <1>5

LEMMA ICacheEvictKeepsInv ==
  ASSUME Inv, NEW l \in ICacheLines, ICacheEvict(l)
  PROVE  Inv'
  <1>1. /\ pc = "idle" /\ entries' = DropICacheLine(entries, l)
        /\ UNCHANGED <<pc, cur, idx, saved, uocPref, now, stage, stamp>>
    BY DEF ICacheEvict, ICacheReplaces
  <1>2. CacheInv'
    BY <1>1, DropPreserves DEF Inv, CacheInv
  <1>3. TypeOK'
    BY <1>1, <1>2 DEF Inv, TypeOK, TypeOKStamp, CacheInv, SetInv
  <1> QED
    BY <1>1, <1>2, <1>3 DEF Inv, VictimIsKnown

LEMMA NextCycleKeepsInv ==
  ASSUME Inv, NextCycle
  PROVE  Inv'
  <1>1. /\ now < MaxTime /\ now' = now + 1 /\ stage' = "memory"
        /\ UNCHANGED <<entries, pc, cur, idx, saved, uocPref, stamp>>
    BY DEF NextCycle
  <1>2. now \in 1..MaxTime /\ MaxTime \in Nat /\ stamp \in [Ways -> 0..now]
    BY StampAssumption DEF Inv, TypeOK, TypeOKStamp
  <1>3. \A w \in Ways : stamp[w] \in 0..(now + 1)
    BY <1>2
  <1>4. now' \in 1..MaxTime /\ stamp' \in [Ways -> 0..now']
    BY <1>1, <1>2, <1>3
  <1>5. TypeOK'
    BY <1>1, <1>4 DEF Inv, TypeOK, TypeOKStamp, TypeOKCache
  <1> QED
    BY <1>1, <1>5, QuietKeepsInv

-----------------------------------------------------------------------------
(* The insertion loop. *)

(* The two ways to find a place. *)
LEMMA InsertionPlace ==
  ASSUME FillFreeWay \/ SelectColdest
  PROVE  pc = "insert" /\ \E w \in Ways \ OwnWays : InsertInto(w)
  <1>1. CASE FillFreeWay
    BY <1>1 DEF FillFreeWay, IsFirst, FreeWays, OwnWays, HitWays, Holds
  <1>2. CASE SelectColdest
    BY <1>2 DEF SelectColdest, Oldest, ColdestWays, OtherWays
  <1> QED
    BY <1>1, <1>2

LEMMA InsertionKeepsInv ==
  ASSUME Inv, FillFreeWay \/ SelectColdest
  PROVE  Inv'
  <1>1. PICK w \in Ways \ OwnWays : InsertInto(w)
    BY InsertionPlace
  <1>2. /\ pc = "insert" /\ entries' = Place(entries, w, cur, idx)
        /\ stamp' = [stamp EXCEPT ![w] = now] /\ Advance
        /\ UNCHANGED <<saved, uocPref, now, stage>>
    BY <1>1, InsertionPlace DEF InsertInto
  <1>3. CacheInv'
    BY <1>1, <1>2, PlacePreserves DEF Inv, CacheInv
  <1>4. stamp \in [Ways -> 0..now] /\ now \in 0..now /\ idx \in Nat
    BY DEF Inv, TypeOK, TypeOKStamp, TypeOKCache
  <1>5. stamp' \in [Ways -> 0..now]
    BY <1>2, <1>4
  <1>6. TypeOK'
    BY <1>2, <1>3, <1>5 DEF Inv, TypeOK, TypeOKStamp, CacheInv, SetInv
  <1>7. pc' \in {"idle", "insert"} /\ (pc' = "insert" => idx' # 0)
    BY <1>2, <1>4 DEF Advance
  <1> QED
    BY <1>3, <1>6, <1>7 DEF Inv, VictimIsKnown

-----------------------------------------------------------------------------
(* Every step preserves the inductive invariant. *)
LEMMA InvNext == Inv /\ [Next]_vars => Inv'
  <1> SUFFICES ASSUME Inv, [Next]_vars
               PROVE  Inv'
    OBVIOUS
  <1>1. /\ saved \in [Starts -> Windows \cup {NoWindow}]
        /\ stage \in {"memory", "decode", "fetch"}
    BY DEF Inv, TypeOK, TypeOKStamp, TypeOKCache
  <1>2. ASSUME NEW a \in Starts, Lookup(a)
        PROVE  Inv'
    BY <1>2, LookupKeepsInv
  <1>3. ASSUME NEW p \in Windows, EndAccumulate(p)
        PROVE  Inv'
    <2>1. /\ pc = "idle" /\ PwInsert(p, ShouldInsert(p))
          /\ UNCHANGED <<uocPref, now>> /\ stage' = "decode"
          /\ saved' = [saved EXCEPT ![p.first] = p]
      BY <1>3 DEF EndAccumulate, Decoded, SavePW
    <2>2. saved' \in [Starts -> Windows \cup {NoWindow}]
      BY <1>1, <2>1
    <2> QED
      BY <2>1, <2>2, PwInsertKeepsInv
  <1>4. ASSUME NEW a \in Starts, FillPrefetch(a)
        PROVE  Inv'
    <2>1. /\ pc = "idle" /\ saved[a] # NoWindow
          /\ UNCHANGED <<saved, uocPref, now, stage>>
          /\ PwInsert(saved[a], ShouldInsert(saved[a]))
      BY <1>4 DEF FillPrefetch, Prefetched
    <2>2. saved[a] \in Windows
      BY <1>1, <2>1
    <2> QED
      BY <1>1, <2>1, <2>2, PwInsertKeepsInv
  <1>5. ASSUME NEW l \in ICacheLines, ICacheEvict(l)
        PROVE  Inv'
    BY <1>5, ICacheEvictKeepsInv
  <1>6. CASE FillFreeWay \/ SelectColdest
    BY <1>6, InsertionKeepsInv
  <1>7. CASE NextCycle
    BY <1>7, NextCycleKeepsInv
  <1>8. CASE UNCHANGED vars
    <2>1. UNCHANGED <<entries, pc, cur, idx, saved, uocPref, now, stage, stamp>>
      BY <1>8 DEF vars
    <2>2. TypeOK'
      BY <2>1 DEF Inv, TypeOK, TypeOKStamp, TypeOKCache
    <2> QED
      BY <2>1, <2>2, QuietKeepsInv
  <1> QED
    BY <1>2, <1>3, <1>4, <1>5, <1>6, <1>7, <1>8 DEF Next

(* The inductive invariant holds in every reachable state. *)
THEOREM Invariance == Spec => []Inv
  <1>1. Init => Inv
    BY InvInit
  <1>2. Inv /\ [Next]_vars => Inv'
    BY InvNext
  <1> QED
    BY <1>1, <1>2, PTL DEF Spec

-----------------------------------------------------------------------------
(* Between insertions, a PW has all of its lines in the set or none: a PW  *)
(* that is turned away leaves no part of the one it would have replaced.   *)
THEOREM WholeWindowsHolds == Spec => []WholeWindows
  <1>1. Inv => WholeWindows
    BY DEF Inv, CacheInv, OthersWhole, WholeWindows
  <1> QED
    BY <1>1, Invariance, PTL

(* The search always finds a victim, and meets lines of the PW itself only *)
(* after the first one.                                                    *)
THEOREM CodeAssertionsHold == Spec => []CodeAssertions
  <1>1. Inv => CodeAssertions
    <2> SUFFICES ASSUME Inv, pc = "insert"
                 PROVE  OtherWays # {} /\ (OwnWays # {} => idx > 0)
      BY DEF CodeAssertions
    <2>1. SetInv
      BY DEF Inv, CacheInv
    <2>2. OtherWays # {}
      BY <2>1, OtherWaysExist
    <2>3. ASSUME NEW w \in OwnWays
          PROVE  idx > 0
      <3>1. entries[w].idx < idx /\ entries[w].idx \in Nat /\ idx \in Nat
        BY <2>1 DEF SetInv, OwnPrefix, TypeOKCache, Line, OwnWays, HitWays, Holds, Valid
      <3> QED
        BY <3>1
    <2> QED
      BY <2>2, <2>3
  <1> QED
    BY <1>1, Invariance, PTL

-----------------------------------------------------------------------------
(* What the first line of a PW drives out of a full set is no hotter than  *)
(* the PW: the way chosen is the coldest, and the ways that go with it     *)
(* hold lines of the same PW.                                              *)
LEMMA FirstStepEvictsColder ==
  ASSUME Inv, [Next]_vars, pc = "insert", idx = 0,
         NEW w \in Ways, Valid(entries, w), entries'[w] # entries[w]
  PROVE  WeightAt(w) <= Weight[cur.first]
  <1>1. TypeOKCache /\ cur \in Windows /\ OwnWays = {}
    <2>1. TypeOKCache /\ cur \in Windows /\ \A v \in OwnWays : entries[v].idx < 0
      BY DEF Inv, CacheInv, SetInv, OwnPrefix
    <2>2. \A v \in OwnWays : entries[v].idx \in Nat
      BY <2>1 DEF TypeOKCache, Line, OwnWays, HitWays, Holds, Valid
    <2> QED
      BY <2>1, <2>2
  <1>2. FillFreeWay \/ SelectColdest
    BY DEF Next, vars, Lookup, Hit, EndAccumulate, Decoded, FillPrefetch, Prefetched,
           ICacheEvict, ICacheReplaces, NextCycle
  <1>3. CASE FillFreeWay
    <2>1. PICK v \in FreeWays(entries) : entries' = Place(entries, v, cur, idx)
      BY <1>3 DEF FillFreeWay, IsFirst, InsertInto
    <2>2. v \in Ways \ OwnWays /\ ~Valid(entries, v)
      BY <1>1, <2>1 DEF FreeWays
    <2>3. entries'[w] = entries[w]
      BY <1>1, <2>1, <2>2, PlaceEffect
    <2> QED
      BY <2>3
  <1>4. CASE SelectColdest
    <2>1. PICK v \in ColdestWays : entries' = Place(entries, v, cur, idx)
      BY <1>4 DEF SelectColdest, Oldest, InsertInto
    <2>2. v \in Ways \ OwnWays /\ Valid(entries, v)
      BY <1>1, <1>4, <2>1 DEF SelectColdest, FreeWays, ColdestWays, OtherWays
    <2>3. \A u \in Ways : WeightAt(v) <= WeightAt(u)
      BY <1>1, <2>1 DEF ColdestWays, OtherWays
    <2>4. PICK u \in Ways : Valid(entries, u) /\ WeightAt(u) <= Weight[cur.first]
      BY <1>4 DEF Inv, VictimIsKnown, SelectColdest
    <2>5. /\ WeightAt(v) \in Nat /\ WeightAt(u) \in Nat
          /\ Weight[cur.first] \in Nat
      BY <1>1, <2>2, <2>4, WeightsAreNat
    <2>6. WeightAt(v) <= Weight[cur.first]
      BY <2>3, <2>4, <2>5
    <2>7. w = v \/ Holds(entries, w, entries[v].pw.first)
      BY <1>1, <2>1, <2>2, PlaceEffect
    <2>8. WeightAt(w) = WeightAt(v)
      BY <2>7 DEF WeightAt, Holds
    <2> QED
      BY <2>6, <2>8
  <1> QED
    BY <1>2, <1>3, <1>4

(* An insertion into a full set starts with a victim no hotter than the PW.*)
THEOREM FirstVictimIsNoHotterHolds == Spec => FirstVictimIsNoHotter
  <1>1. Inv /\ [Next]_vars =>
          [\A w \in Ways :
             (pc = "insert" /\ idx = 0 /\ Valid(entries, w) /\ entries'[w] # entries[w])
               => WeightAt(w) <= Weight[cur.first]]_vars
    BY FirstStepEvictsColder
  <1> QED
    BY <1>1, Invariance, PTL DEF Spec, FirstVictimIsNoHotter

-----------------------------------------------------------------------------
(* The steps of the set are those of any policy. *)
LEMMA StepKinds ==
  ASSUME Inv, [Next]_vars
  PROVE  PlacesLine \/ PlacesNothing
  <1>1. CASE \/ \E a \in Starts : Lookup(a) \/ FillPrefetch(a)
             \/ \E p \in Windows : EndAccumulate(p)
             \/ \E l \in ICacheLines : ICacheEvict(l)
             \/ NextCycle
    <2>1. pc = "idle"
      BY <1>1 DEF Lookup, Hit, FillPrefetch, Prefetched, EndAccumulate, Decoded,
                  ICacheEvict, ICacheReplaces, NextCycle
    <2>2. \/ entries' = entries
          \/ \E a : entries' = InvalidateAll(entries, a)
          \/ \E l : entries' = DropICacheLine(entries, l)
      BY <1>1 DEF Lookup, Hit, FillPrefetch, EndAccumulate, PwInsert, BeginInsertion,
                  ICacheEvict, ICacheReplaces, NextCycle
    <2> QED
      BY <2>1, <2>2 DEF PlacesNothing, InvalidateAll, DropICacheLine
  <1>2. CASE FillFreeWay \/ SelectColdest
    BY <1>2, InsertionPlace DEF InsertInto, PlacesLine
  <1>3. CASE UNCHANGED vars
    BY <1>3 DEF vars, PlacesNothing
  <1> QED
    BY <1>1, <1>2, <1>3 DEF Next

(* An insertion that has ended has brought in the whole PW. *)
THEOREM InsertionCompletesHolds == Spec => InsertionCompletes
  <1>1. Inv /\ [Next]_vars =>
          [pc # "idle" /\ pc' = "idle" => cur \in Resident(entries')]_cacheVars
    <2> SUFFICES ASSUME Inv, [Next]_vars, pc # "idle", pc' = "idle"
                 PROVE  cur \in Resident(entries')
      OBVIOUS
    <2>1. SetInv /\ (PlacesLine \/ PlacesNothing)
      BY StepKinds DEF Inv, CacheInv
    <2> QED
      BY <2>1, StepCompletes
  <1> QED
    BY <1>1, Invariance, PTL DEF Spec, InsertionCompletes

(* What lookups can hit behaves like a WindowCache: the PW enters as a     *)
(* whole with its last line, one that is turned away enters not at all.    *)
THEOREM Refinement == Spec => ImplementsWindowCache
  <1>1. Init => Promise!Init
    BY InitIsPromised DEF Init, InitStamp
  <1>2. Inv /\ Inv' /\ [Next]_vars => [Promise!Next]_Visible
    BY StepKinds, StepIsPromised DEF Inv
  <1> QED
    BY <1>1, <1>2, Invariance, PTL DEF Spec, ImplementsWindowCache, Promise!Spec
=============================================================================
