--------------------------- MODULE LruCacheProofs ---------------------------
(***************************************************************************)
(* LRU and GHRP, for every associativity, set of prediction windows and    *)
(* length of the run.  The lines of a PW always carry one stamp and one    *)
(* prediction.  Without prefetching into the uop cache, PWs are whole and  *)
(* the set is a WindowCache, although the search for the least recent line *)
(* does not pass over the lines of the PW that is being inserted.          *)
(***************************************************************************)
EXTENDS LruCache, UopCacheProofs

(* The initial state satisfies the inductive invariant. *)
LEMMA InvInit == Init => Inv
  <1> SUFFICES ASSUME Init
               PROVE  Inv
    OBVIOUS
  <1>1. CacheInv
    BY CacheInvInit DEF Init, InitStamp
  <1>2. pc = "idle" /\ \A w \in Ways : ~Valid(entries, w)
    BY DEF Init, InitStamp, InitCache, Valid
  <1>3. TypeOK
    <2>1. TypeOKCache /\ 1 \in 1..MaxTime /\ uocPref \in BOOLEAN /\ ghrp \in BOOLEAN
      BY <1>1, StampAssumption DEF Init, InitStamp, CacheInv, SetInv
    <2>2. now = 1 /\ stage = "memory" /\ curDead = FALSE
          /\ stamp \in [Ways -> 0..now] /\ dead \in [Ways -> BOOLEAN]
      BY DEF Init, InitStamp
    <2> QED
      BY <2>1, <2>2 DEF TypeOK, TypeOKStamp
  <1> QED
    BY <1>1, <1>2, <1>3
    DEF Inv, AlikeInPW, OwnLinesNew, OthersEarlier, CacheInv, SetInv

-----------------------------------------------------------------------------
(* Steps outside of an insertion. *)

(* Lines may go, and those of a PW may get a stamp and a prediction.       *)
LEMMA RemovalKeepsAlike ==
  ASSUME Inv, pc = "idle", pc' = "idle",
         \A w \in Ways : entries'[w] \in {entries[w], Invalid},
         \A v, w \in Ways :
           Valid(entries', v) /\ Valid(entries', w) /\ entries[v].pw = entries[w].pw
           /\ stamp[v] = stamp[w] /\ dead[v] = dead[w]
             => stamp'[v] = stamp'[w] /\ dead'[v] = dead'[w]
  PROVE  OneWindowPerStart' /\ AlikeInPW' /\ OwnLinesNew'
  <1>1. \A w \in Ways : Valid(entries', w) =>
          Valid(entries, w) /\ entries'[w] = entries[w]
    BY DEF Valid
  <1>2. OneWindowPerStart'
    BY <1>1 DEF Inv, OneWindowPerStart, Holds
  <1>3. AlikeInPW'
    <2> SUFFICES ASSUME NEW v \in Ways, NEW w \in Ways, Valid(entries', v),
                        Valid(entries', w), entries'[v].pw = entries'[w].pw
                 PROVE  stamp'[v] = stamp'[w] /\ dead'[v] = dead'[w]
      BY DEF AlikeInPW
    <2>1. /\ Valid(entries, v) /\ Valid(entries, w)
          /\ entries[v].pw = entries[w].pw
      BY <1>1
    <2>2. stamp[v] = stamp[w] /\ dead[v] = dead[w]
      BY <2>1 DEF Inv, AlikeInPW
    <2> QED
      BY <2>1, <2>2
  <1> QED
    BY <1>2, <1>3 DEF OwnLinesNew

(* A hit, with an update of the stamps or without. *)
LEMMA HitKeepsInv ==
  ASSUME Inv, NEW a \in Starts, Lookup(a) \/ LookupOnly(a)
  PROVE  Inv'
  <1>1. /\ pc = "idle" /\ stage' = "fetch"
        /\ UNCHANGED <<entries, pc, cur, idx, saved, uocPref, now, ghrp, curDead>>
    BY DEF Lookup, LookupOnly, Hit
  <1>2. stamp' = stamp
        \/ stamp' = [w \in Ways |-> IF w \in HitWays(entries, a) THEN now ELSE stamp[w]]
    BY DEF Lookup, LookupOnly, Hit, Touch
  <1>3. PICK d \in BOOLEAN :
          dead' = [w \in Ways |-> IF w \in HitWays(entries, a) THEN d ELSE dead[w]]
    BY DEF Lookup, LookupOnly, Repredict, Predictions
  <1>4. /\ stamp \in [Ways -> 0..now] /\ now \in 0..now
        /\ dead \in [Ways -> BOOLEAN]
    BY DEF Inv, TypeOK, TypeOKStamp
  <1>5. stamp' \in [Ways -> 0..now] /\ dead' \in [Ways -> BOOLEAN]
    BY <1>2, <1>3, <1>4
  <1>6. TypeOK'
    BY <1>1, <1>5 DEF Inv, TypeOK, TypeOKStamp, TypeOKCache
  <1>7. OneWindowPerStart' /\ AlikeInPW' /\ OwnLinesNew'
    <2>1. \A v, w \in Ways :
            Valid(entries', v) /\ Valid(entries', w) /\ entries[v].pw = entries[w].pw
            /\ stamp[v] = stamp[w] /\ dead[v] = dead[w]
              => stamp'[v] = stamp'[w] /\ dead'[v] = dead'[w]
      <3> SUFFICES ASSUME NEW v \in Ways, NEW w \in Ways, Valid(entries, v),
                          Valid(entries, w), entries[v].pw = entries[w].pw,
                          stamp[v] = stamp[w], dead[v] = dead[w]
                   PROVE  stamp'[v] = stamp'[w] /\ dead'[v] = dead'[w]
        BY <1>1 DEF Valid
      <3>1. v \in HitWays(entries, a) <=> w \in HitWays(entries, a)
        BY DEF HitWays, Holds
      <3> QED
        BY <1>2, <1>3, <3>1
    <2> QED
      BY <1>1, <2>1, RemovalKeepsAlike
  <1>8. ~uocPref => CacheInv' /\ OthersEarlier'
    <2>1. ~uocPref => CacheInv'
      BY <1>1, SearchPreserves DEF Inv, CacheInv, SetInv, TypeOKCache
    <2>2. OthersEarlier'
      BY <1>1 DEF OthersEarlier
    <2> QED
      BY <2>1, <2>2
  <1> QED
    BY <1>1, <1>6, <1>7, <1>8 DEF Inv

(* pw_insert up to its loop, from decode or from a prefetch. *)
LEMMA PwInsertKeepsInv ==
  ASSUME Inv, pc = "idle", NEW p \in Windows, PwInsert(p, TRUE), PredictInserted,
         UNCHANGED <<uocPref, now>>, stage' \in {"memory", "decode", "fetch"},
         saved' \in [Starts -> Windows \cup {NoWindow}],
         ~uocPref => stage' = "decode" /\ (stage = "memory" \/ p.lines = 1)
  PROVE  Inv'
  <1>1. /\ UNCHANGED <<dead, ghrp>> /\ curDead' \in BOOLEAN
    BY DEF PredictInserted, Predictions
  <1>2. /\ stamp \in [Ways -> 0..now] /\ now \in 0..now
        /\ entries \in [Ways -> Line \cup {Invalid}]
        /\ idx \in Nat /\ cur \in Windows \cup {NoWindow}
    BY DEF Inv, TypeOK, TypeOKStamp, TypeOKCache
  <1>3. CASE UNCHANGED <<entries, pc, cur, idx>>
    <2>1. stamp' = stamp \/ stamp' =
            [w \in Ways |-> IF w \in SameWindowWays(p) THEN now ELSE stamp[w]]
      BY <1>2, <1>3 DEF PwInsert, Touch
    <2>2. stamp' \in [Ways -> 0..now]
      BY <1>2, <2>1
    <2>3. TypeOK'
      BY <1>1, <1>3, <2>2 DEF Inv, TypeOK, TypeOKStamp, TypeOKCache
    <2>4. OneWindowPerStart' /\ AlikeInPW' /\ OwnLinesNew'
      <3>1. \A v, w \in Ways :
              Valid(entries', v) /\ Valid(entries', w) /\ entries[v].pw = entries[w].pw
              /\ stamp[v] = stamp[w] /\ dead[v] = dead[w]
                => stamp'[v] = stamp'[w] /\ dead'[v] = dead'[w]
        <4> SUFFICES ASSUME NEW v \in Ways, NEW w \in Ways, Valid(entries, v),
                            Valid(entries, w), entries[v].pw = entries[w].pw,
                            stamp[v] = stamp[w], dead[v] = dead[w]
                     PROVE  stamp'[v] = stamp'[w] /\ dead'[v] = dead'[w]
          BY <1>3 DEF Valid
        <4>1. v \in SameWindowWays(p) <=> w \in SameWindowWays(p)
          BY DEF SameWindowWays, HitWays, Holds
        <4> QED
          BY <1>1, <2>1, <4>1
      <3> QED
        BY <1>3, <3>1, RemovalKeepsAlike
    <2>5. ~uocPref => CacheInv' /\ OthersEarlier'
      <3>1. ~uocPref => CacheInv'
        BY <1>3, SearchPreserves DEF Inv, CacheInv, SetInv, TypeOKCache
      <3>2. ~uocPref => OthersEarlier'
        BY <1>3 DEF OthersEarlier
      <3> QED
        BY <3>1, <3>2
    <2> QED
      BY <1>3, <2>3, <2>4, <2>5 DEF Inv
  <1>4. CASE p.lines <= Assoc /\ BeginInsertion(p, "insert") /\ UNCHANGED stamp
    <2>1. \A v \in Ways : Valid(entries', v) =>
            /\ Valid(entries, v) /\ entries'[v] = entries[v]
            /\ entries[v].pw.first # p.first
      BY <1>4 DEF BeginInsertion, InvalidateAll, Valid, Holds
    <2>2. /\ entries' \in [Ways -> Line \cup {Invalid}]
          /\ pc' = "insert" /\ cur' = p /\ idx' = 0
      BY <1>2, <1>4 DEF BeginInsertion, InvalidateAll
    <2>3. TypeOK'
      BY <1>1, <1>4, <2>2 DEF Inv, TypeOK, TypeOKStamp, TypeOKCache
    <2>4. OneWindowPerStart' /\ AlikeInPW'
      <3>1. OneWindowPerStart'
        BY <2>1 DEF Inv, OneWindowPerStart, Holds
      <3>2. AlikeInPW'
        BY <1>1, <1>4, <2>1 DEF Inv, AlikeInPW
      <3> QED
        BY <3>1, <3>2
    <2>5. OwnWays' = {}
      BY <2>1, <2>2 DEF OwnWays, HitWays, Holds
    <2>6. OwnLinesNew'
      BY <2>2, <2>5 DEF OwnLinesNew
    <2>7. ~uocPref => CacheInv'
      BY <1>4, BeginPreserves DEF Inv, CacheInv
    <2>8. ~uocPref => OthersEarlier'
      <3> SUFFICES ASSUME ~uocPref, p.lines > 1, NEW w \in Ways, Valid(entries', w)
                   PROVE  stamp'[w] < now'
        BY <2>2 DEF OthersEarlier, OtherWays
      <3>1. stage = "memory"
        OBVIOUS
      <3> QED
        BY <1>4, <2>1, <3>1 DEF Inv, OthersEarlier
    <2> QED
      BY <2>2, <2>3, <2>4, <2>6, <2>7, <2>8 DEF Inv
  <1>5. p.lines \in Nat /\ Assoc \in Nat
    BY WindowFields, AssocAssumption
  <1> QED
    BY <1>3, <1>4, <1>5 DEF PwInsert

LEMMA ICacheEvictKeepsInv ==
  ASSUME Inv, NEW l \in ICacheLines, ICacheEvict(l)
  PROVE  Inv'
  <1>1. /\ pc = "idle" /\ entries' = DropICacheLine(entries, l)
        /\ UNCHANGED <<pc, cur, idx, saved, uocPref, now, stage, stamp, ghrp, dead,
                       curDead>>
    BY DEF ICacheEvict, ICacheReplaces, prediction
  <1>2. entries' \in [Ways -> Line \cup {Invalid}]
        /\ \A w \in Ways : entries'[w] \in {entries[w], Invalid}
    BY <1>1 DEF DropICacheLine, Inv, TypeOK, TypeOKStamp, TypeOKCache
  <1>3. TypeOK'
    BY <1>1, <1>2 DEF Inv, TypeOK, TypeOKStamp, TypeOKCache
  <1>4. OneWindowPerStart' /\ AlikeInPW' /\ OwnLinesNew'
    BY <1>1, <1>2, RemovalKeepsAlike
  <1>5. ~uocPref => CacheInv'
    BY <1>1, DropPreserves DEF Inv, CacheInv
  <1>6. ~uocPref => OthersEarlier'
    BY <1>1, <1>2 DEF Inv, OthersEarlier, Valid
  <1> QED
    BY <1>1, <1>3, <1>4, <1>5, <1>6 DEF Inv

(* A new cycle: every stamp is of an earlier one. *)
LEMMA NextCycleKeepsInv ==
  ASSUME Inv, NextCycle, UNCHANGED <<ghrp, prediction>>
  PROVE  Inv'
  <1>1. /\ pc = "idle" /\ now < MaxTime /\ now' = now + 1 /\ stage' = "memory"
        /\ UNCHANGED <<entries, pc, cur, idx, saved, uocPref, stamp, ghrp, dead,
                       curDead>>
    BY DEF NextCycle, prediction
  <1>2. /\ now \in 1..MaxTime /\ MaxTime \in Nat
        /\ stamp \in [Ways -> 0..now]
    BY StampAssumption DEF Inv, TypeOK, TypeOKStamp
  <1>3. \A w \in Ways : stamp'[w] \in 0..now' /\ stamp'[w] < now'
    BY <1>1, <1>2
  <1>4. now' \in 1..MaxTime /\ stamp' \in [Ways -> 0..now']
    BY <1>1, <1>2, <1>3
  <1>5. TypeOK'
    BY <1>1, <1>4 DEF Inv, TypeOK, TypeOKStamp, TypeOKCache
  <1>6. OneWindowPerStart' /\ AlikeInPW' /\ OwnLinesNew'
    BY <1>1, RemovalKeepsAlike
  <1>7. ~uocPref => CacheInv'
    BY <1>1, SearchPreserves DEF Inv, CacheInv, SetInv, TypeOKCache
  <1>8. OthersEarlier'
    BY <1>1, <1>3 DEF OthersEarlier
  <1> QED
    BY <1>1, <1>5, <1>6, <1>7, <1>8 DEF Inv

-----------------------------------------------------------------------------
(* The insertion loop. *)

(* Whatever way is taken, a line of the PW itself included: what is valid  *)
(* afterwards is the new line, or was there and is not changed.            *)
LEMMA AnyPlace ==
  ASSUME Inv, pc # "idle", NEW w \in Ways, entries' = Place(entries, w, cur, idx)
  PROVE  /\ entries' \in [Ways -> Line \cup {Invalid}]
         /\ Valid(entries', w) => entries'[w].pw = cur
         /\ \A v \in Ways : v # w /\ Valid(entries', v) =>
              Valid(entries, v) /\ entries'[v] = entries[v]
  <1>1. /\ entries \in [Ways -> Line \cup {Invalid}]
        /\ [pw |-> cur, idx |-> idx] \in Line
    BY DEF Inv, TypeOK, TypeOKStamp, TypeOKCache, OwnLinesNew, Line
  <1>2. \A v \in Ways :
          Place(entries, w, cur, idx)[v] \in
            {Invalid, IF v = w THEN [pw |-> cur, idx |-> idx] ELSE entries[v]}
    BY <1>1 DEF Place, InvalidateAll, Overwrite
  <1>3. Place(entries, w, cur, idx) \in [Ways -> Line \cup {Invalid}]
    BY <1>1 DEF Place, InvalidateAll, Overwrite
  <1> QED
    BY <1>2, <1>3 DEF Valid

(* So the lines of a PW stay alike even if the insertion evicts its own.   *)
LEMMA InsertKeepsAlike ==
  ASSUME Inv, pc = "insert", NEW w \in Ways, InsertPredicted(w)
  PROVE  TypeOK' /\ OneWindowPerStart' /\ AlikeInPW' /\ OwnLinesNew'
         /\ pc' \in {"idle", "insert"} /\ uocPref' = uocPref
  <1>1. /\ entries' = Place(entries, w, cur, idx)
        /\ stamp' = [stamp EXCEPT ![w] = now] /\ dead' = [dead EXCEPT ![w] = curDead]
        /\ curDead' = (curDead /\ pc' = "insert")
        /\ Advance /\ UNCHANGED <<saved, uocPref, now, stage, ghrp>>
    BY DEF InsertPredicted, InsertInto
  <1>2. /\ entries' \in [Ways -> Line \cup {Invalid}]
        /\ Valid(entries', w) => entries'[w].pw = cur
        /\ \A v \in Ways : v # w /\ Valid(entries', v) =>
             Valid(entries, v) /\ entries'[v] = entries[v]
    BY <1>1, AnyPlace
  <1>3. /\ stamp \in [Ways -> 0..now] /\ now \in 0..now
        /\ dead \in [Ways -> BOOLEAN] /\ curDead \in BOOLEAN
        /\ idx \in Nat /\ cur \in Windows
    BY DEF Inv, TypeOK, TypeOKStamp, TypeOKCache, OwnLinesNew
  <1>4. \A v \in Ways : /\ stamp'[v] = IF v = w THEN now ELSE stamp[v]
                        /\ dead'[v] = IF v = w THEN curDead ELSE dead[v]
    BY <1>1, <1>3
  <1>5. \A v \in Ways : Valid(entries, v) /\ entries[v].pw.first = cur.first =>
          entries[v].pw = cur /\ stamp[v] = now /\ dead[v] = curDead
    BY DEF Inv, OwnLinesNew, OwnWays, HitWays, Holds
  <1>6. \/ pc' = "idle" /\ cur' = NoWindow /\ idx' = 0
        \/ pc' = "insert" /\ cur' = cur /\ idx' = idx + 1
    BY <1>1 DEF Advance
  <1>7. TypeOK'
    <2>1. stamp' \in [Ways -> 0..now] /\ dead' \in [Ways -> BOOLEAN]
          /\ curDead' \in BOOLEAN
      BY <1>1, <1>3
    <2> QED
      BY <1>1, <1>2, <1>3, <1>6, <2>1 DEF Inv, TypeOK, TypeOKStamp, TypeOKCache
  <1>8. \A v \in Ways : Valid(entries', v) /\ entries'[v].pw.first = cur.first =>
          entries'[v].pw = cur /\ stamp'[v] = now /\ dead'[v] = curDead
    BY <1>2, <1>4, <1>5
  <1>9. OneWindowPerStart'
    <2> SUFFICES ASSUME NEW u \in Ways, NEW v \in Ways, Valid(entries', u),
                        Valid(entries', v), entries'[v].pw.first = entries'[u].pw.first
                 PROVE  entries'[u].pw = entries'[v].pw
      BY DEF OneWindowPerStart, Holds
    <2>1. CASE u # w /\ v # w
      BY <1>2, <2>1 DEF Inv, OneWindowPerStart, Holds
    <2>2. CASE u = w \/ v = w
      BY <1>2, <1>8, <2>2
    <2> QED
      BY <2>1, <2>2
  <1>10. AlikeInPW'
    <2> SUFFICES ASSUME NEW u \in Ways, NEW v \in Ways, Valid(entries', u),
                        Valid(entries', v), entries'[u].pw = entries'[v].pw
                 PROVE  stamp'[u] = stamp'[v] /\ dead'[u] = dead'[v]
      BY DEF AlikeInPW
    <2>1. CASE u # w /\ v # w
      BY <1>2, <1>4, <2>1 DEF Inv, AlikeInPW
    <2>2. CASE u = w \/ v = w
      BY <1>2, <1>8, <2>2
    <2> QED
      BY <2>1, <2>2
  <1>11. OwnLinesNew'
    <2> SUFFICES ASSUME pc' # "idle"
                 PROVE  /\ cur' \in Windows
                        /\ \A v \in OwnWays' :
                             /\ entries'[v].pw = cur' /\ stamp'[v] = now'
                             /\ dead'[v] = curDead'
      BY DEF OwnLinesNew
    <2>1. pc' = "insert" /\ cur' = cur /\ now' = now /\ curDead' = curDead
      BY <1>1, <1>3, <1>6
    <2>2. \A v \in OwnWays' :
            v \in Ways /\ Valid(entries', v) /\ entries'[v].pw.first = cur.first
      BY <2>1 DEF OwnWays, HitWays, Holds
    <2> QED
      BY <1>3, <1>8, <2>1, <2>2
  <1> QED
    BY <1>1, <1>6, <1>7, <1>9, <1>10, <1>11

(* Without prefetching, the least recent line is none of the PW's own: of  *)
(* a PW of several lines because another line is older, of a PW of one     *)
(* line because it has none yet.                                           *)
LEMMA LeastRecentIsOther ==
  ASSUME Inv, ~uocPref, pc = "insert", FreeWays(entries) = {}, NEW w \in Oldest(Ways)
  PROVE  w \in Ways \ OwnWays
  <1>1. SetInv /\ OthersEarlier /\ w \in Ways
    BY DEF Inv, CacheInv, Oldest
  <1>2. SUFFICES ASSUME w \in OwnWays
                 PROVE  FALSE
    BY <1>1
  <1>3. cur \in Windows /\ stamp[w] = now /\ entries[w].idx < idx /\ idx < cur.lines
    BY <1>1, <1>2 DEF Inv, OwnLinesNew, SetInv, OwnPrefix
  <1>4. entries[w].idx \in Nat /\ idx \in Nat
    BY <1>1, <1>2 DEF SetInv, TypeOKCache, Line, OwnWays, HitWays, Holds, Valid
  <1>5. cur.lines > 1
    BY <1>3, <1>4, WindowFields
  <1>6. PICK v \in OtherWays : TRUE
    BY <1>1, OtherWaysExist
  <1>7. v \in Ways /\ Valid(entries, v)
    BY <1>6 DEF OtherWays, FreeWays
  <1>8. stamp[v] < now
    BY <1>1, <1>5, <1>6, <1>7 DEF OthersEarlier
  <1>9. stamp[v] \in Nat /\ now \in Nat
    BY <1>7 DEF Inv, TypeOK, TypeOKStamp
  <1> QED
    BY <1>3, <1>7, <1>8, <1>9 DEF Oldest

(* The three ways to find a place. *)
LEMMA InsertionPlace ==
  ASSUME Inv, InsertInFreeWay \/ SelectDead \/ SelectLeastRecent
  PROVE  pc = "insert" /\ \E w \in Ways : /\ InsertPredicted(w)
                                          /\ ~uocPref => w \notin OwnWays
  <1>1. CASE InsertInFreeWay
    BY <1>1 DEF InsertInFreeWay, IsFirst, FreeWays, OwnWays, HitWays, Holds
  <1>2. CASE SelectDead
    BY <1>2 DEF SelectDead, IsFirst, DeadWays, OtherWays
  <1>3. CASE SelectLeastRecent
    BY <1>3, LeastRecentIsOther DEF SelectLeastRecent, Oldest
  <1> QED
    BY <1>1, <1>2, <1>3

LEMMA InsertionKeepsInv ==
  ASSUME Inv, InsertInFreeWay \/ SelectDead \/ SelectLeastRecent
  PROVE  Inv'
  <1>1. PICK w \in Ways : InsertPredicted(w) /\ (~uocPref => w \notin OwnWays)
    BY InsertionPlace
  <1>2. pc = "insert"
    BY InsertionPlace
  <1>3. TypeOK' /\ OneWindowPerStart' /\ AlikeInPW' /\ OwnLinesNew'
        /\ pc' \in {"idle", "insert"} /\ uocPref' = uocPref
    BY <1>1, <1>2, InsertKeepsAlike
  <1>4. ASSUME ~uocPref
        PROVE  CacheInv' /\ OthersEarlier'
    <2>1. w \notin OwnWays /\ entries' = Place(entries, w, cur, idx) /\ Advance
          /\ UNCHANGED <<saved, now, stage>>
          /\ stamp' = [stamp EXCEPT ![w] = now]
      BY <1>1, <1>4 DEF InsertPredicted, InsertInto
    <2>2. CacheInv'
      BY <1>2, <1>4, <2>1, PlacePreserves DEF Inv, CacheInv
    <2>3. OthersEarlier'
      <3>1. stage # "memory" /\ stage' = stage
        BY <1>2, <1>4, <2>1 DEF Inv, OthersEarlier
      <3>2. SUFFICES ASSUME pc' # "idle", cur'.lines > 1, NEW v \in OtherWays',
                            Valid(entries', v)
                     PROVE  stamp'[v] < now'
        BY <3>1 DEF OthersEarlier
      <3>3. cur' = cur /\ v \in Ways
        BY <2>1, <3>2 DEF Advance, OtherWays
      <3>4. entries'[v].pw.first # cur.first
        BY <3>2, <3>3 DEF OtherWays, OwnWays, HitWays, Holds
      <3>5. v # w /\ Valid(entries, v) /\ entries'[v] = entries[v]
        BY <1>2, <2>1, <3>2, <3>3, <3>4, AnyPlace
      <3>6. v \in OtherWays
        BY <3>3, <3>4, <3>5 DEF OtherWays, OwnWays, HitWays, Holds
      <3>7. stamp[v] < now
        BY <1>2, <1>4, <3>2, <3>3, <3>5, <3>6 DEF Inv, OthersEarlier
      <3>8. stamp'[v] = stamp[v]
        BY <2>1, <3>3, <3>5 DEF Inv, TypeOK, TypeOKStamp
      <3> QED
        BY <2>1, <3>7, <3>8
    <2> QED
      BY <2>2, <2>3
  <1> QED
    BY <1>3, <1>4 DEF Inv

-----------------------------------------------------------------------------
(* Every step preserves the inductive invariant. *)
LEMMA InvNext == Inv /\ [Next]_vars => Inv'
  <1> SUFFICES ASSUME Inv, [Next]_vars
               PROVE  Inv'
    OBVIOUS
  <1>1. /\ saved \in [Starts -> Windows \cup {NoWindow}]
        /\ stage \in {"memory", "decode", "fetch"}
    BY DEF Inv, TypeOK, TypeOKStamp, TypeOKCache
  <1>2. ASSUME NEW a \in Starts, Lookup(a) \/ LookupOnly(a)
        PROVE  Inv'
    BY <1>2, HitKeepsInv
  <1>3. ASSUME NEW p \in Windows, EndAccumulate(p)
        PROVE  Inv'
    <2>1. /\ pc = "idle" /\ PwInsert(p, TRUE) /\ PredictInserted
          /\ UNCHANGED <<uocPref, now>> /\ stage' = "decode"
          /\ stage = "memory" \/ p.lines = 1
          /\ saved' = [saved EXCEPT ![p.first] = p]
      BY <1>3 DEF EndAccumulate, Decoded, SavePW
    <2>2. saved' \in [Starts -> Windows \cup {NoWindow}]
      BY <1>1, <2>1
    <2> QED
      BY <2>1, <2>2, PwInsertKeepsInv
  <1>4. ASSUME NEW a \in Starts, FillPrefetch(a)
        PROVE  Inv'
    <2>1. /\ uocPref /\ pc = "idle" /\ saved[a] # NoWindow
          /\ UNCHANGED <<saved, uocPref, now, stage>>
          /\ PwInsert(saved[a], TRUE) /\ PredictInserted
      BY <1>4 DEF FillPrefetch, Prefetched
    <2>2. saved[a] \in Windows
      BY <1>1, <2>1
    <2> QED
      BY <1>1, <2>1, <2>2, PwInsertKeepsInv
  <1>5. ASSUME NEW l \in ICacheLines, ICacheEvict(l)
        PROVE  Inv'
    BY <1>5, ICacheEvictKeepsInv
  <1>6. CASE InsertInFreeWay \/ SelectDead \/ SelectLeastRecent
    BY <1>6, InsertionKeepsInv
  <1>7. CASE NextCycle /\ UNCHANGED <<ghrp, prediction>>
    BY <1>7, NextCycleKeepsInv
  <1>8. CASE UNCHANGED vars
    <2>1. UNCHANGED <<entries, pc, cur, idx, saved, uocPref, now, stage, stamp, ghrp,
                      dead, curDead>>
      BY <1>8 DEF vars, prediction
    <2>2. ~uocPref => CacheInv'
      BY <1>1, <2>1, SearchPreserves DEF Inv, CacheInv, SetInv, TypeOKCache
    <2> QED
      BY <2>1, <2>2
      DEF Inv, TypeOK, TypeOKStamp, TypeOKCache, OneWindowPerStart, AlikeInPW,
          OwnLinesNew, OthersEarlier, OtherWays, OwnWays, HitWays, Holds, Valid
  <1> QED
    BY <1>2, <1>3, <1>4, <1>5, <1>6, <1>7, <1>8 DEF Next

(* The inductive invariant holds in every reachable state. *)
THEOREM Invariance == Spec => []Inv
  <1>1. Init => Inv
    BY InvInit
  <1>2. Inv /\ [Next]_vars => Inv'
    BY InvNext
  <1> QED
    BY <1>1, <1>2, PTL DEF Spec

-----------------------------------------------------------------------------
(* Every variable keeps its type; no stamp is of a cycle to come. *)
THEOREM TypeCorrect == Spec => []TypeOK
  <1>1. Inv => TypeOK
    BY DEF Inv
  <1> QED
    BY <1>1, Invariance, PTL

(* With prefetching as well, a start address has the lines of one PW only. *)
THEOREM OneWindowPerStartHolds == Spec => []OneWindowPerStart
  <1>1. Inv => OneWindowPerStart
    BY DEF Inv
  <1> QED
    BY <1>1, Invariance, PTL

(* Without prefetching, between insertions a PW has all of its lines in    *)
(* the set or none.                                                        *)
THEOREM WholeWithoutPrefetchHolds == Spec => []WholeWithoutPrefetch
  <1>1. Inv => WholeWithoutPrefetch
    BY DEF Inv, CacheInv, OthersWhole, WholeWindows, WholeWithoutPrefetch
  <1> QED
    BY <1>1, Invariance, PTL

(* With prefetching as well, the lines of a PW carry one stamp and one     *)
(* prediction.                                                             *)
THEOREM OneStampPerWindowHolds == Spec => []OneStampPerWindow
  <1>1. Inv => OneStampPerWindow
    BY DEF Inv, OneStampPerWindow
  <1> QED
    BY <1>1, Invariance, PTL

-----------------------------------------------------------------------------
(* Without prefetching, the steps of the set are those of any policy.      *)
LEMMA StepKinds ==
  ASSUME Inv, [Next]_vars, ~uocPref
  PROVE  PlacesLine \/ PlacesNothing
  <1>1. CASE \/ \E a \in Starts : Lookup(a) \/ LookupOnly(a) \/ FillPrefetch(a)
             \/ \E p \in Windows : EndAccumulate(p)
             \/ \E l \in ICacheLines : ICacheEvict(l)
             \/ NextCycle
    <2>1. pc = "idle"
      BY <1>1 DEF Lookup, LookupOnly, Hit, FillPrefetch, Prefetched, EndAccumulate,
                  Decoded, ICacheEvict, ICacheReplaces, NextCycle
    <2>2. \/ entries' = entries
          \/ \E a : entries' = InvalidateAll(entries, a)
          \/ \E l : entries' = DropICacheLine(entries, l)
      BY <1>1 DEF Lookup, LookupOnly, Hit, FillPrefetch, EndAccumulate, PwInsert,
                  BeginInsertion, ICacheEvict, ICacheReplaces, NextCycle
    <2>3. entries \in [Ways -> Line \cup {Invalid}]
      BY DEF Inv, TypeOK, TypeOKStamp, TypeOKCache
    <2> QED
      BY <2>1, <2>2, <2>3 DEF PlacesNothing, InvalidateAll, DropICacheLine
  <1>2. CASE InsertInFreeWay \/ SelectDead \/ SelectLeastRecent
    <2>1. PICK w \in Ways : InsertPredicted(w) /\ w \notin OwnWays
      BY <1>2, InsertionPlace
    <2>2. pc # "idle"
      BY <1>2, InsertionPlace
    <2> QED
      BY <2>1, <2>2 DEF InsertPredicted, InsertInto, PlacesLine
  <1>3. CASE UNCHANGED vars
    BY <1>3 DEF vars, PlacesNothing
  <1> QED
    BY <1>1, <1>2, <1>3 DEF Next

(* Without prefetching, an insertion that has ended has brought in the     *)
(* whole PW.                                                               *)
THEOREM CompletesWithoutPrefetchHolds == Spec => CompletesWithoutPrefetch
  <1>1. Inv /\ [Next]_vars =>
          [~uocPref /\ pc # "idle" /\ pc' = "idle" => cur \in Resident(entries')]_vars
    <2> SUFFICES ASSUME Inv, [Next]_vars, ~uocPref, pc # "idle", pc' = "idle"
                 PROVE  cur \in Resident(entries')
      OBVIOUS
    <2>1. SetInv /\ (PlacesLine \/ PlacesNothing)
      BY StepKinds DEF Inv, CacheInv
    <2> QED
      BY <2>1, StepCompletes
  <1> QED
    BY <1>1, Invariance, PTL DEF Spec, CompletesWithoutPrefetch

(* Without prefetching, what lookups can hit behaves like a WindowCache:   *)
(* the PW enters as a whole with its last line, and any others go.         *)
THEOREM Refinement == Spec => ImplementsWithoutPrefetch
  <1> DEFINE seen == IF uocPref THEN {} ELSE Visible
  <1>1. Init => OnDemand!Init
    BY InitIsPromised DEF Init, InitStamp, OnDemand!Init, Promise!Init
  <1>2. Inv /\ Inv' /\ [Next]_vars => [OnDemand!Next]_seen
    <2> SUFFICES ASSUME Inv, Inv', [Next]_vars
                 PROVE  [OnDemand!Next]_seen
      OBVIOUS
    <2>1. uocPref' = uocPref
      BY DEF Next, vars, Lookup, LookupOnly, Hit, EndAccumulate, Decoded, FillPrefetch,
             Prefetched, ICacheEvict, ICacheReplaces, InsertInFreeWay, SelectDead,
             SelectLeastRecent, InsertPredicted, InsertInto, NextCycle
    <2>2. CASE uocPref
      BY <2>1, <2>2
    <2>3. CASE ~uocPref
      <3>1. CacheInv /\ CacheInv'
        BY <2>1, <2>3 DEF Inv
      <3>2. [Promise!Next]_Visible
        BY <2>3, <3>1, StepKinds, StepIsPromised
      <3>3. seen = Visible /\ seen' = Visible'
        BY <2>1, <2>3
      <3>4. OnDemand!Fits(Visible') <=> Promise!Fits(Visible')
        BY DEF Promise!Fits, Promise!LinesOf, Promise!Cardinality,
               OnDemand!Fits, OnDemand!LinesOf, OnDemand!Cardinality
      <3> HIDE DEF seen
      <3>5. Promise!Leave => OnDemand!Leave
        BY <3>3 DEF Promise!Leave, OnDemand!Leave, seen
      <3>6. \A p \in Windows : Promise!Enter(p) => OnDemand!Enter(p)
        BY <3>3, <3>4 DEF Promise!Enter, OnDemand!Enter, seen
      <3> QED
        BY <3>2, <3>3, <3>5, <3>6 DEF Promise!Next, OnDemand!Next
    <2> QED
      BY <2>2, <2>3
  <1> QED
    BY <1>1, <1>2, Invariance, PTL
    DEF Spec, ImplementsWithoutPrefetch, OnDemand!Spec
=============================================================================
