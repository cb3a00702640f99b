-------------------------- MODULE SrripCacheProofs --------------------------
(***************************************************************************)
(* The SRRIP configuration, for every associativity, set of prediction     *)
(* windows and width of RRPV, with UOP_RRIP_PW and without: the lines of a *)
(* PW are equally old and an insertion keeps its own lines; without        *)
(* UOP_RRIP_PW, PWs are whole and the set is a WindowCache.                *)
(***************************************************************************)
EXTENDS SrripCache, UopCacheProofs

-----------------------------------------------------------------------------
(* The steps of RripCache: each preserves RripSetInv, and that all other   *)
(* PWs are whole if they are.                                              *)

(* The initial set satisfies the invariant. *)
LEMMA RripInvInit ==
  ASSUME InitRrip
  PROVE  RripInv
  <1>1. CacheInv
    BY CacheInvInit DEF InitRrip
  <1> QED
    BY <1>1, MaxRrpvAssumption
    DEF InitRrip, InitCache, TypeOKRrip, OwnLinesFresh, RripInv, RripSetInv, CacheInv, SetInv

(* The values may change in any way where the PW's own lines keep theirs.  *)
LEMMA ValuesPreserve ==
  ASSUME RripSetInv, UNCHANGED <<entries, pc, cur, idx>>,
         saved' \in [Starts -> Windows \cup {NoWindow}], rrpv' \in [Ways -> 0..MaxRrpv],
         pc # "idle" => \A w \in OwnWays : rrpv'[w] = rrpv[w]
  PROVE  RripSetInv' /\ (OthersWhole => OthersWhole')
  <1>1. SetInv' /\ (OthersWhole => OthersWhole')
    BY SearchPreserves DEF RripSetInv, SetInv, TypeOKCache
  <1>2. OwnWays' = OwnWays
    BY DEF OwnWays, HitWays, Holds, Valid
  <1> QED
    BY <1>1, <1>2 DEF RripSetInv, TypeOKRrip, SetInv, OwnLinesFresh

(* pw_insert up to its first loop, in each of its three outcomes. *)
LEMMA PwInsertPreserves ==
  ASSUME RripSetInv, pc = "idle", NEW p \in Windows, NEW loop \in {"room", "insert"},
         PwInsert(p, loop), saved' \in [Starts -> Windows \cup {NoWindow}]
  PROVE  RripSetInv' /\ (OthersWhole => OthersWhole')
  <1>1. SetInv /\ rrpv \in [Ways -> 0..MaxRrpv]
    BY DEF RripSetInv, TypeOKRrip
  <1>2. CASE p.lines > Assoc \/ SameWindowWays(p) # {}
    <2>1. UNCHANGED <<entries, pc, cur, idx>> /\ rrpv' \in [Ways -> 0..MaxRrpv]
      BY <1>1, <1>2, MaxRrpvAssumption DEF PwInsert, Touch
    <2> QED
      BY <2>1, ValuesPreserve
  <1>3. CASE ~(p.lines > Assoc \/ SameWindowWays(p) # {})
    <2>1. BeginInsertion(p, loop) /\ rrpv' \in [Ways -> 0..MaxRrpv]
      BY <1>1, <1>3, MaxRrpvAssumption DEF PwInsert
    <2>2. p.lines <= Assoc
      BY <1>3, WindowFields, AssocAssumption
    <2>3. SetInv' /\ (OthersWhole => OthersWhole')
      BY <1>1, <2>1, <2>2, BeginPreserves
    <2>4. OwnWays' = {}
      BY <2>1, BeginLeavesNoOwn
    <2> QED
      BY <2>1, <2>3, <2>4 DEF RripSetInv, TypeOKRrip, SetInv, OwnLinesFresh
  <1> QED
    BY <1>2, <1>3

(* The instruction cache replaces a line between two insertions. *)
LEMMA ICacheReplacesPreserves ==
  ASSUME RripSetInv, NEW l, ICacheReplaces(l)
  PROVE  RripSetInv' /\ (OthersWhole => OthersWhole')
  <1>1. SetInv' /\ (OthersWhole => OthersWhole')
    BY DropPreserves DEF ICacheReplaces, RripSetInv
  <1> QED
    BY <1>1 DEF ICacheReplaces, RripSetInv, TypeOKRrip, SetInv, OwnLinesFresh

(* A way that no line of the PW holds takes the next one. *)
LEMMA PlaceFreshPreserves ==
  ASSUME RripSetInv, pc # "idle", NEW w \in Ways, w \notin OwnWays,
         entries' = Place(entries, w, cur, idx), Advance, saved' = saved,
         rrpv' \in [Ways -> 0..MaxRrpv], rrpv'[w] = MaxRrpv - 1,
         \A v \in OwnWays : rrpv'[v] = rrpv[v]
  PROVE  RripSetInv' /\ (OthersWhole => OthersWhole')
  <1>1. SetInv' /\ (OthersWhole => OthersWhole')
    BY PlacePreserves DEF RripSetInv
  <1>2. ASSUME pc' # "idle", NEW v \in OwnWays', v # w
        PROVE  v \in OwnWays
    BY <1>2, OwnWaysGrow DEF Advance, RripSetInv, SetInv, OwnPrefix
  <1> QED
    BY <1>1, <1>2 DEF RripSetInv, TypeOKRrip, SetInv, OwnLinesFresh

(* A free way is no way of the PW. *)
LEMMA FillFreeWayPreserves ==
  ASSUME RripSetInv, FillFreeWay
  PROVE  RripSetInv' /\ (OthersWhole => OthersWhole')
  <1>1. PICK w \in Ways : /\ w \notin OwnWays
                          /\ entries' = Place(entries, w, cur, idx)
                          /\ rrpv' = [rrpv EXCEPT ![w] = MaxRrpv - 1]
    BY DEF FillFreeWay, IsFirst, FreeWays, OwnWays, HitWays, Holds
  <1>2. rrpv \in [Ways -> 0..MaxRrpv]
    BY DEF RripSetInv, TypeOKRrip
  <1>3. /\ rrpv' \in [Ways -> 0..MaxRrpv]
        /\ rrpv'[w] = MaxRrpv - 1
        /\ \A v \in OwnWays : rrpv'[v] = rrpv[v]
    BY <1>1, <1>2, MaxRrpvAssumption DEF OwnWays, HitWays
  <1> QED
    BY <1>1, <1>3, PlaceFreshPreserves DEF FillFreeWay

(* Aged-out ways do not belong to the PW that is being inserted. *)
LEMMA AgedOutIsOther ==
  ASSUME RripSetInv, pc # "idle", NEW w \in Ways, rrpv[w] = MaxRrpv
  PROVE  w \notin OwnWays
  BY MaxRrpvAssumption DEF RripSetInv, OwnLinesFresh

(* An aged-out way takes the next line and the rest of its PW goes. *)
LEMMA ReplaceWayPreserves ==
  ASSUME RripSetInv, pc # "idle", NEW w \in Ways, rrpv[w] = MaxRrpv, ReplaceWay(w)
  PROVE  RripSetInv' /\ (OthersWhole => OthersWhole')
  <1>1. w \notin OwnWays
    BY AgedOutIsOther
  <1>2. rrpv \in [Ways -> 0..MaxRrpv]
    BY DEF RripSetInv, TypeOKRrip
  <1>3. rrpv' = [v \in Ways |->
                   IF v \in Wiped(entries, w, cur, idx) THEN MaxRrpv
                   ELSE IF v = w THEN MaxRrpv - 1 ELSE rrpv[v]]
    BY DEF ReplaceWay
  <1>4. \A v \in Wiped(entries, w, cur, idx) : v # w /\ v \notin OwnWays
    BY <1>1, WipedIsOther DEF RripSetInv, SetInv
  <1>5. /\ rrpv' \in [Ways -> 0..MaxRrpv]
        /\ rrpv'[w] = MaxRrpv - 1
        /\ \A v \in OwnWays : rrpv'[v] = rrpv[v]
    BY <1>1, <1>2, <1>3, <1>4, MaxRrpvAssumption DEF OwnWays, HitWays
  <1> QED
    BY <1>1, <1>5, PlaceFreshPreserves DEF ReplaceWay

(* A search that finds no aged-out way ages ways of other PWs. *)
LEMMA AgePreserves ==
  ASSUME RripSetInv, pc # "idle", NEW S \in SUBSET OtherWays, AgedOut(S) = {}, Age(S),
         UNCHANGED <<entries, pc, cur, idx, saved>>
  PROVE  RripSetInv' /\ (OthersWhole => OthersWhole')
  <1>1. /\ rrpv \in [Ways -> 0..MaxRrpv] /\ \A w \in S : rrpv[w] # MaxRrpv
        /\ saved \in [Starts -> Windows \cup {NoWindow}]
    BY DEF RripSetInv, SetInv, TypeOKRrip, TypeOKCache, AgedOut
  <1>2. rrpv' \in [Ways -> 0..MaxRrpv]
    BY <1>1, MaxRrpvAssumption DEF Age
  <1>3. \A w \in OwnWays : rrpv'[w] = rrpv[w]
    BY DEF Age, OtherWays, OwnWays, HitWays
  <1> QED
    BY <1>1, <1>2, <1>3, ValuesPreserve

-----------------------------------------------------------------------------
(* The initial state satisfies the inductive invariant. *)
LEMMA InvInit == Init => Inv
  <1> SUFFICES ASSUME Init
               PROVE  Inv
    OBVIOUS
  <1>1. RripSetInv /\ OthersWhole
    BY RripInvInit DEF Init, RripInv
  <1>2. pc = "idle" /\ \A w \in Ways : ~Valid(entries, w)
    BY DEF Init, InitRrip, InitCache, Valid
  <1> QED
    BY <1>1, <1>2 DEF Init, Inv, EquallyOld

-----------------------------------------------------------------------------
(* Equal age. *)

(* A line of the PW being inserted has the value of an insertion. *)
LEMMA OwnValue ==
  ASSUME RripSetInv, pc # "idle", NEW w \in Ways,
         Valid(entries, w), entries[w].pw = cur
  PROVE  rrpv[w] = MaxRrpv - 1
  BY DEF RripSetInv, OwnLinesFresh, OwnWays, HitWays, Holds

(* Of a PW all lines are its own, or none. *)
LEMMA OwnAlike ==
  ASSUME NEW v \in Ways, NEW w \in Ways, Valid(entries, v), Valid(entries, w),
         entries[v].pw = entries[w].pw
  PROVE  v \in OwnWays <=> w \in OwnWays
  BY DEF OwnWays, HitWays, Holds

(* A hit is a hit of all lines that start at an address. *)
LEMMA TouchKeepsAge ==
  ASSUME EquallyOld, NEW S,
         \A v, w \in Ways :
           Valid(entries, v) /\ Valid(entries, w) /\ entries[v].pw = entries[w].pw
             => (v \in S <=> w \in S),
         Touch(S), UNCHANGED entries
  PROVE  EquallyOld'
  <1>1. \A w \in Ways : rrpv'[w] = IF w \in S THEN 0 ELSE rrpv[w]
    BY DEF Touch
  <1> QED
    BY <1>1 DEF EquallyOld, Valid

(* A way that holds no line of the PW takes the next one, with the value   *)
(* that the lines before it have.                                          *)
LEMMA PlaceKeepsAge ==
  ASSUME RripSetInv, EquallyOld, pc # "idle", NEW w \in Ways, w \notin OwnWays,
         entries' = Place(entries, w, cur, idx), rrpv'[w] = MaxRrpv - 1,
         \A v \in Ways : v # w /\ Valid(entries', v) => rrpv'[v] = rrpv[v]
  PROVE  EquallyOld'
  <1>1. TypeOKCache /\ cur \in Windows
    BY DEF RripSetInv, SetInv, OwnPrefix
  <1>2. entries'[w].pw = cur
    BY <1>1, PlaceEffect
  <1>3. \A v \in Ways : v # w /\ Valid(entries', v) =>
          Valid(entries, v) /\ entries'[v] = entries[v]
    BY <1>1, PlaceEffect DEF Valid
  <1>4. \A v \in Ways : Valid(entries', v) /\ entries'[v].pw = cur =>
          rrpv'[v] = MaxRrpv - 1
    BY <1>3, OwnValue
  <1> QED
    BY <1>2, <1>3, <1>4 DEF EquallyOld

-----------------------------------------------------------------------------
(* Each kind of step keeps lines equally old. *)

(* pw_insert up to its first loop. *)
LEMMA PwInsertKeepsAge ==
  ASSUME EquallyOld, NEW p, NEW loop, PwInsert(p, loop)
  PROVE  EquallyOld'
  <1>1. CASE p.lines > Assoc
    BY <1>1 DEF PwInsert, EquallyOld, Valid
  <1>2. CASE ~(p.lines > Assoc) /\ SameWindowWays(p) # {}
    <2>1. Touch(SameWindowWays(p)) /\ UNCHANGED entries
      BY <1>2 DEF PwInsert
    <2>2. \A v, w \in Ways :
            Valid(entries, v) /\ Valid(entries, w) /\ entries[v].pw = entries[w].pw
              => (v \in SameWindowWays(p) <=> w \in SameWindowWays(p))
      BY DEF SameWindowWays, HitWays, Holds
    <2> QED
      BY <2>1, <2>2, TouchKeepsAge
  <1>3. CASE ~(p.lines > Assoc) /\ SameWindowWays(p) = {}
    <2>1. /\ entries' = InvalidateAll(entries, p.first)
          /\ rrpv' = [w \in Ways |->
                        IF Holds(entries, w, p.first) THEN MaxRrpv ELSE rrpv[w]]
      BY <1>3 DEF PwInsert, BeginInsertion
    <2>2. \A w \in Ways : Valid(entries', w) =>
            Valid(entries, w) /\ entries'[w] = entries[w] /\ rrpv'[w] = rrpv[w]
      BY <2>1 DEF InvalidateAll, Valid
    <2> QED
      BY <2>2 DEF EquallyOld
  <1> QED
    BY <1>1, <1>2, <1>3

(* An iteration of the insertion loop. *)
LEMMA InsertionKeepsAge ==
  ASSUME RripSetInv, EquallyOld, pc = "insert", FillFreeWay \/ SelectAgedOut
  PROVE  EquallyOld'
  <1>1. rrpv \in [Ways -> 0..MaxRrpv]
    BY DEF RripSetInv, TypeOKRrip
  <1>2. CASE FillFreeWay
    <2>1. PICK w \in Ways : /\ IsFirst(w, FreeWays(entries))
                            /\ entries' = Place(entries, w, cur, idx)
                            /\ rrpv' = [rrpv EXCEPT ![w] = MaxRrpv - 1]
      BY <1>2 DEF FillFreeWay
    <2>2. w \notin OwnWays
      BY <2>1 DEF IsFirst, FreeWays, OwnWays, HitWays, Holds
    <2> QED
      BY <1>1, <2>1, <2>2, PlaceKeepsAge
  <1>3. CASE SelectAgedOut
    <2>1. PICK w \in Ways : IsFirst(w, AgedOut(Ways)) /\ ReplaceWay(w)
      BY <1>3 DEF SelectAgedOut
    <2>2. w \notin OwnWays
      BY <2>1, AgedOutIsOther DEF IsFirst, AgedOut
    <2>3. \A v \in Ways : v \in Wiped(entries, w, cur, idx) => entries'[v] = Invalid
      BY <2>1 DEF ReplaceWay, Wiped, Place, InvalidateAll, HitWays
    <2>4. entries'[w] # Invalid
      <3>1. TypeOKCache /\ cur \in Windows
        BY DEF RripSetInv, SetInv, OwnPrefix
      <3>2. entries'[w] = [pw |-> cur, idx |-> idx]
        BY <2>1, <2>2, <3>1, PlaceEffect DEF ReplaceWay
      <3> QED
        BY <3>1, <3>2, SentinelAssumption DEF TypeOKCache, Line
    <2>5. /\ rrpv'[w] = MaxRrpv - 1
          /\ \A v \in Ways : v # w /\ Valid(entries', v) => rrpv'[v] = rrpv[v]
      BY <2>1, <2>3, <2>4 DEF ReplaceWay, Valid
    <2> QED
      BY <2>1, <2>2, <2>5, PlaceKeepsAge DEF ReplaceWay
  <1> QED
    BY <1>2, <1>3

(* Aging takes all lines of a PW, or none. *)
LEMMA AgeKeepsAge ==
  ASSUME EquallyOld, rrpv \in [Ways -> 0..MaxRrpv], UNCHANGED entries,
         Age(Ways) \/ Age(OtherWays)
  PROVE  EquallyOld'
  <1> SUFFICES ASSUME NEW v \in Ways, NEW w \in Ways, Valid(entries, v),
                      Valid(entries, w), entries[v].pw = entries[w].pw
               PROVE  rrpv'[v] = rrpv'[w]
    BY DEF EquallyOld, Valid
  <1>1. rrpv[v] = rrpv[w]
    BY DEF EquallyOld
  <1>2. v \in OtherWays <=> w \in OtherWays
    BY OwnAlike DEF OtherWays
  <1> QED
    BY <1>1, <1>2 DEF Age

-----------------------------------------------------------------------------
(* Room is made before the first line of the PW is in the set, so that no  *)
(* line of it can be freed.                                                *)
LEMMA NoOwnLineYet ==
  ASSUME SetInv, pc = "room", idx = 0
  PROVE  OwnWays = {}
  <1> SUFFICES ASSUME NEW w \in OwnWays
               PROVE  FALSE
    OBVIOUS
  <1>1. entries[w].idx \in Nat
    BY DEF SetInv, TypeOKCache, OwnWays, HitWays, Holds, Valid, Line
  <1>2. entries[w].idx < 0
    BY DEF SetInv, OwnPrefix
  <1> QED
    BY <1>1, <1>2

(* Any ways may be freed then. *)
LEMMA MakeRoomPreserves ==
  ASSUME RripSetInv, EquallyOld, idx = 0, MakeRoom
  PROVE  RripSetInv' /\ EquallyOld'
  <1> USE DEF RripSetInv, SetInv
  <1>1. pc = "room" /\ pc' = "insert" /\ UNCHANGED <<cur, idx, saved, rrpv>>
    BY DEF MakeRoom
  <1>2. \A w \in Ways : entries'[w] \in {entries[w], Invalid}
    BY DEF MakeRoom
  <1>3. TypeOKCache'
    BY <1>1 DEF TypeOKCache, MakeRoom
  <1>4. \A w \in Ways : Valid(entries', w) =>
          Valid(entries, w) /\ entries'[w] = entries[w]
    BY <1>2 DEF Valid
  <1>5. OneWindowPerStart' /\ NoDuplicateLine' /\ EquallyOld'
    <2>1. OneWindowPerStart'
      BY <1>4 DEF OneWindowPerStart, Holds
    <2>2. NoDuplicateLine'
      BY <1>4 DEF NoDuplicateLine, Valid
    <2>3. EquallyOld'
      BY <1>1, <1>4 DEF EquallyOld
    <2> QED
      BY <2>1, <2>2, <2>3
  <1>6. OwnWays' = {}
    <2>1. OwnWays = {}
      BY <1>1, NoOwnLineYet
    <2> QED
      BY <1>1, <1>4, <2>1 DEF OwnWays, HitWays, Holds
  <1>7. OwnPrefix' /\ OwnLinesFresh'
    BY <1>1, <1>6 DEF OwnPrefix, OwnLinesFresh
  <1> QED
    BY <1>1, <1>3, <1>5, <1>7 DEF TypeOKRrip

(* While room is made everything gets older. *)
LEMMA AgeForRoomPreserves ==
  ASSUME RripSetInv, EquallyOld, idx = 0, AgeForRoom
  PROVE  RripSetInv' /\ EquallyOld'
  <1>1. /\ pc = "room" /\ AgedOut(Ways) = {} /\ Age(Ways)
        /\ UNCHANGED <<entries, pc, cur, idx, saved>>
    BY DEF AgeForRoom
  <1>2. OwnWays = {}
    BY <1>1, NoOwnLineYet DEF RripSetInv
  <1>3. Ways \in SUBSET OtherWays
    BY <1>2 DEF OtherWays
  <1>4. RripSetInv'
    BY <1>1, <1>3, AgePreserves
  <1>5. EquallyOld'
    BY <1>1, AgeKeepsAge DEF RripSetInv, TypeOKRrip
  <1> QED
    BY <1>4, <1>5

(* Every step preserves the inductive invariant. *)
LEMMA InvNext == Inv /\ [Next]_vars => Inv'
  <1> SUFFICES ASSUME Inv, [Next]_vars
               PROVE  Inv'
    OBVIOUS
  <1> DEFINE Kept == /\ RripSetInv' /\ EquallyOld'
                     /\ OthersWhole => OthersWhole'
  <1>1. /\ RripSetInv /\ EquallyOld /\ rripPw \in BOOLEAN
        /\ saved \in [Starts -> Windows \cup {NoWindow}]
        /\ rrpv \in [Ways -> 0..MaxRrpv]
    BY DEF Inv, RripSetInv, TypeOKRrip, SetInv, TypeOKCache
  <1>2. ASSUME Kept, UNCHANGED rripPw, pc' = "room" => rripPw /\ idx' = 0
        PROVE  Inv'
    BY <1>1, <1>2 DEF Inv
  <1>3. ASSUME NEW a \in Starts, Lookup(a)
        PROVE  Inv'
    <2>1. Hit(a) /\ UNCHANGED <<entries, pc, rripPw>> /\ pc = "idle"
      BY <1>3 DEF Lookup, Hit
    <2>2. RripSetInv' /\ (OthersWhole => OthersWhole')
      BY <1>1, <2>1, MaxRrpvAssumption, ValuesPreserve DEF Hit, Touch
    <2>3. EquallyOld'
      <3>1. \A v, w \in Ways :
              Valid(entries, v) /\ Valid(entries, w) /\ entries[v].pw = entries[w].pw
                => (v \in HitWays(entries, a) <=> w \in HitWays(entries, a))
        BY DEF HitWays, Holds
      <3> QED
        BY <1>1, <2>1, <3>1, TouchKeepsAge DEF Hit
    <2> QED
      BY <1>2, <2>1, <2>2, <2>3
  <1>4. ASSUME NEW p \in Windows, pc = "idle", PwInsert(p, FirstLoop),
               UNCHANGED rripPw, saved' \in [Starts -> Windows \cup {NoWindow}]
        PROVE  Inv'
    <2>1. FirstLoop \in {"room", "insert"} /\ (FirstLoop = "room" => rripPw)
      BY DEF FirstLoop
    <2>2. RripSetInv' /\ (OthersWhole => OthersWhole')
      BY <1>1, <1>4, <2>1, PwInsertPreserves
    <2>3. EquallyOld'
      BY <1>1, <1>4, PwInsertKeepsAge
    <2>4. pc' = "room" => rripPw /\ idx' = 0
      BY <1>4, <2>1 DEF PwInsert, BeginInsertion
    <2> QED
      BY <1>2, <1>4, <2>2, <2>3, <2>4
  <1>5. ASSUME NEW p \in Windows, EndAccumulate(p)
        PROVE  Inv'
    <2>1. saved' \in [Starts -> Windows \cup {NoWindow}]
      BY <1>1, <1>5 DEF EndAccumulate, SavePW
    <2> QED
      BY <1>4, <1>5, <2>1 DEF EndAccumulate
  <1>6. ASSUME NEW a \in Starts, FillPrefetch(a)
        PROVE  Inv'
    <2>1. saved[a] \in Windows /\ saved' = saved
      BY <1>1, <1>6 DEF FillPrefetch
    <2> QED
      BY <1>1, <1>4, <1>6, <2>1 DEF FillPrefetch
  <1>7. ASSUME NEW l \in ICacheLines, ICacheEvict(l)
        PROVE  Inv'
    <2>1. ICacheReplaces(l) /\ UNCHANGED rripPw /\ pc' = "idle"
      BY <1>7 DEF ICacheEvict, ICacheReplaces
    <2>2. RripSetInv' /\ (OthersWhole => OthersWhole')
      BY <1>1, <2>1, ICacheReplacesPreserves
    <2>3. EquallyOld'
      <3>1. /\ \A w \in Ways : entries'[w] \in {entries[w], Invalid}
            /\ rrpv' = rrpv
        BY <2>1 DEF ICacheReplaces, DropICacheLine
      <3> QED
        BY <1>1, <3>1 DEF EquallyOld, Valid
    <2> QED
      BY <1>2, <2>1, <2>2, <2>3
  <1>8. CASE EnoughRoom
    <2>1. /\ UNCHANGED <<entries, cur, idx, saved, rrpv, rripPw>>
          /\ pc = "room" /\ pc' = "insert"
      BY <1>8 DEF EnoughRoom
    <2>2. SetInv' /\ (OthersWhole => OthersWhole')
      BY <1>1, <2>1, SearchPreserves DEF RripSetInv
    <2>3. RripSetInv'
      BY <1>1, <2>1, <2>2
      DEF RripSetInv, TypeOKRrip, SetInv, OwnLinesFresh, OwnWays, HitWays, Holds, Valid
    <2>4. EquallyOld'
      BY <1>1, <2>1 DEF EquallyOld, Valid
    <2> QED
      BY <1>2, <2>1, <2>2, <2>3, <2>4
  <1>9. CASE MakeRoom
    <2>1. rripPw /\ idx = 0 /\ pc' = "insert" /\ UNCHANGED rripPw
      BY <1>9 DEF MakeRoom, Inv
    <2>2. RripSetInv' /\ EquallyOld'
      BY <1>1, <1>9, <2>1, MakeRoomPreserves
    <2> QED
      BY <1>1, <2>1, <2>2 DEF Inv
  <1>10. CASE AgeForRoom
    <2>1. rripPw /\ idx = 0 /\ UNCHANGED <<idx, rripPw>>
      BY <1>10 DEF AgeForRoom, Inv
    <2>2. RripSetInv' /\ EquallyOld'
      BY <1>1, <1>10, <2>1, AgeForRoomPreserves
    <2> QED
      BY <1>1, <2>1, <2>2 DEF Inv
  <1>11. CASE InsertInFreeWay \/ Select
    <2>1. /\ pc = "insert" /\ (FillFreeWay \/ SelectAgedOut)
          /\ UNCHANGED rripPw /\ Advance
      BY <1>11 DEF InsertInFreeWay, FillFreeWay, Select, SelectAgedOut, ReplaceWay
    <2>2. RripSetInv' /\ (OthersWhole => OthersWhole')
      <3>1. CASE FillFreeWay
        BY <1>1, <3>1, FillFreeWayPreserves
      <3>2. CASE SelectAgedOut
        <4>1. PICK w \in Ways : rrpv[w] = MaxRrpv /\ ReplaceWay(w)
          BY <3>2 DEF SelectAgedOut, IsFirst, AgedOut
        <4> QED
          BY <1>1, <2>1, <4>1, ReplaceWayPreserves
      <3> QED
        BY <2>1, <3>1, <3>2
    <2>3. EquallyOld'
      BY <1>1, <2>1, InsertionKeepsAge
    <2>4. pc' # "room"
      BY <2>1 DEF Advance
    <2> QED
      BY <1>2, <2>1, <2>2, <2>3, <2>4
  <1>12. CASE AgeForVictim
    <2>1. /\ pc = "insert" /\ AgedOut(OtherWays) = {} /\ Age(OtherWays)
          /\ UNCHANGED <<entries, pc, cur, idx, saved, rripPw>>
      BY <1>12 DEF AgeForVictim, AgeOthers, AgedOut, OtherWays
    <2>2. RripSetInv' /\ (OthersWhole => OthersWhole')
      BY <1>1, <2>1, AgePreserves
    <2>3. EquallyOld'
      BY <1>1, <2>1, AgeKeepsAge
    <2> QED
      BY <1>2, <2>1, <2>2, <2>3
  <1>13. CASE UNCHANGED vars
    <2>1. UNCHANGED <<entries, pc, cur, idx, saved, rrpv, rripPw>>
      BY <1>13 DEF vars
    <2>2. RripSetInv' /\ (OthersWhole => OthersWhole')
      BY <1>1, <2>1, ValuesPreserve
    <2>3. EquallyOld'
      BY <1>1, <2>1 DEF EquallyOld, Valid
    <2> QED
      BY <1>2, <2>1, <2>2, <2>3 DEF Inv
  <1> QED
    BY <1>3, <1>5, <1>6, <1>7, <1>8, <1>9, <1>10, <1>11, <1>12, <1>13
    DEF Next, InsertionStep

(* The inductive invariant holds in every reachable state. *)
THEOREM Invariance == Spec => []Inv
  <1>1. Init => Inv
    BY InvInit
  <1>2. Inv /\ [Next]_vars => Inv'
    BY InvNext
  <1> QED
    BY <1>1, <1>2, PTL DEF Spec

-----------------------------------------------------------------------------
(* Every variable keeps its type, with UOP_RRIP_PW as well. *)
THEOREM TypeCorrect == Spec => []TypeOK
  <1>1. Inv => TypeOK
    BY DEF Inv, RripSetInv, TypeOK
  <1> QED
    BY <1>1, Invariance, PTL

(* A start address has the lines of one PW only, with UOP_RRIP_PW as well. *)
THEOREM OneWindowPerStartHolds == Spec => []OneWindowPerStart
  <1>1. Inv => OneWindowPerStart
    BY DEF Inv, RripSetInv, SetInv
  <1> QED
    BY <1>1, Invariance, PTL

(* Without UOP_RRIP_PW, between insertions a PW has all of its lines in    *)
(* the set or none.                                                        *)
THEOREM WholeUnlessRoomIsMadeHolds == Spec => []WholeUnlessRoomIsMade
  <1>1. Inv => WholeUnlessRoomIsMade
    BY DEF Inv, OthersWhole, WholeWindows, WholeUnlessRoomIsMade
  <1> QED
    BY <1>1, Invariance, PTL

(* The lines of a PW are equally old, with UOP_RRIP_PW as well: to take a  *)
(* victim line by line is to take the PW that was used longest ago.        *)
THEOREM WindowsAgeTogetherHolds == Spec => []WindowsAgeTogether
  <1>1. Inv => WindowsAgeTogether
    BY DEF Inv, WindowsAgeTogether
  <1> QED
    BY <1>1, Invariance, PTL

-----------------------------------------------------------------------------
(* Seen from the set, there are the steps of any policy and, with          *)
(* UOP_RRIP_PW, those that make room.                                      *)
LEMMA StepKinds ==
  ASSUME Inv, [Next]_vars
  PROVE  PlacesLine \/ PlacesNothing \/ (rripPw /\ OwnWays = {} /\ pc' # "idle")
  <1>1. RripSetInv
    BY DEF Inv
  <1>2. CASE \/ \E a \in Starts : Lookup(a) \/ FillPrefetch(a)
             \/ \E p \in Windows : EndAccumulate(p)
             \/ \E l \in ICacheLines : ICacheEvict(l)
    <2>1. pc = "idle"
      BY <1>2 DEF Lookup, Hit, FillPrefetch, EndAccumulate, ICacheEvict, ICacheReplaces
    <2>2. \/ entries' = entries
          \/ \E a : entries' = InvalidateAll(entries, a)
          \/ \E l : entries' = DropICacheLine(entries, l)
      BY <1>2 DEF Lookup, Hit, FillPrefetch, EndAccumulate, PwInsert, BeginInsertion,
                  ICacheEvict, ICacheReplaces
    <2>3. entries \in [Ways -> Line \cup {Invalid}]
      BY <1>1 DEF RripSetInv, SetInv, TypeOKCache
    <2> QED
      BY <2>1, <2>2, <2>3 DEF PlacesNothing, InvalidateAll, DropICacheLine
  <1>3. CASE InsertInFreeWay
    <2>1. PICK w \in Ways : w \in FreeWays(entries) /\ entries' = Place(entries, w, cur, idx)
      BY <1>3 DEF InsertInFreeWay, FillFreeWay, IsFirst
    <2>2. w \notin OwnWays
      BY <2>1 DEF FreeWays, OwnWays, HitWays, Holds
    <2> QED
      BY <1>3, <2>1, <2>2 DEF InsertInFreeWay, FillFreeWay, PlacesLine
  <1>4. CASE Select
    <2>1. PICK w \in Ways : rrpv[w] = MaxRrpv /\ ReplaceWay(w)
      BY <1>4 DEF Select, SelectAgedOut, IsFirst, AgedOut
    <2>2. pc # "idle"
      BY <1>4 DEF Select
    <2>3. w \notin OwnWays
      BY <1>1, <2>1, <2>2, AgedOutIsOther
    <2> QED
      BY <2>1, <2>2, <2>3 DEF ReplaceWay, PlacesLine
  <1>5. CASE EnoughRoom \/ MakeRoom \/ AgeForRoom
    <2>1. pc = "room" /\ pc' # "idle"
      BY <1>5 DEF EnoughRoom, MakeRoom, AgeForRoom
    <2>2. rripPw /\ idx = 0
      BY <2>1 DEF Inv
    <2> QED
      BY <1>1, <2>1, <2>2, NoOwnLineYet DEF RripSetInv
  <1>6. CASE AgeForVictim
    BY <1>6 DEF AgeForVictim, AgeOthers, PlacesNothing
  <1>7. CASE UNCHANGED vars
    BY <1>7 DEF vars, PlacesNothing
  <1> QED
    BY <1>2, <1>3, <1>4, <1>5, <1>6, <1>7 DEF Next, InsertionStep

(* An insertion never evicts a line that it has itself placed, with        *)
(* UOP_RRIP_PW as well.                                                    *)
THEOREM OwnLinesStayHolds == Spec => OwnLinesStay
  <1>1. Inv /\ [Next]_vars =>
          [pc # "idle" => \A w \in OwnWays : entries'[w] = entries[w]]_cacheVars
    <2> SUFFICES ASSUME Inv, [Next]_vars, pc # "idle", NEW w \in OwnWays
                 PROVE  entries'[w] = entries[w]
      OBVIOUS
    <2>1. SetInv /\ (PlacesLine \/ PlacesNothing)
      BY StepKinds DEF Inv, RripSetInv
    <2> QED
      BY <2>1, StepKeepsOwn
  <1> QED
    BY <1>1, Invariance, PTL DEF Spec, OwnLinesStay

(* An insertion that has ended has brought in the whole PW, with        *)
(* UOP_RRIP_PW as well.                                                    *)
THEOREM InsertionCompletesHolds == Spec => InsertionCompletes
  <1>1. Inv /\ [Next]_vars =>
          [pc # "idle" /\ pc' = "idle" => cur \in Resident(entries')]_cacheVars
    <2> SUFFICES ASSUME Inv, [Next]_vars, pc # "idle", pc' = "idle"
                 PROVE  cur \in Resident(entries')
      OBVIOUS
    <2>1. SetInv /\ (PlacesLine \/ PlacesNothing)
      BY StepKinds DEF Inv, RripSetInv
    <2> QED
      BY <2>1, StepCompletes
  <1> QED
    BY <1>1, Invariance, PTL DEF Spec, InsertionCompletes

(* The passes that a search needs. *)
LEMMA PassesLeftBounds ==
  ASSUME TypeOKRrip, NEW S \in SUBSET Ways, S # {}
  PROVE  PassesLeft(S) \in 0..MaxRrpv
  <1>1. Distance(MaxRrpv, S, rrpv) \in 0..MaxRrpv
    BY MaxRrpvAssumption, LeastDistance DEF TypeOKRrip
  <1> QED
    BY <1>1 DEF PassesLeft, Distance

(* An aging pass brings the search one pass nearer to its end. *)
LEMMA PassIsNearer ==
  ASSUME TypeOKRrip, NEW S \in SUBSET Ways, S # {}, AgedOut(S) = {}, Age(S)
  PROVE  /\ PassesLeft(S) \in Nat \ {0}
         /\ Min({MaxRrpv - rrpv'[w] : w \in S}) = PassesLeft(S) - 1
  <1>1. /\ \A w \in S : rrpv[w] \in 0..MaxRrpv /\ rrpv[w] # MaxRrpv
        /\ \A w \in S : rrpv'[w] = rrpv[w] + 1
    BY DEF TypeOKRrip, AgedOut, Age
  <1>2. /\ Distance(MaxRrpv, S, rrpv) \in Nat \ {0}
        /\ Distance(MaxRrpv, S, rrpv') = Distance(MaxRrpv, S, rrpv) - 1
    BY <1>1, MaxRrpvAssumption, OnePassNearer
  <1> QED
    BY <1>2 DEF PassesLeft, Distance

(* What is left of making room, and of the search for a way.               *)
SearchLeftInRange ==
  pc # "idle" =>
    SearchLeft \in (IF pc = "room" THEN (MaxRrpv + 2)..(2 * (MaxRrpv + 1))
                    ELSE 1..(MaxRrpv + 1))

LEMMA SearchLeftBounds == Inv => SearchLeftInRange
  <1> SUFFICES ASSUME Inv, pc # "idle"
               PROVE  SearchLeftInRange
    BY DEF SearchLeftInRange
  <1>1. SetInv /\ TypeOKRrip
    BY DEF Inv, RripSetInv
  <1>2. PassesLeft(OtherWays) \in 0..MaxRrpv
    BY <1>1, OtherWaysExist, PassesLeftBounds DEF OtherWays
  <1>3. PassesLeft(Ways) \in 0..MaxRrpv
    BY <1>1, PassesLeftBounds, AssocAssumption DEF Ways
  <1> QED
    BY <1>2, <1>3, MaxRrpvAssumption DEF SearchLeft, SearchLeftInRange

(* An insertion takes at most MaxRrpv + 1 steps for each way, and as many  *)
(* to make room.                                                           *)
THEOREM WorkIsBoundedHolds == Spec => []WorkIsBounded
  <1>1. Inv => WorkIsBounded
    <2> SUFFICES ASSUME Inv
                 PROVE  WorkIsBounded
      OBVIOUS
    <2> DEFINE perLine == MaxRrpv + 1
               later   == IF pc = "room" THEN perLine ELSE 0
               line    == SearchLeft - later
    <2>1. /\ SetInv /\ perLine \in Nat /\ later \in 0..perLine
          /\ pc # "idle" => line \in 0..perLine /\ SearchLeft = line + later
      BY SearchLeftBounds, MaxRrpvAssumption DEF SearchLeftInRange, Inv, RripSetInv
    <2>2. /\ StepsLeft(perLine, line) \in 0..(Assoc * perLine)
          /\ cur.lines - idx - 1 \in Nat \/ pc = "idle"
          /\ Assoc \in Nat /\ Assoc * perLine \in Nat
      <3> HIDE DEF perLine, line
      <3> QED
        BY <2>1, StepsAreBounded, LinesAfter, AssocAssumption
    <2>3. StepsLeft(perLine, SearchLeft) =
            StepsLeft(perLine, line) + (IF pc = "idle" THEN 0 ELSE later)
      <3> DEFINE n == (cur.lines - idx - 1) * perLine
      <3>1. pc = "idle" \/ n \in Nat
        BY <2>1, <2>2
      <3> HIDE DEF perLine, line, later
      <3>2. StepsLeft(perLine, SearchLeft) = (IF pc = "idle" THEN 0 ELSE n + SearchLeft)
            /\ StepsLeft(perLine, line) = (IF pc = "idle" THEN 0 ELSE n + line)
        BY DEF StepsLeft
      <3> HIDE DEF n
      <3> QED
        BY <2>1, <3>1, <3>2
    <2>4. (Assoc + 1) * perLine = Assoc * perLine + perLine
      BY <2>1, <2>2
    <2> HIDE DEF perLine, line, later
    <2>5. StepsLeft(perLine, SearchLeft) \in 0..((Assoc + 1) * perLine)
      BY <2>1, <2>2, <2>3, <2>4
    <2> QED
      BY <2>5 DEF WorkIsBounded, WorkLeft, perLine
  <1> QED
    BY <1>1, Invariance, PTL

(* No iteration of the loops of an insertion is in vain, with either       *)
(* setting of UOP_RRIP_PW.                                                 *)
THEOREM InsertionProgressHolds == Spec => InsertionProgress
  <1>1. Inv /\ Inv' /\ [Next]_vars =>
          [pc # "idle" => WorkLeft' \in 0..(WorkLeft - 1)]_vars
    <2> SUFFICES ASSUME Inv, Inv', Next, pc # "idle"
                 PROVE  WorkLeft' \in 0..(WorkLeft - 1)
      OBVIOUS
    <2> DEFINE perLine == MaxRrpv + 1
    <2>1. SetInv /\ TypeOKRrip
      BY DEF Inv, RripSetInv
    <2>2. perLine \in Nat /\ MaxRrpv \in Nat \ {0}
      BY MaxRrpvAssumption
    <2>3. /\ SearchLeft \in Nat \ {0}
          /\ pc = "room" => SearchLeft > perLine
      BY <2>2, SearchLeftBounds DEF SearchLeftInRange
    <2>4. /\ pc' # "idle" => SearchLeft' \in Nat
          /\ pc' \notin {"idle", "room"} => SearchLeft' \in 0..perLine
      <3>1. SearchLeftInRange'
        BY SearchLeftBounds, PTL
      <3> QED
        BY <2>2, <3>1 DEF SearchLeftInRange
    <2>5. /\ WorkLeft = StepsLeft(perLine, SearchLeft)
          /\ WorkLeft' = IF pc' = "idle" THEN 0
                         ELSE (cur'.lines - idx' - 1) * perLine + SearchLeft'
      BY DEF WorkLeft, StepsLeft
    <2> HIDE DEF perLine
    <2>6. ASSUME UNCHANGED <<cur, idx>>, pc' # "idle", SearchLeft' < SearchLeft
          PROVE  WorkLeft' \in 0..(WorkLeft - 1)
      BY <2>1, <2>2, <2>3, <2>4, <2>5, <2>6, SearchIsNearer
    <2>7. CASE EnoughRoom \/ MakeRoom
      <3>1. pc = "room" /\ pc' = "insert" /\ UNCHANGED <<cur, idx>>
        BY <2>7 DEF EnoughRoom, MakeRoom
      <3> QED
        BY <2>2, <2>3, <2>4, <2>6, <3>1
    <2>8. CASE AgeForRoom
      <3>1. /\ pc = "room" /\ Missing > 0 /\ AgedOut(Ways) = {} /\ Age(Ways)
            /\ UNCHANGED <<entries, pc, cur, idx>>
        BY <2>8 DEF AgeForRoom
      <3>2. Ways \in SUBSET Ways /\ Ways # {} /\ Ways' = Ways
        BY AssocAssumption DEF Ways
      <3>3. /\ PassesLeft(Ways) \in Nat \ {0}
            /\ PassesLeft(Ways)' = PassesLeft(Ways) - 1
        BY <2>1, <3>1, <3>2, PassIsNearer DEF PassesLeft
      <3>4. Missing' = Missing
        BY <3>1 DEF Missing, FreeWays, Valid
      <3>5. /\ SearchLeft = MaxRrpv + 2 + PassesLeft(Ways)
            /\ SearchLeft' = MaxRrpv + 2 + PassesLeft(Ways)'
        BY <3>1, <3>4 DEF SearchLeft
      <3> QED
        BY <2>2, <2>6, <3>1, <3>3, <3>5
    <2>9. CASE InsertInFreeWay \/ Select
      <3>1. Advance
        BY <2>9 DEF InsertInFreeWay, FillFreeWay, Select, SelectAgedOut, ReplaceWay
      <3>2. pc' # "idle" => SearchLeft' \in 0..perLine
        BY <2>4, <3>1 DEF Advance
      <3> QED
        BY <2>1, <2>2, <2>3, <2>5, <3>1, <3>2, AdvanceIsNearer
    <2>10. CASE AgeForVictim
      <3>1. /\ pc = "insert" /\ FreeWays(entries) = {}
            /\ Age(OtherWays) /\ AgedOut(OtherWays) = {}
            /\ UNCHANGED <<entries, pc, cur, idx>>
        BY <2>10 DEF AgeForVictim, AgeOthers, AgedOut, OtherWays
      <3>2. OtherWays \in SUBSET Ways /\ OtherWays # {}
        BY <2>1, OtherWaysExist DEF OtherWays
      <3>3. OtherWays' = OtherWays /\ FreeWays(entries)' = {}
        BY <3>1 DEF OtherWays, OwnWays, HitWays, Holds, Valid, FreeWays
      <3>4. /\ PassesLeft(OtherWays) \in Nat \ {0}
            /\ PassesLeft(OtherWays)' = PassesLeft(OtherWays) - 1
        BY <2>1, <3>1, <3>2, <3>3, PassIsNearer DEF PassesLeft
      <3>5. /\ SearchLeft = 1 + PassesLeft(OtherWays)
            /\ SearchLeft' = 1 + PassesLeft(OtherWays)'
        BY <3>1, <3>3 DEF SearchLeft
      <3> QED
        BY <2>6, <3>1, <3>4, <3>5
    <2> QED
      BY <2>7, <2>8, <2>9, <2>10
      DEF Next, InsertionStep, Lookup, Hit, EndAccumulate, FillPrefetch, ICacheEvict,
          ICacheReplaces
  <1> QED
    BY <1>1, Invariance, PTL DEF Spec, InsertionProgress

(* Without UOP_RRIP_PW, what lookups can hit behaves like a WindowCache.   *)
THEOREM Refinement == Spec => ImplementsUnlessRoomIsMade
  <1> DEFINE seen == IF rripPw THEN {} ELSE Visible
  <1>1. Init => LineByLine!Init
    BY InitIsPromised DEF Init, InitRrip, LineByLine!Init, Promise!Init
  <1>2. Inv /\ Inv' /\ [Next]_vars => [LineByLine!Next]_seen
    <2> SUFFICES ASSUME Inv, Inv', [Next]_vars
                 PROVE  [LineByLine!Next]_seen
      OBVIOUS
    <2>1. rripPw' = rripPw
      BY DEF Next, vars, Lookup, EndAccumulate, FillPrefetch, ICacheEvict, InsertionStep,
             EnoughRoom, MakeRoom, AgeForRoom, InsertInFreeWay, Select, AgeForVictim
    <2>2. CASE rripPw
      BY <2>1, <2>2
    <2>3. CASE ~rripPw
      <3>1. CacheInv /\ CacheInv'
        BY <2>1, <2>3 DEF Inv, RripSetInv, CacheInv
      <3>2. [Promise!Next]_Visible
        BY <2>3, <3>1, StepKinds, StepIsPromised
      <3>3. seen = Visible /\ seen' = Visible'
        BY <2>1, <2>3
      <3>4. LineByLine!Fits(Visible') <=> Promise!Fits(Visible')
        BY DEF Promise!Fits, Promise!LinesOf, Promise!Cardinality,
               LineByLine!Fits, LineByLine!LinesOf, LineByLine!Cardinality
      <3> HIDE DEF seen
      <3>5. Promise!Leave => LineByLine!Leave
        BY <3>3 DEF Promise!Leave, LineByLine!Leave, seen
      <3>6. \A p \in Windows : Promise!Enter(p) => LineByLine!Enter(p)
        BY <3>3, <3>4 DEF Promise!Enter, LineByLine!Enter, seen
      <3> QED
        BY <3>2, <3>3, <3>5, <3>6 DEF Promise!Next, LineByLine!Next
    <2> QED
      BY <2>2, <2>3
  <1> QED
    BY <1>1, <1>2, Invariance, PTL
    DEF Spec, ImplementsUnlessRoomIsMade, LineByLine!Spec
=============================================================================
