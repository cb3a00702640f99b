--------------------------- MODULE UopCacheProofs ---------------------------
(***************************************************************************)
(* Lemmas about the insertion machinery of UopCache, whatever the policy:  *)
(* each thing that a policy does to the set preserves SetInv, and that all *)
(* other PWs are whole if they are, provided that the way it replaces      *)
(* holds no line of the PW being inserted.                                 *)
(***************************************************************************)
EXTENDS UopCache, FiniteSetsExt, FiniteSetTheorems, WellFoundedInduction, TLAPS

(* What the assumptions say of a PW, in the form the proofs need. *)
LEMMA WindowFields ==
  ASSUME NEW p \in Windows
  PROVE  p.first \in Nat /\ p.last \in Nat /\ p.lines \in Nat \ {0}
  BY WindowsAssumption DEF Window

(* Placing a line in a way that holds no line of the PW itself writes that *)
(* way, frees the other ways of its former PW and leaves the rest alone.   *)
LEMMA PlaceEffect ==
  ASSUME TypeOKCache, cur \in Windows, NEW w \in Ways, w \notin OwnWays,
         NEW v \in Ways
  PROVE  Place(entries, w, cur, idx)[v] =
           IF v = w THEN [pw |-> cur, idx |-> idx]
           ELSE IF Valid(entries, w) /\ Holds(entries, v, entries[w].pw.first)
           THEN Invalid ELSE entries[v]
  <1>1. [pw |-> cur, idx |-> idx] \in Line
    BY DEF TypeOKCache, Line
  <1>2. [pw |-> cur, idx |-> idx] # Invalid
    BY <1>1, SentinelAssumption
  <1>3. entries \in [Ways -> Line \cup {Invalid}]
    BY DEF TypeOKCache
  <1>4. Valid(entries, w) => entries[w].pw.first # cur.first
    BY DEF OwnWays, HitWays, Holds
  <1> QED
    BY <1>2, <1>3, <1>4
    DEF Place, InvalidateAll, Overwrite, Holds, Valid

(* Placing a line changes no other line of the PW that is being inserted. *)
LEMMA PlaceKeepsOwn ==
  ASSUME TypeOKCache, cur \in Windows, NEW w \in Ways, w \notin OwnWays,
         NEW v \in OwnWays
  PROVE  Place(entries, w, cur, idx)[v] = entries[v]
  <1>1. v \in Ways /\ v # w /\ Holds(entries, v, cur.first)
    BY DEF OwnWays, HitWays
  <1>2. ~(Valid(entries, w) /\ Holds(entries, v, entries[w].pw.first))
    BY <1>1 DEF OwnWays, HitWays, Holds
  <1> QED
    BY <1>1, <1>2, PlaceEffect

-----------------------------------------------------------------------------
(* The initial set satisfies the invariant. *)
LEMMA CacheInvInit ==
  ASSUME InitCache
  PROVE  CacheInv
  <1>1. \A w \in Ways : ~Valid(entries, w)
    BY DEF InitCache, Valid
  <1>2. TypeOKCache
    BY DEF InitCache, TypeOKCache
  <1>3. OneWindowPerStart /\ NoDuplicateLine /\ OthersWhole
    BY <1>1 DEF OneWindowPerStart, NoDuplicateLine, OthersWhole
  <1>4. OwnPrefix
    BY DEF InitCache, OwnPrefix
  <1> QED
    BY <1>2, <1>3, <1>4 DEF CacheInv, SetInv

(* The start of an insertion: with the lines of the same start gone, no    *)
(* line of the PW is there and the others are as whole as before.          *)
LEMMA BeginPreserves ==
  ASSUME SetInv, pc = "idle", NEW p \in Windows, p.lines <= Assoc,
         NEW loop \in {"room", "insert"}, BeginInsertion(p, loop),
         saved' \in [Starts -> Windows \cup {NoWindow}]
  PROVE  SetInv' /\ (OthersWhole => OthersWhole')
  <1> USE DEF SetInv
  <1>1. entries \in [Ways -> Line \cup {Invalid}]
    BY DEF TypeOKCache
  <1>2. \A v \in Ways :
          entries'[v] = IF Holds(entries, v, p.first) THEN Invalid ELSE entries[v]
    BY DEF BeginInsertion, InvalidateAll
  <1>3. TypeOKCache'
    BY <1>1 DEF TypeOKCache, BeginInsertion, InvalidateAll
  <1>4. \A v \in Ways : Valid(entries', v) =>
          /\ Valid(entries, v)
          /\ entries'[v] = entries[v]
          /\ entries[v].pw.first # p.first
    BY <1>2 DEF Valid, Holds
  <1>5. OneWindowPerStart'
    BY <1>4 DEF OneWindowPerStart, Holds
  <1>6. NoDuplicateLine'
    BY <1>2, <1>4 DEF NoDuplicateLine, Valid
  <1>7. OthersWhole => OthersWhole'
    <2> SUFFICES ASSUME OthersWhole, NEW w \in Ways, Valid(entries', w)
                 PROVE  entries'[w].pw \in Resident(entries')
      BY DEF OthersWhole
    <2>1. entries[w].pw \in Resident(entries) /\ entries'[w].pw = entries[w].pw
      BY <1>4 DEF OthersWhole
    <2>2. entries[w].pw.first # p.first
      BY <1>4
    <2>3. ASSUME NEW j \in 0..(entries[w].pw.lines - 1)
          PROVE  \E v \in Ways : entries'[v] = [pw |-> entries[w].pw, idx |-> j]
      <3>1. PICK v \in Ways : entries[v] = [pw |-> entries[w].pw, idx |-> j]
        BY <2>1 DEF Resident
      <3>2. ~Holds(entries, v, p.first)
        BY <2>2, <3>1 DEF Holds
      <3> QED
        BY <1>2, <3>1, <3>2
    <2> QED
      BY <2>1, <2>3 DEF Resident
  <1>8. OwnPrefix'
    <2>1. cur' = p /\ idx' = 0 /\ p.lines \in Nat \ {0}
      BY WindowFields DEF BeginInsertion
    <2>2. OwnWays' = {}
      BY <1>4, <2>1 DEF OwnWays, HitWays, Holds
    <2> QED
      BY <2>1, <2>2 DEF OwnPrefix
  <1> QED
    BY <1>3, <1>5, <1>6, <1>7, <1>8

(* An iteration of the insertion loop, in a free way or in a way of        *)
(* another PW: the PW's lines are there up to the new one, the other PWs   *)
(* are whole, because the rest of a victim goes with the replaced line.    *)
LEMMA PlacePreserves ==
  ASSUME SetInv, pc # "idle", NEW w \in Ways, w \notin OwnWays,
         entries' = Place(entries, w, cur, idx), Advance, saved' = saved
  PROVE  SetInv' /\ (OthersWhole => OthersWhole')
  <1> DEFINE line == [pw |-> cur, idx |-> idx]
             gone(v) == Valid(entries, w) /\ Holds(entries, v, entries[w].pw.first)
  <1> USE DEF SetInv
  <1>1. entries \in [Ways -> Line \cup {Invalid}] /\ idx \in Nat
    BY DEF TypeOKCache
  <1>2. /\ cur \in Windows /\ cur.lines <= Assoc /\ idx < cur.lines
        /\ \A v \in OwnWays : entries[v].pw = cur /\ entries[v].idx < idx
        /\ \A j \in 0..(idx - 1) : \E v \in Ways : entries[v] = [pw |-> cur, idx |-> j]
    BY DEF OwnPrefix
  <1>3. line \in Line /\ line # Invalid
    BY <1>1, <1>2, SentinelAssumption DEF Line
  <1>4. \A v \in Ways :
          entries'[v] = IF v = w THEN line ELSE IF gone(v) THEN Invalid ELSE entries[v]
    BY <1>2, PlaceEffect
  <1>5. \A v \in Ways : Valid(entries', v) /\ v # w =>
          /\ entries'[v] = entries[v]
          /\ Valid(entries, v)
          /\ ~gone(v)
    BY <1>4 DEF Valid
  <1>6. \A v \in Ways : Valid(entries, v) /\ ~gone(v) /\ v # w =>
          entries'[v] = entries[v]
    BY <1>4
  <1>7. Valid(entries, w) => entries[w].pw.first # cur.first
    BY DEF OwnWays, HitWays, Holds
  <1>8. \A v \in Ways : Valid(entries, v) =>
          (entries[v].pw.first = cur.first <=> entries[v].pw = cur)
    BY <1>2 DEF OwnWays, HitWays, Holds
  <1>9. Place(entries, w, cur, idx) \in [Ways -> Line \cup {Invalid}]
    BY <1>1, <1>3 DEF Place, InvalidateAll, Overwrite
  <1>10. TypeOKCache'
    BY <1>2, <1>9 DEF TypeOKCache, Advance
  <1>11. OneWindowPerStart'
    <2> SUFFICES ASSUME NEW u \in Ways, NEW v \in Ways, Valid(entries', u),
                        Holds(entries', v, entries'[u].pw.first)
                 PROVE  entries'[u].pw = entries'[v].pw
      BY DEF OneWindowPerStart
    <2>1. Valid(entries', v) /\ entries'[v].pw.first = entries'[u].pw.first
      BY DEF Holds
    <2>2. CASE u # w /\ v # w
      BY <1>5, <2>1, <2>2 DEF OneWindowPerStart, Holds
    <2>3. CASE u = w \/ v = w
      <3>1. entries'[w] = line /\ line.pw = cur
        BY <1>4
      <3>2. \A x \in Ways : Valid(entries', x) /\ entries'[x].pw.first = cur.first
                             => entries'[x].pw = cur
        BY <1>5, <1>8, <3>1
      <3> QED
        BY <2>1, <2>3, <3>1, <3>2
    <2> QED
      BY <2>2, <2>3
  <1>12. NoDuplicateLine'
    <2> SUFFICES ASSUME NEW u \in Ways, NEW v \in Ways, Valid(entries', u),
                        entries'[u] = entries'[v]
                 PROVE  u = v
      BY DEF NoDuplicateLine
    <2>1. Valid(entries', v)
      BY DEF Valid
    <2>2. CASE u # w /\ v # w
      BY <1>5, <2>1, <2>2 DEF NoDuplicateLine
    <2>3. ASSUME NEW x \in Ways, x # w, Valid(entries', x)
          PROVE  entries'[x] # line
      <3>1. entries'[x] = entries[x] /\ Valid(entries, x)
        BY <1>5, <2>3
      <3>2. CASE x \in OwnWays
        <4>1. entries[x].idx < idx /\ line.idx = idx
          BY <1>2, <3>2
        <4> QED
          BY <1>1, <3>1, <4>1
      <3>3. CASE x \notin OwnWays
        <4>1. entries[x].pw.first # cur.first /\ line.pw = cur
          BY <3>1, <3>3 DEF OwnWays, HitWays, Holds
        <4> QED
          BY <3>1, <4>1
      <3> QED
        BY <3>2, <3>3
    <2> QED
      BY <1>4, <2>1, <2>2, <2>3
  <1>13. \A j \in 0..idx : \E v \in Ways : entries'[v] = [pw |-> cur, idx |-> j]
    <2> SUFFICES ASSUME NEW j \in 0..idx
                 PROVE  \E v \in Ways : entries'[v] = [pw |-> cur, idx |-> j]
      OBVIOUS
    <2>1. CASE j = idx
      BY <1>4, <2>1
    <2>2. CASE j # idx
      <3>1. PICK v \in Ways : entries[v] = [pw |-> cur, idx |-> j]
        BY <1>1, <1>2, <2>2
      <3>2. [pw |-> cur, idx |-> j] # Invalid
        BY <1>1, <1>2, SentinelAssumption DEF Line
      <3>3. v \in OwnWays
        BY <3>1, <3>2 DEF OwnWays, HitWays, Holds, Valid
      <3>4. entries'[v] = entries[v]
        BY <1>2, <3>3, PlaceKeepsOwn
      <3> QED
        BY <3>1, <3>4
    <2> QED
      BY <2>1, <2>2
  <1>14. ASSUME OthersWhole, NEW v \in Ways, Valid(entries', v), entries'[v].pw # cur
         PROVE  entries'[v].pw \in Resident(entries')
    <2>1. v # w /\ entries'[v] = entries[v] /\ Valid(entries, v) /\ ~gone(v)
      BY <1>4, <1>5, <1>14
    <2>2. entries[v].pw \in Resident(entries)
      BY <1>14, <2>1 DEF OthersWhole
    <2>3. ASSUME NEW j \in 0..(entries[v].pw.lines - 1)
          PROVE  \E x \in Ways : entries'[x] = [pw |-> entries[v].pw, idx |-> j]
      <3>1. PICK x \in Ways : entries[x] = [pw |-> entries[v].pw, idx |-> j]
        BY <2>2 DEF Resident
      <3>2. entries[v].pw \in Windows /\ j \in Nat
        BY <2>2, <2>3, WindowFields DEF Resident
      <3>3. Valid(entries, x)
        BY <3>1, <3>2, SentinelAssumption DEF Valid, Line
      <3>4. x # w
        BY <2>1, <3>1, <3>3 DEF Holds
      <3>5. ~gone(x)
        BY <2>1, <3>1 DEF Holds
      <3> QED
        BY <1>6, <3>1, <3>3, <3>4, <3>5
    <2> QED
      BY <2>1, <2>2, <2>3 DEF Resident
  <1>15. OthersWhole => OthersWhole'
    <2> SUFFICES ASSUME OthersWhole, NEW v \in Ways, Valid(entries', v),
                        pc' # "idle" => entries'[v].pw # cur'
                 PROVE  entries'[v].pw \in Resident(entries')
      BY DEF OthersWhole
    <2>1. CASE entries'[v].pw # cur
      BY <1>14, <2>1
    <2>2. CASE entries'[v].pw = cur
      <3>1. idx + 1 = cur.lines
        BY <2>2 DEF Advance
      <3>2. \A j \in 0..(cur.lines - 1) : \E x \in Ways : entries'[x] = [pw |-> cur, idx |-> j]
        BY <1>1, <1>13, <3>1
      <3> QED
        BY <1>2, <2>2, <3>2 DEF Resident
    <2> QED
      BY <2>1, <2>2
  <1>16. OwnPrefix'
    <2> SUFFICES ASSUME pc' # "idle"
                 PROVE  /\ cur' \in Windows /\ cur'.lines <= Assoc /\ idx' < cur'.lines
                        /\ \A v \in OwnWays' : entries'[v].pw = cur' /\ entries'[v].idx < idx'
                        /\ \A j \in 0..(idx' - 1) :
                             \E v \in Ways : entries'[v] = [pw |-> cur', idx |-> j]
      BY DEF OwnPrefix
    <2>1. cur' = cur /\ idx' = idx + 1 /\ idx + 1 # cur.lines
      BY DEF Advance
    <2>2. cur' \in Windows /\ cur'.lines <= Assoc /\ idx' < cur'.lines
      BY <1>1, <1>2, <2>1, WindowFields
    <2>3. ASSUME NEW v \in OwnWays'
          PROVE  entries'[v].pw = cur' /\ entries'[v].idx < idx'
      <3>1. v \in Ways /\ Valid(entries', v) /\ entries'[v].pw.first = cur.first
        BY <2>1 DEF OwnWays, HitWays, Holds
      <3>2. CASE v = w
        BY <1>1, <1>4, <2>1, <3>2
      <3>3. CASE v # w
        <4>1. entries'[v] = entries[v] /\ v \in OwnWays
          BY <1>5, <3>1, <3>3 DEF OwnWays, HitWays, Holds
        <4>2. entries[v].idx \in Nat
          BY <1>1, <3>1, <4>1 DEF Line, Valid
        <4> QED
          BY <1>1, <1>2, <2>1, <4>1, <4>2
      <3> QED
        BY <3>2, <3>3
    <2>4. \A j \in 0..(idx' - 1) : \E v \in Ways : entries'[v] = [pw |-> cur', idx |-> j]
      BY <1>1, <1>13, <2>1
    <2> QED
      BY <2>2, <2>3, <2>4
  <1> QED
    BY <1>10, <1>11, <1>12, <1>15, <1>16

(* PWs leave as a whole when all lines of some start addresses are removed.*)
LEMMA LeavePreserves ==
  ASSUME SetInv, pc = "idle", NEW S,
         entries' = [w \in Ways |-> IF Valid(entries, w) /\ entries[w].pw.first \in S
                                    THEN Invalid ELSE entries[w]],
         UNCHANGED <<pc, cur, idx>>,
         saved' \in [Starts -> Windows \cup {NoWindow}]
  PROVE  SetInv' /\ (OthersWhole => OthersWhole')
  <1> USE DEF SetInv
  <1>1. \A v \in Ways : Valid(entries', v) =>
          /\ Valid(entries, v)
          /\ entries'[v] = entries[v]
          /\ entries[v].pw.first \notin S
    BY DEF Valid
  <1>2. TypeOKCache'
    BY DEF TypeOKCache
  <1>3. OneWindowPerStart'
    BY <1>1 DEF OneWindowPerStart, Holds
  <1>4. NoDuplicateLine'
    BY <1>1 DEF NoDuplicateLine, Valid
  <1>5. OthersWhole => OthersWhole'
    <2> SUFFICES ASSUME OthersWhole, NEW w \in Ways, Valid(entries', w)
                 PROVE  entries'[w].pw \in Resident(entries')
      BY DEF OthersWhole
    <2>1. /\ entries[w].pw \in Resident(entries) /\ entries'[w].pw = entries[w].pw
          /\ entries[w].pw.first \notin S
      BY <1>1 DEF OthersWhole
    <2>2. ASSUME NEW j \in 0..(entries[w].pw.lines - 1)
          PROVE  \E v \in Ways : entries'[v] = [pw |-> entries[w].pw, idx |-> j]
      <3>1. PICK v \in Ways : entries[v] = [pw |-> entries[w].pw, idx |-> j]
        BY <2>1 DEF Resident
      <3>2. entries[v].pw.first \notin S
        BY <2>1, <3>1
      <3> QED
        BY <3>1, <3>2
    <2> QED
      BY <2>1, <2>2 DEF Resident
  <1>6. OwnPrefix'
    BY DEF OwnPrefix
  <1> QED
    BY <1>2, <1>3, <1>4, <1>5, <1>6

(* A replaced line of the instruction cache takes whole PWs with it.       *)
LEMMA DropPreserves ==
  ASSUME SetInv, pc = "idle", NEW l, entries' = DropICacheLine(entries, l),
         UNCHANGED <<pc, cur, idx, saved>>
  PROVE  SetInv' /\ (OthersWhole => OthersWhole')
  <1> DEFINE S == {a \in Starts : a \div LineSize = l}
  <1>1. \A w \in Ways : Valid(entries, w) => entries[w].pw.first \in Starts
    BY DEF SetInv, TypeOKCache, Line, Valid, Starts
  <1>2. entries' = [w \in Ways |-> IF Valid(entries, w) /\ entries[w].pw.first \in S
                                   THEN Invalid ELSE entries[w]]
    BY <1>1 DEF DropICacheLine, InICacheLine
  <1>3. saved' \in [Starts -> Windows \cup {NoWindow}]
    BY DEF SetInv, TypeOKCache
  <1> HIDE DEF S
  <1> QED
    BY <1>2, <1>3, LeavePreserves

(* So does the removal of the PW with the same start as another.           *)
LEMMA InvalidateAllPreserves ==
  ASSUME SetInv, pc = "idle", NEW a, entries' = InvalidateAll(entries, a),
         UNCHANGED <<pc, cur, idx>>,
         saved' \in [Starts -> Windows \cup {NoWindow}]
  PROVE  SetInv' /\ (OthersWhole => OthersWhole')
  <1>1. entries' = [w \in Ways |-> IF Valid(entries, w) /\ entries[w].pw.first \in {a}
                                   THEN Invalid ELSE entries[w]]
    BY DEF InvalidateAll, Holds
  <1> QED
    BY <1>1, LeavePreserves

(* Steps of a search that has not found its way yet. *)
LEMMA SearchPreserves ==
  ASSUME SetInv, UNCHANGED <<entries, cur, idx>>,
         pc' \in {"idle", "room", "insert", "degrade"}, pc' = "idle" <=> pc = "idle",
         saved' \in [Starts -> Windows \cup {NoWindow}]
  PROVE  SetInv' /\ (OthersWhole => OthersWhole')
  <1> USE DEF SetInv
  <1>1. TypeOKCache'
    BY DEF TypeOKCache
  <1>2. OneWindowPerStart' /\ NoDuplicateLine'
    BY DEF OneWindowPerStart, NoDuplicateLine, Valid, Holds
  <1>3. OthersWhole => OthersWhole'
    BY DEF OthersWhole, Valid, Resident
  <1>4. OwnPrefix'
    BY DEF OwnPrefix, OwnWays, HitWays, Holds, Valid
  <1> QED
    BY <1>1, <1>2, <1>3, <1>4

-----------------------------------------------------------------------------
(* A set without a free way holds a line of another PW while a PW is being *)
(* inserted: the PW's lines differ, are fewer than it needs, and it needs  *)
(* no more than the set has ways.                                          *)
LEMMA OtherWaysExist ==
  ASSUME SetInv, pc # "idle"
  PROVE  OtherWays # {}
  <1> SUFFICES ASSUME OtherWays = {}
               PROVE  FALSE
    OBVIOUS
  <1> USE DEF SetInv
  <1>1. idx \in Nat /\ Assoc \in Nat
    BY AssocAssumption DEF TypeOKCache
  <1>2. /\ cur \in Windows /\ cur.lines <= Assoc /\ idx < cur.lines
        /\ \A v \in OwnWays : entries[v].pw = cur /\ entries[v].idx < idx
    BY DEF OwnPrefix
  <1>3. \A w \in Ways : Valid(entries, w) /\ entries[w].pw = cur /\ entries[w].idx < idx
    BY <1>2 DEF OtherWays, OwnWays, HitWays, Holds
  <1>4. \A w \in Ways : entries[w] \in Line
    BY <1>3 DEF TypeOKCache, Valid
  <1> DEFINE place == [w \in Ways |-> entries[w].idx]
  <1>5. place \in [Ways -> 0..(idx - 1)]
    BY <1>1, <1>3, <1>4 DEF Line
  <1>6. IsFiniteSet(Ways) /\ Cardinality(Ways) = Assoc
    BY <1>1, AssocAssumption, FS_Interval DEF Ways
  <1>7. IsFiniteSet(0..(idx - 1)) /\ Cardinality(0..(idx - 1)) = idx
    BY <1>1, FS_Interval
  <1>8. idx < Assoc
    BY <1>1, <1>2, WindowFields
  <1>9. \E u, v \in Ways : u # v /\ place[u] = place[v]
    <2> HIDE DEF place
    <2> DEFINE S == 0..(idx - 1)
    <2>1. IsFiniteSet(Ways) /\ IsFiniteSet(S) /\ place \in [Ways -> S]
      BY <1>5, <1>6, <1>7
    <2>2. Cardinality(S) < Cardinality(Ways)
      BY <1>6, <1>7, <1>8
    <2> HIDE DEF S
    <2> QED
      BY <2>1, <2>2, FS_PigeonHole
  <1>10. PICK u, v \in Ways : u # v /\ place[u] = place[v]
    BY <1>9
  <1>11. entries[u] = entries[v]
    BY <1>3, <1>4, <1>10 DEF Line
  <1> QED
    BY <1>3, <1>10, <1>11 DEF NoDuplicateLine

-----------------------------------------------------------------------------
(* The steps of the set, seen as steps of a WindowCache.                   *)

(* Visible windows have all of their lines in the set, unless their own    *)
(* insertion is under way.                                                 *)
LEMMA VisibleIsResident ==
  ASSUME CacheInv
  PROVE  Visible \subseteq Resident(entries)
  BY DEF CacheInv, Visible, OthersWhole

(* The visible windows fit: each of their lines has a way of its own.      *)
LEMMA VisibleFits == CacheInv => Promise!Fits(Visible)
  <1> SUFFICES ASSUME CacheInv
               PROVE  Promise!Fits(Visible)
    OBVIOUS
  <1> USE DEF CacheInv, SetInv
  <1> DEFINE L == Promise!LinesOf(Visible)
             way == [x \in L |-> CHOOSE w \in Ways :
                                  entries[w] = [pw |-> x[1], idx |-> x[2] - 1]]
  <1>1. \A x \in L : x[1] \in Visible /\ x[2] \in 1..x[1].lines
                    /\ x = <<x[1], x[2]>>
    BY DEF Promise!LinesOf
  <1>2. \A x \in L : \E w \in Ways : entries[w] = [pw |-> x[1], idx |-> x[2] - 1]
    <2> SUFFICES ASSUME NEW x \in L
                 PROVE  \E w \in Ways : entries[w] = [pw |-> x[1], idx |-> x[2] - 1]
      OBVIOUS
    <2>1. x[1] \in Resident(entries) /\ x[1] \in Windows
      BY <1>1, VisibleIsResident DEF Visible
    <2>2. x[2] - 1 \in 0..(x[1].lines - 1)
      BY <1>1, <2>1, WindowFields
    <2> QED
      BY <2>1, <2>2 DEF Resident
  <1>3. \A x \in L : way[x] \in Ways /\ entries[way[x]] = [pw |-> x[1], idx |-> x[2] - 1]
    BY <1>2
  <1> HIDE DEF way
  <1>4. ASSUME NEW x \in L, NEW y \in L, way[x] = way[y]
        PROVE  x = y
    <2> HIDE DEF L
    <2>1. x[1] = y[1] /\ x[2] - 1 = y[2] - 1
      <3>1. [pw |-> x[1], idx |-> x[2] - 1] = [pw |-> y[1], idx |-> y[2] - 1]
        BY <1>3, <1>4
      <3> QED
        BY <3>1
    <2>2. x[2] \in Int /\ y[2] \in Int
      BY <1>1
    <2>3. x[2] = y[2]
      BY <2>1, <2>2
    <2> QED
      BY <1>1, <2>1, <2>3
  <1>5. way \in [L -> Ways]
    BY <1>3 DEF way
  <1>6. IsFiniteSet(Ways) /\ Cardinality(Ways) = Assoc
    BY AssocAssumption, FS_Interval DEF Ways
  <1>7. Cardinality(L) <= Assoc
    <2> HIDE DEF L
    <2>1. way \in Injection(L, Ways)
      BY <1>4, <1>5 DEF Injection, IsInjective
    <2> QED
      BY <1>6, <2>1, FS_Injection
  <1>8. ASSUME NEW p \in Visible, NEW q \in Visible, p.first = q.first
        PROVE  p = q
    <2>1. PICK v \in Ways : Valid(entries, v) /\ entries[v].pw = p
      BY DEF Visible
    <2>2. PICK w \in Ways : Valid(entries, w) /\ entries[w].pw = q
      BY DEF Visible
    <2> QED
      BY <1>8, <2>1, <2>2 DEF OneWindowPerStart, Holds
  <1>9. Promise!Cardinality(L) = Cardinality(L)
    BY DEF Promise!Cardinality, Cardinality
  <1> QED
    BY <1>7, <1>8, <1>9 DEF Promise!Fits

(* A step that only removes visible windows is a step of the promise.      *)
LEMMA LeaveIsPromised ==
  ASSUME Visible' \subseteq Visible
  PROVE  [Promise!Next]_Visible
  BY DEF Promise!Next, Promise!Leave

(* Before an insertion, or between two, lines are only removed.            *)
LEMMA RemovalIsPromised ==
  ASSUME \A w \in Ways : entries'[w] \in {entries[w], Invalid},
         pc = "idle" \/ (pc' # "idle" /\ cur' = cur)
  PROVE  [Promise!Next]_Visible
  <1>1. \A w \in Ways : Valid(entries', w) =>
          Valid(entries, w) /\ entries'[w] = entries[w]
    BY DEF Valid
  <1>2. Visible' \subseteq Visible
    BY <1>1 DEF Visible
  <1> QED
    BY <1>2, LeaveIsPromised

(* The last line of a PW makes it visible as a whole; the lines before it  *)
(* only remove others.                                                     *)
LEMMA PlaceIsPromised ==
  ASSUME CacheInv, CacheInv', pc # "idle", NEW w \in Ways, w \notin OwnWays,
         entries' = Place(entries, w, cur, idx), Advance
  PROVE  [Promise!Next]_Visible
  <1>1. TypeOKCache /\ cur \in Windows
    BY DEF CacheInv, SetInv, OwnPrefix
  <1>2. \A v \in Ways : Valid(entries', v) /\ entries'[v].pw # cur =>
          Valid(entries, v) /\ entries[v].pw = entries'[v].pw
    BY <1>1, PlaceEffect DEF Valid
  <1>3. Visible' \subseteq Visible \cup {cur}
    BY <1>2 DEF Visible
  <1>4. CASE pc' # "idle"
    <2>1. cur' = cur
      BY <1>4 DEF Advance
    <2>2. cur \notin Visible'
      BY <1>4, <2>1 DEF Visible
    <2> QED
      BY <1>3, <2>2, LeaveIsPromised
  <1>5. CASE pc' = "idle"
    <2>1. cur \in Visible'
      <3>1. entries'[w] = [pw |-> cur, idx |-> idx]
        BY <1>1, PlaceEffect
      <3>2. entries'[w] \in Line
        BY <1>1, <3>1 DEF Line, TypeOKCache
      <3> QED
        BY <1>1, <1>5, <3>1, <3>2, SentinelAssumption DEF Visible, Valid
    <2>2. cur \notin Visible
      BY DEF Visible
    <2>3. Visible' = (Visible \ (Visible \ Visible')) \cup {cur}
      BY <1>3, <2>1
    <2>4. (CacheInv => Promise!Fits(Visible))'
      BY VisibleFits, PTL
    <2>5. Promise!Fits(Visible')
      BY <2>4 DEF Promise!Fits
    <2>6. Promise!Enter(cur)
      BY <2>2, <2>3, <2>5 DEF Promise!Enter
    <2> QED
      BY <1>1, <2>6 DEF Promise!Next
  <1> QED
    BY <1>4, <1>5

-----------------------------------------------------------------------------
(* What a policy may do to the set: place a line of cur in a way that      *)
(* holds no other line of cur, or place nothing.  Outside of an insertion  *)
(* lines may go, and during one a search leaves the set alone.             *)
PlacesLine ==
  /\ pc # "idle"
  /\ \E w \in Ways \ OwnWays : entries' = Place(entries, w, cur, idx)
  /\ Advance

PlacesNothing ==
  \/ /\ pc = "idle"
     /\ \A w \in Ways : entries'[w] \in {entries[w], Invalid}
  \/ pc' # "idle" /\ UNCHANGED <<entries, cur>>

(* A policy that does nothing else never evicts what it has itself placed. *)
LEMMA StepKeepsOwn ==
  ASSUME SetInv, pc # "idle", PlacesLine \/ PlacesNothing, NEW w \in OwnWays
  PROVE  entries'[w] = entries[w]
  <1>1. CASE PlacesLine
    <2>1. TypeOKCache /\ cur \in Windows
      BY DEF SetInv, OwnPrefix
    <2> QED
      BY <1>1, <2>1, PlaceKeepsOwn DEF PlacesLine
  <1>2. CASE PlacesNothing
    BY <1>2 DEF PlacesNothing
  <1> QED
    BY <1>1, <1>2

(* And when its insertion ends, all lines of the PW are there.             *)
LEMMA StepCompletes ==
  ASSUME SetInv, pc # "idle", pc' = "idle", PlacesLine \/ PlacesNothing
  PROVE  cur \in Resident(entries')
  <1>1. /\ TypeOKCache /\ cur \in Windows /\ idx \in Nat
        /\ \A j \in 0..(idx - 1) : \E w \in Ways : entries[w] = [pw |-> cur, idx |-> j]
    BY DEF SetInv, OwnPrefix, TypeOKCache
  <1>2. idx + 1 = cur.lines
    BY DEF PlacesLine, PlacesNothing, Advance
  <1>3. PICK x \in Ways \ OwnWays : entries' = Place(entries, x, cur, idx)
    BY DEF PlacesLine, PlacesNothing
  <1>4. entries'[x] = [pw |-> cur, idx |-> idx]
    BY <1>1, <1>3, PlaceEffect
  <1>5. ASSUME NEW j \in 0..(cur.lines - 1), j # idx
        PROVE  \E w \in Ways : entries'[w] = [pw |-> cur, idx |-> j]
    <2>1. j \in 0..(idx - 1)
      BY <1>1, <1>2, <1>5
    <2>2. PICK w \in Ways : entries[w] = [pw |-> cur, idx |-> j]
      BY <1>1, <2>1
    <2>3. [pw |-> cur, idx |-> j] # Invalid
      BY <1>1, <2>1, SentinelAssumption DEF Line
    <2>4. w \in OwnWays
      BY <2>2, <2>3 DEF OwnWays, HitWays, Holds, Valid
    <2> QED
      BY <2>2, <2>4, StepKeepsOwn
  <1> QED
    BY <1>1, <1>4, <1>5 DEF Resident

(* Its steps are steps of a WindowCache. *)
LEMMA StepIsPromised ==
  ASSUME CacheInv, CacheInv', PlacesLine \/ PlacesNothing
  PROVE  [Promise!Next]_Visible
  <1>1. CASE PlacesLine
    <2>1. PICK w \in Ways \ OwnWays : entries' = Place(entries, w, cur, idx)
      BY <1>1 DEF PlacesLine
    <2> QED
      BY <1>1, <2>1, PlaceIsPromised DEF PlacesLine
  <1>2. CASE PlacesNothing
    BY <1>2, RemovalIsPromised DEF PlacesNothing
  <1> QED
    BY <1>1, <1>2

(* And it begins as one. *)
LEMMA InitIsPromised ==
  ASSUME InitCache
  PROVE  Promise!Init
  <1>1. \A w \in Ways : ~Valid(entries, w)
    BY DEF InitCache, Valid
  <1> QED
    BY <1>1 DEF Promise!Init, Visible

-----------------------------------------------------------------------------
(* The ways of the PW that is being inserted. *)

(* The start of an insertion leaves it none. *)
LEMMA BeginLeavesNoOwn ==
  ASSUME NEW p, NEW loop, BeginInsertion(p, loop)
  PROVE  OwnWays' = {}
  <1>1. cur' = p /\ entries' = InvalidateAll(entries, p.first)
    BY DEF BeginInsertion
  <1>2. \A w \in Ways : ~Holds(entries', w, p.first)
    BY <1>1 DEF InvalidateAll, Holds, Valid
  <1> QED
    BY <1>1, <1>2 DEF OwnWays, HitWays

(* An iteration of the insertion loop adds the replaced way. *)
LEMMA OwnWaysGrow ==
  ASSUME TypeOKCache, cur \in Windows, NEW w \in Ways, w \notin OwnWays,
         entries' = Place(entries, w, cur, idx), cur' = cur,
         NEW v \in OwnWays', v # w
  PROVE  v \in OwnWays
  <1>1. v \in Ways /\ Holds(entries', v, cur.first)
    BY DEF OwnWays, HitWays
  <1>2. entries'[v] = Invalid \/ entries'[v] = entries[v]
    BY <1>1, PlaceEffect
  <1> QED
    BY <1>1, <1>2 DEF OwnWays, HitWays, Holds, Valid

(* It frees none of them, nor the replaced way. *)
LEMMA WipedIsOther ==
  ASSUME TypeOKCache, NEW w \in Ways, w \notin OwnWays,
         NEW v \in Wiped(entries, w, cur, idx)
  PROVE  v \in Ways /\ v # w /\ v \notin OwnWays
  <1>1. /\ Valid(entries, w) /\ v \in Ways
        /\ Holds(Overwrite(entries, w, cur, idx), v, entries[w].pw.first)
    BY DEF Wiped, HitWays
  <1>2. entries[w].pw.first # cur.first
    BY <1>1 DEF OwnWays, HitWays, Holds
  <1>3. entries \in [Ways -> Line \cup {Invalid}]
    BY DEF TypeOKCache
  <1>4. v # w
    BY <1>1, <1>2, <1>3 DEF Holds, Overwrite
  <1>5. Holds(entries, v, entries[w].pw.first)
    BY <1>1, <1>3, <1>4 DEF Holds, Overwrite, Valid
  <1> QED
    BY <1>1, <1>2, <1>4, <1>5 DEF OwnWays, HitWays, Holds

-----------------------------------------------------------------------------
(* Insertions come to an end. *)

(* A set of natural numbers has a minimum. *)
LEMMA MinIsLeast ==
  ASSUME NEW S \in SUBSET Nat, S # {}
  PROVE  Min(S) \in S /\ \A y \in S : Min(S) <= y
  <1>1. PICK x \in S : \A y \in S : <<y, x>> \notin OpToRel(<, Nat)
    BY NatLessThanWellFounded, WFMin
  <1>2. \A y \in S : ~(y < x)
    BY <1>1, Zenon DEF OpToRel
  <1>3. \A y \in S : x <= y
    BY <1>2
  <1> QED
    BY <1>3 DEF Min

(* How far the values f of S are from m at least. *)
Distance(m, S, f) == Min({m - f[w] : w \in S})

(* There is such a value, and it is nearest to m. *)
LEMMA LeastDistance ==
  ASSUME NEW m \in Nat, NEW S, S # {}, NEW f, \A w \in S : f[w] \in 0..m
  PROVE  /\ Distance(m, S, f) \in 0..m
         /\ \E w \in S : Distance(m, S, f) = m - f[w]
         /\ \A w \in S : Distance(m, S, f) <= m - f[w]
  <1> DEFINE D == {m - f[w] : w \in S}
             d == Min(D)
  <1>1. D \in SUBSET Nat /\ D # {}
    OBVIOUS
  <1>2. d \in D /\ \A y \in D : d <= y
    BY <1>1, MinIsLeast
  <1> HIDE DEF d
  <1>3. /\ d \in 0..m
        /\ \E w \in S : d = m - f[w]
        /\ \A w \in S : d <= m - f[w]
    BY <1>2
  <1> QED
    BY <1>3 DEF d, Distance

(* It falls by one when each of the values, below m, grows by one. *)
LEMMA OnePassNearer ==
  ASSUME NEW m \in Nat, NEW S, S # {}, NEW f, \A w \in S : f[w] \in 0..m /\ f[w] # m,
         NEW g, \A w \in S : g[w] = f[w] + 1
  PROVE  Distance(m, S, f) \in Nat \ {0} /\ Distance(m, S, g) = Distance(m, S, f) - 1
  <1>1. /\ Distance(m, S, f) \in 0..m
        /\ \E w \in S : Distance(m, S, f) = m - f[w]
        /\ \A w \in S : Distance(m, S, f) <= m - f[w]
    BY LeastDistance
  <1>2. \A w \in S : g[w] \in 0..m
    OBVIOUS
  <1>3. /\ Distance(m, S, g) \in 0..m
        /\ \E w \in S : Distance(m, S, g) = m - g[w]
        /\ \A w \in S : Distance(m, S, g) <= m - g[w]
    BY <1>2, LeastDistance
  <1>4. PICK v \in S : Distance(m, S, f) = m - f[v]
    BY <1>1
  <1>5. PICK w \in S : Distance(m, S, g) = m - g[w]
    BY <1>3
  <1>6. /\ f[v] \in 0..m /\ f[v] # m /\ g[v] = f[v] + 1 /\ Distance(m, S, g) <= m - g[v]
        /\ f[w] \in 0..m /\ f[w] # m /\ g[w] = f[w] + 1 /\ Distance(m, S, f) <= m - f[w]
    BY <1>1, <1>3
  <1> QED
    BY <1>4, <1>5, <1>6

(* The lines that are still to be placed after this one. *)
LEMMA LinesAfter ==
  ASSUME SetInv, pc # "idle"
  PROVE  /\ cur.lines \in Nat \ {0} /\ idx \in Nat /\ idx < cur.lines
         /\ cur.lines - idx - 1 \in Nat
  <1>1. cur \in Windows /\ idx < cur.lines /\ idx \in Nat
    BY DEF SetInv, OwnPrefix, TypeOKCache
  <1> QED
    BY <1>1, WindowFields

(* An iteration within the search for a line leaves fewer steps. *)
LEMMA SearchIsNearer ==
  ASSUME SetInv, pc # "idle", UNCHANGED <<cur, idx>>,
         NEW r \in Nat, NEW s \in Nat, NEW t \in Nat, t < s
  PROVE  (IF pc' = "idle" THEN 0 ELSE (cur'.lines - idx' - 1) * r + t)
           \in 0..(StepsLeft(r, s) - 1)
  <1> DEFINE n == cur.lines - idx - 1
  <1>1. n \in Nat
    BY LinesAfter
  <1>2. n * r \in Nat
    BY <1>1
  <1>3. StepsLeft(r, s) = n * r + s /\ cur'.lines - idx' - 1 = n
    BY DEF StepsLeft
  <1> HIDE DEF n
  <1> QED
    BY <1>2, <1>3

(* So does the step that places a line. *)
LEMMA AdvanceIsNearer ==
  ASSUME SetInv, pc # "idle", Advance,
         NEW r \in Nat, NEW s \in Nat \ {0}, NEW t, pc' # "idle" => t \in 0..r
  PROVE  (IF pc' = "idle" THEN 0 ELSE (cur'.lines - idx' - 1) * r + t)
           \in 0..(StepsLeft(r, s) - 1)
  <1> DEFINE n == cur.lines - idx - 1
  <1>1. n \in Nat /\ cur.lines \in Nat /\ idx \in Nat
    BY LinesAfter
  <1>2. n * r \in Nat
    BY <1>1
  <1>3. StepsLeft(r, s) = n * r + s
    BY DEF StepsLeft
  <1>4. CASE pc' = "idle"
    <2> HIDE DEF n
    <2> QED
      BY <1>2, <1>3, <1>4
  <1>5. CASE pc' # "idle"
    <2>1. cur'.lines - idx' - 1 = n - 1 /\ n # 0
      BY <1>1, <1>5 DEF Advance
    <2> HIDE DEF n
    <2>2. n - 1 \in Nat
      BY <1>1, <2>1
    <2>3. (n - 1) * r \in Nat /\ (n - 1) * r + r = n * r
      BY <1>1, <2>2
    <2> QED
      BY <1>2, <1>3, <1>5, <2>1, <2>3
  <1> QED
    BY <1>4, <1>5

(* There are never more steps than the set has ways times those of a line. *)
LEMMA StepsAreBounded ==
  ASSUME SetInv, NEW r \in Nat, NEW s, pc # "idle" => s \in 0..r
  PROVE  StepsLeft(r, s) \in 0..(Assoc * r)
  <1>1. Assoc \in Nat /\ Assoc * r \in Nat
    BY AssocAssumption
  <1>2. CASE pc = "idle"
    BY <1>1, <1>2 DEF StepsLeft
  <1>3. CASE pc # "idle"
    <2> DEFINE n == cur.lines - idx - 1
               d == Assoc - 1 - n
    <2>1. n \in Nat /\ d \in Nat /\ Assoc = n + 1 + d
      BY <1>1, <1>3, LinesAfter DEF SetInv, OwnPrefix
    <2>2. StepsLeft(r, s) = n * r + s
      BY <1>3 DEF StepsLeft
    <2> HIDE DEF n, d
    <2>3. n * r \in Nat /\ d * r \in Nat /\ Assoc * r = n * r + r + d * r
      BY <2>1
    <2> QED
      BY <1>3, <2>2, <2>3
  <1> QED
    BY <1>2, <1>3

=============================================================================
