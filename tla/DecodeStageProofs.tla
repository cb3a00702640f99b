------------------------- MODULE DecodeStageProofs -------------------------
(***************************************************************************)
(* The pipeline of the decode stage, for every depth, width and number of  *)
(* ops: moving cached uops ahead, shifting, stalling and flushing keep the *)
(* order of the program, and the accumulation is called for one op after   *)
(* the other.  Then the loop of fetch, decode and the cache, in which this *)
(* stage is a queue of uops, for every program and size: what a lookup has *)
(* found is still there when the uop is fetched, and a PW is entered at    *)
(* its start.                                                              *)
(***************************************************************************)
EXTENDS DecodeStage, FrontEnd, SequenceTheorems, FiniteSetTheorems, TLAPS

-----------------------------------------------------------------------------
(* Extremal elements. *)

(* A set of natural numbers has a minimum. *)
LEMMA MinIsLeast ==
  ASSUME NEW S \in SUBSET Nat, S # {}
  PROVE  Min(S) \in S /\ \A y \in S : Min(S) <= y
  <1>1. PICK x \in S : \A y \in S : <<y, x>> \notin OpToRel(<, Nat)
    BY NatLessThanWellFounded, WFMin
  <1>2. \A y \in S : ~(y < x)
    BY <1>1, Zenon DEF OpToRel
  <1>3. \A y \in S : x <= y
    BY <1>2
  <1> QED
    BY <1>3 DEF Min

(* A bounded one has a maximum. *)
LEMMA MaxIsGreatest ==
  ASSUME NEW n \in Nat, NEW S \in SUBSET (0..n), S # {}
  PROVE  Max(S) \in S /\ \A y \in S : y <= Max(S)
  <1> DEFINE T == {k \in 0..n : n - k \in S}
  <1>1. T \in SUBSET Nat
    OBVIOUS
  <1>2. T # {}
    <2>1. PICK y \in S : TRUE
      OBVIOUS
    <2>2. y \in 0..n /\ n - y \in 0..n /\ n - (n - y) = y
      BY <2>1
    <2> QED
      BY <2>1, <2>2
  <1>3. Min(T) \in T /\ \A y \in T : Min(T) <= y
    BY <1>1, <1>2, MinIsLeast
  <1>4. PICK m \in 0..n : n - m \in S /\ \A k \in T : m <= k
    BY <1>3
  <1>5. ASSUME NEW y \in S
        PROVE  y <= n - m
    <2>1. y \in 0..n /\ n - y \in 0..n /\ n - (n - y) = y
      OBVIOUS
    <2>2. m <= n - y
      BY <1>4, <2>1
    <2> QED
      BY <1>4, <2>1, <2>2
  <1> QED
    BY <1>4, <1>5 DEF Max

-----------------------------------------------------------------------------
(* The indices that update_decode_stage computes. *)

(* The pipeline, whatever is in it. *)
Pipe(s, ops) == s \in [Slots -> Seq(Op)] /\ ops \in Seq(Op)

Narrow(s, ops) == (\A k \in Slots : Len(s[k]) <= Width) /\ Len(ops) <= Width

(* A place of the pipeline holds a sequence of ops. *)
LEMMA AtType ==
  ASSUME NEW s, NEW ops, Pipe(s, ops), NEW k \in 0..Depth
  PROVE  At(s, ops, k) \in Seq(Op) /\ Len(At(s, ops, k)) \in Nat
  BY DecodeAssumption DEF Pipe, At, Slots

LEMMA FirstEmptyFacts ==
  ASSUME NEW s
  PROVE  /\ FirstEmpty(s) \in 0..Depth
         /\ FirstEmpty(s) < Depth => s[FirstEmpty(s)] = <<>>
         /\ \A k \in Slots : k < FirstEmpty(s) => s[k] # <<>>
  <1> DEFINE S == {k \in Slots : s[k] = <<>>} \cup {Depth}
  <1>1. S \in SUBSET Nat /\ S # {} /\ S \subseteq 0..Depth
    BY DecodeAssumption DEF Slots
  <1>2. Min(S) \in S /\ \A y \in S : Min(S) <= y
    BY <1>1, MinIsLeast
  <1> DEFINE e == Min(S)
  <1>3. FirstEmpty(s) = e
    BY DEF FirstEmpty
  <1>4. e \in S /\ \A y \in S : e <= y
    BY <1>2
  <1> HIDE DEF e
  <1>5. e \in 0..Depth /\ (e < Depth => s[e] = <<>>)
    BY <1>1, <1>4
  <1>6. ASSUME NEW k \in Slots, k < e
        PROVE  s[k] # <<>>
    BY <1>4, <1>5, <1>6, DecodeAssumption DEF Slots
  <1> QED
    BY <1>3, <1>5, <1>6

LEMMA EmptyStageFacts ==
  ASSUME NEW s
  PROVE  /\ EmptyStageIdx(s) \in 0..Depth
         /\ \A j \in Slots : j >= EmptyStageIdx(s) => s[j] = <<>>
         /\ EmptyStageIdx(s) > 0 => s[EmptyStageIdx(s) - 1] # <<>>
  <1> DEFINE S == {k \in 0..Depth : \A j \in k..(Depth - 1) : s[j] = <<>>}
             e == Min(S)
  <1>1. S \in SUBSET Nat /\ Depth \in S
    BY DecodeAssumption
  <1>2. e \in S /\ \A y \in S : e <= y
    BY <1>1, MinIsLeast
  <1>3. e = EmptyStageIdx(s)
    BY DEF EmptyStageIdx
  <1> HIDE DEF e
  <1>4. e \in 0..Depth /\ \A j \in e..(Depth - 1) : s[j] = <<>>
    BY <1>2
  <1>5. ASSUME e > 0, s[e - 1] = <<>>
        PROVE  FALSE
    <2>1. \A j \in (e - 1)..(Depth - 1) : s[j] = <<>>
      BY <1>4, <1>5, DecodeAssumption
    <2>2. e - 1 \in S
      BY <1>4, <1>5, <2>1, DecodeAssumption
    <2> QED
      BY <1>2, <1>4, <2>2
  <1> QED
    BY <1>3, <1>4, <1>5, DecodeAssumption DEF Slots

LEMMA CachedPrefixType ==
  ASSUME NEW ops \in Seq(Op)
  PROVE  CachedPrefix(ops) \in 0..Len(ops)
  <1> DEFINE S == {n \in 0..Len(ops) : \A i \in 1..n : ops[i].uc}
  <1>1. S \in SUBSET 0..Len(ops) /\ 0 \in S
    OBVIOUS
  <1>2. Len(ops) \in Nat
    OBVIOUS
  <1>3. Max(S) \in S
    BY <1>1, <1>2, MaxIsGreatest
  <1> QED
    BY <1>3 DEF CachedPrefix

(* How many uops are appended to the last occupied slot, and how many move. *)
LEMMA MovedFacts ==
  ASSUME NEW s, NEW ops, Pipe(s, ops), Narrow(s, ops)
  PROVE  LET e == EmptyStageIdx(s)
             a == Appended(s, ops)
             m == Moved(s, ops)
         IN  /\ a \in 0..Len(ops) /\ m \in 0..Len(ops) /\ a <= m
             /\ e = 0 => a = 0
             /\ e > 0 => Len(s[e - 1]) + a <= Width
             /\ e >= Depth - 1 => m = a
  <1> DEFINE e == EmptyStageIdx(s)
             c == CachedPrefix(ops)
  <1>1. c \in 0..Len(ops) /\ e \in 0..Depth
    BY CachedPrefixType, EmptyStageFacts DEF Pipe
  <1> HIDE DEF e, c
  <1>2. ASSUME e > 0
        PROVE  /\ Min({c, Width - Len(s[e - 1])}) \in 0..c
               /\ Len(s[e - 1]) + Min({c, Width - Len(s[e - 1])}) <= Width
    <2>1. s[e - 1] \in Seq(Op) /\ Len(s[e - 1]) \in 0..Width
      BY <1>1, <1>2, DecodeAssumption DEF Pipe, Narrow, Slots
    <2> DEFINE room == Width - Len(s[e - 1])
               b == Min({c, room})
    <2>2. c \in Nat /\ room \in Nat
      BY <1>1, <2>1, DecodeAssumption
    <2> HIDE DEF room
    <2>3. b \in {c, room} /\ \A y \in {c, room} : b <= y
      BY <2>2, MinIsLeast
    <2> HIDE DEF b
    <2>4. b \in 0..c /\ b <= room
      BY <2>2, <2>3
    <2>5. Len(s[e - 1]) + b <= Width
      BY <2>1, <2>2, <2>4, DecodeAssumption DEF room
    <2> QED
      BY <2>4, <2>5 DEF b, room
  <1>3. Appended(s, ops) = IF e = 0 THEN 0 ELSE Min({c, Width - Len(s[e - 1])})
    BY DEF Appended, e, c
  <1>4. Moved(s, ops) = IF e < Depth - 1 THEN c ELSE Appended(s, ops)
    BY DEF Moved, e, c
  <1>5. Len(ops) \in Nat
    BY DEF Pipe
  <1>6. e = EmptyStageIdx(s)
    BY DEF e
  <1> QED
    BY <1>1, <1>2, <1>3, <1>4, <1>5, <1>6, DecodeAssumption

-----------------------------------------------------------------------------
(* Moving ops. *)

(* What every move of ops does: none is lost and none overtakes another. *)
Rearranged(s, ops, t, rest) ==
  /\ Pipe(t, rest)
  /\ InOrder(s, ops) => InOrder(t, rest)
  /\ \A n : Carries(t, rest, n) <=> Carries(s, ops, n)

(* It does, if the op in place k, i was in place from[k][i], pos[k][i], if *)
(* later places were later ones and if no place is forgotten.              *)
SameOps(s, ops, t, rest, from, pos) ==
  \A k \in 0..Depth : \A i \in 1..Len(At(t, rest, k)) :
    /\ from[k][i] \in 0..Depth
    /\ pos[k][i] \in 1..Len(At(s, ops, from[k][i]))
    /\ At(t, rest, k)[i] = At(s, ops, from[k][i])[pos[k][i]]

Overtakes(s, ops, t, rest, from, pos) ==
  \E k, l \in 0..Depth :
  \E i \in 1..Len(At(t, rest, k)), j \in 1..Len(At(t, rest, l)) :
    /\ k < l \/ (k = l /\ i < j)
    /\ ~(from[k][i] < from[l][j])
    /\ ~(from[k][i] = from[l][j] /\ pos[k][i] < pos[l][j])

AllOps(s, ops, t, rest, from, pos) ==
  \A k \in 0..Depth : \A i \in 1..Len(At(s, ops, k)) :
    \E l \in 0..Depth : \E j \in 1..Len(At(t, rest, l)) :
      from[l][j] = k /\ pos[l][j] = i

LEMMA PlacesMap ==
  ASSUME NEW s, NEW ops, NEW t, NEW rest, NEW from, NEW pos, Pipe(t, rest),
         SameOps(s, ops, t, rest, from, pos),
         ~Overtakes(s, ops, t, rest, from, pos),
         AllOps(s, ops, t, rest, from, pos)
  PROVE  Rearranged(s, ops, t, rest)
  <1>1. ASSUME InOrder(s, ops)
        PROVE  InOrder(t, rest)
    <2> SUFFICES ASSUME NEW k \in 0..Depth, NEW l \in 0..Depth,
                        NEW i \in 1..Len(At(t, rest, k)),
                        NEW j \in 1..Len(At(t, rest, l)),
                        k < l \/ (k = l /\ i < j)
                 PROVE  At(t, rest, k)[i].num < At(t, rest, l)[j].num
      BY DEF InOrder
    <2>1. /\ from[k][i] \in 0..Depth
          /\ pos[k][i] \in 1..Len(At(s, ops, from[k][i]))
          /\ At(t, rest, k)[i] = At(s, ops, from[k][i])[pos[k][i]]
      BY DEF SameOps
    <2>2. /\ from[l][j] \in 0..Depth
          /\ pos[l][j] \in 1..Len(At(s, ops, from[l][j]))
          /\ At(t, rest, l)[j] = At(s, ops, from[l][j])[pos[l][j]]
      BY DEF SameOps
    <2>3. \/ from[k][i] < from[l][j]
          \/ from[k][i] = from[l][j] /\ pos[k][i] < pos[l][j]
      BY DEF Overtakes
    <2>4. At(s, ops, from[k][i])[pos[k][i]].num < At(s, ops, from[l][j])[pos[l][j]].num
      BY <1>1, <2>1, <2>2, <2>3 DEF InOrder
    <2> QED
      BY <2>1, <2>2, <2>4
  <1>2. ASSUME NEW n, Carries(t, rest, n)
        PROVE  Carries(s, ops, n)
    <2>0. PICK k \in 0..Depth : \E i \in 1..Len(At(t, rest, k)) : At(t, rest, k)[i].num = n
      BY <1>2 DEF Carries
    <2>1. PICK i \in 1..Len(At(t, rest, k)) : At(t, rest, k)[i].num = n
      BY <2>0
    <2>2. /\ from[k][i] \in 0..Depth
          /\ pos[k][i] \in 1..Len(At(s, ops, from[k][i]))
          /\ At(t, rest, k)[i] = At(s, ops, from[k][i])[pos[k][i]]
      BY <2>0, <2>1 DEF SameOps
    <2> QED
      BY <2>1, <2>2 DEF Carries
  <1>3. ASSUME NEW n, Carries(s, ops, n)
        PROVE  Carries(t, rest, n)
    <2>1. PICK k \in 0..Depth : \E i \in 1..Len(At(s, ops, k)) : At(s, ops, k)[i].num = n
      BY <1>3 DEF Carries
    <2>2. PICK i \in 1..Len(At(s, ops, k)) : At(s, ops, k)[i].num = n
      BY <2>1
    <2>3. PICK l \in 0..Depth : \E j \in 1..Len(At(t, rest, l)) :
                 from[l][j] = k /\ pos[l][j] = i
      BY <2>1, <2>2 DEF AllOps
    <2>4. PICK j \in 1..Len(At(t, rest, l)) : from[l][j] = k /\ pos[l][j] = i
      BY <2>3
    <2>5. At(t, rest, l)[j] = At(s, ops, k)[i]
      BY <2>3, <2>4 DEF SameOps
    <2> QED
      BY <2>2, <2>3, <2>4, <2>5 DEF Carries
  <1> QED
    BY <1>1, <1>2, <1>3 DEF Rearranged

(* The loop over the intermediate slots. *)
LEMMA ShiftRearranges ==
  ASSUME NEW s, NEW ops, Pipe(s, ops)
  PROVE  Rearranged(s, ops, Shift(s), ops)
  <1> DEFINE e == FirstEmpty(s)
             t == Shift(s)
             back(k) == IF k < e \/ k = Depth THEN k ELSE k + 1
             from == [k \in 0..Depth |-> [i \in Nat |-> back(k)]]
             pos == [k \in 0..Depth |-> [i \in Nat |-> i]]
  <1>1. e \in 0..Depth /\ (e < Depth => s[e] = <<>>)
    BY FirstEmptyFacts
  <1>2. \A k \in Slots :
          t[k] = IF k < e THEN s[k] ELSE IF k = Depth - 1 THEN <<>> ELSE s[k + 1]
    BY DEF Shift
  <1>3. Pipe(t, ops)
    <2>1. <<>> \in Seq(Op)
      OBVIOUS
    <2>2. \A k \in Slots : k # Depth - 1 => k + 1 \in Slots
      BY DecodeAssumption DEF Slots
    <2> QED
      BY <2>1, <2>2 DEF Shift, Pipe
  <1> HIDE DEF e, t
  <1>4. ASSUME NEW k \in 0..Depth, NEW i \in 1..Len(At(t, ops, k))
        PROVE  /\ i \in Nat /\ back(k) \in 0..Depth /\ (k = Depth \/ back(k) # Depth)
               /\ At(t, ops, k) = At(s, ops, back(k))
    <2>1. k \in Slots \/ k = Depth
      BY DecodeAssumption DEF Slots
    <2>2. CASE k = Depth
      BY <2>2, DecodeAssumption DEF At
    <2>3. CASE k \in Slots
      <3>1. At(t, ops, k) = t[k] /\ Len(t[k]) # 0
        BY <2>3, DecodeAssumption DEF At, Slots
      <3>2. t[k] # <<>>
        BY <3>1
      <3> QED
        BY <1>1, <1>2, <2>3, <3>1, <3>2, DecodeAssumption DEF At, Slots
    <2> QED
      BY <2>1, <2>2, <2>3
  <1>5. ASSUME NEW k \in 0..Depth, NEW i \in 1..Len(At(t, ops, k))
        PROVE  /\ from[k][i] \in 0..Depth
               /\ pos[k][i] \in 1..Len(At(s, ops, from[k][i]))
               /\ At(t, ops, k)[i] = At(s, ops, from[k][i])[pos[k][i]]
    BY <1>4
  <1>6. ASSUME NEW k \in 0..Depth, NEW l \in 0..Depth,
               NEW i \in 1..Len(At(t, ops, k)), NEW j \in 1..Len(At(t, ops, l)),
               k < l \/ (k = l /\ i < j)
        PROVE  \/ from[k][i] < from[l][j]
               \/ from[k][i] = from[l][j] /\ pos[k][i] < pos[l][j]
    <2>1. /\ i \in Nat /\ j \in Nat
          /\ back(k) \in 0..Depth /\ (k = Depth \/ back(k) # Depth)
      BY <1>4
    <2>2. k < l => back(k) < back(l)
      BY <1>1, <2>1, DecodeAssumption
    <2>3. from[k][i] = back(k) /\ from[l][j] = back(l) /\ pos[k][i] = i /\ pos[l][j] = j
      BY <2>1
    <2> HIDE DEF back, from, pos
    <2> QED
      BY <1>6, <2>2, <2>3
  <1>7. ASSUME NEW k \in 0..Depth, NEW i \in 1..Len(At(s, ops, k))
        PROVE  \E l \in 0..Depth : \E j \in 1..Len(At(t, ops, l)) :
                 from[l][j] = k /\ pos[l][j] = i
    <2> DEFINE l == IF k < e \/ k = Depth THEN k ELSE k - 1
    <2>1. k # e \/ k = Depth
      <3> SUFFICES ASSUME k = e, k # Depth
                   PROVE  FALSE
        OBVIOUS
      <3>1. At(s, ops, k) = <<>>
        BY <1>1, DecodeAssumption DEF At
      <3> QED
        BY <3>1
    <2>2. l \in 0..Depth /\ back(l) = k
      BY <1>1, <2>1, DecodeAssumption
    <2>3. At(t, ops, l) = At(s, ops, k)
      <3>1. CASE k = Depth
        BY <3>1 DEF At
      <3>2. CASE k # Depth
        <4>1. k \in Slots /\ l \in Slots /\ l # Depth
          BY <1>1, <2>1, <3>2, DecodeAssumption DEF Slots
        <4>2. t[l] = s[k]
          BY <1>1, <1>2, <2>1, <3>2, <4>1, DecodeAssumption DEF Slots
        <4> QED
          BY <3>2, <4>1, <4>2 DEF At
      <3> QED
        BY <3>1, <3>2
    <2>4. i \in 1..Len(At(t, ops, l)) /\ i \in Nat
      BY <2>3
    <2>5. from[l][i] = k /\ pos[l][i] = i
      BY <2>2, <2>4
    <2> HIDE DEF l, from, pos
    <2> QED
      BY <2>2, <2>4, <2>5
  <1> HIDE DEF from, pos
  <1>8. SameOps(s, ops, t, ops, from, pos)
    BY <1>5 DEF SameOps
  <1>9. ~Overtakes(s, ops, t, ops, from, pos)
    BY <1>6 DEF Overtakes
  <1>10. AllOps(s, ops, t, ops, from, pos)
    BY <1>7 DEF AllOps
  <1> QED
    BY <1>3, <1>8, <1>9, <1>10, PlacesMap DEF t

(* Ops from the front of the packet go to the end of a slot behind which   *)
(* all slots are empty.                                                    *)
LEMMA AppendRearranges ==
  ASSUME NEW s, NEW ops, Pipe(s, ops), NEW x \in Slots, NEW c \in 0..Len(ops),
         \A k \in Slots : k > x => s[k] = <<>>
  PROVE  Rearranged(s, ops, [s EXCEPT ![x] = s[x] \o SubSeq(ops, 1, c)],
                    SubSeq(ops, c + 1, Len(ops)))
  <1> DEFINE t == [s EXCEPT ![x] = s[x] \o SubSeq(ops, 1, c)]
             rest == SubSeq(ops, c + 1, Len(ops))
             n == Len(s[x])
             cut == SubSeq(ops, 1, c)
             new(k, i) == k = Depth \/ (k = x /\ i > n)
             from == [k \in 0..Depth |-> [i \in Nat |-> IF new(k, i) THEN Depth ELSE k]]
             pos == [k \in 0..Depth |->
                      [i \in Nat |-> IF k = Depth THEN i + c
                                     ELSE IF new(k, i) THEN i - n ELSE i]]
  <1>1. /\ s[x] \in Seq(Op) /\ n \in Nat /\ Len(ops) \in Nat /\ ops \in Seq(Op)
        /\ x \in 0..Depth /\ x < Depth /\ s \in [Slots -> Seq(Op)]
    BY DecodeAssumption DEF Pipe, Slots
  <1>2. cut \in Seq(Op) /\ Len(cut) = c /\ \A i \in 1..c : cut[i] = ops[i]
    BY <1>1
  <1>3. /\ rest \in Seq(Op) /\ Len(rest) = Len(ops) - c
        /\ \A i \in 1..(Len(ops) - c) : rest[i] = ops[i + c]
    BY <1>1
  <1>4. /\ s[x] \o cut \in Seq(Op)
        /\ Len(s[x] \o cut) = n + c
        /\ \A i \in 1..(n + c) :
             (s[x] \o cut)[i] = IF i <= n THEN s[x][i] ELSE ops[i - n]
    <2> DEFINE old == s[x]
    <2>0. old \in Seq(Op) /\ Len(old) = n
      BY <1>1
    <2> HIDE DEF cut, old, n
    <2>3. /\ old \o cut \in Seq(Op)
          /\ Len(old \o cut) = Len(old) + Len(cut)
          /\ \A i \in 1..(Len(old) + Len(cut)) :
               (old \o cut)[i] = IF i <= Len(old) THEN old[i] ELSE cut[i - Len(old)]
      BY <1>2, <2>0, ConcatProperties
    <2>1. /\ old \o cut \in Seq(Op)
          /\ Len(old \o cut) = n + c
          /\ \A i \in 1..(n + c) :
               (old \o cut)[i] = IF i <= n THEN old[i] ELSE cut[i - n]
      BY <1>2, <2>0, <2>3
    <2>2. \A i \in 1..(n + c) : i > n => cut[i - n] = ops[i - n]
      BY <1>1, <1>2
    <2>4. \A i \in 1..(n + c) :
            (old \o cut)[i] = IF i <= n THEN old[i] ELSE ops[i - n]
      <3> SUFFICES ASSUME NEW i \in 1..(n + c)
                   PROVE  (old \o cut)[i] = IF i <= n THEN old[i] ELSE ops[i - n]
        OBVIOUS
      <3>1. CASE i <= n
        BY <2>1, <3>1
      <3>2. CASE ~(i <= n)
        <4>1. i > n
          BY <1>1, <3>2
        <4>2. (old \o cut)[i] = cut[i - n] /\ cut[i - n] = ops[i - n]
          BY <2>1, <2>2, <3>2, <4>1
        <4> QED
          BY <3>2, <4>2
      <3> QED
        BY <3>1, <3>2
    <2> QED
      BY <2>1, <2>4 DEF old
  <1>5. /\ t \in [Slots -> Seq(Op)] /\ t[x] = s[x] \o cut
        /\ \A k \in Slots : k # x => t[k] = s[k]
    BY <1>1, <1>4
  <1> HIDE DEF t, rest, cut
  <1>6. ASSUME NEW k \in 0..Depth, NEW i \in 1..Len(At(t, rest, k))
        PROVE  /\ i \in Nat /\ i > 0
               /\ k = Depth \/ (k \in Slots /\ k <= x)
               /\ k = Depth => i <= Len(ops) - c
               /\ k = x => i <= n + c
               /\ k < x => At(t, rest, k) = s[k] /\ At(s, ops, k) = s[k]
    <2>1. CASE k = Depth
      BY <1>1, <1>3, <2>1 DEF At
    <2>2. CASE k # Depth
      <3>1. k \in Slots /\ At(t, rest, k) = t[k] /\ At(s, ops, k) = s[k]
        BY <2>2, DecodeAssumption DEF At, Slots
      <3>2. k > x => FALSE
        <4>1. k > x => t[k] = <<>>
          BY <1>1, <1>5, <3>1 DEF Slots
        <4> QED
          BY <3>1, <4>1
      <3>3. k <= x
        BY <1>1, <3>2
      <3>4. t[k] \in Seq(Op) /\ i \in 1..Len(t[k])
        BY <1>5, <3>1
      <3> QED
        BY <1>1, <1>4, <1>5, <2>2, <3>1, <3>3, <3>4
    <2> QED
      BY <2>1, <2>2
  <1>7. ASSUME NEW k \in 0..Depth, NEW i \in 1..Len(At(t, rest, k))
        PROVE  /\ from[k][i] \in 0..Depth
               /\ pos[k][i] \in 1..Len(At(s, ops, from[k][i]))
               /\ At(t, rest, k)[i] = At(s, ops, from[k][i])[pos[k][i]]
    <2>1. At(s, ops, Depth) = ops /\ At(s, ops, x) = s[x] /\ At(t, rest, x) = t[x]
          /\ At(t, rest, Depth) = rest
      BY <1>1 DEF At
    <2>2. CASE k = Depth
      <3>1. from[k][i] = Depth /\ pos[k][i] = i + c
        BY <1>6, <2>2
      <3> HIDE DEF from, pos
      <3> QED
        BY <1>1, <1>3, <1>6, <2>1, <2>2, <3>1
    <2>3. CASE k # Depth /\ k < x
      <3>1. from[k][i] = k /\ pos[k][i] = i
        BY <1>1, <1>6, <2>3
      <3> HIDE DEF from, pos
      <3> QED
        BY <1>6, <2>3, <3>1
    <2>4. CASE k = x /\ i <= n
      <3>1. from[k][i] = x /\ pos[k][i] = i
        BY <1>1, <1>6, <2>4
      <3> HIDE DEF from, pos
      <3> QED
        BY <1>1, <1>4, <1>5, <1>6, <2>1, <2>4, <3>1
    <2>5. CASE k = x /\ i > n
      <3>1. from[k][i] = Depth /\ pos[k][i] = i - n
        BY <1>1, <1>6, <2>5
      <3>2. i \in 1..(n + c) /\ i - n \in 1..Len(ops)
        BY <1>1, <1>6, <2>5
      <3>3. t[x][i] = ops[i - n]
        BY <1>1, <1>4, <1>5, <2>5, <3>2
      <3> HIDE DEF from, pos, n
      <3> QED
        BY <2>1, <2>5, <3>1, <3>2, <3>3, DecodeAssumption
    <2> QED
      BY <1>1, <1>6, <2>2, <2>3, <2>4, <2>5
  <1>8. ASSUME NEW k \in 0..Depth, NEW l \in 0..Depth,
               NEW i \in 1..Len(At(t, rest, k)), NEW j \in 1..Len(At(t, rest, l)),
               k < l \/ (k = l /\ i < j)
        PROVE  \/ from[k][i] < from[l][j]
               \/ from[k][i] = from[l][j] /\ pos[k][i] < pos[l][j]
    <2>1. /\ i \in Nat /\ i > 0 /\ (k = Depth \/ k <= x) /\ (k = x => i <= n + c)
          /\ j \in Nat /\ j > 0 /\ (l = Depth \/ l <= x)
      BY <1>6
    <2>2. /\ from[k][i] = IF new(k, i) THEN Depth ELSE k
          /\ from[l][j] = IF new(l, j) THEN Depth ELSE l
          /\ pos[k][i] = IF k = Depth THEN i + c ELSE IF new(k, i) THEN i - n ELSE i
          /\ pos[l][j] = IF l = Depth THEN j + c ELSE IF new(l, j) THEN j - n ELSE j
      BY <2>1
    <2>3. n \in Nat /\ c \in Nat /\ x \in Nat /\ x < Depth /\ Depth \in Nat
      BY <1>1, DecodeAssumption
    <2> HIDE DEF from, pos, n
    <2>4. CASE k < l
      <3>1. CASE l = Depth
        BY <2>1, <2>2, <2>3, <2>4, <3>1
      <3>2. CASE l # Depth
        BY <2>1, <2>2, <2>3, <2>4, <3>2
      <3> QED
        BY <3>1, <3>2
    <2>5. CASE k = l /\ i < j
      BY <2>1, <2>2, <2>3, <2>5
    <2> QED
      BY <1>8, <2>4, <2>5
  <1>9. ASSUME NEW k \in 0..Depth, NEW i \in 1..Len(At(s, ops, k))
        PROVE  \E l \in 0..Depth : \E j \in 1..Len(At(t, rest, l)) :
                 from[l][j] = k /\ pos[l][j] = i
    <2>1. At(s, ops, Depth) = ops /\ At(t, rest, x) = t[x] /\ At(t, rest, Depth) = rest
      BY <1>1 DEF At
    <2>2. CASE k = Depth /\ i <= c
      <3>1. n + i \in 1..Len(At(t, rest, x)) /\ n + i \in Nat
        BY <1>1, <1>4, <1>5, <2>1, <2>2
      <3>2. from[x][n + i] = k /\ pos[x][n + i] = i
        BY <1>1, <2>1, <2>2, <3>1
      <3> HIDE DEF from, pos
      <3> QED
        BY <1>1, <3>1, <3>2
    <2>3. CASE k = Depth /\ i > c
      <3>1. i - c \in 1..Len(At(t, rest, k)) /\ i - c \in Nat
        BY <1>1, <1>3, <2>1, <2>3
      <3>2. from[k][i - c] = k /\ pos[k][i - c] = i
        BY <1>1, <2>1, <2>3, <3>1
      <3> HIDE DEF from, pos
      <3> QED
        BY <3>1, <3>2
    <2>4. CASE k # Depth
      <3>1. k \in Slots /\ At(t, rest, k) = t[k] /\ At(s, ops, k) = s[k]
            /\ s[k] \in Seq(Op)
        BY <1>1, <2>4, DecodeAssumption DEF At, Slots
      <3>2. i \in 1..Len(At(t, rest, k)) /\ i \in Nat /\ (k = x => i <= n)
        BY <1>1, <1>4, <1>5, <3>1
      <3>3. from[k][i] = k /\ pos[k][i] = i
        BY <2>4, <3>2
      <3> HIDE DEF from, pos
      <3> QED
        BY <3>2, <3>3
    <2>5. k = Depth => i \in Int
      BY <1>1, <2>1
    <2> HIDE DEF from, pos
    <2> QED
      BY <2>2, <2>3, <2>4, <2>5
  <1>10. Pipe(t, rest)
    BY <1>3, <1>5 DEF Pipe
  <1> HIDE DEF from, pos
  <1>11. SameOps(s, ops, t, rest, from, pos)
    BY <1>7 DEF SameOps
  <1>12. ~Overtakes(s, ops, t, rest, from, pos)
    BY <1>8 DEF Overtakes
  <1>13. AllOps(s, ops, t, rest, from, pos)
    BY <1>9 DEF AllOps
  <1> QED
    BY <1>10, <1>11, <1>12, <1>13, PlacesMap DEF t, rest, cut

(* Moves compose, and nothing is a move. *)
LEMMA RearrangedAgain ==
  ASSUME NEW s, NEW ops, NEW t, NEW rest, NEW u, NEW left,
         Rearranged(s, ops, t, rest), Rearranged(t, rest, u, left)
  PROVE  Rearranged(s, ops, u, left)
  BY DEF Rearranged

LEMMA RearrangedNot ==
  ASSUME NEW s, NEW ops, Pipe(s, ops)
  PROVE  Rearranged(s, ops, s, ops)
  BY DEF Rearranged

(* A part of what is left of a sequence is a part of the sequence. *)
LEMMA PartOfRest ==
  ASSUME NEW S, NEW seq \in Seq(S), NEW a \in 0..Len(seq),
         NEW x \in 0..(Len(seq) - a), NEW y \in 0..(Len(seq) - a)
  PROVE  SubSeq(SubSeq(seq, a + 1, Len(seq)), x + 1, y) = SubSeq(seq, a + x + 1, a + y)
  <1> DEFINE n == Len(seq)
             rest == SubSeq(seq, a + 1, n)
             l == SubSeq(rest, x + 1, y)
             r == SubSeq(seq, a + x + 1, a + y)
             len == IF x + 1 <= y THEN y - x ELSE 0
  <1>1. n \in Nat /\ \A i \in 1..n : seq[i] \in S
    OBVIOUS
  <1>2. rest \in Seq(S) /\ Len(rest) = n - a /\ \A i \in 1..(n - a) : rest[i] = seq[a + i]
    BY <1>1
  <1> HIDE DEF n, rest
  <1>3. l \in Seq(S) /\ Len(l) = len /\ \A i \in 1..len : l[i] = rest[x + i]
    BY <1>1, <1>2 DEF n
  <1>4. r \in Seq(S) /\ Len(r) = len /\ \A i \in 1..len : r[i] = seq[a + x + i]
    BY <1>1 DEF n
  <1>5. \A i \in 1..len : x + i \in 1..(n - a) /\ a + (x + i) = a + x + i
    BY <1>1 DEF n
  <1> HIDE DEF l, r, len
  <1>6. \A i \in 1..Len(l) : l[i] = r[i]
    BY <1>2, <1>3, <1>4, <1>5
  <1>7. l = r
    BY <1>3, <1>4, <1>6, SeqEqual
  <1> QED
    BY <1>7 DEF l, r, rest, n

(* Of the packet, the first ops that are cached move ahead: some to the    *)
(* slot in front of the empty ones, some to the first empty one.           *)
LEMMA MoveAheadRearranges ==
  ASSUME NEW s, NEW ops, Pipe(s, ops), Narrow(s, ops)
  PROVE  Rearranged(s, ops, MoveAhead(s, ops), Remaining(s, ops))
  <1> DEFINE e == EmptyStageIdx(s)
             a == Appended(s, ops)
             m == Moved(s, ops)
             n == Len(ops)
             t == IF e = 0 THEN s ELSE [s EXCEPT ![e - 1] = s[e - 1] \o SubSeq(ops, 1, a)]
             rest == SubSeq(ops, a + 1, n)
             u == IF e = Depth THEN t ELSE [t EXCEPT ![e] = t[e] \o SubSeq(rest, 1, m - a)]
             left == SubSeq(rest, m - a + 1, Len(rest))
  <1>1. /\ e \in 0..Depth
        /\ \A k \in Slots : k >= e => s[k] = <<>>
    BY EmptyStageFacts
  <1>2. /\ a \in 0..n /\ m \in 0..n /\ a <= m /\ n \in Nat
        /\ e = 0 => a = 0
        /\ e >= Depth - 1 => m = a
    BY MovedFacts DEF Pipe
  <1>3. MoveAhead(s, ops) =
          [k \in Slots |-> IF k = e - 1 THEN s[k] \o SubSeq(ops, 1, a)
                           ELSE IF k = e THEN s[k] \o SubSeq(ops, a + 1, m)
                           ELSE s[k]]
    BY <1>1, DecodeAssumption DEF MoveAhead, Slots
  <1>4. Remaining(s, ops) = SubSeq(ops, m + 1, n)
    BY DEF Remaining
  <1>5. ops \in Seq(Op) /\ s \in [Slots -> Seq(Op)]
    BY DEF Pipe
  <1> HIDE DEF e, a, m
  <1>6. Rearranged(s, ops, t, rest)
    <2>1. CASE e = 0
      <3>1. rest = ops /\ t = s
        BY <1>2, <1>5, <2>1, SubSeqFull
      <3> HIDE DEF t, rest
      <3> QED
        BY <3>1, RearrangedNot
    <2>2. CASE e # 0
      <3>1. e - 1 \in Slots /\ \A k \in Slots : k > e - 1 => s[k] = <<>>
        BY <1>1, <2>2, DecodeAssumption DEF Slots
      <3> QED
        BY <1>2, <2>2, <3>1, AppendRearranges
    <2> QED
      BY <2>1, <2>2
  <1>7. rest \in Seq(Op) /\ Len(rest) = n - a
    BY <1>2, <1>5
  <1>8. t \in [Slots -> Seq(Op)] /\ \A k \in Slots : k # e - 1 => t[k] = s[k]
    BY <1>1, <1>5, <1>6, DecodeAssumption DEF Rearranged, Pipe, Slots
  <1>9. Rearranged(t, rest, u, left)
    <2>1. CASE e = Depth
      <3>1. SubSeq(rest, 1, Len(rest)) = rest
        <4> HIDE DEF rest
        <4> QED
          BY <1>7, SubSeqFull
      <3>2. m - a + 1 = 1
        BY <1>2, <2>1, DecodeAssumption
      <3>3. left = rest /\ u = t
        BY <2>1, <3>1, <3>2
      <3>4. Pipe(t, rest)
        BY <1>6 DEF Rearranged
      <3> HIDE DEF t, rest, u, left
      <3> QED
        BY <3>3, <3>4, RearrangedNot
    <2>2. CASE e # Depth
      <3>1. e \in Slots /\ \A k \in Slots : k > e => t[k] = <<>>
        BY <1>1, <1>8, <2>2, DecodeAssumption DEF Slots
      <3>2. m - a \in 0..Len(rest) /\ Pipe(t, rest)
        BY <1>2, <1>6, <1>7 DEF Rearranged
      <3> HIDE DEF t, rest
      <3> QED
        BY <2>2, <3>1, <3>2, AppendRearranges
    <2> QED
      BY <2>1, <2>2
  <1>10. left = SubSeq(ops, m + 1, n) /\ SubSeq(rest, 1, m - a) = SubSeq(ops, a + 1, m)
    <2>1. m - a \in 0..(n - a) /\ n - a \in 0..(n - a) /\ 0 \in 0..(n - a)
      BY <1>2
    <2>2. /\ a + (m - a) + 1 = m + 1 /\ a + (n - a) = n
          /\ a + 0 + 1 = a + 1 /\ a + (m - a) = m /\ 0 + 1 = 1
      BY <1>2
    <2>3. left = SubSeq(ops, a + (m - a) + 1, a + (n - a))
      BY <1>2, <1>5, <1>7, <2>1, PartOfRest
    <2>4. SubSeq(rest, 0 + 1, m - a) = SubSeq(ops, a + 0 + 1, a + (m - a))
      BY <1>2, <1>5, <2>1, PartOfRest
    <2> QED
      BY <2>2, <2>3, <2>4
  <1>11. u = MoveAhead(s, ops)
    <2>1. u \in [Slots -> Seq(Op)] /\ MoveAhead(s, ops) = [k \in Slots |-> MoveAhead(s, ops)[k]]
      BY <1>3, <1>9 DEF Rearranged, Pipe
    <2>2. ASSUME NEW k \in Slots
          PROVE  u[k] = MoveAhead(s, ops)[k]
      <3>1. k \in Nat /\ k # Depth /\ e \in Nat
        BY <1>1, DecodeAssumption DEF Slots
      <3>2. MoveAhead(s, ops)[k] = IF k = e - 1 THEN s[k] \o SubSeq(ops, 1, a)
                                   ELSE IF k = e THEN s[k] \o SubSeq(ops, a + 1, m)
                                   ELSE s[k]
        BY <1>3
      <3>3. CASE k = e - 1
        <4>1. e # 0 /\ k # e
          BY <3>1, <3>3
        <4>2. t[k] = s[k] \o SubSeq(ops, 1, a)
          BY <1>5, <3>3, <4>1
        <4>3. u[k] = t[k]
          BY <1>8, <4>1
        <4> QED
          BY <3>2, <3>3, <4>2, <4>3
      <3>4. CASE k = e
        <4>1. k # e - 1 /\ e # Depth
          BY <3>1, <3>4
        <4>2. t[k] = s[k]
          BY <1>8, <4>1
        <4> HIDE DEF t, rest
        <4>3. u[k] = t[k] \o SubSeq(rest, 1, m - a)
          BY <1>8, <3>4, <4>1
        <4> QED
          BY <1>10, <3>2, <3>4, <4>1, <4>2, <4>3
      <3>5. CASE k # e - 1 /\ k # e
        <4>1. t[k] = s[k]
          BY <1>8, <3>5
        <4>2. u[k] = t[k]
          BY <1>8, <3>5
        <4> QED
          BY <3>2, <3>5, <4>1, <4>2
      <3> QED
        BY <3>3, <3>4, <3>5
    <2> HIDE DEF u
    <2> QED
      BY <2>1, <2>2
  <1> HIDE DEF t, rest, u, left
  <1> QED
    BY <1>4, <1>6, <1>9, <1>10, <1>11, RearrangedAgain

-----------------------------------------------------------------------------
(* update_decode_stage as a whole: what it leaves in the slots and in the  *)
(* fetch stage, when the packet has gone through the pipeline s.           *)

Placed(s, ops) ==
  IF MoveAhead(s, ops)[Depth - 1] = <<>>
  THEN [MoveAhead(s, ops) EXCEPT ![Depth - 1] = Remaining(s, ops)]
  ELSE MoveAhead(s, ops)

Left(s, ops) ==
  IF MoveAhead(s, ops)[Depth - 1] = <<>> THEN <<>> ELSE Remaining(s, ops)

(* No slot gets more ops than it has room for. *)
LEMMA ShiftIsNarrow ==
  ASSUME NEW s, NEW ops, Pipe(s, ops), Narrow(s, ops)
  PROVE  Narrow(Shift(s), ops)
  <1> SUFFICES ASSUME NEW k \in Slots
               PROVE  Len(Shift(s)[k]) <= Width
    BY DEF Narrow
  <1>1. Shift(s)[k] = IF k < FirstEmpty(s) THEN s[k]
                      ELSE IF k = Depth - 1 THEN <<>> ELSE s[k + 1]
    BY DEF Shift
  <1>2. k # Depth - 1 => k + 1 \in Slots
    BY DecodeAssumption DEF Slots
  <1>3. Len(<<>>) = 0
    OBVIOUS
  <1> QED
    BY <1>1, <1>2, <1>3, DecodeAssumption DEF Narrow

LEMMA MoveAheadIsNarrow ==
  ASSUME NEW s, NEW ops, Pipe(s, ops), Narrow(s, ops)
  PROVE  Narrow(MoveAhead(s, ops), Remaining(s, ops))
  <1> DEFINE e == EmptyStageIdx(s)
             a == Appended(s, ops)
             m == Moved(s, ops)
             n == Len(ops)
  <1>1. e \in 0..Depth /\ \A k \in Slots : k >= e => s[k] = <<>>
    BY EmptyStageFacts
  <1>2. /\ a \in 0..n /\ m \in 0..n /\ a <= m
        /\ e = 0 => a = 0
        /\ e > 0 => Len(s[e - 1]) + a <= Width
    BY MovedFacts DEF Pipe
  <1>3. \A k \in Slots :
          MoveAhead(s, ops)[k] =
            IF k = e - 1 THEN s[k] \o SubSeq(ops, 1, a)
            ELSE IF k = e THEN s[k] \o SubSeq(ops, a + 1, m) ELSE s[k]
    BY <1>1, DecodeAssumption DEF MoveAhead, Slots
  <1>4. Remaining(s, ops) = SubSeq(ops, m + 1, n)
    BY DEF Remaining
  <1>5. ops \in Seq(Op) /\ n \in Nat /\ n <= Width /\ Width \in Nat
    BY DecodeAssumption DEF Pipe, Narrow
  <1> HIDE DEF e, a, m, n
  <1>6. Len(SubSeq(ops, m + 1, n)) <= Width
    BY <1>2, <1>5 DEF n
  <1>7. /\ SubSeq(ops, 1, a) \in Seq(Op) /\ Len(SubSeq(ops, 1, a)) = a
        /\ SubSeq(ops, a + 1, m) \in Seq(Op) /\ Len(SubSeq(ops, a + 1, m)) = m - a
    BY <1>2, <1>5 DEF n
  <1>8. ASSUME NEW k \in Slots
        PROVE  Len(MoveAhead(s, ops)[k]) <= Width
    <2>1. s[k] \in Seq(Op) /\ Len(s[k]) <= Width
      BY DEF Pipe, Narrow
    <2>2. CASE k = e - 1
      <3>1. Len(s[k] \o SubSeq(ops, 1, a)) = Len(s[k]) + a
        BY <1>7, <2>1, ConcatProperties
      <3>2. e > 0
        BY <1>1, <2>2, DecodeAssumption DEF Slots
      <3>3. Len(s[k]) + a <= Width
        BY <1>2, <2>2, <3>2
      <3>4. MoveAhead(s, ops)[k] = s[k] \o SubSeq(ops, 1, a)
        BY <1>3, <2>2
      <3> QED
        BY <3>1, <3>3, <3>4
    <2>3. CASE k = e
      <3>1. s[k] = <<>>
        BY <1>1, <2>3, DecodeAssumption DEF Slots
      <3>2. Len(s[k] \o SubSeq(ops, a + 1, m)) = m - a
        BY <1>7, <2>1, <3>1, ConcatProperties
      <3>3. k # e - 1 /\ m - a <= Width
        BY <1>1, <1>2, <1>5, <2>3
      <3> QED
        BY <1>3, <2>3, <3>2, <3>3
    <2> QED
      BY <1>3, <2>1, <2>2, <2>3
  <1> QED
    BY <1>4, <1>6, <1>8 DEF Narrow

(* The packet moves through the pipeline and into the first slot, if that  *)
(* is free: none of its ops overtakes another, none is lost.               *)
LEMMA PlacedFacts ==
  ASSUME NEW s, NEW ops, Pipe(s, ops), Narrow(s, ops)
  PROVE  /\ Rearranged(s, ops, Placed(s, ops), Left(s, ops))
         /\ Narrow(Placed(s, ops), Left(s, ops))
  <1> DEFINE t == MoveAhead(s, ops)
             rest == Remaining(s, ops)
             x == Depth - 1
  <1>1. Rearranged(s, ops, t, rest) /\ Narrow(t, rest)
    BY MoveAheadRearranges, MoveAheadIsNarrow
  <1>2. Pipe(t, rest) /\ x \in Slots
    BY <1>1, DecodeAssumption DEF Rearranged, Slots
  <1> HIDE DEF t, rest
  <1>3. CASE t[x] = <<>>
    <2> DEFINE u == [t EXCEPT ![x] = rest]
    <2>1. rest \in Seq(Op) /\ t \in [Slots -> Seq(Op)] /\ Len(rest) \in Nat
      BY <1>2 DEF Pipe
    <2>2. SubSeq(rest, 1, Len(rest)) = rest /\ SubSeq(rest, Len(rest) + 1, Len(rest)) = <<>>
      BY <2>1, SubSeqFull, SubSeqEmpty
    <2>3. t[x] \o SubSeq(rest, 1, Len(rest)) = rest
      BY <1>3, <2>1, <2>2, ConcatEmptySeq
    <2>4. \A k \in Slots : k > x => t[k] = <<>>
      BY DecodeAssumption DEF Slots
    <2>5. Len(rest) \in 0..Len(rest)
      BY <2>1
    <2>6. Rearranged(t, rest, [t EXCEPT ![x] = t[x] \o SubSeq(rest, 1, Len(rest))],
                     SubSeq(rest, Len(rest) + 1, Len(rest)))
      BY <1>2, <2>4, <2>5, AppendRearranges
    <2>7. Rearranged(t, rest, u, <<>>)
      BY <2>2, <2>3, <2>6
    <2>8. Narrow(u, <<>>)
      <3>1. \A k \in Slots : Len(u[k]) <= Width
        BY <1>1, <1>2, <2>1 DEF Narrow
      <3> QED
        BY <3>1, DecodeAssumption DEF Narrow
    <2>9. Placed(s, ops) = u /\ Left(s, ops) = <<>>
      BY <1>3 DEF Placed, Left, t, rest
    <2> HIDE DEF u
    <2> QED
      BY <1>1, <2>7, <2>8, <2>9, RearrangedAgain
  <1>4. CASE t[x] # <<>>
    <2>1. Placed(s, ops) = t /\ Left(s, ops) = rest
      BY <1>4 DEF Placed, Left, t, rest
    <2> QED
      BY <1>1, <2>1
  <1> QED
    BY <1>3, <1>4

(* What is processed is what the last slot has after the c ops that were   *)
(* in it before.                                                           *)
Follows(old, new, nums) ==
  /\ Len(new) = Len(old) + Len(nums)
  /\ \A i \in 1..Len(old) : new[i] = old[i]
  /\ \A i \in 1..Len(nums) : nums[i] = new[Len(old) + i].num

LEMMA ProcessedIsWhatFollows ==
  ASSUME NEW s, NEW ops, Pipe(s, ops), Narrow(s, ops),
         NEW stall \in BOOLEAN, stall => s[0] # <<>>
  PROVE  Follows(IF stall THEN s[0] ELSE <<>>, Placed(s, ops)[0],
                 Processed(stall, s, ops))
  <1> DEFINE t == MoveAhead(s, ops)
             rest == Remaining(s, ops)
             e == EmptyStageIdx(s)
             a == Appended(s, ops)
  <1>1. Pipe(t, rest)
    BY MoveAheadRearranges DEF Rearranged
  <1>2. /\ e \in 0..Depth
        /\ \A k \in Slots : k >= e => s[k] = <<>>
        /\ a \in 0..Len(ops) /\ (e = 0 => a = 0)
    BY EmptyStageFacts, MovedFacts
  <1>3. 0 \in Slots /\ Depth - 1 \in Slots /\ (Depth = 1 <=> Depth - 1 = 0)
    BY DecodeAssumption DEF Slots
  <1>4. t[0] = IF e = 1 THEN s[0] \o SubSeq(ops, 1, a)
               ELSE IF e = 0 THEN s[0] \o SubSeq(ops, a + 1, Moved(s, ops)) ELSE s[0]
    BY <1>2, <1>3 DEF MoveAhead
  <1>5. Placed(s, ops)[0] = IF Depth = 1 /\ t[0] = <<>> THEN rest ELSE t[0]
    <2>1. t \in [Slots -> Seq(Op)]
      BY <1>1 DEF Pipe
    <2> HIDE DEF t, rest
    <2>2. Placed(s, ops) = IF t[Depth - 1] = <<>> THEN [t EXCEPT ![Depth - 1] = rest] ELSE t
      BY DEF Placed, t, rest
    <2> QED
      BY <1>3, <2>1, <2>2
  <1>6. Processed(stall, s, ops) =
          IF ~stall THEN Numbers(IF Depth = 1 /\ t[0] = <<>> THEN rest ELSE t[0])
          ELSE IF e = 1 THEN Numbers(SubSeq(ops, 1, a)) ELSE <<>>
    BY DEF Processed
  <1>7. t[0] \in Seq(Op) /\ rest \in Seq(Op) /\ s[0] \in Seq(Op) /\ ops \in Seq(Op)
    BY <1>1, <1>3 DEF Pipe
  <1>8. \A seq \in Seq(Op) :
          /\ Len(Numbers(seq)) = Len(seq) /\ Len(seq) \in Nat
          /\ \A i \in 1..Len(seq) : Numbers(seq)[i] = seq[i].num
    <2> SUFFICES ASSUME NEW seq \in Seq(Op)
                 PROVE  /\ Len(Numbers(seq)) = Len(seq) /\ Len(seq) \in Nat
                        /\ \A i \in 1..Len(seq) : Numbers(seq)[i] = seq[i].num
      OBVIOUS
    <2>0. \A i \in 1..Len(seq) : seq[i] \in Op
      OBVIOUS
    <2>1. seq \in Seq(Op) /\ \A i \in 1..Len(seq) : seq[i].num \in 1..MaxOps
      BY <2>0 DEF Op
    <2>2. Numbers(seq) \in Seq(1..MaxOps)
      BY <2>1 DEF Numbers
    <2> QED
      BY <2>1, <2>2 DEF Numbers
  <1> HIDE DEF t, rest, e, a
  <1>9. CASE ~stall
    <2> DEFINE new == IF Depth = 1 /\ t[0] = <<>> THEN rest ELSE t[0]
    <2>1. new \in Seq(Op) /\ Placed(s, ops)[0] = new /\ Processed(stall, s, ops) = Numbers(new)
      BY <1>5, <1>6, <1>7, <1>9
    <2> HIDE DEF new
    <2>2. Follows(<<>>, new, Numbers(new))
      <3>1. /\ Len(Numbers(new)) = Len(new) /\ Len(new) \in Nat
            /\ \A i \in 1..Len(new) : Numbers(new)[i] = new[i].num
        BY <1>8, <2>1
      <3>2. Len(<<>>) = 0
        OBVIOUS
      <3>3. \A i \in 1..Len(new) : 0 + i = i
        BY <3>1
      <3> QED
        BY <3>1, <3>2, <3>3 DEF Follows
    <2> QED
      BY <1>9, <2>1, <2>2
  <1>10. CASE stall
    <2>1. e # 0 /\ s[0] # <<>>
      BY <1>2, <1>3, <1>10
    <2>2. CASE e = 1
      <3> DEFINE cut == SubSeq(ops, 1, a)
                 old == s[0]
      <3>1. cut \in Seq(Op) /\ old \in Seq(Op)
        BY <1>2, <1>7
      <3> HIDE DEF cut, old
      <3>2. /\ Len(old \o cut) = Len(old) + Len(cut)
            /\ \A i \in 1..(Len(old) + Len(cut)) :
                 (old \o cut)[i] = IF i <= Len(old) THEN old[i] ELSE cut[i - Len(old)]
        BY <3>1, ConcatProperties
      <3>3. /\ Len(Numbers(cut)) = Len(cut) /\ Len(cut) \in Nat /\ Len(old) \in Nat
            /\ \A i \in 1..Len(cut) : Numbers(cut)[i] = cut[i].num
        BY <1>8, <3>1
      <3>4. ASSUME NEW i \in 1..Len(old)
            PROVE  (old \o cut)[i] = old[i]
        BY <3>2, <3>3
      <3>5. ASSUME NEW i \in 1..Len(cut)
            PROVE  (old \o cut)[Len(old) + i] = cut[i]
        <4>1. /\ Len(old) + i \in 1..(Len(old) + Len(cut))
              /\ ~(Len(old) + i <= Len(old)) /\ Len(old) + i - Len(old) = i
          BY <3>3
        <4> QED
          BY <3>2, <4>1
      <3>6. Follows(old, old \o cut, Numbers(cut))
        BY <3>2, <3>3, <3>4, <3>5 DEF Follows
      <3>7. t[0] = old \o cut
        BY <1>4, <2>2 DEF old, cut
      <3>8. t[0] # <<>>
        <4>1. Len(old) # 0
          BY <2>1, <3>1, EmptySeq DEF old
        <4> QED
          BY <3>2, <3>3, <3>7, <4>1
      <3>9. Placed(s, ops)[0] = old \o cut /\ Processed(stall, s, ops) = Numbers(cut)
        BY <1>5, <1>6, <1>10, <2>2, <3>7, <3>8 DEF cut
      <3> QED
        BY <1>10, <3>6, <3>9 DEF old
    <2>3. CASE e # 1
      <3>1. Placed(s, ops)[0] = s[0] /\ Processed(stall, s, ops) = <<>>
        BY <1>4, <1>5, <1>6, <1>10, <2>1, <2>3
      <3>2. Follows(s[0], s[0], <<>>)
        BY <1>7 DEF Follows
      <3> QED
        BY <1>10, <3>1, <3>2
    <2> QED
      BY <2>2, <2>3
  <1> QED
    BY <1>9, <1>10

-----------------------------------------------------------------------------
(* The steps.  Of two ops in flight, the one with the lower number is      *)
(* ahead of the other.                                                     *)
LEMMA LowerIsAhead ==
  ASSUME NEW s, NEW ops, Pipe(s, ops), InOrder(s, ops),
         NEW k \in 0..Depth, NEW l \in 0..Depth,
         NEW i \in 1..Len(At(s, ops, k)), NEW j \in 1..Len(At(s, ops, l)),
         At(s, ops, k)[i].num < At(s, ops, l)[j].num
  PROVE  k < l \/ (k = l /\ i < j)
  <1>1. i \in Nat /\ j \in Nat /\ k \in Nat /\ l \in Nat
    BY AtType, DecodeAssumption
  <1>2. At(s, ops, k)[i] \in Op /\ At(s, ops, l)[j] \in Op
    BY AtType
  <1>3. At(s, ops, k)[i].num \in Nat /\ At(s, ops, l)[j].num \in Nat
    BY <1>2 DEF Op
  <1>4. SUFFICES ASSUME l < k \/ (k = l /\ j < i) \/ (k = l /\ i = j)
                 PROVE  FALSE
    BY <1>1
  <1>5. CASE k = l /\ i = j
    BY <1>3, <1>5
  <1>6. CASE l < k \/ (k = l /\ j < i)
    <2>1. At(s, ops, l)[j].num < At(s, ops, k)[i].num
      BY <1>6 DEF InOrder
    <2> QED
      BY <1>3, <2>1
  <1> QED
    BY <1>4, <1>5, <1>6

(* An op that is carried has a place and the number of an op. *)
LEMMA PlaceOf ==
  ASSUME NEW s, NEW ops, Pipe(s, ops), NEW n, Carries(s, ops, n)
  PROVE  /\ n \in 1..MaxOps
         /\ \E k \in 0..Depth : \E i \in 1..Len(At(s, ops, k)) :
              At(s, ops, k)[i].num = n
  <1>1. PICK k \in 0..Depth : \E i \in 1..Len(At(s, ops, k)) : At(s, ops, k)[i].num = n
    BY DEF Carries
  <1>2. PICK i \in 1..Len(At(s, ops, k)) : At(s, ops, k)[i].num = n
    BY <1>1
  <1>3. At(s, ops, k)[i] \in Op
    BY AtType, <1>2
  <1> QED
    BY <1>1, <1>2, <1>3 DEF Op

(* Decode keeps the order, and what it hands over is consecutive. *)
LEMMA DecodeHandsOver ==
  ASSUME TypeOK, ProgramOrder, LastSlotHanded, Decode
  PROVE  /\ Rearranged(sds, src, sds', src')
         /\ Narrow(sds', src')
         /\ Follows(sds[0], sds'[0], calls')
  <1> DEFINE s == Shift(sds)
             stall == sds[0] # <<>>
  <1>1. Pipe(sds, src) /\ Narrow(sds, src)
    BY DEF TypeOK, Pipe, Narrow
  <1>2. Rearranged(sds, src, s, src) /\ Narrow(s, src) /\ Pipe(s, src)
    BY <1>1, ShiftRearranges, ShiftIsNarrow DEF Rearranged
  <1>3. 0 \in Slots
    BY DecodeAssumption DEF Slots
  <1>4. stall => s[0] = sds[0]
    <2>1. SUFFICES ASSUME stall
                   PROVE  s[0] = sds[0]
      OBVIOUS
    <2>2. FirstEmpty(sds) \in 0..Depth /\ FirstEmpty(sds) # 0
      BY <1>3, <2>1, FirstEmptyFacts, DecodeAssumption
    <2> QED
      BY <1>3, <2>2 DEF Shift
  <1>5. /\ sds' = Placed(s, src) /\ src' = Left(s, src)
        /\ calls' = Processed(stall, s, src)
    BY DEF Decode, Placed, Left
  <1>6. stall \in BOOLEAN /\ (stall => s[0] # <<>>)
    BY <1>4
  <1>7. (IF stall THEN s[0] ELSE <<>>) = sds[0]
    BY <1>4
  <1> HIDE DEF s, stall
  <1>8. /\ Rearranged(s, src, sds', src') /\ Narrow(sds', src')
        /\ Follows(sds[0], sds'[0], calls')
    BY <1>2, <1>5, <1>6, <1>7, PlacedFacts, ProcessedIsWhatFollows
  <1> QED
    BY <1>2, <1>8, RearrangedAgain

(* The ops that are new in the last slot are the next that are due.        *)
LEMMA DueOps ==
  ASSUME TypeOK, ProgramOrder, LastSlotHanded, Decode
  PROVE  LET c == Len(sds[0])
         IN  /\ calls' \in Seq(1..MaxOps) /\ c \in Nat
             /\ Len(sds'[0]) = c + Len(calls')
             /\ \A i \in 1..c : sds'[0][i] = sds[0][i]
             /\ \A i \in 1..Len(calls') :
                  /\ c + i \in 1..Len(At(sds', src', 0))
                  /\ calls'[i] = At(sds', src', 0)[c + i].num
                  /\ calls'[i] > handed /\ calls'[i] < next
                  /\ Carries(sds, src, calls'[i])
  <1> DEFINE c == Len(sds[0])
  <1>1. /\ Rearranged(sds, src, sds', src')
        /\ Follows(sds[0], sds'[0], calls')
    BY DecodeHandsOver
  <1>2. Pipe(sds', src') /\ InOrder(sds', src') /\ Pipe(sds, src)
    BY <1>1 DEF Rearranged, ProgramOrder, TypeOK, Pipe
  <1>3. 0 \in Slots /\ At(sds', src', 0) = sds'[0] /\ At(sds, src, 0) = sds[0] /\ 0 \in 0..Depth
    BY DecodeAssumption DEF Slots, At
  <1>4. sds[0] \in Seq(Op) /\ c \in Nat /\ sds'[0] \in Seq(Op)
    BY <1>2, <1>3 DEF Pipe
  <1>5. /\ Len(sds'[0]) = c + Len(calls')
        /\ \A i \in 1..c : sds'[0][i] = sds[0][i]
        /\ \A i \in 1..Len(calls') : calls'[i] = sds'[0][c + i].num
    BY <1>1 DEF Follows
  <1> HIDE DEF c
  <1>6. calls' \in Seq(1..MaxOps)
    <2>1. \A seq \in Seq(Op) : Numbers(seq) \in Seq(1..MaxOps)
      <3> SUFFICES ASSUME NEW seq \in Seq(Op)
                   PROVE  Numbers(seq) \in Seq(1..MaxOps)
        OBVIOUS
      <3>0. \A i \in 1..Len(seq) : seq[i] \in Op
        OBVIOUS
      <3>1. seq \in Seq(Op) /\ \A i \in 1..Len(seq) : seq[i].num \in 1..MaxOps
        BY <3>0 DEF Op
      <3> QED
        BY <3>1 DEF Numbers
    <2> QED
      <3> DEFINE s == Shift(sds)
      <3>1. Pipe(s, src) /\ Narrow(s, src)
        BY ShiftRearranges, ShiftIsNarrow DEF TypeOK, Pipe, Narrow, Rearranged
      <3>2. Pipe(MoveAhead(s, src), Remaining(s, src))
        BY <3>1, MoveAheadRearranges DEF Rearranged
      <3>3. SubSeq(src, 1, Appended(s, src)) \in Seq(Op)
        BY <3>1, MovedFacts DEF Pipe
      <3>4. calls' = Processed(sds[0] # <<>>, s, src)
        BY DEF Decode
      <3>5. /\ MoveAhead(s, src)[0] \in Seq(Op)
            /\ Remaining(s, src) \in Seq(Op) /\ <<>> \in Seq(1..MaxOps)
        BY <1>3, <3>2 DEF Pipe
      <3> HIDE DEF s
      <3> QED
        BY <2>1, <3>3, <3>4, <3>5 DEF Processed
  <1>7. ASSUME NEW i \in 1..Len(calls')
        PROVE  /\ c + i \in 1..Len(At(sds', src', 0)) /\ i \in Nat /\ i > 0
               /\ calls'[i] = At(sds', src', 0)[c + i].num
               /\ calls'[i] \in 1..MaxOps
               /\ calls'[i] > handed /\ calls'[i] < next
               /\ Carries(sds, src, calls'[i])
    <2>1. Len(calls') \in Nat
      BY <1>6
    <2>2. c + i \in 1..Len(sds'[0]) /\ i \in Nat /\ i > 0
      BY <1>4, <1>5, <2>1
    <2> DEFINE n == calls'[i]
    <2>3. n = At(sds', src', 0)[c + i].num
      BY <1>3, <1>5
    <2>4. Carries(sds', src', n)
      BY <1>3, <2>2, <2>3 DEF Carries
    <2> HIDE DEF n
    <2>5. Carries(sds, src, n)
      BY <1>1, <2>4 DEF Rearranged
    <2>6. n \in 1..MaxOps
      BY <1>2, <2>5, PlaceOf
    <2>7. n < next
      BY <2>5, <2>6 DEF ProgramOrder, InFlight
    <2>8. PICK k \in 0..Depth : \E j \in 1..Len(At(sds, src, k)) : At(sds, src, k)[j].num = n
      BY <2>5 DEF Carries
    <2>9. PICK j \in 1..Len(At(sds, src, k)) : At(sds, src, k)[j].num = n
      BY <2>8
    <2>10. k # 0
      <3>1. SUFFICES ASSUME k = 0
                     PROVE  FALSE
        OBVIOUS
      <3>2. j \in 1..c /\ sds'[0][j] = sds[0][j]
        BY <1>3, <1>5, <2>9, <3>1 DEF c
      <3>3. j \in 1..Len(sds'[0]) /\ j < c + i /\ sds'[0][j].num = n
        BY <1>3, <1>4, <1>5, <2>1, <2>2, <2>9, <3>1, <3>2
      <3>4. At(sds', src', 0)[j].num < At(sds', src', 0)[c + i].num
        BY <1>2, <1>3, <2>2, <3>3 DEF InOrder
      <3> QED
        BY <1>3, <2>3, <2>6, <3>3, <3>4
    <2>11. n > handed
      BY <2>6, <2>8, <2>9, <2>10 DEF LastSlotHanded, TypeOK
    <2>12. c + i \in 1..Len(At(sds', src', 0))
      BY <1>3, <2>2
    <2> QED
      BY <2>2, <2>3, <2>5, <2>6, <2>7, <2>11, <2>12 DEF n
  <1> QED
    BY <1>4, <1>5, <1>6, <1>7 DEF c

(* Nothing is handed over twice and nothing is left out: between the op    *)
(* that was handed over before and this one there is none in flight.       *)
LEMMA DecodeInOrder ==
  ASSUME TypeOK, ProgramOrder, LastSlotHanded, Decode, NEW i \in 1..Len(calls')
  PROVE  calls'[i] = 1 + (IF i = 1 THEN handed ELSE calls'[i - 1])
  <1> DEFINE c == Len(sds[0])
             q == At(sds', src', 0)
             n == calls'[i]
             low == IF i = 1 THEN handed ELSE calls'[i - 1]
  <1>1. /\ calls' \in Seq(1..MaxOps) /\ c \in Nat
        /\ Len(sds'[0]) = c + Len(calls')
        /\ \A j \in 1..c : sds'[0][j] = sds[0][j]
        /\ \A j \in 1..Len(calls') :
             /\ c + j \in 1..Len(q) /\ calls'[j] = q[c + j].num
             /\ calls'[j] > handed /\ calls'[j] < next
             /\ Carries(sds, src, calls'[j])
    BY DueOps
  <1>2. /\ Rearranged(sds, src, sds', src') /\ InOrder(sds', src') /\ Pipe(sds', src')
    BY DecodeHandsOver DEF Rearranged, ProgramOrder
  <1>3. Pipe(sds, src)
    BY DEF TypeOK, Pipe
  <1>4. q = sds'[0] /\ At(sds, src, 0) = sds[0] /\ 0 \in 0..Depth /\ 0 \in Slots
    BY DecodeAssumption DEF At, Slots
  <1>5. i \in Nat /\ i > 0 /\ Len(calls') \in Nat /\ i <= Len(calls')
    BY <1>1
  <1>6. sds[0] \in Seq(Op) /\ handed \in Nat /\ next \in Nat
    BY <1>3, <1>4 DEF Pipe, TypeOK
  <1>0. \A j \in 1..Len(calls') : calls'[j] \in 1..MaxOps
    <2>1. calls' \in Seq(1..MaxOps)
      BY <1>1
    <2> QED
      BY <2>1, ElementOfSeq
  <1>7. /\ c + i \in 1..Len(q) /\ n = q[c + i].num /\ n > handed /\ n < next
        /\ n \in Nat
    BY <1>0, <1>1
  <1> HIDE DEF c, q
  <1>8. /\ low \in Nat /\ low < n
        /\ low + 1 = next \/ InFlight(low + 1)
    <2>1. CASE i = 1
      BY <1>6, <1>7, <2>1 DEF LastSlotHanded
    <2>2. CASE i # 1
      <3>1. i - 1 \in 1..Len(calls') /\ c + (i - 1) < c + i
        BY <1>1, <1>5, <2>2
      <3> DEFINE m == calls'[i - 1]
      <3>2. /\ c + (i - 1) \in 1..Len(q) /\ m = q[c + (i - 1)].num
            /\ m < next /\ Carries(sds, src, m) /\ m \in 1..MaxOps
        BY <1>0, <1>1, <3>1
      <3>3. m < n
        BY <1>2, <1>4, <1>7, <3>1, <3>2 DEF InOrder, q
      <3>4. m + 1 = next \/ InFlight(m + 1)
        BY <3>2 DEF ProgramOrder, InFlight
      <3> QED
        BY <2>2, <3>2, <3>3, <3>4
    <2> QED
      BY <2>1, <2>2
  <1> HIDE DEF low, n
  <1>9. SUFFICES ASSUME low + 1 < n
                 PROVE  FALSE
    BY <1>7, <1>8 DEF low, n
  <1>10. Carries(sds, src, low + 1) /\ Carries(sds', src', low + 1)
    BY <1>2, <1>6, <1>7, <1>8, <1>9 DEF InFlight, Rearranged
  <1>11. PICK k \in 0..Depth : \E j \in 1..Len(At(sds', src', k)) :
           At(sds', src', k)[j].num = low + 1
    BY <1>10 DEF Carries
  <1>12. PICK j \in 1..Len(At(sds', src', k)) : At(sds', src', k)[j].num = low + 1
    BY <1>11
  <1>13. k = 0 /\ j < c + i
    <2>1. k < 0 \/ (k = 0 /\ j < c + i)
      BY <1>2, <1>4, <1>7, <1>9, <1>12, LowerIsAhead DEF q
    <2> QED
      BY <2>1, DecodeAssumption
  <1>14. q[j].num = low + 1 /\ j \in 1..Len(q)
    BY <1>12, <1>13 DEF q
  <1>15. j > c + (i - 1) \/ i = 1
    <2>1. SUFFICES ASSUME i # 1
                   PROVE  j > c + (i - 1)
      OBVIOUS
    <2>2. i - 1 \in 1..Len(calls')
      BY <1>5, <2>1
    <2>3. c + (i - 1) \in 1..Len(q) /\ low = q[c + (i - 1)].num
      BY <1>1, <2>1, <2>2 DEF low
    <2>4. q[c + (i - 1)].num < q[j].num
      BY <1>8, <1>14, <2>3
    <2>5. 0 < 0 \/ (0 = 0 /\ c + (i - 1) < j)
      BY <1>2, <1>4, <1>14, <2>3, <2>4, LowerIsAhead DEF q
    <2> QED
      BY <1>1, <1>5, <2>5, <1>14
  <1>16. i = 1 /\ j \in 1..c
    BY <1>1, <1>4, <1>5, <1>13, <1>14, <1>15
  <1>17. sds[0][j].num = handed + 1
    BY <1>1, <1>4, <1>14, <1>16 DEF low
  <1>18. At(sds, src, 0)[j].num <= handed
    BY <1>4, <1>16 DEF LastSlotHanded, c
  <1> QED
    BY <1>4, <1>6, <1>17, <1>18

(* The invariant in terms of the pipeline alone.                           *)
Ordered(s, ops, n) ==
  /\ InOrder(s, ops)
  /\ \A m \in 1..MaxOps : Carries(s, ops, m) => m < n /\ (m + 1 = n \/ Carries(s, ops, m + 1))

LastHanded(s, ops, n, h) ==
  /\ \A k \in 0..Depth : \A i \in 1..Len(At(s, ops, k)) :
       k = 0 <=> At(s, ops, k)[i].num <= h
  /\ h < n /\ (h + 1 = n \/ Carries(s, ops, h + 1))

LEMMA InvOfPipe ==
  /\ ProgramOrder <=> Ordered(sds, src, next)
  /\ LastSlotHanded <=> LastHanded(sds, src, next, handed)
  /\ ProgramOrder' <=> Ordered(sds', src', next')
  /\ LastSlotHanded' <=> LastHanded(sds', src', next', handed')
  BY DEF ProgramOrder, Ordered, LastSlotHanded, LastHanded, InFlight

LEMMA TypeOfPipe ==
  /\ TypeOK <=> /\ Pipe(sds, src) /\ Narrow(sds, src)
                /\ phase \in {"recover", "map", "decode", "fetch"}
                /\ next \in 1..(MaxOps + 1)
                /\ handed \in 0..MaxOps
                /\ calls \in Seq(1..MaxOps)
  /\ TypeOK' <=> /\ Pipe(sds', src') /\ Narrow(sds', src')
                 /\ phase' \in {"recover", "map", "decode", "fetch"}
                 /\ next' \in 1..(MaxOps + 1)
                 /\ handed' \in 0..MaxOps
                 /\ calls' \in Seq(1..MaxOps)
  BY DEF TypeOK, Pipe, Narrow

LEMMA DecodeStep ==
  ASSUME TypeOK, ProgramOrder, LastSlotHanded, Decode
  PROVE  TypeOK' /\ ProgramOrder' /\ LastSlotHanded'
  <1> DEFINE c == Len(sds[0])
             q == At(sds', src', 0)
             z == Len(calls')
  <1>1. /\ calls' \in Seq(1..MaxOps) /\ c \in Nat
        /\ Len(sds'[0]) = c + z
        /\ \A j \in 1..c : sds'[0][j] = sds[0][j]
        /\ \A j \in 1..z :
             /\ c + j \in 1..Len(q) /\ calls'[j] = q[c + j].num
             /\ calls'[j] > handed /\ calls'[j] < next
             /\ Carries(sds, src, calls'[j])
    BY DueOps
  <1>2. /\ Rearranged(sds, src, sds', src') /\ InOrder(sds', src') /\ Pipe(sds', src')
        /\ Narrow(sds', src')
    BY DecodeHandsOver DEF Rearranged, ProgramOrder
  <1>3. Pipe(sds, src)
    BY DEF TypeOK, Pipe
  <1>4. q = sds'[0] /\ At(sds, src, 0) = sds[0] /\ 0 \in 0..Depth /\ 0 \in Slots
    BY DecodeAssumption DEF At, Slots
  <1>5. z \in Nat /\ (calls' # <<>> <=> z > 0)
    BY <1>1, EmptySeq
  <1>6. handed \in Nat /\ next \in Nat /\ next <= MaxOps + 1 /\ MaxOps \in Nat
    BY DecodeAssumption DEF TypeOK
  <1>7. /\ handed' = IF z = 0 THEN handed ELSE calls'[z]
        /\ phase' = "fetch" /\ next' = next
    BY <1>5 DEF Decode
  <1>8. z > 0 => calls'[z] \in 1..MaxOps
    <2>1. calls' \in Seq(1..MaxOps) /\ (z > 0 => z \in 1..Len(calls'))
      BY <1>1, <1>5
    <2> QED
      BY <2>1, ElementOfSeq
  <1>9. TypeOK'
    <2>1. handed' \in 0..MaxOps
      BY <1>6, <1>7, <1>8, <1>5 DEF TypeOK
    <2>2. next' \in 1..(MaxOps + 1)
      BY <1>7 DEF TypeOK
    <2> QED
      BY <1>1, <1>2, <1>7, <2>1, <2>2, TypeOfPipe
  <1>10. ProgramOrder'
    BY <1>2, <1>7 DEF ProgramOrder, InFlight, Rearranged
  <1> HIDE DEF c, q, z
  <1>11. handed' < next /\ (handed' + 1 = next \/ Carries(sds', src', handed' + 1))
    <2>1. CASE z = 0
      BY <1>2, <1>7, <2>1 DEF LastSlotHanded, InFlight, Rearranged
    <2>2. CASE z > 0
      <3>1. handed' \in 1..MaxOps /\ Carries(sds, src, handed')
        BY <1>1, <1>5, <1>7, <1>8, <2>2
      <3>2. handed' < next /\ (handed' + 1 = next \/ Carries(sds, src, handed' + 1))
        BY <3>1 DEF ProgramOrder, InFlight
      <3> QED
        BY <1>2, <3>2 DEF Rearranged
    <2> QED
      BY <1>5, <2>1, <2>2
  <1>12. ASSUME NEW k \in 0..Depth, NEW i \in 1..Len(At(sds', src', k))
         PROVE  k = 0 <=> At(sds', src', k)[i].num <= handed'
    <2> DEFINE n == At(sds', src', k)[i].num
    <2>1. Carries(sds', src', n) /\ Carries(sds, src, n)
      BY <1>2 DEF Carries, Rearranged
    <2>2. n \in 1..MaxOps
      BY <1>2, <2>1, PlaceOf
    <2>3. i \in Nat /\ i > 0
      BY <1>2, AtType
    <2> HIDE DEF n
    <2>4. CASE z > 0
      <3>1. /\ c + z \in 1..Len(q) /\ handed' = q[c + z].num /\ handed' \in Nat
            /\ Len(q) = c + z
        BY <1>1, <1>4, <1>5, <1>6, <1>7, <1>8, <2>4
      <3>2. CASE k = 0
        <4>1. i = c + z \/ i < c + z
          BY <1>1, <1>5, <2>3, <3>1, <3>2 DEF q
        <4>2. i = c + z => n = handed'
          BY <3>1, <3>2 DEF q, n
        <4>3. i < c + z => n < handed'
          BY <1>2, <1>4, <3>1, <3>2 DEF q, n, InOrder
        <4> QED
          BY <2>2, <3>1, <3>2, <4>1, <4>2, <4>3 DEF n
      <3>3. CASE k # 0
        <4>1. 0 < k
          BY <3>3, DecodeAssumption
        <4>2. handed' < n
          BY <1>2, <1>4, <3>1, <4>1 DEF InOrder, q, n
        <4> QED
          BY <2>2, <3>1, <3>3, <4>2 DEF n
      <3> QED
        BY <3>2, <3>3
    <2>5. CASE z = 0
      <3>1. CASE k = 0
        <4>1. i \in 1..c /\ n = sds[0][i].num /\ i \in 1..Len(At(sds, src, 0))
          BY <1>1, <1>4, <2>5, <3>1 DEF q, n, c
        <4>2. n <= handed
          BY <1>4, <4>1 DEF LastSlotHanded
        <4> QED
          BY <1>7, <2>5, <3>1, <4>2 DEF n
      <3>2. CASE k # 0
        <4>1. PICK l \in 0..Depth : \E j \in 1..Len(At(sds, src, l)) : At(sds, src, l)[j].num = n
          BY <2>1 DEF Carries
        <4>2. PICK j \in 1..Len(At(sds, src, l)) : At(sds, src, l)[j].num = n
          BY <4>1
        <4>3. SUFFICES ASSUME l = 0
                       PROVE  FALSE
          BY <1>6, <1>7, <2>2, <2>5, <3>2, <4>2 DEF LastSlotHanded, n
        <4>4. j \in 1..Len(q) /\ q[j].num = n
          BY <1>1, <1>4, <2>5, <4>2, <4>3 DEF c
        <4>5. 0 < k
          BY <3>2, DecodeAssumption
        <4>6. q[j].num < n
          BY <1>2, <1>4, <4>4, <4>5 DEF InOrder, q, n
        <4> QED
          BY <2>2, <4>4, <4>6
      <3> QED
        BY <3>1, <3>2
    <2> QED
      BY <1>5, <2>4, <2>5
  <1>13. LastSlotHanded'
    BY <1>7, <1>11, <1>12, InvOfPipe DEF LastHanded
  <1> QED
    BY <1>9, <1>10, <1>13

(* Taking the last slot. *)
LEMMA MapStep ==
  ASSUME TypeOK, ProgramOrder, LastSlotHanded, MapTakes
  PROVE  /\ TypeOK' /\ ProgramOrder' /\ LastSlotHanded'
         /\ \A n \in 1..MaxOps :
              Carries(sds', src', n) <=> Carries(sds, src, n) /\ n > handed
  <1>1. /\ sds' = [sds EXCEPT ![0] = <<>>] /\ src' = src /\ phase' = "decode"
        /\ next' = next /\ handed' = handed /\ calls' = calls
    BY DEF MapTakes
  <1>2. Pipe(sds, src) /\ Narrow(sds, src)
    BY TypeOfPipe
  <1>3. 0 \in Slots /\ Len(<<>>) = 0 /\ <<>> \in Seq(Op) /\ Width \in Nat
    BY DecodeAssumption DEF Slots
  <1>4. Pipe(sds', src') /\ Narrow(sds', src')
    BY <1>1, <1>2, <1>3 DEF Pipe, Narrow
  <1>5. \A k \in 0..Depth :
          At(sds', src', k) = IF k = 0 THEN <<>> ELSE At(sds, src, k)
    BY <1>1, <1>2, <1>3, DecodeAssumption DEF At, Pipe, Slots
  <1>6. ASSUME NEW n, Carries(sds', src', n)
        PROVE  Carries(sds, src, n) /\ n > handed /\ n \in 1..MaxOps
    <2>1. PICK k \in 0..Depth : \E i \in 1..Len(At(sds', src', k)) : At(sds', src', k)[i].num = n
      BY <1>6 DEF Carries
    <2>2. PICK i \in 1..Len(At(sds', src', k)) : At(sds', src', k)[i].num = n
      BY <2>1
    <2>3. k # 0 /\ At(sds', src', k) = At(sds, src, k)
      BY <1>3, <1>5, <2>2
    <2>4. Carries(sds, src, n)
      BY <2>1, <2>2, <2>3 DEF Carries
    <2>5. n \in 1..MaxOps
      BY <1>2, <2>4, PlaceOf
    <2> QED
      BY <2>2, <2>3, <2>4, <2>5, DecodeAssumption DEF LastSlotHanded, TypeOK
  <1>7. ASSUME NEW n \in Nat, Carries(sds, src, n), n > handed
        PROVE  Carries(sds', src', n)
    <2>1. PICK k \in 0..Depth : \E i \in 1..Len(At(sds, src, k)) : At(sds, src, k)[i].num = n
      BY <1>7 DEF Carries
    <2>2. PICK i \in 1..Len(At(sds, src, k)) : At(sds, src, k)[i].num = n
      BY <2>1
    <2>3. k # 0
      BY <1>7, <2>2 DEF LastSlotHanded, TypeOK
    <2>4. At(sds', src', k) = At(sds, src, k)
      BY <1>5, <2>3
    <2> QED
      BY <2>1, <2>2, <2>4 DEF Carries
  <1>8. InOrder(sds', src')
    <2>1. \A k \in 0..Depth : \A i \in 1..Len(At(sds', src', k)) :
            At(sds', src', k) = At(sds, src, k)
      BY <1>3, <1>5
    <2> QED
      BY <2>1 DEF ProgramOrder, InOrder
  <1>9. handed \in Nat /\ next \in Nat
    BY DEF TypeOK
  <1>10. Ordered(sds', src', next')
    <2>1. ASSUME NEW m \in 1..MaxOps, Carries(sds', src', m)
          PROVE  m < next /\ (m + 1 = next \/ Carries(sds', src', m + 1))
      <3>1. Carries(sds, src, m) /\ m > handed
        BY <1>6, <2>1
      <3>2. m < next /\ (m + 1 = next \/ Carries(sds, src, m + 1))
        BY <3>1 DEF ProgramOrder, InFlight
      <3>3. m + 1 \in Nat /\ m + 1 > handed
        BY <1>9, <3>1
      <3> QED
        BY <1>7, <3>2, <3>3
    <2> QED
      BY <1>1, <1>8, <2>1 DEF Ordered
  <1>11. LastHanded(sds', src', next', handed')
    <2>1. handed < next /\ (handed + 1 = next \/ Carries(sds', src', handed + 1))
      BY <1>7, <1>9 DEF LastSlotHanded, InFlight
    <2>2. ASSUME NEW k \in 0..Depth, NEW i \in 1..Len(At(sds', src', k))
          PROVE  k = 0 <=> At(sds', src', k)[i].num <= handed
      <3>1. k # 0 /\ At(sds', src', k) = At(sds, src, k)
        BY <1>3, <1>5
      <3> QED
        BY <3>1 DEF LastSlotHanded
    <2> QED
      BY <1>1, <2>1, <2>2 DEF LastHanded
  <1>12. TypeOK'
    <2>1. TypeOK
      OBVIOUS
    <2> QED
      BY <1>1, <1>4, <2>1, TypeOfPipe
  <1> QED
    BY <1>6, <1>7, <1>10, <1>11, <1>12, InvOfPipe

(* A recovery counts the ops that are old enough.  As the ops of a slot    *)
(* stand in order, these are the first of them, so that the count leaves   *)
(* exactly them.                                                           *)
LEMMA OlderIsPrefix ==
  ASSUME NEW ops \in Seq(Op), NEW r \in Nat,
         \A i, j \in 1..Len(ops) : i < j => ops[i].num < ops[j].num
  PROVE  /\ Older(ops, r) \in Seq(Op) /\ Len(Older(ops, r)) \in 0..Len(ops)
         /\ \A i \in 1..Len(Older(ops, r)) : Older(ops, r)[i] = ops[i]
         /\ \A i \in 1..Len(ops) : i <= Len(Older(ops, r)) <=> ops[i].num <= r
  <1> DEFINE len == Len(ops)
             K == {i \in 1..len : ops[i].num <= r}
             M == {j \in 0..len : \A i \in 1..j : ops[i].num <= r}
             n == Max(M)
  <1>1. len \in Nat /\ M \in SUBSET 0..len /\ 0 \in M
    OBVIOUS
  <1>2. n \in M /\ \A y \in M : y <= n
    BY <1>1, MaxIsGreatest
  <1>3. \A i \in 1..len : ops[i].num \in Nat
    <2>1. \A i \in 1..len : ops[i] \in Op
      BY ElementOfSeq
    <2> QED
      BY <2>1 DEF Op
  <1> HIDE DEF n
  <1>4. n \in 0..len /\ \A i \in 1..n : ops[i].num <= r
    BY <1>2
  <1>5. ASSUME NEW i \in 1..len, ops[i].num <= r
        PROVE  i <= n
    <2>1. i \in 0..len /\ \A j \in 1..i : j \in 1..len
      BY <1>1
    <2>2. ASSUME NEW j \in 1..i
          PROVE  ops[j].num <= r
      <3>1. j \in 1..len /\ (j < i \/ j = i)
        BY <1>1, <2>1
      <3>2. j < i => ops[j].num < ops[i].num
        BY <3>1
      <3>3. ops[j].num \in Nat /\ ops[i].num \in Nat
        BY <1>3, <3>1
      <3> QED
        BY <1>5, <3>1, <3>2, <3>3
    <2>3. i \in M
      BY <2>1, <2>2
    <2> QED
      BY <1>2, <2>3
  <1>6. K = 1..n
    BY <1>1, <1>4, <1>5
  <1>7. Cardinality(K) = n
    <2>1. n \in Nat /\ n \in Int /\ 1 \in Int
      BY <1>1, <1>4
    <2>2. Cardinality(1..n) = IF 1 > n THEN 0 ELSE n - 1 + 1
      BY <2>1, FS_Interval
    <2> HIDE DEF K
    <2> QED
      BY <1>6, <2>1, <2>2
  <1>8. Older(ops, r) = SubSeq(ops, 1, n)
    BY <1>7 DEF Older
  <1> HIDE DEF M, K
  <1>9. /\ SubSeq(ops, 1, n) \in Seq(Op) /\ Len(SubSeq(ops, 1, n)) = n
        /\ \A i \in 1..n : SubSeq(ops, 1, n)[i] = ops[i]
    BY <1>1, <1>4
  <1>10. \A i \in 1..len : i <= n <=> ops[i].num <= r
    BY <1>4, <1>5
  <1> QED
    BY <1>4, <1>8, <1>9, <1>10 DEF len

LEMMA RecoverStep ==
  ASSUME TypeOK, ProgramOrder, LastSlotHanded, NEW r \in 1..MaxOps, Recover(r)
  PROVE  /\ TypeOK' /\ ProgramOrder' /\ LastSlotHanded'
         /\ \A n \in 1..MaxOps :
              Carries(sds', src', n) <=> Carries(sds, src, n) /\ n <= r
  <1>1. /\ r < next /\ next' = r + 1 /\ handed' = Min({handed, r})
        /\ phase' = "map" /\ calls' = calls
        /\ sds' = [k \in Slots |-> Older(sds[k], r)] /\ src' = Older(src, r)
    BY DEF Recover, Flush
  <1>2. Pipe(sds, src) /\ Narrow(sds, src)
    BY TypeOfPipe
  <1>3. handed \in Nat /\ next \in Nat /\ r \in Nat
    BY DEF TypeOK
  <1>4. ASSUME NEW k \in 0..Depth
        PROVE  LET old == At(sds, src, k)
                   new == Older(old, r)
               IN  /\ old \in Seq(Op) /\ new \in Seq(Op) /\ Len(new) \in 0..Len(old)
                   /\ \A i \in 1..Len(new) : new[i] = old[i]
                   /\ \A i \in 1..Len(old) : i <= Len(new) <=> old[i].num <= r
    <2> DEFINE old == At(sds, src, k)
    <2>1. old \in Seq(Op)
      BY <1>2, AtType
    <2>2. \A i, j \in 1..Len(old) : i < j => old[i].num < old[j].num
      BY DEF ProgramOrder, InOrder
    <2> HIDE DEF old
    <2>3. LET new == Older(old, r)
          IN  /\ new \in Seq(Op) /\ Len(new) \in 0..Len(old)
              /\ \A i \in 1..Len(new) : new[i] = old[i]
              /\ \A i \in 1..Len(old) : i <= Len(new) <=> old[i].num <= r
      BY <1>3, <2>1, <2>2, OlderIsPrefix
    <2> QED
      BY <2>1, <2>3 DEF old
  <1>5. \A k \in Slots : k \in 0..Depth /\ At(sds, src, k) = sds[k]
    BY DecodeAssumption DEF Slots, At
  <1>6. Depth \in 0..Depth /\ At(sds, src, Depth) = src
    BY DecodeAssumption DEF At
  <1>7. Pipe(sds', src') /\ Narrow(sds', src')
    <2>1. ASSUME NEW k \in Slots
          PROVE  sds'[k] \in Seq(Op) /\ Len(sds'[k]) <= Width
      <3>1. sds'[k] = Older(sds[k], r)
        BY <1>1
      <3>2. sds'[k] \in Seq(Op) /\ Len(sds'[k]) \in 0..Len(sds[k]) /\ Len(sds[k]) \in Nat
        BY <1>4, <1>5, <3>1
      <3> QED
        BY <1>2, <3>2, DecodeAssumption DEF Narrow
    <2>2. src' \in Seq(Op) /\ Len(src') \in 0..Len(src) /\ Len(src) \in Nat
      BY <1>1, <1>4, <1>6
    <2>3. Len(src') <= Width
      BY <1>2, <2>2, DecodeAssumption DEF Narrow
    <2>4. sds' \in [Slots -> Seq(Op)]
      BY <1>1, <2>1
    <2> QED
      BY <2>1, <2>2, <2>3, <2>4 DEF Pipe, Narrow
  <1>8. \A k \in 0..Depth : At(sds', src', k) = Older(At(sds, src, k), r)
    BY <1>1, DecodeAssumption DEF At, Slots
  <1>9. ASSUME NEW k \in 0..Depth, NEW i \in 1..Len(At(sds', src', k))
        PROVE  /\ i \in 1..Len(At(sds, src, k))
               /\ At(sds', src', k)[i] = At(sds, src, k)[i]
               /\ At(sds, src, k)[i].num <= r
    <2> DEFINE old == At(sds, src, k)
               new == At(sds', src', k)
    <2>1. /\ old \in Seq(Op) /\ Len(new) \in 0..Len(old)
          /\ \A j \in 1..Len(new) : new[j] = old[j]
          /\ \A j \in 1..Len(old) : j <= Len(new) <=> old[j].num <= r
      BY <1>4, <1>8
    <2> HIDE DEF old, new
    <2>2. Len(old) \in Nat /\ i \in 1..Len(new)
      BY <2>1 DEF new
    <2> QED
      BY <2>1, <2>2 DEF old, new
  <1>10. InOrder(sds', src')
    BY <1>9 DEF ProgramOrder, InOrder
  <1>11. ASSUME NEW n
         PROVE  Carries(sds', src', n) <=> Carries(sds, src, n) /\ n <= r
    <2>1. ASSUME Carries(sds', src', n)
          PROVE  Carries(sds, src, n) /\ n <= r
      BY <1>9, <2>1 DEF Carries
    <2>2. ASSUME Carries(sds, src, n), n <= r
          PROVE  Carries(sds', src', n)
      <3>1. PICK k \in 0..Depth : \E i \in 1..Len(At(sds, src, k)) : At(sds, src, k)[i].num = n
        BY <2>2 DEF Carries
      <3>2. PICK i \in 1..Len(At(sds, src, k)) : At(sds, src, k)[i].num = n
        BY <3>1
      <3> DEFINE old == At(sds, src, k)
                 new == At(sds', src', k)
      <3>3. /\ old \in Seq(Op) /\ Len(new) \in 0..Len(old)
            /\ \A j \in 1..Len(new) : new[j] = old[j]
            /\ \A j \in 1..Len(old) : j <= Len(new) <=> old[j].num <= r
        BY <1>4, <1>8
      <3>4. i \in 1..Len(old) /\ old[i].num = n
        BY <3>2
      <3>5. Carries(sds', src', n) <=> \E x \in 0..Depth : \E j \in 1..Len(At(sds', src', x)) : At(sds', src', x)[j].num = n
        BY DEF Carries
      <3> HIDE DEF old, new
      <3>6. i \in 1..Len(new) /\ new[i].num = n
        BY <2>2, <3>3, <3>4
      <3> QED
        BY <3>1, <3>5, <3>6 DEF new
    <2> QED
      BY <2>1, <2>2
  <1>12. Ordered(sds', src', next')
    <2>1. ASSUME NEW m \in 1..MaxOps, Carries(sds', src', m)
          PROVE  m < r + 1 /\ (m + 1 = r + 1 \/ Carries(sds', src', m + 1))
      <3>1. Carries(sds, src, m) /\ m <= r
        BY <1>11, <2>1
      <3>2. m < next /\ (m + 1 = next \/ Carries(sds, src, m + 1))
        BY <3>1 DEF ProgramOrder, InFlight
      <3>3. m # r => m + 1 <= r /\ m + 1 < next
        BY <1>1, <1>3, <3>1
      <3> QED
        BY <1>3, <1>11, <3>1, <3>2, <3>3
    <2> QED
      BY <1>1, <1>10, <2>1 DEF Ordered
  <1>13. handed' \in {handed, r} /\ handed' <= handed /\ handed' <= r
    <2>1. {handed, r} \in SUBSET Nat /\ {handed, r} # {}
      BY <1>3
    <2> QED
      BY <1>1, <2>1, MinIsLeast
  <1>14. LastHanded(sds', src', next', handed')
    <2>1. handed' < r + 1
      BY <1>3, <1>13
    <2>2. handed' + 1 = r + 1 \/ Carries(sds', src', handed' + 1)
      <3>1. SUFFICES ASSUME handed' # r
                     PROVE  Carries(sds', src', handed' + 1)
        BY <1>3
      <3>2. handed' = handed /\ handed + 1 <= r /\ handed + 1 < next
        BY <1>1, <1>3, <1>13, <3>1
      <3>3. Carries(sds, src, handed + 1)
        BY <1>3, <3>2 DEF LastSlotHanded, InFlight
      <3> QED
        BY <1>11, <3>2, <3>3
    <2>3. ASSUME NEW k \in 0..Depth, NEW i \in 1..Len(At(sds', src', k))
          PROVE  k = 0 <=> At(sds', src', k)[i].num <= handed'
      <3> DEFINE x == At(sds, src, k)[i]
      <3>1. i \in 1..Len(At(sds, src, k)) /\ x.num <= r /\ At(sds', src', k)[i] = x
        BY <1>9
      <3>2. x \in Op
        BY <1>2, <3>1, AtType, ElementOfSeq
      <3>3. x.num \in Nat
        BY <3>2 DEF Op
      <3>4. k = 0 <=> x.num <= handed
        BY <3>1 DEF LastSlotHanded
      <3> HIDE DEF x
      <3>5. x.num <= handed <=> x.num <= handed'
        BY <1>3, <1>13, <3>1, <3>3
      <3> QED
        BY <3>1, <3>4, <3>5
    <2> QED
      BY <1>1, <2>1, <2>2, <2>3 DEF LastHanded
  <1>15. TypeOK'
    <2>1. TypeOK
      OBVIOUS
    <2>2. next' \in 1..(MaxOps + 1) /\ handed' \in 0..MaxOps
      BY <1>1, <1>3, <1>13, DecodeAssumption DEF TypeOK
    <2> QED
      BY <1>1, <1>7, <2>1, <2>2, TypeOfPipe
  <1> QED
    BY <1>11, <1>12, <1>14, <1>15, InvOfPipe

(* A packet has at least one uop and fits into a slot. *)
LEMMA PacketFacts ==
  ASSUME NEW p \in Packets
  PROVE  p \in Seq(BOOLEAN) /\ Len(p) \in 1..Width
  <1>1. ASSUME NEW a \in Nat, NEW b \in Nat, NEW c \in Nat, a + b + c \in 1..Width
        PROVE  /\ Pattern(a, b, c) \in Seq(BOOLEAN)
               /\ Len(Pattern(a, b, c)) \in 1..Width
    <2> DEFINE n == a + b + c
    <2>1. n \in Nat /\ n \in 1..Width
      BY <1>1
    <2> HIDE DEF n
    <2>2. Pattern(a, b, c) = [i \in 1..n |-> i \in (a + 1)..(a + b)]
      BY DEF Pattern, n
    <2> QED
      BY <2>1, <2>2
  <1>2. CASE p \in {Pattern(n, 0, 0) : n \in 1..IcWidth}
    <2>1. PICK n \in 1..IcWidth : p = Pattern(n, 0, 0)
      BY <1>2
    <2>2. n \in Nat /\ 0 \in Nat /\ n + 0 + 0 \in 1..Width
      BY DecodeAssumption
    <2> QED
      BY <1>1, <2>1, <2>2
  <1>3. CASE p \in {Pattern(x[1], x[2], x[3]) :
                      x \in {y \in (0..(IcWidth - 1)) \X (0..Width) \X (0..1) :
                               y[1] + y[2] + y[3] \in 1..Width}}
    <2>1. PICK x \in (0..(IcWidth - 1)) \X (0..Width) \X (0..1) :
                 /\ x[1] + x[2] + x[3] \in 1..Width
                 /\ p = Pattern(x[1], x[2], x[3])
      BY <1>3
    <2>2. x[1] \in Nat /\ x[2] \in Nat /\ x[3] \in Nat
      BY DecodeAssumption
    <2> QED
      BY <1>1, <2>1, <2>2
  <1> QED
    BY <1>2, <1>3 DEF Packets

(* The ops of a new packet are younger than all that are in flight, and    *)
(* follow on the last of them.                                             *)
LEMMA FetchStep ==
  ASSUME TypeOK, ProgramOrder, LastSlotHanded, NEW p \in Packets, Fetch(p)
  PROVE  /\ TypeOK' /\ ProgramOrder' /\ LastSlotHanded'
         /\ \A n \in 1..MaxOps :
              Carries(sds', src', n) <=>
                Carries(sds, src, n) \/ n \in next..(next + Len(p) - 1)
  <1> DEFINE z == Len(p)
  <1>1. /\ src = <<>> /\ next + z <= MaxOps + 1 /\ next' = next + z
        /\ src' = [i \in 1..z |-> [num |-> next + i - 1, uc |-> p[i]]]
        /\ sds' = sds /\ handed' = handed /\ calls' = calls /\ phase' = "recover"
    BY DEF Fetch
  <1>2. p \in Seq(BOOLEAN) /\ z \in 1..Width /\ z \in Nat
    BY PacketFacts, DecodeAssumption
  <1>3. /\ handed \in Nat /\ next \in Nat /\ next > 0 /\ handed < next
        /\ MaxOps \in Nat /\ Depth \in Nat /\ Depth > 0
    BY DecodeAssumption DEF TypeOK, LastSlotHanded
  <1>4. Pipe(sds, src) /\ Narrow(sds, src)
    BY TypeOfPipe
  <1>5. /\ src' \in Seq(Op) /\ Len(src') = z
        /\ \A i \in 1..z : src'[i].num = next + i - 1
    <2>1. \A i \in 1..z : p[i] \in BOOLEAN
      BY <1>2, ElementOfSeq
    <2> HIDE DEF z
    <2>2. \A i \in 1..z : [num |-> next + i - 1, uc |-> p[i]] \in Op
      BY <1>1, <1>2, <1>3, <2>1 DEF Op
    <2> QED
      BY <1>1, <1>2, <2>2
  <1> HIDE DEF z
  <1>6. Pipe(sds', src') /\ Narrow(sds', src')
    BY <1>1, <1>2, <1>4, <1>5 DEF Pipe, Narrow
  <1>7. /\ At(sds', src', Depth) = src' /\ At(sds, src, Depth) = <<>>
        /\ \A k \in 0..Depth : k # Depth => At(sds', src', k) = At(sds, src, k)
        /\ Depth \in 0..Depth
    BY <1>1, <1>3 DEF At
  <1>8. ASSUME NEW k \in 0..Depth, NEW i \in 1..Len(At(sds, src, k))
        PROVE  /\ k # Depth /\ k < Depth /\ At(sds', src', k) = At(sds, src, k)
               /\ At(sds, src, k)[i].num \in 1..MaxOps
               /\ At(sds, src, k)[i].num < next
    <2>1. k # Depth
      BY <1>7
    <2>2. Carries(sds, src, At(sds, src, k)[i].num)
      BY DEF Carries
    <2>3. At(sds, src, k)[i].num \in 1..MaxOps
      BY <1>4, <2>2, PlaceOf
    <2> QED
      BY <1>3, <1>7, <2>1, <2>2, <2>3 DEF ProgramOrder, InFlight
  <1>9. ASSUME NEW k \in 0..Depth, NEW i \in 1..Len(At(sds', src', k))
        PROVE  \/ k # Depth /\ At(sds', src', k) = At(sds, src, k)
               \/ k = Depth /\ i \in 1..z /\ At(sds', src', k)[i].num = next + i - 1
    BY <1>5, <1>7
  <1>10. InOrder(sds', src')
    <2> SUFFICES ASSUME NEW k \in 0..Depth, NEW l \in 0..Depth,
                        NEW i \in 1..Len(At(sds', src', k)),
                        NEW j \in 1..Len(At(sds', src', l)),
                        k < l \/ (k = l /\ i < j)
                 PROVE  At(sds', src', k)[i].num < At(sds', src', l)[j].num
      BY DEF InOrder
    <2>1. CASE l # Depth
      <3>1. k # Depth
        BY <1>3, <2>1
      <3>2. At(sds', src', k) = At(sds, src, k) /\ At(sds', src', l) = At(sds, src, l)
        BY <1>7, <2>1, <3>1
      <3> QED
        BY <3>2 DEF ProgramOrder, InOrder
    <2>2. CASE l = Depth
      <3>1. j \in 1..z /\ At(sds', src', l)[j].num = next + j - 1
        BY <1>9, <2>2
      <3>2. CASE k = Depth
        <4>1. i \in 1..z /\ At(sds', src', k)[i].num = next + i - 1
          BY <1>9, <3>2
        <4> QED
          BY <1>2, <1>3, <2>2, <3>1, <3>2, <4>1
      <3>3. CASE k # Depth
        <4>1. At(sds', src', k) = At(sds, src, k)
          BY <1>7, <3>3
        <4>2. At(sds', src', k)[i].num \in 1..MaxOps /\ At(sds', src', k)[i].num < next
          BY <1>8, <4>1
        <4> QED
          BY <1>2, <1>3, <3>1, <4>2
      <3> QED
        BY <3>2, <3>3
    <2> QED
      BY <2>1, <2>2
  <1>11. ASSUME NEW n, Carries(sds, src, n)
         PROVE  Carries(sds', src', n)
    <2>1. PICK k \in 0..Depth : \E i \in 1..Len(At(sds, src, k)) : At(sds, src, k)[i].num = n
      BY <1>11 DEF Carries
    <2>2. At(sds', src', k) = At(sds, src, k)
      BY <1>8, <2>1
    <2> QED
      BY <2>1, <2>2 DEF Carries
  <1>12. ASSUME NEW n \in next..(next + z - 1)
         PROVE  Carries(sds', src', n)
    <2>1. n - next + 1 \in 1..z /\ next + (n - next + 1) - 1 = n
      BY <1>2, <1>3
    <2>2. n - next + 1 \in 1..Len(src') /\ src'[n - next + 1].num = n
      BY <1>5, <2>1
    <2> QED
      BY <1>7, <2>2 DEF Carries
  <1>13. Ordered(sds', src', next')
    <2>1. ASSUME NEW m \in 1..MaxOps, Carries(sds', src', m)
          PROVE  m < next + z /\ (m + 1 = next + z \/ Carries(sds', src', m + 1))
      <3>1. PICK k \in 0..Depth : \E i \in 1..Len(At(sds', src', k)) : At(sds', src', k)[i].num = m
        BY <2>1 DEF Carries
      <3>2. PICK i \in 1..Len(At(sds', src', k)) : At(sds', src', k)[i].num = m
        BY <3>1
      <3>3. CASE k = Depth
        <4>1. i \in 1..z /\ m = next + i - 1
          BY <1>9, <3>2, <3>3
        <4>2. m + 1 = next + z \/ m + 1 \in next..(next + z - 1)
          BY <1>2, <1>3, <4>1
        <4> QED
          BY <1>2, <1>3, <1>12, <4>1, <4>2
      <3>4. CASE k # Depth
        <4>1. At(sds', src', k) = At(sds, src, k)
          BY <1>7, <3>4
        <4>2. Carries(sds, src, m)
          BY <3>1, <3>2, <4>1 DEF Carries
        <4>3. m < next /\ (m + 1 = next \/ Carries(sds, src, m + 1))
          BY <4>2 DEF ProgramOrder, InFlight
        <4>4. m + 1 = next => m + 1 \in next..(next + z - 1)
          BY <1>2, <1>3
        <4> QED
          BY <1>2, <1>3, <1>11, <1>12, <4>3, <4>4
      <3> QED
        BY <3>3, <3>4
    <2> QED
      BY <1>1, <1>10, <2>1 DEF Ordered
  <1>14. LastHanded(sds', src', next', handed')
    <2>1. handed < next + z
      BY <1>2, <1>3
    <2>2. Carries(sds', src', handed + 1)
      <3>1. handed + 1 = next \/ Carries(sds, src, handed + 1)
        BY DEF LastSlotHanded, InFlight
      <3>2. handed + 1 = next => handed + 1 \in next..(next + z - 1)
        BY <1>2, <1>3
      <3> QED
        BY <1>11, <1>12, <3>1, <3>2
    <2>3. ASSUME NEW k \in 0..Depth, NEW i \in 1..Len(At(sds', src', k))
          PROVE  k = 0 <=> At(sds', src', k)[i].num <= handed
      <3>1. CASE k = Depth
        <4>1. i \in 1..z /\ At(sds', src', k)[i].num = next + i - 1 /\ k # 0
          BY <1>3, <1>9, <3>1
        <4>2. ~(next + i - 1 <= handed)
          BY <1>2, <1>3, <4>1
        <4> QED
          BY <4>1, <4>2
      <3>2. CASE k # Depth
        <4>1. At(sds', src', k) = At(sds, src, k)
          BY <1>7, <3>2
        <4> QED
          BY <4>1 DEF LastSlotHanded
      <3> QED
        BY <3>1, <3>2
    <2> QED
      BY <1>1, <2>1, <2>2, <2>3 DEF LastHanded
  <1>15. TypeOK'
    <2>1. TypeOK
      OBVIOUS
    <2>2. next' \in 1..(MaxOps + 1)
      BY <1>1, <1>2, <1>3
    <2> QED
      BY <1>1, <1>6, <2>1, <2>2, TypeOfPipe
  <1>16. ASSUME NEW n, Carries(sds', src', n)
         PROVE  Carries(sds, src, n) \/ n \in next..(next + z - 1)
    <2>1. PICK k \in 0..Depth : \E i \in 1..Len(At(sds', src', k)) : At(sds', src', k)[i].num = n
      BY <1>16 DEF Carries
    <2>2. PICK i \in 1..Len(At(sds', src', k)) : At(sds', src', k)[i].num = n
      BY <2>1
    <2>3. CASE k = Depth
      <3>1. i \in 1..z /\ n = next + i - 1
        BY <1>9, <2>2, <2>3
      <3> QED
        BY <1>2, <1>3, <3>1
    <2>4. CASE k # Depth
      BY <1>7, <2>1, <2>4 DEF Carries
    <2> QED
      BY <2>3, <2>4
  <1> QED
    BY <1>11, <1>12, <1>13, <1>14, <1>15, <1>16, InvOfPipe DEF z

(* A part of the cycle in which nothing happens. *)
LEMMA IdleStep ==
  ASSUME TypeOK, ProgramOrder, LastSlotHanded,
         phase' \in {"recover", "map", "decode", "fetch"},
         UNCHANGED <<sds, src, next, handed, calls>>
  PROVE  TypeOK' /\ ProgramOrder' /\ LastSlotHanded'
  <1>1. TypeOK'
    BY DEF TypeOK
  <1>2. ProgramOrder' /\ LastSlotHanded'
    BY InvOfPipe
  <1> QED
    BY <1>1, <1>2

LEMMA InitInv ==
  ASSUME Init
  PROVE  TypeOK /\ ProgramOrder /\ LastSlotHanded
  <1>1. \A k \in 0..Depth : At(sds, src, k) = <<>>
    BY DecodeAssumption DEF Init, At, Slots
  <1>2. InOrder(sds, src) /\ \A n : ~Carries(sds, src, n)
    BY <1>1 DEF InOrder, Carries
  <1>3. \A k \in 0..Depth : \A i \in 1..Len(At(sds, src, k)) : FALSE
    BY <1>1
  <1>4. next = 1 /\ handed = 0
    BY DEF Init
  <1>5. TypeOK
    BY DecodeAssumption DEF Init, TypeOK, Slots
  <1>6. ProgramOrder
    BY <1>2 DEF ProgramOrder, InFlight
  <1>7. LastSlotHanded
    BY <1>3, <1>4 DEF LastSlotHanded
  <1> QED
    BY <1>5, <1>6, <1>7

(* The inductive invariant holds in every state of the pipeline. *)
THEOREM Invariance == Spec => []Inv
  <1>1. Init => Inv
    BY InitInv DEF Inv
  <1>2. Inv /\ [Next]_vars => Inv'
    <2> SUFFICES ASSUME TypeOK, ProgramOrder, LastSlotHanded, [Next]_vars
                 PROVE  TypeOK' /\ ProgramOrder' /\ LastSlotHanded'
      BY DEF Inv
    <2>1. CASE \E r \in 1..MaxOps : Recover(r)
      BY <2>1, RecoverStep
    <2>2. CASE NoRecovery
      BY <2>2, IdleStep DEF NoRecovery
    <2>3. CASE MapTakes
      BY <2>3, MapStep
    <2>4. CASE MapStalls
      BY <2>4, IdleStep DEF MapStalls
    <2>5. CASE Decode
      BY <2>5, DecodeStep
    <2>6. CASE \E p \in Packets : Fetch(p)
      BY <2>6, FetchStep
    <2>7. CASE FetchNothing
      BY <2>7, IdleStep DEF FetchNothing
    <2>8. CASE UNCHANGED vars
      <3>1. phase' \in {"recover", "map", "decode", "fetch"}
        BY <2>8 DEF vars, TypeOK
      <3> QED
        BY <2>8, <3>1, IdleStep DEF vars
    <2> QED
      BY <2>1, <2>2, <2>3, <2>4, <2>5, <2>6, <2>7, <2>8 DEF Next
  <1> QED
    BY <1>1, <1>2, PTL DEF Spec

(* The slots hold ops and never more than they have room for: the moves    *)
(* respect UC_ISSUE_WIDTH.                                                 *)
THEOREM TypeCorrect == Spec => []TypeOK
  <1>1. Inv => TypeOK
    BY DEF Inv
  <1> QED
    BY <1>1, Invariance, PTL

(* The ops in flight are the consecutive ones up to the last one fetched,  *)
(* in the order of the program: cached uops overtake none, and none is     *)
(* lost, duplicated or left over by a recovery.                            *)
THEOREM ProgramOrderHolds == Spec => []ProgramOrder
  <1>1. Inv => ProgramOrder
    BY DEF Inv
  <1> QED
    BY <1>1, Invariance, PTL

(* update_decode_stage's assertion: when the last slot was empty, the      *)
(* first one is free after the loop over the slots and after the cached    *)
(* uops have moved ahead.                                                  *)
THEOREM FirstSlotFreeHolds == Spec => []FirstSlotFreeUnlessStalled
  <1>1. ASSUME TypeOK
        PROVE  FirstSlotFreeUnlessStalled
    <2> SUFFICES ASSUME sds[0] = <<>>
                 PROVE  MoveAhead(Shift(sds), src)[Depth - 1] = <<>>
      BY DEF FirstSlotFreeUnlessStalled
    <2> DEFINE s == Shift(sds)
               e == EmptyStageIdx(s)
               x == Depth - 1
    <2>1. x \in Slots /\ x \in Nat /\ 0 \in Slots
      BY DecodeAssumption DEF Slots
    <2>2. Pipe(s, src) /\ Narrow(s, src)
      BY <1>1, TypeOfPipe, ShiftRearranges, ShiftIsNarrow DEF Rearranged
    <2>3. s[x] = <<>>
      <3>1. FirstEmpty(sds) = 0
        BY <2>1, FirstEmptyFacts, DecodeAssumption
      <3> QED
        BY <2>1, <3>1 DEF Shift, Slots
    <2> HIDE DEF s
    <2>4. e \in 0..Depth /\ (e > 0 => s[e - 1] # <<>>)
          /\ (e >= Depth - 1 => Moved(s, src) = Appended(s, src))
          /\ Appended(s, src) \in 0..Len(src)
      BY <2>2, EmptyStageFacts, MovedFacts
    <2> HIDE DEF e
    <2>5. x # e - 1
      BY <2>1, <2>3, <2>4
    <2>6. MoveAhead(s, src)[x] =
            IF x = e THEN s[x] \o SubSeq(src, Appended(s, src) + 1, Moved(s, src)) ELSE s[x]
      BY <2>1, <2>5 DEF MoveAhead, e
    <2>7. x = e => s[x] \o SubSeq(src, Appended(s, src) + 1, Moved(s, src)) = <<>>
      <3>1. SUFFICES ASSUME x = e
                     PROVE  s[x] \o SubSeq(src, Appended(s, src) + 1, Moved(s, src)) = <<>>
        OBVIOUS
      <3> DEFINE a == Appended(s, src)
      <3>2. Moved(s, src) = a /\ a \in Nat /\ a + 1 > a
        BY <2>1, <2>4, <3>1
      <3> HIDE DEF a
      <3>3. SubSeq(src, a + 1, a) = <<>>
        BY <2>2, <3>2, SubSeqEmpty DEF Pipe
      <3>4. <<>> \in Seq(Op) /\ <<>> \o <<>> = <<>>
        BY ConcatEmptySeq
      <3> QED
        BY <2>3, <3>2, <3>3, <3>4 DEF a
    <2> QED
      BY <2>3, <2>6, <2>7 DEF s
  <1>2. Inv => FirstSlotFreeUnlessStalled
    BY <1>1 DEF Inv
  <1> QED
    BY <1>2, Invariance, PTL

(* accumulate_op and end_accumulate see consecutive ops: none twice and,   *)
(* between recoveries, none left out.                                      *)
THEOREM HandedInOrderHolds == Spec => HandedInOrder
  <1>1. Inv /\ [Next]_vars =>
          [phase = "decode" =>
             \A i \in 1..Len(calls') :
               calls'[i] = 1 + (IF i = 1 THEN handed ELSE calls'[i - 1])]_vars
    <2> SUFFICES ASSUME TypeOK, ProgramOrder, LastSlotHanded, Next,
                        phase = "decode", NEW i \in 1..Len(calls')
                 PROVE  calls'[i] = 1 + (IF i = 1 THEN handed ELSE calls'[i - 1])
      BY DEF Inv
    <2>1. Decode
      BY DEF Next, Recover, NoRecovery, MapTakes, MapStalls, Fetch, FetchNothing
    <2> QED
      BY <2>1, DecodeInOrder
  <1> QED
    BY <1>1, Invariance, PTL DEF Spec, HandedInOrder

(* What a call of update_decode_stage hands over are the ops that follow   *)
(* on the last one handed over before, all of them in flight.              *)
LEMMA HandsOverRun ==
  ASSUME TypeOK, ProgramOrder, LastSlotHanded, Decode
  PROVE  /\ handed' = handed + Len(calls')
         /\ Len(calls') \in Nat
         /\ \A i \in 1..Len(calls') : calls'[i] = handed + i /\ Carries(sds, src, handed + i)
  <1> DEFINE z == Len(calls')
             S == {i \in 1..z : calls'[i] # handed + i}
  <1>1. /\ calls' \in Seq(1..MaxOps) /\ z \in Nat
        /\ \A i \in 1..z : Carries(sds, src, calls'[i])
    BY DueOps
  <1>2. handed \in Nat
    BY DEF TypeOK
  <1>3. S = {}
    <2>1. SUFFICES ASSUME S # {}
                   PROVE  FALSE
      OBVIOUS
    <2>2. S \in SUBSET Nat
      BY <1>1
    <2> DEFINE i == Min(S)
    <2>3. i \in S /\ \A y \in S : i <= y
      BY <2>1, <2>2, MinIsLeast
    <2> HIDE DEF i
    <2>4. i \in 1..z /\ i \in Nat /\ calls'[i] # handed + i
      BY <2>2, <2>3
    <2>5. calls'[i] = 1 + (IF i = 1 THEN handed ELSE calls'[i - 1])
      BY <2>4, DecodeInOrder
    <2>6. i # 1
      BY <1>2, <2>4, <2>5
    <2>7. i - 1 \in 1..z /\ ~(i <= i - 1)
      BY <1>1, <2>4, <2>6
    <2>8. calls'[i - 1] = handed + (i - 1)
      BY <2>3, <2>7
    <2> QED
      BY <1>2, <2>4, <2>5, <2>6, <2>8
  <1>4. \A i \in 1..z : calls'[i] = handed + i
    BY <1>3
  <1> HIDE DEF S
  <1>5. handed' = handed + z
    <2>1. handed' = IF calls' = <<>> THEN handed ELSE calls'[z]
      BY DEF Decode
    <2>2. CASE calls' = <<>>
      BY <1>2, <2>1, <2>2
    <2>3. CASE calls' # <<>>
      <3>1. z \in 1..z
        BY <1>1, <2>3, EmptySeq
      <3> QED
        BY <1>4, <2>1, <2>3, <3>1
    <2> QED
      BY <2>2, <2>3
  <1> QED
    BY <1>1, <1>4, <1>5

(* Seen from outside, the stage is a queue of consecutive uops: each is    *)
(* handed over once and in order, exactly those handed over go on to the   *)
(* map stage, and a recovery drops exactly the younger ones.               *)
THEOREM Refinement == Spec => ImplementsUopQueue
  <1> DEFINE fly == {n \in 1..MaxOps : InFlight(n)}
             qvars == <<fly, next, handed>>
  <1>1. Init => Queue!Init
    <2> SUFFICES ASSUME Init
                 PROVE  Queue!Init
      OBVIOUS
    <2>1. next = 1 /\ handed = 0
      BY DEF Init
    <2>2. \A n \in 1..MaxOps : InFlight(n) => n < 1
      BY <2>1, InitInv DEF ProgramOrder
    <2>3. fly = {}
      BY <2>2
    <2> QED
      BY <2>1, <2>3 DEF Queue!Init
  <1>2. Inv /\ [Next]_vars => [Queue!Next]_qvars
    <2> SUFFICES ASSUME TypeOK, ProgramOrder, LastSlotHanded, [Next]_vars
                 PROVE  Queue!Next \/ UNCHANGED qvars
      BY DEF Inv
    <2>0. /\ handed \in Nat /\ next \in Nat /\ next > 0 /\ next <= MaxOps + 1
          /\ MaxOps \in Nat
      BY DecodeAssumption DEF TypeOK
    <2>1. ASSUME NEW r \in 1..MaxOps, Recover(r)
          PROVE  Queue!Flush(r)
      <3>1. r < next /\ next' = r + 1 /\ handed' = Min({handed, r})
        BY <2>1 DEF Recover
      <3>2. \A n \in 1..MaxOps :
              Carries(sds', src', n) <=> Carries(sds, src, n) /\ n <= r
        BY <2>1, RecoverStep
      <3>3. fly' = {m \in fly : m <= r}
        BY <3>2 DEF InFlight
      <3>4. handed' = IF r < handed THEN r ELSE handed
        <4>1. {handed, r} \in SUBSET Nat /\ {handed, r} # {}
          BY <2>0
        <4>2. handed' \in {handed, r} /\ handed' <= handed /\ handed' <= r
          BY <3>1, <4>1, MinIsLeast
        <4> QED
          BY <2>0, <4>2
      <3> QED
        BY <3>1, <3>3, <3>4 DEF Queue!Flush
    <2>2. ASSUME MapTakes
          PROVE  Queue!Take
      <3>1. \A n \in 1..MaxOps :
              Carries(sds', src', n) <=> Carries(sds, src, n) /\ n > handed
        BY <2>2, MapStep
      <3>2. fly' = {m \in fly : m > handed}
        BY <3>1 DEF InFlight
      <3> QED
        BY <2>2, <3>2 DEF MapTakes, Queue!Take
    <2>3. ASSUME Decode
          PROVE  UNCHANGED qvars \/ \E n \in 1..MaxOps : Queue!HandOver(n)
      <3> DEFINE z == Len(calls')
      <3>1. /\ handed' = handed + z /\ z \in Nat
            /\ \A i \in 1..z : Carries(sds, src, handed + i)
        BY <2>3, HandsOverRun
      <3>2. next' = next
        BY <2>3 DEF Decode
      <3>3. Pipe(sds, src) /\ Rearranged(sds, src, sds', src')
        BY <2>3, DecodeHandsOver, TypeOfPipe
      <3>4. fly' = fly
        BY <3>3 DEF InFlight, Rearranged
      <3> HIDE DEF z
      <3>5. \A i \in 1..z : handed + i \in fly
        BY <3>1, <3>3, PlaceOf DEF InFlight
      <3>6. (handed + 1)..(handed + z) \subseteq fly
        <4> SUFFICES ASSUME NEW m \in (handed + 1)..(handed + z)
                     PROVE  m \in fly
          OBVIOUS
        <4>1. m - handed \in 1..z /\ handed + (m - handed) = m
          BY <2>0, <3>1
        <4> QED
          BY <3>5, <4>1
      <3>7. CASE z = 0
        BY <2>0, <3>1, <3>2, <3>4, <3>7
      <3>8. CASE z > 0
        <4>1. handed + z \in fly
          BY <3>1, <3>5, <3>8
        <4>2. handed + z \in 1..MaxOps
          BY <4>1
        <4>3. z \in 1..MaxOps
          BY <2>0, <3>1, <3>8, <4>2
        <4> QED
          BY <3>1, <3>2, <3>4, <3>6, <4>3 DEF Queue!HandOver
      <3> QED
        BY <3>1, <3>7, <3>8
    <2>4. ASSUME NEW p \in Packets, Fetch(p)
          PROVE  \E n \in 1..MaxOps : Queue!Fetch(n)
      <3> DEFINE z == Len(p)
      <3>1. next + z <= MaxOps + 1 /\ next' = next + z /\ handed' = handed
        BY <2>4 DEF Fetch
      <3>2. z \in 1..MaxOps
        <4>1. z \in 1..Width
          BY PacketFacts
        <4> QED
          BY <2>0, <3>1, <4>1, DecodeAssumption
      <3>3. \A n \in 1..MaxOps :
              Carries(sds', src', n) <=>
                Carries(sds, src, n) \/ n \in next..(next + z - 1)
        BY <2>4, FetchStep
      <3> HIDE DEF z
      <3>4. next..(next + z - 1) \subseteq 1..MaxOps
        BY <2>0, <3>1, <3>2
      <3>5. fly' = fly \cup next..(next + z - 1)
        BY <3>3, <3>4 DEF InFlight
      <3> QED
        BY <3>1, <3>2, <3>5 DEF Queue!Fetch
    <2>5. CASE NoRecovery \/ MapStalls \/ FetchNothing \/ UNCHANGED vars
      <3>1. UNCHANGED <<sds, src, next, handed>>
        BY <2>5 DEF NoRecovery, MapStalls, FetchNothing, vars
      <3> QED
        BY <3>1 DEF InFlight
    <2> QED
      BY <2>1, <2>2, <2>3, <2>4, <2>5 DEF Next, Queue!Next
  <1> QED
    BY <1>1, <1>2, Invariance, PTL DEF Spec, ImplementsUopQueue, Queue!Spec

-----------------------------------------------------------------------------
(* The loop that the windows close: FrontEnd, which takes decode for a     *)
(* queue of uops.                                                          *)

Copies == Window \cup {NoWindow}

(* What a search leaves in cur_pw: the copy that was there, if it has the  *)
(* address, else a window that starts at it, if there is one.              *)
LEMMA SearchedFacts ==
  ASSUME NEW s \in [pw : Copies, prev : Addrs \cup {0}],
         NEW a \in Addrs, resident \subseteq Window, NotEmpty(s.pw),
         \A w \in resident : NotEmpty(w)
  PROVE  /\ Searched(s, a) \in [pw : Copies, prev : Addrs \cup {0}]
         /\ NotEmpty(Searched(s, a).pw)
         /\ Finds(s, a) => InCurrent(Searched(s, a), a)
         /\ InCurrent(s, a) => Searched(s, a).pw = s.pw
         /\ ~InCurrent(s, a) /\ Searched(s, a).pw # NoWindow
              => Searched(s, a).pw.first = a
         /\ Searched(s, a).pw # NoWindow => a \in RangeOf(Searched(s, a).pw)
         /\ Searched(s, a).prev = a
  <1> DEFINE c == CHOOSE w \in StartingAt(a) : TRUE
             r == Searched(s, a)
  <1>1. r = [prev |-> a,
             pw |-> IF InCurrent(s, a) THEN s.pw
                    ELSE IF ~Finds(s, a) THEN NoWindow ELSE c]
    BY DEF Searched, Finds
  <1>2. a \in Nat /\ NoWindow \notin Window
    BY FrontEndAssumption, SentinelAssumption
  <1> HIDE DEF r
  <1>3. CASE InCurrent(s, a)
    <2>1. r.pw = s.pw /\ r.prev = a /\ r = [prev |-> a, pw |-> s.pw]
      BY <1>1, <1>3
    <2>2. s.pw # NoWindow /\ a \in RangeOf(s.pw)
      BY <1>3 DEF InCurrent
    <2>3. a <= a
      BY <1>2
    <2> QED
      BY <1>3, <2>1, <2>2, <2>3 DEF r, InCurrent
  <1>4. CASE ~Finds(s, a)
    <2>1. ~InCurrent(s, a)
      BY <1>4 DEF Finds
    <2>2. r = [prev |-> a, pw |-> NoWindow] /\ r.pw = NoWindow /\ r.prev = a
      BY <1>1, <1>4, <2>1
    <2> QED
      BY <1>4, <2>1, <2>2 DEF r, Copies, NotEmpty
  <1>5. CASE ~InCurrent(s, a) /\ Finds(s, a)
    <2>1. c \in StartingAt(a)
      BY <1>5 DEF Finds
    <2>2. c \in resident /\ c.first = a /\ c \in Window /\ c # NoWindow
      BY <1>2, <2>1 DEF StartingAt
    <2>3. c.first <= c.last /\ c.last \in Nat
      BY <2>2, <1>2, FrontEndAssumption DEF NotEmpty, Window
    <2>4. r = [prev |-> a, pw |-> c] /\ r.pw = c /\ r.prev = a
      BY <1>1, <1>5
    <2> HIDE DEF c
    <2>5. a \in RangeOf(c) /\ a <= a
      BY <1>2, <2>2, <2>3 DEF RangeOf
    <2> QED
      BY <1>5, <2>2, <2>3, <2>4, <2>5 DEF r, Copies, NotEmpty, InCurrent
  <1> QED
    BY <1>3, <1>4, <1>5 DEF Finds

Uops == [addr : Addrs, cached : BOOLEAN, ends : BOOLEAN]

(* The program leads from each address to some address. *)
LEMMA Goes ==
  ASSUME TypeOKLoop, NEW a \in Addrs
  PROVE  /\ a \in Nat
         /\ program[a] \subseteq Addrs
         /\ ~IsBranch(a) => a + 1 \in Addrs
  <1>1. program[a] \in SUBSET Addrs
    BY FrontEndAssumption DEF TypeOKLoop
  <1>2. a \in Nat
    BY FrontEndAssumption
  <1> QED
    BY <1>1, <1>2 DEF IsBranch

(* A uop goes into the queue: what follows it is what fetch goes on with,  *)
(* unless it ends a window.                                                *)
LEMMA IssueKeepsPath ==
  ASSUME InvLoop, NEW ends \in BOOLEAN, Issued(ends),
         nextAddr' \in Addrs, ~ends => nextAddr' = nextAddr + 1
  PROVE  /\ queue' \in Seq(Uops) /\ Len(queue') = Len(queue) + 1 /\ Len(queue) \in Nat
         /\ OnPath'
         /\ Due(1)' = Due(1)
         /\ Len(queue) < MaxFlight
  <1> DEFINE u == [addr |-> nextAddr, cached |-> FromCache, ends |-> ends]
             n == Len(queue)
  <1>1. queue' = Append(queue, u) /\ packet.step = "issue"
    BY DEF Issued
  <1>2. queue \in Seq(Uops) /\ nextAddr \in Addrs
    BY DEF InvLoop, TypeOKLoop, Uops
  <1>3. u \in Uops
    BY <1>2 DEF Uops, FromCache, Finds, InCurrent
  <1> HIDE DEF u
  <1>4. /\ queue' \in Seq(Uops) /\ Len(queue') = n + 1 /\ n \in Nat
        /\ \A i \in 1..n : queue'[i] = queue[i]
        /\ queue'[n + 1] = u
    BY <1>1, <1>2, <1>3
  <1> HIDE DEF n
  <1>5. u.addr = nextAddr /\ u.ends = ends
    BY DEF u
  <1>6. ASSUME NEW i \in 1..(n + 1)
        PROVE  Due(i)' = Due(i)
    <2>1. CASE i = n + 1
      <3>1. Due(i)' = queue'[n + 1].addr
        BY <1>4, <2>1 DEF Due
      <3>2. Due(i) = nextAddr
        BY <1>4, <2>1 DEF Due, n
      <3> QED
        BY <1>4, <1>5, <3>1, <3>2
    <2>2. CASE i # n + 1
      <3>1. i \in 1..n
        BY <1>4, <2>2
      <3> QED
        BY <1>4, <3>1 DEF Due, n
    <2> QED
      BY <2>1, <2>2
  <1>7. OnPath'
    <2> SUFFICES ASSUME NEW i \in 1..(n + 1), ~queue'[i].ends
                 PROVE  Due(i + 1)' = queue'[i].addr + 1
      BY <1>4 DEF OnPath
    <2>1. CASE i = n + 1
      <3>1. Due(i + 1)' = nextAddr'
        BY <1>4, <2>1 DEF Due
      <3> QED
        BY <1>4, <1>5, <2>1, <3>1
    <2>2. CASE i # n + 1
      <3>1. i \in 1..n /\ i + 1 \in 1..(n + 1)
        BY <1>4, <2>2
      <3>2. Due(i + 1) = queue[i].addr + 1
        BY <1>4, <3>1 DEF InvLoop, OnPath, n
      <3> QED
        BY <1>4, <1>6, <3>1, <3>2
    <2> QED
      BY <2>1, <2>2
  <1>8. n < MaxFlight
    BY <1>1 DEF InvLoop, n
  <1>9. 1 \in 1..(n + 1)
    BY <1>4
  <1> QED
    BY <1>4, <1>6, <1>7, <1>8, <1>9 DEF n

Searches == [pw : Copies, prev : Addrs \cup {0}]

(* A search for the address that fetch goes on with: what it finds is in   *)
(* cur_pw afterwards.                                                      *)
LEMMA SearchKeeps ==
  ASSUME InvLoop
  PROVE  LET r == Searched(search, nextAddr)
         IN  /\ r \in Searches /\ NotEmpty(r.pw)
             /\ Finds(search, nextAddr) => InCurrent(r, nextAddr)
             /\ InCurrent(r, nextAddr) =>
                  nextAddr = r.pw.first \/ last \in RangeOf(r.pw)
             /\ r.pw # NoWindow => nextAddr \in RangeOf(r.pw)
  <1> DEFINE r == Searched(search, nextAddr)
  <1>1. /\ search \in Searches /\ nextAddr \in Addrs /\ resident \subseteq Window
        /\ NotEmpty(search.pw) /\ \A w \in resident : NotEmpty(w)
        /\ InCurrent(search, nextAddr) =>
             nextAddr = search.pw.first \/ last \in RangeOf(search.pw)
    BY DEF InvLoop, TypeOKLoop, ServedFromItsStart, Searches, Copies
  <1>2. /\ r \in Searches /\ NotEmpty(r.pw)
        /\ Finds(search, nextAddr) => InCurrent(r, nextAddr)
        /\ InCurrent(search, nextAddr) => r.pw = search.pw
        /\ ~InCurrent(search, nextAddr) /\ r.pw # NoWindow => r.pw.first = nextAddr
        /\ r.pw # NoWindow => nextAddr \in RangeOf(r.pw)
    BY <1>1, SearchedFacts DEF Searches
  <1> HIDE DEF r
  <1>3. InCurrent(r, nextAddr) => r.pw # NoWindow
    BY DEF InCurrent
  <1>4. InCurrent(r, nextAddr) => nextAddr = r.pw.first \/ last \in RangeOf(r.pw)
    BY <1>1, <1>2, <1>3
  <1> QED
    BY <1>2, <1>4 DEF r

(* Steps of lookups that leave the uops and the windows alone. *)
LEMMA SearchStep ==
  ASSUME InvLoop,
         search' = Searched(search, nextAddr),
         promised' = Finds(search, nextAddr),
         packet' \in [step : {"none", "lookup", "issue"}, cached : BOOLEAN],
         packet'.step # "none" => Len(queue) < MaxFlight,
         resteers' \in 0..2,
         UNCHANGED <<program, roomy, nextAddr, last, queue, window, resident>>
  PROVE  InvLoop'
  <1>1. /\ search' \in Searches /\ NotEmpty(search'.pw)
        /\ promised' => InCurrent(search', nextAddr)
        /\ InCurrent(search', nextAddr) =>
             nextAddr = search'.pw.first \/ last \in RangeOf(search'.pw)
    BY SearchKeeps
  <1>2. promised' \in BOOLEAN
    BY DEF Finds, InCurrent
  <1>3. TypeOKLoop'
    BY <1>1, <1>2 DEF InvLoop, TypeOKLoop, Searches, Copies
  <1>4. OnPath' /\ (window' # NoWindow => Due(1)' = window'.last + 1)
    BY DEF InvLoop, OnPath, Due
  <1>5. \A w \in resident' \cup {search'.pw, window'} : NotEmpty(w)
    BY <1>1 DEF InvLoop
  <1>6. (promised' => InCurrent(search', nextAddr')) /\ ServedFromItsStart'
    BY <1>1 DEF ServedFromItsStart, InCurrent, RangeOf
  <1> QED
    BY <1>3, <1>4, <1>5, <1>6 DEF InvLoop, NotEmpty, InCurrent, RangeOf

LEMMA LookupStep ==
  ASSUME InvLoop, Lookup
  PROVE  InvLoop'
  <1>1. /\ packet.step # "none" => Len(queue) < MaxFlight
        /\ packet \in [step : {"none", "lookup", "issue"}, cached : BOOLEAN]
        /\ resteers \in 0..2
    BY DEF InvLoop, TypeOKLoop
  <1>2. Finds(search, nextAddr) \in BOOLEAN
    BY DEF Finds, InCurrent
  <1> DEFINE c == packet.cached \/ Finds(search, nextAddr)
  <1>3. /\ \/ packet' = [step |-> "issue", cached |-> c]
           \/ packet' = [step |-> "none", cached |-> FALSE]
        /\ Len(queue) < MaxFlight
    BY <1>1 DEF Lookup, Between
  <1>4. c \in BOOLEAN
    BY <1>1, <1>2
  <1> HIDE DEF c
  <1>5. packet' \in [step : {"none", "lookup", "issue"}, cached : BOOLEAN]
    <2>1. \A b \in BOOLEAN, t \in {"none", "lookup", "issue"} :
            [step |-> t, cached |-> b] \in [step : {"none", "lookup", "issue"}, cached : BOOLEAN]
      OBVIOUS
    <2> QED
      BY <1>3, <1>4, <2>1, Zenon
  <1> QED
    BY <1>1, <1>3, <1>5, SearchStep DEF Lookup

LEMMA ResteerStep ==
  ASSUME InvLoop, Resteer
  PROVE  InvLoop'
  <1>1. /\ packet.step # "none" => Len(queue) < MaxFlight
        /\ packet \in [step : {"none", "lookup", "issue"}, cached : BOOLEAN]
        /\ resteers \in 0..2
    BY DEF InvLoop, TypeOKLoop
  <1> QED
    BY <1>1, SearchStep DEF Resteer

(* A packet that goes on leaves room for the next uop. *)
LEMMA PacketGoesOn ==
  ASSUME InvLoop, NEW step \in {"none", "lookup", "issue"}, GoesOn(step)
  PROVE  /\ packet' \in [step : {"none", "lookup", "issue"}, cached : BOOLEAN]
         /\ packet'.step # "none" => Len(queue) + 1 < MaxFlight
  <1>1. /\ packet \in [step : {"none", "lookup", "issue"}, cached : BOOLEAN]
        /\ Len(queue) \in Nat /\ MaxFlight \in Nat
    BY FrontEndAssumption DEF InvLoop, TypeOKLoop
  <1>2. CASE packet' = [step |-> "none", cached |-> FALSE]
    BY <1>2
  <1>3. CASE packet' = [packet EXCEPT !.step = step] /\ ~(Len(queue) + 1 >= MaxFlight)
    BY <1>1, <1>3
  <1> QED
    BY <1>2, <1>3 DEF GoesOn, Between

(* A uop is issued, with one search or two; the window in cur_pw, if it    *)
(* has the uop that comes next but does not start with it, has this one.   *)
LEMMA IssueStep ==
  ASSUME InvLoop, NEW ends \in BOOLEAN, Issued(ends),
         nextAddr' \in Addrs, ~ends => nextAddr' = nextAddr + 1,
         packet' \in [step : {"none", "lookup", "issue"}, cached : BOOLEAN],
         packet'.step # "none" => Len(queue) + 1 < MaxFlight,
         resteers' \in 0..2,
         search' \in Searches, NotEmpty(search'.pw),
         promised' \in BOOLEAN, promised' => InCurrent(search', nextAddr'),
         InCurrent(search', nextAddr') =>
           nextAddr' = search'.pw.first \/ nextAddr \in RangeOf(search'.pw)
  PROVE  InvLoop'
  <1>1. /\ queue' \in Seq(Uops) /\ Len(queue') = Len(queue) + 1 /\ Len(queue) \in Nat
        /\ OnPath'
        /\ Due(1)' = Due(1)
        /\ Len(queue) < MaxFlight
    BY IssueKeepsPath
  <1>2. last' = nextAddr /\ UNCHANGED <<program, roomy, window, resident>>
    BY DEF Issued
  <1>3. MaxFlight \in Nat
    BY FrontEndAssumption
  <1>4. TypeOKLoop'
    BY <1>1, <1>2, <1>3 DEF InvLoop, TypeOKLoop, Searches, Copies, Uops
  <1>5. window' # NoWindow => Due(1)' = window'.last + 1
    BY <1>1, <1>2 DEF InvLoop
  <1>6. \A w \in resident' \cup {search'.pw, window'} : NotEmpty(w)
    BY <1>2 DEF InvLoop
  <1>7. ServedFromItsStart'
    BY <1>2 DEF ServedFromItsStart, InCurrent, RangeOf
  <1>8. (packet'.step # "none" => Len(queue') < MaxFlight)
    BY <1>1
  <1> QED
    BY <1>1, <1>4, <1>5, <1>6, <1>7, <1>8 DEF InvLoop, NotEmpty, InCurrent, RangeOf

(* Whoever has the uop that comes next, and searched this one before, has  *)
(* this one: the search for it went no further back.                       *)
LEMMA NextIsInIt ==
  ASSUME InvLoop, NEW b,
         InCurrent(Searched(search, nextAddr), b)
  PROVE  nextAddr \in RangeOf(Searched(search, nextAddr).pw)
  BY SearchKeeps DEF InCurrent

LEMMA IssueUopStep ==
  ASSUME InvLoop, IssueUop
  PROVE  InvLoop'
  <1>1. nextAddr \in Addrs /\ resteers \in 0..2
    BY DEF InvLoop, TypeOKLoop
  <1>2. nextAddr' = nextAddr + 1 /\ nextAddr' \in Addrs
    BY <1>1, Goes DEF IssueUop, InvLoop
  <1>3. /\ packet' \in [step : {"none", "lookup", "issue"}, cached : BOOLEAN]
        /\ packet'.step # "none" => Len(queue) + 1 < MaxFlight
    BY PacketGoesOn DEF IssueUop
  <1>4. /\ search' = Searched(search, nextAddr) /\ Issued(FALSE)
        /\ promised' = FALSE /\ resteers' = resteers
    BY DEF IssueUop
  <1>5. search' \in Searches /\ NotEmpty(search'.pw)
    BY <1>4, SearchKeeps
  <1>6. InCurrent(search', nextAddr') => nextAddr \in RangeOf(search'.pw)
    BY <1>4, NextIsInIt
  <1> QED
    BY <1>1, <1>2, <1>3, <1>4, <1>5, <1>6, IssueStep

LEMMA IssueUnresolvedStep ==
  ASSUME InvLoop, IssueUnresolved
  PROVE  InvLoop'
  <1>1. nextAddr \in Addrs
    BY DEF InvLoop, TypeOKLoop
  <1>2. PICK npc \in program[nextAddr], predTaken \in BOOLEAN, n \in 1..2 :
          Issued(predTaken \/ npc # nextAddr + 1) /\ nextAddr' = npc /\ resteers' = n
    BY DEF IssueUnresolved
  <1>3. npc \in Addrs
    BY <1>1, Goes DEF InvLoop
  <1>4. /\ search' = Searched(search, nextAddr)
        /\ promised' = FALSE /\ packet' = [step |-> "none", cached |-> FALSE]
    BY DEF IssueUnresolved, Between
  <1>5. search' \in Searches /\ NotEmpty(search'.pw)
    BY <1>4, SearchKeeps
  <1>6. InCurrent(search', nextAddr') => nextAddr \in RangeOf(search'.pw)
    BY <1>4, NextIsInIt
  <1> DEFINE ends == predTaken \/ npc # nextAddr + 1
  <1>7. ends \in BOOLEAN /\ Issued(ends) /\ (~ends => nextAddr' = nextAddr + 1)
    BY <1>2
  <1>8. packet' \in [step : {"none", "lookup", "issue"}, cached : BOOLEAN] /\ packet'.step = "none"
    BY <1>4
  <1>9. nextAddr' \in Addrs /\ resteers' \in 0..2
    BY <1>2, <1>3
  <1> HIDE DEF ends
  <1> QED
    BY <1>4, <1>5, <1>6, <1>7, <1>8, <1>9, IssueStep

LEMMA IssueBranchStep ==
  ASSUME InvLoop, IssueBranch
  PROVE  InvLoop'
  <1> DEFINE r == Searched(search, nextAddr)
  <1>1. nextAddr \in Addrs /\ resteers \in 0..2
    BY DEF InvLoop, TypeOKLoop
  <1>2. PICK npc \in program[nextAddr] :
          /\ Issued(npc # nextAddr + 1)
          /\ nextAddr' = npc
          /\ search' = Searched(r, npc)
          /\ promised' = Finds(r, npc)
          /\ IF npc # nextAddr + 1 THEN packet' = [step |-> "none", cached |-> FALSE]
             ELSE GoesOn("lookup")
          /\ resteers' = resteers
    BY DEF IssueBranch, StatisticsAddr, Between
  <1>3. npc \in Addrs
    BY <1>1, Goes DEF InvLoop
  <1>4. /\ r \in Searches /\ NotEmpty(r.pw)
    BY SearchKeeps
  <1>5. /\ resident \subseteq Window /\ \A w \in resident : NotEmpty(w)
    BY DEF InvLoop, TypeOKLoop
  <1>6. InCurrent(r, npc) => nextAddr \in RangeOf(r.pw)
    BY NextIsInIt
  <1> HIDE DEF r
  <1>7. /\ search' \in Searches /\ NotEmpty(search'.pw)
        /\ Finds(r, npc) => InCurrent(search', npc)
        /\ InCurrent(r, npc) => search'.pw = r.pw
        /\ ~InCurrent(r, npc) /\ search'.pw # NoWindow => search'.pw.first = npc
    BY <1>2, <1>3, <1>4, <1>5, SearchedFacts DEF Searches
  <1>8. InCurrent(search', npc) => search'.pw # NoWindow
    BY DEF InCurrent
  <1>9. InCurrent(search', npc) => npc = search'.pw.first \/ nextAddr \in RangeOf(search'.pw)
    BY <1>6, <1>7, <1>8
  <1>10. promised' \in BOOLEAN
    BY <1>2 DEF Finds, InCurrent
  <1>11. /\ packet' \in [step : {"none", "lookup", "issue"}, cached : BOOLEAN]
         /\ packet'.step # "none" => Len(queue) + 1 < MaxFlight
    <2>1. CASE packet' = [step |-> "none", cached |-> FALSE]
      BY <2>1
    <2>2. CASE GoesOn("lookup")
      BY <2>2, PacketGoesOn
    <2> QED
      BY <1>2, <2>1, <2>2
  <1> DEFINE ends == npc # nextAddr + 1
  <1>12. ends \in BOOLEAN /\ Issued(ends) /\ (~ends => nextAddr' = nextAddr + 1)
    BY <1>2
  <1> HIDE DEF ends
  <1> QED
    BY <1>1, <1>2, <1>3, <1>7, <1>9, <1>10, <1>11, <1>12, IssueStep

(* What enters the cache, at most. *)
LEMMA InsertFacts ==
  ASSUME NEW some, Insert(some)
  PROVE  resident' \subseteq resident \cup some
  BY DEF Insert

LEMMA DecodeUopStep ==
  ASSUME InvLoop, DecodeUop
  PROVE  InvLoop'
  <1> DEFINE u == Head(queue)
             n == Len(queue)
  <1>1. /\ packet.step = "none" /\ queue # <<>> /\ queue' = Tail(queue)
        /\ IF u.cached THEN EndAccumulate ELSE Accumulate(u)
        /\ UNCHANGED <<program, roomy, nextAddr, last, packet, resteers, search, promised>>
    BY DEF DecodeUop, fetch, lookup, Between
  <1>2. queue \in Seq(Uops) /\ window \in Copies /\ resident \subseteq Window
    BY DEF InvLoop, TypeOKLoop, Uops, Copies
  <1>3. /\ n \in Nat \ {0} /\ queue' \in Seq(Uops) /\ Len(queue') = n - 1
        /\ \A i \in 1..(n - 1) : queue'[i] = queue[i + 1]
        /\ u = queue[1] /\ u \in Uops
    BY <1>1, <1>2
  <1> HIDE DEF u, n
  <1>4. \A i \in 1..n : Due(i)' = Due(i + 1)
    <2> SUFFICES ASSUME NEW i \in 1..n
                 PROVE  Due(i)' = Due(i + 1)
      OBVIOUS
    <2>1. CASE i = n
      <3>1. Due(i)' = nextAddr
        BY <1>1, <1>3, <2>1 DEF Due
      <3>2. Due(i + 1) = nextAddr
        BY <1>3, <2>1 DEF Due, n
      <3> QED
        BY <3>1, <3>2
    <2>2. CASE i # n
      <3>1. i \in 1..(n - 1) /\ i + 1 \in 1..n
        BY <1>3, <2>2
      <3> QED
        BY <1>3, <3>1 DEF Due, n
    <2> QED
      BY <2>1, <2>2
  <1>5. OnPath'
    <2> SUFFICES ASSUME NEW i \in 1..(n - 1), ~queue'[i].ends
                 PROVE  Due(i + 1)' = queue'[i].addr + 1
      BY <1>3 DEF OnPath
    <2>1. i + 1 \in 1..n /\ queue'[i] = queue[i + 1]
      BY <1>3
    <2>2. Due(i + 1 + 1) = queue[i + 1].addr + 1
      BY <2>1 DEF InvLoop, OnPath, n
    <2> QED
      BY <1>4, <2>1, <2>2
  <1>6. Due(1) = u.addr /\ 1 \in 1..n /\ (~u.ends => Due(1)' = u.addr + 1)
    <2>1. 1 \in 1..n /\ Due(1) = u.addr
      BY <1>3 DEF Due, n
    <2>2. ~u.ends => Due(1 + 1) = u.addr + 1
      BY <1>3, <2>1 DEF InvLoop, OnPath, n
    <2> QED
      BY <1>4, <2>1, <2>2
  <1>7. /\ window' \in Copies /\ NotEmpty(window')
        /\ window' # NoWindow => Due(1)' = window'.last + 1
        /\ resident' \subseteq Window /\ \A w \in resident' : NotEmpty(w)
    <2>0. /\ \A w \in resident : NotEmpty(w)
          /\ NotEmpty(window) /\ (window # NoWindow => Due(1) = window.last + 1)
      BY DEF InvLoop
    <2>1. CASE u.cached
      <3>1. window' = NoWindow /\ Insert(IF window = NoWindow THEN {} ELSE {window})
        BY <1>1, <2>1 DEF EndAccumulate
      <3>2. resident' \subseteq resident \cup (IF window = NoWindow THEN {} ELSE {window})
        BY <3>1, InsertFacts
      <3> QED
        BY <1>2, <2>0, <3>1, <3>2 DEF Copies, NotEmpty
    <2>2. CASE ~u.cached
      <3> DEFINE endOfLine == window # NoWindow /\ LineOf(window.first) # LineOf(u.addr)
                 fresh     == window = NoWindow \/ endOfLine
                 after     == [first |-> IF fresh THEN u.addr ELSE window.first,
                               last  |-> u.addr, lines |-> 1]
                 full      == window # NoWindow /\ window.last - window.first + 2 > QueueSize
                 closes    == u.ends \/ full
                 put       == (IF endOfLine THEN {window} ELSE {})
                                \cup (IF closes THEN {after} ELSE {})
      <3>1. window' = (IF closes THEN NoWindow ELSE after) /\ Insert(put)
        BY <1>1, <2>2 DEF Accumulate
      <3>2. u.addr \in Addrs /\ u.addr \in Nat
        BY <1>3, FrontEndAssumption DEF Uops
      <3>3. ~fresh => /\ window \in Window /\ window.first \in Addrs
                      /\ window.first \in Nat /\ window.first <= u.addr
        <4>1. SUFFICES ASSUME window # NoWindow
                       PROVE  /\ window \in Window /\ window.first \in Addrs
                              /\ window.first \in Nat /\ window.first <= u.addr
          OBVIOUS
        <4>2. window \in Window /\ window.first <= window.last
          BY <1>2, <2>0, <4>1 DEF Copies, NotEmpty
        <4>3. /\ window.first \in Addrs /\ window.last \in Addrs
              /\ window.first \in Nat /\ window.last \in Nat
          BY <4>2, FrontEndAssumption DEF Window
        <4> QED
          BY <1>6, <2>0, <4>1, <4>2, <4>3
      <3> HIDE DEF fresh
      <3>4. after \in Window /\ NotEmpty(after) /\ after.last = u.addr
        BY <3>2, <3>3 DEF Window, NotEmpty
      <3>5. endOfLine => window \in Window
        BY <1>2 DEF Copies
      <3> HIDE DEF after, endOfLine
      <3>6. resident' \subseteq resident \cup put
        BY <3>1, InsertFacts
      <3>7. \A w \in put : w \in Window /\ NotEmpty(w)
        BY <2>0, <3>4, <3>5
      <3>8. ~closes => ~u.ends
        OBVIOUS
      <3> HIDE DEF put, closes
      <3>9. window' \in Copies /\ NotEmpty(window')
        BY <3>1, <3>4 DEF Copies, NotEmpty
      <3>10. window' # NoWindow => Due(1)' = window'.last + 1
        BY <1>6, <3>1, <3>4, <3>8
      <3> QED
        BY <1>2, <2>0, <3>6, <3>7, <3>9, <3>10
    <2> QED
      BY <2>1, <2>2
  <1>8. TypeOKLoop'
    <2>1. n - 1 <= MaxFlight
      BY <1>3, FrontEndAssumption DEF InvLoop, TypeOKLoop, n
    <2> QED
      BY <1>1, <1>3, <1>7, <2>1 DEF InvLoop, TypeOKLoop, Uops, Copies
  <1>9. \A w \in resident' \cup {search'.pw, window'} : NotEmpty(w)
    BY <1>1, <1>7 DEF InvLoop
  <1>10. (promised' => InCurrent(search', nextAddr')) /\ ServedFromItsStart'
    BY <1>1 DEF InvLoop, ServedFromItsStart, InCurrent, RangeOf
  <1>11. packet'.step = "none"
    BY <1>1
  <1> QED
    BY <1>5, <1>7, <1>8, <1>9, <1>10, <1>11
    DEF InvLoop, NotEmpty, InCurrent, RangeOf

LEMMA EvictLineStep ==
  ASSUME InvLoop, EvictLine
  PROVE  InvLoop'
  <1>1. /\ resident' \subseteq resident
        /\ UNCHANGED <<program, roomy, nextAddr, last, packet, resteers,
                       search, promised, queue, window>>
    BY DEF EvictLine, fetch, lookup
  <1> QED
    BY <1>1 DEF InvLoop, TypeOKLoop, OnPath, Due, NotEmpty,
       ServedFromItsStart, InCurrent, RangeOf

LEMMA LoopInit ==
  ASSUME InitLoop
  PROVE  InvLoop
  <1>1. /\ queue = <<>> /\ window = NoWindow /\ resident = {} /\ promised = FALSE
        /\ search = [pw |-> NoWindow, prev |-> 0]
        /\ packet = [step |-> "none", cached |-> FALSE] /\ resteers = 0 /\ last = 0
        /\ program \in Programs /\ roomy \in BOOLEAN /\ nextAddr \in Addrs
    BY DEF InitLoop, Between, Cache!Init
  <1>2. MaxFlight \in Nat
    BY FrontEndAssumption
  <1>3. TypeOKLoop
    <2>1. queue \in Seq(Uops) /\ Len(queue) <= MaxFlight
      BY <1>1, <1>2
    <2>2. /\ search \in [pw : Copies, prev : Addrs \cup {0}]
          /\ packet \in [step : {"none", "lookup", "issue"}, cached : BOOLEAN]
      BY <1>1 DEF Copies
    <2>3. /\ last \in Addrs \cup {0} /\ window \in Copies /\ resident \subseteq Window
      BY <1>1 DEF Copies
    <2>4. resteers \in 0..2
      BY <1>1
    <2>5. promised \in BOOLEAN
      BY <1>1
    <2> QED
      BY <1>1, <2>1, <2>2, <2>3, <2>4, <2>5 DEF TypeOKLoop, Uops, Copies
  <1>4. ~InCurrent(search, nextAddr)
    BY <1>1 DEF InCurrent
  <1> QED
    BY <1>1, <1>3, <1>4 DEF InvLoop, OnPath, NotEmpty, ServedFromItsStart

(* The inductive invariant of the loop. *)
THEOREM LoopInvariance == SpecLoop => []InvLoop
  <1>1. InitLoop => InvLoop
    BY LoopInit
  <1>2. InvLoop /\ [NextLoop]_loopVars => InvLoop'
    <2> SUFFICES ASSUME InvLoop, [NextLoop]_loopVars
                 PROVE  InvLoop'
      OBVIOUS
    <2>1. CASE UNCHANGED loopVars
      BY <2>1 DEF loopVars, fetch, lookup, InvLoop, TypeOKLoop, OnPath,
         Due, NotEmpty, ServedFromItsStart, InCurrent, RangeOf
    <2> QED
      BY <2>1, LookupStep, IssueUopStep, IssueBranchStep, IssueUnresolvedStep,
         ResteerStep, DecodeUopStep, EvictLineStep DEF NextLoop, FetchProceeds
  <1> QED
    BY <1>1, <1>2, PTL DEF SpecLoop

(* What a lookup has found stays found until the uop is fetched, whatever  *)
(* decode inserts and the instruction cache evicts in between: it is in    *)
(* cur_pw.                                                                 *)
THEOREM FoundStaysFoundHolds == SpecLoop => []FoundStaysFound
  <1>1. InvLoop => FoundStaysFound
    BY DEF InvLoop, FoundStaysFound, Finds
  <1> QED
    BY <1>1, LoopInvariance, PTL

(* A window serves a uop other than its first only if it held the uop      *)
(* before, too, although branch statistics and redirects search as well.   *)
THEOREM ServedFromItsStartHolds == SpecLoop => []ServedFromItsStart
  <1>1. InvLoop => ServedFromItsStart
    BY DEF InvLoop
  <1> QED
    BY <1>1, LoopInvariance, PTL
=============================================================================
