------------------------ MODULE WindowBuilderProofs -------------------------
(***************************************************************************)
(* The cutting of the uop stream into prediction windows, for every set of *)
(* addresses, line size, queue size and length of the run: no collected    *)
(* uop is lost, a PW lies in one instruction-cache line, and, when the     *)
(* wrong path is not fetched, its uops are consecutive and its range holds *)
(* exactly the instructions that are in it.                                *)
(***************************************************************************)
EXTENDS WindowBuilder, SequenceTheorems, TLAPS

-----------------------------------------------------------------------------
(* Sequences. *)

(* Sequences of one and of two elements. *)
LEMMA OneElement ==
  ASSUME NEW S, NEW v \in S
  PROVE  <<v>> \in Seq(S) /\ Len(<<v>>) = 1 /\ <<v>>[1] = v /\ ToSet(<<v>>) = {v}
  <1>1. <<v>> \in Seq(S) /\ Len(<<v>>) = 1 /\ <<v>>[1] = v /\ DOMAIN <<v>> = {1}
    OBVIOUS
  <1> QED
    BY <1>1 DEF ToSet

LEMMA TwoElements ==
  ASSUME NEW S, NEW v \in S, NEW w \in S
  PROVE  /\ <<v>> \o <<w>> \in Seq(S)
         /\ Len(<<v>> \o <<w>>) = 2
         /\ (<<v>> \o <<w>>)[1] = v /\ (<<v>> \o <<w>>)[2] = w
         /\ ToSet(<<v>> \o <<w>>) = {v, w}
  <1>1. /\ <<v>> \in Seq(S) /\ Len(<<v>>) = 1 /\ <<v>>[1] = v
        /\ <<w>> \in Seq(S) /\ Len(<<w>>) = 1 /\ <<w>>[1] = w
    BY OneElement
  <1> DEFINE a == <<v>>
             b == <<w>>
             c == a \o b
  <1>2. a \in Seq(S) /\ Len(a) = 1 /\ a[1] = v /\ b \in Seq(S) /\ Len(b) = 1 /\ b[1] = w
    BY <1>1
  <1> HIDE DEF a, b
  <1>3. c \in Seq(S) /\ Len(c) = 2 /\ c[1] = v /\ c[2] = w
    <2>1. /\ c \in Seq(S) /\ Len(c) = Len(a) + Len(b)
          /\ \A i \in 1 .. Len(a) + Len(b) :
               c[i] = IF i <= Len(a) THEN a[i] ELSE b[i - Len(a)]
      BY <1>2, ConcatProperties
    <2> QED
      BY <1>2, <2>1
  <1>4. DOMAIN c = {1, 2}
    BY <1>3
  <1>5. ToSet(c) = {v, w}
    BY <1>3, <1>4 DEF ToSet
  <1> QED
    BY <1>3, <1>5 DEF a, b

(* What a step hands over is one of two PWs, and not empty.                *)
LEMMA HandedElements ==
  ASSUME NEW v \in Seq(Uop), NEW w \in Seq(Uop)
  PROVE  /\ HandOver(v) \o HandOver(w) \in Seq(Seq(Uop) \ {<<>>})
         /\ ToSet(HandOver(v) \o HandOver(w)) \subseteq {v, w} \ {<<>>}
  <1> DEFINE S == Seq(Uop) \ {<<>>}
  <1>1. CASE v = <<>> /\ w = <<>>
    <2>1. HandOver(v) \o HandOver(w) = <<>>
      BY <1>1 DEF HandOver
    <2> QED
      BY <2>1 DEF ToSet
  <1>2. CASE v \in S /\ w = <<>>
    <2>1. HandOver(v) \o HandOver(w) = <<v>>
      BY <1>2 DEF HandOver
    <2> HIDE DEF S
    <2>2. <<v>> \in Seq(S) /\ ToSet(<<v>>) = {v}
      BY <1>2, OneElement
    <2> QED
      BY <1>2, <2>1, <2>2 DEF S
  <1>3. CASE v = <<>> /\ w \in S
    <2>1. HandOver(v) \o HandOver(w) = <<w>>
      BY <1>3 DEF HandOver
    <2> HIDE DEF S
    <2>2. <<w>> \in Seq(S) /\ ToSet(<<w>>) = {w}
      BY <1>3, OneElement
    <2> QED
      BY <1>3, <2>1, <2>2 DEF S
  <1>4. CASE v \in S /\ w \in S
    <2>1. HandOver(v) \o HandOver(w) = <<v>> \o <<w>>
      BY <1>4 DEF HandOver
    <2> HIDE DEF S
    <2>2. <<v>> \o <<w>> \in Seq(S) /\ ToSet(<<v>> \o <<w>>) = {v, w}
      BY <1>4, TwoElements
    <2> QED
      BY <1>4, <2>1, <2>2 DEF S
  <1> QED
    BY <1>1, <1>2, <1>3, <1>4

(* The members of a sequence that has grown by one. *)
LEMMA ToSetAppend ==
  ASSUME NEW w \in Seq(Uop), NEW u \in Uop
  PROVE  /\ Append(w, u) \in Seq(Uop) /\ Len(Append(w, u)) = Len(w) + 1
         /\ \A i \in 1..Len(w) : Append(w, u)[i] = w[i]
         /\ Append(w, u)[Len(w) + 1] = u
         /\ ToSet(Append(w, u)) = ToSet(w) \cup {u}
  <1>1. /\ Append(w, u) \in Seq(Uop) /\ Len(Append(w, u)) = Len(w) + 1
        /\ \A i \in 1..Len(w) : Append(w, u)[i] = w[i]
        /\ Append(w, u)[Len(w) + 1] = u
        /\ Len(w) \in Nat
    OBVIOUS
  <1>2. DOMAIN w = 1..Len(w) /\ DOMAIN Append(w, u) = 1..Len(w) \cup {Len(w) + 1}
    BY <1>1
  <1> QED
    BY <1>1, <1>2 DEF ToSet

(* A PW of one uop is a straight run. *)
LEMMA StraightAlone ==
  ASSUME NEW u \in Uop
  PROVE  Straight(<<u>>)
  <1>1. ToSet(<<u>>) = {u} /\ Len(<<u>>) = 1 /\ <<u>>[1] = u
    BY DEF ToSet
  <1>2. u.addr \in Nat
    BY AddrsAssumption DEF Uop
  <1>3. u.addr .. u.addr = {u.addr}
    BY <1>2
  <1> QED
    BY <1>1, <1>3 DEF Straight

(* A straight run goes on with a uop of the same or the next address, if   *)
(* it has not ended.                                                       *)
LEMMA StraightGoesOn ==
  ASSUME NEW w \in Seq(Uop), w # <<>>, Straight(w), ~w[Len(w)].ends,
         NEW u \in Uop, u.addr \in Sequential(w[Len(w)].addr)
  PROVE  Straight(Append(w, u))
  <1> DEFINE a == w[1].addr
             b == w[Len(w)].addr
  <1>1. Len(w) \in Nat \ {0} /\ w[1] \in Uop /\ w[Len(w)] \in Uop
    OBVIOUS
  <1>2. a \in Nat /\ b \in Nat /\ u.addr \in {b, b + 1}
    BY <1>1, AddrsAssumption DEF Uop, Sequential
  <1>3. a <= b
    <2>1. w[1] \in ToSet(w)
      BY <1>1 DEF ToSet
    <2>2. a \in a .. b
      BY <2>1 DEF Straight
    <2> QED
      BY <1>2, <2>2
  <1>4. {x.addr : x \in ToSet(Append(w, u))} = {x.addr : x \in ToSet(w)} \cup {u.addr}
    BY ToSetAppend
  <1>5. {x.addr : x \in ToSet(w)} = a .. b
    BY DEF Straight
  <1>6. (a .. b) \cup {u.addr} = a .. u.addr
    BY <1>2, <1>3
  <1>7. Append(w, u)[1] = w[1] /\ Append(w, u)[Len(Append(w, u))] = u
    BY <1>1, ToSetAppend
  <1>8. ASSUME NEW i \in 1..(Len(Append(w, u)) - 1)
        PROVE  ~Append(w, u)[i].ends
    <2>1. i \in 1..Len(w) /\ Append(w, u)[i] = w[i]
      BY <1>1, ToSetAppend
    <2>2. CASE i = Len(w)
      BY <2>1, <2>2
    <2>3. CASE i # Len(w)
      <3>1. i \in 1..(Len(w) - 1)
        BY <1>1, <2>1, <2>3
      <3> QED
        BY <2>1, <3>1 DEF Straight
    <2> QED
      BY <2>2, <2>3
  <1> QED
    BY <1>4, <1>5, <1>6, <1>7, <1>8 DEF Straight

(* The concatenation of no, one and two sequences. *)
LEMMA FlattenNone == FlattenSeq(<<>>) = <<>>
  BY DEF FlattenSeq

LEMMA FlattenOne ==
  ASSUME NEW s, Len(s) = 1
  PROVE  FlattenSeq(s) = s[1]
  <1> DEFINE eq(f) == f = [i \in 1..Len(s) |->
                            IF i = 1 THEN s[i] ELSE f[i - 1] \o s[i]]
             g == CHOOSE f : eq(f)
  <1>1. eq([i \in 1..1 |-> s[1]])
    OBVIOUS
  <1>2. eq(g)
    BY <1>1
  <1>3. g[1] = s[1]
    BY <1>2
  <1>4. FlattenSeq(s) = g[Len(s)]
    BY DEF FlattenSeq
  <1> QED
    BY <1>3, <1>4

LEMMA FlattenTwo ==
  ASSUME NEW s, Len(s) = 2
  PROVE  FlattenSeq(s) = s[1] \o s[2]
  <1> DEFINE eq(f) == f = [i \in 1..Len(s) |->
                            IF i = 1 THEN s[i] ELSE f[i - 1] \o s[i]]
             h == [i \in 1..2 |-> IF i = 1 THEN s[1] ELSE s[1] \o s[2]]
             g == CHOOSE f : eq(f)
  <1>1. eq(h)
    <2>1. h[1] = s[1]
      OBVIOUS
    <2>2. h = [i \in 1..2 |-> IF i = 1 THEN s[i] ELSE h[i - 1] \o s[i]]
      BY <2>1
    <2> QED
      BY <2>2
  <1>2. eq(g)
    BY <1>1
  <1> HIDE DEF g, h
  <1>3. g = [i \in 1..2 |-> IF i = 1 THEN s[i] ELSE g[i - 1] \o s[i]]
    BY <1>2
  <1>4. g[1] = s[1] /\ g[2] = g[2 - 1] \o s[2]
    BY <1>3
  <1>5. 2 - 1 = 1
    OBVIOUS
  <1>6. g[2] = s[1] \o s[2]
    BY <1>4, <1>5, Zenon
  <1>7. FlattenSeq(s) = g[2]
    BY DEF FlattenSeq, g
  <1> QED
    BY <1>6, <1>7

(* What a step hands over holds the uops of the two PWs, in order.         *)
LEMMA FlattenHanded ==
  ASSUME NEW v \in Seq(Uop), NEW w \in Seq(Uop)
  PROVE  FlattenSeq(HandOver(v) \o HandOver(w)) = v \o w
  <1>1. CASE v = <<>> /\ w = <<>>
    <2>1. HandOver(v) \o HandOver(w) = <<>> /\ v \o w = <<>>
      BY <1>1 DEF HandOver
    <2> QED
      BY <2>1, FlattenNone
  <1>2. CASE v # <<>> /\ w = <<>>
    <2>1. HandOver(v) \o HandOver(w) = <<v>> /\ Len(<<v>>) = 1 /\ <<v>>[1] = v
      BY <1>2 DEF HandOver
    <2>2. v \o w = v
      BY <1>2, ConcatEmptySeq
    <2> QED
      BY <2>1, <2>2, FlattenOne
  <1>3. CASE v = <<>> /\ w # <<>>
    <2>1. HandOver(v) \o HandOver(w) = <<w>> /\ Len(<<w>>) = 1 /\ <<w>>[1] = w
      BY <1>3 DEF HandOver
    <2>2. v \o w = w
      BY <1>3, ConcatEmptySeq
    <2> QED
      BY <2>1, <2>2, FlattenOne
  <1>4. CASE v # <<>> /\ w # <<>>
    <2>1. HandOver(v) \o HandOver(w) = <<v>> \o <<w>>
      BY <1>4 DEF HandOver
    <2> DEFINE s == <<v>> \o <<w>>
    <2>2. Len(s) = 2 /\ s[1] = v /\ s[2] = w
      BY TwoElements
    <2> HIDE DEF s
    <2>3. FlattenSeq(s) = v \o w
      BY <2>2, FlattenTwo
    <2> QED
      BY <2>1, <2>3 DEF s
  <1> QED
    BY <1>1, <1>2, <1>3, <1>4

-----------------------------------------------------------------------------
(* The initial state satisfies the inductive invariant. *)
LEMMA InvInit == Init => Inv
  <1> SUFFICES ASSUME Init
               PROVE  Inv
    OBVIOUS
  <1>1. MaxOps \in Nat \ {0}
    BY SizesAssumption
  <1>2. TypeOK
    BY <1>1 DEF Init, TypeOK
  <1>3. ToSet(handed) = {}
    BY DEF Init, ToSet
  <1> QED
    BY <1>2, <1>3
    DEF Init, Inv, OpenInLine, OneLinePerWindow, OpenGoesOn, ExactRange, CountAhead

(* How the stream moves on: a uop that does not end a PW is followed by    *)
(* one of the same or the next address, and leads off no path.             *)
StreamMoves(ends) ==
  /\ next' \in Place /\ next'.num = next.num + 1
  /\ \/ branch' = branch
     \/ /\ ends /\ fetchOffPath /\ branch = NoBranch
        /\ branch' \in Place /\ branch'.num = next.num
  /\ ~ends => next'.addr \in Sequential(next.addr)

LEMMA FollowsUopMoves ==
  ASSUME TypeOK, next.num <= MaxOps, FollowsUop
  PROVE  StreamMoves(FALSE)
  <1>1. MaxOps \in Nat /\ next.num \in 1..MaxOps
    BY SizesAssumption DEF TypeOK, Place
  <1>2. PICK b \in Sequential(next.addr) : next' = At(next.num + 1, b)
    BY DEF FollowsUop
  <1>3. b \in Addrs
    BY DEF Sequential
  <1> QED
    BY <1>1, <1>2, <1>3 DEF FollowsUop, StreamMoves, At, Place

LEMMA FollowsBranchMoves ==
  ASSUME TypeOK, next.num <= MaxOps, NEW pred \in BOOLEAN, NEW dir \in BOOLEAN,
         FollowsBranch(pred, dir)
  PROVE  StreamMoves(BranchPt(pred, dir))
  <1>1. MaxOps \in Nat /\ next.num \in 1..MaxOps
    BY SizesAssumption DEF TypeOK, Place
  <1>2. \A t \in BOOLEAN : \A b \in After(next.addr, t) :
          /\ b \in Addrs
          /\ At(next.num + 1, b) \in Place /\ At(next.num, b) \in Place
          /\ ~t => b \in Sequential(next.addr)
    BY <1>1 DEF After, Sequential, At, Place
  <1>3. CASE /\ pred = dir /\ UNCHANGED branch
             /\ \E b \in After(next.addr, dir) : next' = At(next.num + 1, b)
    <2>1. PICK b \in After(next.addr, dir) : next' = At(next.num + 1, b)
      BY <1>3
    <2>2. next' \in Place /\ next'.num = next.num + 1 /\ next'.addr = b
      BY <1>2, <2>1 DEF At
    <2>3. ~(pred \/ dir) => next'.addr \in Sequential(next.addr)
      BY <1>2, <2>2
    <2> QED
      BY <1>3, <2>2, <2>3 DEF StreamMoves, BranchPt
  <1>4. CASE /\ pred \/ dir
             /\ branch = NoBranch
             /\ \E b \in After(next.addr, dir), wrong \in After(next.addr, pred) :
                  IF fetchOffPath
                  THEN next' = At(next.num + 1, wrong) /\ branch' = At(next.num, b)
                  ELSE next' = At(next.num + 1, b) /\ UNCHANGED branch
    <2>1. PICK b \in After(next.addr, dir), wrong \in After(next.addr, pred) :
            IF fetchOffPath
            THEN next' = At(next.num + 1, wrong) /\ branch' = At(next.num, b)
            ELSE next' = At(next.num + 1, b) /\ UNCHANGED branch
      BY <1>4
    <2>2. /\ At(next.num + 1, b) \in Place /\ At(next.num + 1, wrong) \in Place
          /\ At(next.num, b) \in Place
      BY <1>2
    <2>3. \A n, x : At(n, x).num = n
      BY DEF At
    <2>4. next' \in Place /\ next'.num = next.num + 1
      BY <2>1, <2>2, <2>3
    <2>5. \/ branch' = branch
          \/ /\ fetchOffPath /\ branch = NoBranch
             /\ branch' \in Place /\ branch'.num = next.num
      BY <1>4, <2>1, <2>2, <2>3
    <2> QED
      BY <1>4, <2>4, <2>5 DEF StreamMoves, BranchPt
  <1> QED
    BY <1>3, <1>4 DEF FollowsBranch

-----------------------------------------------------------------------------
(* The PW to which a uop is added is empty or the open one; it stays in    *)
(* one line and, without the wrong path, straight.                         *)
Before == IF EndOfLine THEN <<>> ELSE window
Arriving(ends) == [num |-> next.num, addr |-> next.addr, ends |-> ends]

LEMMA AddedUop ==
  ASSUME Inv, next.num <= MaxOps, NEW ends \in BOOLEAN
  PROVE  /\ window \in Seq(Uop) /\ Before \in Seq(Uop) /\ Arriving(ends) \in Uop
         /\ Append(Before, Arriving(ends)) \in Seq(Uop) \ {<<>>}
         /\ Len(Append(Before, Arriving(ends))) = Len(Before) + 1
         /\ Append(Before, Arriving(ends))[Len(Before) + 1] = Arriving(ends)
  <1>1. MaxOps \in Nat /\ next.num \in 1..MaxOps /\ next.addr \in Addrs
    BY SizesAssumption DEF Inv, TypeOK, Place
  <1>2. window \in Seq(Uop) /\ Before \in Seq(Uop) /\ Arriving(ends) \in Uop
    BY <1>1 DEF Inv, TypeOK, Before, Arriving, Uop
  <1>3. /\ Append(Before, Arriving(ends)) \in Seq(Uop)
        /\ Len(Append(Before, Arriving(ends))) = Len(Before) + 1
        /\ Append(Before, Arriving(ends))[Len(Before) + 1] = Arriving(ends)
    BY <1>2, ToSetAppend
  <1>4. Len(Before) \in Nat /\ Len(<<>>) = 0
    BY <1>2
  <1> QED
    BY <1>2, <1>3, <1>4

LEMMA AddedStaysInLine ==
  ASSUME Inv, next.num <= MaxOps, NEW ends \in BOOLEAN,
         NEW i \in 1..Len(Append(Before, Arriving(ends)))
  PROVE  LineOf(Append(Before, Arriving(ends))[i].addr)
           = LineOf(Append(Before, Arriving(ends))[1].addr)
  <1> DEFINE after == Append(Before, Arriving(ends))
  <1>1. /\ Before \in Seq(Uop) /\ Len(Before) \in Nat
        /\ Len(after) = Len(Before) + 1 /\ after[Len(Before) + 1] = Arriving(ends)
        /\ \A j \in 1..Len(Before) : after[j] = Before[j]
    BY AddedUop, ToSetAppend
  <1>2. CASE Before = <<>>
    <2>1. Len(Before) = 0 /\ i = 1
      BY <1>1, <1>2
    <2> QED
      BY <2>1
  <1>3. CASE Before # <<>>
    <2>1. Before = window /\ LineOf(next.addr) = LineOf(window[1].addr)
      BY <1>3 DEF Before, EndOfLine
    <2>2. Len(Before) >= 1 /\ after[1] = window[1]
      BY <1>1, <1>3, <2>1
    <2>3. CASE i = Len(Before) + 1
      BY <1>1, <2>1, <2>2, <2>3 DEF Arriving
    <2>4. CASE i # Len(Before) + 1
      <3>1. i \in 1..Len(window) /\ after[i] = window[i]
        BY <1>1, <2>1, <2>4
      <3> QED
        BY <2>2, <3>1 DEF Inv, OpenInLine
    <2> QED
      BY <2>3, <2>4
  <1> QED
    BY <1>2, <1>3

LEMMA AddedStaysStraight ==
  ASSUME Inv, next.num <= MaxOps, NEW ends \in BOOLEAN, ~fetchOffPath
  PROVE  Straight(Append(Before, Arriving(ends)))
  <1>1. Before \in Seq(Uop) /\ Arriving(ends) \in Uop
    BY AddedUop
  <1>2. CASE Before = <<>>
    <2>1. Append(Before, Arriving(ends)) = <<Arriving(ends)>>
      BY <1>2
    <2> QED
      BY <1>1, <2>1, StraightAlone
  <1>3. CASE Before # <<>>
    <2>1. Before = window
      BY <1>3 DEF Before
    <2>2. /\ Straight(window) /\ ~window[Len(window)].ends
          /\ Arriving(ends).addr \in Sequential(window[Len(window)].addr)
      BY <1>3, <2>1 DEF Inv, OpenGoesOn, Arriving
    <2> QED
      BY <1>1, <1>3, <2>1, <2>2, StraightGoesOn
  <1> QED
    BY <1>2, <1>3

-----------------------------------------------------------------------------
(* A uop is added, and what is complete is handed over. *)
LEMMA AccumulateKeepsInv ==
  ASSUME Inv, next.num <= MaxOps, NEW ends \in BOOLEAN, StreamMoves(ends), Accumulate(ends)
  PROVE  Inv'
  <1> DEFINE after  == Append(Before, Arriving(ends))
             closes == ends \/ Len(window) + 1 > QueueSize
             v      == IF EndOfLine THEN window ELSE <<>>
             w      == IF closes THEN after ELSE <<>>
  <1>1. /\ window' = IF closes THEN <<>> ELSE after
        /\ handed' = HandOver(v) \o HandOver(w)
        /\ cons_op_num' = ConsecutiveNext
        /\ fetchOffPath' = fetchOffPath
    BY DEF Accumulate, Before, Arriving
  <1>2. /\ window \in Seq(Uop) /\ after \in Seq(Uop) \ {<<>>} /\ Before \in Seq(Uop)
        /\ Len(after) = Len(Before) + 1 /\ after[Len(after)] = Arriving(ends)
    BY AddedUop
  <1>3. /\ next \in Place /\ next.num \in 1..MaxOps /\ MaxOps \in Nat \ {0}
        /\ cons_op_num \in 0..(2 * MaxOps)
        /\ branch \in Place \cup {NoBranch}
        /\ fetchOffPath \in BOOLEAN
    BY SizesAssumption DEF Inv, TypeOK, Place
  <1>4. /\ next' \in Place /\ next'.num = next.num + 1
        /\ branch' \in Place \cup {NoBranch}
        /\ ~ends => branch' = branch /\ next'.addr \in Sequential(next.addr)
        /\ ~fetchOffPath => branch' = branch
        /\ branch' = branch \/ branch'.num = next.num
    BY <1>3 DEF StreamMoves
  <1> DEFINE limit == IF branch = NoBranch THEN next.num + MaxOps - 1 ELSE next.num
  <1>5. window # <<>> => cons_op_num <= limit
    BY DEF Inv, CountAhead
  <1>6. cons_op_num' \in 0..(2 * MaxOps) /\ cons_op_num' <= limit + 1
    <2>1. limit \in Nat /\ limit < 2 * MaxOps /\ next.num <= limit
      BY <1>3
    <2>2. cons_op_num' = next.num + 1 \/ (cons_op_num' = cons_op_num + 1 /\ window # <<>>)
      BY <1>1 DEF ConsecutiveNext
    <2> HIDE DEF limit
    <2>3. cons_op_num' \in Nat /\ cons_op_num' <= limit + 1
      BY <1>3, <1>5, <2>1, <2>2
    <2> QED
      BY <1>3, <2>1, <2>3
  <1>7. v \in Seq(Uop) /\ w \in Seq(Uop)
    BY <1>2
  <1>8. /\ handed' \in Seq(Seq(Uop) \ {<<>>})
        /\ ToSet(handed') \subseteq {window, after} \ {<<>>}
    <2>1. v \in {window, <<>>} /\ w \in {after, <<>>}
      OBVIOUS
    <2> HIDE DEF v, w
    <2>2. /\ handed' \in Seq(Seq(Uop) \ {<<>>})
          /\ ToSet(handed') \subseteq {v, w} \ {<<>>}
      BY <1>1, <1>7, HandedElements
    <2> QED
      BY <2>1, <2>2
  <1>9. TypeOK'
    <2>1. window' \in Seq(Uop)
      BY <1>1, <1>2
    <2> QED
      BY <1>1, <1>3, <1>4, <1>6, <1>8, <2>1 DEF TypeOK
  <1>10. \A i \in 1..Len(after) : LineOf(after[i].addr) = LineOf(after[1].addr)
    BY AddedStaysInLine
  <1>11. OpenInLine'
    <2>1. CASE window' = <<>>
      BY <2>1 DEF OpenInLine
    <2>2. CASE window' = after
      BY <1>10, <2>2 DEF OpenInLine
    <2> QED
      BY <1>1, <2>1, <2>2
  <1>12. OneLinePerWindow'
    <2> SUFFICES ASSUME NEW pw \in ToSet(handed'), NEW u \in ToSet(pw)
                 PROVE  LineOf(u.addr) = LineOf(pw[1].addr)
      BY DEF OneLinePerWindow
    <2>1. pw \in Seq(Uop) /\ \A i \in 1..Len(pw) : LineOf(pw[i].addr) = LineOf(pw[1].addr)
      BY <1>2, <1>8, <1>10 DEF Inv, OpenInLine
    <2>2. PICK i \in 1..Len(pw) : u = pw[i]
      BY <2>1 DEF ToSet
    <2> QED
      BY <2>1, <2>2
  <1>13. ~fetchOffPath => Straight(after) /\ (window # <<>> => Straight(window))
    BY AddedStaysStraight DEF Inv, OpenGoesOn
  <1>14. ExactRange'
    BY <1>1, <1>8, <1>13 DEF ExactRange, Straight
  <1>15. OpenGoesOn'
    <2> SUFFICES ASSUME ~fetchOffPath
                 PROVE  /\ branch' = NoBranch
                        /\ window' # <<>> => /\ next'.num = cons_op_num'
                                             /\ Straight(window')
                                             /\ ~window'[Len(window')].ends
                                             /\ next'.addr \in
                                                  Sequential(window'[Len(window')].addr)
      BY <1>1 DEF OpenGoesOn, Straight, Sequential
    <2>1. branch' = NoBranch
      BY <1>4 DEF Inv, OpenGoesOn
    <2>2. ASSUME window' # <<>>
          PROVE  /\ next'.num = cons_op_num' /\ Straight(window')
                 /\ ~window'[Len(window')].ends
                 /\ next'.addr \in Sequential(window'[Len(window')].addr)
      <3>1. ~ends /\ window' = after
        BY <1>1, <2>2
      <3>2. next'.num = cons_op_num'
        BY <1>1, <1>3, <1>4 DEF Inv, OpenGoesOn, ConsecutiveNext
      <3> QED
        BY <1>2, <1>4, <1>13, <3>1, <3>2 DEF Arriving
    <2> QED
      BY <2>1, <2>2
  <1>16. CountAhead'
    <2>1. branch' # NoBranch => branch'.num <= MaxOps
      BY <1>3, <1>4 DEF Inv, CountAhead
    <2>2. ASSUME window' # <<>>
          PROVE  IF branch' = NoBranch THEN cons_op_num' <= next'.num + MaxOps - 1
                                       ELSE cons_op_num' <= next'.num
      <3>1. branch' = branch
        BY <1>1, <1>4, <2>2
      <3> QED
        BY <1>3, <1>4, <1>6, <3>1
    <2> QED
      BY <2>1, <2>2 DEF CountAhead
  <1> QED
    BY <1>9, <1>11, <1>12, <1>14, <1>15, <1>16 DEF Inv

(* The open PW is handed over when a uop comes from the micro-op cache.    *)
LEMMA EndAccumulateKeepsInv ==
  ASSUME Inv, next.num <= MaxOps, NEW ends \in BOOLEAN, StreamMoves(ends), EndAccumulate
  PROVE  Inv'
  <1>1. /\ window' = <<>> /\ handed' = HandOver(window)
        /\ UNCHANGED <<fetchOffPath, cons_op_num>>
    BY DEF EndAccumulate
  <1>2. window \in Seq(Uop) /\ <<>> \in Seq(Uop)
    BY DEF Inv, TypeOK
  <1>3. /\ handed' \in Seq(Seq(Uop) \ {<<>>})
        /\ ToSet(handed') \subseteq {window} \ {<<>>}
    <2>1. HandOver(window) \o HandOver(<<>>) = HandOver(window)
      BY <1>2 DEF HandOver
    <2>2. /\ HandOver(window) \o HandOver(<<>>) \in Seq(Seq(Uop) \ {<<>>})
          /\ ToSet(HandOver(window) \o HandOver(<<>>)) \subseteq {window, <<>>} \ {<<>>}
      BY <1>2, HandedElements
    <2> QED
      BY <1>1, <2>1, <2>2
  <1>4. /\ next' \in Place /\ branch' \in Place \cup {NoBranch}
        /\ ~fetchOffPath => branch' = branch
        /\ branch' # NoBranch => branch'.num <= MaxOps
    BY DEF Inv, TypeOK, CountAhead, StreamMoves
  <1>5. TypeOK'
    BY <1>1, <1>2, <1>3, <1>4 DEF Inv, TypeOK
  <1>6. OneLinePerWindow'
    <2> SUFFICES ASSUME window # <<>>, NEW u \in ToSet(window)
                 PROVE  LineOf(u.addr) = LineOf(window[1].addr)
      BY <1>3 DEF OneLinePerWindow
    <2>1. PICK i \in 1..Len(window) : u = window[i]
      BY <1>2 DEF ToSet
    <2> QED
      BY <2>1 DEF Inv, OpenInLine
  <1>7. ExactRange'
    BY <1>1, <1>3 DEF Inv, OpenGoesOn, ExactRange, Straight
  <1> QED
    BY <1>1, <1>4, <1>5, <1>6, <1>7 DEF Inv, OpenInLine, OpenGoesOn, CountAhead

(* A recovery leaves the open PW alone. *)
LEMMA RecoverKeepsInv ==
  ASSUME Inv, Recover
  PROVE  Inv'
  <1>1. /\ branch # NoBranch /\ next' = At(branch.num + 1, branch.addr)
        /\ branch' = NoBranch /\ handed' = <<>>
        /\ UNCHANGED <<fetchOffPath, window, cons_op_num>>
    BY DEF Recover
  <1>2. /\ branch.num \in 1..MaxOps /\ branch.addr \in Addrs
        /\ MaxOps \in Nat \ {0} /\ next.num \in 1..(MaxOps + 1)
        /\ cons_op_num \in 0..(2 * MaxOps)
    BY <1>1, SizesAssumption DEF Inv, TypeOK, CountAhead, Place
  <1>3. next' \in Place /\ next'.num = branch.num + 1
    BY <1>1, <1>2 DEF At, Place
  <1>4. TypeOK'
    BY <1>1, <1>3 DEF Inv, TypeOK
  <1>5. ToSet(handed') = {}
    BY <1>1 DEF ToSet
  <1>6. fetchOffPath
    BY <1>1 DEF Inv, TypeOK, OpenGoesOn
  <1>7. CountAhead'
    BY <1>1, <1>2, <1>3 DEF Inv, CountAhead
  <1> QED
    BY <1>1, <1>4, <1>5, <1>6, <1>7
    DEF Inv, OpenInLine, OneLinePerWindow, OpenGoesOn, ExactRange

-----------------------------------------------------------------------------
(* Every step preserves the inductive invariant. *)
LEMMA InvNext == Inv /\ [Next]_vars => Inv'
  <1> SUFFICES ASSUME Inv, [Next]_vars
               PROVE  Inv'
    OBVIOUS
  <1>1. TypeOK
    BY DEF Inv
  <1>2. CASE DecodeUop
    BY <1>1, <1>2, FollowsUopMoves, AccumulateKeepsInv DEF DecodeUop
  <1>3. CASE DecodeBranch
    <2>1. PICK pred \in BOOLEAN, dir \in BOOLEAN :
            FollowsBranch(pred, dir) /\ Accumulate(BranchPt(pred, dir))
      BY <1>3 DEF DecodeBranch
    <2>2. BranchPt(pred, dir) \in BOOLEAN
      BY DEF BranchPt
    <2>3. StreamMoves(BranchPt(pred, dir)) /\ next.num <= MaxOps
      BY <1>1, <1>3, <2>1, FollowsBranchMoves DEF DecodeBranch
    <2> QED
      BY <2>1, <2>2, <2>3, AccumulateKeepsInv
  <1>4. CASE DecodeCachedUop
    <2>1. CASE FollowsUop
      BY <1>1, <1>4, <2>1, FollowsUopMoves, EndAccumulateKeepsInv DEF DecodeCachedUop
    <2>2. CASE \E pred, dir \in BOOLEAN : FollowsBranch(pred, dir)
      <3>1. PICK pred \in BOOLEAN, dir \in BOOLEAN : FollowsBranch(pred, dir)
        BY <2>2
      <3>2. BranchPt(pred, dir) \in BOOLEAN
        BY DEF BranchPt
      <3>3. StreamMoves(BranchPt(pred, dir)) /\ next.num <= MaxOps
        BY <1>1, <1>4, <3>1, FollowsBranchMoves DEF DecodeCachedUop
      <3> QED
        BY <1>4, <3>2, <3>3, EndAccumulateKeepsInv DEF DecodeCachedUop
    <2> QED
      BY <1>4, <2>1, <2>2 DEF DecodeCachedUop
  <1>5. CASE Recover
    BY <1>5, RecoverKeepsInv
  <1>6. CASE UNCHANGED vars
    BY <1>6
    DEF vars, Inv, TypeOK, OpenInLine, OneLinePerWindow, OpenGoesOn, ExactRange,
        CountAhead, Straight, Sequential
  <1> QED
    BY <1>2, <1>3, <1>4, <1>5, <1>6 DEF Next

(* The inductive invariant holds in every reachable state. *)
THEOREM Invariance == Spec => []Inv
  <1>1. Init => Inv
    BY InvInit
  <1>2. Inv /\ [Next]_vars => Inv'
    BY InvNext
  <1> QED
    BY <1>1, <1>2, PTL DEF Spec

-----------------------------------------------------------------------------
(* Every variable keeps its type: no empty PW is handed over, and          *)
(* cons_op_num, which a recovery does not reset, stays in range.           *)
THEOREM TypeCorrect == Spec => []TypeOK
  <1>1. Inv => TypeOK
    BY DEF Inv
  <1> QED
    BY <1>1, Invariance, PTL

(* Without the wrong path, the ASSERT of accumulate_op holds: the uops of  *)
(* a PW are consecutive.                                                   *)
THEOREM ConsecutiveOnPathHolds == Spec => []ConsecutiveOnPath
  <1>1. Inv => ConsecutiveOnPath
    BY DEF Inv, OpenGoesOn, ConsecutiveOnPath, ConsecutiveOps
  <1> QED
    BY <1>1, Invariance, PTL

(* With the wrong path as well, a PW lies in one instruction-cache line.   *)
THEOREM OneLinePerWindowHolds == Spec => []OneLinePerWindow
  <1>1. Inv => OneLinePerWindow
    BY DEF Inv
  <1> QED
    BY <1>1, Invariance, PTL

(* Without the wrong path, the range of a PW is what is in it, and only    *)
(* its last uop can be a taken branch.                                     *)
THEOREM ExactRangeHolds == Spec => []ExactRange
  <1>1. Inv => ExactRange
    BY DEF Inv
  <1> QED
    BY <1>1, Invariance, PTL

-----------------------------------------------------------------------------
(* What a step hands over and leaves open is what was open, and the uop    *)
(* that is decoded, if it did not come from the micro-op cache.            *)
AccountsFor(uops) ==
  \/ uops = window
  \/ \E e \in BOOLEAN : uops = Append(window, Arriving(e))

LEMMA AccumulateLosesNothing ==
  ASSUME Inv, next.num <= MaxOps, NEW ends \in BOOLEAN, Accumulate(ends)
  PROVE  FlattenSeq(handed') \o window' = Append(window, Arriving(ends))
  <1> DEFINE after  == Append(Before, Arriving(ends))
             closes == ends \/ Len(window) + 1 > QueueSize
             v      == IF EndOfLine THEN window ELSE <<>>
             w      == IF closes THEN after ELSE <<>>
             open   == IF closes THEN <<>> ELSE after
  <1>1. window' = open /\ handed' = HandOver(v) \o HandOver(w)
    BY DEF Accumulate, Before, Arriving
  <1>2. /\ window \in Seq(Uop) /\ Before \in Seq(Uop) /\ after \in Seq(Uop)
        /\ Arriving(ends) \in Uop
    BY AddedUop
  <1>3. v \in Seq(Uop) /\ w \in Seq(Uop) /\ open \in Seq(Uop)
    BY <1>2
  <1>4. w \o open = after
    BY <1>2, ConcatEmptySeq
  <1>5. v \o after = Append(window, Arriving(ends))
    <2>1. CASE EndOfLine
      <3>1. after = <<Arriving(ends)>>
        BY <2>1 DEF Before
      <3> QED
        BY <1>2, <2>1, <3>1, AppendIsConcat
    <2>2. CASE ~EndOfLine
      BY <1>2, <2>2, ConcatEmptySeq DEF Before
    <2> QED
      BY <2>1, <2>2
  <1> HIDE DEF v, w, open, after
  <1>6. FlattenSeq(handed') = v \o w
    BY <1>1, <1>3, FlattenHanded
  <1>7. (v \o w) \o open = v \o (w \o open)
    BY <1>3, ConcatAssociative
  <1> QED
    BY <1>1, <1>4, <1>5, <1>6, <1>7

LEMMA EndAccumulateLosesNothing ==
  ASSUME Inv, EndAccumulate
  PROVE  FlattenSeq(handed') \o window' = window
  <1>1. /\ window' = <<>> /\ handed' = HandOver(window)
        /\ window \in Seq(Uop) /\ <<>> \in Seq(Uop)
    BY DEF EndAccumulate, Inv, TypeOK
  <1>2. HandOver(window) \o HandOver(<<>>) = HandOver(window)
    BY <1>1 DEF HandOver
  <1>3. FlattenSeq(HandOver(window) \o HandOver(<<>>)) = window \o <<>>
    BY <1>1, FlattenHanded
  <1>4. window \o <<>> = window
    BY <1>1, ConcatEmptySeq
  <1> QED
    BY <1>1, <1>2, <1>3, <1>4

LEMMA StepLosesNothing ==
  ASSUME Inv, Next
  PROVE  AccountsFor(FlattenSeq(handed') \o window')
  <1>1. CASE DecodeUop
    BY <1>1, AccumulateLosesNothing DEF DecodeUop, AccountsFor
  <1>2. CASE DecodeBranch
    <2>1. PICK pred \in BOOLEAN, dir \in BOOLEAN : Accumulate(BranchPt(pred, dir))
      BY <1>2 DEF DecodeBranch
    <2>2. BranchPt(pred, dir) \in BOOLEAN
      BY DEF BranchPt
    <2> QED
      BY <1>2, <2>1, <2>2, AccumulateLosesNothing DEF DecodeBranch, AccountsFor
  <1>3. CASE DecodeCachedUop
    BY <1>3, EndAccumulateLosesNothing DEF DecodeCachedUop, AccountsFor
  <1>4. CASE Recover
    <2>1. handed' = <<>> /\ window' = window /\ window \in Seq(Uop)
      BY <1>4 DEF Recover, Inv, TypeOK
    <2>2. <<>> \o window = window
      BY <2>1, ConcatEmptySeq
    <2> QED
      BY <2>1, <2>2, FlattenNone DEF AccountsFor
  <1> QED
    BY <1>1, <1>2, <1>3, <1>4 DEF Next

(* Every collected uop reaches insert_uop_cache once and in order, with    *)
(* the wrong path and its recoveries as well.                              *)
THEOREM NothingLostHolds == Spec => NothingLost
  <1>1. Inv /\ [Next]_vars =>
          [LET uops == FlattenSeq(handed') \o window'
           IN  \/ uops = window
               \/ \E e \in BOOLEAN :
                    uops = Append(window, [num |-> next.num, addr |-> next.addr,
                                           ends |-> e])]_vars
    BY StepLosesNothing DEF AccountsFor, Arriving
  <1> QED
    BY <1>1, Invariance, PTL DEF Spec, NothingLost

-----------------------------------------------------------------------------
(* The queue of uops: at first there is room. *)
LEMMA OverrunInit == Init => OverrunIsOne
  BY SizesAssumption DEF Init, OverrunIsOne, ToSet

(* A uop that finds the queue full ends the PW. *)
LEMMA AccumulateKeepsRoom ==
  ASSUME Inv, OverrunIsOne, next.num <= MaxOps, NEW ends \in BOOLEAN, Accumulate(ends)
  PROVE  OverrunIsOne'
  <1> DEFINE after  == Append(Before, Arriving(ends))
             closes == ends \/ Len(window) + 1 > QueueSize
             v      == IF EndOfLine THEN window ELSE <<>>
             w      == IF closes THEN after ELSE <<>>
  <1>1. /\ window' = (IF closes THEN <<>> ELSE after)
        /\ handed' = HandOver(v) \o HandOver(w)
    BY DEF Accumulate, Before, Arriving
  <1>2. /\ window \in Seq(Uop) /\ after \in Seq(Uop) /\ Before \in Seq(Uop)
        /\ Len(after) = Len(Before) + 1
    BY AddedUop
  <1>3. /\ Len(window) \in Nat /\ Len(window) <= QueueSize /\ QueueSize \in Nat
        /\ Len(<<>>) = 0
    BY <1>2, SizesAssumption DEF OverrunIsOne
  <1>4. Len(Before) \in Nat /\ Len(Before) <= Len(window)
    BY <1>2, <1>3 DEF Before
  <1>5. /\ v \in Seq(Uop) /\ Len(v) <= QueueSize + 1
        /\ w \in Seq(Uop) /\ Len(w) <= QueueSize + 1
    BY <1>2, <1>3, <1>4
  <1>6. ToSet(handed') \subseteq {v, w}
    BY <1>1, <1>5, HandedElements
  <1>7. Len(window') <= QueueSize
    BY <1>1, <1>2, <1>3, <1>4
  <1> QED
    BY <1>5, <1>6, <1>7 DEF OverrunIsOne

(* What is handed over without another uop has had room. *)
LEMMA EndAccumulateKeepsRoom ==
  ASSUME Inv, OverrunIsOne, EndAccumulate
  PROVE  OverrunIsOne'
  <1>1. window \in Seq(Uop) /\ Len(<<>>) = 0 /\ Len(window) \in Nat /\ QueueSize \in Nat
    BY SizesAssumption DEF Inv, TypeOK
  <1>2. /\ window' = <<>>
        /\ handed' = IF window = <<>> THEN <<>> ELSE <<window>>
    BY DEF EndAccumulate, HandOver
  <1>3. ToSet(handed') \subseteq {window}
    BY <1>2 DEF ToSet
  <1> QED
    BY <1>1, <1>2, <1>3 DEF OverrunIsOne

(* uop_q is overrun by one place at most, on the wrong path, too.          *)
THEOREM OverrunIsOneHolds == Spec => []OverrunIsOne
  <1>1. Init => OverrunIsOne
    BY OverrunInit
  <1>2. Inv /\ OverrunIsOne /\ [Next]_vars => OverrunIsOne'
    <2> SUFFICES ASSUME Inv, OverrunIsOne, [Next]_vars
                 PROVE  OverrunIsOne'
      OBVIOUS
    <2>1. CASE DecodeUop
      BY <2>1, AccumulateKeepsRoom DEF DecodeUop
    <2>2. CASE DecodeBranch
      <3>1. PICK ends \in BOOLEAN : Accumulate(ends)
        BY <2>2 DEF DecodeBranch, BranchPt
      <3> QED
        BY <2>2, <3>1, AccumulateKeepsRoom DEF DecodeBranch
    <2>3. CASE DecodeCachedUop
      BY <2>3, EndAccumulateKeepsRoom DEF DecodeCachedUop
    <2>4. CASE Recover
      <3>1. ToSet(handed') = {} /\ window' = window
        BY <2>4 DEF Recover, ToSet
      <3> QED
        BY <3>1 DEF OverrunIsOne
    <2>5. CASE UNCHANGED vars
      BY <2>5 DEF vars, OverrunIsOne, ToSet
    <2> QED
      BY <2>1, <2>2, <2>3, <2>4, <2>5 DEF Next
  <1> QED
    BY <1>1, <1>2, Invariance, PTL DEF Spec

=============================================================================
