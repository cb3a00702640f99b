-------------------------- MODULE FetchStageProofs --------------------------
(***************************************************************************)
(* The fetch stage, for every size of the instruction cache, width and     *)
(* bound on the ops in flight, and all settings: the marking of wrong-path *)
(* ops, the scheduled recoveries and redirects, and what fetch waits for,  *)
(* agree with the ops in flight after every step.                          *)
(***************************************************************************)
EXTENDS FetchStage, SequenceTheorems, TLAPS

-----------------------------------------------------------------------------
(* Largest and smallest of two numbers. *)

LEMMA MaxOfTwo ==
  ASSUME NEW a \in Int, NEW b \in Int
  PROVE  Max({a, b}) = IF a >= b THEN a ELSE b
  <1>1. \E x \in {a, b} : \A y \in {a, b} : x >= y
    OBVIOUS
  <1>2. Max({a, b}) \in {a, b} /\ \A y \in {a, b} : Max({a, b}) >= y
    BY <1>1 DEF Max
  <1> QED
    BY <1>2

LEMMA MinOfTwo ==
  ASSUME NEW a \in Int, NEW b \in Int
  PROVE  Min({a, b}) = IF a <= b THEN a ELSE b
  <1>1. \E x \in {a, b} : \A y \in {a, b} : x <= y
    OBVIOUS
  <1>2. Min({a, b}) \in {a, b} /\ \A y \in {a, b} : Min({a, b}) <= y
    BY <1>1 DEF Min
  <1> QED
    BY <1>2

(* The initial state satisfies the inductive invariant. *)
LEMMA InvInit == Init => Inv
  <1> SUFFICES ASSUME Init
               PROVE  Inv
    OBVIOUS
  <1>1. ops \in Seq(FlightOp) /\ Len(ops) = 0
    BY EmptySeq DEF Init
  <1>2. settings \in Settings
    <2>1. PICK s \in Settings :
            fetchOffPath = s[1] /\ switchOnRecovery = s[2] /\ bubble = s[3]
      BY DEF Init
    <2>2. s \in BOOLEAN \X BOOLEAN \X BOOLEAN
      BY FetchAssumption
    <2> QED
      BY <2>1, <2>2 DEF settings
  <1>3. TypeOK
    <2>1. 0 \in Positions /\ 0 \in 0..UcWidth /\ 0 \in 0..CfsPerCycle
      BY FetchAssumption DEF Positions
    <2>2. Nothing \in Pending /\ Nothing.at = 0
      BY <2>1 DEF Nothing, Pending
    <2>3. NoPacket \in [step : {"none", "lookup", "issue"}, cached : BOOLEAN,
                        cfs : 0..CfsPerCycle]
      BY <2>1 DEF NoPacket
    <2>4. sdCount = 0 /\ decoded = 0 /\ recovery = Nothing /\ redirect = Nothing
      BY DEF Init
    <2>5. sdCount <= Len(ops) /\ decoded \in 0..(Len(ops) - sdCount)
      BY <1>1, <2>4
    <2>6. state \in IcacheState /\ next \in IcacheState
          /\ offPath \in BOOLEAN /\ backOnPath \in BOOLEAN
          /\ lineAddr \in Lines \cup {NoLine} /\ requests \subseteq Lines
      BY DEF Init, IcacheState
    <2>7. packet = NoPacket
      BY DEF Init
    <2> QED
      BY <1>1, <1>2, <2>1, <2>2, <2>3, <2>4, <2>5, <2>6, <2>7 DEF TypeOK
  <1> QED
    BY <1>1, <1>3, FetchAssumption
    DEF Init, Inv, OffPathUntilRecovered, OnPathWrong, RecoveryIsScheduled,
        WaitEnds, RecoveryMatches, RedirectMatches, LastOpHolds, PacketFits,
        Between, NoPacket, Nothing

-----------------------------------------------------------------------------
(* Steps that leave the ops in flight as they are. *)

(* Only what is not about the ops has to be shown again. *)
LEMMA SameOps ==
  ASSUME Inv, UNCHANGED <<ops, decoded, recovery, offPath, backOnPath>>
  PROVE  /\ OffPathUntilRecovered'
         /\ RecoveryIsScheduled'
         /\ RecoveryMatches'
  BY DEF Inv, OffPathUntilRecovered, OnPathWrong, RecoveryIsScheduled,
         RecoveryMatches

LEMMA TakeKeepsInv ==
  ASSUME Inv, NEW left \in 0..(UcWidth - 1), Take(left)
  PROVE  Inv'
  <1>1. TypeOK'
    BY FetchAssumption DEF Inv, TypeOK, Take, stage, memory, settings
  <1>2. PacketFits'
    BY FetchAssumption DEF Inv, TypeOK, Take, stage, PacketFits, Between
  <1> QED
    BY <1>1, <1>2, SameOps
    DEF Inv, Take, stage, memory, WaitEnds, RedirectMatches, LastOpHolds

LEMMA FillKeepsInv ==
  ASSUME Inv, NEW l \in Lines, Fill(l)
  PROVE  Inv'
  <1>1. TypeOK'
    BY DEF Inv, TypeOK, Fill, flight, settings, IcacheState
  <1>2. /\ \/ next' = next
           \/ next' = "fetch" /\ next \in {"miss", "fetch"}
        /\ next' = "miss" => next = "miss" /\ lineAddr # l
    BY DEF Inv, PacketFits, Fill, WakesUp
  <1>3. WaitEnds'
    BY <1>2 DEF Inv, WaitEnds, Fill, flight
  <1>4. RedirectMatches' /\ LastOpHolds' /\ PacketFits'
    BY <1>2 DEF Inv, RedirectMatches, LastOpHolds, PacketFits, Fill, flight,
                Between, Width
  <1> QED
    BY <1>1, <1>3, <1>4, SameOps DEF Inv, Fill, flight

-----------------------------------------------------------------------------
(* An update of the stage, up to the choice of what it does. *)

LEMMA NewCycleKeeps ==
  ASSUME Inv, NewCycle
  PROVE  /\ recovery' \in Pending /\ redirect' \in Pending
         /\ recovery'.on = recovery.on /\ recovery'.at = recovery.at
         /\ redirect'.on = redirect.on /\ redirect'.at = redirect.at
         /\ redirect'.due = redirect.on
         /\ UNCHANGED <<lineAddr, requests, ops, sdCount, decoded>>
         /\ settings' = settings
         /\ state' = next
         /\ Between
  BY DEF Inv, TypeOK, NewCycle, memory, flight, Pending

LEMMA NewCycleKeepsTypeOK ==
  ASSUME Inv, NewCycle, next' \in IcacheState, offPath' \in BOOLEAN,
         backOnPath' \in BOOLEAN,
         packet' \in {packet, NoPacket, [NoPacket EXCEPT !.step = "lookup"]}
  PROVE  TypeOK'
  <1>1. packet' \in [step : {"none", "lookup", "issue"}, cached : BOOLEAN,
                     cfs : 0..CfsPerCycle]
    <2>1. NoPacket \in [step : {"none", "lookup", "issue"}, cached : BOOLEAN,
                        cfs : 0..CfsPerCycle]
      BY FetchAssumption DEF NoPacket
    <2>2. [NoPacket EXCEPT !.step = "lookup"]
            \in [step : {"none", "lookup", "issue"}, cached : BOOLEAN,
                cfs : 0..CfsPerCycle]
      BY <2>1
    <2> QED
      BY <2>1, <2>2 DEF Inv, TypeOK
  <1> QED
    BY <1>1, NewCycleKeeps DEF Inv, TypeOK

LEMMA NewCycleKeepsRecovery ==
  ASSUME Inv, NewCycle, (offPath' /\ ~backOnPath') <=> (offPath /\ ~backOnPath)
  PROVE  OffPathUntilRecovered' /\ RecoveryIsScheduled' /\ RecoveryMatches'
  BY NewCycleKeeps
  DEF Inv, OffPathUntilRecovered, OnPathWrong, RecoveryIsScheduled,
      RecoveryMatches

LEMMA FetchNothingKeepsInv ==
  ASSUME Inv, FetchNothing
  PROVE  Inv'
  <1>1. NewCycle /\ UNCHANGED <<next, offPath, backOnPath, packet>>
    BY DEF FetchNothing
  <1>2. TypeOK'
    BY <1>1, NewCycleKeepsTypeOK DEF Inv, TypeOK
  <1>3. WaitEnds' /\ RedirectMatches' /\ LastOpHolds' /\ PacketFits'
    BY <1>1, NewCycleKeeps
    DEF Inv, WaitEnds, RedirectMatches, LastOpHolds, PacketFits, Between
  <1> QED
    BY <1>1, <1>2, <1>3, NewCycleKeepsRecovery DEF Inv

LEMMA WaitOverKeepsInv ==
  ASSUME Inv, WaitOver
  PROVE  Inv'
  <1>1. NewCycle /\ next' = "fetch" /\ UNCHANGED <<offPath, backOnPath, packet>>
    BY DEF WaitOver
  <1>2. TypeOK'
    BY <1>1, NewCycleKeepsTypeOK DEF Inv, TypeOK, IcacheState
  <1>3. next \in {"timer", "switch"} \/ (next = "emptyRob" /\ ops = <<>>)
    BY DEF WaitOver
  <1>4. Len(<<>>) = 0
    BY EmptySeq
  <1>5. RedirectMatches' /\ LastOpHolds'
    BY <1>1, <1>3, <1>4, NewCycleKeeps DEF Inv, RedirectMatches, LastOpHolds
  <1>6. WaitEnds' /\ PacketFits'
    BY <1>1, <1>3, NewCycleKeeps DEF Inv, WaitEnds, PacketFits, Between
  <1> QED
    BY <1>1, <1>2, <1>5, <1>6, NewCycleKeepsRecovery DEF Inv

LEMMA StartFetchKeepsInv ==
  ASSUME Inv, StartFetch
  PROVE  Inv'
  <1>1. /\ NewCycle /\ next = "fetch" /\ next' = "fetch" /\ sdCount = 0
        /\ offPath' = (offPath /\ ~backOnPath) /\ backOnPath' = FALSE
        /\ packet' \in {NoPacket, [NoPacket EXCEPT !.step = "lookup"]}
    BY DEF StartFetch
  <1>2. offPath' \in BOOLEAN /\ backOnPath' \in BOOLEAN /\ next' \in IcacheState
    BY <1>1 DEF Inv, TypeOK, IcacheState
  <1>3. TypeOK'
    BY <1>1, <1>2, NewCycleKeepsTypeOK
  <1>4. OffPathUntilRecovered' /\ RecoveryIsScheduled' /\ RecoveryMatches'
    BY <1>1, NewCycleKeepsRecovery
  <1>5. WaitEnds' /\ RedirectMatches' /\ LastOpHolds'
    BY <1>1, NewCycleKeeps DEF Inv, WaitEnds, RedirectMatches, LastOpHolds
  <1>6. packet'.cfs = 0 /\ Width' \in {IcWidth, UcWidth}
    BY <1>1 DEF NoPacket, Width
  <1>7. PacketFits'
    BY <1>1, <1>6, NewCycleKeeps, FetchAssumption DEF Inv, PacketFits
  <1> QED
    BY <1>3, <1>4, <1>5, <1>7 DEF Inv

-----------------------------------------------------------------------------
(* Lookups. *)

LEMMA LookupHitKeepsInv ==
  ASSUME Inv, NEW inUc \in BOOLEAN, LookupHit(inUc)
  PROVE  Inv'
  <1>1. UNCHANGED <<stage, memory, flight, recovery, redirect, settings>>
    BY DEF LookupHit
  <1>2. /\ packet' = [step |-> "issue", cached |-> Cached(inUc), cfs |-> packet.cfs]
        /\ packet.cached => Cached(inUc)
        /\ Cached(inUc) \in BOOLEAN
    BY DEF LookupHit, Cached, Inv, TypeOK
  <1>3. TypeOK'
    BY <1>1, <1>2 DEF Inv, TypeOK, stage, memory, flight
  <1>4. ~Between
    BY DEF LookupHit, Between
  <1>5. PacketFits'
    BY <1>1, <1>2, <1>4, FetchAssumption
    DEF Inv, PacketFits, Width, stage, flight, TypeOK
  <1> QED
    BY <1>1, <1>3, <1>5, SameOps
    DEF Inv, WaitEnds, RedirectMatches, LastOpHolds, stage, memory, flight

LEMMA MissesKeepInv ==
  ASSUME Inv, Misses,
         \/ UNCHANGED <<ops, sdCount, decoded, lineAddr, requests, next>>
         \/ \E l \in Lines : MissAccepted(l)
  PROVE  Inv'
  <1>1. packet' = NoPacket /\ ~Between /\ next = "fetch" /\ state = "fetch"
    BY DEF Inv, PacketFits, Misses, Between
  <1>2. /\ UNCHANGED <<state, offPath, backOnPath, ops, sdCount, decoded, recovery,
                       redirect, settings>>
        /\ next' \in {"fetch", "miss"}
        /\ next' = "miss" => lineAddr' \in requests'
        /\ lineAddr' \in Lines \cup {NoLine} /\ requests' \subseteq Lines
    BY <1>1 DEF Misses, MissAccepted, Inv, TypeOK, flight
  <1>3. NoPacket \in [step : {"none", "lookup", "issue"}, cached : BOOLEAN,
                      cfs : 0..CfsPerCycle]
    BY FetchAssumption DEF NoPacket
  <1>4. TypeOK'
    BY <1>1, <1>2, <1>3 DEF Inv, TypeOK, IcacheState
  <1>5. Between'
    BY <1>1 DEF Between, NoPacket
  <1>6. WaitEnds' /\ RedirectMatches' /\ LastOpHolds' /\ PacketFits'
    BY <1>1, <1>2, <1>5 DEF Inv, WaitEnds, RedirectMatches, LastOpHolds, PacketFits
  <1> QED
    BY <1>2, <1>4, <1>6, SameOps DEF Inv

-----------------------------------------------------------------------------
(* What is known of the ops in flight. *)

LEMMA OpsTyped ==
  ASSUME TypeOK
  PROVE  /\ ops \in Seq(FlightOp) /\ Len(ops) \in Nat
         /\ \A i \in 1..Len(ops) : ops[i] \in FlightOp
         /\ sdCount \in Nat /\ decoded \in Nat /\ decoded + sdCount <= Len(ops)
         /\ recovery.at \in Nat /\ redirect.at \in Nat
         /\ Capacity \in Nat /\ UcWidth \in Nat
  <1>1. ops \in Seq(FlightOp)
    BY DEF TypeOK
  <1>2. Len(ops) \in Nat /\ \A i \in 1..Len(ops) : ops[i] \in FlightOp
    BY <1>1, LenProperties, ElementOfSeq
  <1>3. recovery.at \in Nat /\ redirect.at \in Nat
    BY FetchAssumption DEF TypeOK, Pending, Positions
  <1> QED
    BY <1>1, <1>2, <1>3, FetchAssumption DEF TypeOK

(* A position that decode has passed can be recorded. *)
LEMMA DecodedPosition ==
  ASSUME Inv, NEW i \in Nat, i <= Len(ops) - sdCount
  PROVE  /\ i \in Positions
         /\ [on |-> TRUE, due |-> FALSE, at |-> i] \in Pending
  <1>1. i \in Positions
    BY OpsTyped DEF Inv, PacketFits, Positions
  <1> QED
    BY <1>1 DEF Pending

(* Of the ops with a wrong prediction the one of the program is the first. *)
LEMMA FirstWrongIsOnPath ==
  ASSUME Inv, NEW i \in 1..Len(ops), ops[i].wrong, NEW k \in OnPathWrong
  PROVE  k <= i
  <1>1. SUFFICES ASSUME i < k
                 PROVE  FALSE
    BY OpsTyped DEF OnPathWrong, Inv
  <1>2. ~ops[k].offPath /\ k \in 1..Len(ops)
    BY DEF OnPathWrong
  <1>3. i \notin OnPathWrong
    BY <1>1, <1>2 DEF Inv, OffPathUntilRecovered
  <1>4. ops[i].offPath
    BY <1>3 DEF OnPathWrong
  <1>5. PICK j \in OnPathWrong : j < i
    BY <1>4 DEF Inv, OffPathUntilRecovered
  <1>6. j < k
    BY <1>1, <1>5, OpsTyped DEF OnPathWrong, Inv
  <1> QED
    BY <1>2, <1>6, <1>5 DEF Inv, OffPathUntilRecovered

-----------------------------------------------------------------------------
(* The redirect. *)

LEMMA RedirectKeepsInv ==
  ASSUME Inv, Redirect
  PROVE  Inv'
  <1> DEFINE r == redirect.at
  <1>1. /\ Between /\ redirect.on /\ redirect.due
        /\ redirect' = Nothing /\ next' = "fetch"
        /\ backOnPath' = (r = 0 \/ ~(ops[r].offPath \/ ops[r].wrong))
        /\ UNCHANGED <<state, offPath, lineAddr, requests, ops, sdCount, decoded,
                       recovery, packet, settings>>
    BY DEF Redirect, memory, flight
  <1>2. /\ state = "redirect" /\ next = "redirect" /\ r = Len(ops)
        /\ r > 0 => ops[r].resolver = "none"
    BY <1>1, OpsTyped, EmptySeq DEF Inv, RedirectMatches
  <1>3. Nothing \in Pending /\ Nothing.at = 0 /\ ~Nothing.on /\ ~Nothing.due
    BY FetchAssumption DEF Nothing, Pending, Positions
  <1>3a. r \in Nat
    BY OpsTyped DEF Inv
  <1>4. TypeOK'
    <2>1. backOnPath' \in BOOLEAN /\ next' \in IcacheState
      BY <1>1 DEF IcacheState
    <2>2. redirect' \in Pending /\ redirect'.at <= decoded
      BY <1>1, <1>3, OpsTyped DEF Inv
    <2> QED
      BY <1>1, <2>1, <2>2 DEF Inv, TypeOK
  <1>5. OffPathUntilRecovered'
    <2>1. (offPath /\ ~backOnPath') <=> OnPathWrong # {}
      <3>1. CASE r = 0
        <4>1. OnPathWrong = {}
          BY <1>2, <3>1 DEF OnPathWrong
        <4> QED
          BY <1>1, <3>1, <4>1
      <3>2. CASE r > 0 /\ ops[r].offPath
        <4>1. ~backOnPath'
          <5>1. r # 0
            BY <1>3a, <3>2
          <5> QED
            BY <1>1, <3>2, <5>1, Zenon
        <4>2. OnPathWrong # {}
          BY <1>2, <3>2, OpsTyped DEF Inv, OffPathUntilRecovered
        <4> QED
          BY <4>1, <4>2 DEF Inv, OffPathUntilRecovered
      <3>3. CASE r > 0 /\ ~ops[r].offPath /\ ops[r].wrong
        <4>1. ~backOnPath'
          <5>1. r # 0
            BY <1>3a, <3>3
          <5> QED
            BY <1>1, <3>3, <5>1, Zenon
        <4>2. r \in OnPathWrong
          BY <1>2, <3>3, OpsTyped DEF OnPathWrong, Inv
        <4> QED
          BY <4>1, <4>2 DEF Inv, OffPathUntilRecovered
      <3>4. CASE r > 0 /\ ~ops[r].offPath /\ ~ops[r].wrong
        <4>1. \A j \in OnPathWrong : j < r
          BY <1>2, <3>4, OpsTyped DEF OnPathWrong, Inv
        <4>2. OnPathWrong = {}
          <5>1. r \in 1..Len(ops)
            BY <1>2, <3>4, OpsTyped DEF Inv
          <5>2. ~\E j \in OnPathWrong : j < r
            BY <3>4, <5>1 DEF Inv, OffPathUntilRecovered
          <5> QED
            BY <4>1, <5>2
        <4> QED
          BY <1>1, <3>4, <4>2
      <3> QED
        BY <3>1, <3>2, <3>3, <3>4, OpsTyped DEF Inv
    <2>2. OnPathWrong' = OnPathWrong
      BY <1>1 DEF OnPathWrong
    <2> QED
      BY <1>1, <2>1, <2>2 DEF Inv, OffPathUntilRecovered
  <1>6. RecoveryIsScheduled' /\ RecoveryMatches' /\ WaitEnds' /\ RedirectMatches'
    BY <1>1, <1>3
    DEF Inv, RecoveryIsScheduled, OnPathWrong, RecoveryMatches, WaitEnds,
        RedirectMatches
  <1>7. LastOpHolds' /\ PacketFits'
    BY <1>1, <1>2, OpsTyped DEF Inv, LastOpHolds, PacketFits, Between
  <1> QED
    BY <1>4, <1>5, <1>6, <1>7 DEF Inv

-----------------------------------------------------------------------------
(* The recovery: the ops after the recovering one leave, and it is now     *)
(* right.                                                                  *)

LEMMA RecoverEffect ==
  ASSUME Inv, Recover, NEW r, r = recovery.at
  PROVE  /\ r \in 1..Len(ops) /\ r <= decoded
         /\ ops[r].wrong /\ ops[r].done
         /\ ops' \in Seq(FlightOp) /\ Len(ops') = r
         /\ \A i \in 1..r :
              /\ ops'[i].wrong <=> ops[i].wrong /\ i # r
              /\ ops'[i].offPath = ops[i].offPath
              /\ ops'[i].resolver = ops[i].resolver
              /\ ops'[i].done = ops[i].done
              /\ ops'[i].barrier = ops[i].barrier
         /\ sdCount' = 0 /\ decoded' = r
  <1>1. r \in 1..Len(ops) /\ r <= decoded
    BY OpsTyped DEF Recover, Inv, RecoveryMatches, TypeOK
  <1>2. ops[r].wrong /\ ops[r].done
    BY DEF Recover, Inv, RecoveryMatches
  <1>3. /\ SubSeq(ops, 1, r) \in Seq(FlightOp)
        /\ Len(SubSeq(ops, 1, r)) = r
        /\ \A i \in 1..r : SubSeq(ops, 1, r)[i] = ops[i]
    <2>1. \A i \in 1..r : ops[i] \in FlightOp
      BY <1>1, OpsTyped DEF Inv
    <2>2. r \in Int /\ 1 \in Int /\ 1 <= r
      BY <1>1, OpsTyped DEF Inv
    <2>3. /\ SubSeq(ops, 1, r) \in Seq(FlightOp)
          /\ Len(SubSeq(ops, 1, r)) = (IF 1 <= r THEN r - 1 + 1 ELSE 0)
          /\ \A i \in 1..(r - 1 + 1) : SubSeq(ops, 1, r)[i] = ops[1 + i - 1]
      BY <2>1, <2>2, SubSeqProperties
    <2> QED
      BY <2>2, <2>3
  <1>4. [ops[r] EXCEPT !.wrong = FALSE] \in FlightOp
    BY <1>1, OpsTyped DEF FlightOp, Inv
  <1>5. ops' = [SubSeq(ops, 1, r) EXCEPT ![r] = [ops[r] EXCEPT !.wrong = FALSE]]
    <2>1. ops' = [SubSeq(ops, 1, r) EXCEPT ![r].wrong = FALSE]
      BY DEF Recover
    <2>2. SubSeq(ops, 1, r)[r] = ops[r]
      BY <1>1, <1>3, OpsTyped DEF Inv
    <2> QED
      BY <2>1, <2>2
  <1>6. /\ ops' \in Seq(FlightOp) /\ Len(ops') = r
        /\ \A i \in 1..r : ops'[i] = IF i = r THEN [ops[r] EXCEPT !.wrong = FALSE]
                                     ELSE ops[i]
    <2> DEFINE s == SubSeq(ops, 1, r)
               e == [ops[r] EXCEPT !.wrong = FALSE]
    <2>1. s \in Seq(FlightOp) /\ Len(s) = r /\ r \in 1..Len(s) /\ e \in FlightOp
      BY <1>1, <1>3, <1>4, OpsTyped DEF Inv
    <2>2. ops' = [s EXCEPT ![r] = e] /\ \A i \in 1..r : s[i] = ops[i]
      BY <1>3, <1>5
    <2> HIDE DEF s, e
    <2>3. /\ ops' \in Seq(FlightOp) /\ Len(ops') = r
          /\ \A i \in 1..r : ops'[i] = IF i = r THEN e ELSE s[i]
      BY <2>1, <2>2, ExceptSeq
    <2> QED
      BY <2>2, <2>3 DEF e
  <1>7. sdCount' = 0 /\ decoded' = r
    <2>1. sdCount - (Len(ops) - r) <= 0 /\ decoded >= r
      BY <1>1, OpsTyped DEF Inv
    <2>2. sdCount' = Max({0, sdCount - (Len(ops) - r)})
          /\ decoded' = Min({decoded, r})
      BY DEF Recover
    <2>3. sdCount - (Len(ops) - r) \in Int /\ decoded \in Int /\ r \in Int
      BY <1>1, OpsTyped DEF Inv
    <2> QED
      BY <2>1, <2>2, <2>3, MaxOfTwo, MinOfTwo
  <1>8. \A i \in 1..r : ops[i] \in FlightOp
    BY <1>1, OpsTyped DEF Inv
  <1>9. \A i \in 1..r :
          /\ ops'[i].wrong <=> ops[i].wrong /\ i # r
          /\ ops'[i].offPath = ops[i].offPath
          /\ ops'[i].resolver = ops[i].resolver
          /\ ops'[i].done = ops[i].done
          /\ ops'[i].barrier = ops[i].barrier
    <2> SUFFICES ASSUME NEW i \in 1..r
                 PROVE  /\ ops'[i].wrong <=> ops[i].wrong /\ i # r
                        /\ ops'[i].offPath = ops[i].offPath
                        /\ ops'[i].resolver = ops[i].resolver
                        /\ ops'[i].done = ops[i].done
                        /\ ops'[i].barrier = ops[i].barrier
      OBVIOUS
    <2>1. CASE i = r
      <3>1. ops'[i] = [ops[i] EXCEPT !.wrong = FALSE] /\ ops[i] \in FlightOp
        BY <1>6, <1>8, <2>1
      <3> QED
        BY <2>1, <3>1 DEF FlightOp
    <2>2. CASE i # r
      BY <1>6, <2>2
    <2> QED
      BY <2>1, <2>2
  <1> QED
    BY <1>1, <1>2, <1>6, <1>7, <1>9

LEMMA RecoverKeepsInv ==
  ASSUME Inv, Recover
  PROVE  Inv'
  <1> DEFINE r == recovery.at
  <1>1. /\ Between /\ recovery' = Nothing /\ redirect' = Nothing
        /\ backOnPath' = ~ops[r].offPath
        /\ next' = "fetch" \/ (next' = "miss" /\ next = "miss")
        /\ UNCHANGED <<state, offPath, lineAddr, requests, packet, settings>>
    BY DEF Recover, CancelRedirect, RecoverPath, RecoverNext, memory
  <1>2. /\ r \in 1..Len(ops) /\ r <= decoded
        /\ ops[r].wrong /\ ops[r].done
        /\ ops' \in Seq(FlightOp) /\ Len(ops') = r
        /\ \A i \in 1..r :
             /\ ops'[i].wrong <=> ops[i].wrong /\ i # r
             /\ ops'[i].offPath = ops[i].offPath
             /\ ops'[i].resolver = ops[i].resolver
             /\ ops'[i].done = ops[i].done
             /\ ops'[i].barrier = ops[i].barrier
        /\ sdCount' = 0 /\ decoded' = r
    BY RecoverEffect
  <1>3. ops[r] \in FlightOp /\ recovery.on
    BY <1>2, OpsTyped DEF Inv, Recover
  <1>4. r \in Nat /\ r > 0 /\ Len(ops) \in Nat /\ r <= Len(ops)
    BY <1>2, OpsTyped DEF Inv
  <1>5. OnPathWrong' = {i \in OnPathWrong : i < r}
    <2>1. \A i : i \in OnPathWrong' <=> i \in 1..r /\ ops[i].wrong /\ i # r
                                       /\ ~ops[i].offPath
      BY <1>2 DEF OnPathWrong
    <2>2. \A i : i \in OnPathWrong <=> i \in 1..Len(ops) /\ ops[i].wrong
                                       /\ ~ops[i].offPath
      BY DEF OnPathWrong
    <2>3. \A i : i \in 1..r /\ i # r <=> i \in 1..Len(ops) /\ i < r
      BY <1>4
    <2> QED
      BY <2>1, <2>2, <2>3
  <1>6. r <= Capacity
    BY <1>2, OpsTyped DEF Inv, PacketFits
  <1>7. Nothing \in Pending /\ Nothing.at = 0 /\ ~Nothing.on /\ ~Nothing.due
    BY FetchAssumption DEF Nothing, Pending, Positions
  <1>8. TypeOK'
    <2>1. backOnPath' \in BOOLEAN /\ next' \in IcacheState
      BY <1>1, <1>3 DEF IcacheState
    <2>2. sdCount' \in 0..UcWidth /\ sdCount' <= Len(ops')
          /\ decoded' \in 0..(Len(ops') - sdCount')
      BY <1>2, OpsTyped DEF Inv
    <2>3. recovery' \in Pending /\ recovery'.at <= decoded'
          /\ redirect' \in Pending /\ redirect'.at <= decoded'
      BY <1>1, <1>2, <1>7, OpsTyped DEF Inv
    <2> QED
      BY <1>1, <1>2, <2>1, <2>2, <2>3 DEF Inv, TypeOK
  <1>9. OffPathUntilRecovered'
    <2>1. (offPath' /\ ~backOnPath') <=> OnPathWrong' # {}
      <3>1. CASE ops[r].offPath
        <4>1. PICK j \in OnPathWrong : j < r
          BY <1>2, <3>1 DEF Inv, OffPathUntilRecovered
        <4>2. OnPathWrong' # {} /\ OnPathWrong # {}
          BY <1>5, <4>1
        <4> QED
          BY <1>1, <3>1, <4>2 DEF Inv, OffPathUntilRecovered
      <3>2. CASE ~ops[r].offPath
        <4>1. r \in OnPathWrong
          BY <1>2, <3>2 DEF OnPathWrong
        <4>2. \A k \in OnPathWrong : k \in 1..Len(ops) /\ ops[k].wrong
          BY DEF OnPathWrong
        <4>3. \A k \in OnPathWrong : r <= k
          BY <4>1, <4>2, FirstWrongIsOnPath
        <4>4. OnPathWrong' = {}
          BY <1>2, <1>5, <4>2, <4>3, OpsTyped DEF Inv
        <4> QED
          BY <1>1, <3>2, <4>4
      <3> QED
        BY <3>1, <3>2
    <2>2. \A i \in 1..r : (\E j \in OnPathWrong' : j < i)
                            <=> (\E j \in OnPathWrong : j < i)
      <3>1. \A j \in OnPathWrong : j \in Int
        BY <1>4 DEF OnPathWrong
      <3> QED
        BY <1>4, <1>5, <3>1
    <2>3. \A i \in 1..r : ops[i].offPath <=> \E j \in OnPathWrong : j < i
      BY <1>4 DEF Inv, OffPathUntilRecovered
    <2> QED
      BY <1>2, <2>1, <2>2, <2>3 DEF OffPathUntilRecovered
  <1>10. RecoveryIsScheduled'
    <2>1. \A k \in OnPathWrong' : k \in OnPathWrong /\ k # r /\ k \in 1..r
      BY <1>4, <1>5 DEF OnPathWrong
    <2>2. \A k \in OnPathWrong' : ~ops[k].done
      BY <2>1 DEF Inv, RecoveryIsScheduled
    <2> QED
      BY <1>2, <2>1, <2>2 DEF RecoveryIsScheduled
  <1>11. RecoveryMatches' /\ RedirectMatches'
    BY <1>1, <1>7 DEF RecoveryMatches, RedirectMatches
  <1>12. WaitEnds'
    BY <1>1 DEF Inv, WaitEnds
  <1>13. LastOpHolds'
    <2>1. \A i \in 1..r : ops[i].resolver = "none" /\ ~ops[i].barrier
      BY <1>2, OpsTyped DEF Inv, LastOpHolds
    <2> QED
      BY <1>2, <2>1 DEF LastOpHolds
  <1>14. PacketFits'
    BY <1>1, <1>2, <1>6, OpsTyped DEF Inv, PacketFits, Between
  <1> QED
    BY <1>8, <1>9, <1>10, <1>11, <1>12, <1>13, <1>14 DEF Inv

-----------------------------------------------------------------------------
(* An op that passes decode or is executed keeps its path, its prediction  *)
(* and whether it is a barrier.                                            *)

LEMMA ResolveEffect ==
  ASSUME Inv, NEW i \in 1..Len(ops), NEW d \in BOOLEAN,
         ops' = [ops EXCEPT ![i] = [ops[i] EXCEPT !.done = d, !.resolver = "none"]]
  PROVE  /\ ops' \in Seq(FlightOp) /\ Len(ops') = Len(ops)
         /\ ops'[i].resolver = "none" /\ ops'[i].done = d
         /\ \A j \in 1..Len(ops) : j # i => ops'[j] = ops[j]
         /\ \A j \in 1..Len(ops) :
              /\ ops'[j].wrong = ops[j].wrong
              /\ ops'[j].offPath = ops[j].offPath
              /\ ops'[j].barrier = ops[j].barrier
         /\ OnPathWrong' = OnPathWrong
  <1> DEFINE e == [ops[i] EXCEPT !.done = d, !.resolver = "none"]
  <1>1. ops[i] \in FlightOp /\ ops \in Seq(FlightOp)
    BY OpsTyped DEF Inv
  <1>2. /\ e \in FlightOp /\ e.resolver = "none" /\ e.done = d
        /\ e.wrong = ops[i].wrong /\ e.offPath = ops[i].offPath
        /\ e.barrier = ops[i].barrier
    BY <1>1 DEF FlightOp, Resolver
  <1> HIDE DEF e
  <1>3. ops' = [ops EXCEPT ![i] = e]
    BY DEF e
  <1>4. /\ ops' \in Seq(FlightOp) /\ Len(ops') = Len(ops)
        /\ \A j \in 1..Len(ops) : ops'[j] = IF j = i THEN e ELSE ops[j]
    BY <1>1, <1>2, <1>3, ExceptSeq
  <1>5. \A j \in 1..Len(ops) :
          /\ ops'[j].wrong = ops[j].wrong
          /\ ops'[j].offPath = ops[j].offPath
          /\ ops'[j].barrier = ops[j].barrier
    BY <1>2, <1>4
  <1>6. OnPathWrong' = OnPathWrong
    BY <1>4, <1>5 DEF OnPathWrong
  <1> QED
    BY <1>2, <1>4, <1>5, <1>6

(* So the marking of the wrong path stays as it is. *)
LEMMA ResolveKeepsPath ==
  ASSUME Inv, UNCHANGED <<offPath, backOnPath, OnPathWrong>>, Len(ops') = Len(ops),
         \A j \in 1..Len(ops) : ops'[j].offPath = ops[j].offPath
  PROVE  OffPathUntilRecovered'
  BY DEF Inv, OffPathUntilRecovered

(* Of an op that is to resteer fetch nothing else has been scheduled. *)
LEMMA ResolverIsLast ==
  ASSUME Inv, NEW i \in 1..Len(ops), ops[i].resolver # "none"
  PROVE  i = Len(ops) /\ next = "redirect" /\ ~redirect.on
  BY OpsTyped DEF Inv, LastOpHolds, RedirectMatches

LEMMA DecodeKeepsInv ==
  ASSUME Inv, Decode
  PROVE  Inv'
  <1> DEFINE i == decoded + 1
  <1>1. /\ Between /\ i <= Len(ops) - sdCount /\ decoded' = i
        /\ UNCHANGED <<state, next, offPath, backOnPath, lineAddr, requests, sdCount,
                       recovery, packet, settings>>
    BY DEF Decode, stage, memory
  <1>2. i \in 1..Len(ops) /\ i \in Nat
    BY <1>1, OpsTyped DEF Inv
  <1>3. CASE ops[i].resolver = "decode"
    <2>1. i = Len(ops) /\ next = "redirect" /\ ~redirect.on
      BY <1>2, <1>3, ResolverIsLast
    <2>2. /\ ops' = [ops EXCEPT ![i].resolver = "none"]
          /\ redirect' = [on |-> TRUE, due |-> FALSE, at |-> i]
      BY <1>3, <2>1 DEF Decode, SchedRedirect
    <2>3. ops[i] \in FlightOp
      BY <1>2, OpsTyped DEF Inv
    <2>4. [ops[i] EXCEPT !.resolver = "none"]
            = [ops[i] EXCEPT !.done = ops[i].done, !.resolver = "none"]
      BY <2>3 DEF FlightOp
    <2>5. ops' = [ops EXCEPT ![i] =
                    [ops[i] EXCEPT !.done = ops[i].done, !.resolver = "none"]]
      BY <2>2, <2>4
    <2>6. ops[i].done \in BOOLEAN
      BY <2>3 DEF FlightOp
    <2> HIDE DEF i
    <2>7. /\ ops' \in Seq(FlightOp) /\ Len(ops') = Len(ops)
          /\ ops'[i].resolver = "none" /\ ops'[i].done = ops[i].done
          /\ \A j \in 1..Len(ops) : j # i => ops'[j] = ops[j]
          /\ \A j \in 1..Len(ops) :
               /\ ops'[j].wrong = ops[j].wrong
               /\ ops'[j].offPath = ops[j].offPath
               /\ ops'[j].barrier = ops[j].barrier
          /\ OnPathWrong' = OnPathWrong
      BY <1>2, <2>5, <2>6, ResolveEffect
    <2>8. redirect' \in Pending
      BY <1>1, <1>2, <2>2, DecodedPosition
    <2>9. TypeOK'
      BY <1>1, <1>2, <2>2, <2>7, <2>8, OpsTyped DEF i, Inv, TypeOK
    <2>10. OffPathUntilRecovered'
      BY <1>1, <2>7, ResolveKeepsPath
    <2>11. \A j \in 1..Len(ops) : ops'[j].done = ops[j].done
      BY <2>7
    <2>12. RecoveryIsScheduled' /\ RecoveryMatches'
      <3>1. \A k \in OnPathWrong : k \in 1..Len(ops)
        BY DEF OnPathWrong
      <3>2. recovery.on => recovery.at \in 1..Len(ops)
        BY OpsTyped DEF Inv, RecoveryMatches, TypeOK
      <3> QED
        BY <1>1, <2>7, <2>11, <3>1, <3>2
        DEF Inv, RecoveryIsScheduled, RecoveryMatches
    <2>13. WaitEnds' /\ RedirectMatches' /\ PacketFits'
      BY <1>1, <2>1, <2>2, <2>7
      DEF Inv, WaitEnds, RedirectMatches, PacketFits, Between
    <2>14. LastOpHolds'
      BY <1>1, <1>2, <2>1, <2>7, <2>11, OpsTyped DEF i, Inv, LastOpHolds
    <2> QED
      BY <2>9, <2>10, <2>12, <2>13, <2>14 DEF Inv
  <1>4. CASE ops[i].resolver # "decode"
    <2>1. UNCHANGED <<ops, redirect>>
      BY <1>4 DEF Decode
    <2>2. TypeOK'
      BY <1>1, <1>2, <2>1, OpsTyped DEF Inv, TypeOK
    <2>3. OffPathUntilRecovered' /\ RecoveryIsScheduled' /\ RecoveryMatches'
      BY <1>1, <2>1
      DEF Inv, OffPathUntilRecovered, RecoveryIsScheduled, RecoveryMatches, OnPathWrong
    <2>4. WaitEnds' /\ RedirectMatches' /\ PacketFits'
      BY <1>1, <2>1 DEF Inv, WaitEnds, RedirectMatches, PacketFits, Between
    <2>5. LastOpHolds'
      BY <1>1, <1>2, <1>4, <2>1, OpsTyped DEF Inv, LastOpHolds
    <2> QED
      BY <2>2, <2>3, <2>4, <2>5 DEF Inv
  <1> QED
    BY <1>3, <1>4

-----------------------------------------------------------------------------
(* Execution.  Ops execute in any order; of those with a wrong prediction  *)
(* the one of the program is the oldest, so its recovery replaces the      *)
(* others and is replaced by none.                                         *)

LEMMA ExecRecovery ==
  ASSUME Inv, NEW i \in 1..Len(ops), ops[i].wrong, ~ops[i].done,
         SchedRecovery(i), OnPathWrong' = OnPathWrong,
         \A j \in 1..Len(ops) : j # i => ops'[j].done = ops[j].done
  PROVE  RecoveryIsScheduled'
  <1>1. \A k \in OnPathWrong : k \in 1..Len(ops) /\ ops[k].wrong /\ k <= i
    BY FirstWrongIsOnPath DEF OnPathWrong
  <1>2. SUFFICES ASSUME NEW k \in OnPathWrong, ops'[k].done
                 PROVE  recovery'.on /\ recovery'.at = k
    BY DEF RecoveryIsScheduled
  <1>3. recovery.on => /\ recovery.at \in 1..Len(ops) /\ ops[recovery.at].wrong
                       /\ recovery.at # i
    BY OpsTyped DEF Inv, RecoveryMatches, TypeOK
  <1>4. CASE k = i
    <2>1. recovery.on => i <= recovery.at
      BY <1>3, <1>4, FirstWrongIsOnPath
    <2> QED
      BY <1>4, <2>1 DEF SchedRecovery
  <1>5. CASE k # i
    <2>1. ops[k].done
      BY <1>1, <1>2, <1>5
    <2>2. recovery.on /\ recovery.at = k
      BY <2>1 DEF Inv, RecoveryIsScheduled
    <2>3. k < i
      BY <1>1, <1>5
    <2> QED
      BY <2>2, <2>3, <1>1 DEF SchedRecovery
  <1> QED
    BY <1>4, <1>5

LEMMA ExecKeepsInv ==
  ASSUME Inv, NEW i \in 1..decoded, Exec(i)
  PROVE  Inv'
  <1>1. /\ Between /\ ~ops[i].done
        /\ UNCHANGED <<state, next, offPath, backOnPath, lineAddr, requests, sdCount,
                       decoded, packet, settings>>
    BY DEF Exec, stage, memory
  <1>2. i \in 1..Len(ops) /\ i \in Nat /\ i <= Len(ops) - sdCount
    BY OpsTyped DEF Inv
  <1>3. ops' = [ops EXCEPT ![i] = [ops[i] EXCEPT !.done = TRUE, !.resolver = "none"]]
    <2>1. ops' = [ops EXCEPT ![i].done = TRUE, ![i].resolver = "none"]
      BY DEF Exec
    <2>2. ops \in Seq(FlightOp) /\ ops[i] \in FlightOp
      BY <1>2, OpsTyped DEF Inv
    <2> QED
      BY <1>2, <2>1, <2>2 DEF FlightOp
  <1>4. /\ ops' \in Seq(FlightOp) /\ Len(ops') = Len(ops)
        /\ ops'[i].resolver = "none" /\ ops'[i].done = TRUE
        /\ \A j \in 1..Len(ops) : j # i => ops'[j] = ops[j]
        /\ \A j \in 1..Len(ops) :
             /\ ops'[j].wrong = ops[j].wrong
             /\ ops'[j].offPath = ops[j].offPath
             /\ ops'[j].barrier = ops[j].barrier
        /\ OnPathWrong' = OnPathWrong
    BY <1>2, <1>3, ResolveEffect
  <1>5. [on |-> TRUE, due |-> FALSE, at |-> i] \in Pending
    BY <1>2, DecodedPosition
  <1>6. recovery' \in {recovery, [on |-> TRUE, due |-> FALSE, at |-> i]}
        /\ redirect' \in {redirect, [on |-> TRUE, due |-> FALSE, at |-> i]}
    BY DEF Exec, SchedRecovery, SchedRedirect
  <1>7. TypeOK'
    <2>1. recovery' \in Pending /\ recovery'.at <= decoded
          /\ redirect' \in Pending /\ redirect'.at <= decoded
      <3>1. i <= decoded
        BY OpsTyped DEF Inv
      <3>2. recovery \in Pending /\ recovery.at <= decoded
            /\ redirect \in Pending /\ redirect.at <= decoded
        BY DEF Inv, TypeOK
      <3>3. [on |-> TRUE, due |-> FALSE, at |-> i].at <= decoded
        BY <3>1
      <3> QED
        BY <1>5, <1>6, <3>2, <3>3
    <2> QED
      BY <1>1, <1>4, <2>1 DEF Inv, TypeOK
  <1>8. OffPathUntilRecovered'
    BY <1>1, <1>4, ResolveKeepsPath
  <1>9. RecoveryIsScheduled'
    <2>1. CASE ops[i].wrong
      BY <1>1, <1>2, <1>4, <2>1, ExecRecovery DEF Exec
    <2>2. CASE ~ops[i].wrong
      <3>1. UNCHANGED recovery
        BY <2>2 DEF Exec
      <3>2. \A k \in OnPathWrong : k \in 1..Len(ops) /\ k # i
        BY <2>2 DEF OnPathWrong
      <3> QED
        BY <1>4, <3>1, <3>2 DEF Inv, RecoveryIsScheduled
    <2> QED
      BY <2>1, <2>2
  <1>10. RecoveryMatches'
    <2>1. recovery.on => recovery.at \in 1..Len(ops) /\ recovery.at # i
      BY <1>1, OpsTyped DEF Inv, RecoveryMatches, TypeOK
    <2>2. CASE UNCHANGED recovery
      BY <1>4, <2>1, <2>2 DEF Inv, RecoveryMatches
    <2>3. CASE recovery' = [on |-> TRUE, due |-> FALSE, at |-> i] /\ ops[i].wrong
      BY <1>2, <1>4, <2>3 DEF RecoveryMatches
    <2> QED
      BY <2>2, <2>3 DEF Exec, SchedRecovery
  <1>11. RedirectMatches'
    <2>1. CASE UNCHANGED redirect
      BY <1>1, <1>2, <1>4, <2>1, EmptySeq DEF Inv, RedirectMatches
    <2>2. CASE /\ redirect' = [on |-> TRUE, due |-> FALSE, at |-> i]
               /\ ops[i].resolver = "exec"
      <3>1. i = Len(ops) /\ next = "redirect"
        BY <1>2, <2>2, ResolverIsLast
      <3> QED
        BY <1>1, <1>4, <2>2, <3>1 DEF RedirectMatches
    <2> QED
      BY <2>1, <2>2 DEF Exec, SchedRedirect
  <1>12. WaitEnds'
    <2>1. next = "miss" => lineAddr \in requests
      BY DEF Inv, WaitEnds
    <2>2. ASSUME next = "redirect"
          PROVE  \/ redirect'.on \/ recovery'.on
                 \/ ops' # <<>> /\ (ops'[Len(ops')].resolver # "none" \/
                       \E j \in 1..Len(ops') : ops'[j].wrong /\ ~ops'[j].done)
      <3>1. redirect.on => redirect'.on
        BY <1>6
      <3>2. recovery.on => recovery'.on
        BY <1>6
      <3>3. ops' # <<>> /\ Len(ops) \in 1..Len(ops)
        BY <1>2, <1>4, EmptySeq
      <3>4. ASSUME ops[Len(ops)].resolver # "none"
            PROVE  ops'[Len(ops)].resolver # "none" \/ recovery'.on \/ redirect'.on
        <4>1. CASE i = Len(ops)
          <5>1. ops[i].resolver \in {"none", "exec"}
            <6>1. ops[i] \in FlightOp /\ ops[i].resolver # "decode"
              BY <1>2, OpsTyped DEF Inv, LastOpHolds
            <6> QED
              BY <6>1 DEF FlightOp, Resolver
          <5>2. ops[i].resolver = "exec" /\ ~redirect.on
            BY <1>2, <3>4, <4>1, <5>1, ResolverIsLast
          <5>3. CASE ops[i].wrong
            BY <5>3 DEF Exec, SchedRecovery
          <5>4. CASE ~ops[i].wrong
            BY <5>2, <5>4 DEF Exec, SchedRedirect
          <5> QED
            BY <5>3, <5>4
        <4>2. CASE i # Len(ops)
          BY <1>4, <3>3, <3>4, <4>2
        <4> QED
          BY <4>1, <4>2
      <3>5. ASSUME NEW j \in 1..Len(ops), ops[j].wrong, ~ops[j].done
            PROVE  (ops'[j].wrong /\ ~ops'[j].done) \/ recovery'.on
        <4>1. CASE j = i
          BY <3>5, <4>1 DEF Exec, SchedRecovery
        <4>2. CASE j # i
          BY <1>4, <3>5, <4>2
        <4> QED
          BY <4>1, <4>2
      <3> QED
        BY <1>4, <2>2, <3>1, <3>2, <3>3, <3>4, <3>5 DEF Inv, WaitEnds
    <2> QED
      BY <1>1, <2>1, <2>2 DEF WaitEnds
  <1>13. LastOpHolds'
    <2>1. \A j \in 1..Len(ops) :
            /\ ops'[j].done => ops'[j].resolver = "none"
            /\ ops'[j].resolver # "none" => ops'[j].resolver = ops[j].resolver
            /\ ops'[j].barrier = ops[j].barrier /\ ops'[j].wrong = ops[j].wrong
      BY <1>4 DEF Inv, LastOpHolds
    <2> QED
      BY <1>1, <1>4, <2>1 DEF Inv, LastOpHolds
  <1>14. PacketFits'
    BY <1>1, <1>4 DEF Inv, PacketFits, Between
  <1> QED
    BY <1>7, <1>8, <1>9, <1>10, <1>11, <1>12, <1>13, <1>14 DEF Inv

-----------------------------------------------------------------------------
(* Retirement: every position moves down by one. *)

LEMMA EarlierEffect ==
  ASSUME NEW p \in Pending
  PROVE  /\ Earlier(p).on = p.on /\ Earlier(p).due = p.due
         /\ Earlier(p).at = IF p.at > 0 THEN p.at - 1 ELSE 0
         /\ Earlier(p) \in Pending
  <1>1. p.at \in Nat /\ p.at \in Positions
    BY FetchAssumption DEF Pending, Positions
  <1>2. Max({0, p.at - 1}) = IF p.at > 0 THEN p.at - 1 ELSE 0
    BY <1>1, MaxOfTwo
  <1>3. Max({0, p.at - 1}) \in Positions
    BY <1>1, <1>2, FetchAssumption DEF Positions
  <1>4. Earlier(p) = [p EXCEPT !.at = Max({0, p.at - 1})]
    BY DEF Earlier
  <1> QED
    BY <1>2, <1>3, <1>4 DEF Pending

LEMMA RetireKeepsInv ==
  ASSUME Inv, Retire
  PROVE  Inv'
  <1>1. /\ Between /\ decoded > 0
        /\ ops[1].done /\ ~ops[1].offPath /\ ~ops[1].wrong
        /\ ops' = Tail(ops) /\ decoded' = decoded - 1
        /\ recovery' = Earlier(recovery) /\ redirect' = Earlier(redirect)
        /\ UNCHANGED <<state, next, offPath, backOnPath, lineAddr, requests, sdCount,
                       packet, settings>>
    BY DEF Retire, Retires, stage, memory
  <1> DEFINE n == Len(ops)
  <1>2. n \in Nat /\ n > 0 /\ ops # <<>>
    BY <1>1, OpsTyped, EmptySeq DEF Inv
  <1>3. /\ ops' \in Seq(FlightOp) /\ Len(ops') = n - 1
        /\ \A i \in 1..(n - 1) : ops'[i] = ops[i + 1]
    BY <1>1, <1>2, OpsTyped, HeadTailProperties DEF Inv
  <1>4. /\ recovery' \in Pending /\ recovery'.on = recovery.on
        /\ recovery'.at = IF recovery.at > 0 THEN recovery.at - 1 ELSE 0
        /\ redirect' \in Pending /\ redirect'.on = redirect.on
        /\ redirect'.due = redirect.due
        /\ redirect'.at = IF redirect.at > 0 THEN redirect.at - 1 ELSE 0
    BY <1>1, EarlierEffect DEF Inv, TypeOK
  <1>5. \A i \in 1..(n - 1) : i + 1 \in 1..n
    BY <1>2
  <1>6. \A k \in OnPathWrong : k \in 1..n /\ k # 1 /\ k - 1 \in 1..(n - 1)
    BY <1>1, <1>2 DEF OnPathWrong
  <1>7. \A i \in 1..(n - 1) : i \in OnPathWrong' <=> i + 1 \in OnPathWrong
    BY <1>3, <1>5 DEF OnPathWrong
  <1>8. \A i \in OnPathWrong' : i \in 1..(n - 1)
    BY <1>3 DEF OnPathWrong
  <1>9. \A k \in OnPathWrong : k - 1 \in OnPathWrong'
    <2>1. \A k \in OnPathWrong : k - 1 + 1 = k
      BY <1>6
    <2> QED
      BY <1>6, <1>7, <2>1
  <1>10. TypeOK'
    <2>1. decoded' \in 0..(Len(ops') - sdCount') /\ sdCount' <= Len(ops')
      BY <1>1, <1>2, <1>3, OpsTyped DEF Inv
    <2>2. recovery'.at <= decoded' /\ redirect'.at <= decoded'
      <3>1. recovery.at <= decoded /\ redirect.at <= decoded
        BY DEF Inv, TypeOK
      <3>2. recovery.at \in Nat /\ redirect.at \in Nat /\ decoded \in Nat
        BY OpsTyped DEF Inv
      <3>3. decoded' = decoded - 1 /\ decoded > 0
        BY <1>1
      <3> QED
        BY <1>4, <3>1, <3>2, <3>3
    <2> QED
      BY <1>1, <1>3, <1>4, <2>1, <2>2 DEF Inv, TypeOK
  <1>11. OffPathUntilRecovered'
    <2>1. OnPathWrong' # {} <=> OnPathWrong # {}
      BY <1>7, <1>8, <1>9
    <2>2. \A i \in 1..(n - 1) : ops'[i].offPath <=> \E j \in OnPathWrong : j < i + 1
      BY <1>3, <1>5 DEF Inv, OffPathUntilRecovered
    <2>3. \A i \in 1..(n - 1) : (\E j \in OnPathWrong : j < i + 1)
                                  <=> (\E j \in OnPathWrong' : j < i)
      <3>1. ASSUME NEW i \in 1..(n - 1), NEW j \in OnPathWrong, j < i + 1
            PROVE  j - 1 \in OnPathWrong' /\ j - 1 < i
        BY <1>2, <1>6, <1>9, <3>1
      <3>2. ASSUME NEW i \in 1..(n - 1), NEW j \in OnPathWrong', j < i
            PROVE  j + 1 \in OnPathWrong /\ j + 1 < i + 1
        BY <1>2, <1>7, <1>8, <3>2
      <3> QED
        BY <3>1, <3>2
    <2> QED
      BY <1>1, <1>3, <2>1, <2>2, <2>3 DEF Inv, OffPathUntilRecovered
  <1>12. RecoveryIsScheduled'
    <2>1. SUFFICES ASSUME NEW i \in OnPathWrong', ops'[i].done
                   PROVE  recovery'.on /\ recovery'.at = i
      BY DEF RecoveryIsScheduled
    <2>2. i \in 1..(n - 1) /\ i + 1 \in OnPathWrong /\ ops[i + 1].done
      BY <1>3, <1>7, <1>8, <2>1
    <2>3. recovery.on /\ recovery.at = i + 1
      BY <2>2 DEF Inv, RecoveryIsScheduled
    <2> QED
      BY <1>2, <1>4, <2>2, <2>3
  <1>13. RecoveryMatches'
    <2>1. recovery.on => /\ recovery.at \in 1..n /\ recovery.at # 1
                         /\ ops[recovery.at].wrong /\ ops[recovery.at].done
      BY <1>1, <1>2, OpsTyped DEF Inv, RecoveryMatches, TypeOK
    <2>2. ASSUME recovery.on
          PROVE  /\ recovery'.at \in 1..(n - 1)
                 /\ ops'[recovery'.at] = ops[recovery.at]
      <3>1. recovery'.at = recovery.at - 1 /\ recovery'.at \in 1..(n - 1)
            /\ recovery'.at + 1 = recovery.at
        BY <1>2, <1>4, <2>1, <2>2
      <3> QED
        BY <1>3, <3>1
    <2>3. ~recovery.on => recovery.at = 0
      BY DEF Inv, RecoveryMatches
    <2> QED
      BY <1>2, <1>4, <2>1, <2>2, <2>3 DEF RecoveryMatches
  <1>14. n > 1 => ops'[n - 1] = ops[n]
    <2>1. n > 1 => n - 1 \in 1..(n - 1) /\ n - 1 + 1 = n
      BY <1>2
    <2> QED
      BY <1>3, <2>1
  <1>15. ops' # <<>> => n > 1
    <2>1. ops' # <<>> => Len(ops') # 0
      BY <1>3, EmptySeq
    <2> QED
      BY <1>2, <1>3, <2>1
  <1>16. n > 1 => ops' # <<>>
    BY <1>2, <1>3, EmptySeq
  <1>17. RedirectMatches'
    BY <1>1, <1>2, <1>3, <1>4, <1>14, <1>15 DEF Inv, RedirectMatches
  <1>18. WaitEnds'
    <2>1. ASSUME ops[n].resolver # "none"
          PROVE  ops' # <<>> /\ ops'[Len(ops')].resolver # "none"
      <3>1. n # 1
        BY <1>1, <1>2, <2>1 DEF Inv, LastOpHolds
      <3> QED
        BY <1>2, <1>3, <1>14, <1>16, <2>1, <3>1
    <2>2. ASSUME NEW i \in 1..n, ops[i].wrong, ~ops[i].done
          PROVE  ops' # <<>> /\ \E j \in 1..Len(ops') : ops'[j].wrong /\ ~ops'[j].done
      <3>1. i # 1 /\ i - 1 \in 1..(n - 1) /\ i - 1 + 1 = i
        BY <1>1, <1>2, <2>2
      <3>2. ops'[i - 1] = ops[i] /\ n > 1
        BY <1>2, <1>3, <3>1
      <3> QED
        BY <1>3, <1>16, <2>2, <3>1, <3>2
    <2> QED
      BY <1>1, <1>4, <2>1, <2>2 DEF Inv, WaitEnds
  <1>19. LastOpHolds'
    <2>1. SUFFICES ASSUME NEW i \in 1..(n - 1)
          PROVE  /\ ops'[i].done => ops'[i].resolver = "none"
                 /\ i <= decoded' => ops'[i].resolver # "decode"
                 /\ ops'[i].resolver # "none" => i = n - 1 /\ next' = "redirect"
                 /\ ops'[i].barrier =>
                      i = n - 1 /\ next' = "emptyRob" /\ ~ops'[i].wrong
      BY <1>3 DEF LastOpHolds
    <2>2. ops'[i] = ops[i + 1] /\ i + 1 \in 1..n
      BY <1>3, <1>5
    <2>3. i <= decoded' => i + 1 <= decoded
      BY <1>1, OpsTyped DEF Inv
    <2>4. i + 1 = n => i = n - 1
      BY <1>2
    <2> QED
      BY <1>1, <2>2, <2>3, <2>4 DEF Inv, LastOpHolds
  <1>20. PacketFits'
    BY <1>1, <1>2, <1>3, OpsTyped DEF Inv, PacketFits, Between
  <1> QED
    BY <1>10, <1>11, <1>12, <1>13, <1>17, <1>18, <1>19, <1>20 DEF Inv

-----------------------------------------------------------------------------
(* Issue of an op. *)

LEMMA FetchedOp ==
  ASSUME NEW o \in FetchedOps
  PROVE  /\ o.branch \in BOOLEAN /\ o.barrier \in BOOLEAN /\ o.taken \in BOOLEAN
         /\ o.wrong \in BOOLEAN /\ o.resolver \in Resolver
         /\ o.barrier => ~o.wrong /\ o.resolver = "none"
  <1>1. CASE o = Plain
    BY <1>1 DEF Plain, Resolver
  <1>2. CASE o = [Plain EXCEPT !.barrier = TRUE]
    BY <1>2 DEF Plain, Resolver
  <1>3. CASE o = [Plain EXCEPT !.barrier = TRUE, !.branch = TRUE, !.taken = TRUE]
    BY <1>3 DEF Plain, Resolver
  <1>4. CASE o \in [branch : {TRUE}, barrier : {FALSE}, taken : BOOLEAN,
                    wrong : BOOLEAN, resolver : Resolver]
    BY <1>4
  <1> QED
    BY <1>1, <1>2, <1>3, <1>4 DEF FetchedOps

(* While a packet is being built nothing in flight resteers or halts fetch. *)
LEMMA NothingHolds ==
  ASSUME Inv, ~Between
  PROVE  /\ \A i \in 1..Len(ops) : ops[i].resolver = "none" /\ ~ops[i].barrier
         /\ ~redirect.on
  BY DEF Inv, PacketFits, LastOpHolds, RedirectMatches

(* An op after which fetch goes on leaves room in the packet. *)
LEMMA PacketGoesOn ==
  ASSUME NEW o \in FetchedOps, NEW inUc \in BOOLEAN, NEW lineEnd \in BOOLEAN,
         Break(o, inUc, lineEnd) = "dont"
  PROVE  Cfs(o, inUc) # CfsPerCycle /\ sdCount + 1 # Width
  BY DEF Break

LEMMA IssueKeepsInv ==
  ASSUME Inv, NEW o \in FetchedOps, NEW inUc \in BOOLEAN, NEW lineEnd \in BOOLEAN,
         Issue(o, inUc, lineEnd)
  PROVE  Inv'
  <1> DEFINE break == Break(o, inUc, lineEnd)
             ends  == break # "dont" \/ o.resolver # "none" \/ o.taken
             n     == Len(ops)
             new   == [offPath |-> offPath, wrong |-> o.wrong,
                       resolver |-> o.resolver, done |-> FALSE,
                       barrier |-> Halts(o, inUc)]
  <1>1. /\ packet.step = "issue" /\ ops' = Append(ops, new)
        /\ sdCount' = sdCount + 1 /\ offPath' = (offPath \/ o.wrong)
        /\ packet' = IF ends THEN NoPacket
                     ELSE [packet EXCEPT !.cfs = Cfs(o, inUc),
                             !.step = IF o.branch THEN "lookup" ELSE "issue"]
        /\ next' = IF ends \/ o.branch THEN StateAfter(o, inUc, lineEnd) ELSE next
        /\ UNCHANGED <<state, backOnPath, lineAddr, requests, decoded, recovery,
                       redirect, settings>>
    BY DEF Issue, memory
  <1>2. /\ ~Between /\ next = "fetch" /\ state = "fetch" /\ ~backOnPath
        /\ sdCount < Width /\ packet.cfs < CfsPerCycle
    BY <1>1 DEF Inv, PacketFits, Between
  <1>3. /\ \A i \in 1..n : ops[i].resolver = "none" /\ ~ops[i].barrier
        /\ ~redirect.on
    BY <1>2, NothingHolds
  <1>4. /\ n \in Nat /\ sdCount \in Nat /\ decoded \in Nat /\ decoded + sdCount <= n
        /\ packet.cfs \in Nat /\ Width <= UcWidth /\ Width \in Nat
        /\ offPath \in BOOLEAN
    BY OpsTyped, FetchAssumption DEF Inv, TypeOK, Width
  <1>5. /\ Halts(o, inUc) \in BOOLEAN
        /\ Halts(o, inUc) => o.barrier
    BY FetchedOp DEF Halts
  <1>6. new \in FlightOp
    <2>1. o.wrong \in BOOLEAN /\ o.resolver \in Resolver
      BY FetchedOp
    <2>2. \A h \in BOOLEAN :
            [offPath |-> offPath, wrong |-> o.wrong, resolver |-> o.resolver,
             done |-> FALSE, barrier |-> h] \in FlightOp
      BY <1>4, <2>1 DEF FlightOp
    <2>3. Halts(o, inUc) \in BOOLEAN
      BY <1>5
    <2> QED
      BY <2>2, <2>3, Zenon
  <1>7. /\ ops' \in Seq(FlightOp) /\ Len(ops') = n + 1 /\ ops' # <<>>
        /\ \A i \in 1..n : ops'[i] = ops[i]
        /\ ops'[n + 1] = new
    BY <1>1, <1>6, OpsTyped, AppendProperties DEF Inv
  <1> HIDE DEF new
  <1>8. /\ new.offPath = offPath /\ new.wrong = o.wrong
        /\ new.resolver = o.resolver /\ ~new.done
        /\ new.barrier = Halts(o, inUc)
    BY DEF new
  <1>9. /\ next' \in IcacheState \ {"miss"}
        /\ next' = "redirect" <=> o.resolver # "none"
        /\ Halts(o, inUc) => next' = "emptyRob"
        /\ ~ends => next' = "fetch"
    <2>1. Halts(o, inUc) => break = "barrier" /\ o.resolver = "none"
      BY <1>5, FetchedOp DEF Break, Halts
    <2> HIDE DEF break
    <2>2. /\ StateAfter(o, inUc, lineEnd) \in IcacheState \ {"miss"}
          /\ StateAfter(o, inUc, lineEnd) = "redirect" <=> o.resolver # "none"
          /\ o.resolver = "none" /\ break = "barrier" =>
               StateAfter(o, inUc, lineEnd) = "emptyRob"
          /\ ~ends => StateAfter(o, inUc, lineEnd) = "fetch"
      BY DEF StateAfter, IcacheState, break
    <2> QED
      BY <1>1, <1>2, <2>1, <2>2 DEF IcacheState
  <1>10. Cfs(o, inUc) \in Nat /\ Cfs(o, inUc) <= packet.cfs + 1
    BY <1>4 DEF Cfs
  <1>11. ~ends => /\ packet'.cfs = Cfs(o, inUc) /\ packet'.cached = packet.cached
                  /\ packet' \in [step : {"none", "lookup", "issue"},
                                  cached : BOOLEAN, cfs : Nat]
    BY <1>1, <1>10 DEF Inv, TypeOK
  <1>12. TypeOK'
    <2>1. packet' \in [step : {"none", "lookup", "issue"}, cached : BOOLEAN,
                       cfs : 0..CfsPerCycle]
      <3>1. CfsPerCycle \in Nat /\ Cfs(o, inUc) \in 0..CfsPerCycle
        BY <1>2, <1>4, <1>10, FetchAssumption
      <3>2. CASE ends
        BY <1>1, <3>1, <3>2 DEF NoPacket
      <3>3. CASE ~ends
        BY <1>11, <3>1, <3>3
      <3> QED
        BY <3>2, <3>3
    <2>2. offPath' \in BOOLEAN /\ next' \in IcacheState
      BY <1>1, <1>9
    <2>3. sdCount' \in 0..UcWidth /\ sdCount' <= Len(ops')
          /\ decoded \in 0..(Len(ops') - sdCount')
      BY <1>1, <1>2, <1>4, <1>7, FetchAssumption
    <2> QED
      BY <1>1, <1>7, <2>1, <2>2, <2>3 DEF Inv, TypeOK
  <1>13. OffPathUntilRecovered'
    <2>1. offPath <=> OnPathWrong # {}
      BY <1>2 DEF Inv, OffPathUntilRecovered
    <2>2. \A i : i \in OnPathWrong' <=>
                   i \in OnPathWrong \/ (i = n + 1 /\ o.wrong /\ ~offPath)
      BY <1>4, <1>7, <1>8 DEF OnPathWrong
    <2>3. \A i \in OnPathWrong : i \in 1..n
      BY DEF OnPathWrong
    <2>4. offPath' <=> OnPathWrong' # {}
      BY <1>1, <2>1, <2>2
    <2>5. ASSUME NEW i \in 1..n
          PROVE  ops'[i].offPath <=> \E j \in OnPathWrong' : j < i
      BY <1>4, <1>7, <2>2 DEF Inv, OffPathUntilRecovered
    <2>6. ops'[n + 1].offPath <=> \E j \in OnPathWrong' : j < n + 1
      BY <1>4, <1>7, <1>8, <2>1, <2>2, <2>3
    <2> QED
      BY <1>1, <1>2, <1>4, <1>7, <2>4, <2>5, <2>6 DEF OffPathUntilRecovered
  <1>14. RecoveryIsScheduled'
    <2>1. \A i \in OnPathWrong' : ops'[i].done => i \in OnPathWrong /\ ops[i].done
      BY <1>4, <1>7, <1>8 DEF OnPathWrong
    <2> QED
      BY <1>1, <2>1 DEF Inv, RecoveryIsScheduled
  <1>15. RecoveryMatches'
    <2>1. recovery.on => recovery.at \in 1..n
      BY OpsTyped DEF Inv, RecoveryMatches, TypeOK
    <2> QED
      BY <1>1, <1>7, <2>1 DEF Inv, RecoveryMatches
  <1>16. WaitEnds' /\ RedirectMatches'
    BY <1>1, <1>3, <1>7, <1>8, <1>9 DEF Inv, WaitEnds, RedirectMatches
  <1>17. LastOpHolds'
    <2>1. \A i \in 1..n : /\ ops'[i].resolver = "none" /\ ~ops'[i].barrier
      BY <1>3, <1>7
    <2>2. /\ ~ops'[n + 1].done
          /\ ops'[n + 1].resolver # "none" => next' = "redirect"
          /\ ops'[n + 1].barrier => next' = "emptyRob" /\ ~ops'[n + 1].wrong
      BY <1>5, <1>7, <1>8, <1>9, FetchedOp
    <2>3. \A i \in 1..(n + 1) : i \in 1..n \/ (i = n + 1 /\ ~(i <= decoded'))
      BY <1>1, <1>4
    <2> QED
      BY <1>7, <2>1, <2>2, <2>3 DEF LastOpHolds
  <1>18. PacketFits'
    <2>1. Len(ops') <= Capacity + sdCount'
      BY <1>1, <1>4, <1>7, OpsTyped DEF Inv, PacketFits
    <2>2. CASE ends
      BY <1>1, <1>2, <2>1, <2>2 DEF PacketFits, Between, NoPacket
    <2>3. CASE ~ends
      <3>1. Cfs(o, inUc) # CfsPerCycle /\ sdCount + 1 # Width
        BY <2>3, PacketGoesOn
      <3>2. packet'.cfs < CfsPerCycle /\ sdCount' < Width
        BY <1>1, <1>2, <1>4, <1>10, <1>11, <2>3, <3>1, FetchAssumption
      <3>3. Width' = Width
        BY <1>11, <2>3 DEF Width
      <3> QED
        BY <1>1, <1>2, <1>9, <2>1, <2>3, <3>2, <3>3 DEF PacketFits
    <2> QED
      BY <2>2, <2>3
  <1> QED
    BY <1>12, <1>13, <1>14, <1>15, <1>16, <1>17, <1>18 DEF Inv

-----------------------------------------------------------------------------
(* Every step keeps the inductive invariant. *)

LEMMA NextKeepsInv == Inv /\ [Next]_vars => Inv'
  <1> SUFFICES ASSUME Inv, [Next]_vars
               PROVE  Inv'
    OBVIOUS
  <1>1. CASE FetchStep
    <2>1. CASE FetchNothing \/ WaitOver \/ StartFetch
      BY <2>1, FetchNothingKeepsInv, WaitOverKeepsInv, StartFetchKeepsInv
    <2>2. CASE \E inUc \in BOOLEAN : LookupHit(inUc)
      BY <2>2, LookupHitKeepsInv
    <2>3. CASE \E l \in Lines : MissAccepted(l)
      BY <2>3, MissesKeepInv DEF MissAccepted
    <2>4. CASE MissRefused
      BY <2>4, MissesKeepInv DEF MissRefused, Misses, memory, flight
    <2>5. CASE \E o \in FetchedOps, inUc, lineEnd \in BOOLEAN : Issue(o, inUc, lineEnd)
      BY <2>5, IssueKeepsInv
    <2> QED
      BY <1>1, <2>1, <2>2, <2>3, <2>4, <2>5 DEF FetchStep
  <1>2. CASE OtherStages
    <2>1. CASE Recover \/ Redirect \/ Decode \/ Retire
      BY <2>1, RecoverKeepsInv, RedirectKeepsInv, DecodeKeepsInv, RetireKeepsInv
    <2>2. CASE \E left \in 0..(UcWidth - 1) : Take(left)
      BY <2>2, TakeKeepsInv
    <2>3. CASE \E i \in 1..decoded : Exec(i)
      BY <2>3, ExecKeepsInv
    <2> QED
      BY <1>2, <2>1, <2>2, <2>3 DEF OtherStages
  <1>3. CASE \E l \in Lines : Fill(l)
    BY <1>3, FillKeepsInv
  <1>4. CASE UNCHANGED vars
    BY <1>4
    DEF vars, stage, memory, flight, settings, Inv, TypeOK, OffPathUntilRecovered,
        OnPathWrong, RecoveryIsScheduled, WaitEnds, RecoveryMatches,
        RedirectMatches, LastOpHolds, PacketFits, Between, Width
  <1> QED
    BY <1>1, <1>2, <1>3, <1>4 DEF Next

THEOREM Invariance == Spec => []Inv
  BY InvInit, NextKeepsInv, PTL DEF Spec

(* The type invariant of the stage. *)
THEOREM TypeCorrect == Spec => []TypeOK
  <1>1. Inv => TypeOK
    BY DEF Inv
  <1> QED
    BY <1>1, Invariance, PTL

(* ic->off_path and the marks of the ops follow the wrong prediction of    *)
(* the program that is in flight, through every recovery and redirect.     *)
THEOREM OffPathUntilRecoveredHolds == Spec => []OffPathUntilRecovered
  <1>1. Inv => OffPathUntilRecovered
    BY DEF Inv
  <1> QED
    BY <1>1, Invariance, PTL

(* The assertion of redirect_icache_stage: a redirect comes to a stage     *)
(* that waits for it, and its op is the last one fetched.                  *)
THEOREM RedirectMeetsWaitingFetchHolds == Spec => []RedirectMeetsWaitingFetch
  <1>1. Inv => RedirectMeetsWaitingFetch
    BY DEF Inv, RedirectMatches, RedirectMeetsWaitingFetch
  <1> QED
    BY <1>1, Invariance, PTL

(* No recovery is lost to one scheduled before or after it. *)
THEOREM RecoveryIsScheduledHolds == Spec => []RecoveryIsScheduled
  <1>1. Inv => RecoveryIsScheduled
    BY DEF Inv
  <1> QED
    BY <1>1, Invariance, PTL

(* Fetch never waits for something that nobody is to deliver. *)
THEOREM WaitEndsHolds == Spec => []WaitEnds
  <1>1. Inv => WaitEnds
    BY DEF Inv
  <1> QED
    BY <1>1, Invariance, PTL

(* A fetch barrier is the last op in flight. *)
THEOREM NothingAfterBarrierHolds == Spec => []NothingAfterBarrier
  <1>1. Inv => NothingAfterBarrier
    <2> SUFFICES ASSUME Inv, NEW i \in 1..(Len(ops) - 1)
                 PROVE  ~ops[i].barrier
      BY DEF NothingAfterBarrier
    <2>1. i \in 1..Len(ops) /\ i # Len(ops)
      BY OpsTyped DEF Inv
    <2> QED
      BY <2>1 DEF Inv, LastOpHolds
  <1> QED
    BY <1>1, Invariance, PTL
=============================================================================
