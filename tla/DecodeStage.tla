----------------------------- MODULE DecodeStage -----------------------------
(***************************************************************************)
(* The decode stage: a pipeline of Depth slots, of which slot 0 is the     *)
(* last.  Uops that come from the uop cache need no decoding: they are     *)
(* moved ahead, into the slots that are empty or have room, and the rest   *)
(* of the fetched packet stays behind.  Uops that reach the last slot are  *)
(* handed to the accumulation of prediction windows (accumulate_op for     *)
(* those of the instruction cache, end_accumulate for the others), which   *)
(* takes for granted that they arrive in program order, each once.         *)
(*                                                                         *)
(* A cycle has four parts, in the order of cmp_cycle: a recovery, the map  *)
(* stage, decode, fetch.                                                   *)
(***************************************************************************)
EXTENDS Integers, Sequences, FiniteSetsExt

CONSTANTS
  Depth,     (* STAGE_MAX_DEPTH = DECODE_CYCLES                             *)
  Width,     (* STAGE_MAX_OP_COUNT = UC_ISSUE_WIDTH                         *)
  IcWidth,   (* IC_ISSUE_WIDTH                                              *)
  MaxOps     (* bound of the model: the highest op number fetched           *)

ASSUME DecodeAssumption ==
  /\ Depth \in Nat \ {0}
  /\ IcWidth \in Nat \ {0}
  /\ Width \in Nat /\ Width >= IcWidth
  /\ MaxOps \in Nat

VARIABLES
  sds,       (* dec->sds: the ops of each slot                              *)
  src,       (* ic->sd: what fetch offers                                   *)
  phase,     (* the part of the cycle that runs next                        *)
  next,      (* op_count: the number of the next op fetched                 *)
  handed,    (* the op handed to the accumulation last                      *)
  calls      (* the ops handed over by the last update_decode_stage         *)

vars == <<sds, src, phase, next, handed, calls>>

Slots == 0..(Depth - 1)
Op == [num : 1..MaxOps, uc : BOOLEAN]

TypeOK ==
  /\ sds \in [Slots -> Seq(Op)]
  /\ src \in Seq(Op)
  /\ \A k \in Slots : Len(sds[k]) <= Width
  /\ Len(src) <= Width
  /\ phase \in {"recover", "map", "decode", "fetch"}
  /\ next \in 1..(MaxOps + 1)
  /\ handed \in 0..MaxOps
  /\ calls \in Seq(1..MaxOps)

Init ==
  /\ sds = [k \in Slots |-> <<>>]
  /\ src = <<>>
  /\ phase = "recover"
  /\ next = 1
  /\ handed = 0
  /\ calls = <<>>

-----------------------------------------------------------------------------
(* Recovery: ops younger than the recovering one are flushed from every    *)
(* slot and from the fetch stage, and their numbers are given out again.   *)
(* The survivors are counted and stay in their places: the slot is then    *)
(* taken to have as many ops as survived.                                  *)

Older(ops, r) == SubSeq(ops, 1, Cardinality({i \in 1..Len(ops) : ops[i].num <= r}))

(* Mutant: the fetch stage keeps its ops. *)
FlushDecodeOnly(r) ==
  /\ sds' = [k \in Slots |-> Older(sds[k], r)]
  /\ UNCHANGED src

Flush(r) ==
  /\ sds' = [k \in Slots |-> Older(sds[k], r)]
  /\ src' = Older(src, r)

Recover(r) ==
  /\ phase = "recover"
  /\ r < next
  /\ Flush(r)
  /\ next' = r + 1
  /\ handed' = Min({handed, r})
  /\ phase' = "map"
  /\ UNCHANGED calls

NoRecovery ==
  /\ phase = "recover"
  /\ phase' = "map"
  /\ UNCHANGED <<sds, src, next, handed, calls>>

-----------------------------------------------------------------------------
(* The map stage takes the whole last slot when its own first slot is      *)
(* empty.                                                                  *)

MapTakes ==
  /\ phase = "map"
  /\ sds' = [sds EXCEPT ![0] = <<>>]
  /\ phase' = "decode"
  /\ UNCHANGED <<src, next, handed, calls>>

MapStalls ==
  /\ phase = "map"
  /\ phase' = "decode"
  /\ UNCHANGED <<sds, src, next, handed, calls>>

-----------------------------------------------------------------------------
(* update_decode_stage. *)

(* The loop over the intermediate slots: an empty slot takes what is in    *)
(* the slot before it, which then takes from the one before that.          *)
FirstEmpty(s) == Min({k \in Slots : s[k] = <<>>} \cup {Depth})

(* Mutant: the loop ends one slot early. *)
ShiftTooFew(s) ==
  [k \in Slots |->
    IF k < FirstEmpty(s) \/ k = Depth - 1 THEN s[k]
    ELSE IF k = Depth - 2 THEN <<>> ELSE s[k + 1]]

Shift(s) ==
  [k \in Slots |->
    IF k < FirstEmpty(s) THEN s[k]
    ELSE IF k = Depth - 1 THEN <<>> ELSE s[k + 1]]

(* Mutant: the empty slot that is nearest to the end of the pipeline,      *)
(* without regard to what is behind it.                                    *)
AnyEmptyStageIdx(s) == FirstEmpty(s)

(* empty_stage_idx: the foremost of the empty slots behind the last        *)
(* occupied one.                                                           *)
EmptyStageIdx(s) == Min({k \in 0..Depth : \A j \in k..(Depth - 1) : s[j] = <<>>})

(* The uops at the front of the packet that come from the uop cache. *)
CachedPrefix(ops) ==
  Max({n \in 0..Len(ops) : \A i \in 1..n : ops[i].uc})

(* Mutant: without regard to the room in that slot. *)
AppendedAll(s, ops) ==
  IF EmptyStageIdx(s) = 0 THEN 0 ELSE CachedPrefix(ops)

(* Those of them that fit into the slot in front of the empty ones. *)
Appended(s, ops) ==
  LET e == EmptyStageIdx(s)
  IN  IF e = 0 THEN 0 ELSE Min({CachedPrefix(ops), Width - Len(s[e - 1])})

(* All that move: the empty slot takes the others, unless it is the first. *)
Moved(s, ops) ==
  IF EmptyStageIdx(s) < Depth - 1 THEN CachedPrefix(ops) ELSE Appended(s, ops)

MoveAhead(s, ops) ==
  LET e == EmptyStageIdx(s)
      a == Appended(s, ops)
      m == Moved(s, ops)
  IN  [k \in Slots |->
        CASE k = e - 1 -> s[k] \o SubSeq(ops, 1, a)
          [] k = e     -> s[k] \o SubSeq(ops, a + 1, m)
          [] OTHER     -> s[k]]

Remaining(s, ops) == SubSeq(ops, Moved(s, ops) + 1, Len(ops))

Numbers(ops) == [i \in 1..Len(ops) |-> ops[i].num]

(* Mutant: the uops that are moved into a stalled slot are not processed. *)
ProcessedUnlessStalled(stall, s, ops) ==
  IF stall THEN <<>> ELSE Numbers(MoveAhead(s, ops)[0])

(* What is handed over: if the last slot was empty, all that is in it now; *)
(* if it is stalled, the uops that have just been appended to it.          *)
Processed(stall, s, ops) ==
  IF ~stall
  THEN Numbers(IF Depth = 1 /\ MoveAhead(s, ops)[0] = <<>>
               THEN Remaining(s, ops) ELSE MoveAhead(s, ops)[0])
  ELSE IF EmptyStageIdx(s) = 1 THEN Numbers(SubSeq(ops, 1, Appended(s, ops)))
  ELSE <<>>

Decode ==
  LET stall   == sds[0] # <<>>
      shifted == Shift(sds)
      moved   == MoveAhead(shifted, src)
      rest    == Remaining(shifted, src)
  IN  /\ phase = "decode"
      /\ IF moved[Depth - 1] = <<>>
         THEN sds' = [moved EXCEPT ![Depth - 1] = rest] /\ src' = <<>>
         ELSE sds' = moved /\ src' = rest
      /\ calls' = Processed(stall, shifted, src)
      /\ handed' = IF calls' = <<>> THEN handed ELSE calls'[Len(calls')]
      /\ phase' = "fetch"
      /\ UNCHANGED next

-----------------------------------------------------------------------------
(* Fetch (external to this module) fills its stage only when it is empty.  *)
(* A packet has uops of the instruction cache, then, after a branch, uops  *)
(* of the uop cache, then perhaps the one that was not found there.        *)

Pattern(ic, uc, miss) ==
  [i \in 1..(ic + uc + miss) |-> i \in (ic + 1)..(ic + uc)]

Packets ==
  {Pattern(n, 0, 0) : n \in 1..IcWidth} \cup
  {Pattern(x[1], x[2], x[3]) :
     x \in {y \in (0..(IcWidth - 1)) \X (0..Width) \X (0..1) :
              y[1] + y[2] + y[3] \in 1..Width}}

Fetch(p) ==
  /\ phase = "fetch"
  /\ src = <<>>
  /\ next + Len(p) <= MaxOps + 1
  /\ src' = [i \in 1..Len(p) |-> [num |-> next + i - 1, uc |-> p[i]]]
  /\ next' = next + Len(p)
  /\ phase' = "recover"
  /\ UNCHANGED <<sds, handed, calls>>

FetchNothing ==
  /\ phase = "fetch"
  /\ phase' = "recover"
  /\ UNCHANGED <<sds, src, next, handed, calls>>

Next ==
  \/ \E r \in 1..MaxOps : Recover(r)
  \/ NoRecovery
  \/ MapTakes
  \/ MapStalls
  \/ Decode
  \/ \E p \in Packets : Fetch(p)
  \/ FetchNothing

(* Cycles follow each other, and the back end does not stall the map stage *)
(* for ever.                                                               *)
Spec == Init /\ [][Next]_vars /\ WF_vars(Next) /\ SF_vars(MapTakes)

-----------------------------------------------------------------------------
(* Properties. *)

(* The pipeline from its end to its start, then what fetch offers. *)
At(s, ops, k) == IF k = Depth THEN ops ELSE s[k]

(* Read so, the ops stand in the order of the program. *)
InOrder(s, ops) ==
  \A k, l \in 0..Depth :
    \A i \in 1..Len(At(s, ops, k)), j \in 1..Len(At(s, ops, l)) :
      k < l \/ (k = l /\ i < j) => At(s, ops, k)[i].num < At(s, ops, l)[j].num

Carries(s, ops, n) ==
  \E k \in 0..Depth : \E i \in 1..Len(At(s, ops, k)) : At(s, ops, k)[i].num = n

InFlight(n) == Carries(sds, src, n)

(* Uops that are moved ahead overtake none: read from the last slot back   *)
(* to the fetch stage, the ops in flight are consecutive up to the last    *)
(* one fetched.  None is lost, duplicated or left over by a recovery.      *)
ProgramOrder ==
  /\ InOrder(sds, src)
  /\ \A n \in 1..MaxOps : InFlight(n) => n < next /\ (n + 1 = next \/ InFlight(n + 1))

(* The assertion of update_decode_stage: the first slot is free unless the *)
(* last one is stalled.                                                    *)
FirstSlotFreeUnlessStalled ==
  phase = "decode" /\ sds[0] = <<>> =>
    MoveAhead(Shift(sds), src)[Depth - 1] = <<>>

(* The accumulation is called for consecutive ops: with none of them twice *)
(* and, between recoveries, with none left out.                            *)
HandedInOrder ==
  [][phase = "decode" =>
       \A i \in 1..Len(calls') :
         calls'[i] = 1 + (IF i = 1 THEN handed ELSE calls'[i - 1])]_vars

(* The inductive invariant: the ops of the last slot have been handed to   *)
(* the accumulation, the others have not, and the first of the others is   *)
(* the one that is due.                                                    *)
LastSlotHanded ==
  /\ \A k \in 0..Depth : \A i \in 1..Len(At(sds, src, k)) :
       k = 0 <=> At(sds, src, k)[i].num <= handed
  /\ handed < next /\ (handed + 1 = next \/ InFlight(handed + 1))

Inv == TypeOK /\ ProgramOrder /\ LastSlotHanded

(* The uops in flight, without their slots, as a UopQueue.                 *)
Queue == INSTANCE UopQueue WITH flying <- {n \in 1..MaxOps : InFlight(n)}

(* Seen from fetch, the accumulation and the map stage, decode is that     *)
(* queue, whatever its depth: which slots a uop passes through and which   *)
(* of them stall cannot be told from outside.                              *)
ImplementsUopQueue == Queue!Spec

(* Every op leaves decode, to the map stage or by a recovery. *)
EveryOpLeaves ==
  \A n \in 1..MaxOps : InFlight(n) ~> ~InFlight(n)
=============================================================================
