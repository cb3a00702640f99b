--------------------------- MODULE WindowBuilder ---------------------------
(***************************************************************************)
(* How the decode stage cuts the stream of uops that were not fetched from *)
(* the micro-op cache into prediction windows: accumulate_op and           *)
(* end_accumulate, with the FIXENDLINE feature.  A PW ends before a uop of *)
(* another instruction-cache line, with a branch that is taken or          *)
(* predicted taken, when the queue is full, and when a uop arrives that    *)
(* was fetched from the micro-op cache.  The stream follows the program:   *)
(* uops of an instruction share its address, sequential instructions have  *)
(* successive addresses, a mispredicted branch is followed by wrong-path   *)
(* uops until the recovery, or by nothing when they are not fetched.       *)
(***************************************************************************)
EXTENDS Integers, SequencesExt

CONSTANTS
  Addrs,          (* instruction addresses; one address stands for one      *)
                  (* instruction                                            *)
  LineSize,       (* instructions in an instruction-cache line              *)
  QueueSize,      (* UOP_QUEUE_SIZE                                         *)
  MaxOps,         (* bound of the model: the last op_num                    *)
  NoBranch        (* no branch waits for its recovery                       *)

(* Address 0 means that no PW is open, so no instruction is in line 0. *)
ASSUME AddrsAssumption == Addrs \subseteq {a \in Nat : a >= LineSize}
ASSUME SizesAssumption == {LineSize, QueueSize, MaxOps} \subseteq Nat \ {0}

VARIABLES
  fetchOffPath,   (* FETCH_OFF_PATH_OPS: a parameter that keeps its value   *)
  window,         (* accumulating_pw and uop_q: the uops collected so far   *)
  cons_op_num,    (* the op_num that the next uop of the PW must have       *)
  handed,         (* the PWs that the last uop made end_accumulate hand to  *)
                  (* insert_uop_cache, in order                             *)
  next,           (* op_num and address of the uop that is decoded next     *)
  branch          (* the mispredicted branch whose recovery is to come:     *)
                  (* its op_num and the right address after it              *)

vars == <<fetchOffPath, window, cons_op_num, handed, next, branch>>

Uop  == [num: 1..MaxOps, addr: Addrs, ends: BOOLEAN]
Place == [num: 1..(MaxOps + 1), addr: Addrs]

ASSUME NoBranchAssumption == NoBranch \notin Place

(* Type invariant: end_accumulate never hands over an empty PW. *)
TypeOK ==
  /\ fetchOffPath \in BOOLEAN
  /\ window \in Seq(Uop)
  /\ cons_op_num \in 0..(2 * MaxOps)
  /\ handed \in Seq(Seq(Uop) \ {<<>>})
  /\ next \in Place
  /\ branch \in Place \cup {NoBranch}

Init ==
  /\ fetchOffPath \in BOOLEAN
  /\ window = <<>>
  /\ cons_op_num = 0
  /\ handed = <<>>
  /\ next \in {p \in Place : p.num = 1}
  /\ branch = NoBranch

-----------------------------------------------------------------------------
(* The stream of uops. *)

LineOf(a) == a \div LineSize

(* Another uop of the same instruction, or the next instruction. *)
Sequential(a) == {a, a + 1} \cap Addrs

(* What follows a branch that goes to its target, or falls through. *)
After(a, taken) == IF taken THEN Addrs ELSE {a + 1} \cap Addrs

At(num, addr) == [num |-> num, addr |-> addr]

(* The stream moves on after a uop that is not a branch, or a branch with  *)
(* a prediction and an outcome.  A wrong direction, or a wrong target of a *)
(* branch that is taken as predicted, leads off the path.                  *)
FollowsUop ==
  /\ \E b \in Sequential(next.addr) : next' = At(next.num + 1, b)
  /\ UNCHANGED branch

FollowsBranch(pred, dir) ==
  \/ /\ pred = dir
     /\ \E b \in After(next.addr, dir) : next' = At(next.num + 1, b)
     /\ UNCHANGED branch
  \/ /\ pred \/ dir
     /\ branch = NoBranch
     /\ \E b \in After(next.addr, dir), wrong \in After(next.addr, pred) :
          /\ b # wrong
          /\ IF fetchOffPath
             THEN /\ next' = At(next.num + 1, wrong)
                  /\ branch' = At(next.num, b)
             ELSE /\ next' = At(next.num + 1, b)
                  /\ UNCHANGED branch

(* recover_icache_stage and recover_decode_stage: the uops after the       *)
(* branch are dropped and their numbers used again.  Nothing drops those   *)
(* that accumulate_op has collected.                                       *)
Recover ==
  /\ branch # NoBranch
  /\ next' = At(branch.num + 1, branch.addr)
  /\ branch' = NoBranch
  /\ handed' = <<>>
  /\ UNCHANGED <<fetchOffPath, window, cons_op_num>>

-----------------------------------------------------------------------------
(* Mutant of HandOver: a PW of one uop is dropped.                         *)
HandOverLong(w) == IF Len(w) <= 1 THEN <<>> ELSE <<w>>

(* end_accumulate hands over what there is. *)
HandOver(w) == IF w = <<>> THEN <<>> ELSE <<w>>

(* Mutant of EndOfLine: without the FIXENDLINE feature. *)
NeverEndOfLine == FALSE

EndOfLine == window # <<>> /\ LineOf(next.addr) # LineOf(window[1].addr)

(* branch_pt: a branch that is taken or predicted taken; its mutant ends   *)
(* the PW with the prediction only.                                        *)
PredictedTaken(pred, dir) == pred
BranchPt(pred, dir)       == pred \/ dir

(* The op_num that must follow; its mutant does not start anew with a PW.  *)
CountOn         == cons_op_num + 1
ConsecutiveNext == IF window = <<>> THEN next.num + 1 ELSE cons_op_num + 1

(* accumulate_op, with ends for branch_pt.  The queue counts as full by    *)
(* the length before a PW of another line is handed over.                  *)
Accumulate(ends) ==
  LET uop_q_full == Len(window) + 1 > QueueSize
      before     == IF EndOfLine THEN <<>> ELSE window
      after      == Append(before, [num |-> next.num, addr |-> next.addr,
                                    ends |-> ends])
      closes     == ends \/ uop_q_full
  IN  /\ window' = IF closes THEN <<>> ELSE after
      /\ handed' = HandOver(IF EndOfLine THEN window ELSE <<>>)
                     \o HandOver(IF closes THEN after ELSE <<>>)
      /\ cons_op_num' = ConsecutiveNext
      /\ UNCHANGED fetchOffPath

(* A uop that was fetched from the micro-op cache ends the PW. *)
EndAccumulate ==
  /\ window' = <<>>
  /\ handed' = HandOver(window)
  /\ UNCHANGED <<fetchOffPath, cons_op_num>>

DecodeUop ==
  /\ next.num <= MaxOps
  /\ FollowsUop
  /\ Accumulate(FALSE)

DecodeBranch ==
  /\ next.num <= MaxOps
  /\ \E pred, dir \in BOOLEAN :
       FollowsBranch(pred, dir) /\ Accumulate(BranchPt(pred, dir))

DecodeCachedUop ==
  /\ next.num <= MaxOps
  /\ \/ FollowsUop
     \/ \E pred, dir \in BOOLEAN : FollowsBranch(pred, dir)
  /\ EndAccumulate

Next == DecodeUop \/ DecodeBranch \/ DecodeCachedUop \/ Recover

Spec == Init /\ [][Next]_vars

-----------------------------------------------------------------------------
(* Properties. *)

(* The ASSERT of accumulate_op: the uops of a PW are consecutive.          *)
ConsecutiveOps == window # <<>> => next.num = cons_op_num

(* It holds when the wrong path is not fetched, so that no recovery drops  *)
(* uops, though PWs end and begin anew in between.                         *)
ConsecutiveOnPath == ~fetchOffPath => ConsecutiveOps

(* A PW lies in one instruction-cache line, so that dropping the PWs that  *)
(* start in a replaced line drops all that have uops in it.                *)
OneLinePerWindow ==
  \A pw \in ToSet(handed) : \A u \in ToSet(pw) : LineOf(u.addr) = LineOf(pw[1].addr)

(* A PW is a straight run of the program: the range from its first to its  *)
(* last address, which is all that a lookup compares with, holds exactly   *)
(* the instructions that are in it, and a taken branch is its last uop.    *)
(* (With the wrong path, a PW may continue across a recovery.)             *)
ExactRange ==
  ~fetchOffPath =>
    \A pw \in ToSet(handed) :
      /\ {u.addr : u \in ToSet(pw)} = pw[1].addr .. pw[Len(pw)].addr
      /\ \A i \in 1..(Len(pw) - 1) : ~pw[i].ends

(* Every collected uop reaches insert_uop_cache once and in order: what a  *)
(* step hands over and leaves open is what was open, and the new uop if it *)
(* did not come from the micro-op cache.                                   *)
NothingLost ==
  [][LET uops == FlattenSeq(handed') \o window'
     IN  \/ uops = window
         \/ \E e \in BOOLEAN :
              uops = Append(window, [num |-> next.num, addr |-> next.addr, ends |-> e])]_vars

(* uop_q has UOP_QUEUE_SIZE places: the PW ends when the queue is full.    *)
UopQueueInBounds == \A pw \in ToSet(handed) : Len(pw) <= QueueSize

(* It has one place too few, never more: the uops of an open PW fit, and   *)
(* the one that comes when the queue is full ends the PW.                  *)
OverrunIsOne ==
  /\ Len(window) <= QueueSize
  /\ \A pw \in ToSet(handed) : Len(pw) <= QueueSize + 1

(* The inductive invariant: what holds of the PW that is open, so that it  *)
(* holds of it when it is handed over.                                     *)
Straight(w) ==
  /\ {u.addr : u \in ToSet(w)} = w[1].addr .. w[Len(w)].addr
  /\ \A i \in 1..(Len(w) - 1) : ~w[i].ends

OpenInLine ==
  \A i \in 1..Len(window) : LineOf(window[i].addr) = LineOf(window[1].addr)

(* Without the wrong path, an open PW goes on with the next uop.           *)
OpenGoesOn ==
  ~fetchOffPath =>
    /\ branch = NoBranch
    /\ window # <<>> => /\ next.num = cons_op_num
                        /\ Straight(window)
                        /\ ~window[Len(window)].ends
                        /\ next.addr \in Sequential(window[Len(window)].addr)

(* With it, a PW that is open on the wrong path began there; after the     *)
(* recovery, cons_op_num is ahead of the uops by as many as were dropped.  *)
CountAhead ==
  /\ branch # NoBranch => branch.num <= MaxOps
  /\ window # <<>> => IF branch = NoBranch
                      THEN cons_op_num <= next.num + MaxOps - 1
                      ELSE cons_op_num <= next.num

Inv == TypeOK /\ OpenInLine /\ OneLinePerWindow /\ OpenGoesOn /\ ExactRange /\ CountAhead
=============================================================================
