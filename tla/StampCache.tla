----------------------------- MODULE StampCache -----------------------------
(***************************************************************************)
(* What the policies that compare last_access_time share: every line is    *)
(* stamped with the cycle of its last hit or insertion.  Stamps of one     *)
(* cycle are equal, so the order of the calls inside a cycle matters:      *)
(* cmp_cycle runs the memory system first (fills), then the pipeline from  *)
(* its end to its start (decode before fetch).                             *)
(***************************************************************************)
EXTENDS UopCache

CONSTANT
  MaxTime    (* bound of the model: the last cycle simulated                *)

ASSUME StampAssumption == MaxTime \in Nat \ {0}

VARIABLES
  uocPref,   (* whether anything prefetches into the uop cache: a parameter *)
             (* that keeps its first value                                  *)
  now,       (* sim_time                                                    *)
  stage,     (* the part of the cycle that ran last                         *)
  stamp      (* entry->last_access_time of each way                         *)

stampVars == <<entries, pc, cur, idx, saved, uocPref, now, stage, stamp>>

TypeOKStamp ==
  /\ TypeOKCache
  /\ uocPref \in BOOLEAN
  /\ now \in 1..MaxTime
  /\ stage \in {"memory", "decode", "fetch"}
  /\ stamp \in [Ways -> 0..now]

InitStamp ==
  /\ InitCache
  /\ uocPref \in BOOLEAN
  /\ now = 1
  /\ stage = "memory"
  /\ stamp = [w \in Ways |-> 0]

-----------------------------------------------------------------------------
(* Mutant of Touch: only one of the lines that were hit.                   *)
TouchOne(S) == stamp' = [w \in Ways |-> IF IsFirst(w, S) THEN now ELSE stamp[w]]

(* update_repl_policy, for the lines that are hit. *)
Touch(S) == stamp' = [w \in Ways |-> IF w \in S THEN now ELSE stamp[w]]

Hit(a) ==
  /\ pc = "idle"
  /\ HitWays(entries, a) # {}
  /\ Touch(HitWays(entries, a))
  /\ stage' = "fetch"
  /\ UNCHANGED <<entries, pc, cur, idx, saved, uocPref, now>>

(* pw_insert up to its first loop; enters tells what a policy has to say   *)
(* once the lines of another PW with the same start are gone.              *)
PwInsert(p, enters) ==
  IF p.lines > Assoc
  THEN UNCHANGED <<entries, pc, cur, idx, stamp>>
  ELSE IF SameWindowWays(p) # {}
  THEN Touch(SameWindowWays(p)) /\ UNCHANGED <<entries, pc, cur, idx>>
  ELSE /\ UNCHANGED stamp
       /\ IF enters
          THEN BeginInsertion(p, "insert")
          ELSE /\ entries' = InvalidateAll(entries, p.first)
               /\ UNCHANGED <<pc, cur, idx>>

(* Decode hands over a PW.  It has collected the first PW of a cycle for   *)
(* any number of cycles, but those after it within the cycle only: they    *)
(* have fewer uops than decode is wide, and a line holds as many uops as   *)
(* the processor is wide.                                                  *)
Decoded(p) ==
  /\ pc = "idle"
  /\ \/ stage = "memory"
     \/ stage = "decode" /\ p.lines = 1
  /\ stage' = "decode"
  /\ SavePW(p)
  /\ UNCHANGED <<uocPref, now>>

(* A prefetch completes: the memory system fills the logged PW. *)
Prefetched(a) ==
  /\ uocPref
  /\ pc = "idle"
  /\ stage = "memory"
  /\ saved[a] # NoWindow
  /\ UNCHANGED <<saved, uocPref, now, stage>>

(* A fill makes the instruction cache replace line l. *)
ICacheReplaces(l) ==
  /\ pc = "idle"
  /\ stage = "memory"
  /\ \E w \in Ways : InICacheLine(entries, w, l)
  /\ entries' = DropICacheLine(entries, l)
  /\ UNCHANGED <<pc, cur, idx, saved, uocPref, now, stage, stamp>>

NextCycle ==
  /\ pc = "idle"
  /\ now < MaxTime
  /\ now' = now + 1
  /\ stage' = "memory"
  /\ UNCHANGED <<entries, pc, cur, idx, saved, uocPref, stamp>>

-----------------------------------------------------------------------------
(* The insertion loop: the victim's way, or the first free one, takes the  *)
(* line and the rest of the victim is invalidated.                         *)

InsertInto(w) ==
  /\ entries' = Place(entries, w, cur, idx)
  /\ stamp' = [stamp EXCEPT ![w] = now]
  /\ Advance
  /\ UNCHANGED <<saved, uocPref, now, stage>>

FillFreeWay ==
  /\ pc = "insert"
  /\ \E w \in Ways : IsFirst(w, FreeWays(entries)) /\ InsertInto(w)

(* The first way that was used longest ago. *)
Oldest(S) ==
  {w \in S : \A v \in S : \/ stamp[w] < stamp[v]
                          \/ stamp[w] = stamp[v] /\ w <= v}
=============================================================================
