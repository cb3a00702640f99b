---------------------------- MODULE FurbysCache ----------------------------
(***************************************************************************)
(* The FURBYS configuration of the micro-op cache (REPL_PMC with           *)
(* UOP_CACHE_DEGRADE = REPL_SRRIP): every PW has a weight from the profile *)
(* and the lightest PW of the set is replaced.  Among equal weights the    *)
(* victim is found with 2-bit re-reference prediction values; a way that   *)
(* was replaced very recently is locked, and its choice degrades to plain  *)
(* SRRIP over the whole set.  A decoded PW that is clearly lighter than    *)
(* all residents bypasses the cache.                                       *)
(***************************************************************************)
EXTENDS RripCache

CONSTANTS
  Weight,         (* find_entry_count: the profile's weight of each start   *)
  BypassMap,      (* checkByPass: starts that bypass.out lists              *)
  DynamicBypass,  (* UOP_CACHE_DYNAMIC_BYPASS                               *)
  BypassRate,     (* UOP_CACHE_BYPASS_RATE: 666, or a percentage            *)
  RemoveLock      (* UOP_CACHE_REMOVE_LOCK: how many replaced ways are      *)
                  (* remembered                                             *)

ASSUME WeightAssumption     == Weight \in [Starts -> Nat]
ASSUME BypassAssumption     == /\ BypassMap \subseteq Starts
                               /\ DynamicBypass \in BOOLEAN
                               /\ BypassRate \in (0..100) \cup {666}
ASSUME RemoveLockAssumption == RemoveLock \in 0..8

VARIABLE
  chosen   (* pre_chosen_entry, pre_pre_chosen_entry, ...: the ways that    *)
           (* were replaced last, the latest first; NoWay is the code's -1  *)

vars == <<entries, pc, cur, idx, saved, rrpv, chosen>>

NoWay == 0

(* Type invariant: RRPVs keep their width and remembered ways exist.       *)
TypeOK ==
  /\ TypeOKRrip
  /\ chosen \in [1..RemoveLock -> Ways \cup {NoWay}]

Init ==
  /\ InitRrip
  /\ chosen = [i \in 1..RemoveLock |-> NoWay]

-----------------------------------------------------------------------------
(* Lookup and the decision to insert. *)

WeightAt(w) == Weight[entries[w].pw.first]

Lookup(a) == Hit(a) /\ UNCHANGED chosen

(* The weight below which a decoded PW bypasses a set without a free way;  *)
(* Counter arithmetic, so it stops at zero and rounds down.                *)
BypassBound(m) ==
  IF BypassRate = 666 THEN (IF m > 0 THEN m - 1 ELSE 0)
                      ELSE (m * BypassRate) \div 100

Bypasses(p) ==
  \/ p.first \in BypassMap
  \/ /\ DynamicBypass
     /\ FreeWays(entries) = {}
     /\ \E v \in Ways :
          /\ \A w \in Ways : WeightAt(v) <= WeightAt(w)
          /\ Weight[p.first] < BypassBound(WeightAt(v))

(* end_accumulate, with the PW that decode has accumulated. *)
EndAccumulate(p) ==
  /\ pc = "idle"
  /\ ~Bypasses(p)
  /\ SavePW(p)
  /\ PwInsert(p, "insert")
  /\ UNCHANGED chosen

(* uop_cache_fill_prefetch: the logged PW, with no bypass check. *)
FillPrefetch(a) ==
  /\ pc = "idle"
  /\ saved[a] # NoWindow
  /\ PwInsert(saved[a], "insert")
  /\ UNCHANGED <<saved, chosen>>

ICacheEvict(l) == ICacheReplaces(l) /\ UNCHANGED chosen

-----------------------------------------------------------------------------
(* The insertion loop: find_repl_entry, then the write of the line. *)

(* A free way is not remembered as replaced. *)
InsertInFreeWay == FillFreeWay /\ UNCHANGED chosen

(* Mutant of LightestWays: the comparison is turned round. *)
HeaviestWays ==
  {w \in Ways :
     \E v \in OtherWays : /\ WeightAt(w) = WeightAt(v)
                          /\ \A u \in OtherWays : WeightAt(v) >= WeightAt(u)}

(* The lines that weigh as little as the lightest line of another PW. *)
LightestWays ==
  {w \in Ways :
     \E v \in OtherWays : /\ WeightAt(w) = WeightAt(v)
                          /\ \A u \in OtherWays : WeightAt(v) <= WeightAt(u)}

Locked(w) == \E i \in 1..RemoveLock : chosen[i] = w

Remember(w) ==
  chosen' = [i \in 1..RemoveLock |-> IF i = 1 THEN w ELSE chosen[i - 1]]

SelectLightest ==
  /\ pc = "insert"
  /\ FreeWays(entries) = {}
  /\ \E w \in Ways :
       /\ IsFirst(w, AgedOut(LightestWays))
       /\ \/ ~Locked(w) /\ ReplaceWay(w) /\ Remember(w)
          \/ /\ Locked(w)
             /\ pc' = "degrade"
             /\ rrpv' = [rrpv EXCEPT ![w] = MaxRrpv - 1]
             /\ UNCHANGED <<entries, cur, idx, saved, chosen>>

(* Mutants of AgeLightest: the PW's own lines age too, or ways age even    *)
(* when one has reached the maximum.                                       *)
AgeLightestAndOwn ==
  /\ pc = "insert"
  /\ FreeWays(entries) = {}
  /\ AgedOut(LightestWays) = {}
  /\ Age(LightestWays)
  /\ UNCHANGED <<entries, pc, cur, idx, saved, chosen>>

AgeLightestFirst ==
  /\ pc = "insert"
  /\ FreeWays(entries) = {}
  /\ Age(LightestWays \ OwnWays)
  /\ UNCHANGED <<entries, pc, cur, idx, saved, chosen>>

AgeLightest ==
  /\ pc = "insert"
  /\ FreeWays(entries) = {}
  /\ AgedOut(LightestWays) = {}
  /\ Age(LightestWays \ OwnWays)
  /\ UNCHANGED <<entries, pc, cur, idx, saved, chosen>>

DegradeSelect ==
  /\ pc = "degrade"
  /\ SelectAgedOut
  /\ \E w \in Ways : IsFirst(w, AgedOut(Ways)) /\ Remember(w)

DegradeAge ==
  /\ pc = "degrade"
  /\ AgeOthers
  /\ UNCHANGED chosen

-----------------------------------------------------------------------------
InsertionStep ==
  \/ InsertInFreeWay
  \/ SelectLightest
  \/ AgeLightest
  \/ DegradeSelect
  \/ DegradeAge

Next ==
  \/ \E a \in Starts : Lookup(a)
  \/ \E p \in Windows : EndAccumulate(p)
  \/ \E a \in Starts : FillPrefetch(a)
  \/ \E l \in ICacheLines : ICacheEvict(l)
  \/ InsertionStep

(* The simulator thread does not stop inside a loop whose body can run. *)
Spec == Init /\ [][Next]_vars /\ WF_vars(InsertionStep)

-----------------------------------------------------------------------------
(* Properties. *)

(* The ASSERTs of the REPL_PMC branch of find_repl_entry: a line of        *)
(* another PW exists (MAX_CTR != new_count_time), lines of the PW itself   *)
(* are only met after its first line (prevAddr == addr), and while the     *)
(* degraded search ages the set they still have their insertion value.     *)
CodeAssertions ==
  /\ pc # "idle" /\ FreeWays(entries) = {} => OtherWays # {}
  /\ pc # "idle" /\ OwnWays # {} => idx > 0
  /\ pc = "degrade" => \A w \in OwnWays : rrpv[w] = MaxRrpv - 1

(* The way w holds a line of another PW, and no other PW is lighter. *)
IsLightest(w) ==
  w \in OtherWays /\ \A v \in OtherWays : WeightAt(w) <= WeightAt(v)

LightestIsLocked == \E w \in Ways : IsLightest(w) /\ Locked(w)

(* The search degrades only because a lightest way is locked, and the lock *)
(* is still there when the degraded search ends.                           *)
DegradesByLock == pc = "degrade" => LightestIsLocked

(* The inductive invariant. *)
Inv == TypeOK /\ RripInv /\ DegradesByLock

(* The reason for the policy: a line is only taken from a PW that is not   *)
(* the lightest when a way of the lightest weight is locked.               *)
EvictsLightestUnlessLocked ==
  [][\A w \in Ways :
       (pc # "idle" /\ Valid(entries, w) /\ entries'[w] = [pw |-> cur, idx |-> idx])
         => IsLightest(w) \/ LightestIsLocked]_vars

(* A search takes MaxRrpv passes and a choice, twice if it degrades.       *)
SearchLeft ==
  IF pc = "degrade" THEN 1 + PassesLeft(OtherWays)
  ELSE IF FreeWays(entries) = {}
  THEN MaxRrpv + 2 + PassesLeft(LightestWays \ OwnWays)
  ELSE MaxRrpv + 2

WorkLeft == StepsLeft(2 * (MaxRrpv + 1), SearchLeft)

(* The steps of an insertion, at any time: at most so many for each way.   *)
WorkIsBounded == WorkLeft \in 0..(Assoc * (2 * (MaxRrpv + 1)))

(* No iteration of the loops of pw_insert and find_repl_entry is in vain:  *)
(* each brings the insertion nearer to its end by a count that cannot fall *)
(* below zero.  An aging pass could do nothing where the lines it ages are *)
(* not those that the search looks at, or where those at the maximum are   *)
(* passed over; a locked choice could be made again and again.             *)
InsertionProgress ==
  [][pc # "idle" => WorkLeft' \in 0..(WorkLeft - 1)]_vars

(* Both while loops of find_repl_entry and the insertion loop end: a PW    *)
(* whose insertion has begun is eventually in place.                       *)
InsertionEnds == pc # "idle" ~> pc = "idle"
=============================================================================
