---------------------------- MODULE ThermoCache ----------------------------
(***************************************************************************)
(* The Thermometer configuration of the micro-op cache (REPL_THERMO): the  *)
(* coldest PW is replaced, the least recent among equals; a PW that is     *)
(* colder than everything in a set without room for it is not inserted.    *)
(***************************************************************************)
EXTENDS StampCache

CONSTANT Weight   (* get_thermo_weight: a start's weight in thermo.csv *)

ASSUME WeightAssumption == Weight \in [Starts -> Nat]

vars == <<entries, pc, cur, idx, saved, uocPref, now, stage, stamp>>

(* Type invariant: no stamp is of a cycle to come. *)
TypeOK == TypeOKStamp

Init == InitStamp

WeightAt(w) == Weight[entries[w].pw.first]

-----------------------------------------------------------------------------
Lookup(a) == Hit(a)

(* Mutant of ShouldInsert: the comparison is turned round. *)
ShouldInsertColder(p) ==
  LET e == InvalidateAll(entries, p.first)
  IN  \/ Cardinality(FreeWays(e)) >= p.lines
      \/ \E w \in Ways : Valid(e, w) /\ WeightAt(w) >= Weight[p.first]

(* should_insert, decided when the lines with the same start are gone: the *)
(* ways those had count as free.                                           *)
ShouldInsert(p) ==
  LET e == InvalidateAll(entries, p.first)
  IN  \/ Cardinality(FreeWays(e)) >= p.lines
      \/ \E w \in Ways : Valid(e, w) /\ WeightAt(w) <= Weight[p.first]

EndAccumulate(p) == Decoded(p) /\ PwInsert(p, ShouldInsert(p))

FillPrefetch(a) ==
  Prefetched(a) /\ PwInsert(saved[a], ShouldInsert(saved[a]))

ICacheEvict(l) == ICacheReplaces(l)

(* The coldest ways that hold no line of the PW itself. *)
ColdestWays ==
  {w \in OtherWays : \A v \in OtherWays : WeightAt(w) <= WeightAt(v)}

SelectColdest ==
  /\ pc = "insert"
  /\ FreeWays(entries) = {}
  /\ \E w \in Oldest(ColdestWays) : InsertInto(w)

Next ==
  \/ \E a \in Starts : Lookup(a)
  \/ \E p \in Windows : EndAccumulate(p)
  \/ \E a \in Starts : FillPrefetch(a)
  \/ \E l \in ICacheLines : ICacheEvict(l)
  \/ FillFreeWay
  \/ SelectColdest
  \/ NextCycle

Spec == Init /\ [][Next]_vars

-----------------------------------------------------------------------------
(* Properties. *)

(* The ASSERTs of the REPL_THERMO branch of find_repl_entry: a victim is   *)
(* found, and lines of the PW itself are only met after its first one.     *)
CodeAssertions ==
  pc = "insert" => /\ FreeWays(entries) = {} => OtherWays # {}
                   /\ OwnWays # {} => idx > 0

(* An insertion into a full set starts with the eviction of a PW that is   *)
(* no hotter than the new one: should_insert compares with a minimum over  *)
(* the whole set before the loop, the loop looks for a minimum of its own. *)
FirstVictimIsNoHotter ==
  [][\A w \in Ways :
       (pc = "insert" /\ idx = 0 /\ Valid(entries, w) /\ entries'[w] # entries[w])
         => WeightAt(w) <= Weight[cur.first]]_vars

(* The inductive invariant: that of the set, and what should_insert has    *)
(* found out, until the first line is placed.  Nothing changes the set in  *)
(* between, and a free way makes the loop start without a victim.          *)
VictimIsKnown ==
  pc = "insert" /\ idx = 0 =>
    \/ FreeWays(entries) # {}
    \/ \E w \in Ways : Valid(entries, w) /\ WeightAt(w) <= Weight[cur.first]

Inv == TypeOK /\ CacheInv /\ pc \in {"idle", "insert"} /\ VictimIsKnown
=============================================================================
