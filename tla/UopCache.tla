------------------------------ MODULE UopCache ------------------------------
(***************************************************************************)
(* One set of Scarab's micro-op cache, as far as every replacement policy  *)
(* shares it: the line array of libs/cache_lib.c, the two ways in which a  *)
(* prediction window (PW) reaches pw_insert, the line-by-line insertion    *)
(* loop, and the invalidations.  A policy module EXTENDS this one, adds    *)
(* the replacement state it keeps and the choice of a victim.              *)
(*                                                                         *)
(* A PW is entered as a whole but stored line by line: each line occupies  *)
(* a way of the set that the first address of the PW indexes, and carries  *)
(* that address, the last one, and its place in the PW (the code's         *)
(* actual_addr).  The simulator is single threaded; the loops of           *)
(* pw_insert and find_repl_entry are steps here, with pc, cur and idx as   *)
(* the place reached in them, and nothing else runs until pc is "idle"     *)
(* again.  Sets do not interact, so one set is modelled.                   *)
(***************************************************************************)
EXTENDS Integers, FiniteSets

CONSTANTS
  Assoc,      (* UOP_CACHE_ASSOC, the number of ways                        *)
  Windows,    (* the PWs whose first address indexes this set               *)
  LineSize,   (* ICACHE_LINE_SIZE: the uop cache is indexed by the same     *)
              (* 64-byte lines as the instruction cache                     *)
  Invalid,    (* contents of a way whose valid flag is FALSE                *)
  NoWindow    (* no PW                                                      *)

(* A PW: Uop_Cache_Data with n_uops reduced to the lines it needs. *)
Window == [first: Nat, last: Nat, lines: Nat \ {0}]

(* A valid Cache_Entry: the PW it belongs to and which of its lines it is. *)
Line == [pw: Windows, idx: Nat]

ASSUME AssocAssumption    == Assoc \in Nat \ {0}
ASSUME WindowsAssumption  == Windows \subseteq Window
ASSUME LineSizeAssumption == LineSize \in Nat \ {0}
ASSUME SentinelAssumption == Invalid \notin Line /\ NoWindow \notin Windows

VARIABLES
  entries,    (* the ways of the set                                        *)
  pc,         (* "idle", or the loop of pw_insert the code is in            *)
  cur,        (* the PW being inserted                                      *)
  idx,        (* jj, the line of cur to be inserted next                    *)
  saved       (* pc_to_pw: by first address, the PW last handed to          *)
              (* insert_uop_cache                                           *)

cacheVars == <<entries, pc, cur, idx, saved>>

Ways   == 1..Assoc
Starts == {p.first : p \in Windows}

TypeOKCache ==
  /\ entries \in [Ways -> Line \cup {Invalid}]
  /\ pc \in {"idle", "room", "insert", "degrade"}
  /\ cur \in Windows \cup {NoWindow}
  /\ idx \in Nat
  /\ saved \in [Starts -> Windows \cup {NoWindow}]

InitCache ==
  /\ entries = [w \in Ways |-> Invalid]
  /\ pc = "idle"
  /\ cur = NoWindow
  /\ idx = 0
  /\ saved = [a \in Starts |-> NoWindow]

-----------------------------------------------------------------------------
(* Reading the set. *)

Valid(e, w)    == e[w] # Invalid
Holds(e, w, a) == Valid(e, w) /\ e[w].pw.first = a

FreeWays(e)   == {w \in Ways : ~Valid(e, w)}
HitWays(e, a) == {w \in Ways : Holds(e, w, a)}

(* The loops of the library run from way 0 upward and stop at the first    *)
(* way that qualifies.                                                     *)
IsFirst(w, S) == w \in S /\ \A v \in S : w <= v

(* The ways that find_repl_entry takes for lines of the PW it is making    *)
(* room for (entry->pw_start_addr == addr), and the others.                *)
OwnWays    == HitWays(entries, cur.first)
OtherWays  == Ways \ OwnWays

(* The PWs that are completely present, that is, what a lookup serves. *)
Resident(e) ==
  {p \in Windows :
     \A j \in 0..(p.lines - 1) : \E w \in Ways : e[w] = [pw |-> p, idx |-> j]}

(* The PWs that a lookup can hit: one line is enough for cache_access_all  *)
(* to find the PW.  No lookup runs while cur is being inserted.            *)
Visible ==
  {p \in Windows : /\ \E w \in Ways : Valid(entries, w) /\ entries[w].pw = p
                   /\ pc # "idle" => p # cur}

-----------------------------------------------------------------------------
(* Changing the set. *)

(* Mutant of InvalidateAll: one line instead of all, as cache_invalidate   *)
(* does.                                                                   *)
InvalidateOne(e, a) ==
  [w \in Ways |-> IF IsFirst(w, HitWays(e, a)) THEN Invalid ELSE e[w]]

(* cache_invalidate_all: every line of the PW that starts at a. *)
InvalidateAll(e, a) ==
  [w \in Ways |-> IF Holds(e, w, a) THEN Invalid ELSE e[w]]

Overwrite(e, w, p, j) == [e EXCEPT ![w] = [pw |-> p, idx |-> j]]

(* cache_insert_concat writes the line first; only then does pw_insert     *)
(* invalidate the rest of the victim, by the first address that the        *)
(* overwritten way had.  (Overwrite alone is the mutant of Place.)         *)
Place(e, w, p, j) ==
  IF Valid(e, w)
  THEN InvalidateAll(Overwrite(e, w, p, j), e[w].pw.first)
  ELSE Overwrite(e, w, p, j)

(* The ways that Place invalidates. *)
Wiped(e, w, p, j) ==
  IF Valid(e, w) THEN HitWays(Overwrite(e, w, p, j), e[w].pw.first) ELSE {}

(* UOP_INCLUSION == UOPI_ACTUAL: when the instruction cache replaces the   *)
(* line l, the PWs that start in it leave the uop cache.                   *)
InICacheLine(e, w, l) == Valid(e, w) /\ e[w].pw.first \div LineSize = l

DropICacheLine(e, l) ==
  [w \in Ways |-> IF InICacheLine(e, w, l) THEN Invalid ELSE e[w]]

ICacheLines == {a \div LineSize : a \in Starts}

-----------------------------------------------------------------------------
(* Control shared by the policies. *)

(* cache_access_size finds the very PW that is to be inserted. *)
SameWindowWays(p) ==
  {w \in HitWays(entries, p.first) : entries[w].pw.last = p.last}

(* Mutant of BeginInsertion: the old version of the PW stays. *)
BeginAlongside(p, loop) ==
  /\ entries' = entries
  /\ pc' = loop
  /\ cur' = p
  /\ idx' = 0

(* pw_insert up to its first loop, when nothing stops it: the lines of a   *)
(* PW with the same start and another end go.                              *)
BeginInsertion(p, loop) ==
  /\ entries' = InvalidateAll(entries, p.first)
  /\ pc' = loop
  /\ cur' = p
  /\ idx' = 0

(* Mutant of Advance: jj is not incremented. *)
AdvanceNowhere ==
  IF idx + 1 = cur.lines
  THEN pc' = "idle" /\ cur' = NoWindow /\ idx' = 0
  ELSE pc' = "insert" /\ cur' = cur /\ idx' = idx

(* The end of an iteration of the insertion loop. *)
Advance ==
  IF idx + 1 = cur.lines
  THEN pc' = "idle" /\ cur' = NoWindow /\ idx' = 0
  ELSE pc' = "insert" /\ cur' = cur /\ idx' = idx + 1

(* insert_uop_cache logs the PW before it tries to insert it. *)
SavePW(p) == saved' = [saved EXCEPT ![p.first] = p]

-----------------------------------------------------------------------------
(* Invariants that no policy may break. *)

(* A lookup by first address must find the lines of one PW only: pw_insert *)
(* removes the PW with the same start and another end before it inserts.   *)
OneWindowPerStart ==
  \A v, w \in Ways :
    Valid(entries, v) /\ Holds(entries, w, entries[v].pw.first)
      => entries[v].pw = entries[w].pw

(* Partial saving is not allowed: outside of an insertion, every line in   *)
(* the set belongs to a PW all of whose lines are in the set, so a hit     *)
(* never serves a PW whose other lines have been evicted.                  *)
WholeWindows ==
  pc = "idle" =>
    \A w \in Ways : Valid(entries, w) => entries[w].pw \in Resident(entries)

(* No line is stored twice: the ways of the set are not wasted. *)
NoDuplicateLine ==
  \A v, w \in Ways : Valid(entries, v) /\ entries[v] = entries[w] => v = w

(* While a PW is inserted, its lines are there up to the one to be placed  *)
(* next, and no others: an insertion continues where it was.               *)
OwnPrefix ==
  pc # "idle" =>
    /\ cur \in Windows /\ cur.lines <= Assoc /\ idx < cur.lines
    /\ \A w \in OwnWays : entries[w].pw = cur /\ entries[w].idx < idx
    /\ \A j \in 0..(idx - 1) : \E w \in Ways : entries[w] = [pw |-> cur, idx |-> j]

(* WholeWindows during an insertion: for all PWs but the one inserted. *)
OthersWhole ==
  \A w \in Ways :
    Valid(entries, w) /\ (pc # "idle" => entries[w].pw # cur)
      => entries[w].pw \in Resident(entries)

(* What holds of the set however ways are freed. *)
SetInv ==
  /\ TypeOKCache
  /\ OneWindowPerStart
  /\ NoDuplicateLine
  /\ OwnPrefix

(* The inductive invariant of the insertion. *)
CacheInv == SetInv /\ OthersWhole

(* An insertion never evicts a line that it has itself placed, and         *)
(* nothing else changes the PW while it is being inserted.                 *)
OwnLinesStay ==
  [][pc # "idle" =>
       \A w \in OwnWays : entries'[w] = entries[w]]_cacheVars

(* An insertion that comes to its end has brought in every line of the PW: *)
(* pw_insert does not look back, and the loop ends when jj has counted the *)
(* lines, whatever became of those it placed first.                        *)
InsertionCompletes ==
  [][pc # "idle" /\ pc' = "idle" => cur \in Resident(entries')]_cacheVars

(* The steps that pw_insert still takes at most, if the search for each    *)
(* further line takes no more than perLine and the one it is in no more    *)
(* than search.                                                            *)
StepsLeft(perLine, search) ==
  IF pc = "idle" THEN 0 ELSE (cur.lines - idx - 1) * perLine + search

(* The abstract cache, with what lookups can hit. *)
Promise == INSTANCE WindowCache WITH resident <- Visible

(* The set is a WindowCache, whatever the policy: the line-by-line         *)
(* insertion, the eviction of all other lines of a victim, and the removal *)
(* of another PW with the same start look together like a whole PW that    *)
(* enters at once.                                                         *)
ImplementsWindowCache == Promise!Spec
=============================================================================
