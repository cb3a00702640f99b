------------------------------ MODULE FrontEnd ------------------------------
(***************************************************************************)
(* The loop that keeps the micro-op cache useful: fetch looks uops up in   *)
(* it, decode collects the uops that were not found into prediction        *)
(* windows, the windows enter the cache and are found the next time.  A    *)
(* lookup asks first for cur_pw, a copy of the window found last, and only *)
(* then for a window that starts at the address; branch statistics look up *)
(* as well and share cur_pw.                                               *)
(*                                                                         *)
(* The cache is what WindowCache promises, of windows of one line.  The    *)
(* wrong path is not fetched (FETCH_OFF_PATH_OPS is false); after a branch *)
(* that fetch could not follow it waits for a redirect or a recovery.      *)
(* Each instruction is one uop.                                            *)
(***************************************************************************)
EXTENDS Naturals, Sequences

CONSTANTS
  Addrs,          (* instruction addresses                                  *)
  LineSize,       (* instructions in an instruction-cache line              *)
  QueueSize,      (* UOP_QUEUE_SIZE                                         *)
  Ways,           (* lines of the micro-op cache                            *)
  Programs,       (* functions from addresses to the possible next ones     *)
  MaxFlight,      (* bound: uops between fetch and decode                   *)
  NoWindow        (* cleared: no window in cur_pw, no window being built    *)

ASSUME FrontEndAssumption ==
  /\ Addrs \subseteq Nat \ {0}
  /\ {LineSize, QueueSize, Ways, MaxFlight} \subseteq Nat \ {0}
  /\ Programs \subseteq [Addrs -> SUBSET Addrs \ {{}}]

VARIABLES
  program,   (* the program that runs                                       *)
  roomy,     (* nothing need leave the caches while it runs                 *)
  nextAddr,  (* ic->next_fetch_addr: the address of the next uop            *)
  last,      (* the address of the uop before                               *)
  packet,    (* progress of the packet, and uop_cache_fetch                 *)
  resteers,  (* redirects and recoveries to come before fetch goes on       *)
  search,    (* cur_pw and checkPrevAddr                                    *)
  promised,  (* the last lookup was for nextAddr and found it               *)
  queue,     (* fetched uops that are not decoded yet                       *)
  window,    (* accumulating_pw                                             *)
  resident   (* the windows in the micro-op cache                           *)

fetch == <<nextAddr, last, packet, resteers>>
lookup == <<search, promised>>
loopVars == <<program, roomy, fetch, lookup, queue, window, resident>>

Window == [first : Addrs, last : Addrs, lines : {1}]

ASSUME SentinelAssumption == NoWindow \notin Window

Cache == INSTANCE WindowCache WITH Assoc <- Ways, Windows <- Window

RangeOf(w) == w.first .. w.last
LineOf(a) == a \div LineSize

Between == [step |-> "none", cached |-> FALSE]

TypeOKLoop ==
  /\ program \in Programs /\ roomy \in BOOLEAN
  /\ nextAddr \in Addrs /\ last \in Addrs \cup {0}
  /\ packet \in [step : {"none", "lookup", "issue"}, cached : BOOLEAN]
  /\ resteers \in 0..2
  /\ search \in [pw : Window \cup {NoWindow}, prev : Addrs \cup {0}]
  /\ promised \in BOOLEAN
  /\ queue \in Seq([addr : Addrs, cached : BOOLEAN, ends : BOOLEAN])
  /\ Len(queue) <= MaxFlight
  /\ window \in Window \cup {NoWindow}
  /\ resident \subseteq Window

InitLoop ==
  /\ program \in Programs /\ roomy \in BOOLEAN
  /\ nextAddr \in Addrs /\ last = 0
  /\ packet = Between /\ resteers = 0
  /\ search = [pw |-> NoWindow, prev |-> 0] /\ promised = FALSE
  /\ queue = <<>> /\ window = NoWindow
  /\ Cache!Init

-----------------------------------------------------------------------------
(* in_uop_cache_search. *)

(* Mutant: the copy is also given up when an address is asked for again. *)
InCurrentOnce(s, a) ==
  s.prev < a /\ s.pw # NoWindow /\ a \in RangeOf(s.pw)

InCurrent(s, a) ==
  s.prev <= a /\ s.pw # NoWindow /\ a \in RangeOf(s.pw)

StartingAt(a) == {w \in resident : w.first = a}

Finds(s, a) == InCurrent(s, a) \/ StartingAt(a) # {}

Searched(s, a) ==
  [prev |-> a,
   pw   |-> CASE InCurrent(s, a)       -> s.pw
              [] ~Finds(s, a)          -> NoWindow
              [] OTHER                 -> CHOOSE w \in StartingAt(a) : TRUE]

-----------------------------------------------------------------------------
(* Fetch. *)

(* lookup_cache at the start of a packet or after a branch.  With UOPI_ACTUAL *)
(* a line that is not in the instruction cache ends the packet either way. *)
Lookup ==
  /\ \/ packet = Between /\ resteers = 0 /\ Len(queue) < MaxFlight
     \/ packet.step = "lookup"
  /\ search' = Searched(search, nextAddr)
  /\ promised' = Finds(search, nextAddr)
  /\ \/ packet' = [step |-> "issue", cached |-> packet.cached \/ Finds(search, nextAddr)]
     \/ ~roomy /\ packet' = Between
  /\ UNCHANGED <<program, roomy, nextAddr, last, resteers, queue, window, resident>>

(* packet_build for the uop at nextAddr: it comes from the cache if        *)
(* the packet does and it is found; if it is not, the packet ends.         *)
FromCache == packet.cached /\ Finds(search, nextAddr)

Issued(ends) ==
  /\ packet.step = "issue"
  /\ queue' = Append(queue, [addr |-> nextAddr, cached |-> FromCache, ends |-> ends])
  /\ last' = nextAddr
  /\ UNCHANGED <<program, roomy, window, resident>>

(* A full packet, a line end or MaxFlight may end the packet as well. *)
GoesOn(step) ==
  packet' \in {Between} \cup
    (IF Len(queue) + 1 >= MaxFlight \/ (packet.cached /\ ~FromCache) THEN {}
     ELSE {[packet EXCEPT !.step = step]})

IsBranch(a) == program[a] # {a + 1}

IssueUop ==
  /\ ~IsBranch(nextAddr)
  /\ Issued(FALSE)
  /\ nextAddr' = nextAddr + 1
  /\ search' = Searched(search, nextAddr)
  /\ promised' = FALSE
  /\ GoesOn("issue")
  /\ UNCHANGED resteers

(* Mutant of StatisticsAddr: the address that follows without a jump. *)
FallThrough(npc) == IF nextAddr + 1 \in Addrs THEN nextAddr + 1 ELSE npc

(* inc_bstat_fetched looks up the address of the uop that comes next. *)
StatisticsAddr(npc) == npc

(* A branch that is predicted right.  If it is taken the packet ends.      *)
IssueBranch ==
  /\ IsBranch(nextAddr)
  /\ \E npc \in program[nextAddr] :
       LET taken    == npc # nextAddr + 1
           searched == Searched(search, nextAddr)
       IN  /\ Issued(taken)
           /\ nextAddr' = npc
           /\ search' = Searched(searched, StatisticsAddr(npc))
           /\ promised' = Finds(searched, StatisticsAddr(npc))
           /\ IF taken THEN packet' = Between ELSE GoesOn("lookup")
           /\ UNCHANGED resteers

(* A branch that is mispredicted, misfetched or missing in the BTB: fetch  *)
(* waits for a redirect by decode or execution, a recovery, or both.       *)
IssueUnresolved ==
  /\ IsBranch(nextAddr)
  /\ \E npc \in program[nextAddr], predTaken \in BOOLEAN, n \in 1..2 :
       /\ Issued(predTaken \/ npc # nextAddr + 1)
       /\ nextAddr' = npc
       /\ resteers' = n
  /\ search' = Searched(search, nextAddr)
  /\ promised' = FALSE
  /\ packet' = Between

(* bp_sched_redirect or bp_sched_recovery, when the branch has reached the *)
(* last stage of decode: they look up the right address to know how long   *)
(* fetch will take.                                                        *)
Resteer ==
  /\ resteers > 0
  /\ Len(queue) <= 1
  /\ resteers' = resteers - 1
  /\ search' = Searched(search, nextAddr)
  /\ promised' = Finds(search, nextAddr)
  /\ UNCHANGED <<program, roomy, nextAddr, last, packet, queue, window, resident>>

-----------------------------------------------------------------------------
(* Decode and the contents of the cache. *)

(* insert_uop_cache for the windows of one uop.  If there is room, they    *)
(* take the place of those with the same start; else others may leave, or  *)
(* a policy may turn one away.                                             *)
Insert(handed) ==
  IF roomy
  THEN resident' = {w \in resident : \A h \in handed : h.first # w.first} \cup handed
  ELSE /\ resident' \in SUBSET (resident \cup handed)
       /\ Cache!Fits(resident')
       /\ handed = {} => resident' = resident

(* Mutant of EndAccumulate: the window stays open. *)
StayOpen == UNCHANGED window /\ Insert({})

EndAccumulate ==
  /\ window' = NoWindow
  /\ Insert(IF window = NoWindow THEN {} ELSE {window})

Accumulate(uop) ==
  LET endOfLine == window # NoWindow /\ LineOf(window.first) # LineOf(uop.addr)
      fresh     == window = NoWindow \/ endOfLine
      after     == [first |-> IF fresh THEN uop.addr ELSE window.first,
                    last  |-> uop.addr, lines |-> 1]
      full      == window # NoWindow /\ window.last - window.first + 2 > QueueSize
      closes    == uop.ends \/ full
  IN  /\ window' = IF closes THEN NoWindow ELSE after
      /\ Insert((IF endOfLine THEN {window} ELSE {})
                  \cup (IF closes THEN {after} ELSE {}))

DecodeUop ==
  /\ packet = Between
  /\ queue # <<>>
  /\ queue' = Tail(queue)
  /\ IF Head(queue).cached THEN EndAccumulate ELSE Accumulate(Head(queue))
  /\ UNCHANGED <<program, roomy, fetch, lookup>>

(* A line leaves the instruction cache, and with it the windows that start *)
(* in it.                                                                  *)
EvictLine ==
  /\ packet = Between
  /\ ~roomy
  /\ \E w \in resident :
       resident' = {v \in resident : LineOf(v.first) # LineOf(w.first)}
  /\ UNCHANGED <<program, roomy, fetch, lookup, queue, window>>

-----------------------------------------------------------------------------
FetchProceeds == Lookup \/ IssueUop \/ IssueBranch \/ IssueUnresolved

NextLoop == FetchProceeds \/ Resteer \/ DecodeUop \/ EvictLine

(* Every cycle, fetch and decode do what they can, and branches resolve. *)
SpecLoop ==
  /\ InitLoop /\ [][NextLoop]_loopVars
  /\ WF_loopVars(FetchProceeds)
  /\ WF_loopVars(Resteer)
  /\ WF_loopVars(DecodeUop)

-----------------------------------------------------------------------------
(* Properties. *)

(* What a lookup has found stays found until the uop is fetched, whatever  *)
(* is inserted or evicted in between: the latency that a redirect was      *)
(* given, and the choice to fetch from the micro-op cache, are right.      *)
FoundStaysFound == promised => Finds(search, nextAddr)

(* A window serves a uop other than its first only if it held the uop      *)
(* before, too: no lookup of another part makes fetch jump into a window.  *)
ServedFromItsStart ==
  InCurrent(search, nextAddr) => nextAddr = search.pw.first \/ last \in RangeOf(search.pw)

(* The inductive invariant.  What has been found is in cur_pw, where       *)
(* neither decode nor the cache can change it, since no window is empty:   *)
(* the uops in flight follow the program, and the window being built goes  *)
(* on with the next of them.                                               *)
Due(i) == IF i <= Len(queue) THEN queue[i].addr ELSE nextAddr

OnPath ==
  \A i \in 1..Len(queue) : ~queue[i].ends => Due(i + 1) = queue[i].addr + 1

NotEmpty(w) == w = NoWindow \/ w.first <= w.last

InvLoop ==
  /\ TypeOKLoop
  /\ packet.step # "none" => Len(queue) < MaxFlight
  /\ OnPath
  /\ window # NoWindow => Due(1) = window.last + 1
  /\ \A w \in resident \cup {search.pw, window} : NotEmpty(w)
  /\ promised => InCurrent(search, nextAddr)
  /\ ServedFromItsStart

(* If nothing has to leave the caches, all uops come from the micro-op     *)
(* cache from some time on, whichever way the branches go.                 *)
WarmsUp == roomy => <>[](\A i \in 1..Len(queue) : queue[i].cached)
=============================================================================
