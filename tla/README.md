# Formal models of the micro-op cache of the UopRepl simulator

This directory is a verification project for `efeslab/UopRepl-Artifact`: a
Scarab-based simulator (`src/simulators/scarab_ipc_debug`) of a processor front
end with a micro-op (uop) cache, and the scripts that evaluate replacement
policies for that cache (LRU, SRRIP, GHRP, Thermometer, FOO/FLACK and the
profile-guided FURBYS). It contains TLA+ modules, TLC configurations and TLAPS
proofs. In this document `S/` stands for `src/simulators/scarab_ipc_debug/src/`.

1. [The system](#1-the-system)
2. [The modules and the code](#2-the-modules-and-the-code)
3. [What the runs check](#3-what-the-runs-check)
4. [What is proved](#4-what-is-proved)
5. [Disagreements between code and comments](#5-disagreements-between-code-and-comments)
6. [What is not modelled](#6-what-is-not-modelled)
7. [Plan](#7-plan)

## 1. The system

A *prediction window* (PW) is a straight run of uops that decode has produced
from one 64-byte instruction-cache line. The uop cache stores a PW under the
address of its first uop; a PW of `n` uops occupies `ceil(n / 8)` lines, all in
the set that its first address indexes. Fetch looks PWs up by their first
address; decode inserts those that were not found.

| component | where | state | operations | what makes it correct |
|---|---|---|---|---|
| uop cache, a set | `S/uop_cache.c`, `S/libs/cache_lib.c`, `cache_lib_repl.cc` | lines (valid, start, end, place in the PW), RRPV / stamp / weight of each, remembered victims, `pc_to_pw` | `in_uop_cache_search`, `pw_insert` + `find_repl_entry` + `cache_insert_concat`, `cache_invalidate_all`, `uop_cache_fill_prefetch`, eviction with an instruction-cache line | whole PWs only; one PW per start; the policy picks the victim it says it picks; loops end |
| PW accumulation | `accumulate_op`, `end_accumulate` in `S/uop_cache.c` | `accumulating_pw`, `uop_q`, `cons_op_num` | collect a uop, end the PW, hand it to the cache | a PW is a consecutive run in one line; nothing lost or duplicated; the queue does not overflow |
| uop cache lookup | `in_uop_cache`, `in_uop_cache_search` | static `cur_pw`, `checkPrevAddr`, `next_op_num` | search, serve from the current PW | what a lookup promised is kept; lookups of several callers do not disturb each other |
| instruction-cache stage | `S/icache_stage.c`, `S/packet_build.c` | state, next state, path flags, fetch address, line | fetch, wait for a miss, fill, recover, redirect | every wait ends, whatever order fills, redirects and recoveries come in |
| decode stage | `S/decode_stage.c` | pipeline slots | advance, move cached uops ahead, accumulate | program order is kept; each uop is accumulated once |
| cycle | `S/cmp_model.c` | `sim_time` | recovery, memory (fills), then back end to front end | order of the stages inside a cycle |
| branch prediction | `S/bp/` | predictor tables, recovery info | predict, schedule a recovery or a redirect | the recovery of the oldest wrong branch is not lost |
| memory, prefetchers, Ramulator | `S/memory/`, `S/prefetcher/`, `S/ramulator*` | request queues | request, fill | fills arrive eventually |
| back end | `map*.c`, `node_stage.c`, `exec_stage.c`, `dcache_stage.c`, `op_pool.c` | reorder buffer, ports | execute, retire, stall | upstream Scarab |
| front ends | `S/frontend/`, `S/pin/` | trace readers | fetch an op, redirect, recover | input |
| infrastructure | `statistics.c`, `libs/hash_lib.c`, `freq.c`, `dvfs/`, `power/` | counters, containers | | |
| FOO solver, profile scripts | `src/scripts/2-prepare-traces/`, `scripts/jenks*.py` | none (batch) | min-cost flow, natural breaks | weights and plans, taken as arbitrary here |

How they interact: in each simulated cycle `cmp_cycle` first applies a pending
branch recovery to all stages, then runs the memory system, whose fills call
back into the instruction cache (and, through prefetches, into the uop cache),
then the stages from the back end to the front end. Decode calls
`accumulate_op` for each uop that came from the instruction cache and
`end_accumulate` for each that came from the uop cache; `end_accumulate` calls
`insert_uop_cache`, and it `pw_insert`. Fetch calls `in_uop_cache` once for each
stretch of a packet (`lookup_cache`) and once for each uop (`packet_build`), and
so do the branch statistics and the scheduling of recoveries and redirects; all
share one static copy of the PW found last. Decode and execution schedule
redirects and recoveries, which the next cycles apply to every stage. With
`UOP_INCLUSION == UOPI_ACTUAL` the replacement of an instruction-cache line
removes the PWs that start in it.

The simulator is one thread; what makes it hard is not pre-emption but (a) the
line-by-line insertion of things that must be whole, with a replacement search
between any two lines, (b) events of one cycle that carry the same time stamp,
(c) recoveries that undo part of a stream that another part has already
consumed, (d) replacement state that outlives what it describes (remembered
victims, ages of lines, logged PWs, weights), and (e) search loops that end
only if aging makes progress, and (f) waits of the fetch stage that end only by
what another stage has scheduled. The list of hazards with their lines is in
`PROJECT.json`.

## 2. The modules and the code

```
                 WindowCache  <------------ FrontEnd   (lookup, fetch, building
                      ^  implements   uses              of windows, one loop)
                  UopCache              (one set, insertion line by line)
                 /        \
          RripCache        StampCache   (ages)   (time stamps)
          /      \          /       \
  FurbysCache SrripCache LruCache ThermoCache

  WindowBuilder                         (decode: from uops to windows)
  UopQueue  <--- implements --- DecodeStage  (decode: the pipeline of slots)
  FetchStage                            (fetch: waiting, resuming, recovering)
```

An `MC...` module instantiates each leaf for TLC (`MCWindows` has the PWs that the
cache instances share), a `...Proofs` module holds the theorems about each; the four
of the policies extend `UopCacheProofs`, the lemmas about the set itself. The theorems
about `FrontEnd` stand in `DecodeStageProofs`, which extends both: the queue of uops
that `FrontEnd` has between fetch and decode is what `DecodeStage` is proved to be, by way of
`UopQueue`. (Hence the
names of its own that `FrontEnd` has for what other modules have, too: `InitLoop`, `NextLoop`,
`SpecLoop`, `InvLoop`.)

**WindowCache** is the promise: a set holds whole windows, at most as many as
fit, at most one for each start; a window enters at once, perhaps at the
expense of others; windows may leave at any time.

**UopQueue** is the promise of the decode stage: uops come in numbered one after the other,
are handed to the accumulation once and in order, go on to the map stage when they have been
handed over, and are dropped by a recovery when they are younger.

**UopCache** has what every policy shares. `entries` is the array of
`Cache_Entry` of one set: `Invalid` for a way without its valid flag, otherwise
the PW and the index of the line in it (the code tells lines of a PW apart by
`actual_addr`). `pc`, `cur`, `idx` are the place reached in `pw_insert` (`idx`
is `jj`). `saved` is the hash table `pc_to_pw`. `BeginInsertion` is `pw_insert`
up to its loop: a PW with the same start and another end has been removed.
`Place` is one iteration: `cache_insert_concat` overwrites the chosen way, then
`cache_invalidate_all` removes all lines with the first address that the
overwritten way had. `DropICacheLine` is the inclusion hook of the
instruction cache.

**RripCache** adds the RRPV of each way, `Hit`, the free-way case, the SRRIP
search and its aging. **FurbysCache** is `REPL_PMC` as the evaluation
configures it: `Bypasses` is the decision in `end_accumulate` (static list,
then minimal weight of a full set), `SelectLightest`/`AgeLightest` the loop
over the lightest ways, `Locked`/`Remember` the eight `*_chosen_entry` fields
(as many as `UOP_CACHE_REMOVE_LOCK` uses), and `pc = "degrade"` the search over
the whole set after a locked way was chosen. The loops of the search are steps:
each `AgeLightest`, `AgeOthers`, `SelectLightest` is one iteration of a `while`.
**SrripCache** is `REPL_SRRIP`, with the loop of `UOP_RRIP_PW` that makes room
before the first line (`Missing` is not recomputed during it, as in the code).

**StampCache** adds `last_access_time` and the order of the calls in a cycle:
`stage` is the part that ran last, fills and prefetches come before decode and
decode before fetch. All insertions of one cycle share one stamp. Decode may
hand over several PWs in a cycle; those after the first are collected in that
cycle alone and therefore have one line (`issue_width` 4, 8 uops a line).
**LruCache** is `REPL_TRUE_LRU` and, with the parameter `ghrp`, `REPL_GHRP`:
`dead` is the prediction stored with each line, `Repredict` what a hit does to
the lines of the PW, `PredictInserted` the prediction that `pw_insert` makes for
the PW before its lines go in, `SelectDead` the search for a line predicted dead,
`SelectLeastRecent` the fallback. Only lookups with `update_repl` renew the
stamps (`Lookup`); the others do not (`LookupOnly`). **ThermoCache** is
`REPL_THERMO` with `should_insert`.

**WindowBuilder** is `accumulate_op`/`end_accumulate`, driven by every stream
of uops that `icache_issue_ops` can issue: uops of one instruction share its
address; instructions follow each other or branch; a mispredicted branch is
followed by the wrong path until `Recover` takes the stream back to the uop
after the branch and reuses the numbers. `handed` is what the last uop caused
to be handed to `insert_uop_cache`.

**DecodeStage** is `update_decode_stage` between a map stage that takes or stalls
and a fetch stage that offers any packet `packet_build` can build. `sds` are the
slots (0 is the last of the pipeline), `src` is `ic->sd`, which decode shortens
from the front. `Shift` is the first loop, `EmptyStageIdx`, `Appended`, `Moved`
and `MoveAhead` the second and third, `Processed` the uops handed to
`accumulate_op` or `end_accumulate`, in the two places where the code does it.
`phase` is the order of `cmp_cycle`. A recovery keeps the ops older than the branch
where they are (`Older`). The order of the program is stated over places: `At(s, ops, k)`
is slot `k`, or the packet of fetch behind the last one; `InOrder` compares any two
places, `Carries` says that a number is at some place.

**FetchStage** is `update_icache_stage` with `icache_issue_ops`, `packet_build`,
`icache_fill_line`, `recover_icache_stage` and `redirect_icache_stage`, and as
much of `bp.c`, decode, execution and retirement as schedules the events that end
its waits. `state` and `next` are the two state variables of the stage (an update
begins by taking over `next`), `ops` is `td->seq_op_list`, of which the last
`sdCount` are still in the stage and the first `decoded` have passed decode.
`recovery` and `redirect` are the two halves of `Bp_Recovery_Info`: `on` for a
cycle other than `MAX_CTR`, `due` once a cycle has passed. A packet is taken step
by step: `StartFetch`, then `LookupHit` or a miss (`lookup_cache`), then `Issue`
for each op. Latencies are arbitrary.

**FrontEnd** closes the loop: `Lookup` and `Issue...` are fetch with its two kinds
of lookups, `Resteer` the lookup in `bp_sched_redirect`/`bp_sched_recovery`,
`DecodeUop` accumulates and inserts, `EvictLine` is the inclusion in the instruction
cache. `search` is `cur_pw` with `checkPrevAddr`. The cache is an INSTANCE of
`WindowCache`, the promise that FURBYS, SRRIP (unless it makes room line by line), LRU
and GHRP (without prefetching) and Thermometer are proved to implement. The wrong path is not
fetched, as in the evaluation.

Some settings (`UOP_RRIP_PW`, prefetching into the uop cache,
`FETCH_OFF_PATH_OPS`, `SWITCH_IC_FETCH_ON_RECOVERY`, the bubble after a taken
branch, LRU or GHRP) are variables that are chosen in `Init` and never change
(`rripPw`, `uocPref`, `fetchOffPath`, `switchOnRecovery`, `bubble`, `ghrp`), so that one run covers both settings and
a property can say for which it holds.

Simplifications:

* One set. Sets share no state that the modelled operations read, except
  `pc_to_pw`, which is indexed by address.
* A PW is its first and last address and its number of lines. Uop counts matter
  only to statistics and to that number.
* Weights do not change during a run (a finished profile; `find_entry_count`
  yields 4 for unknown addresses). They are arbitrary natural numbers.
* In `WindowBuilder` the wrong path does not mispredict again, and one address
  stands for one instruction.
* A lookup that misses changes nothing that is modelled.
* The side cache and the ISO modes are off, as in the evaluation of FURBYS. The
  tables of GHRP answer arbitrarily.
* In `DecodeStage` an op is its number and whether it came from the uop cache; in
  `FetchStage`, what its prediction will cause; in `FrontEnd`, its address (each
  instruction is one uop and each PW one line, since only the range of a PW
  decides what it serves).
* In `FetchStage` a prefetched line is a miss that does not happen; requests of
  prefetchers change nothing that fetch waits for.
* `FetchStage` takes three settings as given: `FETCH_BREAK_ON_TAKEN` (a taken branch ends the
  packet, `S/icache_stage.c:884`; FALSE by default, set in `S/PARAMS.kaby_lake:24`),
  `ENABLE_ICACHE_PACKET_BREAKING` (a packet has at most `CFS_PER_CYCLE` branches and a branch
  is followed by a new lookup, `S/packet_build.c:264` and `:294`; TRUE by default), and that FDIP
  is off. `FETCH_ACROSS_CACHE_LINES` is covered with either value, since the end of a line may or
  may not end the packet.

## 3. What the runs check

`tlc -workers 2 -config <run>.cfg <module>` runs any of them.

| run | module | what it shows |
|---|---|---|
| `furbys` | MCFurbysCache | `TypeOK`, `WholeWindows`, the code's own `CodeAssertions`; `OwnLinesStay`, `EvictsLightestUnlessLocked`, `InsertionProgress`; the refinement `ImplementsWindowCache`; liveness `InsertionEnds` |
| `srrip` | MCSrripCache | whole PWs and refinement without `UOP_RRIP_PW`; with either setting `WindowsAgeTogether`, `InsertionCompletes`, `InsertionEnds` |
| `srrip_pw_partial` | MCSrripCache | `WholeWindows` is violated with `UOP_RRIP_PW` |
| `lru` | MCLruCache | LRU and GHRP: whole PWs and refinement without prefetching; `OneStampPerWindow` |
| `lru_prefetch` | MCLruCache | `WholeWindows` is violated when a prefetch and decode insert in one cycle |
| `thermo` | MCThermoCache | whole PWs, refinement, `CodeAssertions`; `FirstVictimIsNoHotter` |
| `builder` | MCWindowBuilder | `OneLinePerWindow`, `NothingLost`; on the right path `ConsecutiveOnPath`, `ExactRange` |
| `decode` | MCDecodeStage | `TypeOK` (the widths of the slots), `ProgramOrder`, `HandedInOrder`, the code's assertion `FirstSlotFreeUnlessStalled`; the refinement `ImplementsUopQueue`; liveness `EveryOpLeaves` |
| `fetch` | MCFetchStage | `TypeOK` (the width of a packet), `OffPathUntilRecovered`, `RedirectMeetsWaitingFetch`, `RecoveryIsScheduled`, `WaitEnds`, `NothingAfterBarrier`; liveness `FetchGoesOn` |
| `frontend` | MCFrontEnd | `FoundStaysFound`, `ServedFromItsStart`; liveness `WarmsUp` |
| `builder_recovery` | MCWindowBuilder | `ConsecutiveOps` is violated after a recovery |
| `builder_queue` | MCWindowBuilder | `UopQueueInBounds` is violated |

**The properties that matter.** `WholeWindows`: outside of an insertion a line
is in the set only with all other lines of its PW. Lookup relies on it: it asks
for the first address, counts the lines and serves the PW. `ImplementsWindowCache`
says the same of behaviours: seen from the lookups (`Visible`: a PW of which
there is a line, other than the one being inserted), each PW enters in one step
and leaves in one step, and everything fits. `OwnLinesStay`: a PW that needs
several ways never evicts itself while it is inserted; each policy achieves
that by other means (an exclusion in the search, an RRPV that aging must not
raise, a stamp that must be newer than another). `InsertionCompletes` is what that is
for: `pw_insert` counts lines and does not look back, and yet the PW is there. `EvictsLightestUnlessLocked`
is what FURBYS is for, with the exception that the code makes on purpose.
`WindowsAgeTogether`/`OneStampPerWindow`: the policy state is per line but
applies to PWs; it is sound because the lines of a PW never differ.

`ProgramOrder` and `HandedInOrder` are what `accumulate_op` takes for granted (its
ASSERT on `cons_op_num`) and what a comment of `update_decode_stage` doubts ("What
if there is a branch mispred? are instr properly flushed?"). `ImplementsUopQueue` says of
behaviours what these two say of states and steps, and adds that the map stage gets exactly the
uops that have been handed over and that a recovery drops exactly the younger ones; it lets
`FrontEnd` take decode for a queue. `WaitEnds` says of
each wait that something outstanding ends it, `RecoveryIsScheduled` that this
something is not dropped when branches resolve out of order, and `FetchGoesOn`
that it happens. `RedirectMeetsWaitingFetch` is the ASSERT of
`redirect_icache_stage`. `FoundStaysFound` and `ServedFromItsStart` are about
`cur_pw`: the copy outlives the PW, four callers share it, and yet the uop for
which a lookup chose the uop cache is found there, and a PW is not entered in the
middle because somebody else looked up an address of it. `WarmsUp` is why there is
a uop cache: the PWs that decode builds begin where fetch will look.

**Observed in FrontEnd** (TLC finds each of these in seconds as the negation of an
invariant; none contradicts a promise of the code that the models could be held
to):

* `in_uop_cache` may answer TRUE for an address that no PW in the set contains,
  although `S/uop_cache.h:24` says "return whether the instr pc is cached": `cur_pw`
  is not cleared when its PW leaves.
* A branch that was not taken when the PW was built, and is now taken forward to an
  address of the same PW, is followed inside that PW without a search.
* When a packet comes from the instruction cache, the per-uop lookups still set
  `cur_pw`; a later packet may thus begin in the middle of a PW from the uop cache.
* A PW may be replaced by a shorter one with the same start although there is room.

**Observed in FetchStage**: `packet_build` tests for a miss in the uop cache before it
tests for a fetch barrier (`S/packet_build.c:228` and `:259`), so a barrier that is
missed while the packet comes from the uop cache does not halt fetch, while
`S/table_info.h:136` says of `BAR_FETCH` "causes fetch to halt until a redirect
occurs". `NothingAfterBarrier` is about the barriers that `packet_build` recognises.

**Bounds.** Three ways are enough for a PW that fills the set, for two PWs that
compete while a third is inserted, and for one victim with several lines; the
windows of `MCWindows` include two ends of one start, two starts in one
instruction-cache line, PWs of one, two and three lines and one that does not
fit (four lines). Weights are equal, one apart and two apart, so that the
dynamic bypass (`min - 1`) happens and does not happen; the static bypass list
has one PW. Two locks of three ways leave lightest ways locked and not locked.
RRPVs have the two bits of the configuration. The models with clocks (`lru`,
`thermo`) stop after `MaxTime` 4 cycles, `lru_prefetch` after 5: two cycles fill
the set, one refreshes, one evicts. `builder` has five uops over two lines of three
instructions and a queue of three: a PW can fill its queue, end and begin
again, be cut by a line end, a branch and a cached uop, and be continued after
a recovery. `decode` has three slots of three uops and seven ops: a last slot that
stalls, a slot in between with room, and an empty one behind it exist at once, and
`IC_ISSUE_WIDTH` (2) is less than `UC_ISSUE_WIDTH` (3) as in the evaluation (4 and 8);
`MaxOps` bounds the numbers, which a recovery gives out again. `fetch` has packets
of two or three ops and takes from the stage while at most `Capacity` (3) ops are in
flight, so that up to three are past the stage and three in it: branches resolve in
any order, an older recovery meets a younger one that is scheduled, with a redirect
pending, and a recovery drops part of a packet; two lines let a recovery turn from the line it
waited for to another; the four settings cover each pair of values. `frontend` has
five addresses in two lines, a queue of two uops, so that PWs end by a full queue, a
line end and a branch, and two ways, so that some PW always has to leave unless
`roomy` is chosen; the programs are a loop with none, one or two branches that go
either way, and `MaxFlight` (3) uops may be fetched before they are decoded.

**Deadlock.** FURBYS, SRRIP, `decode`, `fetch` and `frontend` are checked for
deadlock. The other models have a bound on time or uops and stop there, so their
configurations turn the check off.

**Fairness.** In the caches `WF_vars(InsertionStep)`: inside `pw_insert` the simulator
thread runs alone, so an iteration that can run does run. Nothing else is fair
there: no lookup, insertion or eviction need ever happen. `InsertionEnds` thus says
that the `while` loops end by their own progress (each pass ages candidates
that have not reached the maximum), not by outside help.
`DecodeStage`: cycles follow each other (`WF_vars(Next)`), and the map stage does not
stall for ever (`SF_vars(MapTakes)`), which the back end owes it. `FetchStage`: the
stage is updated every cycle (`WF` of `FetchStep`); of what the other stages do,
something happens as long as anything can (`WF` of their disjunction, so no one
stage is promised anything); memory answers the request that fetch waits for
(`WF` of `Fill(lineAddr)`); and the lookup hits now and then (`SF` of `LookupHit`),
since a line that has been filled is looked up in the next cycle and memory has room
for a request sooner or later. `FrontEnd`: fetch, decode and the resolution of
branches proceed; nothing forces an eviction or prevents it, except in the runs where
`roomy` says that nothing has to leave, which is the premise of `WarmsUp`.

Every property has a mutant: a plausible mistake in a definition that TLC shows
to break it (`PROJECT.json`, "mutants"; the mutated forms stand before the
definitions in the modules).

## 4. What is proved

Every safety property of a passing run, and each of the five refinements, is a
theorem of the specification that the run checks; `tlapm <module>` checks the proofs:

| module | theorems about |
|---|---|
| `UopCacheProofs` | a set of the uop cache, for any policy (lemmas) |
| `FurbysCacheProofs`, `SrripCacheProofs`, `LruCacheProofs`, `ThermoCacheProofs` | the policies |
| `WindowBuilderProofs` | the accumulation of PWs |
| `DecodeStageProofs` | the decode pipeline; `FrontEnd` |
| `FetchStageProofs` | the fetch stage |

**Generality and assumptions.** The theorems hold for every value of the constants: any
associativity, set of PWs, profile, width of RRPV, number of locks up to eight; any depth
and width of the pipeline; any program, line size and length of a run. The clocks and
the numbers of ops are bounded by constants (`MaxTime`, `MaxOps`, `Capacity`,
`MaxFlight`) that are arbitrary here. What is assumed are the named `ASSUME`s of the
modules. Most only say what type a parameter has. `SentinelAssumption` (of
`UopCache` and of `FrontEnd`), `NoBranchAssumption` and a part of `FetchAssumption` say
that a marker ("no PW", "no branch", "no line") is no value of the kind it stands apart
from. `DecodeAssumption` and `FetchAssumption` say that a packet from the uop cache
is at least as wide as one from the instruction cache (`UC_ISSUE_WIDTH` 8 and
`IC_ISSUE_WIDTH` 4 in the evaluation). `AddrsAssumption` says that no
instruction is in line 0 of memory, since a line address of 0 means that no PW is open
(`S/uop_cache.c:871`).

| module | theorem | states |
|---|---|---|
| Furbys | `TypeCorrect`, `OneWindowPerStartHolds`, `NoDuplicateLineHolds`, `WholeWindowsHolds`, `CodeAssertionsHold` | `Spec => []` of the property |
| | `OwnLinesStayHolds`, `EvictsLightestHolds`, `InsertionCompletesHolds`, `InsertionProgressHolds` | the action properties |
| | `WorkIsBoundedHolds` | at most `2 * (MaxRrpv + 1)` steps for each way |
| | `Refinement` | `Spec => ImplementsWindowCache` |
| Srrip | `WindowsAgeTogetherHolds`, `OwnLinesStayHolds`, `InsertionCompletesHolds`, `InsertionProgressHolds`, `WorkIsBoundedHolds` | for both settings of `UOP_RRIP_PW` |
| | `WholeUnlessRoomIsMadeHolds`, `Refinement` | without that mode |
| Lru | `OneStampPerWindowHolds` | for LRU and GHRP, with and without prefetching |
| | `WholeWithoutPrefetchHolds`, `CompletesWithoutPrefetchHolds`, `Refinement` | without it |
| Thermo | `WholeWindowsHolds`, `CodeAssertionsHold`, `FirstVictimIsNoHotterHolds`, `InsertionCompletesHolds`, `Refinement` | for any profile |
| WindowBuilder | `ConsecutiveOnPathHolds`, `OneLinePerWindowHolds`, `ExactRangeHolds`, `NothingLostHolds`, `OverrunIsOneHolds` | for any program and any split of fetching |
| FetchStage | `TypeCorrect`, `OffPathUntilRecoveredHolds`, `RedirectMeetsWaitingFetchHolds`, `RecoveryIsScheduledHolds`, `WaitEndsHolds`, `NothingAfterBarrierHolds` | for the four settings |
| DecodeStage | `TypeCorrect`, `ProgramOrderHolds`, `FirstSlotFreeHolds`, `HandedInOrderHolds`, `Refinement` | for any depth and width |
| | `FoundStaysFoundHolds`, `ServedFromItsStartHolds` | the two invariants of `FrontEnd`, for any program |

Each module has a theorem `Invariance` (`LoopInvariance` for `FrontEnd`), `Spec => []Inv`,
from which the others follow. The invariants `Inv` stand in the modules of the model,
with their parts named; TLC has checked each on the instance of the run before it
was proved. `Inv` includes the type invariant everywhere.

**FURBYS.** `Inv == TypeOK /\ RripInv /\ DegradesByLock`, and `RripInv` adds `CacheInv`
and `OwnLinesFresh`.

* `WholeWindows` is not inductive: it says nothing during an insertion.
  `OthersWhole` extends it to all PWs but the one inserted.
* To conclude that the inserted PW is whole at the end, `OwnPrefix` says that
  exactly its lines below `idx` are there. A placed line must then not be
  evicted by the next search, so:
* `OwnLinesFresh`: the PW's own lines have RRPV `MaxRrpv - 1` throughout the
  insertion. The searches take only ways at `MaxRrpv`, and their aging passes
  over own lines; hence the victim is always a line of another PW
  (`AgedOutIsOther`), which is the argument for `OwnLinesStay`.
* `OneWindowPerStart` is what makes the invalidation of the victim's other
  lines, which goes by first address, remove that PW and no other.
* `DegradesByLock` carries the reason for a degraded search to its end and gives
  `EvictsLightestUnlessLocked`.

**Insertions end.** That is liveness and out of the prover's reach, but what it rests on is
not: `InsertionProgress`, each iteration of the loops lowers `WorkLeft`, a natural number, and
`WorkIsBounded`. The count takes the lines still to come, each with the steps of a whole search,
and for the search in progress `PassesLeft`, the distance of the oldest candidate from the
maximum. It falls with every aging pass because the ways that age are candidates and none of
them is at the maximum yet; there is a candidate because `OtherWaysExist`, and among
those a lightest one (`LightestExists`); a locked choice costs more than the whole degraded search
that follows. With the fairness that some step is taken, `InsertionEnds` follows (what is not proved is
that a step is enabled, which TLC checks). `InsertionCompletes` adds what has been
achieved then: `OwnPrefix` at the last line, and the line.

**SRRIP.** Here the invariant has to hold for the mode that clears flags line by line
too, in which PWs are not whole. It is therefore in two parts: `RripSetInv`, what
holds in both modes (one PW per start, no line twice, own lines fresh and below `idx`), with
`EquallyOld`, the lines of a PW have one RRPV at every step and not just between
insertions; and `OthersWhole` unless `rripPw`. That aging passes over the lines of the PW
being inserted does not break `EquallyOld`, because it passes over all of them.

**LRU and GHRP.** The search for the least recent line does not exclude the PW's own (the
search for a line predicted dead does). What keeps them is time: `OwnLinesNew`, the own lines have the stamp of this cycle, and `OthersEarlier`,
as long as a PW of several lines is inserted the lines of others are of earlier cycles; the
least recent line is then of another PW, or the other ways are empty. `OthersEarlier`
rests on the order of the stages: before decode no line has the stamp of this cycle,
and the PWs that decode enters after the first have one line. The prediction of the own
lines is `curDead`, so that they agree (`AlikeInPW`) while they come in. With prefetching only `AlikeInPW` survives, and
`OneStampPerWindow` with it; `lru_prefetch` is the counterexample to the rest.

**Thermometer.** `CacheInv` and `VictimIsKnown`: from `should_insert` to the first
replacement there is a free way or a line that is no hotter than the new PW. The minimum of
the loop is another one than that of `should_insert`, and by this fact no greater.

**Refinements.** Each step of a policy is an insertion of one whole PW with some others
leaving, a removal, or a stutter of what is `Visible`; the lemmas `PlaceIsPromised`,
`RemovalIsPromised` and `VisibleFits` are the same for all policies, the theorem of
each follows from its invariant. For SRRIP and LRU the mapping shows an empty set where the
setting is on for which there is no promise, so those theorems say nothing of it.

**Window builder.** `OpenInLine`, `OpenGoesOn` and `CountAhead` are about the open PW, so that
what is handed over later has the properties. On the right path the open PW goes on with
the next uop (`OpenGoesOn`), whence `ConsecutiveOnPath` and `ExactRange`; with the wrong path
`cons_op_num` runs ahead of the uops by no more than a recovery can drop (`CountAhead`), which
is all that keeps it in its range. `NothingLost` speaks of `FlattenSeq`, a recursive function; of the
one or two PWs that a step hands over its value is found by exhibiting a function that
satisfies its definition. `OverrunIsOne` is what does hold of the bound that the run `builder_queue`
shows to be exceeded: an open PW has at most `QueueSize` uops, since the uop that comes when it
has as many is collected and ends it, so that `uop_q` lacks one place and never more.

**FrontEnd.** `promised => InCurrent(search, next)`: what was found is in `cur_pw`,
and neither decode nor the cache writes that. `ServedFromItsStart` needs that the uops in
flight follow the program (`OnPath`), that the open PW ends before the next of them (`Due`),
and that no PW is empty (`NotEmpty`).

**Fetch stage.** `RecoveryMatches` and `RedirectMatches`: what is scheduled belongs to an op
in flight that is resolved. `LastOpHolds`: an op that resteers or halts fetch is the last one
fetched, since fetch waits from then on. With these, `RecoveryIsScheduled` and `WaitEnds` are
preserved by a resolution in any order: of two wrong branches the older one is the only one on
the path (`OnPathWrong` has at most one element), and a recovery flushes the other. `PacketFits`
bounds the packet while it is filled.

**Decode stage.** `LastSlotHanded`: exactly the ops of the last slot have been handed to the
accumulation, and the first of the others is the one that is due. Shifting, appending
and moving ahead are shown to be *rearrangements* (`PlacesMap` and the lemmas
`ShiftRearranges`, `AppendRearranges`, `MoveAheadRearranges`): a map from the places before to
the places after under which no op overtakes another and none is left out. The loops of
`update_decode_stage` are functions over the slots here, so that the lemmas need no induction over
data. `ProcessedIsWhatFollows` says what is handed in, `OlderIsPrefix` what a recovery leaves. `Refinement` maps the pipeline to the set
of the uops in flight, whatever slots they are in; the ops of one call are then
`handed + 1`, `handed + 2` and so on (`HandsOverRun`, by the least index for which it fails, in the
place of an induction).

**Layers.** `UopCacheProofs` has the facts about the set that no policy matters
for: what `Place` does (`PlaceEffect`, `PlaceKeepsOwn`), that beginning,
placing, dropping and leaving preserve `CacheInv`, that every one of these steps is
allowed by `WindowCache`, and that what is visible fits (`VisibleFits`, by an injection
from lines of windows into ways). `OtherWaysExist` counts: fewer own lines than the PW has,
and no more than the set has ways. The lemmas about the RRPVs stand in `FurbysCacheProofs`
and `SrripCacheProofs`, next to the specification that they are about, and the theorems follow
with one step per action.

**Only model-checked**: liveness (`InsertionEnds`, apart from the count that it rests on,
`EveryOpLeaves`, `FetchGoesOn`, `WarmsUp`), which is out of the prover's reach, and the
counterexamples. Conversely, some theorems state what is in no configuration, since the
configurations have it in a stronger or a more visible form: `OneWindowPerStart` is a part of
`ImplementsWindowCache`, `NoDuplicateLine` and
`OwnLinesStay` of SRRIP are parts of what `InsertionCompletes` needs, and `WorkIsBounded` goes with
`InsertionProgress`; `OverrunIsOne` is not true of the code's own bound, and says how far off it is.
The type
invariants of `LruCache`, `ThermoCache`, `WindowBuilder` and `FrontEnd` are in no configuration,
since the other properties of those runs say more; they are proved as parts of `Inv`.

## 5. Disagreements between code and comments

Each is a run that is expected to be violated.

* `srrip_pw_partial`: `S/uop_cache.c:230` clears valid flags line by line to make
  room; `S/uop_cache.c:333`: "uop_cache do not allow partial saving". The
  mode is off in the evaluation (`UOP_RRIP_PW`).
* `lru_prefetch`: the search of `REPL_TRUE_LRU` (`S/libs/cache_lib.c:2822`) has no
  exclusion of the PW's own lines, which line 2416 introduces for another
  policy as "Fix repeated evict lines from same PW". Harmless until two PWs
  of several lines enter in one cycle, which needs prefetching into the uop
  cache (off in the evaluation).
* `builder_queue`: `S/uop_cache.c:887-897` writes `uop_q[UOP_QUEUE_SIZE]` before
  the PW ends; line 852 promises an end when the queue is full. With 64-byte lines
  a PW of a hundred uops is rare. One place more is all that is missing (`OverrunIsOneHolds`).
* `builder_recovery`: the ASSERT at `S/uop_cache.c:877` fails after a recovery,
  because nothing resets the accumulation. The evaluation sets
  `fetch_off_path_ops` to false; the default (`S/core.param.def:163`) is TRUE. In the simulator as a
  whole this is the second assertion to fail: with a uop cache of finite size `in_uop_cache`
  counts the uops that are fetched in the same way, and for the same reason its ASSERT at
  `S/uop_cache.c:737` fails already when the first uop is fetched again after a recovery. With
  `INF_SIZE_UOP_CACHE`, where `in_uop_cache` returns at line 708, line 877 is the first.

## 6. What is not modelled

The components marked *not_modelled* or *partly* in `PROJECT.json`, with their
reasons. In short:

* **Predictors, memory timing, trace readers, statistics** decide when something
  happens or what a program is; the models leave both open. The offline scripts
  compute the weights, which the models take as arbitrary.
* **FOO/FLACK replay**: `pw_insert` has `ASSERT(0, 0)` for the case that a PW of the
  plan finds no room, and the search relies on the plan in the same way. The plan is
  the output of the offline solver for one trace; over an arbitrary plan the asserts
  fail at once, and a model of the plans that the solver can produce would be a model
  of the solver.
* **The side cache, SHiP++, Mockingjay, `REPL_NEW_OPT`, COMPRATE,
  EXECUTION_COUNT, the ISO modes**: not part of the evaluated configuration.
* **Instruction-cache stage**: FDIP and its queue, the late predictor
  (`USE_LATE_BP`), the prefetch cache and `ONE_MORE_CACHE_LINE_ENABLE`, all off in the
  evaluation; `UOP_INCLUSION` other than `UOPI_ACTUAL`.
* **FrontEnd**: the wrong path, several uops for one instruction, PWs of several
  lines. The first is where `cur_pw` could serve a PW to a stream that is dropped;
  it cannot be told from the right path by the cache.
* **Which lookups renew recency.** `lookup_cache` looks up without `update_repl` and
  sets `cur_pw`, so that the lookup of `packet_build`, which would renew the stamp,
  is answered from `cur_pw` and does not. A PW entered at the start of a packet is
  thus not refreshed under LRU and GHRP (RRPVs are reset by every hit). `LruCache`
  allows either at any time; nothing in the code says that it should refresh.
* **Other copies of the simulator** (`scarab_foo`, `scarab_getRipeTrace`,
  `scarab_getRawTrace`) are near copies that record traces.

## 7. Plan

Done: `UopCache`, `RripCache`, `FurbysCache` (the policy the repository is about) with
`WindowCache` and the refinement; `SrripCache`, `StampCache`, `LruCache` with GHRP,
`ThermoCache` (the baselines); `WindowBuilder`, `DecodeStage`, `FetchStage`,
`FrontEnd`; the proofs of all their safety properties and refinements. What is left:

1. FDIP: the runahead of prefetches, with the waits `IC_WAIT_FOR_FDIP`, as settings of
   `FetchStage`, and its theorems extended by them.
2. The hazards without a property in `PROJECT.json`, each with the reason: the plan of
   FOO, the side cache, the second victims of Thermometer.
