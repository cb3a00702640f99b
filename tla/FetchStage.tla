----------------------------- MODULE FetchStage -----------------------------
(***************************************************************************)
(* The instruction-cache stage and what it waits for.  Fetch issues ops    *)
(* from the uop cache or the instruction cache until something ends the    *)
(* packet, and then may have to wait: for a line from memory, for a        *)
(* redirect by decode or execution, for the reorder buffer to drain, or    *)
(* for a cycle.  Fills, redirects and recoveries end these waits, each     *)
(* scheduled by another part, and a recovery cancels what younger ops have *)
(* scheduled.                                                              *)
(*                                                                         *)
(* What the other stages do between two updates of this one may come in    *)
(* any order and number; latencies are arbitrary, but a recovery or a      *)
(* redirect takes at least until the next cycle.                           *)
(***************************************************************************)
EXTENDS Integers, Sequences, FiniteSetsExt

CONSTANTS
  Lines,        (* lines of the instruction cache                           *)
  IcWidth,      (* IC_ISSUE_WIDTH                                           *)
  UcWidth,      (* UC_ISSUE_WIDTH                                           *)
  CfsPerCycle,  (* CFS_PER_CYCLE                                            *)
  Capacity,     (* bound: decode takes ops while at most so many are known  *)
  Settings,     (* combinations of the three settings below                 *)
  NoLine

ASSUME FetchAssumption ==
  /\ IcWidth \in Nat \ {0}
  /\ UcWidth \in Nat /\ UcWidth >= IcWidth
  /\ CfsPerCycle \in Nat \ {0}
  /\ Capacity \in Nat /\ Capacity >= UcWidth
  /\ Settings \subseteq BOOLEAN \X BOOLEAN \X BOOLEAN
  /\ NoLine \notin Lines

VARIABLES
  state, next,     (* ic->state, ic->next_state                             *)
  offPath,         (* ic->off_path: the program has been left               *)
  backOnPath,      (* ic->back_on_path                                      *)
  lineAddr,        (* ic->line_addr: the line missed last                   *)
  requests,        (* lines requested from memory                           *)
  ops,             (* td->seq_op_list: ops in flight, oldest first          *)
  sdCount,         (* ic->sd.op_count: the last of them are still here      *)
  decoded,         (* so many of the first have passed decode               *)
  recovery,        (* bp_recovery_info: position of the recovering op       *)
  redirect,        (* the same for the redirecting op, 0 once it retired    *)
  packet,          (* progress of the packet being built                    *)
  fetchOffPath,    (* FETCH_OFF_PATH_OPS                                    *)
  switchOnRecovery,(* SWITCH_IC_FETCH_ON_RECOVERY                           *)
  bubble           (* FETCH_TAKEN_BUBBLE_CYCLES: one, or none               *)

stage == <<state, next, offPath, backOnPath>>
memory == <<lineAddr, requests>>
flight == <<ops, sdCount, decoded>>
settings == <<fetchOffPath, switchOnRecovery, bubble>>
vars == <<stage, memory, flight, recovery, redirect, packet, settings>>

IcacheState == {"fetch", "miss", "redirect", "emptyRob", "timer", "switch"}
Resolver == {"none", "decode", "exec"}

(* Of an op: whether it was fetched after a wrong prediction, whether its  *)
(* own prediction is wrong and not yet recovered, which stage is to        *)
(* redirect fetch because its target was missing in the BTB, whether it    *)
(* has been executed, and whether fetch took it for a barrier.             *)
FlightOp == [offPath : BOOLEAN, wrong : BOOLEAN, resolver : Resolver,
             done : BOOLEAN, barrier : BOOLEAN]

Positions == 0..(Capacity + UcWidth)
Pending == [on : BOOLEAN, due : BOOLEAN, at : Positions]
Nothing == [on |-> FALSE, due |-> FALSE, at |-> 0]

(* step: no packet, before a lookup, or inside a line; cached:             *)
(* uop_cache_fetch; cfs: break_conditions[NUM_CF].                         *)
NoPacket == [step |-> "none", cached |-> FALSE, cfs |-> 0]

TypeOK ==
  /\ state \in IcacheState /\ next \in IcacheState
  /\ offPath \in BOOLEAN /\ backOnPath \in BOOLEAN
  /\ lineAddr \in Lines \cup {NoLine} /\ requests \subseteq Lines
  /\ ops \in Seq(FlightOp)
  /\ sdCount \in 0..UcWidth /\ sdCount <= Len(ops)
  /\ decoded \in 0..(Len(ops) - sdCount)
  /\ recovery \in Pending /\ recovery.at <= decoded
  /\ redirect \in Pending /\ redirect.at <= decoded
  /\ packet \in [step : {"none", "lookup", "issue"}, cached : BOOLEAN,
                 cfs : 0..CfsPerCycle]
  /\ settings \in Settings

Init ==
  /\ state = "fetch" /\ next = "fetch"
  /\ offPath = FALSE /\ backOnPath = FALSE
  /\ lineAddr = NoLine /\ requests = {}
  /\ ops = <<>> /\ sdCount = 0 /\ decoded = 0
  /\ recovery = Nothing /\ redirect = Nothing
  /\ packet = NoPacket
  /\ \E s \in Settings :
       fetchOffPath = s[1] /\ switchOnRecovery = s[2] /\ bubble = s[3]

Between == packet.step = "none"

-----------------------------------------------------------------------------
(* bp.c: schedule a recovery or a redirect for the op at position i.       *)

(* Mutant: a later recovery replaces the one that is pending. *)
SchedLatestRecovery(i) == recovery' = [on |-> TRUE, due |-> FALSE, at |-> i]

SchedRecovery(i) ==
  IF ~recovery.on \/ i <= recovery.at
  THEN recovery' = [on |-> TRUE, due |-> FALSE, at |-> i]
  ELSE UNCHANGED recovery

SchedRedirect(i) ==
  IF ~redirect.on \/ i < redirect.at
  THEN redirect' = [on |-> TRUE, due |-> FALSE, at |-> i]
  ELSE UNCHANGED redirect

-----------------------------------------------------------------------------
(* Between two updates of the stage. *)

(* cmp_recover.  Ops after the recovering one leave every stage; a redirect *)
(* can only be one of theirs, or its own, and is cancelled.                *)

(* Mutants: the redirect stays scheduled; fetch goes on waiting; fetch is  *)
(* back on the right path although the op itself was not on it.            *)
KeepRedirect == UNCHANGED redirect
KeepNext == UNCHANGED next
AlwaysBackOnPath(r) == backOnPath' = TRUE

CancelRedirect == redirect' = Nothing

RecoverPath(r) == backOnPath' = ~ops[r].offPath

RecoverNext ==
  next' = IF next # "miss" \/ switchOnRecovery THEN "fetch" ELSE next

Recover ==
  LET r == recovery.at
  IN  /\ Between
      /\ recovery.on /\ recovery.due
      /\ ops' = [SubSeq(ops, 1, r) EXCEPT ![r].wrong = FALSE]
      /\ sdCount' = Max({0, sdCount - (Len(ops) - r)})
      /\ decoded' = Min({decoded, r})
      /\ recovery' = Nothing
      /\ CancelRedirect
      /\ RecoverPath(r)
      /\ RecoverNext
      /\ UNCHANGED <<state, offPath, memory, packet, settings>>

(* cmp_redirect.  An op that has retired was on the right path.            *)
Redirect ==
  LET r == redirect.at
  IN  /\ Between
      /\ redirect.on /\ redirect.due
      /\ redirect' = Nothing
      /\ backOnPath' = (r = 0 \/ ~(ops[r].offPath \/ ops[r].wrong))
      /\ next' = "fetch"
      /\ UNCHANGED <<state, offPath, memory, flight, recovery, packet,
                     settings>>

(* Mutant: a fill that comes before the stage has begun to wait is lost. *)
WakesUpLate(l) == lineAddr = l /\ state = "miss"

WakesUp(l) == lineAddr = l /\ (state = "miss" \/ next = "miss")

(* icache_fill_line.  Requests of prefetchers are left out: the fill of a  *)
(* line that fetch does not wait for changes nothing here, and a miss of a *)
(* line that has been requested joins that request.                        *)
Fill(l) ==
  /\ Between
  /\ l \in requests
  /\ requests' = requests \ {l}
  /\ next' = IF WakesUp(l) THEN "fetch" ELSE next
  /\ UNCHANGED <<state, offPath, backOnPath, lineAddr, flight, recovery,
                 redirect, packet, settings>>

(* The decode stage takes ops out of ic->sd, all or those moved ahead. *)
Take(left) ==
  /\ Between
  /\ left < sdCount
  /\ Len(ops) <= Capacity
  /\ sdCount' = left
  /\ UNCHANGED <<stage, memory, ops, decoded, recovery, redirect, packet, settings>>

(* stage_process_op for the next op that reaches the last decode stage. *)
Decode ==
  LET i == decoded + 1
  IN  /\ Between
      /\ i <= Len(ops) - sdCount
      /\ decoded' = i
      /\ IF ops[i].resolver = "decode"
         THEN /\ ops' = [ops EXCEPT ![i].resolver = "none"]
              /\ SchedRedirect(i)
         ELSE UNCHANGED <<ops, redirect>>
      /\ UNCHANGED <<stage, memory, sdCount, recovery, packet, settings>>

(* update_exec_stage for one op, in any order. *)
Exec(i) ==
  /\ Between
  /\ ~ops[i].done
  /\ ops' = [ops EXCEPT ![i].done = TRUE, ![i].resolver = "none"]
  /\ IF ops[i].wrong
     THEN SchedRecovery(i) /\ UNCHANGED redirect
     ELSE /\ UNCHANGED recovery
          /\ IF ops[i].resolver = "exec" THEN SchedRedirect(i)
             ELSE UNCHANGED redirect
  /\ UNCHANGED <<stage, memory, sdCount, decoded, packet, settings>>

Retires(op) == op.done /\ ~op.offPath /\ ~op.wrong

Earlier(p) == [p EXCEPT !.at = Max({0, p.at - 1})]

(* node_retire for the oldest op. *)
Retire ==
  /\ Between
  /\ decoded > 0
  /\ Retires(ops[1])
  /\ ops' = Tail(ops)
  /\ decoded' = decoded - 1
  /\ recovery' = Earlier(recovery)
  /\ redirect' = Earlier(redirect)
  /\ UNCHANGED <<stage, memory, sdCount, packet, settings>>

-----------------------------------------------------------------------------
(* update_icache_stage.  It first takes over next_state; what is scheduled *)
(* may happen from the next cycle on.                                      *)

NewCycle ==
  /\ Between
  /\ state' = next
  /\ recovery' = [recovery EXCEPT !.due = recovery.on]
  /\ redirect' = [redirect EXCEPT !.due = redirect.on]
  /\ UNCHANGED <<memory, flight, settings>>

(* ic->sd still has ops, or the state is one of those that only another    *)
(* part can end.                                                           *)
FetchNothing ==
  /\ NewCycle
  /\ \/ sdCount > 0
     \/ next \in {"miss", "redirect"}
     \/ next = "emptyRob" /\ ops # <<>>
  /\ UNCHANGED <<next, offPath, backOnPath, packet>>

(* The reorder buffer has drained, or the cycle to wait for is over. *)
WaitOver ==
  /\ NewCycle
  /\ sdCount = 0
  /\ \/ next \in {"timer", "switch"}
     \/ next = "emptyRob" /\ ops = <<>>
  /\ next' = "fetch"
  /\ UNCHANGED <<offPath, backOnPath, packet>>

StartFetch ==
  /\ NewCycle
  /\ sdCount = 0
  /\ next = "fetch"
  /\ offPath' = (offPath /\ ~backOnPath)
  /\ backOnPath' = FALSE
  /\ packet' = IF offPath' /\ ~fetchOffPath THEN NoPacket
               ELSE [NoPacket EXCEPT !.step = "lookup"]
  /\ UNCHANGED next

(* lookup_cache finds the line: inUc is what in_uop_cache says.  The flag  *)
(* uop_cache_fetch is only ever set.                                       *)

(* Mutant: the flag is set to what this lookup says. *)
CachedAfresh(inUc) == inUc

Cached(inUc) == packet.cached \/ inUc

LookupHit(inUc) ==
  /\ packet.step = "lookup"
  /\ packet' = [packet EXCEPT !.step = "issue", !.cached = Cached(inUc)]
  /\ UNCHANGED <<stage, memory, flight, recovery, redirect, settings>>

(* It does not: new_mem_req may have room for the request (or find one for *)
(* the line), or fetch tries again in the next cycle.                      *)
Misses ==
  /\ packet.step = "lookup"
  /\ packet' = NoPacket
  /\ UNCHANGED <<state, offPath, backOnPath, flight, recovery, redirect, settings>>

MissAccepted(l) ==
  /\ Misses
  /\ lineAddr' = l
  /\ requests' = requests \cup {l}
  /\ next' = "miss"

MissRefused == Misses /\ UNCHANGED <<memory, next>>

-----------------------------------------------------------------------------
(* icache_issue_ops for one op: packet_build, the prediction, and what     *)
(* follows for the packet.                                                 *)

(* What an op may be: an ordinary one, one that is a fetch barrier         *)
(* (system calls are branches that are never mispredicted), or a branch;   *)
(* a branch without a target, to be resolved by execution, is indirect     *)
(* and therefore predicted taken.                                          *)
Plain == [branch |-> FALSE, barrier |-> FALSE, taken |-> FALSE, wrong |-> FALSE,
          resolver |-> "none"]

FetchedOps ==
  {Plain, [Plain EXCEPT !.barrier = TRUE],
   [Plain EXCEPT !.barrier = TRUE, !.branch = TRUE, !.taken = TRUE]} \cup
  {o \in [branch : {TRUE}, barrier : {FALSE}, taken : BOOLEAN, wrong : BOOLEAN,
          resolver : Resolver] : o.resolver = "exec" => o.taken}

(* An op that is not found while the packet comes from the uop cache. *)
Missed(inUc) == packet.cached /\ ~inUc

(* IS_CALLSYS or BAR_FETCH, unless the op was missed, which packet_build   *)
(* tests first.                                                            *)
Halts(o, inUc) == o.barrier /\ ~Missed(inUc)

Width == IF packet.cached THEN UcWidth ELSE IcWidth

Cfs(o, inUc) ==
  IF o.branch /\ ~Missed(inUc) /\ ~Halts(o, inUc) THEN packet.cfs + 1
  ELSE packet.cfs

(* Whether the packet ends with this op, as far as packet_build and the    *)
(* prediction decide it (break_fetch), and why.                            *)
Break(o, inUc, lineEnd) ==
  IF o.wrong /\ ~fetchOffPath THEN "offPath"
  ELSE IF Missed(inUc) THEN "ucMiss"
  ELSE IF Halts(o, inUc) THEN "barrier"
  ELSE IF \/ Cfs(o, inUc) = CfsPerCycle
          \/ lineEnd
          \/ sdCount + 1 = Width
       THEN "full"
  ELSE "dont"

(* Mutant: a barrier does not make fetch wait. *)
StateAfterNoBarrier(o, inUc, lineEnd) ==
  IF o.resolver # "none" THEN "redirect"
  ELSE IF o.taken THEN IF bubble THEN "timer" ELSE "fetch"
  ELSE IF Break(o, inUc, lineEnd) = "ucMiss" THEN "switch" ELSE "fetch"

(* What icache_issue_ops returns after the op. *)
StateAfter(o, inUc, lineEnd) ==
  LET break == Break(o, inUc, lineEnd)
  IN  IF o.resolver # "none" THEN "redirect"
      ELSE IF break = "barrier" THEN "emptyRob"
      ELSE IF o.taken /\ bubble THEN "timer"
      ELSE IF break = "ucMiss" /\ ~o.taken THEN "switch"
      ELSE "fetch"

Issue(o, inUc, lineEnd) ==
  LET break == Break(o, inUc, lineEnd)
      ends  == break # "dont" \/ o.resolver # "none" \/ o.taken
  IN  /\ packet.step = "issue"
      /\ ops' = Append(ops, [offPath |-> offPath, wrong |-> o.wrong,
                             resolver |-> o.resolver, done |-> FALSE,
                             barrier |-> Halts(o, inUc)])
      /\ sdCount' = sdCount + 1
      /\ offPath' = (offPath \/ o.wrong)
      /\ packet' = IF ends THEN NoPacket
                   ELSE [packet EXCEPT !.cfs = Cfs(o, inUc),
                           !.step = IF o.branch THEN "lookup" ELSE "issue"]
      /\ next' = IF ends \/ o.branch THEN StateAfter(o, inUc, lineEnd) ELSE next
      /\ UNCHANGED <<state, backOnPath, memory, decoded, recovery, redirect,
                     settings>>

-----------------------------------------------------------------------------
FetchStep ==
  \/ FetchNothing
  \/ WaitOver
  \/ StartFetch
  \/ \E inUc \in BOOLEAN : LookupHit(inUc)
  \/ \E l \in Lines : MissAccepted(l)
  \/ MissRefused
  \/ \E o \in FetchedOps, inUc, lineEnd \in BOOLEAN : Issue(o, inUc, lineEnd)

OtherStages ==
  \/ Recover
  \/ Redirect
  \/ \E left \in 0..(UcWidth - 1) : Take(left)
  \/ Decode
  \/ \E i \in 1..decoded : Exec(i)
  \/ Retire

Next ==
  \/ FetchStep
  \/ OtherStages
  \/ \E l \in Lines : Fill(l)

(* Cycles follow each other; in the other stages something happens as long *)
(* as anything can; the line that fetch waits for arrives; of the lookups, *)
(* some hit.                                                               *)
Spec ==
  /\ Init /\ [][Next]_vars
  /\ WF_vars(FetchStep)
  /\ WF_vars(OtherStages)
  /\ WF_vars(Fill(lineAddr))
  /\ SF_vars(\E inUc \in BOOLEAN : LookupHit(inUc))

-----------------------------------------------------------------------------
(* Properties. *)

OnPathWrong == {i \in 1..Len(ops) : ops[i].wrong /\ ~ops[i].offPath}

(* ic->off_path, seen together with back_on_path, says exactly whether a   *)
(* branch of the program that was predicted wrong is still in flight, and  *)
(* what was fetched after that branch is marked.                           *)
OffPathUntilRecovered ==
  /\ (offPath /\ ~backOnPath) <=> OnPathWrong # {}
  /\ \A i \in 1..Len(ops) : ops[i].offPath <=> \E j \in OnPathWrong : j < i

(* The assertion of redirect_icache_stage; and no op is fetched between    *)
(* the op that redirects and the redirect, so that the pointer to it still *)
(* means that op, even if it has retired.                                  *)
RedirectMeetsWaitingFetch ==
  redirect.on =>
    /\ next = "redirect"
    /\ redirect.due => state = "redirect"
    /\ redirect.at \in {0, Len(ops)}

(* An op of the program that was executed with a wrong prediction has its  *)
(* recovery scheduled; else it would stay in the reorder buffer for ever.  *)
RecoveryIsScheduled ==
  \A i \in OnPathWrong : ops[i].done => recovery.on /\ recovery.at = i

(* Whatever fetch waits for, something outstanding will end the wait. *)
WaitEnds ==
  /\ next = "miss" => lineAddr \in requests
  /\ next = "redirect" =>
       \/ redirect.on
       \/ recovery.on
       \/ ops # <<>> /\ (ops[Len(ops)].resolver # "none" \/
                         \E i \in 1..Len(ops) : ops[i].wrong /\ ~ops[i].done)

(* Nothing is fetched after a barrier until all before it has retired. *)
NothingAfterBarrier ==
  \A i \in 1..(Len(ops) - 1) : ~ops[i].barrier

(* The inductive invariant.  What is scheduled belongs to an op that is in *)
(* flight, in the state that the scheduling left it in; nothing is fetched *)
(* after an op that resteers fetch or halts it, so that it is the last.    *)
RecoveryMatches ==
  IF recovery.on
  THEN recovery.at > 0 /\ ops[recovery.at].wrong /\ ops[recovery.at].done
  ELSE recovery.at = 0

RedirectMatches ==
  IF redirect.on
  THEN /\ next = "redirect" /\ (redirect.due => state = "redirect")
       /\ redirect.at = Len(ops)
       /\ ops # <<>> => ops[Len(ops)].resolver = "none"
  ELSE ~redirect.due /\ redirect.at = 0

LastOpHolds ==
  \A i \in 1..Len(ops) :
    /\ ops[i].done => ops[i].resolver = "none"
    /\ i <= decoded => ops[i].resolver # "decode"
    /\ ops[i].resolver # "none" => i = Len(ops) /\ next = "redirect"
    /\ ops[i].barrier => i = Len(ops) /\ next = "emptyRob" /\ ~ops[i].wrong

PacketFits ==
  /\ Len(ops) <= Capacity + sdCount
  /\ state = "miss" => next \in {"miss", "fetch"}
  /\ ~Between => /\ next = "fetch" /\ state = "fetch" /\ ~backOnPath
                /\ sdCount < Width /\ packet.cfs < CfsPerCycle

Inv ==
  /\ TypeOK
  /\ OffPathUntilRecovered
  /\ RecoveryIsScheduled
  /\ WaitEnds
  /\ RecoveryMatches
  /\ RedirectMatches
  /\ LastOpHolds
  /\ PacketFits

(* Fetch issues ops again and again. *)
FetchGoesOn == []<>(sdCount = 0) /\ []<>(sdCount > 0)
=============================================================================
