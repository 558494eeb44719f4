---------------------------- MODULE WorkSchedule ---------------------------
(***************************************************************************)
(* The kernel's work schedule (crates/prism-ecs-runtime/src/schedule.rs    *)
(* and inference.rs): one thread runs ticks of eight stages over the       *)
(* world, clients create and cancel work between any two of its steps, and *)
(* an external dispatcher runs what was dispatched.                        *)
(*                                                                         *)
(* A stage reads the world under the read lock and fills a command buffer; *)
(* the lock is dropped and the commands are submitted one by one, so what  *)
(* they were decided on may have changed when they run.  Each command does *)
(* to the world what KernelWorld says; a lease command is two steps, the   *)
(* coordinator first and the WorkState after it.                           *)
(*                                                                         *)
(* The first error of a submit ends the tick and drops what is left in the *)
(* buffer; so does the tick deadline, at the next stage.  The daemon's     *)
(* loop starts another tick 100 ms later.                                  *)
(***************************************************************************)
EXTENDS KernelWorld, SequencesExt

CONSTANTS
  Claims,            \* what a client's CreateWork can carry: NoMeta or Metas
  MaxWorks,          \* bound: work items created
  AdmissionCapacity, \* RuntimeSchedule.admission_capacity
  MaxInflightTokens, \* InferenceAdmissionPolicy.max_inflight_tokens
  MaxKvTokens,       \* InferenceAdmissionPolicy.max_kv_tokens
  PrefillLimit,      \* tokens per prefill dispatch: the least of the policy's
                     \* prefill_chunk_tokens and max_prefill_tokens_per_tick
                     \* and the claim's prefill_chunk_tokens
  MaxScan,           \* MAX_OBSERVE, MAX_PLAN, MAX_ADMIT_PER_TICK
  MaxBatch,          \* MAX_LEASE, MAX_DISPATCH, MAX_PUBLISH, MAX_CLEANUP
  MaxFaults,         \* bound: failed port calls and missed tick deadlines
  Lingers            \* bound: work whose execution may outlast its cancellation

\* What from_typed_resource_claim can build: nothing done yet, and at least
\* one token to generate.
from_typed_resource_claim ==
  {m \in Claims \ {NoMeta} : /\ m \in Metas
                             /\ m.phase = "Prefill"
                             /\ m.prefilled_tokens = 0
                             /\ m.generated_tokens = 0
                             /\ m.max_new_tokens > 0}

ASSUME ClaimsAssumption == Claims \ {NoMeta} = from_typed_resource_claim

ASSUME LimitsAssumption ==
  /\ {MaxWorks, AdmissionCapacity, PrefillLimit, MaxScan, MaxBatch} \subseteq Nat \ {0}
  /\ {MaxInflightTokens, MaxKvTokens, MaxFaults} \subseteq Nat
  /\ Lingers \subseteq 1 .. MaxWorks

VARIABLES
  world,      \* the world behind the RwLock: here, work entities only
  leases,     \* entities whose work-lease key is held at the coordinator
  stage,      \* the stage the tick is at, or "Idle" between ticks
  buffer,     \* what the stage emitted and is not yet submitted
  lease_step, \* the head is a lease command past the coordinator, or "none"
  late,       \* the stage was cut short by the tick deadline
  active,     \* active_dispatches: the number of handles held per entity
  job,        \* what poll would answer for the entity's dispatch
  stray,      \* entities with a cancelled dispatch that the backend still runs
  expired,    \* entities whose deadline_ms has passed
  faults

vars == <<world, leases, stage, buffer, lease_step, late, active, job, stray, expired,
          faults>>

tickVars     == <<stage, buffer, late, faults>>
dispatchVars == <<active, job, stray>>

Ids  == 1 .. MaxWorks
Jobs == {"none", "running", "completed", "failed"}

After == [Idle     |-> "Observe",  Observe |-> "Plan",    Plan    |-> "Admit",
          Admit    |-> "Lease",    Lease   |-> "Dispatch", Dispatch |-> "Collect",
          Collect  |-> "Publish",  Publish |-> "Cleanup", Cleanup |-> "Idle"]

TypeOK ==
  /\ world \in Seq(Entities) /\ Len(world) <= MaxWorks
  /\ leases \subseteq Ids
  /\ stage \in DOMAIN After
  /\ \A i \in DOMAIN buffer : IsCommand(buffer[i]) /\ buffer[i].entity \in DOMAIN world
  /\ lease_step \in {"none", "granted", "released"}
  /\ late \in BOOLEAN
  /\ active \in [Ids -> Nat]
  /\ job \in [Ids -> Jobs]
  /\ stray \subseteq Ids
  /\ expired \subseteq Ids
  /\ faults \in 0 .. MaxFaults

Init ==
  /\ world = <<>>
  /\ leases = {}
  /\ stage = "Idle"
  /\ buffer = <<>>
  /\ lease_step = "none"
  /\ late = FALSE
  /\ active = [e \in Ids |-> 0]
  /\ job = [e \in Ids |-> "none"]
  /\ stray = {}
  /\ expired = {}
  /\ faults = 0

(***************************************************************************)
(* What the stages read.                                                   *)
(***************************************************************************)

Works == DOMAIN world

Has(e, c) == c \in world[e].comps

InState(e, states) == world[e].state \in states

Meta(e) == world[e].meta

deadline_expired(e) == e \in expired

\* u32 saturation is out of reach of the bounds used here.
reserved_tokens(m) == m.kv_tokens + m.prompt_tokens + m.max_new_tokens

required_kv_tokens(m) == reserved_tokens(m)

\* Only inference work reserves tokens.
tokens_of(e) == IF Meta(e) = NoMeta THEN 0 ELSE reserved_tokens(Meta(e))

\* Work that counts against the admission capacity.
ActiveWorks == {e \in Works : InState(e, {"Ready", "Leased"}) /\ Has(e, "AdmittedMarker")}

\* What the work of S reserves, summed over the world in the order of the query.
ReservedBy(S) ==
  LET sum[n \in 0 .. Len(world)] ==
        IF n = 0 THEN 0 ELSE sum[n - 1] + (IF n \in S THEN tokens_of(n) ELSE 0)
  IN  sum[Len(world)]

ReservedTokens == ReservedBy(ActiveWorks)

\* Planned and not yet admitted: what Plan and Admit look at.
PlannedWorks == {e \in Works : /\ InState(e, {"Ready"})
                               /\ Has(e, "PlannedMarker")
                               /\ ~Has(e, "AdmittedMarker")}

priority(e) == IF Meta(e) = NoMeta THEN 0 ELSE Meta(e).priority

\* The members of S, each of them once, in the order Before.
Sorted(S, Before(_, _)) ==
  CHOOSE s \in SetToSeqs(S) : \A i, j \in DOMAIN s : i < j => Before(s[i], s[j])

\* sort_by_key(entity.id()) and truncate.
InIdOrder(S, limit) ==
  LET all == Sorted(S, <) IN SubSeq(all, 1, Min({limit, Len(all)}))

InPriorityOrder(S) ==
  Sorted(S, LAMBDA a, b : \/ priority(a) > priority(b)
                          \/ priority(a) = priority(b) /\ a < b)

next_prefill_end(m) == Min({m.prefilled_tokens + PrefillLimit, m.prompt_tokens})

\* Mutants: the whole chunk is charged to the KV cache even if the prompt ends
\* before it; the switch to decoding waits for more tokens than the prompt has.
next_after_prefillWholeChunk(m) ==
  LET end == next_prefill_end(m) IN
  [phase            |-> IF end >= m.prompt_tokens THEN "Decode" ELSE m.phase,
   prefilled_tokens |-> end,
   generated_tokens |-> m.generated_tokens,
   kv_epoch         |-> m.kv_epoch,
   kv_tokens        |-> m.kv_tokens + PrefillLimit]

next_after_prefillStrict(m) ==
  LET end == next_prefill_end(m) IN
  [phase            |-> IF end > m.prompt_tokens THEN "Decode" ELSE m.phase,
   prefilled_tokens |-> end,
   generated_tokens |-> m.generated_tokens,
   kv_epoch         |-> m.kv_epoch,
   kv_tokens        |-> m.kv_tokens + (end - m.prefilled_tokens)]

next_after_prefill(m) ==
  LET end == next_prefill_end(m) IN
  [phase            |-> IF end >= m.prompt_tokens THEN "Decode" ELSE m.phase,
   prefilled_tokens |-> end,
   generated_tokens |-> m.generated_tokens,
   kv_epoch         |-> m.kv_epoch,
   kv_tokens        |-> m.kv_tokens + (end - m.prefilled_tokens)]

next_after_decode(m) ==
  [phase            |-> "Decode",
   prefilled_tokens |-> m.prefilled_tokens,
   generated_tokens |-> m.generated_tokens + 1,
   kv_epoch         |-> m.kv_epoch,
   kv_tokens        |-> m.kv_tokens + 1]

is_complete_after_decode(m) == m.generated_tokens + 1 >= m.max_new_tokens

(***************************************************************************)
(* Running a stage.                                                        *)
(***************************************************************************)

Command(op, e, arg) == [op |-> op, entity |-> e, arg |-> arg]

Order(op, e) == Command(op, e, Blank)

CancelExpired(e) == Order("RequestCancellation", e)

AtStage(s) == stage = s /\ buffer = <<>>

\* The loop over `todo` got through its first n members, fewer than all only
\* when should_stop saw the tick deadline pass, and emitted cmds.  A stage
\* that emitted nothing is over; past the deadline, so is the tick.
Emit(n, todo, cmds) ==
  LET cut == n < Len(todo) IN
  /\ cut => faults < MaxFaults
  /\ faults' = IF cut THEN faults + 1 ELSE faults
  /\ buffer' = cmds
  /\ late' = (cut /\ cmds # <<>>)
  /\ stage' = IF cmds # <<>> THEN stage ELSE IF cut THEN "Idle" ELSE After[stage]

\* The commands of the first n members of todo, in order.
EmitFirst(n, todo, CommandsFor(_)) ==
  Emit(n, todo, FlattenSeq([i \in 1 .. n |-> CommandsFor(todo[i])]))

BeginTick ==
  /\ stage = "Idle"
  /\ stage' = After[stage]
  /\ UNCHANGED <<world, leases, buffer, lease_step, late, dispatchVars, expired, faults>>

Observe ==
  LET todo == InIdOrder({e \in Works : InState(e, {"Pending"}) /\ ~Has(e, "PlannedMarker")},
                        MaxScan) IN
  /\ AtStage("Observe")
  /\ \E n \in 0 .. Len(todo) :
       EmitFirst(n, todo, LAMBDA e : <<Order("MarkObserved", e)>>)
  /\ UNCHANGED <<world, leases, lease_step, dispatchVars, expired>>

Plan ==
  LET todo == InIdOrder(PlannedWorks, MaxScan) IN
  /\ AtStage("Plan")
  /\ \E n \in 0 .. Len(todo) :
       EmitFirst(n, todo, LAMBDA e : <<Order("RecordWorkPlan", e)>>)
  /\ UNCHANGED <<world, leases, lease_step, dispatchVars, expired>>

\* Mutant: one more than the capacity.
AvailableOneMore == IF Cardinality(ActiveWorks) > AdmissionCapacity
                      THEN 0 ELSE Min({AdmissionCapacity + 1 - Cardinality(ActiveWorks), MaxScan})

Available == IF Cardinality(ActiveWorks) >= AdmissionCapacity
               THEN 0 ELSE Min({AdmissionCapacity - Cardinality(ActiveWorks), MaxScan})

\* Mutant: what this round admits is not added to the reserved tokens.
AdmitOneUncounted(acc, e) ==
  LET m == Meta(e) IN
  IF acc.admitted >= Available
    THEN acc ELSE
  IF m # NoMeta /\ deadline_expired(e)
    THEN [acc EXCEPT !.cmds = Append(@, CancelExpired(e))] ELSE
  IF m # NoMeta /\ \/ required_kv_tokens(m) > MaxKvTokens
                   \/ acc.reserved + tokens_of(e) > MaxInflightTokens
    THEN acc
    ELSE [acc EXCEPT !.admitted = @ + 1, !.cmds = Append(@, Order("AdmitWork", e))]

\* One round of Admit's loop: past the capacity nothing happens any more;
\* expired work is cancelled; work whose tokens do not fit is passed over.
AdmitOne(acc, e) ==
  LET m == Meta(e) IN
  IF acc.admitted >= Available
    THEN acc ELSE
  IF m # NoMeta /\ deadline_expired(e)
    THEN [acc EXCEPT !.cmds = Append(@, CancelExpired(e))] ELSE
  IF m # NoMeta /\ \/ required_kv_tokens(m) > MaxKvTokens
                   \/ acc.reserved + tokens_of(e) > MaxInflightTokens
    THEN acc
    ELSE [admitted |-> acc.admitted + 1,
          reserved |-> acc.reserved + tokens_of(e),
          cmds     |-> Append(acc.cmds, Order("AdmitWork", e))]

Admit ==
  LET todo == InPriorityOrder(PlannedWorks)
      acc[i \in 0 .. Len(todo)] ==
        IF i = 0 THEN [admitted |-> 0, reserved |-> ReservedTokens, cmds |-> <<>>]
                 ELSE AdmitOne(acc[i - 1], todo[i]) IN
  /\ AtStage("Admit")
  /\ \E n \in 0 .. Len(todo) : Emit(n, todo, acc[n].cmds)
  /\ UNCHANGED <<world, leases, lease_step, dispatchVars, expired>>

Lease ==
  LET todo == InIdOrder({e \in Works : InState(e, {"Ready"}) /\ Has(e, "AdmittedMarker")},
                        MaxBatch) IN
  /\ AtStage("Lease")
  /\ \E n \in 0 .. Len(todo) :
       EmitFirst(n, todo, LAMBDA e : IF deadline_expired(e)
                                       THEN <<CancelExpired(e)>>
                                       ELSE <<Order("AcquireWorkLease", e)>>)
  /\ UNCHANGED <<world, leases, lease_step, dispatchVars, expired>>

\* What provider selection, artifact validation and the dispatcher's start
\* can come to: started, start failed, or refused before the intent.
StartOutcomes == {"started", "start_failed", "refused"}

already_active(e) == active[e] > 0

Dispatches(e) == ~already_active(e) /\ ~deadline_expired(e)

DispatchCommands(e, outcome) ==
  IF already_active(e) THEN <<>> ELSE
  IF deadline_expired(e) THEN <<CancelExpired(e)>> ELSE
  CASE outcome = "started"      -> <<Order("RecordDispatchIntent", e)>>
    [] outcome = "start_failed" -> <<Order("RecordDispatchIntent", e), Order("FailWork", e)>>
    [] outcome = "refused"      -> <<Order("FailWork", e)>>

\* The dispatcher is started while the stage runs, before the intent command.
Dispatch ==
  LET todo == InIdOrder({e \in Works : InState(e, {"Leased"}) /\ Has(e, "AdmittedMarker")},
                        MaxBatch) IN
  /\ AtStage("Dispatch")
  /\ \E n \in 0 .. Len(todo), out \in [Range(todo) -> StartOutcomes] :
       LET started == {e \in Range(SubSeq(todo, 1, n)) :
                         Dispatches(e) /\ out[e] = "started"} IN
       /\ EmitFirst(n, todo, LAMBDA e : DispatchCommands(e, out[e]))
       /\ active' = [e \in Ids |-> IF e \in started THEN active[e] + 1 ELSE active[e]]
       /\ job' = [e \in Ids |-> IF e \in started THEN "running" ELSE job[e]]
  /\ UNCHANGED <<world, leases, lease_step, stray, expired>>

\* The handle is given up: the work was cancelled or expired, or poll was final.
GivesUp(e) == InState(e, {"Cancelled"}) \/ deadline_expired(e) \/ job[e] # "running"

CollectCommands(e) ==
  LET m == Meta(e) IN
  IF InState(e, {"Cancelled"}) THEN <<>> ELSE
  IF deadline_expired(e)       THEN <<CancelExpired(e)>> ELSE
  CASE job[e] = "running" -> <<>>
    [] job[e] = "failed"  -> <<Order("FailWork", e)>>
    [] job[e] = "completed" ->
         IF m = NoMeta THEN <<Order("CompleteWork", e)>> ELSE
         IF m.phase = "Prefill"
           THEN <<Command("AdvanceInference", e, next_after_prefill(m))>> ELSE
         IF is_complete_after_decode(m)
           THEN <<Order("CompleteWork", e)>>
           ELSE <<Command("AdvanceInference", e, next_after_decode(m))>>

\* cancel is a request whose answer nobody looks at: it may fail, and a backend
\* that accepts it stops when it comes to look.  The handle goes at once.
\* swap_remove leaves the handles in no particular order.
Collect ==
  /\ AtStage("Collect")
  /\ \E todo \in SetToSeqs({e \in Ids : already_active(e)}) : \E n \in 0 .. Len(todo) :
       LET dropped == {e \in Range(SubSeq(todo, 1, n)) : GivesUp(e)}
           alive   == {e \in dropped : job[e] = "running"} IN
       /\ EmitFirst(n, todo, CollectCommands)
       /\ active' = [e \in Ids |-> IF e \in dropped THEN active[e] - 1 ELSE active[e]]
       /\ job' = [e \in Ids |-> IF e \in dropped THEN "none" ELSE job[e]]
       /\ \E left \in SUBSET (alive \cap Lingers) : stray' = stray \cup left
  /\ UNCHANGED <<world, leases, lease_step, expired>>

Publish ==
  LET todo == InIdOrder({e \in Works : InState(e, {"Completed"}) /\ ~Has(e, "PublishedMarker")},
                        MaxBatch) IN
  /\ AtStage("Publish")
  /\ \E n \in 0 .. Len(todo) :
       EmitFirst(n, todo, LAMBDA e : <<Order("PublishResult", e)>>)
  /\ UNCHANGED <<world, leases, lease_step, dispatchVars, expired>>

\* Mutant: the limit of this stage is not that of Publish.
CleanupUnlimited ==
  LET todo == InIdOrder({e \in Works : IsTerminal(world[e].state)}, MaxScan) IN
  /\ AtStage("Cleanup")
  /\ \E n \in 0 .. Len(todo) :
       EmitFirst(n, todo, LAMBDA e : <<Order("ReleaseWorkLease", e),
                                       Order("ExpireTransientState", e)>>)
  /\ UNCHANGED <<world, leases, lease_step, dispatchVars, expired>>

Cleanup ==
  LET todo == InIdOrder({e \in Works : IsTerminal(world[e].state)}, MaxBatch) IN
  /\ AtStage("Cleanup")
  /\ \E n \in 0 .. Len(todo) :
       EmitFirst(n, todo, LAMBDA e : <<Order("ReleaseWorkLease", e),
                                       Order("ExpireTransientState", e)>>)
  /\ UNCHANGED <<world, leases, lease_step, dispatchVars, expired>>
(***************************************************************************)
(* Submitting what the stage emitted.                                      *)
(***************************************************************************)

\* The head was answered Ok.
Pop ==
  LET rest == Tail(buffer)
      over == rest = <<>> IN
  /\ buffer' = rest
  /\ stage' = IF ~over THEN stage ELSE IF late THEN "Idle" ELSE After[stage]
  /\ late' = (late /\ ~over)
  /\ UNCHANGED faults

\* The head was answered with an error: run_tick returns.
Abort ==
  /\ buffer' = <<>>
  /\ stage' = "Idle"
  /\ late' = FALSE

FaultBudget == faults < MaxFaults /\ faults' = faults + 1

\* The head of the buffer, not yet past the lease coordinator.
Submits(ops) == buffer # <<>> /\ lease_step = "none" /\ Head(buffer).op \in ops

Target == Head(buffer).entity

SubmitCommand ==
  LET r == Execute(world, Head(buffer)) IN
  /\ Submits(InfrastructureOps \cup LifecycleOps)
  /\ r.ok
  /\ world' = r.world
  /\ Pop
  /\ UNCHANGED <<leases, lease_step, dispatchVars, expired>>

AcquireLease ==
  /\ Submits({"AcquireWorkLease"})
  /\ Target \notin leases
  /\ leases' = leases \cup {Target}
  /\ lease_step' = "granted"
  /\ UNCHANGED <<world, tickVars, dispatchVars, expired>>

\* Mutant: the coordinator is not told.
ReleaseLeaseLocally ==
  /\ Submits({"ReleaseWorkLease"})
  /\ lease_step' = "released"
  /\ UNCHANGED <<world, leases, tickVars, dispatchVars, expired>>

ReleaseLease ==
  /\ Submits({"ReleaseWorkLease"})
  /\ leases' = leases \ {Target}
  /\ lease_step' = "released"
  /\ UNCHANGED <<world, tickVars, dispatchVars, expired>>

\* The second half of a lease command, under the world lock.
SetLeaseState ==
  /\ lease_step # "none"
  /\ world' = put_state(world, Target,
                        IF lease_step = "granted" THEN "Leased" ELSE "Ready", {}).world
  /\ lease_step' = "none"
  /\ UNCHANGED <<leases, dispatchVars, expired>>

FinishLease == SetLeaseState /\ Pop

\* Acquire's complete call failed: the state is set, the caller sees an error.
FinishLeaseFault == lease_step = "granted" /\ SetLeaseState /\ FaultBudget /\ Abort

\* What submit answers with an error whatever the ports do.
IsRefused(c) ==
  IF c.op \in LeaseOps THEN c.op = "AcquireWorkLease" /\ c.entity \in leases
                       ELSE ~Execute(world, c).ok

\* submit failed before it changed anything: the kernel refused the command,
\* or admit or the coordinator failed.
SubmitFails ==
  /\ buffer # <<>> /\ lease_step = "none"
  /\ IF IsRefused(Head(buffer)) THEN faults' = faults ELSE FaultBudget
  /\ Abort
  /\ UNCHANGED <<world, leases, lease_step, dispatchVars, expired>>

\* "tick deadline exceeded at stage": noticed before the stage's system runs.
TickDeadline ==
  /\ stage # "Idle" /\ buffer = <<>>
  /\ FaultBudget
  /\ Abort
  /\ UNCHANGED <<world, leases, lease_step, dispatchVars, expired>>

(***************************************************************************)
(* The clients and the environment.                                        *)
(***************************************************************************)

ClientSubmits(c) ==
  /\ world' = Execute(world, c).world
  /\ UNCHANGED <<leases, tickVars, lease_step, dispatchVars, expired>>

CreateWork(claim) ==
  /\ Len(world) < MaxWorks
  /\ ClientSubmits(Command("CreateWork", 0, claim))

RequestCancellation(e) ==
  /\ ~IsTerminal(world[e].state)
  /\ ClientSubmits(Order("RequestCancellation", e))

\* External: the dispatched work ends, one way or the other.
DispatchEnds(e, outcome) ==
  /\ job[e] = "running"
  /\ job' = [job EXCEPT ![e] = outcome]
  /\ UNCHANGED <<world, leases, tickVars, lease_step, active, stray, expired>>

\* External: an execution that outlasted its cancellation is over.
StrayEnds(e) ==
  /\ stray' = stray \ {e}
  /\ UNCHANGED <<world, leases, tickVars, lease_step, active, job, expired>>

\* The wall clock reaches the deadline_ms of e; 0 means no deadline.
DeadlinePasses(e) ==
  /\ Meta(e) # NoMeta
  /\ Meta(e).deadline_ms # 0
  /\ e \notin expired
  /\ expired' = expired \cup {e}
  /\ UNCHANGED <<world, leases, tickVars, lease_step, dispatchVars>>

\* External: the coordinator drops a lease whose TTL ran out.
LeaseExpires(e) ==
  /\ leases' = leases \ {e}
  /\ UNCHANGED <<world, tickVars, lease_step, dispatchVars, expired>>

(***************************************************************************)
(* The specification.                                                      *)
(***************************************************************************)

RunStage == \/ Observe \/ Plan \/ Admit \/ Lease
            \/ Dispatch \/ Collect \/ Publish \/ Cleanup

SubmitNext == SubmitCommand \/ AcquireLease \/ ReleaseLease \/ FinishLease

Tick == \/ BeginTick \/ RunStage \/ SubmitNext
        \/ FinishLeaseFault \/ SubmitFails \/ TickDeadline

Client == \/ \E claim \in Claims : CreateWork(claim)
          \/ \E e \in Works : RequestCancellation(e)

Environment == \/ \E e \in Ids, outcome \in {"completed", "failed"} : DispatchEnds(e, outcome)
               \/ \E e \in stray : StrayEnds(e)
               \/ \E e \in Works : DeadlinePasses(e)
               \/ \E e \in leases : LeaseExpires(e)

Next == Tick \/ Client \/ Environment

Spec == Init /\ [][Next]_vars

\* The tick thread keeps running and every dispatch ends.  Clients owe nothing,
\* deadlines need not pass, and ports fail at most MaxFaults times.
Fairness ==
  /\ WF_vars(Tick)
  /\ \A e \in Ids : WF_vars(\E outcome \in {"completed", "failed"} : DispatchEnds(e, outcome))

FairSpec == Spec /\ Fairness

(***************************************************************************)
(* Properties.                                                             *)
(***************************************************************************)

\* No command a tick submits is refused, however late it is submitted after
\* the view it was decided on: progress never regresses under a concurrent
\* client, and a lease is free when the schedule asks for it, so a tick ends
\* early only for a port failure or its deadline.
TickCommandsAccepted == Submits(InfrastructureOps \cup LifecycleOps \cup LeaseOps)
                          => ~IsRefused(Head(buffer))

\* The counters of inference work tell one story through chunking, retried
\* dispatches, lost commands and re-execution: the KV length is the claim's
\* plus every token prefilled or generated, and neither exceeds the claim.
ProgressConserved ==
  \A e \in Works : Meta(e) # NoMeta =>
    \E c \in Claims \ {NoMeta} :
      /\ [Meta(e) EXCEPT !.phase = c.phase, !.prefilled_tokens = 0,
                         !.generated_tokens = 0, !.kv_tokens = c.kv_tokens] = c
      /\ Meta(e).kv_tokens = c.kv_tokens + Meta(e).prefilled_tokens + Meta(e).generated_tokens
      /\ Meta(e).prefilled_tokens <= c.prompt_tokens
      /\ Meta(e).generated_tokens < c.max_new_tokens
      /\ Meta(e).phase = "Decode" => Meta(e).prefilled_tokens = c.prompt_tokens

\* A result is published before it is discarded: work leaves Completed only
\* with the marker on, although a tick may be aborted between any two commands,
\* Publish and Cleanup each stop at a limit of their own and Cleanup has more
\* kinds of work to count, and clients cancel other work in between.
PublishedBeforeDiscarded ==
  [][\A e \in Works : (InState(e, {"Completed"}) /\ world'[e].state # "Completed")
                         => Has(e, "PublishedMarker")]_vars

NewlyAdmitted == {e \in Works : "AdmittedMarker" \notin world[e].comps
                               /\ "AdmittedMarker" \in world'[e].comps}

\* The step that admits work leaves the number of admitted, unfinished items
\* within the capacity, although it was computed on a view that clients may
\* have changed since.
AdmissionWithinCapacity ==
  [][NewlyAdmitted # {} => Cardinality(ActiveWorks') <= AdmissionCapacity]_vars

\* Likewise for the tokens that admitted work reserves, which grow as it runs.
AdmissionWithinTokens ==
  [][(\E e \in NewlyAdmitted : world[e].meta # NoMeta)
       => ReservedTokens' <= MaxInflightTokens]_vars

\* Finished work, completed or failed, stays finished (WorkState::is_terminal).
FinishedIsFinal ==
  [][\A e \in Works : InState(e, {"Completed", "Failed"})
                         => world'[e].state = world[e].state]_vars

\* Every work item a client creates comes to an end at least once, whatever
\* ticks are aborted and progress lost on the way, as long as the capacity and
\* the token limits have room for all of them.
EveryWorkEnds ==
  \A e \in Ids : (e \in Works /\ InState(e, {"Pending"}))
                    ~> (e \in Works /\ IsTerminal(world[e].state))
============================================================================
