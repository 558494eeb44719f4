---------------------------- MODULE KernelWorld ----------------------------
(***************************************************************************)
(* The ECS world as the kernel's commands see it, and what each command    *)
(* does to it: the execute_* helpers of                                    *)
(* crates/prism-ecs-runtime/src/kernel/command_dispatch (submit.rs,        *)
(* envelope.rs, replay.rs).                                                *)
(*                                                                         *)
(* A world is the sequence of its entities, in allocation order: entity    *)
(* number e is w[e].  No kernel command despawns, so World::spawn always   *)
(* takes the `next_id` branch and every handle has generation 0.           *)
(*                                                                         *)
(* An entity is                                                            *)
(*   state  its WorkState component, or NoState if it has none;            *)
(*   comps  the names of its other components;                             *)
(*   meta   its InferenceWorkMetadata component, or NoMeta.                *)
(*                                                                         *)
(* A command is [op, entity, arg]: the variant, the entity it addresses    *)
(* (0 when it creates one) and the part of its payload that decides what   *)
(* it does.  Paths, digests, prompts and reasons are left out; `Blank`     *)
(* stands for a payload that fails the is_empty checks.                    *)
(***************************************************************************)
EXTENDS Naturals, Sequences

NoState == "NoState"
NoMeta  == <<>>
Blank   == "Blank"
Filled  == "Filled"

WorkStates == {"Pending", "Ready", "Leased", "Completed", "Failed", "Cancelled"}

Phases == {"Prefill", "Decode"}

\* The fields of InferenceWorkMetadata that decide anything.
Metas == [phase            : Phases,
          prompt_tokens    : Nat,
          prefilled_tokens : Nat,
          generated_tokens : Nat,
          max_new_tokens   : Nat,
          kv_epoch         : Nat,
          kv_tokens        : Nat,
          deadline_ms      : Nat,
          priority         : Nat]

\* AdvanceInference carries the counters the entity should move to.
Progress == [phase            : Phases,
             prefilled_tokens : Nat,
             generated_tokens : Nat,
             kv_epoch         : Nat,
             kv_tokens        : Nat]

Components == {"AgentPhase", "ParentAgentId", "AgentLifecycle", "ArtifactRecord",
               "ModelRecord", "KvCacheBinding", "ModalityWork", "ModalityExecution",
               "ModalityFailure", "WorkItem", "CompilationJob", "PlannedMarker",
               "AdmittedMarker", "PublishedMarker", "ResultPayload"}

Entities == [state : WorkStates \cup {NoState},
             comps : SUBSET Components,
             meta  : {NoMeta} \cup Metas]

IsTerminal(state) == state \in {"Completed", "Failed", "Cancelled"}

(***************************************************************************)
(* World primitives.                                                       *)
(***************************************************************************)

has_entity(w, e) == e \in DOMAIN w

\* World::spawn with the components the command attaches.
spawn(w, state, comps, meta) ==
  Append(w, [state |-> state, comps |-> comps, meta |-> meta])

\* What a command hands back: whether it succeeded, the world it leaves and
\* the entity its result names.
Done(w, e)  == [ok |-> TRUE,  world |-> w, entity |-> e]
Refused(w)  == [ok |-> FALSE, world |-> w, entity |-> 0]

\* World::add_component of a marker: StaleHandle if the entity is missing.
add_component(w, e, c) ==
  IF has_entity(w, e)
    THEN Done([w EXCEPT ![e].comps = @ \cup {c}], e)
    ELSE Refused(w)

\* World::add_component of a WorkState together with the markers `cs` the
\* handler adds after it; the first insert fails if the entity is missing.
put_state(w, e, s, cs) ==
  IF has_entity(w, e)
    THEN Done([w EXCEPT ![e].state = s, ![e].comps = @ \cup cs], e)
    ELSE Refused(w)

(***************************************************************************)
(* Infrastructure commands.                                                *)
(***************************************************************************)

execute_spawn(w) ==
  Done(spawn(w, NoState, {"AgentPhase", "ParentAgentId"}, NoMeta), Len(w) + 1)

execute_cancel_txn(w, e) == add_component(w, e, "AgentLifecycle")

\* Two entities: the artifact, then the model; the result names the model.
execute_register_model(w, arg) ==
  IF arg = Blank
    THEN Refused(w)
    ELSE Done(spawn(spawn(w, NoState, {"ArtifactRecord"}, NoMeta),
                    NoState, {"ModelRecord"}, NoMeta),
              Len(w) + 2)

execute_bind_inference_kv(w, e) == add_component(w, e, "KvCacheBinding")

execute_create_modality_work(w, arg) ==
  IF arg = Blank
    THEN Refused(w)
    ELSE Done(spawn(w, NoState, {"ModalityWork"}, NoMeta), Len(w) + 1)

CompleteModalityWork(w, e, arg) ==
  IF arg = Blank THEN Refused(w) ELSE add_component(w, e, "ModalityExecution")

FailModalityWork(w, e, arg) ==
  IF arg = Blank THEN Refused(w) ELSE add_component(w, e, "ModalityFailure")

\* Refused without metadata, under a stale KV epoch, or if a counter regresses.
execute_advance_inference(w, e, p) ==
  IF /\ has_entity(w, e)
     /\ w[e].meta # NoMeta
     /\ w[e].meta.kv_epoch = p.kv_epoch
     /\ p.prefilled_tokens >= w[e].meta.prefilled_tokens
     /\ p.generated_tokens >= w[e].meta.generated_tokens
     /\ p.kv_tokens        >= w[e].meta.kv_tokens
    THEN Done([w EXCEPT ![e].meta =
                 [@ EXCEPT !.phase            = p.phase,
                           !.prefilled_tokens = p.prefilled_tokens,
                           !.generated_tokens = p.generated_tokens,
                           !.kv_tokens        = p.kv_tokens]], e)
    ELSE Refused(w)

(***************************************************************************)
(* Lifecycle commands.                                                     *)
(***************************************************************************)

\* arg is the inference metadata derived from the resource claim, or NoMeta
\* for any other kind of work.
execute_create_work(w, arg) ==
  Done(spawn(w, "Pending", {"WorkItem"}, arg), Len(w) + 1)

execute_create_compilation_job(w) ==
  Done(spawn(w, NoState, {"CompilationJob"}, NoMeta), Len(w) + 1)

\* Pending becomes Ready, any other state stays; then the marker goes on.
ReadyIfPending(w, e) ==
  IF has_entity(w, e) /\ w[e].state = "Pending" THEN "Ready" ELSE
  IF has_entity(w, e) THEN w[e].state ELSE NoState

execute_admit_work(w, e) ==
  put_state(w, e, ReadyIfPending(w, e), {"AdmittedMarker"})

execute_mark_observed(w, e) ==
  put_state(w, e, ReadyIfPending(w, e), {"PlannedMarker"})

\* Rewrites Ready with Ready: nothing else, and no marker.
execute_record_work_plan(w, e) == Done(w, e)

execute_record_dispatch_intent(w, e) == put_state(w, e, "Leased", {})

execute_complete_work(w, e) == put_state(w, e, "Completed", {"ResultPayload"})

\* A missing entity is not an error here.
execute_fail_work(w, e) ==
  IF has_entity(w, e) THEN put_state(w, e, "Failed", {}) ELSE Done(w, e)

\* Mutant: a state no WorkState variant stands for.
execute_request_cancellationBadState(w, e) ==
  IF has_entity(w, e) /\ w[e].state # NoState /\ ~IsTerminal(w[e].state)
    THEN put_state(w, e, "Cancelling", {})
    ELSE Done(w, e)

execute_request_cancellation(w, e) ==
  IF has_entity(w, e) /\ w[e].state # NoState /\ ~IsTerminal(w[e].state)
    THEN put_state(w, e, "Cancelled", {})
    ELSE Done(w, e)

execute_publish_result_cmd(w, e) ==
  put_state(w, e, "Completed", {"ResultPayload", "PublishedMarker"})

\* The lifecycle commands that only record an event and leave the world alone.
RecordOnly == {"RecordExternalObservation", "MarkPrerequisiteBlocked", "RejectWork",
               "DeferWork", "RenewWorkLease", "RecordDispatchStarted", "RecordProgress",
               "MarkDispatchLost", "AttachArtifact", "AttachDiagnostics",
               "AttachEvidence", "ExpireTransientState", "MarkRetentionComplete"}

LeaseOps == {"AcquireWorkLease", "ReleaseWorkLease"}

execute_lifecycle(w, c) ==
  CASE c.op = "CreateWork"           -> execute_create_work(w, c.arg)
    [] c.op = "CreateCompilationJob" -> execute_create_compilation_job(w)
    [] c.op = "RequestCancellation"  -> execute_request_cancellation(w, c.entity)
    [] c.op = "MarkObserved"         -> execute_mark_observed(w, c.entity)
    [] c.op = "RecordWorkPlan"       -> execute_record_work_plan(w, c.entity)
    [] c.op = "AdmitWork"            -> execute_admit_work(w, c.entity)
    [] c.op = "RecordDispatchIntent" -> execute_record_dispatch_intent(w, c.entity)
    [] c.op = "CompleteWork"         -> execute_complete_work(w, c.entity)
    [] c.op = "FailWork"             -> execute_fail_work(w, c.entity)
    [] c.op = "PublishResult"        -> execute_publish_result_cmd(w, c.entity)
    [] OTHER                         -> Done(w, c.entity)

LifecycleOps == RecordOnly \cup
  {"CreateWork", "CreateCompilationJob", "RequestCancellation", "MarkObserved",
   "RecordWorkPlan", "AdmitWork", "RecordDispatchIntent", "CompleteWork",
   "FailWork", "PublishResult"}

InfrastructureOps ==
  {"SpawnAgent", "CancelAgent", "RegisterModel", "AdvanceInference",
   "BindInferenceKv", "CreateModalityWork", "CompleteModalityWork",
   "FailModalityWork"}

\* The match of the world-locked submit path.
Execute(w, c) ==
  CASE c.op = "SpawnAgent"           -> execute_spawn(w)
    [] c.op = "CancelAgent"          -> execute_cancel_txn(w, c.entity)
    [] c.op = "RegisterModel"        -> execute_register_model(w, c.arg)
    [] c.op = "AdvanceInference"     -> execute_advance_inference(w, c.entity, c.arg)
    [] c.op = "BindInferenceKv"      -> execute_bind_inference_kv(w, c.entity)
    [] c.op = "CreateModalityWork"   -> execute_create_modality_work(w, c.arg)
    [] c.op = "CompleteModalityWork" -> CompleteModalityWork(w, c.entity, c.arg)
    [] c.op = "FailModalityWork"     -> FailModalityWork(w, c.entity, c.arg)
    [] OTHER                         -> execute_lifecycle(w, c)

\* What makes a command record well formed.
IsCommand(c) ==
  /\ DOMAIN c = {"op", "entity", "arg"}
  /\ c.op \in InfrastructureOps \cup LifecycleOps \cup LeaseOps
  /\ c.entity \in Nat
  /\ c.op = "AdvanceInference" => c.arg \in Progress
  /\ c.op = "CreateWork" => c.arg \in {NoMeta} \cup Metas

(***************************************************************************)
(* Replay.  The four commands whose result names a fresh entity that       *)
(* recovery compares with the stored one; CreateCompilationJob also        *)
(* allocates, but its entity is not compared.                              *)
(***************************************************************************)
VerifiedCreates == {"SpawnAgent", "RegisterModel", "CreateModalityWork", "CreateWork"}

\* apply_recovered_command: re-execute, then verify.  A lease command reaches
\* execute_lifecycle, whose arm for it is unreachable!(): a panic.
ReplayVerdict(w, c, stored) ==
  IF c.op \in LeaseOps THEN "panic" ELSE
  LET r == Execute(w, c) IN
  IF ~r.ok \/ (c.op \in VerifiedCreates /\ r.entity # stored)
    THEN "error" ELSE "ok"
============================================================================
