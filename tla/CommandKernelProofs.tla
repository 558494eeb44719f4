------------------------ MODULE CommandKernelProofs ------------------------
(***************************************************************************)
(* Theorems about CommandKernel, for every set of keys, commands and       *)
(* callers and every number of crashes and faults.                         *)
(***************************************************************************)
EXTENDS CommandKernel, TLAPS

(***************************************************************************)
(* What the commands do to the world.                                      *)
(***************************************************************************)

\* World::spawn leaves a world.
LEMMA SpawnType ==
  ASSUME NEW w \in Seq(Entities), NEW state \in WorkStates \cup {NoState},
         NEW comps \in SUBSET Components, NEW meta \in {NoMeta} \cup Metas
  PROVE  spawn(w, state, comps, meta) \in Seq(Entities)
  BY DEF spawn, Entities

\* An outcome that a command can hand back.
Results == [ok : BOOLEAN, world : Seq(Entities), entity : Nat]

LEMMA DoneType ==
  ASSUME NEW w \in Seq(Entities), NEW e \in Nat
  PROVE  Done(w, e) \in Results /\ Refused(w) \in Results
  BY DEF Done, Refused, Results

\* Adding a marker leaves a world.
LEMMA AddComponentType ==
  ASSUME NEW w \in Seq(Entities), NEW e \in Nat, NEW c \in Components
  PROVE  add_component(w, e, c) \in Results
<1>1. CASE has_entity(w, e)
  <2>1. w[e] \in Entities
    BY <1>1 DEF has_entity
  <2>2. [w[e] EXCEPT !.comps = @ \cup {c}] \in Entities
    BY <2>1 DEF Entities
  <2>3. [w EXCEPT ![e].comps = @ \cup {c}] \in Seq(Entities)
    BY <1>1, <2>1, <2>2 DEF has_entity
  <2> QED BY <1>1, <2>3, DoneType DEF add_component
<1>2. CASE ~has_entity(w, e)
  BY <1>2, DoneType DEF add_component
<1> QED BY <1>1, <1>2

\* Setting a WorkState leaves a world.
LEMMA PutStateType ==
  ASSUME NEW w \in Seq(Entities), NEW e \in Nat,
         NEW s \in WorkStates \cup {NoState}, NEW cs \in SUBSET Components
  PROVE  put_state(w, e, s, cs) \in Results
<1>1. CASE has_entity(w, e)
  <2>1. w[e] \in Entities
    BY <1>1 DEF has_entity
  <2>2. [w[e] EXCEPT !.state = s, !.comps = @ \cup cs] \in Entities
    BY <2>1 DEF Entities
  <2>3. [w EXCEPT ![e].state = s, ![e].comps = @ \cup cs]
          = [w EXCEPT ![e] = [w[e] EXCEPT !.state = s, !.comps = @ \cup cs]]
    BY <1>1 DEF has_entity
  <2>4. [w EXCEPT ![e].state = s, ![e].comps = @ \cup cs] \in Seq(Entities)
    BY <1>1, <2>2, <2>3 DEF has_entity
  <2> QED BY <1>1, <2>4, DoneType DEF put_state
<1>2. CASE ~has_entity(w, e)
  BY <1>2, DoneType DEF put_state
<1> QED BY <1>1, <1>2

\* Advancing inference work leaves a world.
LEMMA AdvanceType ==
  ASSUME NEW w \in Seq(Entities), NEW e \in Nat, NEW p \in Progress
  PROVE  execute_advance_inference(w, e, p) \in Results
<1> DEFINE m == [w[e].meta EXCEPT !.phase            = p.phase,
                                  !.prefilled_tokens = p.prefilled_tokens,
                                  !.generated_tokens = p.generated_tokens,
                                  !.kv_tokens        = p.kv_tokens]
<1>1. CASE has_entity(w, e) /\ w[e].meta # NoMeta
  <2>a. w[e] \in Entities
    BY <1>1 DEF has_entity
  <2>b. w[e].meta \in {NoMeta} \cup Metas
    BY <2>a DEF Entities
  <2>1. w[e] \in Entities /\ w[e].meta \in Metas
    BY <1>1, <2>a, <2>b
  <2>2. m \in Metas
    BY <2>1 DEF Metas, Progress
  <2>3. [w[e] EXCEPT !.meta = m] \in Entities
    BY <2>1, <2>2 DEF Entities
  <2> HIDE DEF m
  <2>4. [w EXCEPT ![e].meta = m] \in Seq(Entities)
    BY <1>1, <2>3 DEF has_entity
  <2> USE DEF m
  <2>5. [w EXCEPT ![e].meta = [@ EXCEPT !.phase            = p.phase,
                                        !.prefilled_tokens = p.prefilled_tokens,
                                        !.generated_tokens = p.generated_tokens,
                                        !.kv_tokens        = p.kv_tokens]]
          = [w EXCEPT ![e].meta = m]
    BY <1>1 DEF has_entity
  <2> QED BY <2>4, <2>5, DoneType DEF execute_advance_inference
<1>2. CASE ~(has_entity(w, e) /\ w[e].meta # NoMeta)
  BY <1>2, DoneType DEF execute_advance_inference
<1> QED BY <1>1, <1>2
\* Every infrastructure command leaves a world.
LEMMA InfrastructureType ==
  ASSUME NEW w \in Seq(Entities), NEW e \in Nat, NEW arg
  PROVE  /\ execute_spawn(w) \in Results
         /\ execute_cancel_txn(w, e) \in Results
         /\ execute_register_model(w, arg) \in Results
         /\ execute_bind_inference_kv(w, e) \in Results
         /\ execute_create_modality_work(w, arg) \in Results
         /\ CompleteModalityWork(w, e, arg) \in Results
         /\ FailModalityWork(w, e, arg) \in Results
<1>1. /\ NoState \in WorkStates \cup {NoState}
      /\ NoMeta \in {NoMeta} \cup Metas
      /\ Len(w) + 1 \in Nat /\ Len(w) + 2 \in Nat
  OBVIOUS
<1>2. execute_spawn(w) \in Results
  <2>1. {"AgentPhase", "ParentAgentId"} \in SUBSET Components
    BY DEF Components
  <2> QED BY <1>1, <2>1, SpawnType, DoneType DEF execute_spawn
<1>3. execute_register_model(w, arg) \in Results
  <2>1. {"ArtifactRecord"} \in SUBSET Components /\ {"ModelRecord"} \in SUBSET Components
    BY DEF Components
  <2>2. spawn(w, NoState, {"ArtifactRecord"}, NoMeta) \in Seq(Entities)
    BY <1>1, <2>1, SpawnType
  <2>3. spawn(spawn(w, NoState, {"ArtifactRecord"}, NoMeta),
              NoState, {"ModelRecord"}, NoMeta) \in Seq(Entities)
    BY <1>1, <2>1, <2>2, SpawnType
  <2> QED BY <1>1, <2>3, DoneType DEF execute_register_model
<1>4. execute_create_modality_work(w, arg) \in Results
  <2>1. {"ModalityWork"} \in SUBSET Components
    BY DEF Components
  <2>2. spawn(w, NoState, {"ModalityWork"}, NoMeta) \in Seq(Entities)
    BY <1>1, <2>1, SpawnType
  <2> QED BY <1>1, <2>2, DoneType DEF execute_create_modality_work
<1>5. /\ execute_cancel_txn(w, e) \in Results
      /\ execute_bind_inference_kv(w, e) \in Results
      /\ add_component(w, e, "ModalityExecution") \in Results
      /\ add_component(w, e, "ModalityFailure") \in Results
  BY AddComponentType DEF Components, execute_cancel_txn, execute_bind_inference_kv
<1> QED BY <1>2, <1>3, <1>4, <1>5, DoneType DEF CompleteModalityWork, FailModalityWork

\* So does every lifecycle command that does not create work.
LEMMA LifecycleType ==
  ASSUME NEW w \in Seq(Entities), NEW e \in Nat
  PROVE  /\ execute_create_compilation_job(w) \in Results
         /\ execute_request_cancellation(w, e) \in Results
         /\ execute_mark_observed(w, e) \in Results
         /\ execute_record_work_plan(w, e) \in Results
         /\ execute_admit_work(w, e) \in Results
         /\ execute_record_dispatch_intent(w, e) \in Results
         /\ execute_complete_work(w, e) \in Results
         /\ execute_fail_work(w, e) \in Results
         /\ execute_publish_result_cmd(w, e) \in Results
<1>1. execute_create_compilation_job(w) \in Results
  <2>1. {"CompilationJob"} \in SUBSET Components /\ NoState \in WorkStates \cup {NoState}
    BY DEF Components
  <2>2. spawn(w, NoState, {"CompilationJob"}, NoMeta) \in Seq(Entities)
    BY <2>1, SpawnType
  <2> QED BY <2>2, DoneType DEF execute_create_compilation_job
<1>2. ReadyIfPending(w, e) \in WorkStates \cup {NoState}
  <2>1. has_entity(w, e) => w[e] \in Entities
    BY DEF has_entity
  <2> QED BY <2>1 DEF ReadyIfPending, Entities, WorkStates
<1>3. execute_mark_observed(w, e) \in Results /\ execute_admit_work(w, e) \in Results
  BY <1>2, PutStateType DEF execute_mark_observed, execute_admit_work, Components
<1>4. \A s \in {"Leased", "Failed", "Cancelled"} : put_state(w, e, s, {}) \in Results
  BY PutStateType DEF WorkStates
<1>5. execute_complete_work(w, e) \in Results /\ execute_publish_result_cmd(w, e) \in Results
  BY PutStateType
     DEF execute_complete_work, execute_publish_result_cmd, WorkStates, Components
<1>6. Done(w, e) \in Results
  BY DoneType
<1> QED
  BY <1>1, <1>3, <1>4, <1>5, <1>6
  DEF execute_request_cancellation, execute_record_work_plan,
      execute_record_dispatch_intent, execute_fail_work

\* Whatever a well-formed command does, it leaves a world and names an entity.
LEMMA ExecuteType ==
  ASSUME NEW w \in Seq(Entities), NEW c, IsCommand(c)
  PROVE  Execute(w, c) \in Results
<1>1. c.entity \in Nat
  BY DEF IsCommand
<1>2. c.op = "AdvanceInference" => execute_advance_inference(w, c.entity, c.arg) \in Results
  BY <1>1, AdvanceType DEF IsCommand
<1>3. c.op = "CreateWork" => execute_create_work(w, c.arg) \in Results
  <2> SUFFICES ASSUME c.op = "CreateWork" PROVE execute_create_work(w, c.arg) \in Results
    OBVIOUS
  <2>1. c.arg \in {NoMeta} \cup Metas
    BY DEF IsCommand
  <2>2. "Pending" \in WorkStates \cup {NoState} /\ {"WorkItem"} \in SUBSET Components
    BY DEF WorkStates, Components
  <2>3. spawn(w, "Pending", {"WorkItem"}, c.arg) \in Seq(Entities)
    BY <2>1, <2>2, SpawnType
  <2> QED BY <2>3, DoneType DEF execute_create_work
<1>4. execute_lifecycle(w, c) \in Results
  BY <1>1, <1>3, LifecycleType, DoneType DEF execute_lifecycle
<1> QED BY <1>1, <1>2, <1>4, InfrastructureType DEF Execute
(***************************************************************************)
(* Type correctness.                                                       *)
(***************************************************************************)

\* The store calls keep the map a map of entries.
LEMMA StoreType ==
  ASSUME NEW m \in [Keys -> Entries], NEW k \in Keys, NEW seq \in Nat, NEW result \in Nat,
         NEW target
  PROVE  /\ admit(m, k, seq) \in [Keys -> Entries]
         /\ complete(m, seq, result) \in [Keys -> Entries]
         /\ transition_state(m, seq, target) \in [Keys -> Entries]
<1>1. InFlightEntry(seq) \in Entries
  BY DEF InFlightEntry, Entries, EntryStates
<1>2. [st |-> "Completed", sequence |-> seq, result |-> result] \in Entries
  BY DEF Entries, EntryStates
<1>3. \A j \in Keys : [m[j] EXCEPT !.st = "RecoveryRequired"] \in Entries
  BY DEF Entries, EntryStates
<1> QED BY <1>1, <1>2, <1>3 DEF admit, complete, transition_state

LEMMA NoCallType == NoCall \in Calls
<1>1. (CHOOSE k \in Keys : TRUE) \in Keys
  BY KeysNonEmpty
<1> QED BY <1>1 DEF NoCall, Calls

LEMMA CommandType == \A k \in Keys : IsCommand(CommandOf[k]) /\ CommandOf[k].entity \in Nat
  BY KeysAssumption DEF IsCommand

\* Type correctness: every step of submit, crash and recovery stays within
\* TypeOK, whatever the commands, callers and bounds are.
THEOREM TypeCorrect == Spec => []TypeOK
<1>1. Init => TypeOK
  <2> SUFFICES ASSUME Init PROVE TypeOK
    OBVIOUS
  <2>1. AbsentEntry \in Entries
    BY DEF AbsentEntry, Entries, EntryStates
  <2>2. commands \in [Keys -> Entries]
    BY <2>1 DEF Init
  <2>3. call \in [Submitters -> Calls]
    BY NoCallType DEF Init
  <2> QED BY <2>2, <2>3, BoundsAssumption DEF Init, TypeOK, CallerStates
<1>2. TypeOK /\ [Next]_vars => TypeOK'
  <2> SUFFICES ASSUME TypeOK, [Next]_vars PROVE TypeOK'
    OBVIOUS
  <2> USE BoundsAssumption
  <2>1. ASSUME NEW s \in Submitters, NEW k \in Keys, Admit(s, k) PROVE TypeOK'
    <3>1. commands' \in [Keys -> Entries]
      BY <2>1, StoreType DEF Admit, TypeOK
    <3>2. [key |-> k, sequence |-> next_sequence, result |-> 0] \in Calls
      BY DEF TypeOK, Calls
    <3>3. call' \in [Submitters -> Calls] /\ pc' \in [Submitters -> CallerStates]
      BY <2>1, <3>2 DEF Admit, Goto, TypeOK, CallerStates
    <3>4. next_sequence' \in Nat \ {0}
      BY <2>1 DEF Admit, TypeOK
    <3> QED BY <2>1, <3>1, <3>3, <3>4 DEF Admit, TypeOK, historyVars, budgetVars
  <2>2. ASSUME NEW s \in Submitters, NEW k \in Keys, AdmitCompleted(s, k) PROVE TypeOK'
    <3>1. Outcome(commands[k]) \in Outcomes
      BY DEF TypeOK, Entries, Outcome, Outcomes
    <3>2. answers' \in [Keys -> SUBSET Outcomes]
      BY <2>2, <3>1 DEF AdmitCompleted, Answer, TypeOK
    <3> QED BY <2>2, <3>2 DEF AdmitCompleted, TypeOK, storeVars, budgetVars
  <2>3. ASSUME NEW s \in Submitters, Continue(s) PROVE TypeOK'
    <3> USE <2>3
    <3>a. call[s] \in Calls /\ call[s].key \in Keys /\ call[s].sequence \in Nat
          /\ call[s].result \in Nat
      BY DEF TypeOK, Calls
    <3>b. TargetOf(s) \in Nat
      BY <3>a, CommandType DEF TargetOf
    <3>c. ASSUME NEW from, Return(s, from)
          PROVE  call' \in [Submitters -> Calls] /\ pc' \in [Submitters -> CallerStates]
      BY <3>c, NoCallType DEF Return, Goto, TypeOK, CallerStates
    <3>d. ASSUME NEW from, NEW to \in CallerStates, Goto(s, from, to)
          PROVE  pc' \in [Submitters -> CallerStates]
      BY <3>d DEF Goto, TypeOK
    <3>e. Outcome(call[s]) \in Outcomes
      BY <3>a DEF Outcome, Outcomes
    <3>f. ASSUME NEW r \in Nat PROVE [call EXCEPT ![s].result = r] \in [Submitters -> Calls]
      BY <3>a, <3>f DEF TypeOK, Calls
    <3>g. ASSUME RecordApplied(call[s].key) PROVE applied' \in [Keys -> Nat]
      BY <3>a, <3>g DEF RecordApplied, TypeOK
    <3>h. ASSUME FaultBudget PROVE faults' \in 0 .. MaxFaults
      BY <3>h DEF FaultBudget, TypeOK
    <3>i. ASSUME Answer(call[s].key, Outcome(call[s]))
          PROVE  answers' \in [Keys -> SUBSET Outcomes]
      BY <3>a, <3>e, <3>i DEF Answer, TypeOK
    <3>1. CASE RejectEpoch(s)
      BY <3>1, <3>c DEF RejectEpoch, TypeOK, storeVars, historyVars, budgetVars
    <3>2. CASE ExecuteOk(s)
      <4>1. Execute(world, CommandOf[call[s].key]) \in Results
        BY <3>a, CommandType, ExecuteType DEF TypeOK
      <4>2. world' \in Seq(Entities) /\ call' \in [Submitters -> Calls]
        BY <3>2, <3>f, <4>1 DEF ExecuteOk, Results
      <4>3. pc' \in [Submitters -> CallerStates]
        BY <3>2, <3>d DEF ExecuteOk, CallerStates
      <4> QED BY <3>2, <3>g, <4>2, <4>3 DEF ExecuteOk, TypeOK, storeVars, budgetVars
    <3>3. CASE ExecuteErr(s)
      <4>1. commands' \in [Keys -> Entries]
        BY <3>3, <3>a, StoreType DEF ExecuteErr, TypeOK
      <4> QED BY <3>3, <3>c, <4>1 DEF ExecuteErr, TypeOK, historyVars, budgetVars
    <3>4. CASE AcquireLease(s)
      BY <3>4, <3>b, <3>d
      DEF AcquireLease, TypeOK, CallerStates, storeVars, historyVars, budgetVars
    <3>5. CASE DenyLease(s)
      BY <3>5, <3>c DEF DenyLease, TypeOK, storeVars, historyVars, budgetVars
    <3>6. CASE ReleaseLease(s)
      BY <3>6, <3>d
      DEF ReleaseLease, TypeOK, CallerStates, storeVars, historyVars, budgetVars
    <3>7. CASE LeaseFault(s)
      BY <3>7, <3>c, <3>h DEF LeaseFault, TypeOK, storeVars, historyVars
    <3>8. CASE SetLeaseState(s)
      <4>1. LeaseState(s) \in WorkStates \cup {NoState}
        BY DEF LeaseState, WorkStates
      <4>2. put_state(world, TargetOf(s), LeaseState(s), {}) \in Results
        BY <3>b, <4>1, PutStateType DEF TypeOK
      <4>3. world' \in Seq(Entities) /\ call' \in [Submitters -> Calls]
        BY <3>8, <3>f, <4>2 DEF SetLeaseState, Results
      <4>4. pc' \in [Submitters -> CallerStates]
        BY <3>8, <3>d DEF SetLeaseState, CallerStates
      <4> QED BY <3>8, <3>g, <4>3, <4>4 DEF SetLeaseState, TypeOK, storeVars, budgetVars
    <3>9. CASE SetLeaseStateErr(s)
      BY <3>9, <3>c DEF SetLeaseStateErr, TypeOK, storeVars, historyVars, budgetVars
    <3>10. CASE Complete(s)
      <4>1. commands' \in [Keys -> Entries]
        BY <3>10, <3>a, StoreType DEF Complete, TypeOK
      <4> QED BY <3>10, <3>c, <3>i, <4>1 DEF Complete, TypeOK, budgetVars
    <3>11. CASE CompleteFault(s)
      <4>1. commands' \in [Keys -> Entries]
        BY <3>11, <3>a, StoreType DEF CompleteFault, TypeOK
      <4>2. answers' \in [Keys -> SUBSET Outcomes]
        BY <3>11, <3>i DEF CompleteFault, TypeOK
      <4> QED BY <3>11, <3>c, <3>h, <4>1, <4>2 DEF CompleteFault, TypeOK
    <3> QED BY <3>1, <3>2, <3>3, <3>4, <3>5, <3>6, <3>7, <3>8, <3>9, <3>10, <3>11
            DEF Continue
  <2>4. ASSUME NEW e \in leases, LeaseExpires(e) PROVE TypeOK'
    BY <2>4 DEF LeaseExpires, TypeOK, storeVars, historyVars, budgetVars
  <2>5. CASE Crash
    <3>1. call' \in [Submitters -> Calls] /\ pc' \in [Submitters -> CallerStates]
      BY <2>5, NoCallType DEF Crash, CallerStates
    <3> QED BY <2>5, <3>1 DEF Crash, TypeOK, storeVars
  <2>6. CASE BeginRecovery
    BY <2>6 DEF BeginRecovery, TypeOK, storeVars, historyVars, budgetVars
  <2>7. ASSUME NEW k \in Keys, ReplayNext(k) PROVE TypeOK'
    <3>1. Execute(world, CommandOf[k]) \in Results
      BY CommandType, ExecuteType DEF TypeOK
    <3>2. world' \in Seq(Entities)
      BY <2>7, <3>1 DEF ReplayNext, Results
    <3>3. cursor' \in Nat /\ applied' \in [Keys -> Nat]
      BY <2>7 DEF ReplayNext, RecordApplied, TypeOK, Entries
    <3> QED BY <2>7, <3>2, <3>3 DEF ReplayNext, TypeOK, storeVars, budgetVars
  <2>8. ASSUME NEW k \in Keys, ReplayFails(k) PROVE TypeOK'
    BY <2>8 DEF ReplayFails, TypeOK, storeVars, historyVars, budgetVars
  <2>9. ASSUME NEW k \in Keys, Reconcile(k) PROVE TypeOK'
    <3>1. commands[k].sequence \in Nat
      BY DEF TypeOK, Entries
    <3>2. commands' \in [Keys -> Entries]
      BY <2>9, <3>1, StoreType DEF Reconcile, TypeOK
    <3> QED BY <2>9, <3>2 DEF Reconcile, TypeOK, historyVars, budgetVars
  <2>10. CASE FinishRecovery
    BY <2>10 DEF FinishRecovery, TypeOK, storeVars, historyVars, budgetVars
  <2>11. CASE UNCHANGED vars
    BY <2>11 DEF vars, TypeOK
  <2> QED BY <2>1, <2>2, <2>3, <2>4, <2>5, <2>6, <2>7, <2>8, <2>9, <2>10, <2>11
          DEF Next, Submit, Recover
<1> QED BY <1>1, <1>2, PTL DEF Spec
(***************************************************************************)
(* Ownership of keys.                                                      *)
(***************************************************************************)

\* An in-flight entry is the only one its sequence finds.
LEMMA InFlightAlone ==
  ASSUME TypeOK, SequencesUnique, NEW k \in Keys, commands[k].st = "InFlight"
  PROVE  InFlightWith(commands, commands[k].sequence) = {k}
  BY DEF InFlightWith, SequencesUnique, Filed

\* A working caller's sequence finds the caller's own entry.
LEMMA OwnEntry ==
  ASSUME TypeOK, OwnInv, NEW s \in Submitters, pc[s] # "idle"
  PROVE  /\ call[s].key \in Keys
         /\ InFlightWith(commands, call[s].sequence) = {call[s].key}
<1>1. call[s].key \in Keys
  BY DEF TypeOK, Calls
<1>2. /\ commands[call[s].key].st = "InFlight"
      /\ commands[call[s].key].sequence = call[s].sequence
  BY DEF OwnInv, Ownership
<1> QED BY <1>1, <1>2, InFlightAlone DEF OwnInv

\* transition_state refuses every target but "recovery_required".
LEMMA FailedIsRefused ==
  ASSUME NEW m \in [Keys -> Entries], NEW seq
  PROVE  transition_state(m, seq, "failed") = m
  BY DEF transition_state

\* A step that leaves the store alone and in which callers only go on or
\* return keeps the invariant.
LEMMA OwnFrame ==
  ASSUME OwnInv, UNCHANGED storeVars,
         \A t \in Submitters : pc'[t] # "idle" =>
           /\ pc[t] # "idle"
           /\ call'[t].key = call[t].key
           /\ call'[t].sequence = call[t].sequence,
         status' # "up" => \A t \in Submitters : pc'[t] = "idle"
  PROVE  OwnInv'
  BY DEF OwnInv, SequencesUnique, Ownership, OnlyUpServes, Filed, storeVars

\* The same when the caller that returns also settles its own entry.
LEMMA OwnSettle ==
  ASSUME TypeOK, OwnInv, NEW s \in Submitters, pc[s] # "idle", Return(s, pc[s]),
         next_sequence' = next_sequence, status' = status,
         NEW entry \in Entries, entry.sequence = call[s].sequence, entry.st # "Absent",
         commands' = [commands EXCEPT ![call[s].key] = entry]
  PROVE  OwnInv'
<1>1. call[s].key \in Keys /\ commands[call[s].key].st = "InFlight"
      /\ commands[call[s].key].sequence = call[s].sequence
  BY DEF TypeOK, Calls, OwnInv, Ownership
<1>2. \A k \in Keys : commands'[k].sequence = commands[k].sequence /\ (Filed(k)' <=> Filed(k))
  BY <1>1 DEF TypeOK, Filed
<1>3. SequencesUnique'
  BY <1>2 DEF OwnInv, SequencesUnique
<1>4. \A t \in Submitters : pc'[t] # "idle" =>
        /\ t # s /\ pc[t] # "idle" /\ call'[t] = call[t]
        /\ call[t].key # call[s].key /\ call[t].key \in Keys
  BY DEF Return, Goto, TypeOK, Calls, OwnInv, Ownership
<1>5. Ownership'
  BY <1>4 DEF OwnInv, Ownership, TypeOK
<1>6. OnlyUpServes'
  BY DEF Return, Goto, OnlyUpServes
<1> QED BY <1>3, <1>5, <1>6 DEF OwnInv

\* complete and transition_state of a working caller touch its entry only.
LEMMA SettleOwn ==
  ASSUME TypeOK, OwnInv, NEW s \in Submitters, pc[s] # "idle", NEW result \in Nat
  PROVE  /\ complete(commands, call[s].sequence, result)
              = [commands EXCEPT ![call[s].key] =
                   [st |-> "Completed", sequence |-> call[s].sequence, result |-> result]]
         /\ transition_state(commands, call[s].sequence, "recovery_required")
              = [commands EXCEPT ![call[s].key].st = "RecoveryRequired"]
<1>1. /\ call[s].key \in Keys
      /\ InFlightWith(commands, call[s].sequence) = {call[s].key}
  BY OwnEntry
<1> QED BY <1>1 DEF complete, transition_state, TypeOK

\* Every step keeps sequences unique and keys owned by one caller at most.
LEMMA OwnStep ==
  ASSUME TypeOK, OwnInv, [Next]_vars
  PROVE  OwnInv'
<1>1. ASSUME NEW s \in Submitters, NEW k \in Keys, Admit(s, k) PROVE OwnInv'
  <2>1. /\ commands' = [commands EXCEPT ![k] = InFlightEntry(next_sequence)]
        /\ next_sequence' = next_sequence + 1
        /\ status = "up" /\ status' = "up"
        /\ pc[s] = "idle" /\ pc' = [pc EXCEPT ![s] = "admitted"]
        /\ call' = [call EXCEPT ![s] = [key |-> k, sequence |-> next_sequence, result |-> 0]]
        /\ commands[k].st # "InFlight"
    BY <1>1 DEF Admit, Goto, admit, Admissible
  <2>2. next_sequence \in Nat /\ commands \in [Keys -> Entries]
        /\ \A j \in Keys : commands[j].sequence \in Nat
    BY DEF TypeOK, Entries
  <2>3. /\ commands'[k].st = "InFlight" /\ commands'[k].sequence = next_sequence
        /\ \A j \in Keys \ {k} : commands'[j] = commands[j]
    BY <2>1, <2>2 DEF InFlightEntry
  <2>4. SequencesUnique'
    BY <2>1, <2>2, <2>3 DEF OwnInv, SequencesUnique, Filed
  <2>5. \A t \in Submitters \ {s} : /\ pc'[t] = pc[t] /\ call'[t] = call[t]
                                    /\ call[t].key \in Keys
                                    /\ pc[t] # "idle" => call[t].key # k
    BY <2>1 DEF TypeOK, Calls, OwnInv, Ownership
  <2>6. call'[s].key = k /\ call'[s].sequence = next_sequence
    BY <2>1 DEF TypeOK
  <2>7. Ownership'
    BY <2>3, <2>5, <2>6 DEF OwnInv, Ownership
  <2> QED BY <2>1, <2>4, <2>7 DEF OwnInv, OnlyUpServes
<1>2. ASSUME NEW s \in Submitters, NEW k \in Keys, AdmitCompleted(s, k) PROVE OwnInv'
  BY <1>2, OwnFrame DEF AdmitCompleted, OwnInv, OnlyUpServes
<1>3. ASSUME NEW s \in Submitters, Continue(s) PROVE OwnInv'
  <2> USE <1>3
  <2>a. ASSUME NEW from, from # "idle", Return(s, from), UNCHANGED <<storeVars, status>>
        PROVE  OwnInv'
    <3>1. \A t \in Submitters : pc'[t] # "idle" => pc[t] # "idle" /\ call'[t] = call[t]
      BY <2>a DEF Return, Goto, TypeOK
    <3> QED BY <2>a, <3>1, OwnFrame DEF Return, Goto
  <2>b. ASSUME NEW from, NEW to, from # "idle", Goto(s, from, to),
               UNCHANGED <<storeVars, status>>,
               \A t \in Submitters : /\ call'[t].key = call[t].key
                                     /\ call'[t].sequence = call[t].sequence
        PROVE  OwnInv'
    <3>1. \A t \in Submitters : pc'[t] # "idle" => pc[t] # "idle"
      BY <2>b DEF Goto, TypeOK
    <3> QED BY <2>b, <3>1, OwnFrame DEF Goto
  <2>c. ASSUME NEW r, call' = [call EXCEPT ![s].result = r]
        PROVE  \A t \in Submitters : /\ call'[t].key = call[t].key
                                     /\ call'[t].sequence = call[t].sequence
    BY <2>c DEF TypeOK, Calls
  <2>1. CASE RejectEpoch(s)
    BY <2>1, <2>a DEF RejectEpoch
  <2>2. CASE ExecuteOk(s)
    BY <2>2, <2>b, <2>c DEF ExecuteOk
  <2>3. CASE ExecuteErr(s)
    BY <2>3, <2>a, FailedIsRefused DEF ExecuteErr, storeVars, TypeOK
  <2>4. CASE AcquireLease(s)
    BY <2>4, <2>b DEF AcquireLease
  <2>5. CASE DenyLease(s)
    BY <2>5, <2>a DEF DenyLease
  <2>6. CASE ReleaseLease(s)
    BY <2>6, <2>b DEF ReleaseLease
  <2>7. CASE LeaseFault(s)
    BY <2>7, <2>a DEF LeaseFault
  <2>8. CASE SetLeaseState(s)
    BY <2>8, <2>b, <2>c DEF SetLeaseState
  <2>9. CASE SetLeaseStateErr(s)
    BY <2>9, <2>a DEF SetLeaseStateErr
  <2>10. CASE Complete(s)
    <3> DEFINE entry == [st |-> "Completed", sequence |-> call[s].sequence,
                         result |-> call[s].result]
    <3>1. pc[s] = "mutated" /\ Return(s, pc[s]) /\ next_sequence' = next_sequence
          /\ status' = status
      BY <2>10 DEF Complete, Return, Goto
    <3>2. entry \in Entries /\ call[s].result \in Nat
      BY DEF TypeOK, Calls, Entries, EntryStates
    <3>3. commands' = [commands EXCEPT ![call[s].key] = entry]
      BY <2>10, <3>1, <3>2, SettleOwn DEF Complete
    <3> QED BY <3>1, <3>2, <3>3, OwnSettle
  <2>11. CASE CompleteFault(s)
    <3>1. pc[s] = "mutated" /\ Return(s, pc[s]) /\ next_sequence' = next_sequence
          /\ status' = status
      BY <2>11 DEF CompleteFault, Return, Goto
    <3>2. CASE commands' = commands
      BY <3>1, <3>2, <2>a DEF storeVars
    <3>3. CASE commands' = transition_state(commands, call[s].sequence, "recovery_required")
      <4> DEFINE entry == [commands[call[s].key] EXCEPT !.st = "RecoveryRequired"]
      <4>1. call[s].key \in Keys /\ commands[call[s].key] \in Entries
            /\ commands[call[s].key].sequence = call[s].sequence
        BY <3>1 DEF TypeOK, Calls, OwnInv, Ownership
      <4>2. entry \in Entries /\ entry.sequence = call[s].sequence
            /\ entry.st = "RecoveryRequired"
        BY <4>1 DEF Entries, EntryStates
      <4>3. commands' = [commands EXCEPT ![call[s].key] = entry]
        <5>1. 0 \in Nat
          OBVIOUS
        <5> QED BY <3>1, <3>3, <4>1, <5>1, SettleOwn DEF TypeOK
      <4> HIDE DEF entry
      <4> QED BY <3>1, <4>2, <4>3, OwnSettle
    <3> QED BY <2>11, <3>2, <3>3 DEF CompleteFault
  <2> QED BY <2>1, <2>2, <2>3, <2>4, <2>5, <2>6, <2>7, <2>8, <2>9, <2>10, <2>11
          DEF Continue
<1>4. ASSUME NEW e \in leases, LeaseExpires(e) PROVE OwnInv'
  BY <1>4, OwnFrame DEF LeaseExpires, OwnInv, OnlyUpServes
<1>5. CASE Crash
  BY <1>5, OwnFrame DEF Crash
<1>6. CASE BeginRecovery
  BY <1>6, OwnFrame DEF BeginRecovery, OwnInv, OnlyUpServes
<1>7. ASSUME NEW k \in Keys, ReplayNext(k) PROVE OwnInv'
  BY <1>7, OwnFrame DEF ReplayNext, OwnInv, OnlyUpServes
<1>8. ASSUME NEW k \in Keys, ReplayFails(k) PROVE OwnInv'
  BY <1>8, OwnFrame DEF ReplayFails, OwnInv, OnlyUpServes
<1>9. ASSUME NEW k \in Keys, Reconcile(k) PROVE OwnInv'
  <2>1. commands[k].st = "InFlight" /\ commands \in [Keys -> Entries]
    BY <1>9 DEF Reconcile, IsFirst, unresolved, TypeOK
  <2>2. commands' = [commands EXCEPT ![k].st = "RecoveryRequired"]
    BY <1>9, <2>1, InFlightAlone DEF Reconcile, transition_state, OwnInv
  <2>3. \A j \in Keys : commands'[j].sequence = commands[j].sequence /\ (Filed(j)' <=> Filed(j))
    BY <2>1, <2>2 DEF Entries, Filed
  <2>4. SequencesUnique'
    BY <1>9, <2>3 DEF Reconcile, OwnInv, SequencesUnique
  <2>5. \A s \in Submitters : pc'[s] = "idle"
    BY <1>9 DEF Reconcile, OwnInv, OnlyUpServes
  <2> QED BY <2>4, <2>5 DEF OwnInv, Ownership, OnlyUpServes
<1>10. CASE FinishRecovery
  BY <1>10, OwnFrame DEF FinishRecovery, OwnInv, OnlyUpServes
<1>11. CASE UNCHANGED vars
  BY <1>11, OwnFrame DEF vars, storeVars, OwnInv, OnlyUpServes
<1> QED BY <1>1, <1>2, <1>3, <1>4, <1>5, <1>6, <1>7, <1>8, <1>9, <1>10, <1>11
        DEF Next, Submit, Recover

LEMMA OwnInit == Init => OwnInv
  BY DEF Init, OwnInv, SequencesUnique, Ownership, OnlyUpServes, Filed, AbsentEntry

\* SoleOwner holds for any number of callers, keys, crashes and faults: the
\* caller that admit gave a key to is the only one executing it, and its
\* sequence leads complete to its own entry.
THEOREM SoleOwnerHolds == Spec => []SoleOwner
<1>1. TypeOK /\ OwnInv => SoleOwner
  BY OwnEntry DEF SoleOwner, Executing, OwnInv, Ownership
<1>2. TypeOK /\ OwnInv /\ [Next]_vars => OwnInv'
  BY OwnStep
<1> QED BY <1>1, <1>2, OwnInit, TypeCorrect, PTL DEF Spec
(***************************************************************************)
(* What the world contains.                                                *)
(***************************************************************************)

IsCompleted(k) == commands[k].st = "Completed"

\* A step of a serving daemon that neither mutates nor completes anything.
LEMMA CountFrame ==
  ASSUME AppliedCount, faults = 0, status = "up", status' = "up", applied' = applied,
         \A k \in Keys : /\ IsCompleted(k)' <=> IsCompleted(k)
                         /\ HasMutated(k)' <=> HasMutated(k)
  PROVE  AppliedCount'
  BY DEF AppliedCount, IsCompleted

\* A caller that was not about to complete and is not afterwards changes no
\* HasMutated.
LEMMA MutatedFrame ==
  ASSUME TypeOK, NEW s \in Submitters, pc[s] # "mutated", pc'[s] # "mutated",
         \A t \in Submitters \ {s} : pc'[t] = pc[t] /\ call'[t] = call[t]
  PROVE  \A k \in Keys : HasMutated(k)' <=> HasMutated(k)
  BY DEF HasMutated, Executing

\* The step in which caller s mutates the world: its key's count goes from 0
\* to 1 and no other changes.
LEMMA CountMutate ==
  ASSUME TypeOK, OwnInv, AppliedCount, faults = 0, NEW s \in Submitters,
         status = "up", status' = "up", UNCHANGED commands,
         pc[s] \notin {"idle", "mutated"}, pc' = [pc EXCEPT ![s] = "mutated"],
         NEW r \in Nat, call' = [call EXCEPT ![s].result = r],
         RecordApplied(call[s].key)
  PROVE  AppliedCount'
<1>1. call[s].key \in Keys /\ commands[call[s].key].st = "InFlight"
  BY DEF TypeOK, Calls, OwnInv, Ownership
<1>2. \A t \in Submitters : call'[t].key = call[t].key
  BY DEF TypeOK, Calls
<1>3. pc'[s] = "mutated" /\ \A t \in Submitters \ {s} : pc'[t] = pc[t]
  BY DEF TypeOK
<1>4. ~HasMutated(call[s].key)
  BY DEF HasMutated, Executing, OwnInv, Ownership
<1>5. HasMutated(call[s].key)'
  BY <1>2, <1>3 DEF HasMutated, Executing
<1>6. \A k \in Keys \ {call[s].key} : HasMutated(k)' <=> HasMutated(k)
  BY <1>2, <1>3 DEF HasMutated, Executing
<1>7. applied[call[s].key] = 0
  BY <1>1, <1>4 DEF AppliedCount
<1>8. applied'[call[s].key] = 1 /\ \A k \in Keys \ {call[s].key} : applied'[k] = applied[k]
  BY <1>1, <1>7 DEF RecordApplied, TypeOK
<1> QED BY <1>1, <1>5, <1>6, <1>8 DEF AppliedCount

\* Every step keeps the count of mutations right while no port has failed.
LEMMA CountStep ==
  ASSUME TypeOK, OwnInv, AppliedCount, [Next]_vars
  PROVE  AppliedCount'
<1> SUFFICES ASSUME faults' = 0 PROVE AppliedCount'
  BY DEF AppliedCount
<1>1. ASSUME NEW s \in Submitters, NEW k \in Keys, Admit(s, k) PROVE AppliedCount'
  <2>1. /\ faults = 0 /\ status = "up" /\ status' = "up" /\ applied' = applied
        /\ pc[s] = "idle" /\ pc'[s] = "admitted"
        /\ \A t \in Submitters \ {s} : pc'[t] = pc[t] /\ call'[t] = call[t]
    BY <1>1 DEF Admit, Goto, historyVars, budgetVars, TypeOK
  <2>2. \A j \in Keys : IsCompleted(j)' <=> IsCompleted(j)
    BY <1>1 DEF Admit, Admissible, admit, InFlightEntry, IsCompleted, TypeOK
  <2> QED BY <2>1, <2>2, CountFrame, MutatedFrame
<1>2. ASSUME NEW s \in Submitters, NEW k \in Keys, AdmitCompleted(s, k) PROVE AppliedCount'
  <2>1. faults = 0 /\ UNCHANGED <<applied, status, commands, pc, call, cursor>>
    BY <1>2 DEF AdmitCompleted, storeVars, budgetVars
  <2> QED BY <2>1 DEF AppliedCount, HasMutated, Executing
<1>3. ASSUME NEW s \in Submitters, Continue(s) PROVE AppliedCount'
  <2> USE <1>3
  <2>a. ASSUME NEW from, from # "mutated", Return(s, from), faults = 0,
               UNCHANGED <<commands, status, applied>>
        PROVE  AppliedCount'
    <3>1. /\ status = "up" /\ status' = "up" /\ pc[s] # "mutated" /\ pc'[s] # "mutated"
          /\ \A t \in Submitters \ {s} : pc'[t] = pc[t] /\ call'[t] = call[t]
      BY <2>a DEF Return, Goto, TypeOK
    <3>2. \A j \in Keys : IsCompleted(j)' <=> IsCompleted(j)
      BY <2>a DEF IsCompleted
    <3>3. \A j \in Keys : HasMutated(j)' <=> HasMutated(j)
      BY <3>1, MutatedFrame
    <3> QED BY <2>a, <3>1, <3>2, <3>3, CountFrame
  <2>b. ASSUME NEW to, to # "mutated", Goto(s, "admitted", to), faults = 0,
               UNCHANGED <<commands, status, applied, call>>
        PROVE  AppliedCount'
    <3>1. /\ status = "up" /\ status' = "up" /\ pc[s] # "mutated" /\ pc'[s] # "mutated"
          /\ \A t \in Submitters \ {s} : pc'[t] = pc[t] /\ call'[t] = call[t]
      BY <2>b DEF Goto, TypeOK
    <3>2. \A j \in Keys : IsCompleted(j)' <=> IsCompleted(j)
      BY <2>b DEF IsCompleted
    <3>3. \A j \in Keys : HasMutated(j)' <=> HasMutated(j)
      BY <3>1, MutatedFrame
    <3> QED BY <2>b, <3>1, <3>2, <3>3, CountFrame
  <2>1. CASE RejectEpoch(s)
    BY <2>1, <2>a DEF RejectEpoch, storeVars, historyVars, budgetVars
  <2>2. CASE ExecuteOk(s)
    <3>1. Execute(world, CommandOf[call[s].key]).entity \in Nat
      <4>1. call[s].key \in Keys
        BY DEF TypeOK, Calls
      <4>2. Execute(world, CommandOf[call[s].key]) \in Results
        BY <4>1, CommandType, ExecuteType DEF TypeOK
      <4> QED BY <4>2 DEF Results
    <3> QED BY <2>2, <3>1, CountMutate DEF ExecuteOk, Goto, storeVars, budgetVars
  <2>3. CASE ExecuteErr(s)
    BY <2>3, <2>a, FailedIsRefused DEF ExecuteErr, historyVars, budgetVars, TypeOK
  <2>4. CASE AcquireLease(s)
    BY <2>4, <2>b DEF AcquireLease, storeVars, historyVars, budgetVars
  <2>5. CASE DenyLease(s)
    BY <2>5, <2>a DEF DenyLease, storeVars, historyVars, budgetVars
  <2>6. CASE ReleaseLease(s)
    BY <2>6, <2>b DEF ReleaseLease, storeVars, historyVars, budgetVars
  <2>7. CASE LeaseFault(s) \/ CompleteFault(s)
    BY <2>7 DEF LeaseFault, CompleteFault, FaultBudget, TypeOK
  <2>8. CASE SetLeaseState(s)
    <3>1. put_state(world, TargetOf(s), LeaseState(s), {}).entity \in Nat
      <4>1. TargetOf(s) \in Nat
        BY CommandType DEF TargetOf, TypeOK, Calls
      <4>2. LeaseState(s) \in WorkStates \cup {NoState}
        BY DEF LeaseState, WorkStates
      <4>3. put_state(world, TargetOf(s), LeaseState(s), {}) \in Results
        BY <4>1, <4>2, PutStateType DEF TypeOK
      <4> QED BY <4>3 DEF Results
    <3> QED BY <2>8, <3>1, CountMutate DEF SetLeaseState, Goto, storeVars, budgetVars
  <2>9. CASE SetLeaseStateErr(s)
    BY <2>9, <2>a DEF SetLeaseStateErr, storeVars, historyVars, budgetVars
  <2>10. CASE Complete(s)
    <3>1. /\ pc[s] = "mutated" /\ pc'[s] = "idle" /\ faults = 0
          /\ status = "up" /\ status' = "up" /\ applied' = applied
          /\ \A t \in Submitters \ {s} : pc'[t] = pc[t] /\ call'[t] = call[t]
      BY <2>10 DEF Complete, Return, Goto, budgetVars, TypeOK
    <3>2. call[s].key \in Keys /\ call[s].result \in Nat
      BY DEF TypeOK, Calls
    <3>a. commands' = [commands EXCEPT ![call[s].key] =
                         [st |-> "Completed", sequence |-> call[s].sequence,
                          result |-> call[s].result]]
      BY <2>10, <3>1, <3>2, SettleOwn DEF Complete
    <3>3. /\ commands'[call[s].key].st = "Completed"
          /\ \A k \in Keys \ {call[s].key} : commands'[k] = commands[k]
      BY <3>2, <3>a DEF TypeOK
    <3>4. HasMutated(call[s].key)
      BY <3>1 DEF HasMutated, Executing
    <3>5. \A k \in Keys \ {call[s].key} : HasMutated(k)' <=> HasMutated(k)
      BY <3>1 DEF HasMutated, Executing
    <3> QED BY <3>1, <3>2, <3>3, <3>4, <3>5 DEF AppliedCount
  <2> QED BY <2>1, <2>2, <2>3, <2>4, <2>5, <2>6, <2>7, <2>8, <2>9, <2>10 DEF Continue
<1>4. ASSUME NEW e \in leases, LeaseExpires(e) PROVE AppliedCount'
  <2>1. faults = 0 /\ UNCHANGED <<applied, status, commands, pc, call, cursor>>
    BY <1>4 DEF LeaseExpires, storeVars, historyVars, budgetVars
  <2> QED BY <2>1 DEF AppliedCount, HasMutated, Executing
<1>5. CASE Crash
  BY <1>5 DEF Crash, AppliedCount
<1>6. CASE BeginRecovery
  <2>1. /\ faults = 0 /\ status = "down" /\ status' = "recovering" /\ cursor' = 0
        /\ UNCHANGED <<applied, commands>>
        /\ \A k \in Keys : commands[k].sequence \in Nat
    BY <1>6 DEF BeginRecovery, storeVars, historyVars, budgetVars, TypeOK, Entries
  <2>2. \A k \in Keys : ~(commands[k].sequence < 0)
    BY <2>1
  <2> QED BY <2>1, <2>2 DEF AppliedCount
<1>7. ASSUME NEW k \in Keys, ReplayNext(k) PROVE AppliedCount'
  <2>1. /\ faults = 0 /\ status = "recovering" /\ status' = "recovering"
        /\ UNCHANGED commands /\ cursor' = commands[k].sequence + 1
        /\ applied' = [applied EXCEPT ![k] = @ + 1]
    BY <1>7 DEF ReplayNext, RecordApplied, storeVars, budgetVars
  <2>2. /\ commands[k].st = "Completed" /\ commands[k].sequence >= cursor
        /\ \A j \in Keys : (commands[j].st = "Completed" /\ commands[j].sequence >= cursor)
                             => commands[k].sequence <= commands[j].sequence
    BY <1>7 DEF ReplayNext, IsFirst, ToReplay, completed_after
  <2>3. cursor \in Nat /\ \A j \in Keys : commands[j].sequence \in Nat
    BY DEF TypeOK, Entries
  <2>4. applied[k] = 0
    BY <2>1, <2>2, <2>3 DEF AppliedCount
  <2>5. applied'[k] = 1 /\ \A j \in Keys \ {k} : applied'[j] = applied[j]
    BY <2>1, <2>4 DEF TypeOK
  <2>6. \A j \in Keys \ {k} : commands[j].st = "Completed" =>
          (commands[j].sequence < commands[k].sequence + 1 <=> commands[j].sequence < cursor)
    BY <2>2, <2>3 DEF OwnInv, SequencesUnique, Filed
  <2>7. commands[k].sequence < commands[k].sequence + 1
    BY <2>3
  <2> QED BY <2>1, <2>2, <2>5, <2>6, <2>7 DEF AppliedCount
<1>8. ASSUME NEW k \in Keys, ReplayFails(k) PROVE AppliedCount'
  BY <1>8 DEF ReplayFails, AppliedCount
<1>9. ASSUME NEW k \in Keys, Reconcile(k) PROVE AppliedCount'
  <2>1. /\ faults = 0 /\ status = "recovering" /\ status' = "recovering"
        /\ UNCHANGED <<applied, cursor>>
        /\ commands[k].st = "InFlight" /\ commands \in [Keys -> Entries]
    BY <1>9 DEF Reconcile, IsFirst, unresolved, historyVars, budgetVars, TypeOK
  <2>2. commands' = [commands EXCEPT ![k].st = "RecoveryRequired"]
    BY <1>9, <2>1, InFlightAlone DEF Reconcile, transition_state, OwnInv
  <2>3. \A j \in Keys : /\ commands'[j].sequence = commands[j].sequence
                        /\ commands'[j].st = "Completed" <=> commands[j].st = "Completed"
    BY <2>1, <2>2 DEF TypeOK, Entries
  <2> QED BY <2>1, <2>3 DEF AppliedCount
<1>10. CASE FinishRecovery
  <2>1. /\ faults = 0 /\ status = "recovering" /\ status' = "up"
        /\ UNCHANGED <<applied, commands, pc, call>>
        /\ \A k \in Keys : ~(commands[k].st = "Completed" /\ commands[k].sequence >= cursor)
    BY <1>10 DEF FinishRecovery, ToReplay, completed_after, storeVars, historyVars, budgetVars
  <2>2. \A k \in Keys : ~HasMutated(k)'
    BY <2>1 DEF HasMutated, Executing, OwnInv, OnlyUpServes
  <2>3. \A k \in Keys : commands[k].st = "Completed" => commands[k].sequence < cursor
    BY <2>1 DEF TypeOK, Entries
  <2> QED BY <2>1, <2>2, <2>3 DEF AppliedCount
<1>11. CASE UNCHANGED vars
  BY <1>11 DEF vars, AppliedCount, HasMutated, Executing
<1> QED BY <1>1, <1>2, <1>3, <1>4, <1>5, <1>6, <1>7, <1>8, <1>9, <1>10, <1>11
        DEF Next, Submit, Recover

LEMMA CountInit == Init => AppliedCount
  BY DEF Init, AppliedCount, HasMutated, Executing, AbsentEntry
\* ExactlyOnce holds for any commands, callers and crashes, as long as no port
\* has failed: duplicates, crashes before completion and the replay never
\* leave a completed command out of the world or put one in twice.
THEOREM ExactlyOnceHolds == Spec => []ExactlyOnce
<1>1. TypeOK /\ OwnInv /\ AppliedCount => ExactlyOnce
  <2> SUFFICES ASSUME AppliedCount, status = "up", faults = 0, NEW k \in Keys
               PROVE  IF commands[k].st = "Completed" THEN applied[k] = 1
                                                      ELSE applied[k] <= 1
    BY DEF ExactlyOnce
  <2>1. applied[k] = IF commands[k].st = "Completed" \/ HasMutated(k) THEN 1 ELSE 0
    BY DEF AppliedCount
  <2> QED BY <2>1
<1>2. TypeOK /\ OwnInv /\ AppliedCount /\ [Next]_vars => OwnInv' /\ AppliedCount'
  BY OwnStep, CountStep
<1> QED BY <1>1, <1>2, OwnInit, CountInit, TypeCorrect, PTL DEF Spec

(***************************************************************************)
(* What callers are told.                                                  *)
(***************************************************************************)

\* No store call changes a completed entry.
LEMMA AdmitKeepsCompleted ==
  ASSUME NEW m \in [Keys -> Entries], NEW k \in Keys, m[k].st = "Completed",
         NEW j \in Keys, NEW seq, Admissible(m, j)
  PROVE  admit(m, j, seq)[k] = m[k]
  BY DEF Admissible, admit

LEMMA CompleteKeepsCompleted ==
  ASSUME NEW m \in [Keys -> Entries], NEW k \in Keys, m[k].st = "Completed",
         NEW seq, NEW result
  PROVE  complete(m, seq, result)[k] = m[k]
  BY DEF complete, InFlightWith

LEMMA TransitionKeepsCompleted ==
  ASSUME NEW m \in [Keys -> Entries], NEW k \in Keys, m[k].st = "Completed",
         NEW seq, NEW target
  PROVE  transition_state(m, seq, target)[k] = m[k]
  BY DEF transition_state, InFlightWith

\* So no step does.
LEMMA FinalStep ==
  ASSUME TypeOK, [Next]_vars, NEW k \in Keys, commands[k].st = "Completed"
  PROVE  commands'[k] = commands[k]
<1>0. commands \in [Keys -> Entries]
  BY DEF TypeOK
<1>1. \/ commands' = commands
      \/ \E j \in Keys, seq \in Nat : Admissible(commands, j) /\ commands' = admit(commands, j, seq)
      \/ \E seq \in Nat, result \in Nat : commands' = complete(commands, seq, result)
      \/ \E seq \in Nat : \/ commands' = transition_state(commands, seq, "failed")
                          \/ commands' = transition_state(commands, seq, "recovery_required")
  <2>1. ASSUME NEW s \in Submitters, NEW j \in Keys, Admit(s, j)
        PROVE  \E i \in Keys, seq \in Nat : /\ Admissible(commands, i)
                                            /\ commands' = admit(commands, i, seq)
    BY <2>1 DEF Admit, TypeOK
  <2>2. ASSUME NEW s \in Submitters, Continue(s)
        PROVE  \/ commands' = commands
               \/ \E seq \in Nat, result \in Nat : commands' = complete(commands, seq, result)
               \/ \E seq \in Nat : \/ commands' = transition_state(commands, seq, "failed")
                                   \/ commands' = transition_state(commands, seq, "recovery_required")
    <3>1. call[s].sequence \in Nat /\ call[s].result \in Nat
      BY DEF TypeOK, Calls
    <3>2. CASE ExecuteErr(s)
      BY <3>1, <3>2 DEF ExecuteErr
    <3>3. CASE Complete(s)
      BY <3>1, <3>3 DEF Complete
    <3>4. CASE CompleteFault(s)
      BY <3>1, <3>4 DEF CompleteFault
    <3> QED BY <2>2, <3>2, <3>3, <3>4
            DEF Continue, RejectEpoch, ExecuteOk, AcquireLease, DenyLease, ReleaseLease,
                LeaseFault, SetLeaseState, SetLeaseStateErr, storeVars
  <2>3. ASSUME NEW j \in Keys, Reconcile(j)
        PROVE  \E seq \in Nat : commands' = transition_state(commands, seq, "recovery_required")
    BY <2>3 DEF Reconcile, TypeOK, Entries
  <2>4. ASSUME \/ \E s \in Submitters, j \in Keys : AdmitCompleted(s, j)
               \/ \E e \in leases : LeaseExpires(e)
               \/ Crash \/ BeginRecovery \/ FinishRecovery
               \/ \E j \in Keys : ReplayNext(j) \/ ReplayFails(j)
               \/ UNCHANGED vars
        PROVE  commands' = commands
    BY <2>4 DEF AdmitCompleted, LeaseExpires, Crash, BeginRecovery, FinishRecovery,
                ReplayNext, ReplayFails, vars, storeVars
  <2> QED BY <2>1, <2>2, <2>3, <2>4 DEF Next, Submit, Recover
<1>2. CASE commands' = commands
  BY <1>2
<1>3. ASSUME NEW j \in Keys, NEW seq \in Nat, Admissible(commands, j),
             commands' = admit(commands, j, seq)
      PROVE  commands'[k] = commands[k]
  BY <1>0, <1>3, AdmitKeepsCompleted
<1>4. ASSUME NEW seq \in Nat, NEW result \in Nat, commands' = complete(commands, seq, result)
      PROVE  commands'[k] = commands[k]
  BY <1>0, <1>4, CompleteKeepsCompleted
<1>5. ASSUME NEW seq \in Nat, NEW target, commands' = transition_state(commands, seq, target)
      PROVE  commands'[k] = commands[k]
  BY <1>0, <1>5, TransitionKeepsCompleted
<1> QED BY <1>1, <1>2, <1>3, <1>4, <1>5

\* A completed command is final, whatever fails: its sequence and result never
\* change and its key is never handed out again.
THEOREM CompletedIsFinalHolds == Spec => CompletedIsFinal
<1>1. TypeOK /\ [Next]_vars =>
        [\A k \in Keys : commands[k].st = "Completed" => commands'[k] = commands[k]]_vars
  BY FinalStep
<1> QED BY <1>1, TypeCorrect, PTL DEF Spec, CompletedIsFinal

\* A step in which no new answer is given.
LEMMA AnswerFrame ==
  ASSUME TypeOK, [Next]_vars, AnsweredIsJournaled, UNCHANGED answers
  PROVE  AnsweredIsJournaled'
  BY FinalStep DEF AnsweredIsJournaled, Outcome

\* Every step tells callers only what the store holds, while no port failed.
LEMMA AnswerStep ==
  ASSUME TypeOK, OwnInv, AnsweredIsJournaledUnlessFault, [Next]_vars
  PROVE  AnsweredIsJournaledUnlessFault'
<1> SUFFICES ASSUME faults' = 0 PROVE AnsweredIsJournaled'
  BY DEF AnsweredIsJournaledUnlessFault
<1>0. faults = 0
  BY DEF Next, Submit, Continue, Recover, Admit, AdmitCompleted, RejectEpoch, ExecuteOk,
         ExecuteErr, AcquireLease, DenyLease, ReleaseLease, LeaseFault, SetLeaseState,
         SetLeaseStateErr, Complete, CompleteFault, LeaseExpires, Crash, BeginRecovery,
         ReplayNext, ReplayFails, Reconcile, FinishRecovery, FaultBudget, budgetVars,
         vars, TypeOK
<1>a. AnsweredIsJournaled
  BY <1>0 DEF AnsweredIsJournaledUnlessFault
<1>1. ASSUME NEW s \in Submitters, NEW k \in Keys, AdmitCompleted(s, k)
      PROVE  AnsweredIsJournaled'
  <2>1. /\ commands' = commands /\ commands[k].st = "Completed"
        /\ answers' = [answers EXCEPT ![k] = @ \cup {Outcome(commands[k])}]
    BY <1>1 DEF AdmitCompleted, Answer, storeVars
  <2>2. answers'[k] = {Outcome(commands[k])}
        /\ \A j \in Keys \ {k} : answers'[j] = answers[j]
    BY <1>a, <2>1 DEF AnsweredIsJournaled, TypeOK
  <2> QED BY <1>a, <2>1, <2>2 DEF AnsweredIsJournaled
<1>2. ASSUME NEW s \in Submitters, Complete(s) PROVE AnsweredIsJournaled'
  <2>1. pc[s] = "mutated" /\ call[s].key \in Keys /\ call[s].result \in Nat
    BY <1>2 DEF Complete, Return, Goto, TypeOK, Calls
  <2>2. commands[call[s].key].st = "InFlight"
    BY <2>1 DEF OwnInv, Ownership
  <2>3. commands' = [commands EXCEPT ![call[s].key] =
                       [st |-> "Completed", sequence |-> call[s].sequence,
                        result |-> call[s].result]]
    BY <1>2, <2>1, SettleOwn DEF Complete
  <2>4. answers[call[s].key] = {}
    BY <1>a, <2>1, <2>2 DEF AnsweredIsJournaled
  <2>5. /\ answers'[call[s].key] = {Outcome(call[s])}
        /\ \A j \in Keys \ {call[s].key} : answers'[j] = answers[j]
    BY <1>2, <2>1, <2>4 DEF Complete, Answer, TypeOK
  <2>6. /\ commands'[call[s].key].st = "Completed"
        /\ Outcome(commands'[call[s].key]) = Outcome(call[s])
        /\ \A j \in Keys \ {call[s].key} : commands'[j] = commands[j]
    BY <2>1, <2>3 DEF TypeOK, Outcome
  <2> QED BY <1>a, <2>5, <2>6 DEF AnsweredIsJournaled, Outcome
<1>3. ASSUME NEW s \in Submitters, Continue(s), ~Complete(s) PROVE UNCHANGED answers
  BY <1>0, <1>3 DEF Continue, RejectEpoch, ExecuteOk, ExecuteErr, AcquireLease, DenyLease,
         ReleaseLease, LeaseFault, SetLeaseState, SetLeaseStateErr, CompleteFault,
         FaultBudget, historyVars
<1>4. ASSUME \/ \E s \in Submitters, k \in Keys : Admit(s, k)
             \/ \E e \in leases : LeaseExpires(e)
             \/ Crash \/ Recover \/ UNCHANGED vars
      PROVE  UNCHANGED answers
  BY <1>4 DEF Admit, LeaseExpires, Crash, Recover, BeginRecovery, ReplayNext, ReplayFails,
         Reconcile, FinishRecovery, historyVars, vars
<1> QED BY <1>a, <1>1, <1>2, <1>3, <1>4, AnswerFrame DEF Next, Submit

\* The durable-before-acknowledged property holds for any commands, callers
\* and crashes, as long as no port has failed.
THEOREM AnsweredIsJournaledHolds == Spec => []AnsweredIsJournaledUnlessFault
<1>1. Init => AnsweredIsJournaledUnlessFault
  BY DEF Init, AnsweredIsJournaledUnlessFault, AnsweredIsJournaled
<1>2. TypeOK /\ OwnInv /\ AnsweredIsJournaledUnlessFault /\ [Next]_vars
        => OwnInv' /\ AnsweredIsJournaledUnlessFault'
  BY OwnStep, AnswerStep
<1> QED BY <1>1, <1>2, OwnInit, TypeCorrect, PTL DEF Spec

\* The whole inductive invariant.
THEOREM KernelInvHolds == Spec => []KernelInv
<1>1. OwnInv /\ AppliedCount /\ AnsweredIsJournaledUnlessFault => KernelInv
  BY DEF KernelInv
<1>2. TypeOK /\ OwnInv /\ [Next]_vars => OwnInv'
  BY OwnStep
<1>3. TypeOK /\ OwnInv /\ AppliedCount /\ [Next]_vars => AppliedCount'
  BY CountStep
<1> QED BY <1>1, <1>2, <1>3, OwnInit, CountInit, AnsweredIsJournaledHolds, TypeCorrect, PTL
        DEF Spec
============================================================================
