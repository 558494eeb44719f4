------------------------- MODULE WorkScheduleProofs -------------------------
(***************************************************************************)
(* Proofs about the work schedule, for any claims, any number of work      *)
(* items, any limits and any number of faults.                             *)
(*                                                                         *)
(* A command runs later than the view it was decided on.  The inductive    *)
(* invariant says what of that view is still true when it runs (StillTrue: *)
(* the progress it carries is the next one), that no two commands of a     *)
(* buffer are the same order for the same entity (so running one cannot    *)
(* outdate another), and which entities can hold a lease or a handle.      *)
(* Every action touches one entity, in a way that depends on the command   *)
(* only (Touches), or emits a buffer.  Two more invariants rest on it, one *)
(* for the limits of admission (AdmitsFit) and one for the results that    *)
(* are not published yet (ResultsKept).                                    *)
(***************************************************************************)
EXTENDS WorkSchedule, DataLemmas, SequenceTheorems

ScheduleOps == {"MarkObserved", "RecordWorkPlan", "AdmitWork", "RequestCancellation",
                "AcquireWorkLease", "RecordDispatchIntent", "FailWork", "CompleteWork",
                "PublishResult", "ReleaseWorkLease", "ExpireTransientState"}

\* What a stage can put into the buffer.
Orders == [op : ScheduleOps, entity : Ids, arg : {Blank}]
            \cup [op : {"AdvanceInference"}, entity : Ids, arg : Progress]

Unrepeated(cmds) ==
  \A i, j \in DOMAIN cmds : cmds[i].op = cmds[j].op /\ cmds[i].entity = cmds[j].entity => i = j

\* The progress that a command carries is the next after the one recorded.
NextProgress(m, p) ==
  /\ m # NoMeta
  /\ \/ m.phase = "Prefill" /\ p = next_after_prefill(m)
     \/ m.phase = "Decode" /\ p = next_after_decode(m) /\ ~is_complete_after_decode(m)

\* What was true when the command was emitted and still is when it runs.
StillTrue(c) ==
  /\ c.entity \in Works
  /\ c.op = "AdvanceInference" => NextProgress(Meta(c.entity), c.arg)

Buffered ==
  /\ buffer \in Seq(Orders)
  /\ Unrepeated(buffer)
  /\ \A i \in DOMAIN buffer : StillTrue(buffer[i])

\* The lease command that is past the coordinator is the head of the buffer.
HalfDone ==
  /\ lease_step # "none" => buffer # <<>>
  /\ lease_step = "granted" => Head(buffer).op = "AcquireWorkLease"
  /\ lease_step = "released" => Head(buffer).op = "ReleaseWorkLease" /\ Target \notin leases

\* A held lease is one of work that was leased and not put back since, and no
\* stage asks for one that is held.
LeasesHeld ==
  /\ \A e \in leases :
       /\ e \in Works
       /\ \/ InState(e, {"Leased", "Completed", "Failed", "Cancelled"})
          \/ lease_step = "granted" /\ Target = e
  /\ \A i \in DOMAIN buffer :
       buffer[i].op = "AcquireWorkLease" /\ ~(i = 1 /\ lease_step = "granted")
         => buffer[i].entity \notin leases

\* A handle stands for a dispatch that was started.
HandlesLive ==
  \A e \in Ids : active[e] > 0 =>
    active[e] = 1 /\ e \in Works /\ Has(e, "AdmittedMarker") /\ job[e] # "none"

ScheduleInv ==
  TypeOK /\ ProgressConserved /\ Buffered /\ HalfDone /\ LeasesHeld /\ HandlesLive

\* The work that a list of commands admits.
Targets(cmds) == {cmds[i].entity : i \in {k \in DOMAIN cmds : cmds[k].op = "AdmitWork"}}

AdmissionOps == {"AdmitWork", "RequestCancellation"}

\* What an entity of the world reserves, and what those of S reserve together:
\* ReservedBy of any world.
Charge(v) == IF v.meta = NoMeta THEN 0 ELSE reserved_tokens(v.meta)

Reserved(w, S) ==
  LET sum[n \in 0 .. Len(w)] ==
        IF n = 0 THEN 0 ELSE sum[n - 1] + (IF n \in S THEN Charge(w[n]) ELSE 0)
  IN  sum[Len(w)]

\* Some of the work of S is inference work.
Infers(w, S) == \E e \in S : w[e].meta # NoMeta

\* The work that the buffer still admits fits the capacity along with the work
\* that is admitted already, and the tokens if it admits inference work.
AdmitsFit ==
  Targets(buffer) # {} =>
    /\ \A i \in DOMAIN buffer : buffer[i].op \in AdmissionOps
    /\ Cardinality(ActiveWorks \cup Targets(buffer)) <= AdmissionCapacity
    /\ Infers(world, Targets(buffer)) =>
         Reserved(world, ActiveWorks \cup Targets(buffer)) <= MaxInflightTokens

-----------------------------------------------------------------------------
(***************************************************************************)
(* Progress.                                                               *)
(***************************************************************************)

\* The metadata m tells the story of the claim c.
Tells(m, c) ==
  /\ [m EXCEPT !.phase = c.phase, !.prefilled_tokens = 0,
               !.generated_tokens = 0, !.kv_tokens = c.kv_tokens] = c
  /\ m.kv_tokens = c.kv_tokens + m.prefilled_tokens + m.generated_tokens
  /\ m.prefilled_tokens <= c.prompt_tokens
  /\ m.generated_tokens < c.max_new_tokens
  /\ m.phase = "Decode" => m.prefilled_tokens = c.prompt_tokens

Advanced(m, p) == [m EXCEPT !.phase            = p.phase,
                            !.prefilled_tokens = p.prefilled_tokens,
                            !.generated_tokens = p.generated_tokens,
                            !.kv_tokens        = p.kv_tokens]

\* What Min gives for two numbers.
LEMMA MinOfTwo ==
  ASSUME NEW a \in Nat, NEW b \in Nat
  PROVE  Min({a, b}) = IF a <= b THEN a ELSE b
<1> DEFINE r == IF a <= b THEN a ELSE b
<1>1. r \in {a, b} /\ \A y \in {a, b} : r <= y
  OBVIOUS
<1>2. \A x \in {a, b} : (\A y \in {a, b} : x <= y) => x = r
  OBVIOUS
<1> HIDE DEF r
<1>3. Min({a, b}) = r
  BY <1>1, <1>2 DEF Min
<1>4. QED
  BY <1>3 DEF r

\* The next progress never regresses, and goes on telling the claim's story.
LEMMA ProgressStep ==
  ASSUME NEW m \in Metas, NEW c \in Metas, Tells(m, c), NEW p, NextProgress(m, p)
  PROVE  /\ p \in Progress
         /\ m.kv_epoch = p.kv_epoch
         /\ p.prefilled_tokens >= m.prefilled_tokens
         /\ p.generated_tokens >= m.generated_tokens
         /\ p.kv_tokens >= m.kv_tokens
         /\ Advanced(m, p) \in Metas
         /\ Tells(Advanced(m, p), c)
<1>0. PrefillLimit \in Nat \ {0}
  BY LimitsAssumption
<1>1. /\ m.prompt_tokens = c.prompt_tokens /\ m.max_new_tokens = c.max_new_tokens
  <2> DEFINE z == [m EXCEPT !.phase = c.phase, !.prefilled_tokens = 0,
                            !.generated_tokens = 0, !.kv_tokens = c.kv_tokens]
  <2>1. z.prompt_tokens = m.prompt_tokens /\ z.max_new_tokens = m.max_new_tokens
    BY DEF Metas
  <2>2. z = c
    BY DEF Tells
  <2>3. QED
    BY <2>1, <2>2
<1>2. /\ {m.prompt_tokens, m.prefilled_tokens, m.generated_tokens, m.max_new_tokens,
           m.kv_tokens, m.kv_epoch, c.kv_tokens} \subseteq Nat
      /\ m.phase \in Phases
  BY DEF Metas
<1>3. /\ p \in Progress /\ m.kv_epoch = p.kv_epoch
      /\ p.prefilled_tokens >= m.prefilled_tokens /\ p.prefilled_tokens <= m.prompt_tokens
      /\ p.generated_tokens >= m.generated_tokens /\ p.generated_tokens < m.max_new_tokens
      /\ p.kv_tokens >= m.kv_tokens
      /\ p.kv_tokens = c.kv_tokens + p.prefilled_tokens + p.generated_tokens
      /\ p.phase = "Decode" => p.prefilled_tokens = m.prompt_tokens
  <2>1. CASE m.phase = "Prefill" /\ p = next_after_prefill(m)
    <3> DEFINE end == next_prefill_end(m)
    <3>1. end = IF m.prefilled_tokens + PrefillLimit <= m.prompt_tokens
                  THEN m.prefilled_tokens + PrefillLimit ELSE m.prompt_tokens
      BY <1>0, <1>2, MinOfTwo DEF next_prefill_end
    <3>2. end \in Nat /\ end >= m.prefilled_tokens /\ end <= m.prompt_tokens
      BY <1>0, <1>1, <1>2, <3>1 DEF Tells
    <3> HIDE DEF end
    <3>3. p = [phase            |-> IF end >= m.prompt_tokens THEN "Decode" ELSE m.phase,
               prefilled_tokens |-> end,
               generated_tokens |-> m.generated_tokens,
               kv_epoch         |-> m.kv_epoch,
               kv_tokens        |-> m.kv_tokens + (end - m.prefilled_tokens)]
      BY <2>1 DEF next_after_prefill, end
    <3>4. m.kv_tokens + (end - m.prefilled_tokens) \in Nat
      BY <1>2, <3>2
    <3>5. p \in Progress
      BY <1>2, <3>2, <3>3, <3>4 DEF Progress, Phases
    <3>6. /\ p.phase = IF end >= m.prompt_tokens THEN "Decode" ELSE m.phase
          /\ p.prefilled_tokens = end /\ p.generated_tokens = m.generated_tokens
          /\ p.kv_epoch = m.kv_epoch /\ p.kv_tokens = m.kv_tokens + (end - m.prefilled_tokens)
      BY <3>3
    <3>7. p.phase = "Decode" => end = m.prompt_tokens
      BY <1>2, <2>1, <3>2, <3>6
    <3>8. p.kv_tokens = c.kv_tokens + end + m.generated_tokens /\ p.kv_tokens >= m.kv_tokens
      BY <1>2, <3>2, <3>6 DEF Tells
    <3>9. m.generated_tokens < m.max_new_tokens
      BY <1>1 DEF Tells
    <3>10. QED
      BY <1>2, <3>2, <3>5, <3>6, <3>7, <3>8, <3>9
  <2>2. CASE m.phase = "Decode" /\ p = next_after_decode(m) /\ ~is_complete_after_decode(m)
    <3>1. p = [phase            |-> "Decode",
               prefilled_tokens |-> m.prefilled_tokens,
               generated_tokens |-> m.generated_tokens + 1,
               kv_epoch         |-> m.kv_epoch,
               kv_tokens        |-> m.kv_tokens + 1]
      BY <2>2 DEF next_after_decode
    <3>2. p \in Progress
      BY <1>2, <3>1 DEF Progress, Phases
    <3>3. /\ p.phase = "Decode" /\ p.prefilled_tokens = m.prefilled_tokens
          /\ p.generated_tokens = m.generated_tokens + 1
          /\ p.kv_epoch = m.kv_epoch /\ p.kv_tokens = m.kv_tokens + 1
      BY <3>1
    <3>4. m.generated_tokens + 1 < m.max_new_tokens
      BY <1>2, <2>2 DEF is_complete_after_decode
    <3>5. m.prefilled_tokens = m.prompt_tokens
          /\ m.kv_tokens = c.kv_tokens + m.prefilled_tokens + m.generated_tokens
      BY <1>1, <2>2 DEF Tells
    <3>6. QED
      BY <1>2, <3>2, <3>3, <3>4, <3>5
  <2>3. QED
    BY <2>1, <2>2 DEF NextProgress
<1>4. /\ p.phase \in Phases /\ {p.prefilled_tokens, p.generated_tokens, p.kv_tokens} \subseteq Nat
  BY <1>3 DEF Progress
<1> DEFINE a == Advanced(m, p)
<1>5. /\ a \in Metas /\ a.phase = p.phase /\ a.prefilled_tokens = p.prefilled_tokens
      /\ a.generated_tokens = p.generated_tokens /\ a.kv_tokens = p.kv_tokens
  BY <1>4 DEF Advanced, Metas
<1>6. [a EXCEPT !.phase = c.phase, !.prefilled_tokens = 0,
                !.generated_tokens = 0, !.kv_tokens = c.kv_tokens]
        = [m EXCEPT !.phase = c.phase, !.prefilled_tokens = 0,
                    !.generated_tokens = 0, !.kv_tokens = c.kv_tokens]
  BY DEF Advanced, Metas
<1> HIDE DEF a
<1>7. Tells(a, c)
  BY <1>1, <1>3, <1>5, <1>6 DEF Tells
<1>8. QED
  BY <1>3, <1>5, <1>7 DEF a

-----------------------------------------------------------------------------
(***************************************************************************)
(* What a command does to the entity it addresses.                         *)
(***************************************************************************)

\* The orders that may take work out of Completed.
Discards == {"AcquireWorkLease", "RecordDispatchIntent", "FailWork", "ReleaseWorkLease"}

\* Command c may turn the entity v into v2.
Touches(c, v, v2) ==
  /\ v2 \in Entities
  /\ v.comps \subseteq v2.comps
  /\ c.op = "PublishResult" => v2.state = "Completed" /\ "PublishedMarker" \in v2.comps
  /\ "AdmittedMarker" \in v2.comps => "AdmittedMarker" \in v.comps \/ c.op = "AdmitWork"
  /\ v2.meta = IF c.op = "AdvanceInference" THEN Advanced(v.meta, c.arg) ELSE v.meta
  /\ \/ v2.state = v.state
     \/ v2.state \in {"Leased", "Completed", "Failed", "Cancelled"}
     \/ v.state = "Pending" /\ v2.state = "Ready"
     \/ c.op = "ReleaseWorkLease" /\ v2.state = "Ready"
  /\ c.op = "RequestCancellation" => v2.comps = v.comps /\ v2.state \in {v.state, "Cancelled"}
  /\ v.state = "Completed" => v2.state = "Completed" \/ c.op \in Discards
  /\ v2.state = "Completed" => v.state = "Completed" \/ c.op \in {"CompleteWork", "PublishResult"}

\* The meta of work that has one tells the story of some claim.
LEMMA ProgressTells ==
  ASSUME TypeOK, ProgressConserved, NEW e \in Works, Meta(e) # NoMeta
  PROVE  /\ Meta(e) \in Metas
         /\ \E c \in Claims \ {NoMeta} : c \in Metas /\ Tells(Meta(e), c)
<1>1. world[e] \in Entities
  BY DEF TypeOK, Works
<1>2. Meta(e) \in Metas
  BY <1>1 DEF Meta, Entities
<1>3. \A c \in Claims \ {NoMeta} : c \in Metas
  BY ClaimsAssumption DEF from_typed_resource_claim
<1>4. QED
  BY <1>2, <1>3 DEF ProgressConserved, Tells

Put(v, st, cs) == [v EXCEPT !.state = st, !.comps = v.comps \cup cs]

\* Giving an entity a state and markers.
LEMMA PutState ==
  ASSUME NEW w \in Seq(Entities), NEW e \in DOMAIN w,
         NEW st \in WorkStates \cup {NoState}, NEW cs \in SUBSET Components
  PROVE  /\ put_state(w, e, st, cs).ok
         /\ put_state(w, e, st, cs).world = [w EXCEPT ![e] = Put(w[e], st, cs)]
         /\ Put(w[e], st, cs) \in Entities
         /\ Put(w[e], st, cs).state = st
         /\ Put(w[e], st, cs).comps = w[e].comps \cup cs
         /\ Put(w[e], st, cs).meta = w[e].meta
<1> DEFINE v == w[e]
           v2 == [v EXCEPT !.state = st, !.comps = v.comps \cup cs]
<1>1. v \in Entities
  OBVIOUS
<1>2. v2 \in Entities /\ v2.state = st /\ v2.comps = v.comps \cup cs /\ v2.meta = v.meta
  <2> HIDE DEF v
  <2>1. QED
    BY <1>1 DEF Entities
<1>3. put_state(w, e, st, cs) = Done([w EXCEPT ![e].state = st, ![e].comps = @ \cup cs], e)
  BY DEF put_state, has_entity
<1>4. [w EXCEPT ![e].state = st, ![e].comps = @ \cup cs] = [w EXCEPT ![e] = v2]
  BY <1>1 DEF Entities
<1>5. QED
  BY <1>2, <1>3, <1>4 DEF Done, Put

\* The result r of command c on the world w.
Effect(w, c, r) ==
  r.ok /\ \E v2 : Touches(c, w[c.entity], v2) /\ r.world = [w EXCEPT ![c.entity] = v2]

\* Giving an entity a state and markers is such an effect.
LEMMA PutEffect ==
  ASSUME NEW w \in Seq(Entities), NEW c, c.entity \in DOMAIN w, c.op # "AdvanceInference",
         NEW st \in WorkStates \cup {NoState}, NEW cs \in SUBSET Components,
         c.op = "PublishResult" => st = "Completed" /\ "PublishedMarker" \in cs,
         w[c.entity].state = "Completed" => st = "Completed" \/ c.op \in Discards,
         st = "Completed" => w[c.entity].state = "Completed" \/ c.op \in {"CompleteWork", "PublishResult"},
         "AdmittedMarker" \in cs => c.op = "AdmitWork",
         \/ st = w[c.entity].state
         \/ st \in {"Leased", "Completed", "Failed", "Cancelled"}
         \/ w[c.entity].state = "Pending" /\ st = "Ready"
         \/ c.op = "ReleaseWorkLease" /\ st = "Ready",
         c.op = "RequestCancellation" => cs = {} /\ st = "Cancelled"
  PROVE  Effect(w, c, put_state(w, c.entity, st, cs))
<1> DEFINE e == c.entity
           v == w[e]
           r == put_state(w, e, st, cs)
           v2 == Put(w[e], st, cs)
<1>0. e \in DOMAIN w
  OBVIOUS
<1>1. /\ r.ok /\ r.world = [w EXCEPT ![e] = v2]
      /\ v2 \in Entities /\ v2.state = st /\ v2.comps = v.comps \cup cs /\ v2.meta = v.meta
  <2>1. r.ok /\ v2 \in Entities
    BY <1>0, PutState
  <2>2. r.world = [w EXCEPT ![e] = v2]
    <3>1. w \in Seq(Entities) /\ st \in WorkStates \cup {NoState} /\ cs \in SUBSET Components
      OBVIOUS
    <3>2. QED
      BY ONLY <1>0, <3>1, PutState
  <2>3. v2.state = st /\ v2.comps = v.comps \cup cs /\ v2.meta = v.meta
    <3>1. v \in Entities /\ v2 = Put(v, st, cs)
      BY <1>0
    <3> HIDE DEF v, v2
    <3>2. QED
      BY <3>1 DEF Put, Entities
  <2>4. QED
    BY <2>1, <2>2, <2>3
<1> HIDE DEF v2, r
<1>2. Touches(c, v, v2)
  BY <1>1 DEF Touches
<1>3. QED
  BY <1>1, <1>2 DEF Effect, r

\* So is leaving the world alone.
LEMMA DoneEffect ==
  ASSUME NEW w \in Seq(Entities), NEW c, c.entity \in DOMAIN w,
         c.op # "AdvanceInference", c.op # "PublishResult"
  PROVE  Effect(w, c, Done(w, c.entity))
<1> DEFINE v == w[c.entity]
<1>1. v \in Entities /\ w = [w EXCEPT ![c.entity] = v]
  OBVIOUS
<1>2. Touches(c, v, v)
  BY <1>1 DEF Touches
<1>3. Done(w, c.entity).ok /\ Done(w, c.entity).world = w
  BY DEF Done
<1>4. QED
  BY <1>1, <1>2, <1>3 DEF Effect

\* Every command that a stage emits is accepted, and touches its entity only.
LEMMA ExecuteEffect ==
  ASSUME TypeOK, ProgressConserved, NEW c \in Orders, c.op \notin LeaseOps, StillTrue(c)
  PROVE  Effect(world, c, Execute(world, c))
<1> DEFINE e == c.entity
           v == world[e]
           r == Execute(world, c)
<1>0. /\ world \in Seq(Entities) /\ e \in DOMAIN world /\ v \in Entities
  BY DEF TypeOK, StillTrue, Works
<1>1. v.comps \subseteq Components /\ v.state \in WorkStates \cup {NoState}
  <2> HIDE DEF v
  <2>1. QED
    BY <1>0 DEF Entities
<1>4. CASE c.op = "AdvanceInference"
  <2>1. NextProgress(v.meta, c.arg) /\ v.meta # NoMeta
    BY <1>4 DEF StillTrue, NextProgress, Meta
  <2>2. v.meta \in Metas /\ \E d \in Metas : Tells(v.meta, d)
    BY <1>0, <2>1, ProgressTells DEF Meta, Works
  <2>3. /\ v.meta.kv_epoch = c.arg.kv_epoch
        /\ c.arg.prefilled_tokens >= v.meta.prefilled_tokens
        /\ c.arg.generated_tokens >= v.meta.generated_tokens
        /\ c.arg.kv_tokens >= v.meta.kv_tokens
        /\ Advanced(v.meta, c.arg) \in Metas
    BY <2>1, <2>2, ProgressStep
  <2>4. r = execute_advance_inference(world, e, c.arg)
    BY <1>4 DEF Execute
  <2> DEFINE v2 == [v EXCEPT !.meta = Advanced(v.meta, c.arg)]
  <2>5. v2 \in Entities /\ v2.state = v.state /\ v2.comps = v.comps /\ v2.meta = Advanced(v.meta, c.arg)
    <3> HIDE DEF v
    <3>1. QED
      BY <1>0, <2>3 DEF Entities
  <2>6. r = Done([world EXCEPT ![e].meta = Advanced(@, c.arg)], e)
    BY <1>0, <2>1, <2>3, <2>4 DEF execute_advance_inference, has_entity, Advanced
  <2>7. [world EXCEPT ![e].meta = Advanced(@, c.arg)] = [world EXCEPT ![e] = v2]
    BY <1>0
  <2>8. r.ok /\ r.world = [world EXCEPT ![e] = v2]
    <3> HIDE DEF r
    <3>1. QED
      BY <2>6, <2>7 DEF Done
  <2> HIDE DEF v2, r
  <2>9. Touches(c, v, v2)
    BY <1>4, <2>5 DEF Touches
  <2>10. QED
    BY <2>8, <2>9 DEF Effect, r
<1> HIDE DEF r
<1>5. CASE c.op # "AdvanceInference"
  <2>0. c.op \in ScheduleOps
    BY <1>5 DEF Orders
  <2>1. r = execute_lifecycle(world, c)
    BY <2>0 DEF Execute, ScheduleOps, r
  <2>2. CASE c.op \in {"MarkObserved", "AdmitWork"}
    <3> DEFINE st == ReadyIfPending(world, e)
    <3>1. st = IF v.state = "Pending" THEN "Ready" ELSE v.state
      BY <1>0 DEF ReadyIfPending, has_entity
    <3>2. \/ c.op = "MarkObserved" /\ r = put_state(world, e, st, {"PlannedMarker"})
          \/ c.op = "AdmitWork" /\ r = put_state(world, e, st, {"AdmittedMarker"})
      BY <2>1, <2>2 DEF execute_lifecycle, execute_mark_observed, execute_admit_work
    <3>3. st \in WorkStates \cup {NoState}
      BY <1>1, <3>1 DEF WorkStates
    <3>4. {"PlannedMarker"} \in SUBSET Components /\ {"AdmittedMarker"} \in SUBSET Components
      BY DEF Components
    <3> HIDE DEF st
    <3>5. CASE c.op = "MarkObserved" /\ r = put_state(world, e, st, {"PlannedMarker"})
      <4>1. Effect(world, c, put_state(world, e, st, {"PlannedMarker"}))
        BY <1>0, <3>1, <3>3, <3>4, <3>5, PutEffect
      <4>2. QED
        BY <3>5, <4>1 DEF r
    <3>6. CASE c.op = "AdmitWork" /\ r = put_state(world, e, st, {"AdmittedMarker"})
      <4>1. Effect(world, c, put_state(world, e, st, {"AdmittedMarker"}))
        BY <1>0, <3>1, <3>3, <3>4, <3>6, PutEffect
      <4>2. QED
        BY <3>6, <4>1 DEF r
    <3>7. QED
      BY <3>2, <3>5, <3>6
  <2>3. CASE c.op = "RequestCancellation"
    <3>1. \/ v.state # "Completed" /\ r = put_state(world, e, "Cancelled", {})
          \/ r = Done(world, e)
      BY <2>1, <2>3 DEF execute_lifecycle, execute_request_cancellation, IsTerminal
    <3>2. CASE v.state # "Completed" /\ r = put_state(world, e, "Cancelled", {})
      BY <1>0, <1>5, <2>3, <3>2, PutEffect DEF r, WorkStates
    <3>3. CASE r = Done(world, e)
      BY <1>0, <1>5, <2>3, <3>3, DoneEffect DEF r
    <3>4. QED
      BY <3>1, <3>2, <3>3
  <2>4. CASE c.op \in {"RecordWorkPlan", "ExpireTransientState"}
    <3>1. r = Done(world, e)
      BY <2>1, <2>4 DEF execute_lifecycle, execute_record_work_plan
    <3>2. QED
      BY <1>0, <1>5, <2>4, <3>1, DoneEffect DEF r
  <2>5. CASE c.op \in {"RecordDispatchIntent", "FailWork"}
    <3>1. r = put_state(world, e, IF c.op = "FailWork" THEN "Failed" ELSE "Leased", {})
      BY <1>0, <2>1, <2>5 DEF execute_lifecycle, execute_record_dispatch_intent, execute_fail_work,
                             has_entity
    <3>2. QED
      BY <1>0, <1>5, <2>5, <3>1, PutEffect DEF r, WorkStates, Discards
  <2>6. CASE c.op = "CompleteWork"
    <3>1. r = put_state(world, e, "Completed", {"ResultPayload"})
      BY <2>1, <2>6 DEF execute_lifecycle, execute_complete_work
    <3>2. QED
      BY <1>0, <1>5, <2>6, <3>1, PutEffect DEF r, WorkStates, Components
  <2>7. CASE c.op = "PublishResult"
    <3>1. r = put_state(world, e, "Completed", {"ResultPayload", "PublishedMarker"})
      BY <2>1, <2>7 DEF execute_lifecycle, execute_publish_result_cmd
    <3>2. QED
      BY <1>0, <1>5, <2>7, <3>1, PutEffect DEF r, WorkStates, Components
  <2>8. QED
    BY <2>0, <2>2, <2>3, <2>4, <2>5, <2>6, <2>7 DEF ScheduleOps, LeaseOps
<1>6. QED
  BY <1>4, <1>5

-----------------------------------------------------------------------------
(***************************************************************************)
(* What a change of one entity leaves true.                                *)
(***************************************************************************)

Held == {"Leased", "Completed", "Failed", "Cancelled"}

\* The world after command c touched its entity.
LEMMA WorldStep ==
  ASSUME ScheduleInv, NEW c \in Orders, StillTrue(c),
         NEW v2, Touches(c, world[c.entity], v2), world' = [world EXCEPT ![c.entity] = v2]
  PROVE  /\ world' \in Seq(Entities) /\ Len(world') = Len(world) /\ Works' = Works
         /\ ProgressConserved'
         /\ \A d : StillTrue(d) /\ ~(d.op = c.op /\ d.entity = c.entity) => StillTrue(d)'
         /\ \A e \in Works : world[e].comps \subseteq world'[e].comps
         /\ \A e \in Works : InState(e, Held) /\ ~(c.op = "ReleaseWorkLease" /\ e = c.entity)
                               => InState(e, Held)'
<1> DEFINE e == c.entity
           v == world[e]
<1>0. /\ world \in Seq(Entities) /\ e \in DOMAIN world /\ v \in Entities
      /\ DOMAIN world = 1 .. Len(world) /\ Len(world) \in Nat
  BY DEF ScheduleInv, TypeOK, StillTrue, Works
<1>1. v2 \in Entities
  BY DEF Touches
<1>2. world' \in Seq(Entities) /\ Len(world') = Len(world) /\ DOMAIN world' = DOMAIN world
  BY <1>0, <1>1
<1>3. Works' = Works
  BY <1>2 DEF Works
<1>4. world'[e] = v2 /\ \A x \in DOMAIN world : x # e => world'[x] = world[x]
  BY <1>0
<1>5. \A x \in Works : world[x].comps \subseteq world'[x].comps
  BY <1>4 DEF Works, Touches
<1>6. \A x \in Works : InState(x, Held) /\ ~(c.op = "ReleaseWorkLease" /\ x = c.entity)
                               => InState(x, Held)'
  BY <1>4 DEF Works, Touches, InState, Held
<1>7. ASSUME NEW d, StillTrue(d), ~(d.op = c.op /\ d.entity = c.entity) PROVE StillTrue(d)'
  <2>1. CASE d.entity # e
    <3>1. world'[d.entity] = world[d.entity]
      BY <1>4, <1>7, <2>1 DEF StillTrue, Works
    <3>2. QED
      BY <1>3, <1>7, <3>1 DEF StillTrue, Meta, Has
  <2>2. CASE d.entity = e
    <3>1. d.op = "AdvanceInference" => v2.meta = v.meta
      BY <1>7, <2>2 DEF Touches
    <3>2. d.op = "AdvanceInference" => NextProgress(Meta(d.entity), d.arg)'
      BY <1>4, <1>7, <2>2, <3>1 DEF StillTrue, Meta, NextProgress
    <3>3. QED
      BY <1>3, <1>7, <3>2 DEF StillTrue
  <2>3. QED
    BY <2>1, <2>2
<1>8. ProgressConserved'
  <2>1. ASSUME NEW x \in Works, world'[x].meta # NoMeta
        PROVE  \E d \in Claims \ {NoMeta} : Tells(world'[x].meta, d)
    <3>1. CASE world'[x].meta = world[x].meta
      <4>1. \E d \in Claims \ {NoMeta} : Tells(world[x].meta, d)
        BY <2>1, <3>1, ProgressTells DEF Meta, ScheduleInv
      <4>2. QED
        BY <3>1, <4>1
    <3>2. CASE world'[x].meta # world[x].meta
      <4>1. x = e /\ c.op = "AdvanceInference" /\ world'[x].meta = Advanced(v.meta, c.arg)
        BY <1>4, <2>1, <3>2 DEF Works, Touches
      <4>2. NextProgress(v.meta, c.arg) /\ v.meta # NoMeta
        BY <4>1 DEF StillTrue, NextProgress, Meta
      <4>3. v.meta \in Metas /\ \E d \in Claims \ {NoMeta} : d \in Metas /\ Tells(v.meta, d)
        BY <2>1, <4>1, <4>2, ProgressTells DEF Meta, ScheduleInv
      <4>4. PICK d \in Claims \ {NoMeta} : d \in Metas /\ Tells(v.meta, d)
        BY <4>3
      <4>5. Tells(Advanced(v.meta, c.arg), d)
        BY <4>2, <4>3, <4>4, ProgressStep
      <4>6. QED
        BY <4>1, <4>5
    <3>3. QED
      BY <3>1, <3>2
  <2>2. QED
    BY <1>3, <2>1 DEF ProgressConserved, Meta, Tells
<1>9. QED
  BY <1>2, <1>3, <1>5, <1>6, <1>7, <1>8

\* What a stage emits is a well-formed command.
LEMMA OrdersAreCommands ==
  ASSUME NEW c \in Orders
  PROVE  IsCommand(c)
<1>1. CASE c \in [op : ScheduleOps, entity : Ids, arg : {Blank}]
  <2>1. /\ DOMAIN c = {"op", "entity", "arg"} /\ c.op \in ScheduleOps /\ c.entity \in Nat
    BY <1>1 DEF Ids
  <2>2. QED
    BY <2>1 DEF IsCommand, ScheduleOps, InfrastructureOps, LifecycleOps, RecordOnly, LeaseOps
<1>2. CASE c \in [op : {"AdvanceInference"}, entity : Ids, arg : Progress]
  <2>1. /\ DOMAIN c = {"op", "entity", "arg"} /\ c.op = "AdvanceInference" /\ c.entity \in Nat
        /\ c.arg \in Progress
    BY <1>2 DEF Ids
  <2>2. QED
    BY <2>1 DEF IsCommand, InfrastructureOps
<1>3. QED
  BY <1>1, <1>2 DEF Orders

\* The type invariant, but for the world's entities and the buffer.
TypesApart ==
  /\ leases \subseteq Ids
  /\ stage \in DOMAIN After
  /\ lease_step \in {"none", "granted", "released"}
  /\ late \in BOOLEAN
  /\ active \in [Ids -> Nat]
  /\ job \in [Ids -> Jobs]
  /\ stray \subseteq Ids
  /\ expired \subseteq Ids
  /\ faults \in 0 .. MaxFaults

\* Its parts make the type invariant of the next state.
LEMMA TypesTogetherNext ==
  ASSUME world' \in Seq(Entities), Len(world') <= MaxWorks, TypesApart', Buffered'
  PROVE  TypeOK'
<1>1. \A i \in DOMAIN buffer' : buffer'[i] \in Orders /\ buffer'[i].entity \in DOMAIN world'
  BY DEF Buffered, StillTrue, Works
<1>2. \A i \in DOMAIN buffer' : IsCommand(buffer'[i]) /\ buffer'[i].entity \in DOMAIN world'
  BY <1>1, OrdersAreCommands
<1>3. QED
  BY <1>2 DEF TypeOK, TypesApart

\* The stages come round.
LEMMA Stages ==
  /\ "Idle" \in DOMAIN After
  /\ \A s \in DOMAIN After : After[s] \in DOMAIN After
<1>1. DOMAIN After = {"Idle", "Observe", "Plan", "Admit", "Lease", "Dispatch",
                      "Collect", "Publish", "Cleanup"}
  BY DEF After
<1>2. ASSUME NEW s \in DOMAIN After PROVE After[s] \in DOMAIN After
  <2>1. After["Idle"] = "Observe" /\ After["Observe"] = "Plan" /\ After["Plan"] = "Admit"
    BY DEF After
  <2>2. After["Admit"] = "Lease" /\ After["Lease"] = "Dispatch" /\ After["Dispatch"] = "Collect"
    BY DEF After
  <2>3. After["Collect"] = "Publish" /\ After["Publish"] = "Cleanup" /\ After["Cleanup"] = "Idle"
    BY DEF After
  <2>4. QED
    BY <1>1, <2>1, <2>2, <2>3
<1>3. QED
  BY <1>1, <1>2

\* The end of a buffer.
LEMMA TailOf ==
  ASSUME NEW S, NEW s \in Seq(S), s # <<>>
  PROVE  /\ Head(s) = s[1] /\ 1 \in DOMAIN s /\ Head(s) \in S
         /\ Tail(s) \in Seq(S)
         /\ \A i \in DOMAIN Tail(s) : i + 1 \in DOMAIN s /\ i + 1 # 1 /\ Tail(s)[i] = s[i + 1]
         /\ \A i, j \in DOMAIN Tail(s) : i + 1 = j + 1 => i = j
<1>1. DOMAIN s = 1 .. Len(s) /\ Len(s) \in Nat /\ Len(s) # 0
  OBVIOUS
<1>2. Tail(s) \in Seq(S) /\ Len(Tail(s)) = Len(s) - 1 /\ DOMAIN Tail(s) = 1 .. (Len(s) - 1)
  BY <1>1
<1>3. \A i \in 1 .. (Len(s) - 1) : Tail(s)[i] = s[i + 1] /\ i + 1 \in 1 .. Len(s) /\ i + 1 # 1
  BY <1>1
<1>4. Head(s) = s[1] /\ 1 \in DOMAIN s /\ Head(s) \in S
  BY <1>1
<1>5. \A i, j \in 1 .. (Len(s) - 1) : i + 1 = j + 1 => i = j
  BY <1>1
<1>6. QED
  BY <1>1, <1>2, <1>3, <1>4, <1>5

\* Dropping the head keeps the rest of the buffer true, if the step keeps
\* what is true of every other command.
LEMMA PopKeeps ==
  ASSUME Buffered, buffer # <<>>, buffer' = Tail(buffer), NEW c, c = Head(buffer),
         \A d : StillTrue(d) /\ ~(d.op = c.op /\ d.entity = c.entity) => StillTrue(d)'
  PROVE  Buffered'
<1>0. buffer \in Seq(Orders) /\ Unrepeated(buffer) /\ \A i \in DOMAIN buffer : StillTrue(buffer[i])
  BY DEF Buffered
<1>1. /\ c = buffer[1] /\ 1 \in DOMAIN buffer
      /\ buffer' \in Seq(Orders)
      /\ \A i \in DOMAIN buffer' : i + 1 \in DOMAIN buffer /\ i + 1 # 1 /\ buffer'[i] = buffer[i + 1]
      /\ \A i, j \in DOMAIN buffer' : i + 1 = j + 1 => i = j
  BY <1>0, TailOf
<1>2. Unrepeated(buffer)'
  BY <1>0, <1>1 DEF Unrepeated
<1>3. \A i \in DOMAIN buffer' : StillTrue(buffer[i + 1])
  BY <1>0, <1>1
<1>4. \A i \in DOMAIN buffer' : ~(buffer[i + 1].op = c.op /\ buffer[i + 1].entity = c.entity)
  BY <1>0, <1>1 DEF Unrepeated
<1>5. ASSUME NEW i \in DOMAIN buffer' PROVE StillTrue(buffer[i])'
  <2>1. PICK d : d = buffer[i + 1]
    OBVIOUS
  <2>2. StillTrue(d) /\ ~(d.op = c.op /\ d.entity = c.entity) /\ buffer'[i] = d
    BY <1>1, <1>3, <1>4, <2>1
  <2>3. StillTrue(d)'
    BY <2>2
  <2>4. QED
    BY <2>2, <2>3 DEF StillTrue
<1>6. QED
  BY <1>1, <1>2, <1>5 DEF Buffered

\* An empty buffer is fine.
LEMMA EmptyBuffered ==
  ASSUME buffer' = <<>>
  PROVE  Buffered'
<1>1. buffer' \in Seq(Orders) /\ DOMAIN buffer' = {}
  OBVIOUS
<1>2. QED
  BY <1>1 DEF Buffered, Unrepeated

-----------------------------------------------------------------------------
(***************************************************************************)
(* Submitting, the clients and the environment.                            *)
(***************************************************************************)

\* The handles are good as long as the markers stay.
LEMMA HandlesKept ==
  ASSUME HandlesLive, UNCHANGED <<active, job>>, Works \subseteq Works',
         \A e \in Works : world[e].comps \subseteq world'[e].comps
  PROVE  HandlesLive'
BY DEF HandlesLive, Has

\* What Pop leaves of the tick's state.
LEMMA PopTypes ==
  ASSUME TypesApart, Pop
  PROVE  /\ stage' \in DOMAIN After /\ late' \in BOOLEAN /\ faults' \in 0 .. MaxFaults
         /\ buffer' = Tail(buffer)
BY Stages DEF TypesApart, Pop

\* What Abort leaves of it.
LEMMA AbortTypes ==
  ASSUME Abort
  PROVE  stage' \in DOMAIN After /\ late' \in BOOLEAN /\ buffer' = <<>>
BY Stages DEF Abort

\* A spent fault is within the bound.
LEMMA FaultTypes ==
  ASSUME TypesApart, FaultBudget
  PROVE  faults' \in 0 .. MaxFaults
BY LimitsAssumption DEF TypesApart, FaultBudget

\* The type invariant has these parts.
LEMMA TypesOf ==
  ASSUME TypeOK
  PROVE  world \in Seq(Entities) /\ Len(world) <= MaxWorks /\ TypesApart
BY DEF TypeOK, TypesApart

\* The command c touched its entity, and nothing else of the world changed.
Touched(c) == \E v2 : /\ Touches(c, world[c.entity], v2)
                     /\ world' = [world EXCEPT ![c.entity] = v2]

\* SubmitCommand runs the head of the buffer.
LEMMA SubmitTouches ==
  ASSUME ScheduleInv, SubmitCommand
  PROVE  \E c \in Orders : /\ buffer # <<>> /\ c = Head(buffer) /\ c.op \notin LeaseOps
                           /\ StillTrue(c) /\ Touched(c)
<1>1. PICK c : c = Head(buffer)
  OBVIOUS
<1>2. /\ buffer # <<>> /\ c.op \in InfrastructureOps \cup LifecycleOps
      /\ world' = Execute(world, c).world
  BY <1>1 DEF SubmitCommand, Submits
<1>3. c \in Orders /\ StillTrue(c)
  BY <1>1, <1>2, TailOf DEF ScheduleInv, Buffered
<1>4. c.op \notin LeaseOps
  BY <1>2 DEF LeaseOps, InfrastructureOps, LifecycleOps, RecordOnly
<1>5. Touched(c)
  BY <1>2, <1>3, <1>4, ExecuteEffect DEF Effect, ScheduleInv, Touched
<1>6. QED
  BY <1>1, <1>2, <1>3, <1>4, <1>5

\* SubmitCommand.
LEMMA SubmitCommandKeeps ==
  ASSUME ScheduleInv, SubmitCommand
  PROVE  ScheduleInv'
<1>0. /\ world \in Seq(Entities) /\ Len(world) <= MaxWorks /\ TypesApart
  BY TypesOf DEF ScheduleInv
<1>1. PICK c \in Orders : /\ buffer # <<>> /\ c = Head(buffer) /\ c.op \notin LeaseOps
                         /\ StillTrue(c) /\ Touched(c)
  BY SubmitTouches
<1>2. /\ buffer # <<>> /\ lease_step = "none" /\ Pop
      /\ UNCHANGED <<leases, lease_step, active, job, stray, expired>>
  BY DEF SubmitCommand, Submits, dispatchVars
<1>3. StillTrue(c)
  BY <1>1
<1>4. c.op \notin LeaseOps
  BY <1>1
<1>5. PICK v2 : Touches(c, world[c.entity], v2) /\ world' = [world EXCEPT ![c.entity] = v2]
  BY <1>1 DEF Touched
<1>6. /\ world' \in Seq(Entities) /\ Len(world') = Len(world) /\ Works' = Works
      /\ ProgressConserved'
      /\ \A d : StillTrue(d) /\ ~(d.op = c.op /\ d.entity = c.entity) => StillTrue(d)'
      /\ \A e \in Works : world[e].comps \subseteq world'[e].comps
      /\ \A e \in Works : InState(e, Held) /\ ~(c.op = "ReleaseWorkLease" /\ e = c.entity)
                            => InState(e, Held)'
  BY <1>3, <1>5, WorldStep
<1>7. stage' \in DOMAIN After /\ late' \in BOOLEAN /\ faults' \in 0 .. MaxFaults /\ buffer' = Tail(buffer)
  BY <1>0, <1>2, PopTypes
<1>8. Buffered'
  BY <1>1, <1>2, <1>6, <1>7, PopKeeps DEF ScheduleInv
<1>9. TypeOK'
  <2>1. TypesApart'
    BY <1>0, <1>2, <1>7 DEF TypesApart
  <2>2. QED
    BY <1>0, <1>6, <1>8, <2>1, TypesTogetherNext
<1>10. HalfDone'
  BY <1>2 DEF HalfDone
<1>11. LeasesHeld'
  <2>1. \A e \in leases : e \in Works /\ InState(e, Held)
    BY <1>2 DEF ScheduleInv, LeasesHeld, Held
  <2>2. \A e \in leases' : e \in Works' /\ InState(e, Held)'
    BY <1>2, <1>4, <1>6, <2>1 DEF LeaseOps
  <2>3. ASSUME NEW i \in DOMAIN buffer', buffer'[i].op = "AcquireWorkLease"
        PROVE  buffer'[i].entity \notin leases'
    <3>1. i + 1 \in DOMAIN buffer /\ buffer'[i] = buffer[i + 1]
      BY <1>2, <1>7, TailOf DEF ScheduleInv, Buffered
    <3>2. QED
      BY <1>2, <2>3, <3>1 DEF ScheduleInv, LeasesHeld
  <2>4. QED
    BY <2>2, <2>3 DEF LeasesHeld, Held
<1>12. HandlesLive'
  BY <1>2, <1>6, HandlesKept DEF ScheduleInv
<1>13. QED
  BY <1>6, <1>8, <1>9, <1>10, <1>11, <1>12 DEF ScheduleInv

\* The second half of a lease command runs it.
LEMMA LeaseTouches ==
  ASSUME ScheduleInv, SetLeaseState
  PROVE  \E c \in Orders :
           /\ buffer # <<>> /\ c = Head(buffer) /\ StillTrue(c) /\ Touched(c)
           /\ \/ /\ lease_step = "granted" /\ c.op = "AcquireWorkLease"
                 /\ world'[c.entity].state = "Leased"
              \/ /\ lease_step = "released" /\ c.op = "ReleaseWorkLease"
                 /\ c.entity \notin leases
<1>0. world \in Seq(Entities) /\ TypesApart
  BY TypesOf DEF ScheduleInv
<1>1. PICK c : c = Head(buffer)
  OBVIOUS
<1>2. PICK g : g = IF lease_step = "granted" THEN "Leased" ELSE "Ready"
  OBVIOUS
<1>3. /\ buffer # <<>>
      /\ \/ lease_step = "granted" /\ c.op = "AcquireWorkLease" /\ g = "Leased"
         \/ /\ lease_step = "released" /\ c.op = "ReleaseWorkLease" /\ g = "Ready"
            /\ c.entity \notin leases
      /\ world' = put_state(world, c.entity, g, {}).world
  BY <1>0, <1>1, <1>2 DEF SetLeaseState, ScheduleInv, HalfDone, TypesApart, Target
<1>4. c \in Orders /\ StillTrue(c) /\ c.entity \in DOMAIN world
  BY <1>1, <1>3, TailOf DEF ScheduleInv, Buffered, StillTrue, Works
<1>5. PICK cs : cs = {}
  OBVIOUS
<1>6. g \in WorkStates \cup {NoState} /\ cs \in SUBSET Components
  BY <1>3, <1>5 DEF WorkStates
<1>7. Touched(c)
  <2>1. /\ \/ g \in {"Leased", "Completed", "Failed", "Cancelled"}
           \/ c.op = "ReleaseWorkLease" /\ g = "Ready"
        /\ c.op # "AdvanceInference" /\ c.op # "RequestCancellation" /\ c.op # "PublishResult"
        /\ c.op \in Discards /\ g # "Completed"
    BY <1>3 DEF Discards
  <2>2. Effect(world, c, put_state(world, c.entity, g, cs))
    BY <1>0, <1>4, <1>5, <1>6, <2>1, PutEffect
  <2>3. QED
    BY <1>3, <1>5, <2>2 DEF Effect, Touched
<1>8. world'[c.entity].state = g
  <2>1. PICK e, v : e = c.entity /\ v = world[e]
    OBVIOUS
  <2>2. e \in DOMAIN world /\ v \in Entities
    BY <1>0, <1>4, <2>1
  <2>3. put_state(world, e, g, cs).world = [world EXCEPT ![e] = Put(world[e], g, cs)]
    BY <1>0, <1>6, <2>2, PutState
  <2>4. world'[e] = Put(v, g, cs)
    BY <1>0, <1>3, <1>5, <2>1, <2>2, <2>3
  <2>5. Put(v, g, cs).state = g
    BY <2>2 DEF Put, Entities
  <2>6. QED
    BY <2>1, <2>4, <2>5
<1>9. QED
  BY <1>1, <1>3, <1>4, <1>7, <1>8

\* The second half of a lease command, whether or not it is answered Ok.
LEMMA FinishLeaseKeeps ==
  ASSUME ScheduleInv, SetLeaseState, Pop \/ (FaultBudget /\ Abort)
  PROVE  ScheduleInv'
<1>0. /\ world \in Seq(Entities) /\ Len(world) <= MaxWorks /\ TypesApart
  BY TypesOf DEF ScheduleInv
<1>1. PICK c \in Orders :
        /\ buffer # <<>> /\ c = Head(buffer) /\ StillTrue(c) /\ Touched(c)
        /\ \/ /\ lease_step = "granted" /\ c.op = "AcquireWorkLease"
              /\ world'[c.entity].state = "Leased"
           \/ /\ lease_step = "released" /\ c.op = "ReleaseWorkLease"
              /\ c.entity \notin leases
  BY LeaseTouches
<1>3. lease_step' = "none" /\ UNCHANGED <<leases, active, job, stray, expired>>
  BY DEF SetLeaseState, dispatchVars
<1>5. PICK v2 : Touches(c, world[c.entity], v2) /\ world' = [world EXCEPT ![c.entity] = v2]
  BY <1>1 DEF Touched
<1>6. /\ world' \in Seq(Entities) /\ Len(world') = Len(world) /\ Works' = Works
      /\ ProgressConserved'
      /\ \A d : StillTrue(d) /\ ~(d.op = c.op /\ d.entity = c.entity) => StillTrue(d)'
      /\ \A e \in Works : world[e].comps \subseteq world'[e].comps
      /\ \A e \in Works : InState(e, Held) /\ ~(c.op = "ReleaseWorkLease" /\ e = c.entity)
                            => InState(e, Held)'
  BY <1>1, <1>5, WorldStep
<1>7. /\ stage' \in DOMAIN After /\ late' \in BOOLEAN /\ faults' \in 0 .. MaxFaults
      /\ buffer' = Tail(buffer) \/ buffer' = <<>>
  BY <1>0, PopTypes, AbortTypes, FaultTypes
<1>8. Buffered'
  BY <1>1, <1>6, <1>7, PopKeeps, EmptyBuffered DEF ScheduleInv
<1>9. TypeOK'
  <2>1. TypesApart'
    BY <1>0, <1>3, <1>7 DEF TypesApart
  <2>2. QED
    BY <1>0, <1>6, <1>8, <2>1, TypesTogetherNext
<1>10. HalfDone'
  BY <1>3 DEF HalfDone
<1>11. LeasesHeld'
  <2>1. ASSUME NEW e \in leases PROVE e \in Works /\ InState(e, Held)'
    <3>1. e \in Works /\ (InState(e, Held) \/ (lease_step = "granted" /\ c.entity = e))
      BY <1>1 DEF ScheduleInv, LeasesHeld, Held, Target
    <3>2. CASE InState(e, Held)
      <4>1. ~(c.op = "ReleaseWorkLease" /\ e = c.entity)
        BY <1>1, <2>1
      <4>2. QED
        BY <1>6, <3>1, <3>2, <4>1
    <3>3. CASE lease_step = "granted" /\ c.entity = e
      <4>1. QED
        BY <1>1, <3>1, <3>3 DEF InState, Held
    <3>4. QED
      BY <3>1, <3>2, <3>3
  <2>2. \A e \in leases' : e \in Works' /\ InState(e, Held)'
    BY <1>3, <1>6, <2>1
  <2>3. ASSUME NEW i \in DOMAIN buffer', buffer'[i].op = "AcquireWorkLease"
        PROVE  buffer'[i].entity \notin leases'
    <3>1. i + 1 \in DOMAIN buffer /\ buffer'[i] = buffer[i + 1] /\ i + 1 # 1
      <4>1. buffer' = Tail(buffer)
        BY <1>7, <2>3
      <4>2. buffer \in Seq(Orders) /\ buffer # <<>>
        BY <1>1 DEF ScheduleInv, Buffered
      <4>3. QED
        BY <4>1, <4>2, TailOf
    <3>2. QED
      BY <1>1, <1>3, <2>3, <3>1 DEF ScheduleInv, LeasesHeld
  <2>4. QED
    BY <2>2, <2>3 DEF LeasesHeld, Held
<1>12. HandlesLive'
  BY <1>3, <1>6, HandlesKept DEF ScheduleInv
<1>13. QED
  BY <1>6, <1>8, <1>9, <1>10, <1>11, <1>12 DEF ScheduleInv

\* A client's RequestCancellation runs the same command.
LEMMA CancellationTouches ==
  ASSUME ScheduleInv, NEW x \in Works, RequestCancellation(x)
  PROVE  \E c \in Orders : c.op = "RequestCancellation" /\ c.entity = x /\ StillTrue(c) /\ Touched(c)
<1>1. PICK c : c = Order("RequestCancellation", x)
  OBVIOUS
<1>2. world' = Execute(world, c).world
  BY <1>1 DEF RequestCancellation, ClientSubmits
<1>3. c \in Orders /\ c.op = "RequestCancellation" /\ c.entity = x /\ c.op \notin LeaseOps /\ StillTrue(c)
  <2>1. x \in Ids
    BY TypesOf, LimitsAssumption DEF ScheduleInv, Works, Ids
  <2>2. QED
    BY <1>1, <2>1 DEF Order, Command, Orders, ScheduleOps, LeaseOps, StillTrue
<1>4. Touched(c)
  BY <1>2, <1>3, ExecuteEffect DEF Effect, ScheduleInv, Touched
<1>5. QED
  BY <1>3, <1>4

\* A client's RequestCancellation.
LEMMA CancellationKeeps ==
  ASSUME ScheduleInv, NEW x \in Works, RequestCancellation(x)
  PROVE  ScheduleInv'
<1>0. /\ world \in Seq(Entities) /\ Len(world) <= MaxWorks /\ TypesApart
  BY TypesOf DEF ScheduleInv
<1>1. PICK c \in Orders : c.op = "RequestCancellation" /\ c.entity = x /\ StillTrue(c) /\ Touched(c)
  BY CancellationTouches
<1>2. UNCHANGED <<leases, stage, buffer, late, faults, lease_step, active, job, stray, expired>>
  BY DEF RequestCancellation, ClientSubmits, tickVars, dispatchVars
<1>3. c.op = "RequestCancellation" /\ StillTrue(c)
  BY <1>1
<1>5. PICK v2 : Touches(c, world[c.entity], v2) /\ world' = [world EXCEPT ![c.entity] = v2]
  BY <1>1 DEF Touched
<1>6. /\ world' \in Seq(Entities) /\ Len(world') = Len(world) /\ Works' = Works
      /\ ProgressConserved'
      /\ \A d : StillTrue(d) /\ ~(d.op = c.op /\ d.entity = c.entity) => StillTrue(d)'
      /\ \A e \in Works : world[e].comps \subseteq world'[e].comps
      /\ \A e \in Works : InState(e, Held) /\ ~(c.op = "ReleaseWorkLease" /\ e = c.entity)
                            => InState(e, Held)'
  BY <1>3, <1>5, WorldStep
<1>7. \A d : StillTrue(d) => StillTrue(d)'
  <2>1. ASSUME NEW d, StillTrue(d), d.op = "RequestCancellation" PROVE StillTrue(d)'
    BY <1>6, <2>1 DEF StillTrue
  <2>2. QED
    BY <1>3, <1>6, <2>1
<1>8. Buffered'
  <2>1. ASSUME NEW i \in DOMAIN buffer PROVE StillTrue(buffer[i])'
    <3>1. PICK d : d = buffer[i]
      OBVIOUS
    <3>2. StillTrue(d)' /\ buffer'[i] = d
      BY <1>2, <1>7, <3>1 DEF ScheduleInv, Buffered
    <3>3. QED
      BY <3>2 DEF StillTrue
  <2>2. QED
    BY <1>2, <2>1 DEF ScheduleInv, Buffered, Unrepeated
<1>9. TypeOK'
  <2>1. TypesApart'
    BY <1>0, <1>2 DEF TypesApart
  <2>2. QED
    BY <1>0, <1>6, <1>8, <2>1, TypesTogetherNext
<1>10. HalfDone'
  BY <1>2 DEF ScheduleInv, HalfDone, Target
<1>11. LeasesHeld'
  <2>1. \A e \in Works : InState(e, Held) => InState(e, Held)'
    BY <1>3, <1>6
  <2>2. QED
    BY <1>2, <1>6, <2>1 DEF ScheduleInv, LeasesHeld, Held, Target
<1>12. HandlesLive'
  BY <1>2, <1>6, HandlesKept DEF ScheduleInv
<1>13. QED
  BY <1>6, <1>8, <1>9, <1>10, <1>11, <1>12 DEF ScheduleInv

\* CreateWork appends one entity.
LEMMA CreateAppends ==
  ASSUME NEW claim \in Claims, CreateWork(claim)
  PROVE  \E v : /\ v = [state |-> "Pending", comps |-> {"WorkItem"}, meta |-> claim]
               /\ v.state = "Pending" /\ world' = Append(world, v) /\ buffer' = buffer
<1>1. PICK c : c = Command("CreateWork", 0, claim)
  OBVIOUS
<1>2. world' = Execute(world, c).world /\ buffer' = buffer
  BY <1>1 DEF CreateWork, ClientSubmits, tickVars
<1>3. c.op = "CreateWork" /\ c.arg = claim
  BY <1>1 DEF Command
<1>4. Execute(world, c) = execute_create_work(world, claim)
  BY <1>3 DEF Execute, execute_lifecycle
<1>5. QED
  BY <1>2, <1>4 DEF execute_create_work, Done, spawn

\* CreateWork.
LEMMA CreateWorkKeeps ==
  ASSUME ScheduleInv, NEW claim \in Claims, CreateWork(claim)
  PROVE  ScheduleInv'
<1>0. /\ world \in Seq(Entities) /\ Len(world) <= MaxWorks /\ TypesApart
  BY TypesOf DEF ScheduleInv
<1> DEFINE v == [state |-> "Pending", comps |-> {"WorkItem"}, meta |-> claim]
<1>1. world' = Append(world, v)
  BY CreateAppends
<1>2. /\ Len(world) < MaxWorks
      /\ UNCHANGED <<leases, stage, buffer, late, faults, lease_step, active, job, stray, expired>>
  BY DEF CreateWork, ClientSubmits, tickVars, dispatchVars
<1>3. claim = NoMeta \/ (claim \in Claims \ {NoMeta} /\ claim \in from_typed_resource_claim)
  BY ClaimsAssumption
<1>4. v \in Entities
  BY <1>3 DEF Entities, WorkStates, Components, from_typed_resource_claim
<1>5. /\ world' \in Seq(Entities) /\ Len(world') = Len(world) + 1 /\ Len(world') <= MaxWorks
      /\ DOMAIN world' = DOMAIN world \cup {Len(world) + 1}
      /\ \A e \in DOMAIN world : world'[e] = world[e] /\ e # Len(world) + 1
      /\ world'[Len(world) + 1] = v
  <2> HIDE DEF v
  <2>1. QED
    BY <1>0, <1>1, <1>2, <1>4, LimitsAssumption
<1>6. /\ Works \subseteq Works' /\ \A e \in Works : world'[e] = world[e]
      /\ \A e \in Works' : e \in Works \/ world'[e] = v
  BY <1>5 DEF Works
<1>7. Buffered'
  BY <1>2, <1>6 DEF ScheduleInv, Buffered, Unrepeated, StillTrue, Meta, Has
<1>8. TypeOK'
  <2>1. TypesApart'
    BY <1>0, <1>2 DEF TypesApart
  <2>2. QED
    BY <1>5, <1>7, <2>1, TypesTogetherNext
<1>9. ProgressConserved'
  <2>1. ASSUME NEW x \in Works', world'[x].meta # NoMeta
        PROVE  \E d \in Claims \ {NoMeta} : Tells(world'[x].meta, d)
    <3>1. CASE x \in Works
      <4>1. \E d \in Claims \ {NoMeta} : Tells(world[x].meta, d)
        BY <1>6, <2>1, <3>1, ProgressTells DEF Meta, ScheduleInv
      <4>2. QED
        BY <1>6, <3>1, <4>1
    <3>2. CASE world'[x] = v
      <4>1. world'[x].meta = claim
        BY <3>2
      <4>2. claim \in Claims \ {NoMeta} /\ claim \in from_typed_resource_claim
        BY <1>3, <2>1, <4>1
      <4>3. Tells(claim, claim)
        <5>1. claim \in Metas /\ claim.phase = "Prefill" /\ claim.prefilled_tokens = 0
              /\ claim.generated_tokens = 0 /\ claim.max_new_tokens > 0
          BY <4>2 DEF from_typed_resource_claim
        <5>2. [claim EXCEPT !.phase = claim.phase, !.prefilled_tokens = 0,
                            !.generated_tokens = 0, !.kv_tokens = claim.kv_tokens] = claim
          BY <5>1 DEF Metas
        <5>3. claim.kv_tokens \in Nat /\ claim.prompt_tokens \in Nat
          BY <5>1 DEF Metas
        <5>4. QED
          BY <5>1, <5>2, <5>3 DEF Tells
      <4>4. QED
        BY <4>1, <4>2, <4>3
    <3>3. QED
      BY <1>6, <3>1, <3>2
  <2>2. QED
    BY <2>1 DEF ProgressConserved, Meta, Tells
<1>10. HalfDone'
  BY <1>2 DEF ScheduleInv, HalfDone, Target
<1>11. LeasesHeld'
  BY <1>2, <1>6 DEF ScheduleInv, LeasesHeld, Target, InState
<1>12. HandlesLive'
  BY <1>2, <1>6, HandlesKept DEF ScheduleInv
<1>13. QED
  BY <1>7, <1>8, <1>9, <1>10, <1>11, <1>12 DEF ScheduleInv

\* The steps that leave the world and the dispatches alone.
LEMMA QuietKeeps ==
  ASSUME ScheduleInv, UNCHANGED <<world, active, job>>, TypesApart', Buffered', HalfDone', LeasesHeld'
  PROVE  ScheduleInv'
<1>1. world \in Seq(Entities) /\ Len(world) <= MaxWorks
  BY TypesOf DEF ScheduleInv
<1>2. TypeOK'
  BY <1>1, TypesTogetherNext
<1>3. ProgressConserved'
  BY DEF ScheduleInv, ProgressConserved, Works, Meta
<1>4. HandlesLive'
  BY DEF ScheduleInv, HandlesLive, Works, Has
<1>5. QED
  BY <1>2, <1>3, <1>4 DEF ScheduleInv

\* A buffer that does not change stays true of a world that does not.
LEMMA BufferedKept ==
  ASSUME Buffered, UNCHANGED <<world, buffer>>
  PROVE  Buffered'
BY DEF Buffered, Unrepeated, StillTrue, Works, Meta, Has

\* The lease coordinator's half of a lease command.
LEMMA CoordinatorKeeps ==
  ASSUME ScheduleInv, AcquireLease \/ ReleaseLease
  PROVE  ScheduleInv'
<1>0. /\ world \in Seq(Entities) /\ Len(world) <= MaxWorks /\ TypesApart
  BY TypesOf DEF ScheduleInv
<1>1. PICK c : c = Head(buffer)
  OBVIOUS
<1>2. /\ buffer # <<>> /\ lease_step = "none"
      /\ UNCHANGED <<world, stage, buffer, late, faults, active, job, stray, expired>>
      /\ \/ /\ c.op = "AcquireWorkLease" /\ c.entity \notin leases
            /\ leases' = leases \cup {c.entity} /\ lease_step' = "granted"
         \/ /\ c.op = "ReleaseWorkLease"
            /\ leases' = leases \ {c.entity} /\ lease_step' = "released"
  BY <1>1 DEF AcquireLease, ReleaseLease, Submits, Target, tickVars, dispatchVars
<1>3. /\ c \in Orders /\ StillTrue(c) /\ c = buffer[1] /\ 1 \in DOMAIN buffer
  BY <1>1, <1>2, TailOf DEF ScheduleInv, Buffered
<1>4. c.entity \in Ids /\ c.entity \in Works
  BY <1>0, <1>3, LimitsAssumption DEF StillTrue, Works, Ids
<1>5. TypesApart'
  BY <1>0, <1>2, <1>4 DEF TypesApart
<1>6. Buffered'
  BY <1>2, BufferedKept DEF ScheduleInv
<1>7. HalfDone'
  BY <1>1, <1>2 DEF HalfDone, Target
<1>8. LeasesHeld'
  <2>1. \A e \in leases : e \in Works /\ InState(e, Held)
    BY <1>2 DEF ScheduleInv, LeasesHeld, Held
  <2>2. \A e \in leases' : /\ e \in Works'
                           /\ InState(e, Held)' \/ (lease_step' = "granted" /\ Target' = e)
    BY <1>1, <1>2, <1>4, <2>1 DEF Works, InState, Target
  <2>3. ASSUME NEW i \in DOMAIN buffer, buffer[i].op = "AcquireWorkLease",
               ~(i = 1 /\ lease_step' = "granted")
        PROVE  buffer[i].entity \notin leases'
    <3>1. buffer[i].entity \notin leases
      BY <1>2, <2>3 DEF ScheduleInv, LeasesHeld
    <3>2. lease_step' = "granted" => buffer[i].entity # c.entity
      BY <1>2, <1>3, <2>3 DEF ScheduleInv, Buffered, Unrepeated
    <3>3. QED
      BY <1>2, <3>1, <3>2
  <2>4. QED
    BY <1>2, <2>2, <2>3 DEF LeasesHeld, Held
<1>9. QED
  BY <1>2, <1>5, <1>6, <1>7, <1>8, QuietKeeps

\* A tick that ends early.
LEMMA EndedTickKeeps ==
  ASSUME ScheduleInv, SubmitFails \/ TickDeadline
  PROVE  ScheduleInv'
<1>0. /\ world \in Seq(Entities) /\ Len(world) <= MaxWorks /\ TypesApart
  BY TypesOf DEF ScheduleInv
<1>1. /\ Abort /\ UNCHANGED <<world, leases, lease_step, active, job, stray, expired>>
      /\ faults' = faults \/ FaultBudget
  BY DEF SubmitFails, TickDeadline, dispatchVars
<1>2. lease_step = "none"
  BY DEF SubmitFails, TickDeadline, ScheduleInv, HalfDone
<1>3. TypesApart' /\ buffer' = <<>>
  BY <1>0, <1>1, AbortTypes, FaultTypes DEF TypesApart
<1>4. Buffered'
  BY <1>3, EmptyBuffered
<1>5. HalfDone'
  BY <1>1, <1>2 DEF HalfDone
<1>6. LeasesHeld'
  <2>1. \A e \in leases : e \in Works /\ InState(e, Held)
    BY <1>2 DEF ScheduleInv, LeasesHeld, Held
  <2>2. DOMAIN buffer' = {}
    BY <1>3
  <2>3. QED
    BY <1>1, <2>1, <2>2 DEF LeasesHeld, Held, Works, InState
<1>7. QED
  BY <1>1, <1>3, <1>4, <1>5, <1>6, QuietKeeps

\* The start of a tick and what the environment does to the clock, the leases
\* and the executions that nobody holds a handle of.
LEMMA OutsideKeeps ==
  ASSUME ScheduleInv,
         \/ BeginTick
         \/ \E e \in stray : StrayEnds(e)
         \/ \E e \in Works : DeadlinePasses(e)
         \/ \E e \in leases : LeaseExpires(e)
  PROVE  ScheduleInv'
<1>0. /\ world \in Seq(Entities) /\ Len(world) <= MaxWorks /\ TypesApart
  BY TypesOf DEF ScheduleInv
<1>1. /\ UNCHANGED <<world, buffer, lease_step, late, faults, active, job>> /\ stray' \subseteq stray
      /\ leases' \subseteq leases
      /\ stage' \in DOMAIN After
      /\ expired' \subseteq Ids
  <2>1. CASE BeginTick
    BY <1>0, <2>1, Stages DEF BeginTick, dispatchVars, TypesApart
  <2>2. CASE \E e \in Works : DeadlinePasses(e)
    <3>1. Works \subseteq Ids
      BY <1>0, LimitsAssumption DEF Works, Ids
    <3>2. QED
      BY <1>0, <2>2, <3>1 DEF DeadlinePasses, tickVars, dispatchVars, TypesApart
  <2>3. CASE \E e \in leases : LeaseExpires(e)
    BY <1>0, <2>3 DEF LeaseExpires, tickVars, dispatchVars, TypesApart
  <2>4. CASE \E e \in stray : StrayEnds(e)
    BY <1>0, <2>4 DEF StrayEnds, tickVars, TypesApart
  <2>5. QED
    BY <2>1, <2>2, <2>3, <2>4
<1>2. TypesApart'
  BY <1>0, <1>1 DEF TypesApart
<1>3. Buffered'
  BY <1>1, BufferedKept DEF ScheduleInv
<1>4. HalfDone'
  BY <1>1 DEF ScheduleInv, HalfDone, Target
<1>5. LeasesHeld'
  BY <1>1 DEF ScheduleInv, LeasesHeld, Works, InState, Target
<1>6. QED
  BY <1>1, <1>2, <1>3, <1>4, <1>5, QuietKeeps

\* The end of a dispatch.
LEMMA DispatchEndsKeeps ==
  ASSUME ScheduleInv, NEW e \in Ids, NEW outcome \in {"completed", "failed"}, DispatchEnds(e, outcome)
  PROVE  ScheduleInv'
<1>0. /\ world \in Seq(Entities) /\ Len(world) <= MaxWorks /\ TypesApart
  BY TypesOf DEF ScheduleInv
<1>1. /\ UNCHANGED <<world, leases, stage, buffer, late, faults, lease_step, active, stray, expired>>
      /\ job' = [job EXCEPT ![e] = outcome]
  BY DEF DispatchEnds, tickVars
<1>2. TypesApart'
  BY <1>0, <1>1 DEF TypesApart, Jobs
<1>3. Buffered'
  BY <1>1, BufferedKept DEF ScheduleInv
<1>4. HalfDone' /\ LeasesHeld'
  BY <1>1 DEF ScheduleInv, HalfDone, Target, LeasesHeld, Works, InState
<1>5. HandlesLive'
  BY <1>0, <1>1 DEF ScheduleInv, HandlesLive, Works, Has, TypesApart
<1>6. ProgressConserved'
  BY <1>1 DEF ScheduleInv, ProgressConserved, Works, Meta
<1>7. TypeOK'
  BY <1>0, <1>1, <1>2, <1>3, TypesTogetherNext
<1>8. QED
  BY <1>3, <1>4, <1>5, <1>6, <1>7 DEF ScheduleInv

-----------------------------------------------------------------------------
(***************************************************************************)
(* What a stage goes through and what it emits.                            *)
(***************************************************************************)

\* The sequence lists members of S, none of them twice.
Lists(s, S) == s \in Seq(S) /\ \A i, j \in DOMAIN s : s[i] = s[j] => i = j

\* What SetToSeqs gives lists the set.
LEMMA SeqsList ==
  ASSUME NEW S, IsFiniteSet(S), NEW s \in SetToSeqs(S)
  PROVE  Lists(s, S)
<1>1. Cardinality(S) \in Nat
  BY FS_CardinalityType
<1>2. s \in [1 .. Cardinality(S) -> S] /\ \A i, j \in 1 .. Cardinality(S) : i # j => s[i] # s[j]
  BY DEF SetToSeqs
<1>3. s \in Seq(S) /\ DOMAIN s = 1 .. Cardinality(S)
  BY <1>1, <1>2
<1>4. QED
  BY <1>2, <1>3 DEF Lists

\* Work items are finitely many.
LEMMA WorksFinite ==
  ASSUME TypeOK, NEW S \in SUBSET Works
  PROVE  IsFiniteSet(S) /\ Works \subseteq Ids /\ S \in SUBSET Nat
<1>1. Len(world) \in Nat /\ DOMAIN world = 1 .. Len(world) /\ Len(world) <= MaxWorks
  BY DEF TypeOK
<1>2. Works \subseteq Ids /\ S \in SUBSET Nat
  BY <1>1, LimitsAssumption DEF Works, Ids
<1>3. IsFiniteSet(Works)
  BY <1>1, FS_Interval DEF Works
<1>4. QED
  BY <1>2, <1>3, FS_Subset

\* A stage's list in the order of the ids: the members that fewer than limit
\* others come before.
LEMMA InIdOrderLists ==
  ASSUME TypeOK, NEW S \in SUBSET Works, NEW limit \in Nat
  PROVE  /\ Lists(InIdOrder(S, limit), S)
         /\ \A e \in S : e \in Range(InIdOrder(S, limit)) <=> Cardinality({d \in S : d < e}) < limit
<1>0. IsFiniteSet(S) /\ S \in SUBSET Nat
  BY WorksFinite
<1> DEFINE R == {p \in S \X S : p[1] < p[2]}
           Goes(s) == \A i, j \in DOMAIN s : i < j => s[i] < s[j]
<1>1. StrictOrder(R, S)
  <2>1. \A x, y \in S : <<x, y>> \in R <=> x < y
    OBVIOUS
  <2> HIDE DEF R
  <2>2. QED
    BY <1>0, <2>1 DEF StrictOrder
<1>2. PICK t \in SetToSeqs(S) : \A i, j \in DOMAIN t : i < j => <<t[i], t[j]>> \in R
  <2> HIDE DEF R
  <2>1. QED
    BY <1>0, <1>1, SortExists
<1>3. Goes(t)
  BY <1>2
<1> DEFINE all == CHOOSE s \in SetToSeqs(S) : Goes(s)
<1>4. all \in SetToSeqs(S) /\ Goes(all)
  <2> HIDE DEF Goes
  <2>1. QED
    BY <1>2, <1>3
<1>5. Lists(all, S)
  <2> HIDE DEF all
  <2>1. QED
    BY <1>0, <1>4, SeqsList
<1>6. InIdOrder(S, limit) = SubSeq(all, 1, Min({limit, Len(all)}))
  BY DEF InIdOrder, Sorted
<1> HIDE DEF all
<1>7. Len(all) \in Nat /\ all \in Seq(S) /\ DOMAIN all = 1 .. Len(all)
  BY <1>5 DEF Lists
<1>8. Min({limit, Len(all)}) \in 0 .. Len(all)
  BY <1>7, MinOfTwo
<1>9. ASSUME NEW m \in 0 .. Len(all)
      PROVE  /\ Lists(SubSeq(all, 1, m), S) /\ DOMAIN SubSeq(all, 1, m) = 1 .. m
             /\ \A i \in 1 .. m : SubSeq(all, 1, m)[i] = all[i] /\ i \in DOMAIN all
  <2>1. SubSeq(all, 1, m) \in Seq(S) /\ Len(SubSeq(all, 1, m)) = m
    BY <1>7
  <2>2. DOMAIN SubSeq(all, 1, m) = 1 .. m /\ \A i \in 1 .. m : SubSeq(all, 1, m)[i] = all[i] /\ i \in DOMAIN all
    BY <1>7, <2>1
  <2>3. QED
    BY <1>5, <2>1, <2>2 DEF Lists
<1>10. PICK m : m = Min({limit, Len(all)})
  OBVIOUS
<1>11. m \in 0 .. Len(all) /\ m <= limit /\ (m = limit \/ m = Len(all)) /\ InIdOrder(S, limit) = SubSeq(all, 1, m)
  BY <1>6, <1>7, <1>10, MinOfTwo
<1>12. ASSUME NEW e \in S
       PROVE  e \in Range(SubSeq(all, 1, m)) <=> Cardinality({d \in S : d < e}) < limit
  <2>1. PICK i \in DOMAIN all : all[i] = e /\ Cardinality({d \in S : d < e}) = i - 1
    BY <1>0, <1>4, RankInOrder
  <2>2. PICK front : front = SubSeq(all, 1, m)
    OBVIOUS
  <2>3. DOMAIN front = 1 .. m /\ \A j \in 1 .. m : front[j] = all[j] /\ j \in DOMAIN all
    BY <1>9, <1>11, <2>2
  <2>4. e \in Range(front) <=> i \in 1 .. m
    <3>1. i \in 1 .. m => e \in Range(front)
      BY <2>1, <2>3 DEF Range
    <3>2. ASSUME e \in Range(front) PROVE i \in 1 .. m
      <4>1. PICK j \in 1 .. m : front[j] = e
        BY <2>3, <3>2 DEF Range
      <4>2. j \in DOMAIN all /\ all[j] = all[i]
        BY <2>1, <2>3, <4>1
      <4>3. j = i
        BY <1>5, <4>2 DEF Lists
      <4>4. QED
        BY <4>3
    <3>3. QED
      BY <3>1, <3>2
  <2>5. i \in 1 .. m <=> i - 1 < limit
    <3>1. PICK len : len = Len(all)
      OBVIOUS
    <3>2. len \in Nat /\ i \in 1 .. len /\ m \in 0 .. len /\ m <= limit /\ (m = limit \/ m = len) /\ limit \in Nat
      BY <1>7, <1>11, <2>1, <3>1
    <3>3. QED
      BY ONLY <3>2
  <2>6. QED
    BY <2>1, <2>2, <2>4, <2>5
<1>13. Lists(InIdOrder(S, limit), S)
  BY <1>9, <1>11
<1>14. QED
  BY <1>11, <1>12, <1>13

\* The list of Admit, in the order of priorities.
LEMMA InPriorityOrderLists ==
  ASSUME TypeOK, NEW S \in SUBSET Works
  PROVE  Lists(InPriorityOrder(S), S)
<1>0. IsFiniteSet(S) /\ S \in SUBSET Nat
  BY WorksFinite
<1> DEFINE Before(a, b) == priority(a) > priority(b) \/ (priority(a) = priority(b) /\ a < b)
           R == {p \in S \X S : Before(p[1], p[2])}
           Goes(s) == \A i, j \in DOMAIN s : i < j => Before(s[i], s[j])
<1>1. \A x \in S : priority(x) \in Nat
  <2>1. ASSUME NEW x \in S PROVE priority(x) \in Nat
    <3>1. PICK v : v = world[x]
      OBVIOUS
    <3>2. v \in Entities
      BY <3>1 DEF TypeOK, Works
    <3>3. v.meta = NoMeta \/ v.meta.priority \in Nat
      BY <3>2 DEF Entities, Metas
    <3>4. QED
      BY <3>1, <3>3 DEF priority, Meta
  <2>2. QED
    BY <2>1
<1>2. StrictOrder(R, S)
  <2>1. \A x, y \in S : <<x, y>> \in R <=> Before(x, y)
    OBVIOUS
  <2> HIDE DEF R
  <2>2. \A x, y \in S : x # y => Before(x, y) \/ Before(y, x)
    BY <1>0, <1>1
  <2>3. ASSUME NEW x \in S, NEW y \in S, NEW z \in S, Before(x, y), Before(y, z)
        PROVE  Before(x, z)
    <3>1. {priority(x), priority(y), priority(z), x, y, z} \subseteq Nat
      BY <1>0, <1>1
    <3>2. QED
      BY <2>3, <3>1
  <2>4. QED
    BY <2>1, <2>2, <2>3 DEF StrictOrder
<1>3. PICK t \in SetToSeqs(S) : \A i, j \in DOMAIN t : i < j => <<t[i], t[j]>> \in R
  <2> HIDE DEF R
  <2>1. QED
    BY <1>0, <1>2, SortExists
<1>4. Goes(t)
  BY <1>3
<1> DEFINE all == CHOOSE s \in SetToSeqs(S) : Goes(s)
<1>5. all \in SetToSeqs(S)
  <2> HIDE DEF Goes
  <2>1. QED
    BY <1>3, <1>4
<1>6. InPriorityOrder(S) = all
  BY DEF InPriorityOrder, Sorted
<1> HIDE DEF all
<1>7. QED
  BY <1>0, <1>5, <1>6, SeqsList

Addressed(list, e) == Unrepeated(list) /\ \A k \in DOMAIN list : list[k].entity = e

\* The commands of the first n members of a list: each is one of a member's,
\* no two are the same, and none is missing.
LEMMA EmittedFlat ==
  ASSUME NEW n \in Nat, NEW lists \in [1 .. n -> Seq(Orders)], NEW todo,
         \A i, j \in 1 .. n : todo[i] = todo[j] => i = j,
         \A i \in 1 .. n : Addressed(lists[i], todo[i])
  PROVE  /\ FlattenSeq(lists) \in Seq(Orders)
         /\ Unrepeated(FlattenSeq(lists))
         /\ \A k \in DOMAIN FlattenSeq(lists) :
              \E i \in 1 .. n : \E j \in DOMAIN lists[i] : FlattenSeq(lists)[k] = lists[i][j]
         /\ \A i \in 1 .. n : \A j \in DOMAIN lists[i] :
              \E k \in DOMAIN FlattenSeq(lists) : FlattenSeq(lists)[k] = lists[i][j]
<1>1. lists \in Seq(Seq(Orders)) /\ Len(lists) = n
  OBVIOUS
<1> DEFINE F == FlattenSeq(lists)
<1>2. F \in Seq(Orders) /\ \E p, q : Places(F, lists, n, p, q)
  BY <1>1, FlattenPlaces
<1> HIDE DEF F
<1>3. PICK p, q : Places(F, lists, n, p, q)
  BY <1>2
<1>4. \A k \in DOMAIN F : p[k] \in 1 .. n /\ q[k] \in DOMAIN lists[p[k]] /\ F[k] = lists[p[k]][q[k]]
  BY <1>3 DEF Places
<1>5. ASSUME NEW k \in DOMAIN F, NEW l \in DOMAIN F, F[k].op = F[l].op, F[k].entity = F[l].entity
      PROVE  k = l
  <2>1. F[k].entity = todo[p[k]] /\ F[l].entity = todo[p[l]]
    <3>1. \A i \in 1 .. n : \A j \in DOMAIN lists[i] : lists[i][j].entity = todo[i]
      BY DEF Addressed
    <3>2. ASSUME NEW x \in DOMAIN F PROVE F[x].entity = todo[p[x]]
      <4>1. /\ p[x] \in 1 .. n /\ q[x] \in DOMAIN lists[p[x]]
            /\ F[x].entity = lists[p[x]][q[x]].entity
        BY <1>4
      <4>2. QED
        BY ONLY <3>1, <4>1
    <3>3. QED
      BY <3>2
  <2>2. p[k] = p[l]
    BY <1>4, <1>5, <2>1
  <2>3. q[k] = q[l]
    BY <1>4, <1>5, <2>2 DEF Unrepeated, Addressed
  <2>4. QED
    BY <1>3, <2>2, <2>3 DEF Places
<1>6. \A i \in 1 .. n : \A j \in DOMAIN lists[i] : \E k \in DOMAIN F : F[k] = lists[i][j]
  BY <1>3 DEF Places
<1>7. QED
  BY <1>2, <1>4, <1>5, <1>6 DEF Unrepeated, F

\* What a stage must be able to say of a command it emits.
Sound(c) == StillTrue(c) /\ (c.op = "AcquireWorkLease" => c.entity \notin leases)

CanEmit(cmds) ==
  /\ cmds \in Seq(Orders)
  /\ Unrepeated(cmds)
  /\ \A i \in DOMAIN cmds : Sound(cmds[i])

\* The commands of the list are among the orders of may, pairs of an operation
\* and an entity.
Emits(cmds, may) == \A k \in DOMAIN cmds : <<cmds[k].op, cmds[k].entity>> \in may

\* No command of the n lists is missing.
HasAll(cmds, n, lists) ==
  \A i \in 1 .. n : \A j \in DOMAIN lists[i] : \E k \in DOMAIN cmds : cmds[k] = lists[i][j]

CanEmitFor(list, e, may) ==
  CanEmit(list) /\ Emits(list, may) /\ \A k \in DOMAIN list : list[k].entity = e

\* A stage may emit what it can say that of.
LEMMA EmitKeeps ==
  ASSUME ScheduleInv, NEW n, NEW todo, NEW cmds, CanEmit(cmds), buffer = <<>>, Emit(n, todo, cmds),
         UNCHANGED <<world, leases, lease_step, expired>>,
         active' \in [Ids -> Nat], job' \in [Ids -> Jobs], stray' \subseteq Ids, HandlesLive'
  PROVE  ScheduleInv'
<1>0. /\ world \in Seq(Entities) /\ Len(world) <= MaxWorks /\ TypesApart
  BY TypesOf DEF ScheduleInv
<1>1. buffer' = cmds /\ late' \in BOOLEAN /\ stage' \in DOMAIN After /\ faults' \in 0 .. MaxFaults
  <2>1. buffer' = cmds /\ late' \in BOOLEAN
    BY DEF Emit
  <2>2. stage' \in DOMAIN After
    BY <1>0, Stages DEF Emit, TypesApart
  <2>3. faults' \in 0 .. MaxFaults
    BY <1>0, LimitsAssumption DEF Emit, TypesApart
  <2>4. QED
    BY <2>1, <2>2, <2>3
<1>2. lease_step = "none"
  BY DEF ScheduleInv, HalfDone
<1>3. TypesApart'
  BY <1>0, <1>1 DEF TypesApart
<1>4. Buffered'
  <2>1. ASSUME NEW i \in DOMAIN cmds PROVE StillTrue(cmds[i])'
    BY <2>1 DEF CanEmit, Sound, StillTrue, Works, Meta, Has
  <2>2. QED
    BY <1>1, <2>1 DEF CanEmit, Buffered, StillTrue
<1>5. HalfDone'
  BY <1>2 DEF HalfDone
<1>6. LeasesHeld'
  <2>1. \A e \in leases : e \in Works /\ InState(e, Held)
    BY <1>2 DEF ScheduleInv, LeasesHeld, Held
  <2>2. QED
    BY <1>1, <2>1 DEF LeasesHeld, Held, Works, InState, CanEmit, Sound
<1>7. ProgressConserved'
  BY DEF ScheduleInv, ProgressConserved, Works, Meta
<1>8. TypeOK'
  BY <1>0, <1>3, <1>4, TypesTogetherNext
<1>9. QED
  BY <1>4, <1>5, <1>6, <1>7, <1>8 DEF ScheduleInv

\* Emitting the commands of a list's first n members.
LEMMA FlatCanEmit ==
  ASSUME NEW S, NEW todo, Lists(todo, S), NEW n \in 0 .. Len(todo), NEW lists, NEW may,
         lists = [i \in 1 .. n |-> lists[i]], \A i \in 1 .. n : CanEmitFor(lists[i], todo[i], may)
  PROVE  /\ CanEmit(FlattenSeq(lists)) /\ Emits(FlattenSeq(lists), may)
         /\ HasAll(FlattenSeq(lists), n, lists)
<1>0. n \in Nat /\ DOMAIN todo = 1 .. Len(todo) /\ Len(todo) \in Nat /\ 1 .. n \subseteq DOMAIN todo
  BY DEF Lists
<1>1. \A i \in 1 .. n : /\ lists[i] \in Seq(Orders) /\ Unrepeated(lists[i])
                         /\ \A k \in DOMAIN lists[i] : lists[i][k].entity = todo[i]
  BY DEF CanEmitFor, CanEmit
<1>2. lists \in [1 .. n -> Seq(Orders)]
  <2>1. lists = [i \in 1 .. n |-> lists[i]] /\ \A i \in 1 .. n : lists[i] \in Seq(Orders)
    BY <1>1
  <2>2. QED
    BY ONLY <2>1
<1>3. \A i, j \in 1 .. n : todo[i] = todo[j] => i = j
  BY <1>0 DEF Lists
<1> DEFINE F == FlattenSeq(lists)
<1>4. /\ F \in Seq(Orders) /\ Unrepeated(F)
      /\ \A k \in DOMAIN F : \E i \in 1 .. n : \E j \in DOMAIN lists[i] : F[k] = lists[i][j]
      /\ \A i \in 1 .. n : \A j \in DOMAIN lists[i] : \E k \in DOMAIN F : F[k] = lists[i][j]
  <2>1. \A i \in 1 .. n : Addressed(lists[i], todo[i])
    BY <1>1 DEF Addressed
  <2>2. n \in Nat
    BY <1>0
  <2>3. QED
    BY ONLY <1>2, <1>3, <2>1, <2>2, EmittedFlat
<1> HIDE DEF F
<1>5. \A i \in 1 .. n : \A j \in DOMAIN lists[i] : Sound(lists[i][j])
  BY DEF CanEmitFor, CanEmit
<1>6. \A k \in DOMAIN F : Sound(F[k])
  BY ONLY <1>4, <1>5
<1>7. \A i \in 1 .. n : \A j \in DOMAIN lists[i] : <<lists[i][j].op, lists[i][j].entity>> \in may
  BY DEF CanEmitFor, Emits
<1>8. \A k \in DOMAIN F : <<F[k].op, F[k].entity>> \in may
  BY ONLY <1>4, <1>7
<1>9. QED
  BY <1>4, <1>6, <1>8 DEF CanEmit, Emits, HasAll, F

\* A stage that starts and gives up no dispatch.
LEMMA StageKeeps ==
  ASSUME ScheduleInv, NEW S, NEW todo, Lists(todo, S), NEW n \in 0 .. Len(todo), NEW lists, NEW may,
         lists = [i \in 1 .. n |-> lists[i]], \A i \in 1 .. n : CanEmitFor(lists[i], todo[i], may),
         buffer = <<>>, Emit(n, todo, FlattenSeq(lists)),
         UNCHANGED <<world, leases, lease_step, active, job, stray, expired>>
  PROVE  /\ ScheduleInv' /\ Emits(buffer', may)
         /\ HasAll(buffer', n, lists)
<1>1. /\ CanEmit(FlattenSeq(lists)) /\ Emits(FlattenSeq(lists), may)
      /\ HasAll(FlattenSeq(lists), n, lists)
  BY FlatCanEmit
<1>2. HandlesLive'
  BY DEF ScheduleInv, HandlesLive, Works, Has
<1>3. active' \in [Ids -> Nat] /\ job' \in [Ids -> Jobs] /\ stray' \subseteq Ids
  BY DEF ScheduleInv, TypeOK
<1>4. PICK cmds : cmds = FlattenSeq(lists)
  OBVIOUS
<1>5. /\ CanEmit(cmds) /\ Emit(n, todo, cmds) /\ Emits(cmds, may)
      /\ HasAll(cmds, n, lists)
  BY <1>1, <1>4
<1>6. ScheduleInv'
  BY <1>2, <1>3, <1>5, EmitKeeps
<1>7. buffer' = cmds
  BY <1>5 DEF Emit
<1>8. QED
  BY <1>5, <1>6, <1>7

\* One command can be emitted if it is sound.
LEMMA OneCommand ==
  ASSUME NEW c \in Orders, Sound(c), NEW may, <<c.op, c.entity>> \in may
  PROVE  CanEmitFor(<<c>>, c.entity, may)
BY DEF CanEmitFor, CanEmit, Unrepeated, Emits

\* Two of them, if they differ.
LEMMA TwoCommands ==
  ASSUME NEW c \in Orders, NEW d \in Orders, Sound(c), Sound(d), c.op # d.op, c.entity = d.entity,
         NEW may, <<c.op, c.entity>> \in may, <<d.op, d.entity>> \in may
  PROVE  CanEmitFor(<<c, d>>, c.entity, may)
<1>1. <<c, d>> \in Seq(Orders) /\ DOMAIN <<c, d>> = {1, 2} /\ <<c, d>>[1] = c /\ <<c, d>>[2] = d
  OBVIOUS
<1>2. QED
  BY <1>1 DEF CanEmitFor, CanEmit, Unrepeated, Emits

\* None at all.
LEMMA NoCommand ==
  ASSUME NEW e, NEW may
  PROVE  CanEmitFor(<<>>, e, may)
<1>1. <<>> \in Seq(Orders) /\ DOMAIN <<>> = {}
  OBVIOUS
<1>2. QED
  BY <1>1 DEF CanEmitFor, CanEmit, Unrepeated, Emits

\* An order for work that is there is sound, but for the one that needs a lease.
LEMMA OrderSound ==
  ASSUME TypeOK, NEW e \in Works, NEW op \in ScheduleOps, NEW may, <<op, e>> \in may,
         op = "AcquireWorkLease" => e \notin leases
  PROVE  /\ Order(op, e) \in Orders /\ Order(op, e).op = op /\ Order(op, e).entity = e
         /\ Sound(Order(op, e))
         /\ CanEmitFor(<<Order(op, e)>>, e, may)
<1>1. e \in Ids
  BY WorksFinite
<1>2. PICK c : c = Order(op, e)
  OBVIOUS
<1>3. c \in Orders /\ c.op = op /\ c.entity = e
  BY <1>1, <1>2 DEF Order, Command, Orders
<1>4. Sound(c)
  BY <1>3 DEF Sound, StillTrue, ScheduleOps
<1>5. CanEmitFor(<<c>>, e, may)
  BY <1>3, <1>4, OneCommand
<1>6. QED
  BY <1>2, <1>3, <1>4, <1>5

\* The first members of a list are members of it.
LEMMA FirstMembers ==
  ASSUME NEW S, NEW todo, Lists(todo, S), NEW n \in 0 .. Len(todo)
  PROVE  Range(SubSeq(todo, 1, n)) \subseteq S /\ \A i \in 1 .. n : todo[i] \in S /\ todo[i] \in Range(todo)
<1>0. todo \in Seq(S) /\ Len(todo) \in Nat /\ DOMAIN todo = 1 .. Len(todo)
  BY DEF Lists
<1>1. SubSeq(todo, 1, n) \in Seq(S)
  BY <1>0
<1>2. PICK t : t = SubSeq(todo, 1, n)
  OBVIOUS
<1>3. t \in Seq(S) /\ DOMAIN t = 1 .. Len(t) /\ \A i \in DOMAIN t : t[i] \in S
  BY <1>1, <1>2
<1>4. Range(t) \subseteq S
  BY <1>3 DEF Range
<1>5. \A i \in 1 .. n : todo[i] \in S /\ todo[i] \in Range(todo)
  BY <1>0 DEF Range
<1>6. QED
  BY <1>2, <1>4, <1>5

\* The work that the stages go through, one definition per stage.
NewWorks == {e \in Works : InState(e, {"Pending"}) /\ ~Has(e, "PlannedMarker")}

ReadyWorks == {e \in Works : InState(e, {"Ready"}) /\ Has(e, "AdmittedMarker")}

LeasedWorks == {e \in Works : InState(e, {"Leased"}) /\ Has(e, "AdmittedMarker")}

UnpublishedWorks == {e \in Works : InState(e, {"Completed"}) /\ ~Has(e, "PublishedMarker")}

FinishedWorks == {e \in Works : IsTerminal(world[e].state)}

DispatchOps == {"RequestCancellation", "RecordDispatchIntent", "FailWork"}

CollectOps == {"RequestCancellation", "FailWork", "CompleteWork", "AdvanceInference"}

CleanupOps == {"ReleaseWorkLease", "ExpireTransientState"}

\* The stage Observe.
LEMMA ObserveKeeps ==
  ASSUME ScheduleInv, Observe
  PROVE  /\ ScheduleInv' /\ Emits(buffer', {"MarkObserved"} \X NewWorks)
<1>0. TypeOK /\ NewWorks \in SUBSET Works /\ MaxScan \in Nat
  BY LimitsAssumption DEF ScheduleInv, NewWorks
<1>1. PICK S, todo : S = NewWorks /\ todo = InIdOrder(S, MaxScan)
  OBVIOUS
<1>2. Lists(todo, S)
  BY <1>0, <1>1, InIdOrderLists
<1>3. PICK n \in 0 .. Len(todo) : EmitFirst(n, todo, LAMBDA e : <<Order("MarkObserved", e)>>)
  BY <1>1 DEF Observe, NewWorks
<1>4. PICK lists : lists = [i \in 1 .. n |-> <<Order("MarkObserved", todo[i])>>]
  OBVIOUS
<1>5. Emit(n, todo, FlattenSeq(lists))
  BY <1>3, <1>4 DEF EmitFirst
<1>6. /\ buffer = <<>> /\ UNCHANGED <<world, leases, lease_step, active, job, stray, expired>>
  BY DEF Observe, AtStage, dispatchVars
<1>7. PICK may : may = {"MarkObserved"} \X S
  OBVIOUS
<1>8. ASSUME NEW i \in 1 .. n PROVE CanEmitFor(lists[i], todo[i], may)
  <2>1. PICK e : e = todo[i]
    OBVIOUS
  <2>2. e \in S /\ e \in Works /\ e \in Range(todo)
    BY <1>0, <1>1, <1>2, <2>1, FirstMembers
  <2>3. <<"MarkObserved", e>> \in may /\ "MarkObserved" \in ScheduleOps
    BY <1>7, <2>2 DEF ScheduleOps
  <2>4. CanEmitFor(<<Order("MarkObserved", e)>>, e, may)
    BY <1>0, <2>2, <2>3, OrderSound
  <2>5. QED
    BY <1>4, <2>1, <2>4
<1>9. lists = [i \in 1 .. n |-> lists[i]]
  BY <1>4
<1>10. /\ ScheduleInv' /\ Emits(buffer', may)
       /\ HasAll(buffer', n, lists)
  BY <1>2, <1>5, <1>6, <1>8, <1>9, StageKeeps
<1>11. QED
  BY <1>1, <1>7, <1>10
\* The stage Plan.
LEMMA PlanKeeps ==
  ASSUME ScheduleInv, Plan
  PROVE  /\ ScheduleInv' /\ Emits(buffer', {"RecordWorkPlan"} \X PlannedWorks)
<1>0. TypeOK /\ PlannedWorks \in SUBSET Works /\ MaxScan \in Nat
  BY LimitsAssumption DEF ScheduleInv, PlannedWorks
<1>1. PICK S, todo : S = PlannedWorks /\ todo = InIdOrder(S, MaxScan)
  OBVIOUS
<1>2. Lists(todo, S)
  BY <1>0, <1>1, InIdOrderLists
<1>3. PICK n \in 0 .. Len(todo) : EmitFirst(n, todo, LAMBDA e : <<Order("RecordWorkPlan", e)>>)
  BY <1>1 DEF Plan, PlannedWorks
<1>4. PICK lists : lists = [i \in 1 .. n |-> <<Order("RecordWorkPlan", todo[i])>>]
  OBVIOUS
<1>5. Emit(n, todo, FlattenSeq(lists))
  BY <1>3, <1>4 DEF EmitFirst
<1>6. /\ buffer = <<>> /\ UNCHANGED <<world, leases, lease_step, active, job, stray, expired>>
  BY DEF Plan, AtStage, dispatchVars
<1>7. PICK may : may = {"RecordWorkPlan"} \X S
  OBVIOUS
<1>8. ASSUME NEW i \in 1 .. n PROVE CanEmitFor(lists[i], todo[i], may)
  <2>1. PICK e : e = todo[i]
    OBVIOUS
  <2>2. e \in S /\ e \in Works /\ e \in Range(todo)
    BY <1>0, <1>1, <1>2, <2>1, FirstMembers
  <2>3. <<"RecordWorkPlan", e>> \in may /\ "RecordWorkPlan" \in ScheduleOps
    BY <1>7, <2>2 DEF ScheduleOps
  <2>4. CanEmitFor(<<Order("RecordWorkPlan", e)>>, e, may)
    BY <1>0, <2>2, <2>3, OrderSound
  <2>5. QED
    BY <1>4, <2>1, <2>4
<1>9. lists = [i \in 1 .. n |-> lists[i]]
  BY <1>4
<1>10. /\ ScheduleInv' /\ Emits(buffer', may)
       /\ HasAll(buffer', n, lists)
  BY <1>2, <1>5, <1>6, <1>8, <1>9, StageKeeps
<1>11. QED
  BY <1>1, <1>7, <1>10
\* The stage Publish.  Unless the deadline cuts it short, the results it leaves
\* out are those that MaxBatch others come before.
LEMMA PublishKeeps ==
  ASSUME ScheduleInv, Publish
  PROVE  /\ ScheduleInv' /\ Emits(buffer', {"PublishResult"} \X UnpublishedWorks)
         /\ ~late' /\ stage' # "Idle" =>
              \A e \in UnpublishedWorks :
                 \/ \E k \in DOMAIN buffer' : buffer'[k].op = "PublishResult" /\ buffer'[k].entity = e
                 \/ Cardinality({d \in UnpublishedWorks : d < e}) >= MaxBatch
<1>0. TypeOK /\ UnpublishedWorks \in SUBSET Works /\ MaxBatch \in Nat
  BY LimitsAssumption DEF ScheduleInv, UnpublishedWorks
<1>1. PICK S, todo : S = UnpublishedWorks /\ todo = InIdOrder(S, MaxBatch)
  OBVIOUS
<1>2. Lists(todo, S) /\ \A e \in S : e \in Range(todo) <=> Cardinality({d \in S : d < e}) < MaxBatch
  BY <1>0, <1>1, InIdOrderLists
<1>3. PICK n \in 0 .. Len(todo) : EmitFirst(n, todo, LAMBDA e : <<Order("PublishResult", e)>>)
  BY <1>1 DEF Publish, UnpublishedWorks
<1>4. PICK lists : lists = [i \in 1 .. n |-> <<Order("PublishResult", todo[i])>>]
  OBVIOUS
<1>5. Emit(n, todo, FlattenSeq(lists))
  BY <1>3, <1>4 DEF EmitFirst
<1>6. /\ buffer = <<>> /\ UNCHANGED <<world, leases, lease_step, active, job, stray, expired>>
  BY DEF Publish, AtStage, dispatchVars
<1>7. PICK may : may = {"PublishResult"} \X S
  OBVIOUS
<1>8. ASSUME NEW i \in 1 .. n PROVE CanEmitFor(lists[i], todo[i], may)
  <2>1. PICK e : e = todo[i]
    OBVIOUS
  <2>2. e \in S /\ e \in Works /\ e \in Range(todo)
    BY <1>0, <1>1, <1>2, <2>1, FirstMembers
  <2>3. <<"PublishResult", e>> \in may /\ "PublishResult" \in ScheduleOps
    BY <1>7, <2>2 DEF ScheduleOps
  <2>4. CanEmitFor(<<Order("PublishResult", e)>>, e, may)
    BY <1>0, <2>2, <2>3, OrderSound
  <2>5. QED
    BY <1>4, <2>1, <2>4
<1>9. lists = [i \in 1 .. n |-> lists[i]]
  BY <1>4
<1>10. /\ ScheduleInv' /\ Emits(buffer', may)
       /\ HasAll(buffer', n, lists)
  BY <1>2, <1>5, <1>6, <1>8, <1>9, StageKeeps
<1>11. ASSUME ~late', stage' # "Idle", NEW e \in S, e \in Range(todo)
       PROVE  \E k \in DOMAIN buffer' : buffer'[k].op = "PublishResult" /\ buffer'[k].entity = e
  <2>1. Len(todo) \in Nat /\ DOMAIN todo = 1 .. Len(todo)
    BY <1>2 DEF Lists
  <2>2. n = Len(todo)
    <3>1. ASSUME n < Len(todo) PROVE late' \/ stage' = "Idle"
      <4>1. PICK cmds : cmds = FlattenSeq(lists)
        OBVIOUS
      <4>2. Emit(n, todo, cmds)
        BY <1>5, <4>1
      <4>3. CASE cmds = <<>>
        BY <3>1, <4>2, <4>3 DEF Emit
      <4>4. CASE cmds # <<>>
        BY <3>1, <4>2, <4>4, Zenon DEF Emit
      <4>5. QED
        BY <4>3, <4>4
    <3>2. ~(n < Len(todo))
      BY <1>11, <3>1, Zenon
    <3>3. PICK len : len = Len(todo)
      OBVIOUS
    <3>4. len \in Nat /\ n \in 0 .. len /\ ~(n < len)
      BY <2>1, <3>2, <3>3
    <3>5. n = len
      BY ONLY <3>4
    <3>6. QED
      BY <3>3, <3>5
  <2>3. PICK i \in 1 .. n : todo[i] = e
    BY <1>11, <2>1, <2>2 DEF Range
  <2>4. 1 \in DOMAIN lists[i] /\ lists[i][1] = Order("PublishResult", e)
    BY <1>4, <2>3
  <2>5. PICK k \in DOMAIN buffer' : buffer'[k] = Order("PublishResult", e)
    BY <1>10, <2>4 DEF HasAll
  <2>6. QED
    BY <2>5 DEF Order, Command
<1>12. ASSUME NEW e \in S, e \notin Range(todo)
       PROVE  Cardinality({d \in S : d < e}) >= MaxBatch
  <2>1. {d \in S : d < e} \in SUBSET Works
    BY <1>0, <1>1
  <2>2. Cardinality({d \in S : d < e}) \in Nat
    BY <1>0, <2>1, WorksFinite, FS_CardinalityType
  <2>3. QED
    BY <1>0, <1>2, <1>12, <2>2
<1>13. QED
  BY <1>1, <1>7, <1>10, <1>11, <1>12
\* The stage Lease asks for leases of work that is Ready: nobody holds them.
LEMMA LeaseKeeps ==
  ASSUME ScheduleInv, Lease
  PROVE  /\ ScheduleInv' /\ Emits(buffer', {"RequestCancellation", "AcquireWorkLease"} \X ReadyWorks)
<1>0. TypeOK /\ ReadyWorks \in SUBSET Works /\ MaxBatch \in Nat
  BY LimitsAssumption DEF ScheduleInv, ReadyWorks
<1>1. PICK S, todo : S = ReadyWorks /\ todo = InIdOrder(S, MaxBatch)
  OBVIOUS
<1>2. Lists(todo, S)
  BY <1>0, <1>1, InIdOrderLists
<1>3. PICK n \in 0 .. Len(todo) : EmitFirst(n, todo, LAMBDA e : IF deadline_expired(e)
                                                             THEN <<CancelExpired(e)>>
                                                             ELSE <<Order("AcquireWorkLease", e)>>)
  BY <1>1 DEF Lease, ReadyWorks
<1>4. PICK lists : lists = [i \in 1 .. n |-> IF deadline_expired(todo[i])
                                           THEN <<CancelExpired(todo[i])>>
                                           ELSE <<Order("AcquireWorkLease", todo[i])>>]
  OBVIOUS
<1>5. Emit(n, todo, FlattenSeq(lists))
  BY <1>3, <1>4 DEF EmitFirst
<1>6. /\ buffer = <<>> /\ UNCHANGED <<world, leases, lease_step, active, job, stray, expired>>
  BY DEF Lease, AtStage, dispatchVars
<1>7. PICK may : may = {"RequestCancellation", "AcquireWorkLease"} \X S
  OBVIOUS
<1>8. ASSUME NEW i \in 1 .. n PROVE CanEmitFor(lists[i], todo[i], may)
  <2>1. PICK e : e = todo[i]
    OBVIOUS
  <2>2. e \in S /\ e \in Works /\ e \in Range(todo)
    BY <1>0, <1>1, <1>2, <2>1, FirstMembers
  <2>3. e \notin leases
    <3>1. lease_step = "none"
      BY <1>6 DEF ScheduleInv, HalfDone
    <3>2. QED
      BY <1>1, <2>2, <3>1 DEF ScheduleInv, LeasesHeld, InState, ReadyWorks
  <2>4. /\ <<"RequestCancellation", e>> \in may /\ "RequestCancellation" \in ScheduleOps
        /\ <<"AcquireWorkLease", e>> \in may /\ "AcquireWorkLease" \in ScheduleOps
    BY <1>7, <2>2 DEF ScheduleOps
  <2>5. CanEmitFor(<<Order("AcquireWorkLease", e)>>, e, may) /\ CanEmitFor(<<CancelExpired(e)>>, e, may)
    BY <1>0, <2>2, <2>3, <2>4, OrderSound DEF CancelExpired
  <2>6. QED
    BY <1>4, <2>1, <2>5
<1>9. lists = [i \in 1 .. n |-> lists[i]]
  BY <1>4
<1>10. /\ ScheduleInv' /\ Emits(buffer', may)
       /\ HasAll(buffer', n, lists)
  BY <1>2, <1>5, <1>6, <1>8, <1>9, StageKeeps
<1>11. QED
  BY <1>1, <1>7, <1>10
\* The stage Cleanup.
LEMMA CleanupKeeps ==
  ASSUME ScheduleInv, Cleanup
  PROVE  /\ ScheduleInv' /\ Emits(buffer', CleanupOps \X Range(InIdOrder(FinishedWorks, MaxBatch)))
<1>0. TypeOK /\ FinishedWorks \in SUBSET Works /\ MaxBatch \in Nat
  BY LimitsAssumption DEF ScheduleInv, FinishedWorks
<1>1. PICK S, todo : S = FinishedWorks /\ todo = InIdOrder(S, MaxBatch)
  OBVIOUS
<1>2. Lists(todo, S)
  BY <1>0, <1>1, InIdOrderLists
<1>3. PICK n \in 0 .. Len(todo) : EmitFirst(n, todo, LAMBDA e : <<Order("ReleaseWorkLease", e),
                                                             Order("ExpireTransientState", e)>>)
  BY <1>1 DEF Cleanup, FinishedWorks
<1>4. PICK lists : lists = [i \in 1 .. n |-> <<Order("ReleaseWorkLease", todo[i]),
                                           Order("ExpireTransientState", todo[i])>>]
  OBVIOUS
<1>5. Emit(n, todo, FlattenSeq(lists))
  BY <1>3, <1>4 DEF EmitFirst
<1>6. /\ buffer = <<>> /\ UNCHANGED <<world, leases, lease_step, active, job, stray, expired>>
  BY DEF Cleanup, AtStage, dispatchVars
<1>7. PICK may : may = CleanupOps \X Range(todo)
  OBVIOUS
<1>8. ASSUME NEW i \in 1 .. n PROVE CanEmitFor(lists[i], todo[i], may)
  <2>1. PICK e : e = todo[i]
    OBVIOUS
  <2>2. e \in S /\ e \in Works /\ e \in Range(todo)
    BY <1>0, <1>1, <1>2, <2>1, FirstMembers
  <2>3. PICK c, d : c = Order("ReleaseWorkLease", e) /\ d = Order("ExpireTransientState", e)
    OBVIOUS
  <2>4. /\ <<"ReleaseWorkLease", e>> \in may /\ "ReleaseWorkLease" \in ScheduleOps
        /\ <<"ExpireTransientState", e>> \in may /\ "ExpireTransientState" \in ScheduleOps
    BY <1>7, <2>2 DEF ScheduleOps, CleanupOps
  <2>5. /\ c \in Orders /\ c.op = "ReleaseWorkLease" /\ c.entity = e /\ Sound(c)
        /\ d \in Orders /\ d.op = "ExpireTransientState" /\ d.entity = e /\ Sound(d)
    BY <1>0, <2>2, <2>3, <2>4, OrderSound
  <2>6. CanEmitFor(<<c, d>>, e, may)
    BY <2>4, <2>5, TwoCommands
  <2>7. QED
    BY <1>4, <2>1, <2>3, <2>6
<1>9. lists = [i \in 1 .. n |-> lists[i]]
  BY <1>4
<1>10. /\ ScheduleInv' /\ Emits(buffer', may)
       /\ HasAll(buffer', n, lists)
  BY <1>2, <1>5, <1>6, <1>8, <1>9, StageKeeps
<1>11. QED
  BY <1>1, <1>7, <1>10
\* The stage Dispatch starts what has no handle yet.
LEMMA DispatchKeeps ==
  ASSUME ScheduleInv, Dispatch
  PROVE  ScheduleInv' /\ Emits(buffer', DispatchOps \X LeasedWorks) /\ (\A e \in Ids : active'[e] > 0 => active[e] > 0 \/ e \in LeasedWorks)
<1> DEFINE S == {e \in Works : InState(e, {"Leased"}) /\ Has(e, "AdmittedMarker")}
<1>a. PICK may : may = DispatchOps \X S
  OBVIOUS
<1>0. TypeOK /\ S \in SUBSET Works /\ MaxBatch \in Nat /\ Works \subseteq Ids
  BY LimitsAssumption, WorksFinite DEF ScheduleInv
<1>1. PICK todo : todo = InIdOrder(S, MaxBatch)
  OBVIOUS
<1>2. Lists(todo, S)
  <2> HIDE DEF S
  <2>1. QED
    BY <1>0, <1>1, InIdOrderLists
<1> DEFINE Started(t, n, out) == {e \in Range(SubSeq(t, 1, n)) : Dispatches(e) /\ out[e] = "started"}
           Runs(t, n, out) ==
             /\ Emit(n, t, FlattenSeq([i \in 1 .. n |-> DispatchCommands(t[i], out[t[i]])]))
             /\ active' = [e \in Ids |-> IF e \in Started(t, n, out) THEN active[e] + 1 ELSE active[e]]
             /\ job' = [e \in Ids |-> IF e \in Started(t, n, out) THEN "running" ELSE job[e]]
           Some(t) == \E n \in 0 .. Len(t), out \in [Range(t) -> StartOutcomes] : Runs(t, n, out)
<1>3. PICK n \in 0 .. Len(todo), out \in [Range(todo) -> StartOutcomes] : Runs(todo, n, out)
  <2>1. Some(InIdOrder(S, MaxBatch))
    BY Zenon DEF Dispatch, EmitFirst
  <2> HIDE DEF Some
  <2>2. Some(todo)
    BY <1>1, <2>1
  <2>3. QED
    BY <2>2 DEF Some
<1>4. PICK started : started = Started(todo, n, out)
  OBVIOUS
<1>5. PICK lists : lists = [i \in 1 .. n |-> DispatchCommands(todo[i], out[todo[i]])]
  OBVIOUS
<1>6. /\ Emit(n, todo, FlattenSeq(lists))
      /\ active' = [e \in Ids |-> IF e \in started THEN active[e] + 1 ELSE active[e]]
      /\ job' = [e \in Ids |-> IF e \in started THEN "running" ELSE job[e]]
  <2> HIDE DEF Started
  <2>1. QED
    BY <1>3, <1>4, <1>5
<1>7. /\ buffer = <<>> /\ UNCHANGED <<world, leases, lease_step, stray, expired>>
  BY DEF Dispatch, AtStage
<1>8. ASSUME NEW i \in 1 .. n PROVE CanEmitFor(lists[i], todo[i], may)
  <2>1. PICK e, o : e = todo[i] /\ o = out[e]
    OBVIOUS
  <2>2. e \in S /\ o \in StartOutcomes
    <3>1. todo[i] \in S /\ todo[i] \in Range(todo)
      <4> HIDE DEF S
      <4>1. QED
        BY <1>2, FirstMembers
    <3>2. QED
      BY <1>3, <2>1, <3>1
  <2>10. /\ <<"RequestCancellation", e>> \in may /\ "RequestCancellation" \in ScheduleOps
         /\ <<"RecordDispatchIntent", e>> \in may /\ <<"FailWork", e>> \in may
    BY <1>a, <2>2 DEF DispatchOps, ScheduleOps
  <2>3. PICK c, d : c = Order("RecordDispatchIntent", e) /\ d = Order("FailWork", e)
    OBVIOUS
  <2>4. /\ c \in Orders /\ c.op = "RecordDispatchIntent" /\ c.entity = e /\ Sound(c)
        /\ d \in Orders /\ d.op = "FailWork" /\ d.entity = e /\ Sound(d)
    <3>0. TypeOK /\ e \in Works
      BY <1>0, <2>2
    <3>1. PICK op, op2 : op = "RecordDispatchIntent" /\ op2 = "FailWork"
      OBVIOUS
    <3>2. c \in Orders /\ c.op = op /\ c.entity = e /\ Sound(c)
      <4>1. op \in ScheduleOps /\ op # "AcquireWorkLease" /\ c = Order(op, e) /\ <<op, e>> \in may
        BY <2>3, <2>10, <3>1 DEF ScheduleOps
      <4>2. QED
        BY ONLY <3>0, <4>1, OrderSound
    <3>3. d \in Orders /\ d.op = op2 /\ d.entity = e /\ Sound(d)
      <4>1. op2 \in ScheduleOps /\ op2 # "AcquireWorkLease" /\ d = Order(op2, e) /\ <<op2, e>> \in may
        BY <2>3, <2>10, <3>1 DEF ScheduleOps
      <4>2. QED
        BY ONLY <3>0, <4>1, OrderSound
    <3>4. QED
      BY <3>1, <3>2, <3>3
  <2>5. CanEmitFor(<<c, d>>, e, may) /\ CanEmitFor(<<c>>, e, may) /\ CanEmitFor(<<d>>, e, may) /\ CanEmitFor(<<>>, e, may)
    BY <2>4, <2>10, TwoCommands, OneCommand, NoCommand
  <2>6. CanEmitFor(<<CancelExpired(e)>>, e, may)
    BY <1>0, <2>2, <2>10, OrderSound DEF CancelExpired
  <2>7. DispatchCommands(e, o) \in {<<>>, <<CancelExpired(e)>>, <<c>>, <<c, d>>, <<d>>}
    BY <2>2, <2>3 DEF DispatchCommands, StartOutcomes
  <2>8. lists[i] = DispatchCommands(e, o)
    BY <1>5, <2>1
  <2>9. QED
    BY <2>1, <2>5, <2>6, <2>7, <2>8
<1>9. lists = [i \in 1 .. n |-> lists[i]]
  BY <1>5
<1>10. CanEmit(FlattenSeq(lists)) /\ Emits(FlattenSeq(lists), may)
  <2> HIDE DEF S
  <2>1. QED
    BY <1>2, <1>8, <1>9, FlatCanEmit
<1>11. active \in [Ids -> Nat] /\ job \in [Ids -> Jobs]
  BY <1>0 DEF TypeOK
<1>12. active' \in [Ids -> Nat] /\ job' \in [Ids -> Jobs]
  <2>1. \A e \in Ids : active[e] \in Nat /\ active[e] + 1 \in Nat
    BY <1>11
  <2>2. "running" \in Jobs
    BY DEF Jobs
  <2>3. QED
    BY <1>6, <1>11, <2>1, <2>2
<1>13. HandlesLive' /\ \A e \in Ids : active'[e] > 0 => active[e] > 0 \/ e \in S
  <2>1. \A e \in started : e \in S /\ e \in Works /\ Has(e, "AdmittedMarker") /\ active[e] = 0
    <3>1. Range(SubSeq(todo, 1, n)) \subseteq S
      <4> HIDE DEF S
      <4>1. QED
        BY <1>2, FirstMembers
    <3>2. \A e \in started : e \in S /\ ~already_active(e)
      BY <1>4, <3>1 DEF Dispatches
    <3>3. \A e \in started : e \in Ids /\ ~(active[e] > 0)
      BY <1>0, <3>2 DEF already_active
    <3>4. \A e \in started : active[e] = 0
      BY <1>11, <3>3
    <3>5. QED
      BY <3>2, <3>4
  <2>2. ASSUME NEW e \in Ids, active'[e] > 0
        PROVE  active'[e] = 1 /\ e \in Works /\ Has(e, "AdmittedMarker") /\ job'[e] # "none"
    <3>1. CASE e \in started
      BY <1>6, <2>1, <2>2, <3>1
    <3>2. CASE e \notin started
      <4>1. active'[e] = active[e] /\ job'[e] = job[e]
        BY <1>6, <2>2, <3>2
      <4>2. QED
        BY <2>2, <4>1 DEF ScheduleInv, HandlesLive
    <3>3. QED
      BY <3>1, <3>2
  <2>3. HandlesLive'
    BY <1>7, <2>2 DEF HandlesLive, Works, Has
  <2>4. \A e \in Ids : e \in started \/ active'[e] = active[e]
    BY <1>6
  <2>5. QED
    BY <2>1, <2>3, <2>4
<1>14. PICK cmds : cmds = FlattenSeq(lists)
  OBVIOUS
<1>15. CanEmit(cmds) /\ Emit(n, todo, cmds)
  BY <1>6, <1>10, <1>14
<1>16. ScheduleInv'
  <2>1. stray' \subseteq Ids
    BY <1>0, <1>7 DEF TypeOK
  <2>2. QED
    BY <1>7, <1>12, <1>13, <1>15, <2>1, EmitKeeps
<1>17. Emits(buffer', may)
  BY <1>6, <1>10 DEF Emit
<1>18. QED
  BY <1>a, <1>13, <1>16, <1>17 DEF LeasedWorks

\* What Collect emits for a handle: one command at most, CompleteWork only if it
\* gives the handle up.
LEMMA CollectCanEmit ==
  ASSUME ScheduleInv, NEW e \in Ids, already_active(e), NEW may,
         CollectCommands(e) # <<>> => <<CollectCommands(e)[1].op, e>> \in may
  PROVE  /\ CanEmitFor(CollectCommands(e), e, may)
         /\ CollectCommands(e) # <<>> => CollectCommands(e)[1].op \in CollectOps
         /\ CollectCommands(e) # <<>> /\ CollectCommands(e)[1].op = "CompleteWork" => GivesUp(e)
<1>0. TypeOK /\ e \in Works /\ job[e] \in {"running", "completed", "failed"}
  BY DEF ScheduleInv, HandlesLive, already_active, TypeOK, Jobs
<1>1. PICK m, list : m = Meta(e) /\ list = CollectCommands(e)
  OBVIOUS
<1>2. m # NoMeta => m.phase \in Phases
  BY <1>0, <1>1, ProgressTells DEF ScheduleInv, Metas
<1>3. CASE list = <<>>
  BY <1>1, <1>3, NoCommand
<1>4. ASSUME NEW op \in ScheduleOps, op # "AcquireWorkLease", op \in CollectOps, list = <<Order(op, e)>>,
             op = "CompleteWork" => GivesUp(e)
      PROVE  /\ CanEmitFor(list, e, may) /\ list[1].op \in CollectOps
             /\ list[1].op = "CompleteWork" => GivesUp(e)
  <2>1. list # <<>> /\ list[1] = Order(op, e) /\ list[1].op = op
    BY <1>4 DEF Order, Command
  <2>2. <<op, e>> \in may
    BY <1>1, <2>1
  <2>3. CanEmitFor(<<Order(op, e)>>, e, may)
    BY <1>0, <1>4, <2>2, OrderSound
  <2>4. QED
    BY <1>4, <2>1, <2>3
<1>5. ASSUME NEW p, NextProgress(m, p), list = <<Command("AdvanceInference", e, p)>>
      PROVE  CanEmitFor(list, e, may) /\ list[1].op \in CollectOps /\ list[1].op # "CompleteWork"
  <2>1. m # NoMeta
    BY <1>5 DEF NextProgress
  <2>2. m \in Metas /\ \E d \in Metas : Tells(m, d)
    BY <1>0, <1>1, <2>1, ProgressTells DEF ScheduleInv
  <2>3. p \in Progress
    BY <1>5, <2>2, ProgressStep
  <2>4. PICK c : c = Command("AdvanceInference", e, p)
    OBVIOUS
  <2>5. c \in Orders /\ c.op = "AdvanceInference" /\ c.entity = e /\ c.arg = p
    BY <2>3, <2>4 DEF Command, Orders
  <2>6. Sound(c)
    BY <1>0, <1>1, <1>5, <2>5 DEF Sound, StillTrue
  <2>7. list # <<>> /\ list[1] = c /\ list = <<c>>
    BY <1>5, <2>4
  <2>8. <<c.op, c.entity>> \in may
    BY <1>1, <2>5, <2>7
  <2>9. CanEmitFor(<<c>>, e, may)
    BY <2>5, <2>6, <2>8, OneCommand
  <2>10. QED
    BY <2>5, <2>7, <2>9 DEF CollectOps
<1>6. m # NoMeta /\ m.phase = "Prefill" => NextProgress(m, next_after_prefill(m))
  BY DEF NextProgress
<1>7. m # NoMeta /\ m.phase = "Decode" /\ ~is_complete_after_decode(m) => NextProgress(m, next_after_decode(m))
  BY DEF NextProgress
<1>8. \/ list \in {<<>>, <<Order("RequestCancellation", e)>>, <<Order("FailWork", e)>>}
      \/ list = <<Order("CompleteWork", e)>> /\ GivesUp(e)
      \/ /\ m # NoMeta /\ m.phase = "Prefill"
         /\ list = <<Command("AdvanceInference", e, next_after_prefill(m))>>
      \/ /\ m # NoMeta /\ m.phase # "Prefill" /\ ~is_complete_after_decode(m)
         /\ list = <<Command("AdvanceInference", e, next_after_decode(m))>>
  BY <1>0, <1>1 DEF CollectCommands, CancelExpired, GivesUp
<1>9. {"RequestCancellation", "FailWork", "CompleteWork"} \subseteq ScheduleOps \cap CollectOps
  BY DEF ScheduleOps, CollectOps
<1>10. CASE list \in {<<Order("RequestCancellation", e)>>, <<Order("FailWork", e)>>}
  BY <1>1, <1>4, <1>9, <1>10
<1>11. CASE list = <<Order("CompleteWork", e)>> /\ GivesUp(e)
  BY <1>1, <1>4, <1>9, <1>11
<1>12. CASE /\ m # NoMeta /\ m.phase = "Prefill"
            /\ list = <<Command("AdvanceInference", e, next_after_prefill(m))>>
  BY <1>1, <1>5, <1>6, <1>12
<1>13. CASE /\ m # NoMeta /\ m.phase # "Prefill" /\ ~is_complete_after_decode(m)
            /\ list = <<Command("AdvanceInference", e, next_after_decode(m))>>
  BY <1>1, <1>2, <1>5, <1>7, <1>13 DEF Phases
<1>14. QED
  BY <1>3, <1>8, <1>10, <1>11, <1>12, <1>13

\* What the command c that Collect emits says of its entity.
Collected(c) ==
  /\ c.op \in CollectOps /\ c.entity \in Ids /\ active[c.entity] > 0
  /\ c.op = CollectCommands(c.entity)[1].op
  /\ c.op = "CompleteWork" => active'[c.entity] = 0

\* The stage Collect gives handles up.
LEMMA CollectKeeps ==
  ASSUME ScheduleInv, Collect
  PROVE  /\ ScheduleInv'
         /\ \A k \in DOMAIN buffer' : Collected(buffer'[k])
         /\ \A e \in Ids : active'[e] > 0 => active[e] > 0
<1> DEFINE S == {e \in Ids : already_active(e)}
<1>0. TypeOK /\ IsFiniteSet(S)
  <2>1. IsFiniteSet(Ids)
    BY LimitsAssumption, FS_Interval DEF Ids
  <2>2. QED
    BY <2>1, FS_Subset DEF ScheduleInv
<1>1. PICK todo \in SetToSeqs(S) : \E n \in 0 .. Len(todo) :
        LET dropped == {e \in Range(SubSeq(todo, 1, n)) : GivesUp(e)} IN
        /\ EmitFirst(n, todo, CollectCommands)
        /\ active' = [e \in Ids |-> IF e \in dropped THEN active[e] - 1 ELSE active[e]]
        /\ job' = [e \in Ids |-> IF e \in dropped THEN "none" ELSE job[e]]
        /\ stray' \subseteq stray \cup Range(SubSeq(todo, 1, n))
  BY DEF Collect
<1>2. Lists(todo, S)
  <2> HIDE DEF S
  <2>1. QED
    BY <1>0, SeqsList
<1>3. PICK n \in 0 .. Len(todo) :
        LET dropped == {e \in Range(SubSeq(todo, 1, n)) : GivesUp(e)} IN
        /\ EmitFirst(n, todo, CollectCommands)
        /\ active' = [e \in Ids |-> IF e \in dropped THEN active[e] - 1 ELSE active[e]]
        /\ job' = [e \in Ids |-> IF e \in dropped THEN "none" ELSE job[e]]
        /\ stray' \subseteq stray \cup Range(SubSeq(todo, 1, n))
  BY <1>1
<1>4. PICK dropped : dropped = {e \in Range(SubSeq(todo, 1, n)) : GivesUp(e)}
  OBVIOUS
<1>5. PICK lists : lists = [i \in 1 .. n |-> CollectCommands(todo[i])]
  OBVIOUS
<1>6. /\ Emit(n, todo, FlattenSeq(lists))
      /\ stray' \subseteq stray \cup Range(SubSeq(todo, 1, n))
      /\ active' = [e \in Ids |-> IF e \in dropped THEN active[e] - 1 ELSE active[e]]
      /\ job' = [e \in Ids |-> IF e \in dropped THEN "none" ELSE job[e]]
  BY <1>3, <1>4, <1>5 DEF EmitFirst
<1>7. /\ buffer = <<>> /\ UNCHANGED <<world, leases, lease_step, expired>>
  BY DEF Collect, AtStage
<1> DEFINE May == {o \in CollectOps \X Ids :
                    /\ active[o[2]] > 0 /\ o[1] = CollectCommands(o[2])[1].op
                    /\ o[1] = "CompleteWork" => o[2] \in dropped}
<1>m. PICK may : may = May
  OBVIOUS
<1>8. ASSUME NEW i \in 1 .. n PROVE CanEmitFor(lists[i], todo[i], may)
  <2>1. PICK e : e = todo[i]
    OBVIOUS
  <2>2. todo[i] \in S
    <3> HIDE DEF S
    <3>1. QED
      BY <1>2, FirstMembers
  <2>3. e \in Ids /\ already_active(e) /\ active[e] > 0 /\ e \in Range(SubSeq(todo, 1, n))
    <3>1. Len(todo) \in Nat /\ todo \in Seq(S)
      <4> HIDE DEF S
      <4>1. QED
        BY <1>2 DEF Lists
    <3>2. i \in DOMAIN SubSeq(todo, 1, n) /\ SubSeq(todo, 1, n)[i] = todo[i]
      <4> HIDE DEF S
      <4>1. QED
        BY <3>1
    <3>3. QED
      BY <2>1, <2>2, <3>2 DEF already_active, Range
  <2>4. ASSUME CollectCommands(e) # <<>> PROVE <<CollectCommands(e)[1].op, e>> \in may
    <3>1. PICK op : op = CollectCommands(e)[1].op
      OBVIOUS
    <3>2. op \in CollectOps /\ (op = "CompleteWork" => GivesUp(e))
      <4>1. PICK all : all = {<<op, e>>}
        OBVIOUS
      <4>2. <<CollectCommands(e)[1].op, e>> \in all
        BY <3>1, <4>1
      <4>3. QED
        BY <2>3, <2>4, <3>1, <4>2, CollectCanEmit
    <3>3. op = "CompleteWork" => e \in dropped
      BY <1>4, <2>3, <3>2
    <3>4. <<op, e>> \in May
      BY <2>3, <3>1, <3>2, <3>3
    <3>5. QED
      BY <1>m, <3>1, <3>4
  <2>5. CanEmitFor(CollectCommands(e), e, may)
    BY <2>3, <2>4, CollectCanEmit
  <2>6. QED
    BY <1>5, <2>1, <2>5
<1>9. lists = [i \in 1 .. n |-> lists[i]]
  BY <1>5
<1>10. CanEmit(FlattenSeq(lists)) /\ Emits(FlattenSeq(lists), may)
  <2> HIDE DEF S
  <2>1. QED
    BY <1>2, <1>8, <1>9, FlatCanEmit
<1>11. active \in [Ids -> Nat] /\ job \in [Ids -> Jobs]
  BY <1>0 DEF TypeOK
<1>12. \A e \in dropped : e \in Ids /\ active[e] = 1
  <2>1. Range(SubSeq(todo, 1, n)) \subseteq S
    <3> HIDE DEF S
    <3>1. QED
      BY <1>2, FirstMembers
  <2>2. \A e \in dropped : e \in Ids /\ active[e] > 0
    BY <1>4, <2>1 DEF already_active
  <2>3. QED
    BY <2>2 DEF ScheduleInv, HandlesLive
<1>13. \A e \in Ids : \/ e \in dropped /\ active'[e] = 0 /\ job'[e] = "none"
                      \/ e \notin dropped /\ active'[e] = active[e] /\ job'[e] = job[e]
  BY <1>6, <1>12
<1>14. active' \in [Ids -> Nat] /\ job' \in [Ids -> Jobs]
  <2>1. "none" \in Jobs /\ DOMAIN active' = Ids /\ DOMAIN job' = Ids
    BY <1>6 DEF Jobs
  <2>2. active' = [e \in Ids |-> active'[e]] /\ job' = [e \in Ids |-> job'[e]]
    BY <1>6
  <2>3. \A e \in Ids : active'[e] \in Nat /\ job'[e] \in Jobs
    BY <1>11, <1>13, <2>1
  <2>4. QED
    BY <2>2, <2>3
<1>15. HandlesLive'
  BY <1>7, <1>13 DEF ScheduleInv, HandlesLive, Works, Has
<1>16. PICK cmds : cmds = FlattenSeq(lists)
  OBVIOUS
<1>17. CanEmit(cmds) /\ Emit(n, todo, cmds)
  BY <1>6, <1>10, <1>16
<1>18. ScheduleInv'
  <2>1. Range(SubSeq(todo, 1, n)) \subseteq S
    <3> HIDE DEF S
    <3>1. QED
      BY <1>2, FirstMembers
  <2>2. stray' \subseteq Ids
    BY <1>0, <1>6, <2>1 DEF TypeOK
  <2>3. QED
    BY <1>7, <1>14, <1>15, <1>17, <2>2, EmitKeeps
<1>19. ASSUME NEW k \in DOMAIN buffer' PROVE Collected(buffer'[k])
  <2>1. PICK c : c = buffer'[k]
    OBVIOUS
  <2>2. <<c.op, c.entity>> \in May
    BY <1>6, <1>10, <1>m, <1>19, <2>1 DEF Emit, Emits
  <2>3. /\ c.op \in CollectOps /\ c.entity \in Ids /\ active[c.entity] > 0
        /\ c.op = CollectCommands(c.entity)[1].op
        /\ c.op = "CompleteWork" => c.entity \in dropped
    BY <2>2
  <2>4. c.op = "CompleteWork" => active'[c.entity] = 0
    BY <1>13, <2>3
  <2>5. QED
    BY <2>1, <2>3, <2>4 DEF Collected
<1>20. QED
  BY <1>13, <1>18, <1>19

-----------------------------------------------------------------------------
(***************************************************************************)
(* Admission.                                                              *)
(***************************************************************************)

\* What each entity adds to the sum.
Charges(w, S) == [n \in 0 .. Len(w) |-> IF n \in S THEN Charge(w[n]) ELSE 0]

\* The model's sum is that of the present world.
LEMMA ReservedHere ==
  ASSUME NEW S
  PROVE  ReservedBy(S) = Reserved(world, S)
BY DEF ReservedBy, Reserved, tokens_of, Charge, Meta

\* What an entity reserves is a natural.
LEMMA ChargeType ==
  ASSUME NEW v \in Entities
  PROVE  Charge(v) \in Nat
BY DEF Charge, Entities, Metas, reserved_tokens

\* The sum is one of the charges.
LEMMA ReservedSums ==
  ASSUME NEW w \in Seq(Entities), NEW S
  PROVE  /\ Len(w) \in Nat /\ \A i \in 1 .. Len(w) : Charges(w, S)[i] \in Nat
         /\ \E f : Sums(f, Charges(w, S), Len(w)) /\ Reserved(w, S) = f[Len(w)]
<1>1. PICK m, c : m = Len(w) /\ c = Charges(w, S)
  OBVIOUS
<1>2. m \in Nat /\ \A i \in 0 .. m : c[i] = IF i \in S THEN Charge(w[i]) ELSE 0
  BY <1>1 DEF Charges
<1>3. \A i \in 1 .. m : c[i] \in Nat
  <2>1. \A i \in 1 .. m : w[i] \in Entities
    BY <1>1
  <2>2. \A i \in 1 .. m : Charge(w[i]) \in Nat
    BY <2>1, ChargeType
  <2>3. QED
    BY <1>2, <2>2
<1> DEFINE Is(f) == f = [n \in 0 .. Len(w) |->
                          IF n = 0 THEN 0 ELSE f[n - 1] + (IF n \in S THEN Charge(w[n]) ELSE 0)]
<1>4. Reserved(w, S) = (CHOOSE f : Is(f))[Len(w)]
  BY DEF Reserved
<1>5. ASSUME NEW f PROVE Is(f) <=> Sums(f, c, m)
  <2>1. \A n \in 0 .. m : (IF n = 0 THEN 0 ELSE f[n - 1] + (IF n \in S THEN Charge(w[n]) ELSE 0))
                            = IF n = 0 THEN 0 ELSE f[n - 1] + c[n]
    BY <1>2
  <2> DEFINE A(n) == IF n = 0 THEN 0 ELSE f[n - 1] + (IF n \in S THEN Charge(w[n]) ELSE 0)
             B(n) == IF n = 0 THEN 0 ELSE f[n - 1] + c[n]
  <2>2. \A n \in 0 .. m : A(n) = B(n)
    BY <2>1
  <2> HIDE DEF A, B
  <2>3. [n \in 0 .. m |-> A(n)] = [n \in 0 .. m |-> B(n)]
    BY <2>2
  <2>4. QED
    BY <1>1, <2>3 DEF A, B, Sums
<1> HIDE DEF Is
<1>6. PICK f : Sums(f, c, m)
  BY <1>2, SumsExist
<1>7. Is(CHOOSE g : Is(g))
  BY <1>5, <1>6
<1>8. PICK g : g = CHOOSE h : Is(h)
  OBVIOUS
<1>9. Sums(g, c, m) /\ Reserved(w, S) = g[m]
  BY <1>1, <1>4, <1>5, <1>7, <1>8
<1>10. QED
  BY <1>1, <1>2, <1>3, <1>9

\* It is a natural.
LEMMA ReservedType ==
  ASSUME NEW w \in Seq(Entities), NEW S
  PROVE  Reserved(w, S) \in Nat
<1>1. PICK m, c : m = Len(w) /\ c = Charges(w, S)
  OBVIOUS
<1>2. m \in Nat /\ \A i \in 1 .. m : c[i] \in Nat
  BY <1>1, ReservedSums
<1>3. PICK f : Sums(f, c, m) /\ Reserved(w, S) = f[m]
  BY <1>1, ReservedSums
<1>4. \A i \in 0 .. m : f[i] \in Nat
  BY <1>2, <1>3, SumsNat
<1>5. QED
  BY <1>2, <1>3, <1>4

\* Less work, in a world that may have grown, reserves no more.
LEMMA ReservedBelow ==
  ASSUME NEW w \in Seq(Entities), NEW w2 \in Seq(Entities), NEW S, NEW S2, Len(w) <= Len(w2),
         \A n \in S2 : n \in S /\ n \in DOMAIN w /\ w2[n].meta = w[n].meta
  PROVE  Reserved(w2, S2) <= Reserved(w, S)
<1>1. PICK m, k, c, d : m = Len(w) /\ k = Len(w2) /\ c = Charges(w, S) /\ d = Charges(w2, S2)
  OBVIOUS
<1>2. m \in Nat /\ k \in Nat /\ (\A i \in 1 .. m : c[i] \in Nat) /\ \A i \in 1 .. k : d[i] \in Nat
  BY <1>1, ReservedSums
<1>3. PICK f : Sums(f, c, m) /\ Reserved(w, S) = f[m]
  BY <1>1, ReservedSums
<1>4. PICK g : Sums(g, d, k) /\ Reserved(w2, S2) = g[k]
  BY <1>1, ReservedSums
<1>5. /\ \A i \in 1 .. m : c[i] = IF i \in S THEN Charge(w[i]) ELSE 0
      /\ \A i \in 1 .. k : d[i] = IF i \in S2 THEN Charge(w2[i]) ELSE 0
  BY <1>1, <1>2 DEF Charges
<1>6. ASSUME NEW i \in 1 .. m PROVE d[i] <= c[i]
  <2>1. i \in 1 .. k /\ c[i] \in Nat
    BY <1>1, <1>2
  <2>2. CASE i \in S2
    <3>1. i \in S /\ Charge(w2[i]) = Charge(w[i])
      BY <2>2 DEF Charge
    <3>2. QED
      BY <1>5, <2>1, <2>2, <3>1
  <2>3. CASE i \notin S2
    BY <1>5, <2>1, <2>3
  <2>4. QED
    BY <2>2, <2>3
<1>7. \A i \in m + 1 .. k : d[i] = 0
  <2>1. \A i \in m + 1 .. k : i \in 1 .. k /\ i \notin S2
    BY <1>1, <1>2
  <2>2. QED
    BY <1>5, <2>1
<1>8. g[k] <= f[m]
  BY <1>1, <1>2, <1>3, <1>4, <1>6, <1>7, SumsBelow
<1>9. QED
  BY <1>3, <1>4, <1>8

\* One more item reserves no more than its own tokens on top.
LEMMA ReservedAdd ==
  ASSUME NEW w \in Seq(Entities), NEW S, NEW e \in DOMAIN w
  PROVE  Reserved(w, S \cup {e}) <= Reserved(w, S) + Charge(w[e])
<1>1. PICK m, c, d, t : m = Len(w) /\ c = Charges(w, S) /\ d = Charges(w, S \cup {e}) /\ t = Charge(w[e])
  OBVIOUS
<1>2. m \in Nat /\ e \in 1 .. m /\ \A i \in 1 .. m : c[i] \in Nat /\ d[i] \in Nat
  BY <1>1, ReservedSums
<1>3. PICK f : Sums(f, c, m) /\ Reserved(w, S) = f[m]
  BY <1>1, ReservedSums
<1>4. PICK g : Sums(g, d, m) /\ Reserved(w, S \cup {e}) = g[m]
  BY <1>1, ReservedSums
<1>5. \A i \in 1 .. m : /\ c[i] = IF i \in S THEN Charge(w[i]) ELSE 0
                        /\ d[i] = IF i \in S \cup {e} THEN Charge(w[i]) ELSE 0
  BY <1>1, <1>2 DEF Charges
<1>6. t \in Nat
  <2>1. w[e] \in Entities
    BY <1>1, <1>2
  <2>2. QED
    BY <1>1, <2>1, ChargeType
<1>7. d[e] <= c[e] + t
  <2>1. d[e] = t /\ c[e] \in Nat
    BY <1>1, <1>2, <1>5
  <2>2. QED
    BY <1>6, <2>1
<1>8. \A i \in 1 .. m : i # e => d[i] <= c[i]
  <2>1. \A i \in 1 .. m : i # e => d[i] = c[i]
    BY <1>5
  <2>2. QED
    BY <1>2, <2>1
<1>9. g[m] <= f[m] + t
  BY <1>2, <1>3, <1>4, <1>6, <1>7, <1>8, SumsAdd
<1>10. QED
  BY <1>1, <1>3, <1>4, <1>9

\* f goes through m rounds of Admit's loop, from z.
Loops(f, todo, z, m) ==
  f = [i \in 0 .. m |-> IF i = 0 THEN z ELSE AdmitOne(f[i - 1], todo[i])]

\* The function that goes through Admit's rounds exists.
LEMMA RoundsExist ==
  ASSUME NEW todo, NEW z, NEW m \in Nat
  PROVE  \E f : Loops(f, todo, z, m)
<1> DEFINE One(x, i) == AdmitOne(x, todo[i])
           Rec(f, n) == f = [i \in 0 .. n |-> IF i = 0 THEN z ELSE One(f[i - 1], i)]
           N == {n \in Nat : \E f : Rec(f, n)}
<1> HIDE DEF One
<1>1. 0 \in N
  <2>1. Rec([i \in 0 .. 0 |-> z], 0)
    OBVIOUS
  <2> HIDE DEF Rec
  <2>2. QED
    BY <2>1
<1>2. ASSUME NEW n \in Nat, n \in N PROVE n + 1 \in N
  <2>1. PICK f : Rec(f, n)
    BY <1>2
  <2>2. f[0] = z /\ \A i \in 1 .. n : f[i] = One(f[i - 1], i)
    BY <2>1
  <2> DEFINE g == [i \in 0 .. n + 1 |-> IF i <= n THEN f[i] ELSE One(f[i - 1], i)]
  <2>3. ASSUME NEW i \in 0 .. n + 1 PROVE g[i] = IF i = 0 THEN z ELSE One(g[i - 1], i)
    <3>1. CASE i = 0
      BY <2>2, <3>1
    <3>2. CASE i # 0
      <4>1. i - 1 \in 0 .. n /\ i \in 1 .. n + 1 /\ g[i - 1] = f[i - 1]
        BY <3>2
      <4>2. g[i] = One(f[i - 1], i)
        <5>1. CASE i <= n
          <6>1. g[i] = f[i] /\ i \in 1 .. n
            BY <4>1, <5>1
          <6> HIDE DEF g
          <6>2. QED
            BY <2>2, <6>1
        <5>2. CASE ~(i <= n)
          BY <5>2
        <5>3. QED
          BY <5>1, <5>2
      <4>3. QED
        BY <3>2, <4>1, <4>2
    <3>3. QED
      BY <3>1, <3>2
  <2>4. DOMAIN g = 0 .. n + 1 /\ g = [i \in DOMAIN g |-> g[i]]
    OBVIOUS
  <2> HIDE DEF g
  <2>5. Rec(g, n + 1)
    BY <2>3, <2>4
  <2> HIDE DEF Rec
  <2>6. QED
    BY <2>5
<1>3. Nat \subseteq N
  <2> HIDE DEF N
  <2>1. QED
    BY <1>1, <1>2, NatSetInduction
<1>4. QED
  BY <1>3 DEF One, Loops

\* The number of admissions left is within the capacity that is left.
LEMMA AvailableFits ==
  ASSUME TypeOK
  PROVE  /\ Available \in Nat /\ IsFiniteSet(ActiveWorks) /\ Cardinality(ActiveWorks) \in Nat
         /\ Available > 0 => Cardinality(ActiveWorks) + Available <= AdmissionCapacity
<1>1. IsFiniteSet(ActiveWorks) /\ Cardinality(ActiveWorks) \in Nat
  BY WorksFinite, FS_CardinalityType DEF ActiveWorks
<1>2. AdmissionCapacity \in Nat /\ MaxScan \in Nat
  BY LimitsAssumption
<1>3. PICK n : n = Cardinality(ActiveWorks)
  OBVIOUS
<1>4. CASE n >= AdmissionCapacity
  BY <1>1, <1>3, <1>4 DEF Available
<1>5. CASE ~(n >= AdmissionCapacity)
  <2>1. AdmissionCapacity - n \in Nat
    BY <1>1, <1>2, <1>3, <1>5
  <2>2. Min({AdmissionCapacity - n, MaxScan})
          = IF AdmissionCapacity - n <= MaxScan THEN AdmissionCapacity - n ELSE MaxScan
    BY <1>2, <2>1, MinOfTwo
  <2>3. Available = Min({AdmissionCapacity - n, MaxScan})
    BY <1>3, <1>5 DEF Available
  <2>4. QED
    BY <1>1, <1>2, <1>3, <2>1, <2>2, <2>3
<1>6. QED
  BY <1>4, <1>5

\* One more command, for an entity that has none yet.
LEMMA AppendCommand ==
  ASSUME NEW cmds \in Seq(Orders), Unrepeated(cmds), NEW c \in Orders,
         \A k \in DOMAIN cmds : cmds[k].entity # c.entity
  PROVE  /\ Append(cmds, c) \in Seq(Orders) /\ Unrepeated(Append(cmds, c))
         /\ \A k \in DOMAIN Append(cmds, c) :
              (k \in DOMAIN cmds /\ Append(cmds, c)[k] = cmds[k]) \/ Append(cmds, c)[k] = c
         /\ Targets(Append(cmds, c))
              = IF c.op = "AdmitWork" THEN Targets(cmds) \cup {c.entity} ELSE Targets(cmds)
<1>1. PICK t : t = Append(cmds, c)
  OBVIOUS
<1>2. /\ t \in Seq(Orders) /\ Len(cmds) \in Nat /\ DOMAIN cmds = 1 .. Len(cmds)
      /\ DOMAIN t = 1 .. Len(cmds) + 1
      /\ t[Len(cmds) + 1] = c /\ \A k \in 1 .. Len(cmds) : t[k] = cmds[k]
  BY <1>1
<1>3. \A k \in DOMAIN t : \/ k \in DOMAIN cmds /\ t[k] = cmds[k]
                          \/ k = Len(cmds) + 1 /\ t[k] = c
  BY <1>2
<1>4. Unrepeated(t)
  BY <1>3 DEF Unrepeated
<1>5. ASSUME NEW x PROVE x \in Targets(t) <=> x \in Targets(cmds) \/ (c.op = "AdmitWork" /\ x = c.entity)
  <2>1. x \in Targets(t) <=> \E k \in DOMAIN t : t[k].op = "AdmitWork" /\ x = t[k].entity
    BY DEF Targets
  <2>2. x \in Targets(cmds) <=> \E k \in DOMAIN cmds : cmds[k].op = "AdmitWork" /\ x = cmds[k].entity
    BY DEF Targets
  <2>3. \A k \in DOMAIN cmds : k \in DOMAIN t /\ t[k] = cmds[k]
    BY <1>2
  <2>4. Len(cmds) + 1 \in DOMAIN t /\ t[Len(cmds) + 1] = c
    BY <1>2
  <2>5. QED
    BY ONLY <1>3, <2>1, <2>2, <2>3, <2>4
<1>6. Targets(t) = IF c.op = "AdmitWork" THEN Targets(cmds) \cup {c.entity} ELSE Targets(cmds)
  <2>1. PICK A, B, y : A = Targets(t) /\ B = Targets(cmds) /\ y = c.entity
    OBVIOUS
  <2>2. \A x : x \in A <=> x \in B \/ (c.op = "AdmitWork" /\ x = y)
    BY <1>5, <2>1
  <2>3. CASE c.op = "AdmitWork"
    <3>1. A = B \cup {y}
      BY ONLY <2>2, <2>3
    <3>2. QED
      BY <2>1, <2>3, <3>1
  <2>4. CASE c.op # "AdmitWork"
    <3>1. A = B
      BY ONLY <2>2, <2>4
    <3>2. QED
      BY <2>1, <2>4, <3>1
  <2>5. QED
    BY <2>3, <2>4
<1>7. QED
  BY <1>1, <1>2, <1>3, <1>4, <1>6

\* What Admit's loop has gathered after i rounds.
Gathered(a, todo, i) ==
  /\ DOMAIN a = {"admitted", "reserved", "cmds"}
  /\ a.admitted \in 0 .. Available
  /\ a.cmds \in Seq(Orders) /\ Unrepeated(a.cmds)
  /\ \A k \in DOMAIN a.cmds :
       /\ a.cmds[k].op \in AdmissionOps
       /\ \E j \in 1 .. i : a.cmds[k].entity = todo[j]
  /\ IsFiniteSet(Targets(a.cmds)) /\ Cardinality(Targets(a.cmds)) <= a.admitted
  /\ a.reserved \in Nat /\ Reserved(world, ActiveWorks \cup Targets(a.cmds)) <= a.reserved
  /\ Infers(world, Targets(a.cmds)) => a.reserved <= MaxInflightTokens

\* One round keeps it.
LEMMA AdmitRound ==
  ASSUME TypeOK, NEW S \in SUBSET Works, NEW todo, Lists(todo, S), NEW i \in Nat, i + 1 \in DOMAIN todo,
         NEW a, Gathered(a, todo, i)
  PROVE  Gathered(AdmitOne(a, todo[i + 1]), todo, i + 1)
<1>0. Available \in Nat /\ todo \in Seq(S) /\ DOMAIN todo = 1 .. Len(todo) /\ Len(todo) \in Nat
  BY AvailableFits DEF Lists
<1>1. PICK e : e = todo[i + 1]
  OBVIOUS
<1>2. e \in Works /\ e \in Ids
  <2>1. todo[i + 1] \in S
    BY <1>0
  <2>2. Works \subseteq Ids
    BY WorksFinite
  <2>3. QED
    BY <1>1, <2>1, <2>2
<1>3. \A j \in 1 .. i : todo[j] # e /\ j \in 1 .. i + 1
  BY <1>0, <1>1 DEF Lists
<1>4. /\ DOMAIN a = {"admitted", "reserved", "cmds"} /\ a.admitted \in 0 .. Available
      /\ a.cmds \in Seq(Orders) /\ Unrepeated(a.cmds)
      /\ \A k \in DOMAIN a.cmds : /\ a.cmds[k].op \in AdmissionOps
                                 /\ \E j \in 1 .. i : a.cmds[k].entity = todo[j]
      /\ IsFiniteSet(Targets(a.cmds)) /\ Cardinality(Targets(a.cmds)) <= a.admitted
      /\ Cardinality(Targets(a.cmds)) \in Nat
      /\ a.reserved \in Nat /\ Reserved(world, ActiveWorks \cup Targets(a.cmds)) <= a.reserved
      /\ Infers(world, Targets(a.cmds)) => a.reserved <= MaxInflightTokens
  BY FS_CardinalityType DEF Gathered
<1>5. \A k \in DOMAIN a.cmds : a.cmds[k].entity # e /\ \E j \in 1 .. i + 1 : a.cmds[k].entity = todo[j]
  BY <1>3, <1>4
<1>6. i + 1 \in 1 .. i + 1
  OBVIOUS
<1>7. Gathered(a, todo, i + 1)
  BY <1>4, <1>5 DEF Gathered
<1>8. ASSUME NEW c \in Orders, c.op \in AdmissionOps, c.entity = e, NEW b,
             DOMAIN b = {"admitted", "reserved", "cmds"}, b.cmds = Append(a.cmds, c),
             b.admitted = (IF c.op = "AdmitWork" THEN a.admitted + 1 ELSE a.admitted),
             b.reserved = (IF c.op = "AdmitWork" THEN a.reserved + Charge(world[e]) ELSE a.reserved),
             c.op = "AdmitWork" /\ world[e].meta # NoMeta => b.reserved <= MaxInflightTokens,
             a.admitted < Available
      PROVE  Gathered(b, todo, i + 1)
  <2>1. /\ b.cmds \in Seq(Orders) /\ Unrepeated(b.cmds)
        /\ \A k \in DOMAIN b.cmds : (k \in DOMAIN a.cmds /\ b.cmds[k] = a.cmds[k]) \/ b.cmds[k] = c
        /\ Targets(b.cmds) = IF c.op = "AdmitWork" THEN Targets(a.cmds) \cup {e} ELSE Targets(a.cmds)
    <3>1. PICK q : q = a.cmds
      OBVIOUS
    <3>2. /\ q \in Seq(Orders) /\ Unrepeated(q) /\ c \in Orders
          /\ \A k \in DOMAIN q : q[k].entity # c.entity
      BY <1>4, <1>5, <1>8, <3>1
    <3>3. /\ Append(q, c) \in Seq(Orders) /\ Unrepeated(Append(q, c))
          /\ \A k \in DOMAIN Append(q, c) :
               (k \in DOMAIN q /\ Append(q, c)[k] = q[k]) \/ Append(q, c)[k] = c
          /\ Targets(Append(q, c))
               = IF c.op = "AdmitWork" THEN Targets(q) \cup {c.entity} ELSE Targets(q)
      BY ONLY <3>2, AppendCommand
    <3>4. PICK u : u = Append(q, c)
      OBVIOUS
    <3>5. b.cmds = u
      BY <1>8, <3>1, <3>4
    <3>6. QED
      BY ONLY <1>8, <3>1, <3>3, <3>4, <3>5
  <2>2. b.admitted \in 0 .. Available
    BY <1>0, <1>4, <1>8
  <2>3. \A k \in DOMAIN b.cmds : b.cmds[k].op \in AdmissionOps /\ \E j \in 1 .. i + 1 : b.cmds[k].entity = todo[j]
    BY <1>1, <1>4, <1>5, <1>6, <1>8, <2>1
  <2>4. IsFiniteSet(Targets(b.cmds)) /\ Cardinality(Targets(b.cmds)) <= b.admitted
    <3>1. CASE c.op = "AdmitWork"
      <4>1. /\ IsFiniteSet(Targets(a.cmds) \cup {e})
            /\ \/ Cardinality(Targets(a.cmds) \cup {e}) = Cardinality(Targets(a.cmds))
               \/ Cardinality(Targets(a.cmds) \cup {e}) = Cardinality(Targets(a.cmds)) + 1
        BY <1>4, FS_AddElement
      <4>2. QED
        BY <1>4, <1>8, <2>1, <3>1, <4>1
    <3>2. CASE c.op # "AdmitWork"
      BY <1>4, <1>8, <2>1, <3>2
    <3>3. QED
      BY <3>1, <3>2
  <2>5. /\ b.reserved \in Nat /\ Reserved(world, ActiveWorks \cup Targets(b.cmds)) <= b.reserved
        /\ Infers(world, Targets(b.cmds)) => b.reserved <= MaxInflightTokens
    <3>1. PICK A, T, U, k : /\ A = ActiveWorks \cup Targets(a.cmds) /\ T = Targets(a.cmds)
                            /\ U = Targets(b.cmds) /\ k = Charge(world[e])
      OBVIOUS
    <3>2. world \in Seq(Entities) /\ e \in DOMAIN world /\ world[e] \in Entities
      BY <1>2, TypesOf DEF Works
    <3>3. k \in Nat /\ Reserved(world, A) \in Nat /\ Reserved(world, A \cup {e}) \in Nat
      BY <3>1, <3>2, ChargeType, ReservedType
    <3>4. Reserved(world, A \cup {e}) <= Reserved(world, A) + k
      BY <3>1, <3>2, ReservedAdd
    <3>5. Reserved(world, A) <= a.reserved /\ a.reserved \in Nat
      BY <1>4, <3>1
    <3>6. CASE c.op = "AdmitWork"
      <4>1. U = T \cup {e} /\ ActiveWorks \cup U = A \cup {e} /\ b.reserved = a.reserved + k
        BY <1>8, <2>1, <3>1, <3>6
      <4>2. b.reserved \in Nat /\ Reserved(world, ActiveWorks \cup U) <= b.reserved
        <5>1. PICK x, y, h : x = Reserved(world, A \cup {e}) /\ y = Reserved(world, A) /\ h = a.reserved
          OBVIOUS
        <5>2. x \in Nat /\ y \in Nat /\ h \in Nat /\ k \in Nat /\ x <= y + k /\ y <= h
          BY <3>3, <3>4, <3>5, <5>1
        <5>3. h + k \in Nat /\ x <= h + k
          BY ONLY <5>2
        <5>4. QED
          BY <4>1, <5>1, <5>3
      <4>3. ASSUME Infers(world, U) PROVE b.reserved <= MaxInflightTokens
        <5>1. CASE world[e].meta # NoMeta
          BY <1>8, <3>6, <5>1
        <5>2. CASE world[e].meta = NoMeta
          <6>1. Infers(world, T)
            BY <4>1, <4>3, <5>2 DEF Infers
          <6>2. a.reserved <= MaxInflightTokens /\ k = 0
            BY <1>4, <3>1, <5>2, <6>1 DEF Charge
          <6>3. QED
            BY <3>5, <4>1, <6>2
        <5>3. QED
          BY <5>1, <5>2
      <4>4. QED
        BY <3>1, <4>2, <4>3
    <3>7. CASE c.op # "AdmitWork"
      BY <1>4, <1>8, <2>1, <3>7
    <3>8. QED
      BY <3>6, <3>7
  <2>6. QED
    BY <1>8, <2>1, <2>2, <2>3, <2>4, <2>5 DEF Gathered
<1>9. PICK r, t : r = AdmitOne(a, e) /\ t = Charge(world[e])
  OBVIOUS
<1>10. \/ r = a
       \/ a.admitted < Available /\ r = [a EXCEPT !.cmds = Append(a.cmds, CancelExpired(e))]
       \/ /\ a.admitted < Available
          /\ world[e].meta # NoMeta => a.reserved + t <= MaxInflightTokens
          /\ r = [admitted |-> a.admitted + 1, reserved |-> a.reserved + t,
                  cmds |-> Append(a.cmds, Order("AdmitWork", e))]
  <2>1. a.admitted < Available <=> ~(a.admitted >= Available)
    BY <1>0, <1>4
  <2>2. t = tokens_of(e) /\ Meta(e) = world[e].meta
    BY <1>9 DEF tokens_of, Charge, Meta
  <2>3. a.reserved + t <= MaxInflightTokens <=> ~(a.reserved + t > MaxInflightTokens)
    <3>1. world[e] \in Entities
      BY <1>2, TypesOf DEF Works
    <3>2. t \in Nat
      BY <1>9, <3>1, ChargeType
    <3>3. PICK h : h = a.reserved + t
      OBVIOUS
    <3>4. h \in Nat /\ MaxInflightTokens \in Nat
      BY <1>4, <3>2, <3>3, LimitsAssumption
    <3>5. h <= MaxInflightTokens <=> ~(h > MaxInflightTokens)
      BY ONLY <3>4
    <3>6. QED
      BY <3>3, <3>5
  <2>4. QED
    BY <1>9, <2>1, <2>2, <2>3 DEF AdmitOne
<1>11. CASE r = a
  BY <1>1, <1>7, <1>9, <1>11
<1>12. CASE a.admitted < Available /\ r = [a EXCEPT !.cmds = Append(a.cmds, CancelExpired(e))]
  <2>1. PICK c : c = CancelExpired(e)
    OBVIOUS
  <2>2. c \in Orders /\ c.op = "RequestCancellation" /\ c.entity = e
    BY <1>2, <2>1 DEF CancelExpired, Order, Command, Orders, ScheduleOps
  <2>3. /\ DOMAIN r = {"admitted", "reserved", "cmds"} /\ r.cmds = Append(a.cmds, c)
        /\ r.admitted = a.admitted /\ r.reserved = a.reserved
    BY <1>4, <1>12, <2>1
  <2>4. Gathered(r, todo, i + 1)
    BY <1>8, <1>12, <2>2, <2>3 DEF AdmissionOps
  <2>5. QED
    BY <1>1, <1>9, <2>4
<1>13. CASE /\ a.admitted < Available
            /\ world[e].meta # NoMeta => a.reserved + t <= MaxInflightTokens
            /\ r = [admitted |-> a.admitted + 1, reserved |-> a.reserved + t,
                    cmds |-> Append(a.cmds, Order("AdmitWork", e))]
  <2>1. PICK c : c = Order("AdmitWork", e)
    OBVIOUS
  <2>2. c \in Orders /\ c.op = "AdmitWork" /\ c.entity = e
    BY <1>2, <2>1 DEF Order, Command, Orders, ScheduleOps
  <2>3. /\ DOMAIN r = {"admitted", "reserved", "cmds"} /\ r.cmds = Append(a.cmds, c)
        /\ r.admitted = a.admitted + 1 /\ r.reserved = a.reserved + t
    BY <1>13, <2>1
  <2>4. Gathered(r, todo, i + 1)
    BY <1>8, <1>9, <1>13, <2>2, <2>3 DEF AdmissionOps
  <2>5. QED
    BY <1>1, <1>9, <2>4
<1>14. QED
  BY <1>10, <1>11, <1>12, <1>13

\* What Admit emits.
Admission(cmds) ==
  /\ CanEmit(cmds)
  /\ \A k \in DOMAIN cmds : cmds[k].op \in AdmissionOps
  /\ IsFiniteSet(Targets(cmds)) /\ Cardinality(Targets(cmds)) <= Available
  /\ Infers(world, Targets(cmds)) => Reserved(world, ActiveWorks \cup Targets(cmds)) <= MaxInflightTokens

\* Admit emits admissions that fit, and cancellations.
LEMMA AdmitEmits ==
  ASSUME TypeOK, Admit
  PROVE  \E n, todo, cmds : Emit(n, todo, cmds) /\ Admission(cmds)
<1>0. PlannedWorks \in SUBSET Works /\ Available \in Nat
  BY AvailableFits DEF PlannedWorks
<1>1. PICK S, z : S = PlannedWorks /\ z = [admitted |-> 0, reserved |-> ReservedTokens, cmds |-> <<>>]
  OBVIOUS
<1>2. PICK todo : todo = InPriorityOrder(PlannedWorks)
  OBVIOUS
<1>3. Lists(todo, S) /\ S \in SUBSET Works
  BY <1>0, <1>1, <1>2, InPriorityOrderLists
<1>4. todo \in Seq(S) /\ Len(todo) \in Nat /\ DOMAIN todo = 1 .. Len(todo)
  BY <1>3 DEF Lists
<1> DEFINE Rounds(t) == CHOOSE f : f = [i \in 0 .. Len(t) |->
                          IF i = 0 THEN [admitted |-> 0, reserved |-> ReservedTokens, cmds |-> <<>>]
                                   ELSE AdmitOne(f[i - 1], t[i])]
           Some(t) == \E n \in 0 .. Len(t) : Emit(n, t, Rounds(t)[n].cmds)
<1>5. PICK n \in 0 .. Len(todo) : Emit(n, todo, Rounds(todo)[n].cmds)
  <2>1. Some(InPriorityOrder(PlannedWorks))
    BY Zenon DEF Admit
  <2> HIDE DEF Some
  <2>2. Some(todo)
    BY <1>2, <2>1
  <2>3. QED
    BY <2>2 DEF Some
<1>6. PICK acc : acc = Rounds(todo)
  OBVIOUS
<1>7. acc = [i \in 0 .. Len(todo) |-> IF i = 0 THEN z ELSE AdmitOne(acc[i - 1], todo[i])]
  <2>1. acc = CHOOSE f : Loops(f, todo, z, Len(todo))
    BY <1>1, <1>6 DEF Loops
  <2>2. \E f : Loops(f, todo, z, Len(todo))
    BY <1>4, RoundsExist
  <2>3. Loops(acc, todo, z, Len(todo))
    BY <2>1, <2>2
  <2>4. QED
    BY <2>3 DEF Loops
<1> HIDE DEF Rounds
<1>8. acc[0] = z /\ \A i \in 1 .. Len(todo) : acc[i] = AdmitOne(acc[i - 1], todo[i])
  <2> DEFINE One(x, i) == AdmitOne(x, todo[i])
  <2>1. acc = [i \in 0 .. Len(todo) |-> IF i = 0 THEN z ELSE One(acc[i - 1], i)]
    BY <1>7
  <2> HIDE DEF One
  <2>2. acc[0] = z /\ \A i \in 1 .. Len(todo) : acc[i] = One(acc[i - 1], i)
    BY ONLY <1>4, <2>1
  <2>3. QED
    BY <2>2 DEF One
<1> DEFINE N == {i \in Nat : i <= Len(todo) => Gathered(acc[i], todo, i)}
<1>9. 0 \in N
  <2>1. Gathered(z, todo, 0)
    <3>1. DOMAIN z = {"admitted", "reserved", "cmds"} /\ z.admitted = 0 /\ z.cmds = <<>>
      BY <1>1
    <3>2. <<>> \in Seq(Orders) /\ DOMAIN <<>> = {} /\ Targets(<<>>) = {}
      BY DEF Targets
    <3>3. IsFiniteSet({}) /\ Cardinality({}) = 0 /\ Unrepeated(<<>>)
      BY <3>2, FS_EmptySet DEF Unrepeated
    <3>4. 0 \in 0 .. Available
      BY <1>0
    <3>5. \A k \in DOMAIN z.cmds : FALSE
      BY <3>1, <3>2
    <3>6. /\ z.cmds \in Seq(Orders) /\ Unrepeated(z.cmds) /\ z.admitted \in 0 .. Available
          /\ IsFiniteSet(Targets(z.cmds)) /\ Cardinality(Targets(z.cmds)) <= z.admitted
      <4>1. z.cmds \in Seq(Orders) /\ Unrepeated(z.cmds) /\ z.admitted \in 0 .. Available
        BY <3>1, <3>2, <3>3, <3>4
      <4>2. Targets(z.cmds) = {} /\ 0 <= 0
        BY <3>1, <3>2
      <4>3. QED
        BY <3>1, <3>3, <4>1, <4>2
    <3>7. /\ z.reserved \in Nat /\ Reserved(world, ActiveWorks \cup Targets(z.cmds)) <= z.reserved
          /\ ~Infers(world, Targets(z.cmds))
      <4>1. z.reserved = Reserved(world, ActiveWorks) /\ Reserved(world, ActiveWorks) \in Nat
        BY <1>1, TypesOf, ReservedHere, ReservedType DEF ReservedTokens
      <4>2. Targets(z.cmds) = {} /\ ActiveWorks \cup {} = ActiveWorks
        BY <3>1, <3>2
      <4>3. QED
        BY <4>1, <4>2 DEF Infers
    <3>8. QED
      BY ONLY <3>1, <3>5, <3>6, <3>7 DEF Gathered
  <2>2. QED
    BY <1>8, <2>1
<1>10. ASSUME NEW i \in Nat, i \in N PROVE i + 1 \in N
  <2>1. ASSUME i + 1 <= Len(todo) PROVE Gathered(acc[i + 1], todo, i + 1)
    <3>1. i + 1 \in 1 .. Len(todo) /\ (i + 1) - 1 = i /\ i <= Len(todo)
      BY <1>4, <2>1
    <3>2. Gathered(acc[i], todo, i) /\ acc[i + 1] = AdmitOne(acc[i], todo[i + 1])
      BY <1>8, <1>10, <3>1
    <3>3. QED
      BY <1>3, <1>4, <3>1, <3>2, AdmitRound
  <2>2. QED
    BY <2>1
<1>11. Nat \subseteq N
  <2> HIDE DEF N
  <2>1. QED
    BY <1>9, <1>10, NatSetInduction
<1>12. PICK a : a = acc[n]
  OBVIOUS
<1>13. n \in Nat /\ n <= Len(todo) /\ Gathered(a, todo, n)
  BY <1>4, <1>11, <1>12
<1>14. PICK cmds : cmds = a.cmds
  OBVIOUS
<1>15. /\ cmds \in Seq(Orders) /\ Unrepeated(cmds)
       /\ \A k \in DOMAIN cmds : cmds[k].op \in AdmissionOps /\ \E j \in 1 .. n : cmds[k].entity = todo[j]
       /\ IsFiniteSet(Targets(cmds)) /\ Cardinality(Targets(cmds)) <= a.admitted
       /\ a.admitted \in 0 .. Available
  BY <1>13, <1>14 DEF Gathered
<1>16. \A k \in DOMAIN cmds : cmds[k].entity \in Works
  <2>1. \A j \in 1 .. n : todo[j] \in Works
    BY <1>3, <1>4, <1>13
  <2>2. QED
    BY <1>15, <2>1
<1>17. \A k \in DOMAIN cmds : Sound(cmds[k])
  BY <1>15, <1>16 DEF Sound, StillTrue, AdmissionOps
<1>18. Cardinality(Targets(cmds)) <= Available
  <2>1. Cardinality(Targets(cmds)) \in Nat
    BY <1>15, FS_CardinalityType
  <2>2. QED
    BY <1>0, <1>15, <2>1
<1>19. Admission(cmds)
  <2>1. ASSUME Infers(world, Targets(cmds))
        PROVE  Reserved(world, ActiveWorks \cup Targets(cmds)) <= MaxInflightTokens
    <3>1. PICK k : k = Reserved(world, ActiveWorks \cup Targets(cmds))
      OBVIOUS
    <3>2. a.reserved \in Nat /\ k <= a.reserved /\ a.reserved <= MaxInflightTokens /\ k \in Nat
      BY <1>13, <1>14, <2>1, <3>1, TypesOf, ReservedType DEF Gathered
    <3>3. MaxInflightTokens \in Nat
      BY LimitsAssumption
    <3>4. PICK h : h = a.reserved
      OBVIOUS
    <3>5. k <= MaxInflightTokens
      <4>1. h \in Nat /\ k \in Nat /\ k <= h /\ h <= MaxInflightTokens
        BY <3>2, <3>4
      <4>2. QED
        BY ONLY <3>3, <4>1
    <3>6. QED
      BY <3>1, <3>5
  <2>2. QED
    BY <1>15, <1>17, <1>18, <2>1 DEF Admission, CanEmit
<1>20. Emit(n, todo, cmds)
  BY <1>5, <1>6, <1>12, <1>14
<1>21. QED
  BY <1>19, <1>20

\* The stage Admit.
LEMMA AdmitKeeps ==
  ASSUME ScheduleInv, Admit
  PROVE  ScheduleInv'
<1>1. PICK n, todo, cmds : Emit(n, todo, cmds) /\ Admission(cmds)
  BY AdmitEmits DEF ScheduleInv
<1>2. /\ buffer = <<>> /\ UNCHANGED <<world, leases, lease_step, active, job, stray, expired>>
  BY DEF Admit, AtStage, dispatchVars
<1>3. HandlesLive' /\ active' \in [Ids -> Nat] /\ job' \in [Ids -> Jobs] /\ stray' \subseteq Ids
  BY <1>2 DEF ScheduleInv, HandlesLive, Works, Has, TypeOK
<1>4. QED
  BY <1>1, <1>2, <1>3, EmitKeeps DEF Admission

-----------------------------------------------------------------------------
(***************************************************************************)
(* The invariant and what follows from it.                                 *)
(***************************************************************************)

\* The invariant holds at the start.
LEMMA ScheduleInvInit ==
  ASSUME Init
  PROVE  ScheduleInv
<1>1. world = <<>> /\ buffer = <<>> /\ leases = {} /\ Works = {} /\ DOMAIN buffer = {}
  BY DEF Init, Works
<1>2. world \in Seq(Entities) /\ Len(world) <= MaxWorks
  BY <1>1, LimitsAssumption
<1>3. active \in [Ids -> Nat] /\ job \in [Ids -> Jobs] /\ \A e \in Ids : ~(active[e] > 0)
  BY DEF Init, Jobs
<1>4. TypeOK
  <2>1. faults \in 0 .. MaxFaults
    BY LimitsAssumption DEF Init
  <2>2. stage \in DOMAIN After
    BY Stages DEF Init
  <2>3. /\ leases \subseteq Ids /\ expired \subseteq Ids /\ stray \subseteq Ids /\ late \in BOOLEAN
        /\ lease_step \in {"none", "granted", "released"}
    BY DEF Init
  <2>4. QED
    BY <1>1, <1>2, <1>3, <2>1, <2>2, <2>3 DEF TypeOK
<1>5. ProgressConserved /\ HandlesLive
  BY <1>1, <1>3 DEF ProgressConserved, HandlesLive
<1>6. Buffered
  <2>1. buffer \in Seq(Orders)
    BY <1>1
  <2>2. QED
    BY <1>1, <2>1 DEF Buffered, Unrepeated
<1>7. HalfDone /\ LeasesHeld
  BY <1>1 DEF Init, HalfDone, LeasesHeld
<1>8. QED
  BY <1>4, <1>5, <1>6, <1>7 DEF ScheduleInv

\* Every step keeps it.
LEMMA ScheduleInvNext ==
  ASSUME ScheduleInv, [Next]_vars
  PROVE  ScheduleInv'
<1>1. CASE UNCHANGED vars
  BY <1>1 DEF vars, ScheduleInv, TypeOK, ProgressConserved, Buffered, HalfDone, LeasesHeld, HandlesLive,
              Works, Meta, Has, InState, Target, Unrepeated, StillTrue
<1>2. CASE RunStage
  BY <1>2, ObserveKeeps, PlanKeeps, AdmitKeeps, LeaseKeeps, DispatchKeeps, CollectKeeps,
     PublishKeeps, CleanupKeeps DEF RunStage
<1>3. CASE SubmitNext
  BY <1>3, SubmitCommandKeeps, CoordinatorKeeps, FinishLeaseKeeps DEF SubmitNext, FinishLease
<1>4. CASE FinishLeaseFault
  BY <1>4, FinishLeaseKeeps DEF FinishLeaseFault
<1>5. CASE SubmitFails \/ TickDeadline
  BY <1>5, EndedTickKeeps
<1>6. CASE \E claim \in Claims : CreateWork(claim)
  BY <1>6, CreateWorkKeeps
<1>7. CASE \E e \in Works : RequestCancellation(e)
  BY <1>7, CancellationKeeps
<1>8. CASE \E e \in Ids, outcome \in {"completed", "failed"} : DispatchEnds(e, outcome)
  BY <1>8, DispatchEndsKeeps
<1>9. CASE \/ BeginTick
           \/ \E e \in stray : StrayEnds(e)
           \/ \E e \in Works : DeadlinePasses(e)
           \/ \E e \in leases : LeaseExpires(e)
  BY <1>9, OutsideKeeps
<1>10. QED
  BY <1>1, <1>2, <1>3, <1>4, <1>5, <1>6, <1>7, <1>8, <1>9 DEF Next, Tick, Client, Environment

\* So it always holds.
LEMMA ScheduleInvHolds == Spec => []ScheduleInv
<1>1. Init => ScheduleInv
  BY ScheduleInvInit
<1>2. ScheduleInv /\ [Next]_vars => ScheduleInv'
  BY ScheduleInvNext
<1>3. QED
  BY <1>1, <1>2, PTL DEF Spec

-----------------------------------------------------------------------------
(***************************************************************************)
(* The capacity.                                                           *)
(***************************************************************************)

\* What the buffer admits is work that is there.
LEMMA TargetsAreWorks ==
  ASSUME ScheduleInv
  PROVE  /\ Targets(buffer) \subseteq Works
         /\ IsFiniteSet(ActiveWorks \cup Targets(buffer))
<1>1. \A i \in DOMAIN buffer : buffer[i].entity \in Works
  BY DEF ScheduleInv, Buffered, StillTrue
<1>2. Targets(buffer) \subseteq Works
  BY <1>1 DEF Targets
<1>3. ActiveWorks \cup Targets(buffer) \in SUBSET Works
  BY <1>2 DEF ActiveWorks
<1>4. QED
  BY <1>2, <1>3, WorksFinite DEF ScheduleInv

\* Less to admit, and nothing active that was not counted before.
LEMMA FitsStill ==
  ASSUME ScheduleInv, AdmitsFit, Targets(buffer') \subseteq Targets(buffer),
         world' \in Seq(Entities), Len(world) <= Len(world'),
         Targets(buffer) # {} => /\ ActiveWorks' \subseteq ActiveWorks \cup Targets(buffer)
                                 /\ \A i \in DOMAIN buffer' : buffer'[i].op \in AdmissionOps
                                 /\ \A e \in Works : world'[e].meta = world[e].meta
  PROVE  /\ AdmitsFit'
         /\ Infers(world, Targets(buffer)) => ReservedTokens' <= MaxInflightTokens
<1>1. CASE Targets(buffer) = {}
  BY <1>1 DEF AdmitsFit, Infers
<1>2. CASE Targets(buffer) # {}
  <2>1. PICK A, B : A = ActiveWorks \cup Targets(buffer) /\ B = (ActiveWorks \cup Targets(buffer))'
    OBVIOUS
  <2>2. B \subseteq A /\ IsFiniteSet(A)
    BY <1>2, <2>1, TargetsAreWorks
  <2>3. Cardinality(B) <= Cardinality(A) /\ Cardinality(A) \in Nat /\ Cardinality(B) \in Nat
    BY <2>2, FS_Subset, FS_CardinalityType
  <2>4. Cardinality(A) <= AdmissionCapacity
    BY <1>2, <2>1 DEF AdmitsFit
  <2>5. Cardinality(B) <= AdmissionCapacity
    BY <2>3, <2>4, LimitsAssumption
  <2>6. world \in Seq(Entities) /\ A \subseteq DOMAIN world /\ MaxInflightTokens \in Nat
    BY <2>1, TargetsAreWorks, TypesOf, LimitsAssumption DEF ScheduleInv, ActiveWorks, Works
  <2>7. ASSUME NEW C, C \subseteq A, Infers(world, Targets(buffer))
        PROVE  Reserved(world', C) <= MaxInflightTokens
    <3>1. Reserved(world, A) <= MaxInflightTokens
      BY <1>2, <2>1, <2>7 DEF AdmitsFit
    <3>2. \A n \in C : n \in A /\ n \in DOMAIN world /\ world'[n].meta = world[n].meta
      BY <1>2, <2>6, <2>7 DEF Works
    <3>3. PICK w2 : w2 = world'
      OBVIOUS
    <3>4. Reserved(w2, C) <= Reserved(world, A)
      BY <2>6, <3>2, <3>3, ReservedBelow
    <3>5. Reserved(w2, C) \in Nat /\ Reserved(world, A) \in Nat
      BY <2>6, <3>3, ReservedType
    <3>6. Reserved(w2, C) <= MaxInflightTokens
      BY ONLY <2>6, <3>1, <3>4, <3>5
    <3>7. QED
      BY <3>3, <3>6
  <2>8. Infers(world', Targets(buffer')) => Infers(world, Targets(buffer))
    <3>1. Targets(buffer) \subseteq Works
      BY TargetsAreWorks
    <3>2. QED
      BY <1>2, <3>1 DEF Infers
  <2>9. AdmitsFit'
    BY <1>2, <2>1, <2>2, <2>5, <2>7, <2>8 DEF AdmitsFit
  <2>10. ASSUME Infers(world, Targets(buffer)) PROVE ReservedTokens' <= MaxInflightTokens
    <3>1. PICK C : C = ActiveWorks'
      OBVIOUS
    <3>2. ReservedTokens' = Reserved(world', C)
      BY <3>1 DEF ReservedTokens, ReservedBy, Reserved, tokens_of, Charge, Meta
    <3>3. C \subseteq A
      BY <1>2, <2>1, <3>1
    <3>4. QED
      BY <2>7, <2>10, <3>2, <3>3
  <2>11. QED
    BY <2>9, <2>10
<1>3. QED
  BY <1>1, <1>2

\* What the rest of the buffer admits, and what nothing admits.
LEMMA TargetsShrink ==
  ASSUME ScheduleInv, buffer # <<>>, buffer' = Tail(buffer) \/ buffer' = <<>>
  PROVE  /\ Targets(buffer') \subseteq Targets(buffer)
         /\ \A i \in DOMAIN buffer' : \E j \in DOMAIN buffer : buffer'[i] = buffer[j]
<1>1. buffer \in Seq(Orders)
  BY DEF ScheduleInv, Buffered
<1>2. \A i \in DOMAIN buffer' : \E j \in DOMAIN buffer : buffer'[i] = buffer[j]
  <2>1. CASE buffer' = Tail(buffer)
    BY <1>1, <2>1, TailOf
  <2>2. CASE buffer' = <<>>
    BY <2>2
  <2>3. QED
    BY <2>1, <2>2
<1>3. QED
  BY <1>2 DEF Targets

\* A command of Admit's that runs makes active only what it admits.
LEMMA ActiveAfter ==
  ASSUME ScheduleInv, NEW c \in Orders, StillTrue(c), Touched(c), c.op \in AdmissionOps
  PROVE  /\ ActiveWorks' \subseteq ActiveWorks \cup {c.entity}
         /\ c.op = "RequestCancellation" => ActiveWorks' \subseteq ActiveWorks
         /\ \A e \in Works : world'[e].meta = world[e].meta
         /\ \A e \in NewlyAdmitted : e = c.entity
<1>1. PICK v2 : Touches(c, world[c.entity], v2) /\ world' = [world EXCEPT ![c.entity] = v2]
  BY DEF Touched
<1>2. c.entity \in Works /\ Works' = Works /\ world \in Seq(Entities)
  BY <1>1, WorldStep, TypesOf DEF StillTrue, ScheduleInv
<1>3. world'[c.entity] = v2 /\ \A x \in Works : x # c.entity => world'[x] = world[x]
  BY <1>1, <1>2 DEF Works
<1>4. ASSUME NEW e \in ActiveWorks', e # c.entity PROVE e \in ActiveWorks
  BY <1>2, <1>3, <1>4 DEF ActiveWorks, InState, Has
<1>5. ASSUME c.op = "RequestCancellation", c.entity \in ActiveWorks' PROVE c.entity \in ActiveWorks
  <2>1. v2.state \in {"Ready", "Leased"} /\ "AdmittedMarker" \in v2.comps
    BY <1>3, <1>5 DEF ActiveWorks, InState, Has
  <2>2. v2.comps = world[c.entity].comps /\ v2.state \in {world[c.entity].state, "Cancelled"}
    BY <1>1, <1>5 DEF Touches
  <2>3. QED
    BY <1>2, <2>1, <2>2 DEF ActiveWorks, InState, Has
<1>6. v2.meta = world[c.entity].meta
  BY <1>1 DEF Touches, AdmissionOps
<1>7. \A e \in NewlyAdmitted : e = c.entity
  BY <1>3 DEF NewlyAdmitted
<1>8. QED
  BY <1>3, <1>4, <1>5, <1>6, <1>7

\* It keeps the world a sequence of as many entities.
LEMMA WorldAfter ==
  ASSUME ScheduleInv, NEW c \in Orders, StillTrue(c), Touched(c)
  PROVE  world' \in Seq(Entities) /\ Len(world) <= Len(world')
<1>1. PICK v2 : Touches(c, world[c.entity], v2) /\ world' = [world EXCEPT ![c.entity] = v2]
  BY DEF Touched
<1>2. world' \in Seq(Entities) /\ Len(world') = Len(world)
  BY <1>1, WorldStep
<1>3. world \in Seq(Entities)
  BY TypesOf DEF ScheduleInv
<1>4. QED
  BY <1>2, <1>3

\* Work gets the marker only when the head of the buffer admits it.
LEMMA MarkerFrom ==
  ASSUME ScheduleInv, NEW c \in Orders, StillTrue(c), Touched(c), c.op # "AdmitWork"
  PROVE  NewlyAdmitted = {}
<1>1. PICK v2 : Touches(c, world[c.entity], v2) /\ world' = [world EXCEPT ![c.entity] = v2]
  BY DEF Touched
<1>2. world \in Seq(Entities) /\ c.entity \in Works
  BY TypesOf DEF StillTrue, ScheduleInv
<1>3. world'[c.entity] = v2 /\ \A x \in Works : x # c.entity => world'[x] = world[x]
  BY <1>1, <1>2 DEF Works
<1>4. "AdmittedMarker" \in v2.comps => "AdmittedMarker" \in world[c.entity].comps
  BY <1>1 DEF Touches
<1>5. QED
  BY <1>3, <1>4 DEF NewlyAdmitted

\* SubmitCommand: the work it admits was counted when it was emitted.
LEMMA SubmitFits ==
  ASSUME ScheduleInv, AdmitsFit, SubmitCommand
  PROVE  /\ AdmitsFit'
         /\ NewlyAdmitted # {} => Cardinality(ActiveWorks') <= AdmissionCapacity
         /\ Infers(world, NewlyAdmitted) => ReservedTokens' <= MaxInflightTokens
<1>1. PICK c \in Orders : /\ buffer # <<>> /\ c = Head(buffer) /\ c.op \notin LeaseOps
                         /\ StillTrue(c) /\ Touched(c)
  BY SubmitTouches
<1>2. buffer' = Tail(buffer)
  BY DEF SubmitCommand, Pop
<1>3. /\ Targets(buffer') \subseteq Targets(buffer)
      /\ \A i \in DOMAIN buffer' : \E j \in DOMAIN buffer : buffer'[i] = buffer[j]
  BY <1>1, <1>2, TargetsShrink
<1>4. c = buffer[1] /\ 1 \in DOMAIN buffer
  BY <1>1, TailOf DEF ScheduleInv, Buffered
<1>5. c.op = "AdmitWork" => c.entity \in Targets(buffer)
  BY <1>4 DEF Targets
<1>6. ASSUME Targets(buffer) # {}
      PROVE  /\ ActiveWorks' \subseteq ActiveWorks \cup Targets(buffer)
             /\ \A i \in DOMAIN buffer' : buffer'[i].op \in AdmissionOps
             /\ \A e \in Works : world'[e].meta = world[e].meta
             /\ \A e \in NewlyAdmitted : e = c.entity
  <2>1. \A i \in DOMAIN buffer : buffer[i].op \in AdmissionOps
    BY <1>6 DEF AdmitsFit
  <2>2. c.op \in AdmissionOps
    BY <1>4, <2>1
  <2>3. /\ ActiveWorks' \subseteq ActiveWorks \cup {c.entity}
        /\ c.op = "RequestCancellation" => ActiveWorks' \subseteq ActiveWorks
        /\ \A e \in Works : world'[e].meta = world[e].meta
        /\ \A e \in NewlyAdmitted : e = c.entity
    BY <1>1, <2>2, ActiveAfter
  <2>4. ActiveWorks' \subseteq ActiveWorks \cup Targets(buffer)
    BY <1>5, <2>2, <2>3 DEF AdmissionOps
  <2>5. QED
    BY <1>3, <2>1, <2>3, <2>4
<1>7. AdmitsFit' /\ (Infers(world, Targets(buffer)) => ReservedTokens' <= MaxInflightTokens)
  BY <1>1, <1>3, <1>6, WorldAfter, FitsStill
<1>8. ASSUME NewlyAdmitted # {} PROVE Cardinality(ActiveWorks') <= AdmissionCapacity
  <2>1. c.op = "AdmitWork"
    BY <1>1, <1>8, MarkerFrom
  <2>2. Targets(buffer) # {}
    BY <1>5, <2>1
  <2>3. PICK A, B : A = ActiveWorks \cup Targets(buffer) /\ B = ActiveWorks'
    OBVIOUS
  <2>4. B \subseteq A /\ IsFiniteSet(A)
    BY <1>6, <2>2, <2>3, TargetsAreWorks
  <2>5. Cardinality(B) <= Cardinality(A) /\ Cardinality(A) \in Nat /\ Cardinality(B) \in Nat
    BY <2>4, FS_Subset, FS_CardinalityType
  <2>6. Cardinality(A) <= AdmissionCapacity
    BY <2>2, <2>3 DEF AdmitsFit
  <2>7. QED
    BY <2>3, <2>5, <2>6, LimitsAssumption
<1>9. Infers(world, NewlyAdmitted) => Infers(world, Targets(buffer))
  <2>1. NewlyAdmitted # {} => c.entity \in Targets(buffer) /\ \A e \in NewlyAdmitted : e = c.entity
    BY <1>1, <1>5, <1>6, MarkerFrom
  <2>2. QED
    BY <2>1 DEF Infers
<1>10. QED
  BY <1>7, <1>8, <1>9

\* Admit: what it emits fits what it saw.
LEMMA AdmitFits ==
  ASSUME ScheduleInv, Admit
  PROVE  AdmitsFit'
<1>1. PICK n, todo, cmds : Emit(n, todo, cmds) /\ Admission(cmds)
  BY AdmitEmits DEF ScheduleInv
<1>2. buffer' = cmds /\ UNCHANGED world
  BY <1>1 DEF Emit, Admit
<1>3. ActiveWorks' = ActiveWorks
  BY <1>2 DEF ActiveWorks, Works, InState, Has
<1>4. /\ \A k \in DOMAIN cmds : cmds[k].op \in AdmissionOps
      /\ IsFiniteSet(Targets(cmds)) /\ Cardinality(Targets(cmds)) <= Available
      /\ Infers(world, Targets(cmds)) => Reserved(world, ActiveWorks \cup Targets(cmds)) <= MaxInflightTokens
  BY <1>1 DEF Admission
<1>5. ASSUME Targets(cmds) # {} PROVE Cardinality(ActiveWorks \cup Targets(cmds)) <= AdmissionCapacity
  <2>1. PICK A, T : A = ActiveWorks /\ T = Targets(cmds)
    OBVIOUS
  <2>2. /\ Available \in Nat /\ IsFiniteSet(A) /\ Cardinality(A) \in Nat
        /\ Available > 0 => Cardinality(A) + Available <= AdmissionCapacity
    BY <2>1, AvailableFits DEF ScheduleInv
  <2>3. IsFiniteSet(T) /\ Cardinality(T) \in Nat /\ Cardinality(T) <= Available /\ T # {}
    BY <1>4, <1>5, <2>1, FS_CardinalityType
  <2>4. Cardinality(T) > 0
    BY <2>3, FS_EmptySet
  <2>5. /\ IsFiniteSet(A \cup T) /\ Cardinality(A \cup T) \in Nat
        /\ Cardinality(A \cup T) <= Cardinality(A) + Cardinality(T)
    <3>1. /\ IsFiniteSet(A \cup T)
          /\ Cardinality(A \cup T) = Cardinality(A) + Cardinality(T) - Cardinality(A \cap T)
      BY <2>2, <2>3, FS_Union
    <3>2. IsFiniteSet(A \cap T) /\ Cardinality(A \cap T) \in Nat /\ Cardinality(A \cup T) \in Nat
      BY <2>2, <3>1, FS_Intersection, FS_CardinalityType
    <3>3. QED
      BY <2>2, <2>3, <3>1, <3>2
  <2>6. Cardinality(A \cup T) <= AdmissionCapacity
    BY <2>2, <2>3, <2>4, <2>5, LimitsAssumption
  <2>7. QED
    BY <2>1, <2>6
<1>6. QED
  BY <1>2, <1>3, <1>4, <1>5 DEF AdmitsFit

\* The steps that neither admit nor emit.
LEMMA QuietFits ==
  ASSUME ScheduleInv, AdmitsFit, UNCHANGED world, buffer' = buffer \/ buffer' = <<>>
  PROVE  AdmitsFit' /\ NewlyAdmitted = {} /\ ~Infers(world, NewlyAdmitted)
<1>1. ActiveWorks' = ActiveWorks /\ NewlyAdmitted = {} /\ ~Infers(world, NewlyAdmitted)
  BY DEF ActiveWorks, Works, InState, Has, NewlyAdmitted, Infers
<1>2. CASE buffer' = buffer
  BY <1>1, <1>2 DEF AdmitsFit
<1>3. CASE buffer' = <<>>
  <2>1. Targets(buffer') = {}
    BY <1>3 DEF Targets
  <2>2. QED
    BY <1>1, <2>1 DEF AdmitsFit
<1>4. QED
  BY <1>2, <1>3

\* A stage that admits nothing.
LEMMA NothingFits ==
  ASSUME \A k \in DOMAIN buffer' : buffer'[k].op # "AdmitWork", UNCHANGED world
  PROVE  AdmitsFit' /\ NewlyAdmitted = {} /\ ~Infers(world, NewlyAdmitted)
<1>1. Targets(buffer') = {}
  BY DEF Targets
<1>2. NewlyAdmitted = {} /\ ~Infers(world, NewlyAdmitted)
  BY DEF NewlyAdmitted, Works, Infers
<1>3. QED
  BY <1>1, <1>2 DEF AdmitsFit

\* Only Admit admits.
LEMMA StagesAdmitNone ==
  ASSUME ScheduleInv, Observe \/ Plan \/ Lease \/ Dispatch \/ Collect \/ Publish \/ Cleanup
  PROVE  \A k \in DOMAIN buffer' : buffer'[k].op # "AdmitWork"
<1>1. CASE Observe
  BY <1>1, ObserveKeeps DEF Emits
<1>2. CASE Plan
  BY <1>2, PlanKeeps DEF Emits
<1>3. CASE Lease
  BY <1>3, LeaseKeeps DEF Emits
<1>4. CASE Dispatch
  BY <1>4, DispatchKeeps DEF Emits, DispatchOps
<1>5. CASE Collect
  BY <1>5, CollectKeeps DEF Collected, CollectOps
<1>6. CASE Publish
  BY <1>6, PublishKeeps DEF Emits
<1>7. CASE Cleanup
  BY <1>7, CleanupKeeps DEF Emits, CleanupOps
<1>8. QED
  BY <1>1, <1>2, <1>3, <1>4, <1>5, <1>6, <1>7

\* Every step keeps the admissions within the capacity and the tokens.
LEMMA AdmitsFitNext ==
  ASSUME ScheduleInv, AdmitsFit, [Next]_vars
  PROVE  /\ AdmitsFit'
         /\ NewlyAdmitted # {} => Cardinality(ActiveWorks') <= AdmissionCapacity
         /\ Infers(world, NewlyAdmitted) => ReservedTokens' <= MaxInflightTokens
<1>1. CASE UNCHANGED vars
  BY <1>1, QuietFits DEF vars
<1>2. CASE SubmitCommand
  BY <1>2, SubmitFits
<1>3. CASE Admit
  <2>1. NewlyAdmitted = {} /\ ~Infers(world, NewlyAdmitted)
    BY <1>3 DEF Admit, NewlyAdmitted, Works, Infers
  <2>2. QED
    BY <1>3, <2>1, AdmitFits
<1>4. CASE Observe \/ Plan \/ Lease \/ Dispatch \/ Collect \/ Publish \/ Cleanup
  <2>1. \A k \in DOMAIN buffer' : buffer'[k].op # "AdmitWork"
    BY <1>4, StagesAdmitNone
  <2>2. UNCHANGED world
    BY <1>4 DEF Observe, Plan, Lease, Dispatch, Collect, Publish, Cleanup
  <2>3. QED
    BY <2>1, <2>2, NothingFits
<1>5. CASE FinishLease \/ FinishLeaseFault
  <2>1. SetLeaseState /\ (buffer' = Tail(buffer) \/ buffer' = <<>>)
    BY <1>5 DEF FinishLease, FinishLeaseFault, Pop, Abort
  <2>2. PICK c \in Orders : /\ buffer # <<>> /\ c = Head(buffer) /\ StillTrue(c) /\ Touched(c)
                           /\ c.op \in {"AcquireWorkLease", "ReleaseWorkLease"}
    BY <2>1, LeaseTouches
  <2>3. NewlyAdmitted = {}
    BY <2>2, MarkerFrom
  <2>4. Targets(buffer') \subseteq Targets(buffer)
    BY <2>1, <2>2, TargetsShrink
  <2>5. Targets(buffer) = {}
    <3>1. buffer[1] = c /\ 1 \in DOMAIN buffer
      BY <2>2, TailOf DEF ScheduleInv, Buffered
    <3>2. QED
      BY <2>2, <3>1 DEF AdmitsFit, AdmissionOps
  <2>6. QED
    BY <2>2, <2>3, <2>4, <2>5, WorldAfter, FitsStill DEF Infers
<1>6. CASE AcquireLease \/ ReleaseLease \/ SubmitFails \/ TickDeadline \/ BeginTick
  <2>1. UNCHANGED world /\ (buffer' = buffer \/ buffer' = <<>>)
    BY <1>6 DEF AcquireLease, ReleaseLease, SubmitFails, TickDeadline, BeginTick, Abort, tickVars
  <2>2. QED
    BY <2>1, QuietFits
<1>7. CASE Environment
  <2>1. UNCHANGED <<world, buffer>>
    BY <1>7 DEF Environment, DispatchEnds, StrayEnds, DeadlinePasses, LeaseExpires, tickVars
  <2>2. QED
    BY <2>1, QuietFits
<1>8. CASE \E e \in Works : RequestCancellation(e)
  <2>1. PICK x \in Works : RequestCancellation(x)
    BY <1>8
  <2>2. PICK c \in Orders : c.op = "RequestCancellation" /\ StillTrue(c) /\ Touched(c)
    BY <2>1, CancellationTouches
  <2>3. NewlyAdmitted = {}
    BY <2>2, MarkerFrom
  <2>4. ActiveWorks' \subseteq ActiveWorks /\ \A e \in Works : world'[e].meta = world[e].meta
    BY <2>2, ActiveAfter DEF AdmissionOps
  <2>5. buffer' = buffer
    BY <2>1 DEF RequestCancellation, ClientSubmits, tickVars
  <2>6. QED
    BY <2>2, <2>3, <2>4, <2>5, WorldAfter, FitsStill DEF AdmitsFit, Infers
<1>9. CASE \E claim \in Claims : CreateWork(claim)
  <2>1. PICK claim \in Claims : CreateWork(claim)
    BY <1>9
  <2>2. PICK v : v.state = "Pending" /\ world' = Append(world, v) /\ buffer' = buffer
    BY <2>1, CreateAppends
  <2>3. world \in Seq(Entities)
    BY TypesOf DEF ScheduleInv
  <2>4. \A e \in DOMAIN world' : (e \in DOMAIN world /\ world'[e] = world[e]) \/ world'[e] = v
    BY <2>2, <2>3
  <2>5. \A e \in DOMAIN world : world'[e] = world[e]
    BY <2>2, <2>3
  <2>6. ActiveWorks' \subseteq ActiveWorks
    BY <2>2, <2>4 DEF ActiveWorks, Works, InState, Has
  <2>7. NewlyAdmitted = {}
    BY <2>5 DEF NewlyAdmitted, Works
  <2>8. v \in Entities
    <3>1. DOMAIN world' = 1 .. Len(world) + 1 /\ world'[Len(world) + 1] = v /\ Len(world) \in Nat
      BY <2>2, <2>3
    <3>2. world' \in Seq(Entities)
      BY <2>1, CreateWorkKeeps DEF ScheduleInv, TypeOK
    <3>3. QED
      BY <3>1, <3>2
  <2>9. world' \in Seq(Entities) /\ Len(world) <= Len(world')
    BY <2>2, <2>3, <2>8
  <2>10. QED
    BY <2>2, <2>5, <2>6, <2>7, <2>9, FitsStill DEF AdmitsFit, Infers, Works
<1>10. QED
  BY <1>1, <1>2, <1>3, <1>4, <1>5, <1>6, <1>7, <1>8, <1>9
     DEF Next, Tick, RunStage, SubmitNext, Client

\* Nothing is admitted at the start.
LEMMA AdmitsFitInit == Init => AdmitsFit
<1>1. Init => Targets(buffer) = {}
  BY DEF Init, Targets
<1>2. QED
  BY <1>1 DEF AdmitsFit

-----------------------------------------------------------------------------
(***************************************************************************)
(* Results are published before they are discarded.                        *)
(***************************************************************************)

\* Publish has emitted all it is going to, or is over.
Publishing == \/ stage = "Publish" /\ buffer # <<>> /\ late = FALSE
              \/ stage = "Cleanup" /\ buffer = <<>>

\* So much finished work comes before e that Cleanup does not reach it.
Outnumbered(e) == Cardinality({d \in FinishedWorks : d < e}) >= MaxBatch

Ordered(op, e) == \E k \in DOMAIN buffer : buffer[k].op = op /\ buffer[k].entity = e

\* An unpublished result is in no danger: no order of the buffer discards it,
\* or will once it is recorded; its handle is gone; and when Publish is over,
\* those it left out are out of Cleanup's reach.
ResultsKept ==
  /\ \A i \in DOMAIN buffer : buffer[i].op \in Discards => buffer[i].entity \notin UnpublishedWorks
  /\ \A i \in DOMAIN buffer : buffer[i].op = "CompleteWork" =>
       /\ active[buffer[i].entity] = 0
       /\ \A j \in DOMAIN buffer : buffer[j].entity = buffer[i].entity => buffer[j].op \notin Discards
  /\ \A e \in UnpublishedWorks : active[e] = 0
  /\ stage = "Publish" => \A i \in DOMAIN buffer : buffer[i].op = "PublishResult"
  /\ Publishing => \A e \in UnpublishedWorks : Outnumbered(e) \/ Ordered("PublishResult", e)

\* No result is lost in the step.
LosesNone == \A e \in UnpublishedWorks : world'[e].state = "Completed"

\* What a command that runs does to the unpublished results.
LEMMA UnpublishedAfter ==
  ASSUME ScheduleInv, NEW c \in Orders, StillTrue(c), Touched(c)
  PROVE  /\ \A e \in UnpublishedWorks' : e \in UnpublishedWorks \/ (e = c.entity /\ c.op = "CompleteWork")
         /\ c.op = "PublishResult" => c.entity \notin UnpublishedWorks' /\ FinishedWorks \subseteq FinishedWorks'
         /\ \A e \in UnpublishedWorks : world'[e].state = "Completed" \/ (e = c.entity /\ c.op \in Discards)
         /\ IsTerminal(world[c.entity].state) \/ FinishedWorks \subseteq FinishedWorks'
<1>1. PICK v2 : Touches(c, world[c.entity], v2) /\ world' = [world EXCEPT ![c.entity] = v2]
  BY DEF Touched
<1>2. world \in Seq(Entities) /\ c.entity \in Works
  BY TypesOf DEF StillTrue, ScheduleInv
<1>3. /\ Works' = Works /\ world'[c.entity] = v2
      /\ \A x \in Works : x # c.entity => world'[x] = world[x]
  BY <1>1, <1>2 DEF Works
<1>4. /\ world[c.entity].comps \subseteq v2.comps
      /\ c.op = "PublishResult" => v2.state = "Completed" /\ "PublishedMarker" \in v2.comps
      /\ world[c.entity].state = "Completed" => v2.state = "Completed" \/ c.op \in Discards
      /\ v2.state = "Completed" => world[c.entity].state = "Completed" \/ c.op \in {"CompleteWork", "PublishResult"}
  BY <1>1 DEF Touches
<1>5. \A e \in UnpublishedWorks' : e \in UnpublishedWorks \/ (e = c.entity /\ c.op = "CompleteWork")
  BY <1>2, <1>3, <1>4 DEF UnpublishedWorks, InState, Has
<1>6. c.op = "PublishResult" => c.entity \notin UnpublishedWorks' /\ FinishedWorks \subseteq FinishedWorks'
  BY <1>2, <1>3, <1>4 DEF UnpublishedWorks, FinishedWorks, InState, Has, IsTerminal
<1>7. \A e \in UnpublishedWorks : world'[e].state = "Completed" \/ (e = c.entity /\ c.op \in Discards)
  BY <1>2, <1>3, <1>4 DEF UnpublishedWorks, InState
<1>8. IsTerminal(world[c.entity].state) \/ FinishedWorks \subseteq FinishedWorks'
  BY <1>2, <1>3 DEF FinishedWorks
<1>9. QED
  BY <1>5, <1>6, <1>7, <1>8

\* More finished work outnumbers no less.
LEMMA OutnumberedStill ==
  ASSUME ScheduleInv', FinishedWorks \subseteq FinishedWorks', NEW e, Outnumbered(e)
  PROVE  Outnumbered(e)'
<1>1. PICK A, B : A = {d \in FinishedWorks : d < e} /\ B = {d \in FinishedWorks' : d < e}
  OBVIOUS
<1>2. A \subseteq B
  BY <1>1
<1>3. IsFiniteSet(FinishedWorks')
  <2>1. TypeOK' /\ FinishedWorks' \in SUBSET Works'
    BY DEF ScheduleInv, FinishedWorks
  <2>2. IsFiniteSet(Works')
    <3>1. PICK m : m = Len(world') /\ m \in Nat /\ DOMAIN world' = 1 .. m
      BY <2>1 DEF TypeOK
    <3>2. QED
      BY <3>1, FS_Interval DEF Works
  <2>3. QED
    BY <2>1, <2>2, FS_Subset
<1>4. IsFiniteSet(B)
  BY <1>1, <1>3, FS_Subset
<1>5. Cardinality(A) <= Cardinality(B) /\ Cardinality(A) \in Nat /\ Cardinality(B) \in Nat
  BY <1>2, <1>4, FS_Subset, FS_CardinalityType
<1>6. Cardinality(A) >= MaxBatch
  BY <1>1 DEF Outnumbered
<1>7. Cardinality(B) >= MaxBatch
  BY <1>5, <1>6, LimitsAssumption
<1>8. QED
  BY <1>1, <1>7 DEF Outnumbered

\* The stages after Publish and before it.
LEMMA AfterPublish ==
  /\ \A s \in DOMAIN After : After[s] = "Cleanup" => s = "Publish"
  /\ \A s \in DOMAIN After : After[s] # s
<1>1. DOMAIN After = {"Idle", "Observe", "Plan", "Admit", "Lease", "Dispatch",
                      "Collect", "Publish", "Cleanup"}
  BY DEF After
<1>2. After["Idle"] = "Observe" /\ After["Observe"] = "Plan" /\ After["Plan"] = "Admit"
  BY DEF After
<1>3. After["Admit"] = "Lease" /\ After["Lease"] = "Dispatch" /\ After["Dispatch"] = "Collect"
  BY DEF After
<1>4. After["Collect"] = "Publish" /\ After["Publish"] = "Cleanup" /\ After["Cleanup"] = "Idle"
  BY DEF After
<1>5. QED
  BY <1>1, <1>2, <1>3, <1>4

\* The head of the buffer ran.
LEMMA RunKeeps ==
  ASSUME ScheduleInv, ScheduleInv', ResultsKept, UNCHANGED active, Pop \/ Abort,
         NEW c \in Orders, buffer # <<>>, c = Head(buffer), StillTrue(c), Touched(c)
  PROVE  ResultsKept' /\ LosesNone
<1>1. /\ buffer \in Seq(Orders) /\ c = buffer[1] /\ 1 \in DOMAIN buffer
      /\ \A i \in DOMAIN Tail(buffer) : i + 1 \in DOMAIN buffer /\ Tail(buffer)[i] = buffer[i + 1]
  BY TailOf DEF ScheduleInv, Buffered
<1>2. /\ \A e \in UnpublishedWorks' : e \in UnpublishedWorks \/ (e = c.entity /\ c.op = "CompleteWork")
      /\ c.op = "PublishResult" => c.entity \notin UnpublishedWorks' /\ FinishedWorks \subseteq FinishedWorks'
      /\ \A e \in UnpublishedWorks : world'[e].state = "Completed" \/ (e = c.entity /\ c.op \in Discards)
  BY UnpublishedAfter
<1>3. LosesNone
  BY <1>1, <1>2 DEF LosesNone, ResultsKept
<1>4. \A i \in DOMAIN buffer' : \E j \in DOMAIN buffer : buffer'[i] = buffer[j]
  <2>1. buffer' = Tail(buffer) \/ buffer' = <<>>
    BY DEF Pop, Abort
  <2>2. QED
    BY <2>1, TargetsShrink
<1>5. \A i \in DOMAIN buffer' : buffer'[i].op \in Discards => buffer'[i].entity \notin UnpublishedWorks'
  BY <1>1, <1>2, <1>4 DEF ResultsKept
<1>6. \A i \in DOMAIN buffer' : buffer'[i].op = "CompleteWork" =>
        /\ active'[buffer'[i].entity] = 0
        /\ \A j \in DOMAIN buffer' : buffer'[j].entity = buffer'[i].entity => buffer'[j].op \notin Discards
  BY <1>4 DEF ResultsKept
<1>7. \A e \in UnpublishedWorks' : active'[e] = 0
  BY <1>1, <1>2 DEF ResultsKept
<1>8. stage' = "Publish" => \A i \in DOMAIN buffer' : buffer'[i].op = "PublishResult"
  <2>1. CASE buffer' = <<>>
    BY <2>1
  <2>2. CASE buffer' # <<>>
    <3>1. stage' = stage
      BY <2>2 DEF Pop, Abort
    <3>2. QED
      BY <1>4, <3>1 DEF ResultsKept
  <2>3. QED
    BY <2>1, <2>2
<1>9. ASSUME Publishing', NEW e \in UnpublishedWorks'
      PROVE  Outnumbered(e)' \/ Ordered("PublishResult", e)'
  <2>1. stage' # "Idle"
    BY <1>9 DEF Publishing
  <2>2. /\ buffer' = Tail(buffer)
        /\ stage' = IF buffer' # <<>> THEN stage ELSE IF late THEN "Idle" ELSE After[stage]
        /\ late' = (late /\ buffer' # <<>>)
    BY <2>1 DEF Pop, Abort
  <2>3. stage = "Publish" /\ late = FALSE
    <3>0. stage \in DOMAIN After /\ late \in BOOLEAN
      BY DEF ScheduleInv, TypeOK
    <3>1. CASE buffer' # <<>>
      <4>1. stage' = stage /\ (late' = late)
        BY <2>2, <3>0, <3>1
      <4>2. QED
        BY <1>9, <3>1, <4>1 DEF Publishing
    <3>2. CASE buffer' = <<>>
      <4>1. stage' = "Cleanup"
        BY <1>9, <3>2 DEF Publishing
      <4>2. late = FALSE /\ After[stage] = "Cleanup"
        BY <2>2, <3>0, <3>2, <4>1
      <4>3. QED
        BY <3>0, <4>2, AfterPublish
    <3>3. QED
      BY <3>1, <3>2
  <2>4. c.op = "PublishResult"
    BY <1>1, <2>3 DEF ResultsKept
  <2>5. e \in UnpublishedWorks /\ e # c.entity /\ FinishedWorks \subseteq FinishedWorks'
    BY <1>2, <1>9, <2>4
  <2>6. Outnumbered(e) \/ Ordered("PublishResult", e)
    BY <2>3, <2>5 DEF ResultsKept, Publishing
  <2>7. CASE Outnumbered(e)
    BY <2>5, <2>7, OutnumberedStill
  <2>8. CASE Ordered("PublishResult", e)
    <3>1. PICK k \in DOMAIN buffer : buffer[k].op = "PublishResult" /\ buffer[k].entity = e
      BY <2>8 DEF Ordered
    <3>2. k # 1
      BY <1>1, <2>5, <3>1
    <3>3. k - 1 \in DOMAIN Tail(buffer) /\ Tail(buffer)[k - 1] = buffer[k]
      <4>1. PICK n : n = Len(buffer) /\ n \in Nat /\ DOMAIN buffer = 1 .. n
        BY <1>1
      <4>2. Len(Tail(buffer)) = n - 1 /\ DOMAIN Tail(buffer) = 1 .. n - 1
        BY <1>1, <4>1
      <4>3. k - 1 \in 1 .. n - 1 /\ (k - 1) + 1 = k
        BY <3>1, <3>2, <4>1
      <4>4. QED
        BY <1>1, <4>2, <4>3
    <3>4. QED
      BY <2>2, <3>1, <3>3 DEF Ordered
  <2>9. QED
    BY <2>6, <2>7, <2>8
<1>10. QED
  BY <1>3, <1>5, <1>6, <1>7, <1>8, <1>9 DEF ResultsKept

\* The steps that run nothing, and at most empty the buffer and go idle.
LEMMA RestKeeps ==
  ASSUME ResultsKept, UNCHANGED <<world, active>>,
         \/ UNCHANGED <<stage, buffer, late>>
         \/ buffer' = <<>> /\ stage' \in {"Idle", "Observe"}
  PROVE  ResultsKept' /\ LosesNone
<1>1. UnpublishedWorks' = UnpublishedWorks /\ FinishedWorks' = FinishedWorks
  BY DEF UnpublishedWorks, FinishedWorks, Works, InState, Has
<1>2. LosesNone
  BY DEF LosesNone, UnpublishedWorks, InState
<1>3. CASE UNCHANGED <<stage, buffer, late>>
  <2>1. \A e : Outnumbered(e)' = Outnumbered(e)
    BY <1>1 DEF Outnumbered
  <2>2. Publishing' = Publishing
    BY <1>3 DEF Publishing
  <2>3. \A e : Ordered("PublishResult", e) => Ordered("PublishResult", e)'
    BY <1>3 DEF Ordered
  <2>4. Publishing' => \A e \in UnpublishedWorks' : Outnumbered(e)' \/ Ordered("PublishResult", e)'
    BY <1>1, <2>1, <2>2, <2>3 DEF ResultsKept
  <2>5. QED
    BY <1>1, <1>2, <1>3, <2>4 DEF ResultsKept
<1>4. CASE buffer' = <<>> /\ stage' \in {"Idle", "Observe"}
  <2>1. ~Publishing' /\ stage' # "Publish"
    BY <1>4 DEF Publishing
  <2>2. QED
    BY <1>1, <1>2, <1>4, <2>1 DEF ResultsKept
<1>5. QED
  BY <1>3, <1>4

\* A client's command leaves the finished work and the buffer alone.
LEMMA ClientKeeps ==
  ASSUME ScheduleInv', ResultsKept, UNCHANGED <<stage, buffer, late, active>>,
         UnpublishedWorks' \subseteq UnpublishedWorks, FinishedWorks \subseteq FinishedWorks'
  PROVE  ResultsKept'
<1>1. Publishing' = Publishing
  BY DEF Publishing
<1>2. \A e : Ordered("PublishResult", e) => Ordered("PublishResult", e)'
  BY DEF Ordered
<1>3. \A e : Outnumbered(e) => Outnumbered(e)'
  BY OutnumberedStill
<1>4. Publishing' => \A e \in UnpublishedWorks' : Outnumbered(e)' \/ Ordered("PublishResult", e)'
  BY <1>1, <1>2, <1>3 DEF ResultsKept
<1>5. QED
  BY <1>4 DEF ResultsKept

\* A stage other than Publish ran: it discards no unpublished result and starts
\* none of them again.
LEMMA StageKeepsResults ==
  ASSUME ScheduleInv, stage # "Publish", UNCHANGED world, NEW n, NEW todo, NEW cmds, Emit(n, todo, cmds),
         \A k \in DOMAIN buffer' : buffer'[k].op \in Discards => buffer'[k].entity \notin UnpublishedWorks,
         \A k \in DOMAIN buffer' : buffer'[k].op = "CompleteWork" =>
           /\ active'[buffer'[k].entity] = 0
           /\ \A j \in DOMAIN buffer' : buffer'[j].entity = buffer'[k].entity => buffer'[j].op \notin Discards,
         \A e \in UnpublishedWorks : active'[e] = 0
  PROVE  ResultsKept' /\ LosesNone
<1>1. UnpublishedWorks' = UnpublishedWorks
  BY DEF UnpublishedWorks, Works, InState, Has
<1>2. LosesNone
  BY DEF LosesNone, UnpublishedWorks, InState
<1>3. /\ buffer' = cmds
      /\ cmds # <<>> => stage' = stage
      /\ cmds = <<>> => stage' \in {"Idle", After[stage]}
  BY DEF Emit
<1>4. stage \in DOMAIN After
  BY DEF ScheduleInv, TypeOK
<1>5. ~Publishing'
  BY <1>3, <1>4, AfterPublish DEF Publishing
<1>6. stage' = "Publish" => buffer' = <<>>
  BY <1>3
<1>7. QED
  BY <1>1, <1>2, <1>5, <1>6 DEF ResultsKept

\* The stages that neither complete nor publish.
LEMMA EarlyStagesKeepResults ==
  ASSUME ScheduleInv, ResultsKept, Observe \/ Plan \/ Admit \/ Lease \/ Dispatch
  PROVE  ResultsKept' /\ LosesNone
<1>1. /\ UNCHANGED world /\ stage # "Publish"
      /\ \E n, todo, cmds : Emit(n, todo, cmds)
  BY DEF Observe, Plan, Admit, Lease, Dispatch, AtStage, EmitFirst
<1>2. PICK n, todo, cmds : Emit(n, todo, cmds)
  BY <1>1
<1>3. \A e \in UnpublishedWorks : e \in Ids /\ active[e] = 0
  <2>1. TypeOK /\ UnpublishedWorks \in SUBSET Works
    BY DEF ScheduleInv, UnpublishedWorks
  <2>2. QED
    BY <2>1, WorksFinite DEF ResultsKept
<1>4. NewWorks \cap UnpublishedWorks = {} /\ PlannedWorks \cap UnpublishedWorks = {}
      /\ ReadyWorks \cap UnpublishedWorks = {} /\ LeasedWorks \cap UnpublishedWorks = {}
  BY DEF NewWorks, PlannedWorks, ReadyWorks, LeasedWorks, UnpublishedWorks, InState
<1>5. /\ \A k \in DOMAIN buffer' : buffer'[k].op \in Discards => buffer'[k].entity \notin UnpublishedWorks
      /\ \A k \in DOMAIN buffer' : buffer'[k].op # "CompleteWork"
      /\ \A e \in UnpublishedWorks : active'[e] = 0
  <2>1. CASE Observe
    <3>1. UNCHANGED active
      BY <2>1 DEF Observe, dispatchVars
    <3>2. QED
      BY <1>3, <2>1, <3>1, ObserveKeeps DEF Emits, Discards
  <2>2. CASE Plan
    <3>1. UNCHANGED active
      BY <2>2 DEF Plan, dispatchVars
    <3>2. QED
      BY <1>3, <2>2, <3>1, PlanKeeps DEF Emits, Discards
  <2>3. CASE Admit
    <3>1. UNCHANGED active
      BY <2>3 DEF Admit, dispatchVars
    <3>2. PICK m, list, orders : Emit(m, list, orders) /\ Admission(orders)
      BY <2>3, AdmitEmits DEF ScheduleInv
    <3>3. \A k \in DOMAIN buffer' : buffer'[k].op \in AdmissionOps
      BY <3>2 DEF Emit, Admission
    <3>4. QED
      BY <1>3, <3>1, <3>3 DEF AdmissionOps, Discards
  <2>4. CASE Lease
    <3>1. UNCHANGED active
      BY <2>4 DEF Lease, dispatchVars
    <3>2. QED
      BY <1>3, <1>4, <2>4, <3>1, LeaseKeeps DEF Emits
  <2>5. CASE Dispatch
    <3>1. /\ \A k \in DOMAIN buffer' : buffer'[k].op \in DispatchOps /\ buffer'[k].entity \in LeasedWorks
          /\ \A e \in Ids : active'[e] > 0 => active[e] > 0 \/ e \in LeasedWorks
          /\ ScheduleInv'
      BY <2>5, DispatchKeeps DEF Emits
    <3>2. active' \in [Ids -> Nat]
      BY <3>1 DEF ScheduleInv, TypeOK
    <3>3. \A e \in UnpublishedWorks : active'[e] = 0
      BY <1>3, <1>4, <3>1, <3>2
    <3>4. QED
      BY <1>4, <3>1, <3>3 DEF DispatchOps
  <2>6. QED
    BY <2>1, <2>2, <2>3, <2>4, <2>5
<1>6. QED
  BY <1>1, <1>2, <1>5, StageKeepsResults

\* Collect fails or completes only what it held a handle of.
LEMMA CollectKeepsResults ==
  ASSUME ScheduleInv, ResultsKept, Collect
  PROVE  ResultsKept' /\ LosesNone
<1>1. /\ UNCHANGED world /\ stage # "Publish"
      /\ \E n, todo, cmds : Emit(n, todo, cmds)
  BY DEF Collect, AtStage, EmitFirst
<1>2. PICK n, todo, cmds : Emit(n, todo, cmds)
  BY <1>1
<1>3. /\ \A k \in DOMAIN buffer' : Collected(buffer'[k])
      /\ \A e \in Ids : active'[e] > 0 => active[e] > 0
      /\ active \in [Ids -> Nat] /\ active' \in [Ids -> Nat]
  BY CollectKeeps DEF ScheduleInv, TypeOK
<1>4. \A e \in UnpublishedWorks : e \in Ids /\ active[e] = 0
  <2>1. TypeOK /\ UnpublishedWorks \in SUBSET Works
    BY DEF ScheduleInv, UnpublishedWorks
  <2>2. QED
    BY <2>1, WorksFinite DEF ResultsKept
<1>5. \A e \in UnpublishedWorks : active'[e] = 0
  BY <1>3, <1>4
<1>6. \A k \in DOMAIN buffer' : buffer'[k].entity \notin UnpublishedWorks
  BY <1>3, <1>4 DEF Collected
<1>7. \A k \in DOMAIN buffer' : buffer'[k].op = "CompleteWork" =>
        /\ active'[buffer'[k].entity] = 0
        /\ \A j \in DOMAIN buffer' : buffer'[j].entity = buffer'[k].entity => buffer'[j].op \notin Discards
  BY <1>3 DEF Collected, Discards
<1>8. QED
  BY <1>1, <1>2, <1>5, <1>6, <1>7, StageKeepsResults

\* Cleanup stops before the results that Publish left out.
LEMMA CleanupKeepsResults ==
  ASSUME ScheduleInv, ResultsKept, Cleanup
  PROVE  ResultsKept' /\ LosesNone
<1>1. /\ UNCHANGED <<world, active>> /\ stage = "Cleanup" /\ buffer = <<>>
      /\ \E n, todo, cmds : Emit(n, todo, cmds)
  BY DEF Cleanup, AtStage, EmitFirst, dispatchVars
<1>2. PICK n, todo, cmds : Emit(n, todo, cmds)
  BY <1>1
<1>3. \A e \in UnpublishedWorks : Outnumbered(e) /\ e \in FinishedWorks
  <2>1. \A e \in UnpublishedWorks : Outnumbered(e) \/ Ordered("PublishResult", e)
    BY <1>1 DEF ResultsKept, Publishing
  <2>2. QED
    BY <1>1, <2>1 DEF Ordered, UnpublishedWorks, FinishedWorks, InState, IsTerminal
<1>4. \A e \in UnpublishedWorks : e \notin Range(InIdOrder(FinishedWorks, MaxBatch))
  <2>1. TypeOK /\ FinishedWorks \in SUBSET Works /\ MaxBatch \in Nat
    BY LimitsAssumption DEF ScheduleInv, FinishedWorks
  <2>2. \A e \in FinishedWorks : e \in Range(InIdOrder(FinishedWorks, MaxBatch))
                                   <=> Cardinality({d \in FinishedWorks : d < e}) < MaxBatch
    BY <2>1, InIdOrderLists
  <2>3. ASSUME NEW e \in UnpublishedWorks PROVE e \notin Range(InIdOrder(FinishedWorks, MaxBatch))
    <3>1. PICK m : m = Cardinality({d \in FinishedWorks : d < e}) /\ m \in Nat
      <4>1. IsFiniteSet({d \in FinishedWorks : d < e})
        BY <2>1, WorksFinite, FS_Subset
      <4>2. QED
        BY <4>1, FS_CardinalityType
    <3>2. m >= MaxBatch
      BY <1>3, <3>1 DEF Outnumbered
    <3>3. ~(m < MaxBatch)
      BY <2>1, <3>1, <3>2
    <3>4. QED
      BY <1>3, <2>2, <3>1, <3>3
  <2>4. QED
    BY <2>3
<1>5. \A k \in DOMAIN buffer' : buffer'[k].op \in CleanupOps
                                  /\ buffer'[k].entity \in Range(InIdOrder(FinishedWorks, MaxBatch))
  BY CleanupKeeps DEF Emits
<1>6. /\ \A k \in DOMAIN buffer' : buffer'[k].op \in Discards => buffer'[k].entity \notin UnpublishedWorks
      /\ \A k \in DOMAIN buffer' : buffer'[k].op # "CompleteWork"
      /\ \A e \in UnpublishedWorks : active'[e] = 0
  BY <1>1, <1>4, <1>5 DEF CleanupOps, ResultsKept
<1>7. QED
  BY <1>1, <1>2, <1>6, StageKeepsResults

\* Publish leaves out only what its limit does, unless the tick ends with it.
LEMMA PublishKeepsResults ==
  ASSUME ScheduleInv, ResultsKept, Publish
  PROVE  ResultsKept' /\ LosesNone
<1>1. /\ UNCHANGED <<world, active>> /\ stage = "Publish"
      /\ \E n, todo, cmds : Emit(n, todo, cmds)
  BY DEF Publish, AtStage, EmitFirst, dispatchVars
<1>2. PICK n, todo, cmds : Emit(n, todo, cmds)
  BY <1>1
<1>3. UnpublishedWorks' = UnpublishedWorks /\ FinishedWorks' = FinishedWorks
  BY <1>1 DEF UnpublishedWorks, FinishedWorks, Works, InState, Has
<1>4. LosesNone
  BY <1>1 DEF LosesNone, UnpublishedWorks, InState
<1>5. /\ \A k \in DOMAIN buffer' : buffer'[k].op = "PublishResult"
      /\ ~late' /\ stage' # "Idle" =>
           \A e \in UnpublishedWorks :
              \/ Ordered("PublishResult", e)'
              \/ Cardinality({d \in UnpublishedWorks : d < e}) >= MaxBatch
  BY PublishKeeps DEF Emits, Ordered
<1>6. ASSUME Publishing', NEW e \in UnpublishedWorks'
      PROVE  Outnumbered(e)' \/ Ordered("PublishResult", e)'
  <2>1. ~late' /\ stage' # "Idle"
    <3>1. stage' # "Idle"
      BY <1>6 DEF Publishing
    <3>2. late' = (n < Len(todo) /\ cmds # <<>>) /\ buffer' = cmds
      BY <1>2 DEF Emit
    <3>3. CASE buffer' # <<>>
      <4>1. stage' = "Publish"
        BY <1>1, <1>2, <3>2, <3>3 DEF Emit
      <4>2. QED
        BY <1>6, <3>1, <4>1 DEF Publishing
    <3>4. CASE buffer' = <<>>
      BY <3>1, <3>2, <3>4
    <3>5. QED
      BY <3>3, <3>4
  <2>2. CASE Ordered("PublishResult", e)'
    BY <2>2
  <2>3. CASE Cardinality({d \in UnpublishedWorks : d < e}) >= MaxBatch
    <3>1. PICK A, B : A = {d \in UnpublishedWorks : d < e} /\ B = {d \in FinishedWorks : d < e}
      OBVIOUS
    <3>2. A \subseteq B
      BY <3>1 DEF UnpublishedWorks, FinishedWorks, InState, IsTerminal
    <3>3. IsFiniteSet(B)
      <4>1. TypeOK /\ B \in SUBSET Works
        BY <3>1 DEF ScheduleInv, FinishedWorks
      <4>2. QED
        BY <4>1, WorksFinite
    <3>4. Cardinality(A) <= Cardinality(B) /\ Cardinality(A) \in Nat /\ Cardinality(B) \in Nat
      BY <3>2, <3>3, FS_Subset, FS_CardinalityType
    <3>5. Cardinality(A) >= MaxBatch
      BY <2>3, <3>1
    <3>6. Cardinality(B) >= MaxBatch
      BY <3>4, <3>5, LimitsAssumption
    <3>7. QED
      BY <1>3, <3>1, <3>6 DEF Outnumbered
  <2>4. QED
    BY <1>3, <1>5, <2>1, <2>2, <2>3
<1>7. /\ \A k \in DOMAIN buffer' : buffer'[k].op \notin Discards /\ buffer'[k].op # "CompleteWork"
      /\ \A e \in UnpublishedWorks' : active'[e] = 0
  BY <1>1, <1>3, <1>5 DEF Discards, ResultsKept
<1>8. QED
  BY <1>4, <1>5, <1>6, <1>7 DEF ResultsKept

\* Every step keeps the unpublished results.
LEMMA ResultsKeptNext ==
  ASSUME ScheduleInv, ResultsKept, [Next]_vars
  PROVE  ResultsKept' /\ LosesNone
<1>0. ScheduleInv'
  BY ScheduleInvNext
<1>1. CASE UNCHANGED vars
  BY <1>1, RestKeeps DEF vars
<1>2. CASE SubmitCommand
  <2>1. PICK c \in Orders : buffer # <<>> /\ c = Head(buffer) /\ StillTrue(c) /\ Touched(c)
    BY <1>2, SubmitTouches
  <2>2. Pop /\ UNCHANGED active
    BY <1>2 DEF SubmitCommand, dispatchVars
  <2>3. QED
    BY <1>0, <2>1, <2>2, RunKeeps
<1>3. CASE FinishLease \/ FinishLeaseFault
  <2>1. SetLeaseState /\ (Pop \/ Abort)
    BY <1>3 DEF FinishLease, FinishLeaseFault
  <2>2. PICK c \in Orders : buffer # <<>> /\ c = Head(buffer) /\ StillTrue(c) /\ Touched(c)
    BY <2>1, LeaseTouches
  <2>3. UNCHANGED active
    BY <2>1 DEF SetLeaseState, dispatchVars
  <2>4. QED
    BY <1>0, <2>1, <2>2, <2>3, RunKeeps
<1>4. CASE RunStage
  BY <1>4, EarlyStagesKeepResults, CollectKeepsResults, PublishKeepsResults, CleanupKeepsResults
     DEF RunStage
<1>5. CASE AcquireLease \/ ReleaseLease \/ SubmitFails \/ TickDeadline \/ Environment
  <2>1. UNCHANGED world
    BY <1>5 DEF AcquireLease, ReleaseLease, SubmitFails, TickDeadline, Environment,
                DispatchEnds, StrayEnds, DeadlinePasses, LeaseExpires
  <2>2. UNCHANGED active
    BY <1>5 DEF AcquireLease, ReleaseLease, SubmitFails, TickDeadline, Environment,
                DispatchEnds, StrayEnds, DeadlinePasses, LeaseExpires, dispatchVars
  <2>3. UNCHANGED <<stage, buffer, late>> \/ (buffer' = <<>> /\ stage' = "Idle")
    BY <1>5 DEF AcquireLease, ReleaseLease, SubmitFails, TickDeadline, Environment,
                DispatchEnds, StrayEnds, DeadlinePasses, LeaseExpires, tickVars, Abort
  <2>4. QED
    BY <2>1, <2>2, <2>3, RestKeeps
<1>6. CASE BeginTick
  <2>1. UNCHANGED <<world, active, buffer, late>> /\ stage = "Idle" /\ stage' = "Observe"
    BY <1>6 DEF BeginTick, dispatchVars, After
  <2>2. UnpublishedWorks' = UnpublishedWorks
    BY <2>1 DEF UnpublishedWorks, Works, InState, Has
  <2>3. LosesNone
    BY <2>1 DEF LosesNone, UnpublishedWorks, InState
  <2>4. ~Publishing' /\ stage' # "Publish"
    BY <2>1 DEF Publishing
  <2>5. QED
    BY <2>1, <2>2, <2>3, <2>4 DEF ResultsKept
<1>7. CASE \E e \in Works : RequestCancellation(e)
  <2>1. PICK x \in Works : RequestCancellation(x)
    BY <1>7
  <2>2. PICK c \in Orders : c.op = "RequestCancellation" /\ c.entity = x /\ StillTrue(c) /\ Touched(c)
    BY <2>1, CancellationTouches
  <2>3. UNCHANGED <<stage, buffer, late, active>> /\ ~IsTerminal(world[x].state)
    BY <2>1 DEF RequestCancellation, ClientSubmits, tickVars, dispatchVars
  <2>4. /\ UnpublishedWorks' \subseteq UnpublishedWorks /\ FinishedWorks \subseteq FinishedWorks'
        /\ LosesNone
    BY <2>2, <2>3, UnpublishedAfter DEF LosesNone, Discards
  <2>5. QED
    BY <1>0, <2>3, <2>4, ClientKeeps
<1>8. CASE \E claim \in Claims : CreateWork(claim)
  <2>1. PICK claim \in Claims : CreateWork(claim)
    BY <1>8
  <2>2. PICK v : v.state = "Pending" /\ world' = Append(world, v)
    BY <2>1, CreateAppends
  <2>3. UNCHANGED <<stage, buffer, late, active>>
    BY <2>1 DEF CreateWork, ClientSubmits, tickVars, dispatchVars
  <2>4. world \in Seq(Entities)
    BY TypesOf DEF ScheduleInv
  <2>5. /\ \A e \in DOMAIN world' : (e \in DOMAIN world /\ world'[e] = world[e]) \/ world'[e] = v
        /\ \A e \in DOMAIN world : e \in DOMAIN world' /\ world'[e] = world[e]
    BY <2>2, <2>4
  <2>6. UnpublishedWorks' \subseteq UnpublishedWorks
    BY <2>2, <2>5 DEF UnpublishedWorks, Works, InState, Has
  <2>7. FinishedWorks \subseteq FinishedWorks' /\ LosesNone
    BY <2>5 DEF FinishedWorks, LosesNone, UnpublishedWorks, InState, Works
  <2>8. QED
    BY <1>0, <2>3, <2>6, <2>7, ClientKeeps
<1>9. QED
  BY <1>1, <1>2, <1>3, <1>4, <1>5, <1>6, <1>7, <1>8 DEF Next, Tick, SubmitNext, Client

\* There are no results at the start.
LEMMA ResultsKeptInit == Init => ResultsKept
<1>1. Init => UnpublishedWorks = {} /\ buffer = <<>> /\ stage = "Idle"
  BY DEF Init, UnpublishedWorks, Works
<1>2. QED
  BY <1>1 DEF ResultsKept

-----------------------------------------------------------------------------
(***************************************************************************)
(* The theorems.                                                           *)
(***************************************************************************)

\* Every variable of the schedule keeps its type, and every command in the
\* buffer is well formed and addresses an entity that exists.
THEOREM TypeCorrect == Spec => []TypeOK
<1>1. ScheduleInv => TypeOK
  BY DEF ScheduleInv
<1>2. QED
  BY <1>1, ScheduleInvHolds, PTL

\* The counters of inference work always tell the story of its claim, through
\* every chunk, retry and lost command.
THEOREM ProgressConservedHolds == Spec => []ProgressConserved
<1>1. ScheduleInv => ProgressConserved
  BY DEF ScheduleInv
<1>2. QED
  BY <1>1, ScheduleInvHolds, PTL

\* No command that a tick submits is refused: what its stage saw of the
\* entity is still true of it, and a lease that is asked for is free.
THEOREM TickCommandsAcceptedHolds == Spec => []TickCommandsAccepted
<1>1. ASSUME ScheduleInv, Submits(InfrastructureOps \cup LifecycleOps \cup LeaseOps)
      PROVE  ~IsRefused(Head(buffer))
  <2>1. PICK c : c = Head(buffer)
    OBVIOUS
  <2>2. buffer # <<>> /\ lease_step = "none"
    BY <1>1 DEF Submits
  <2>3. c \in Orders /\ StillTrue(c) /\ c = buffer[1] /\ 1 \in DOMAIN buffer
    BY <1>1, <2>1, <2>2, TailOf DEF ScheduleInv, Buffered
  <2>4. CASE c.op \in LeaseOps
    <3>1. c.op = "AcquireWorkLease" => c.entity \notin leases
      BY <1>1, <2>2, <2>3 DEF ScheduleInv, LeasesHeld
    <3>2. QED
      BY <2>1, <2>4, <3>1 DEF IsRefused
  <2>5. CASE c.op \notin LeaseOps
    <3>1. Execute(world, c).ok
      BY <1>1, <2>3, <2>5, ExecuteEffect DEF Effect, ScheduleInv
    <3>2. QED
      BY <2>1, <2>5, <3>1 DEF IsRefused
  <2>6. QED
    BY <2>4, <2>5
<1>2. ScheduleInv => TickCommandsAccepted
  BY <1>1 DEF TickCommandsAccepted
<1>3. QED
  BY <1>2, ScheduleInvHolds, PTL

\* A step that admits work leaves the admitted, unfinished items within the
\* capacity: what Admit computed on its view is not outdated by what clients
\* do before its commands run, since they only create and cancel.
THEOREM AdmissionWithinCapacityHolds == Spec => AdmissionWithinCapacity
<1> DEFINE Grows == NewlyAdmitted # {} => Cardinality(ActiveWorks') <= AdmissionCapacity
<1>1. Init => AdmitsFit
  BY AdmitsFitInit
<1>2. ScheduleInv /\ AdmitsFit /\ [Next]_vars => AdmitsFit' /\ Grows
  BY AdmitsFitNext
<1> HIDE DEF Grows
<1>3. Spec => [][Grows]_vars
  BY <1>1, <1>2, ScheduleInvHolds, PTL DEF Spec
<1>4. QED
  BY <1>3 DEF AdmissionWithinCapacity, Grows

\* A step that admits inference work leaves the tokens reserved by admitted,
\* unfinished work within max_inflight_tokens: what runs grows only by commands
\* of Collect, which are never in the buffer along with admissions.
THEOREM AdmissionWithinTokensHolds == Spec => AdmissionWithinTokens
<1> DEFINE Grows == Infers(world, NewlyAdmitted) => ReservedTokens' <= MaxInflightTokens
<1>1. Init => AdmitsFit
  BY AdmitsFitInit
<1>2. ScheduleInv /\ AdmitsFit /\ [Next]_vars => AdmitsFit' /\ Grows
  BY AdmitsFitNext
<1> HIDE DEF Grows
<1>3. Spec => [][Grows]_vars
  BY <1>1, <1>2, ScheduleInvHolds, PTL DEF Spec
<1>4. QED
  BY <1>3 DEF AdmissionWithinTokens, Grows, Infers
\* Work leaves Completed only with its result published, whatever aborts the
\* tick and wherever Publish and Cleanup stop: Cleanup comes only after a
\* Publish that was not cut short, goes through the same ids in the same order
\* up to the same limit, and has at least as many before it.
THEOREM PublishedBeforeDiscardedHolds == Spec => PublishedBeforeDiscarded
<1>1. Init => ResultsKept
  BY ResultsKeptInit
<1>2. ScheduleInv /\ ResultsKept /\ [Next]_vars => ResultsKept' /\ LosesNone
  BY ResultsKeptNext
<1>3. LosesNone => \A e \in Works : (InState(e, {"Completed"}) /\ world'[e].state # "Completed")
                                       => Has(e, "PublishedMarker")
  BY DEF LosesNone, UnpublishedWorks
<1>4. Spec => [][LosesNone]_vars
  BY <1>1, <1>2, ScheduleInvHolds, PTL DEF Spec
<1>5. QED
  BY <1>3, <1>4, PTL DEF PublishedBeforeDiscarded
=============================================================================
