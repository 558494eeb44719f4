-------------------------- MODULE MCCommandKernel --------------------------
(***************************************************************************)
(* Instances of CommandKernel for TLC.                                     *)
(***************************************************************************)
EXTENDS CommandKernel, TLC

CONSTANTS s1, s2, create, model, finish, stale, acquire, drop, advance, job

Cmd(op, entity, arg) == [op |-> op, entity |-> entity, arg |-> arg]

Claim == [phase |-> "Prefill", prompt_tokens |-> 2, prefilled_tokens |-> 0,
          generated_tokens |-> 0, max_new_tokens |-> 2, kv_epoch |-> 1,
          kv_tokens |-> 0, deadline_ms |-> 0, priority |-> 0]

Step == [phase |-> "Decode", prefilled_tokens |-> 2, generated_tokens |-> 0,
         kv_epoch |-> 1, kv_tokens |-> 2]

\* One command per key.  `finish` fails unless entity 1 exists by then and
\* `advance` unless entity 1 is inference work, so they fail or succeed with
\* the order in which the others took the world lock.
Commands ==
  create  :> Cmd("CreateWork", 0, Claim)          @@
  model   :> Cmd("RegisterModel", 0, Filled)      @@
  job     :> Cmd("CreateCompilationJob", 0, Blank) @@
  finish  :> Cmd("CompleteWork", 1, Blank)        @@
  advance :> Cmd("AdvanceInference", 1, Step)     @@
  stale   :> Cmd("SpawnAgent", 0, Blank)          @@
  acquire :> Cmd("AcquireWorkLease", 1, Blank)    @@
  drop    :> Cmd("ReleaseWorkLease", 1, Blank)

MCCommandOf == [k \in Keys |-> Commands[k]]

\* `stale` was built against an epoch the world is not at.
MCExpectedEpoch == [k \in Keys |-> IF k = stale THEN {7} ELSE
                                   IF k = create THEN {WorldEpoch} ELSE {}]

Callers == Permutations(Submitters)
============================================================================
