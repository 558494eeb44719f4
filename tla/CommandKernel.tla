--------------------------- MODULE CommandKernel ---------------------------
(***************************************************************************)
(* The kernel's command path: concurrent callers of RuntimeKernel::submit  *)
(* over one world, one durable command store and one lease coordinator,    *)
(* process crashes, and RuntimeKernel::recover on the next start           *)
(* (crates/prism-ecs-runtime/src/kernel/command_dispatch/submit.rs,        *)
(* replay.rs and kernel/executor_loop.rs).                                 *)
(*                                                                         *)
(* A step is what one caller does between two points at which another can  *)
(* act: submit takes the store's mutex, the lease coordinator and the      *)
(* world lock one after the other and never two together.                  *)
(*                                                                         *)
(* The store and the leases outlive the process (PostgreSQL and Valkey in  *)
(* the daemon); the world and the callers do not.                          *)
(***************************************************************************)
EXTENDS KernelWorld, CommandStore

CONSTANTS
  Submitters,   \* the threads that call submit
  CommandOf,    \* the command each idempotency key is used for
  ExpectedEpoch,\* the envelope's expected_epoch per key, as a set: {} is None
  MaxCrashes,   \* bound: process crashes
  MaxFaults     \* bound: store and lease calls that fail

\* No kernel command calls World::set_epoch: the world stays at epoch 0.
WorldEpoch == 0

ASSUME KeysAssumption == /\ CommandOf \in [Keys -> {CommandOf[k] : k \in Keys}]
                         /\ \A k \in Keys : IsCommand(CommandOf[k])

ASSUME BoundsAssumption == MaxCrashes \in Nat /\ MaxFaults \in Nat

ASSUME KeysNonEmpty == Keys # {}

VARIABLES
  commands,      \* the store: idempotency key -> entry
  next_sequence, \* the store's sequence counter
  world,         \* the world behind the RwLock
  leases,        \* entities whose work-lease key is held at the coordinator
  status,        \* "up", "down", "recovering" or "halted"
  cursor,        \* recovery: the first sequence not yet replayed
  pc,            \* where each caller is inside submit
  call,          \* the caller's key, sequence and command result
  answers,       \* history: the outcomes callers were told Ok with, per key
  applied,       \* history: times a key's mutation ran on the present world
  crashes, faults

vars == <<commands, next_sequence, world, leases, status, cursor, pc, call,
          answers, applied, crashes, faults>>

storeVars   == <<commands, next_sequence>>
historyVars == <<answers, applied>>
budgetVars  == <<crashes, faults>>

\* idle      between calls
\* admitted  owns the key: admit returned Admitted
\* granted   lease acquired, WorkState not yet set
\* released  lease released, WorkState not yet set
\* mutated   world changed, complete not yet called
CallerStates == {"idle", "admitted", "granted", "released", "mutated"}

\* The locals of submit; a caller that is idle has none.
Calls == [key : Keys, sequence : Nat, result : Nat]

NoCall == [key |-> CHOOSE k \in Keys : TRUE, sequence |-> 0, result |-> 0]

\* CommitOutcome: the sequence and the entity of the result.
Outcomes == [sequence : Nat, result : Nat]

Outcome(x) == [sequence |-> x.sequence, result |-> x.result]

TypeOK ==
  /\ commands \in [Keys -> Entries]
  /\ next_sequence \in Nat \ {0}
  /\ world \in Seq(Entities)
  /\ leases \subseteq Nat
  /\ status \in {"up", "down", "recovering", "halted"}
  /\ cursor \in Nat
  /\ pc \in [Submitters -> CallerStates]
  /\ call \in [Submitters -> Calls]
  /\ answers \in [Keys -> SUBSET Outcomes]
  /\ applied \in [Keys -> Nat]
  /\ crashes \in 0 .. MaxCrashes
  /\ faults \in 0 .. MaxFaults

Init ==
  /\ commands = [k \in Keys |-> AbsentEntry]
  /\ next_sequence = 1
  /\ world = <<>>
  /\ leases = {}
  /\ status = "up"
  /\ cursor = 0
  /\ pc = [s \in Submitters |-> "idle"]
  /\ call = [s \in Submitters |-> NoCall]
  /\ answers = [k \in Keys |-> {}]
  /\ applied = [k \in Keys |-> 0]
  /\ crashes = 0
  /\ faults = 0

Goto(s, from, to) ==
  /\ status = "up"
  /\ pc[s] = from
  /\ pc' = [pc EXCEPT ![s] = to]

\* submit returns: its locals are gone.
Return(s, from) ==
  /\ Goto(s, from, "idle")
  /\ call' = [call EXCEPT ![s] = NoCall]

Answer(k, outcome) == answers' = [answers EXCEPT ![k] = @ \cup {outcome}]

OpOf(s)     == CommandOf[call[s].key].op
TargetOf(s) == CommandOf[call[s].key].entity

FaultBudget == faults < MaxFaults /\ faults' = faults + 1

\* The caller's mutation ran on the present world.
RecordApplied(k) == applied' = [applied EXCEPT ![k] = @ + 1]

(***************************************************************************)
(* Admission.                                                              *)
(***************************************************************************)

\* Admission::Admitted: this caller owns the execution of k.
Admit(s, k) ==
  /\ Goto(s, "idle", "admitted")
  /\ Admissible(commands, k)
  /\ commands' = admit(commands, k, next_sequence)
  /\ next_sequence' = next_sequence + 1
  /\ call' = [call EXCEPT ![s] = [key |-> k, sequence |-> next_sequence, result |-> 0]]
  /\ UNCHANGED <<world, leases, status, cursor, historyVars, budgetVars>>

\* Mutant: a retry is answered under a sequence of its own.
AdmitCompletedRenumbered(s, k) ==
  /\ status = "up"
  /\ pc[s] = "idle"
  /\ commands[k].st = "Completed"
  /\ Answer(k, [sequence |-> next_sequence, result |-> commands[k].result])
  /\ UNCHANGED <<storeVars, world, leases, status, cursor, pc, call, applied, budgetVars>>

\* Admission::Completed: the stored outcome is returned, nothing is executed.
\* (Admission::InFlight and a failing admit return an error and change nothing.)
AdmitCompleted(s, k) ==
  /\ status = "up"
  /\ pc[s] = "idle"
  /\ commands[k].st = "Completed"
  /\ Answer(k, Outcome(commands[k]))
  /\ UNCHANGED <<storeVars, world, leases, status, cursor, pc, call, applied, budgetVars>>

(***************************************************************************)
(* The world-locked path: everything but the two lease commands.           *)
(***************************************************************************)

EpochMatches(k) == ExpectedEpoch[k] \subseteq {WorldEpoch}

\* EpochMismatch returns before the match: the entry stays in flight.
RejectEpoch(s) ==
  /\ OpOf(s) \notin LeaseOps
  /\ Return(s, "admitted")
  /\ ~EpochMatches(call[s].key)
  /\ UNCHANGED <<storeVars, world, leases, status, cursor, historyVars, budgetVars>>

ExecuteOk(s) ==
  LET r == Execute(world, CommandOf[call[s].key]) IN
  /\ OpOf(s) \notin LeaseOps
  /\ Goto(s, "admitted", "mutated")
  /\ EpochMatches(call[s].key)
  /\ r.ok
  /\ world' = r.world
  /\ call' = [call EXCEPT ![s].result = r.entity]
  /\ RecordApplied(call[s].key)
  /\ UNCHANGED <<storeVars, leases, status, cursor, answers, budgetVars>>

\* The handler failed; the transition to "failed" is attempted and its own
\* error dropped.
ExecuteErr(s) ==
  /\ OpOf(s) \notin LeaseOps
  /\ Return(s, "admitted")
  /\ EpochMatches(call[s].key)
  /\ ~Execute(world, CommandOf[call[s].key]).ok
  /\ commands' = transition_state(commands, call[s].sequence, "failed")
  /\ UNCHANGED <<next_sequence, world, leases, status, cursor, historyVars,
                 budgetVars>>

(***************************************************************************)
(* The lease commands, outside the world lock.                             *)
(***************************************************************************)

AcquireLease(s) ==
  /\ OpOf(s) = "AcquireWorkLease"
  /\ TargetOf(s) \notin leases
  /\ Goto(s, "admitted", "granted")
  /\ leases' = leases \cup {TargetOf(s)}
  /\ UNCHANGED <<storeVars, world, status, cursor, call, historyVars, budgetVars>>

\* Mutant: a denied caller waits for the lease.
DenyLeaseWaits(s) == FALSE /\ UNCHANGED vars

\* Ok(false): an error for the caller, and the entry stays in flight.
DenyLease(s) ==
  /\ OpOf(s) = "AcquireWorkLease"
  /\ TargetOf(s) \in leases
  /\ Return(s, "admitted")
  /\ UNCHANGED <<storeVars, world, leases, status, cursor, historyVars, budgetVars>>

ReleaseLease(s) ==
  /\ OpOf(s) = "ReleaseWorkLease"
  /\ Goto(s, "admitted", "released")
  /\ leases' = leases \ {TargetOf(s)}
  /\ UNCHANGED <<storeVars, world, status, cursor, call, historyVars, budgetVars>>

\* acquire or release itself fails: an error, and the entry stays in flight.
LeaseFault(s) ==
  /\ OpOf(s) \in LeaseOps
  /\ Return(s, "admitted")
  /\ FaultBudget
  /\ UNCHANGED <<storeVars, world, leases, status, cursor, historyVars, crashes>>

\* Mutant: a state no WorkState variant stands for.
LeaseStateReleased(s) == IF pc[s] = "granted" THEN "Leased" ELSE "Released"

\* The WorkState that follows: Leased after a grant, Ready after a release.
LeaseState(s) == IF pc[s] = "granted" THEN "Leased" ELSE "Ready"

\* Whatever state the work was in, terminal ones included, it is overwritten.
SetLeaseState(s) ==
  LET r == put_state(world, TargetOf(s), LeaseState(s), {}) IN
  /\ pc[s] \in {"granted", "released"}
  /\ Goto(s, pc[s], "mutated")
  /\ r.ok
  /\ world' = r.world
  /\ call' = [call EXCEPT ![s].result = r.entity]
  /\ RecordApplied(call[s].key)
  /\ UNCHANGED <<storeVars, leases, status, cursor, answers, budgetVars>>

\* No such entity: an error; the lease stays as it is, the entry in flight.
SetLeaseStateErr(s) ==
  /\ pc[s] \in {"granted", "released"}
  /\ Return(s, pc[s])
  /\ ~has_entity(world, TargetOf(s))
  /\ UNCHANGED <<storeVars, world, leases, status, cursor, historyVars, budgetVars>>

\* The coordinator drops a lease whose TTL ran out.
LeaseExpires(e) ==
  /\ e \in leases
  /\ leases' = leases \ {e}
  /\ UNCHANGED <<storeVars, world, status, cursor, pc, call, historyVars, budgetVars>>

(***************************************************************************)
(* Completion.                                                             *)
(***************************************************************************)

\* Mutant: the outcome is answered and never stored.
CompleteUnstored(s) ==
  /\ Return(s, "mutated")
  /\ Answer(call[s].key, Outcome(call[s]))
  /\ UNCHANGED <<storeVars, world, leases, status, cursor, applied, budgetVars>>

Complete(s) ==
  /\ Return(s, "mutated")
  /\ commands' = complete(commands, call[s].sequence, call[s].result)
  /\ Answer(call[s].key, Outcome(call[s]))
  /\ UNCHANGED <<next_sequence, world, leases, status, cursor, applied, budgetVars>>

\* complete failed.  The world-locked path tries to free the key, which may
\* fail as well, and answers Ok either way; release answers Ok and leaves the
\* entry in flight; acquire answers with the error and leaves it in flight.
CompleteFault(s) ==
  /\ Return(s, "mutated")
  /\ FaultBudget
  /\ \/ commands' = commands
     \/ /\ OpOf(s) \notin LeaseOps
        /\ commands' = transition_state(commands, call[s].sequence, "recovery_required")
  /\ IF OpOf(s) = "AcquireWorkLease"
       THEN answers' = answers
       ELSE Answer(call[s].key, Outcome(call[s]))
  /\ UNCHANGED <<next_sequence, world, leases, status, cursor, applied, crashes>>

(***************************************************************************)
(* Crash and recovery.                                                     *)
(***************************************************************************)

Crash ==
  /\ status \in {"up", "recovering"}
  /\ crashes < MaxCrashes
  /\ crashes' = crashes + 1
  /\ status' = "down"
  /\ world' = <<>>
  /\ applied' = [k \in Keys |-> 0]
  /\ pc' = [s \in Submitters |-> "idle"]
  /\ call' = [s \in Submitters |-> NoCall]
  /\ UNCHANGED <<storeVars, leases, cursor, answers, faults>>

\* recover starts from World::new() whatever the snapshot says.
BeginRecovery ==
  /\ status = "down"
  /\ status' = "recovering"
  /\ cursor' = 0
  /\ world' = <<>>
  /\ UNCHANGED <<storeVars, leases, pc, call, historyVars, budgetVars>>

ToReplay == completed_after(commands, cursor)

\* apply_recovered_command on the next completed command in sequence order.
ReplayNext(k) ==
  LET c == CommandOf[k] IN
  /\ status = "recovering"
  /\ IsFirst(commands, ToReplay, k)
  /\ ReplayVerdict(world, c, commands[k].result) = "ok"
  /\ world' = Execute(world, c).world
  /\ RecordApplied(k)
  /\ cursor' = commands[k].sequence + 1
  /\ UNCHANGED <<storeVars, leases, status, pc, call, answers, budgetVars>>

\* A replay that errs or panics ends the daemon before it serves anyone, and
\* does so again on every later start.
ReplayFails(k) ==
  /\ status = "recovering"
  /\ IsFirst(commands, ToReplay, k)
  /\ ReplayVerdict(world, CommandOf[k], commands[k].result) # "ok"
  /\ status' = "halted"
  /\ UNCHANGED <<storeVars, world, leases, cursor, pc, call, historyVars, budgetVars>>

\* Each unresolved command is freed, in sequence order, after the replay.
Reconcile(k) ==
  /\ status = "recovering"
  /\ ToReplay = {}
  /\ IsFirst(commands, unresolved(commands), k)
  /\ commands' = transition_state(commands, commands[k].sequence, "recovery_required")
  /\ UNCHANGED <<next_sequence, world, leases, status, cursor, pc, call, historyVars,
                 budgetVars>>

FinishRecovery ==
  /\ status = "recovering"
  /\ ToReplay = {}
  /\ unresolved(commands) = {}
  /\ status' = "up"
  /\ UNCHANGED <<storeVars, world, leases, cursor, pc, call, historyVars, budgetVars>>

(***************************************************************************)
(* The specification.                                                      *)
(***************************************************************************)

Continue(s) ==
  \/ RejectEpoch(s) \/ ExecuteOk(s) \/ ExecuteErr(s)
  \/ AcquireLease(s) \/ DenyLease(s) \/ ReleaseLease(s) \/ LeaseFault(s)
  \/ SetLeaseState(s) \/ SetLeaseStateErr(s)
  \/ Complete(s) \/ CompleteFault(s)

Submit(s) ==
  \/ \E k \in Keys : Admit(s, k) \/ AdmitCompleted(s, k)
  \/ Continue(s)

Recover ==
  \/ BeginRecovery
  \/ \E k \in Keys : ReplayNext(k) \/ ReplayFails(k) \/ Reconcile(k)
  \/ FinishRecovery

Next ==
  \/ \E s \in Submitters : Submit(s)
  \/ \E e \in leases : LeaseExpires(e)
  \/ Crash
  \/ Recover

Spec == Init /\ [][Next]_vars

\* A call that entered submit goes on (no step of it waits for another call
\* to end), and a daemon that is down is started and recovers.  Nobody is
\* obliged to call submit, and crashes and faults are never obliged to happen.
Fairness ==
  /\ \A s \in Submitters : WF_vars(Continue(s))
  /\ WF_vars(Recover)

FairSpec == Spec /\ Fairness
(***************************************************************************)
(* Properties.                                                             *)
(***************************************************************************)

Executing(s, k) == pc[s] # "idle" /\ call[s].key = k

\* Admission gives a key to one caller at a time: between admit and its return
\* a submit call is the only one executing its key, and the store holds that
\* key in flight under the very sequence the caller was given, so the
\* sequence scan of complete finds the caller's own entry and no other.
SoleOwner ==
  \A s \in Submitters : pc[s] # "idle" =>
    /\ InFlightWith(commands, call[s].sequence) = {call[s].key}
    /\ \A t \in Submitters \ {s} : ~Executing(t, call[s].key)

\* While the daemon serves, the mutation of every completed command is in the
\* world exactly once and that of every other command at most once, across
\* duplicate submissions, crashes between mutation and completion, and
\* recovery's replay - as long as no complete call has failed.
ExactlyOnce ==
  (status = "up" /\ faults = 0) =>
    \A k \in Keys : IF commands[k].st = "Completed" THEN applied[k] = 1
                                                   ELSE applied[k] <= 1

\* No caller was ever told an outcome that the store does not hold as the
\* completed outcome of its key (durable before acknowledged), so every
\* caller of a key is told the same outcome, before and after a crash.
AnsweredIsJournaled ==
  \A k \in Keys : answers[k] # {} =>
    commands[k].st = "Completed" /\ answers[k] = {Outcome(commands[k])}

\* The same, as long as no store or lease call has failed.
AnsweredIsJournaledUnlessFault == faults = 0 => AnsweredIsJournaled

\* A completed command is final: no submit, fault, crash or recovery step
\* changes its sequence or result or takes the key back.
CompletedIsFinal ==
  [][\A k \in Keys : commands[k].st = "Completed" => commands'[k] = commands[k]]_vars

\* recover always reaches the end: replay never errs and never panics.
RecoveryNeverHalts == status # "halted"

JournaledAt(q) == {k \in Keys : commands[k].st = "Completed" /\ commands[k].sequence = q}

\* The world that replaying the journal in sequence order produces.
Rebuilt ==
  LET upto[q \in 0 .. next_sequence] ==
        IF q = 0 THEN <<>> ELSE
        IF JournaledAt(q - 1) = {} THEN upto[q - 1] ELSE
        Execute(upto[q - 1], CommandOf[CHOOSE k \in JournaledAt(q - 1) : TRUE]).world
  IN  upto[next_sequence]

\* Whenever no call is half way through submit, the world a live daemon serves
\* is the one that replaying the journal in sequence order produces: a crash
\* at that moment loses nothing and changes nothing.
JournalReproducesWorld ==
  (status = "up" /\ \A s \in Submitters : pc[s] = "idle") => world = Rebuilt

\* Every submit call returns (or dies with the process).
SubmitReturns == \A s \in Submitters : pc[s] # "idle" ~> pc[s] = "idle"

\* A key that was in flight when the process died is not blocked for ever:
\* recovery frees it, unless the replay ends the daemon.
InFlightFreedByRecovery ==
  \A k \in Keys : (status = "down" /\ commands[k].st = "InFlight")
                    ~> (commands[k].st # "InFlight" \/ status = "halted")

(***************************************************************************)
(* What clients see of all this is a log of outcomes.                      *)
(***************************************************************************)

Recorded == [k \in Keys |-> IF commands[k].st = "Completed" THEN {Outcome(commands[k])}
                                                           ELSE {}]

Log == INSTANCE CommandLog WITH journal <- Recorded, told <- answers, failures <- faults

\* To its clients the kernel, with its racing callers, leases, crashes and
\* recoveries, is the log: a command becomes durable and answered in one step,
\* once, a retry is told the same, and only the failure of a port call can
\* have a client told something else.
ImplementsCommandLog == Log!Spec

(***************************************************************************)
(* The inductive invariant behind the safety properties.                   *)
(***************************************************************************)

Filed(k) == commands[k].st # "Absent"

\* Sequences are handed out once and upwards.
SequencesUnique ==
  /\ \A k \in Keys : Filed(k) => commands[k].sequence < next_sequence
  /\ \A j, k \in Keys :
       (Filed(j) /\ Filed(k) /\ commands[j].sequence = commands[k].sequence) => j = k

\* A working caller holds its key in flight, and no two hold the same key.
Ownership ==
  /\ \A s \in Submitters : pc[s] # "idle" =>
       /\ commands[call[s].key].st = "InFlight"
       /\ commands[call[s].key].sequence = call[s].sequence
  /\ \A s, t \in Submitters :
       (pc[s] # "idle" /\ pc[t] # "idle" /\ call[s].key = call[t].key) => s = t

\* Nobody is inside submit while the daemon is not serving.
OnlyUpServes == status # "up" => \A s \in Submitters : pc[s] = "idle"

OwnInv == SequencesUnique /\ Ownership /\ OnlyUpServes

HasMutated(k) == \E s \in Submitters : Executing(s, k) /\ pc[s] = "mutated"

\* Which mutations the present world contains: while serving, those of the
\* completed commands and of callers about to complete; during the replay,
\* those below the cursor.
AppliedCount ==
  faults = 0 => \A k \in Keys :
    /\ status = "up" => applied[k] = IF commands[k].st = "Completed" \/ HasMutated(k)
                                       THEN 1 ELSE 0
    /\ status = "down" => applied[k] = 0
    /\ status = "recovering" =>
         applied[k] = IF commands[k].st = "Completed" /\ commands[k].sequence < cursor
                        THEN 1 ELSE 0

\* The inductive invariant: unique sequences and ownership of keys, what the
\* world contains in every phase of a crash and recovery, and what callers
\* were told.
KernelInv == OwnInv /\ AppliedCount /\ AnsweredIsJournaledUnlessFault
============================================================================
