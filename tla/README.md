# A TLA+ verification project for prism-engine

prism-engine runs an entity-component world behind a kernel: every state change
is a command, submitted under an idempotency key, recorded in a durable command
store, and replayed after a crash. A schedule of eight stages moves work items
through that world by submitting commands of its own. Beside the kernel stand the
transactions on the same kind of world, the inference server that streams
generations to its clients, and the MCP daemon that runs tools for agents. This
project models these parts, model-checks them with TLC, and proves with TLAPS
every safety property of theirs that the passing runs check, for all values of
the constants.

Paths below are relative to `crates/prism-ecs-runtime/src` unless they start
with another top-level directory.

## 1. Inventory

| Component | State it keeps | Operations | Interaction | What is hard |
|---|---|---|---|---|
| Command dispatch (`kernel/command_dispatch`) | none of its own | `submit`, 8 infrastructure and 25 lifecycle handlers | store mutex, then lease coordinator, then world lock, never two at once | races of callers, failure between mutation and completion |
| Command store (`ports/mod.rs`, `test_adapters.rs`) | key -> InFlight, RecoveryRequired or Completed; next sequence | `admit`, `complete`, `transition_state`, `completed_after`, `unresolved` | called by submit and recover | duplicates, retries, entries that never resolve |
| Recovery (`kernel/executor_loop.rs`, `replay.rs`) | rebuilds the world | `recover`, `apply_recovered_command` | before the daemon serves | order of replay, crash during recovery, panics |
| Lease coordination (`submit.rs`, Valkey in the daemon) | held lease keys with TTL | acquire, release | lease commands, outside the world lock | expiry, leaks, denial |
| Work schedule (`schedule.rs`) | `active_dispatches`, the tick's command buffer | eight stages, `run_tick` | reads the world, submits commands, calls the dispatcher | stale views, aborted ticks, cancellation races |
| Inference metadata (`inference.rs`) | phase and token counters per work item | chunking, counting, reservation | used by Admit, Dispatch, Collect | boundaries, conservation of tokens |
| ECS world (`crates/prism-ecs-core/src/world.rs`) | entities, generations, components | spawn, add, remove, despawn | behind one RwLock | slot reuse, stale handles |
| World transactions (`crates/prism-ecs-constitutional/src/world_txn`) | staged operations, expected epoch, read versions | stage, prepare, apply, transit | applied to the world, beside direct mutations | lost updates, stale reads, id allocation, conflicting operations |
| Inference server (`crates/prism-ecs-server/src/runtime`) | sessions, cancellation set, one KV cache per model runtime, an event channel per generation | create, close, cancel, generate | HTTP handlers drain the channels; generations share the runtime | cancellation by session, shared cache, slow or vanished clients |
| MCP daemon (`prism-mcpd`, `prism-mcp-core/src/scheduler.rs`) | work queue, response channels, permits per tool | read, schedule, run, time out, answer, write | threads over bounded channels and one mutex | blocking sends, late results, lost permits |
| Schedule graph (`schedule.rs`) | system specs | register, validate, topological sort | once at start | pure algorithm |
| KV cache arena, lane slot leases (`crates/prism-kv-cache`, `schedule/lane_slot_lease.rs`) | pages, references, slots | allocate, share, evict, lease | no serving path calls them | reference counts, reader/writer exclusion |
| Daemon (`src/daemon/mod.rs`) | tick thread, sessions | start, recover, tick loop | owns the kernel | fail-closed start |
| MCP stores, agents, protocol, compiler, quantization, device runtimes, media, front ends | various | I/O, formats, numerics | through kernel commands | outside this project |

Properties that make each modelled component correct: one executor per key;
every completed command in the world exactly once, across crashes; nobody told
an outcome that is not stored; a completed outcome never changes; the journal
reproduces the world; every call returns and every key comes free; no tick
command refused; a result published before it is discarded; one execution of a
work item at a time; terminal states that are final; admission within capacity
and tokens; token counters that add up; every work item ends. For the
transactions: commits are serial, reads current, ids distinct, the journal
complete. For the servers: every request and every stream ends with one true
answer, whoever hangs, leaves or cancels; a tool runs within its limit; a cancel
stops what it was meant for and nothing more; a generation sees its own context.

`PROJECT.json` lists the components with their status and the hazards, each at
the line where it bites.

## 2. Modules

| Module | Models | Notes |
|---|---|---|
| `KernelWorld` | the handlers of `submit.rs`, `envelope.rs`, `replay.rs` as functions on a world | a world is the sequence of its entities; an entity is its WorkState, the set of its other components and its inference metadata |
| `CommandStore` | the store port as `InMemoryCommandStore` implements it | pure operators on the map from key to entry; each call is atomic under the store's mutex |
| `CommandKernel` | concurrent `submit`, port failures, crash, `recover` | composes the two above |
| `WorkSchedule` | the tick, its clients, the dispatcher | uses `KernelWorld` |
| `CommandLog` | what clients of the kernel may rely on | the abstract specification: a log of outcomes, without callers, leases, crashes or recovery |
| `InferenceServer` | sessions, cancellation and generation tasks over one runtime per model | |
| `McpDaemon` | connections, scheduler and tool workers | |
| `WorldTxn` | transactions and direct mutations on one world | |
| `CommandKernelProofs`, `RecoveryProofs` | theorems about `CommandKernel` | the second about replay |
| `CommandLogProofs` | that `CommandKernel` implements `CommandLog` | |
| `WorkScheduleProofs`, `WorldTxnProofs`, `McpDaemonProofs`, `InferenceServerProofs` | theorems about the module of that name | |
| `DataLemmas` | induction on sets of numbers, maxima, sorting, concatenation, sums | used by three of the proof modules |
| `MC...` | instances for TLC | |

What a proof speaks about is written without `RECURSIVE` operators: where the code
loops (the sort by priority, Admit's accumulator, the sum of reserved tokens, the
replay of the journal) the model has a recursive function.

### How `CommandKernel` corresponds to the code

A caller's `pc` is where it stands inside `submit`: `idle`, `admitted` (the store
answered Admitted), `granted`/`released` (the coordinator answered, the state is
not yet written), `mutated` (the world is changed, `complete` is not yet called).
Between two of these another caller may run, because `submit` never holds two
locks. A whole world-locked handler is one step. `Admission::InFlight` and an
error of `admit` change nothing and are not steps.

| Action | Code |
|---|---|
| `Admit`, `AdmitCompleted` | the admission match of `submit` |
| `RejectEpoch`, `ExecuteOk`, `ExecuteErr` | the world-locked path |
| `AcquireLease`, `DenyLease`, `ReleaseLease`, `LeaseFault` | the coordinator call of a lease command |
| `SetLeaseState`, `SetLeaseStateErr` | the WorkState write after it |
| `Complete`, `CompleteFault` | the `complete` call, and its failure as each of the three paths handles it |
| `Crash` | the process dies: world and callers are gone, store and leases stay |
| `BeginRecovery`, `ReplayNext`, `ReplayFails`, `Reconcile`, `FinishRecovery` | `recover`, in its order |
| `LeaseExpires` | external: the TTL runs out |

`answers` and `applied` are history variables: what callers were told, and how
often each key's mutation ran on the present world.

The world's epoch is the constant 0: no kernel command advances it. A key always
stands for the same command (a second envelope under the same key is ignored by
the store, which compares keys only). An error of a store call inside `recover`
makes the start fail and is the same as a crash there.

The durable `PostgresCommandStore` the daemon connects to is not part of the
repository; the model takes the semantics of the one implementation that is.

### The kernel as a log

`CommandLog` keeps, per key, the recorded outcome (at most one), what clients were
told, and the number of failed port calls. `Record` stores and answers in one
step, `Repeat` answers again, `Fail` may have a client told something that is not
recorded. `CommandKernel` implements it (`ImplementsCommandLog`) under the mapping
`Recorded`: the recorded outcomes are the completed entries of the store.
Admission, execution, leases, crashes and the whole of recovery change nothing
of it.

### How `WorkSchedule` corresponds to the code

`stage` is the stage the tick is at, `buffer` what it emitted and has not yet
submitted. Each stage is one action on the world as it is (the lock is held);
each submitted command is a step of its own, and clients, the dispatcher, the
clock and the lease TTL run in between. A lease command is two steps. `late`
says that `should_stop` cut the stage's loop short, after which the next stage's
deadline check ends the tick. An error of a submit drops the buffer and ends the
tick. `active` and `job` are `active_dispatches` and what `poll` would answer;
`Collect` visits the handles in any order (`swap_remove`). It asks the dispatcher
to cancel and ignores the answer, so an execution it gives up may run on: it is
then in `stray` until it ends by itself. `Lingers` bounds the work for which that
happens (the first item where safety is checked; a stray execution touches
nothing that the schedule reads). `StartOutcomes` merges provider selection,
artifact validation and `start` into what they come to.

The idempotency key of every tick command is fresh, so in this module a submit is
its effect on world and leases; the store is `CommandKernel`'s subject. A
`complete` that fails is answered Ok, except after an acquire (`FinishLeaseFault`).

### How `InferenceServer` corresponds to the code

A generation is the task that `generate` spawns. It gives up the processor only
where it awaits room in its channel, so its state is the event it is about to
send, and a step goes from one send to the next wait: `SendStatus` (prefill, then
the head of the decode loop), `SendToken` (decode, then the head), `SendFinal`
(the terminal event). Tasks run on several threads, but within a
step a task takes the cache's mutex once and then the cancellation set's once,
so whatever others do in between commutes with one of the two. A task that has
sent its last event is `Returning`; `Cleanup`, a step of its own, is the drop of
its `CancellationCleanup` guard, which clears the session's cancellation. In
between the handler can answer the client and the client can act: `Receive` and
`DropReceiver` are the HTTP handler, which answers at once when it receives an
error, and after `Done` when the channel closes, which is after the cleanup.
`Generate` waits for neither, since any client may start one at any time. A cache is the set of generations whose tokens are in it. The model covers the
direct forward path; the KV epochs and
dispatch records that `generate` writes are left out since nothing reads them.
`cancels`, `asked`, `overshoot`, `crowded`, `hurried`, `overlapped` and `foreign`
are history. A generation is `crowded` when another one of its session was running
beside it, and `hurried` when it started before the cleanup of an
earlier one of its session; `Alone` are the generations that are neither.

### How `McpDaemon` corresponds to the code

`prism-mcpd` is a crate of the repository outside its Cargo workspace, with a
manifest of its own; it is built on the workspace's `prism-mcp-core`.

`at` is the thread that has a request's frame: the connection's reader, the work
queue, the scheduler (`replying`, or `limited` while it sends RATE_LIMITED inside
the block that locks the permits), or the workers. A tool call has two threads:
`handler` runs the tool, puts its result where the waiter looks for it and then
returns the permit; `waiter` waits for the result up to the tool's timeout and
answers. A reader goes on with the lines in its socket after the client has gone,
until its answer to a health request finds no writer (`lost`). Every send into a
channel blocks while it is full and fails once the
writer has gone. Time is abstract: a timeout may fire whenever there is no result.
A panic of a handler exists in unwinding builds only (the release profile aborts).

### How `WorldTxn` corresponds to the code

A transaction is what was read before it, the epoch it was opened at and the
operations staged. `Prepare` and `Reject` are `prepare_inner` with its checks in
order, `ApplyPrepared` is `apply_prepared`, `ApplyPanics` its assertion, `Transit`
the two in one call. `DirectSpawn` and `DirectInsert` are mutations that the
Bootstrap policy, the default, lets through; `dirty` remembers which transactions
they overlapped, and `snap` and a read's `row` what a transaction saw. `log` puts
the journals of the commits one after the other: the world keeps only the last.

## 3. Runs

| Run | Bounds | Shows |
|---|---|---|
| `kernel_concurrent` | 2 callers (symmetric), 4 keys, 1 crash, 1 fault | ownership, exactly-once, answered outcomes, finality, and the inductive invariant |
| `kernel_liveness` | 2 callers, 3 keys incl. an epoch mismatch and a lease, 2 crashes, 1 fault | calls return, recovery frees keys |
| `kernel_serial` | 1 caller, 5 keys incl. every kind of creation, 2 crashes | the journal reproduces the world, recovery finishes - for calls one after the other; for two callers neither holds (`recovery_cut`, section 6) |
| `schedule_safety` | 2 work items, capacity 1, batches of 1, two-chunk prompt with deadline, 1 fault | lease commands, publication before cleanup, capacity |
| `schedule_tokens` | 2 inference items (one with an empty prompt), 4 in-flight tokens, 1 fault | token accounting and admission |
| `schedule_liveness` | 2 short work items, capacity 2, 1 fault | every work item ends |
| `inference_serving` | 2 generations on one session that is cancelled (once) and closed, 2 tokens each, a channel of capacity 1 | cancellation, streams, the cache of a generation that runs alone, and that every stream ends |
| `mcp_daemon` | 2 connections, 5 requests of every kind, one tool with limit 1, queue and channels of capacity 1, 1 panic | permits, one true answer per request, and that every request is answered |
| `world_txn` | 2 symmetric transactions of 2 operations, one durable and one transient component, 1 direct mutation | serial commits, current reads, allocation, the journal |
| `recovery_cut`, `finished_final`, `inference_cache` | the least that shows it | the code disagrees with its own documentation; see section 6 |

Why the bounds are enough: two callers are enough for every race on a key or on
the order of two keys, since ownership is per key and each action touches one
caller; the chosen commands cover one that creates, one that depends on the
creation, and both lease commands. Two crashes allow a crash during recovery and
another use after it. One fault separates every failure path from the rest; two
work items are the least that compete for a capacity of one, and a prompt of two
chunks the least with a middle. The limit of 64 of the scanning stages is kept at
the code's value and not reached; that of 32 of the others is 1 in
`schedule_safety`, so that Publish and Cleanup leave work behind. Channels of capacity one are full whenever a
send can find them full (64 and 256 in the code); two tokens are the least for
which polling once differs from polling always; one session is enough for
cancellation, which is kept per session, and for a cache that is kept per model (the theorems
of section 4 hold for any number of either); two callers of a tool with limit
one are the least that meet it. Two transactions are the least that conflict, and
two operations the least that make a pair of spawns, a duplicate, or an insert
and a removal of one component. `MaxId` bounds the ids: `Fits` keeps a transaction
from committing spawns beyond it, where the code's u64 would go on.

`CHECK_DEADLOCK FALSE` stands in the kernel runs in which a failing replay halts
the daemon for good, or all keys are stuck in flight: the system really stops
there. It stands in the runs of the servers and of the transactions because their
clients may be done: nothing is left to serve. The schedule runs check deadlock.

### Fairness

`InferenceServer`: a spawned task that can go on is polled, and a handler that
is there reads until the stream ends (`WF` for both). Clients owe nothing: they
may cancel, close or go away at any time.

`McpDaemon`: the scheduler, the readers, the writers, the waiters and the release
of a permit are threads that run when they can (`WF` for each). A writer's step
includes that a connected client reads; one that stays and never reads blocks
the scheduler for everyone, so without it `EveryRequestAnswered` fails: the property
assumes that hazard away (`scheduler.rs:280` in the list of hazards). A tool
need not return, and no client need send or stay.

`CommandKernel`: a caller inside `submit` goes on (`WF` per caller), since no step
waits for another caller and mutexes are held for one step; a daemon that is
down is restarted and recovers (`WF(Recover)`). Nobody is obliged to submit, and
crashes and faults never have to happen; both are bounded.

`WorkSchedule`: the tick thread never stops (`src/daemon/mod.rs`: errors are
logged, the loop goes on) - `WF(Tick)`; every dispatch ends - `WF` per item.
Clients, deadlines and lease expiry carry no fairness. `EveryWorkEnds` is claimed
only with room for all items: with less, work that Cleanup puts back to Ready
keeps the capacity and starves the rest (section 6). For the same reason
`AdmissionWithinCapacity` speaks of the step that admits: finished work leaves the
count, another item is admitted in its place, and Cleanup's Ready brings the
first one back, so that between admissions the count may exceed the capacity
(`schedule.rs:303-305` bounds it without that exception).

## 4. Proofs

Each theorem holds for every value of the constants that the named assumptions
allow, so for any number of keys, callers, work items, transactions, requests or
generations, any limits, and any bound on crashes and faults. The runs show the
same formulas on small instances first.

### The kernel

`CommandKernelProofs`, from `KeysAssumption` (each key has a well-formed command),
`BoundsAssumption` and `KeysNonEmpty`:

* `TypeCorrect` - one lemma per handler that a well-typed world stays one, then one
  case per action;
* `SoleOwnerHolds` - from `OwnInv`: sequences are below `next_sequence` and unique
  (`SequencesUnique`); a caller inside `submit` holds its key in flight under its
  own sequence, and no two hold one key (`Ownership`); nobody is inside `submit`
  unless the daemon is up (`OnlyUpServes`). `SoleOwner` alone is not inductive:
  that `complete`'s scan by sequence finds one entry needs uniqueness, and a crash
  needs the last part;
* `ExactlyOnceHolds` - from `AppliedCount`, which says for each phase what the
  present world contains: while up, the completed commands and those of callers
  between mutation and completion; while recovering, the completed commands
  below the cursor. `ExactlyOnce` says nothing of a recovering daemon and so
  could not carry over a restart;
* `CompletedIsFinalHolds` - an action property, faults included: no store
  operation touches a completed entry;
* `AnsweredIsJournaledHolds` - while no port call failed, from finality and ownership;
* `KernelInvHolds` - their conjunction, which `kernel_concurrent` checks as well.

`CommandLogProofs` proves `ImplementsCommandLogHolds`, the refinement, faults
included: the initial states map to the empty log; each action is a stuttering
step of the log, except `Complete` (a `Record` step), `AdmitCompleted` (`Repeat`)
and the two fault actions (`Fail`). It needs `OwnInv`: that `complete` records the
caller's own key, for the first time and under a sequence no other recorded
outcome has, is ownership and uniqueness of sequences.

`RecoveryProofs` proves `RecoveryNeverHaltsSerially` and
`JournalReproducesWorldSerially`, both for executions that are always `Serial`:
calls do not overlap, none is about a lease, no port call fails. Crashes may come
anywhere, in the middle of a call or of a recovery. The code needs each of
the three conditions: overlapping calls may run in another order than their
sequences, and even in that order one may complete on a
mutation of another's that a crash then loses (run `recovery_cut`); replaying a lease
command panics; and a failed
`complete` leaves a mutation without an entry (section 6). `kernel_serial` is the
instance on which TLC checks both without the hypothesis. The invariant `ReplayInv`
says that there is a function `H` from sequence numbers to worlds such that
`H[q]` is the world after replaying everything recorded below `q`, every one of
these replays giving the stored result (`Replays`), and that the present world is
`H[next_sequence]` when nobody is half way, one command ahead of it when a caller
has mutated, and `H[cursor]` during recovery (`Follows`). A crash loses the
world and not `H`; that is why recovery ends where the daemon was. That the
caller at work was admitted last (`Latest`) makes its entry extend `H` at the end.

### The work schedule

`WorkScheduleProofs`, from `ClaimsAssumption` and `LimitsAssumption`. The difficulty
is that a stage computes its commands on one view of the world and they run one
by one while clients, the dispatcher and the clock change it. `ScheduleInv` is:

* `Buffered` - no operation stands twice for an entity (`Unrepeated`), and what a
  command was computed from is still so when it runs (`StillTrue`): its entity exists, the
  progress it carries is the next after the recorded one;
* `HalfDone` - a lease command past the coordinator is the head of the buffer;
* `LeasesHeld` - a held lease belongs to work that was leased and not put back, and
  no stage asks for one that is held;
* `HandlesLive` - a handle stands for a dispatch that was started, one per entity;
* `TypeOK` and `ProgressConserved`, the token counters against the claim.

A command changes only its entity, in a way that depends on the command alone
(`Touches`, `Effect`), so a command leaves the others in the buffer true
(`WorldStep`), and clients submit nothing that undoes what a buffered command rests
on. Each stage is shown to emit only what may be in the buffer. From this:
`TypeCorrect`, `TickCommandsAcceptedHolds`, `ProgressConservedHolds`.

`AdmissionWithinCapacityHolds` and `AdmissionWithinTokensHolds` need `AdmitsFit` as
well: the work admitted already, together with all that the buffer still admits,
fits the capacity, and the in-flight tokens if inference work is among it. It
follows for a fresh buffer by induction over Admit's loop, and it
stays true since no other command in such a buffer admits or raises a reservation.

`PublishedBeforeDiscardedHolds` needs `ResultsKept`: no order in the buffer discards an
unpublished result, its handle is gone (so no later FailWork hits it), and once
Publish has run to its end every unpublished result either has its order in the
buffer or is outnumbered: at least `MaxBatch` finished items come before it.
Publish takes the first `MaxBatch` unpublished results and Cleanup the first
`MaxBatch` finished items, and the former are among the latter, so Cleanup picks
up no result that Publish left; the proof counts both with cardinalities. A
cancellation in between only adds finished items.

### World transactions

`WorldTxnProofs`, from `TxnAssumption` (finitely many transactions, components
either durable or transient). `WorldInv` joins `TypeOK` and `AllocatorAligned` with
`StagedWell` (pending operations name pending spawns; prepare leaves none) and
`EpochCounts` (the epoch is the number of commits, hence never the same twice). `TxnInv`
says, of a transaction no direct mutation overlapped: while the epoch is the one it
was opened at, the world is the one it was opened on (`OpenedOn`); what it read
changes only with the version it recorded (`ReadsOn`); and what prepare checked stays so
until the epoch moves (`PreparedOn`). Every action builds a transaction, commits
one, or is a direct mutation, and the proofs go by these three kinds of step
instead of by action. From this: `AllocatorAlignedHolds`, `CommitsSerializeHolds`,
`ReadsAreCurrentHolds`, `SpawnsAreDistinctHolds`. `JournalReplaysHolds` shows that
appending a commit's entries to the log does to the replayed state what the commit
does to the world: a removal wins over an insert beside it, both over the past.

### The servers

`McpDaemonProofs`, from `DaemonAssumption`: the count behind the mutex is the number
of handlers that run, have returned and not released, or panicked, and within
the limit (`Permits`); a request is with exactly one thread, or with one handler
and one waiter (`Workers`). This gives `PermitsAccountedHolds` and
`RunningWithinLimitHolds`. `AnsweredOnceTruthfullyHolds` adds that a request with an
answer is one its thread is done with (`Answered`), and that a waiter's decision is
true of its handler (`Decided`) and stays so, since handlers only move forward.

`InferenceServerProofs`, from `ServerAssumption`: `StreamEndsOnceHolds` from what a
stream holds at each point of its task (`Counted`, `Streams`); `CancelStopsSoonHolds`
from `Pending`, that a task alone on its session still finds the request to stop
(a cleanup that clears it is its own, or of an earlier task, and then this one is
hurried);
`OneCancelOneVictimHolds` from `Unspent`, that a request nobody is ending on is one
more than the victims, where a victim counts as ending until its cleanup;
`AloneSeesOwnContextHolds` from `Clean`, that the cache of a
task alone on its runtime holds its tokens only. `Shared` makes "alone" precise:
of two tasks of a session that have not both cleaned up, whoever still runs is
marked, and at most one is alone; of two that run on one runtime both are marked.

### Only model-checked

Liveness, which is outside the prover's reach: `SubmitReturns`,
`InFlightFreedByRecovery`, `EveryWorkEnds`, `EveryStreamEnds`, `EveryRequestAnswered`.
Recovery of overlapping calls is not proved, since it fails (`recovery_cut`): the theorems ask that calls do not overlap at all.

## 5. What is not modelled

Snapshot contents and checksums (recover compares and logs them only), payload
text and digests, u32 saturation of token counts, the separate chunk limits (their
minimum is one constant), a schedule without dispatcher, errors of `parse_backend`,
poisoned locks, lease TTL as a time (expiry may happen at any moment), restarts
in `WorkSchedule`, and the components marked `not_modelled`. Of the inference
server, the canonical runtime, image and audio conditioning and the compute-core
stream (which forwards Done as it comes, so that its clients can meet the window
before the cleanup after every generation); of the MCP daemon, start-up, accepting, signals, health probes and the
tools themselves; of the transactions, the schema catalogue and the payload of
events. The KV cache arena, the layered cache and the lane slot leases are
libraries without a caller on a serving path: a model would have to make up
the order in which they are called. Compiler, IR, quantization, device runtimes
and media, by far most of the repository's lines, are sequential numerics, file
formats and hardware calls outside TLC's reach.

## 6. Where the code and its documentation disagree

* `recovery_cut`: the world lock is dropped before `complete`. A first command has
  mutated the world, a second one runs after it and completes, the process dies.
  The first is not in the journal, so replay gives the second other entity ids
  than its stored result names, and recovery fails at every start. Here the
  order of the sequences is the order of the lock.
* `finished_final`: releasing the lease of finished work, which Cleanup does for
  all of it, makes it Ready again; it is leased and dispatched in the next tick.
  In the trace a dispatch is refused, the work fails, and is Ready when the tick ends.
* `inference_cache`: generations of one model share the runtime's KV cache, with
  no lock from prefill to the last decode; two that run together decode on each
  other's tokens, although each has pages of its own on record.

Met while modelling, without a run of their own:

* Sequences are drawn before the world lock is taken. Of two callers, the one
  admitted second may take the lock first; replay in sequence order then allocates
  other entity ids than those in the world that is served, also without a crash
  in between (`JournalReproducesWorld` fails for two callers and no crash).
* A `complete` that fails is answered Ok, although `submit` says that the journal
  records the outcome (`ImplementsCommandLog` has a `Fail` step for it).
* The Lease stage asks for the lease of work that is Ready; a client may cancel
  the work before the command has the world lock; the command writes Leased over
  Cancelled, and the work goes on to be dispatched.
* A cancelled execution that outlasts its cancellation may run beside the next one
  of the same work, and both carry attempt 1 and plan generation 0, the numbers
  that are to tell them apart. (The daemon's own dispatcher refuses the first
  start after a cancellation; that fails the work, and Cleanup makes it Ready
  for another.)
* A cancelled generation is reported to its client before its task clears the
  cancellation, so the client's next generation can find it and end too; or the
  client cancels that next one and the cleanup of the first clears the request.
  `cancel.rs` says that clearing lets a later generation proceed.
  `CancelStopsSoon` and `OneCancelOneVictim` except the generations that start in
  this window (`hurried`).
* A completed lease command is replayed into an arm that `envelope.rs` declares
  unreachable, so a daemon with one in its journal panics at every start;
  `kernel_serial` has no lease command for this reason.
* A command whose handler failed stays in flight until the next restart, since
  the store refuses the target state "failed" that `submit` asks for.
* `txn.rs` says that an insert beside a removal of one component is detected as a
  conflict. It is not; the removal wins, and the journal agrees (`JournalReplays`).
* `scheduler.rs` of the MCP core says that a released permit lets the scheduler
  dequeue the next waiting request. Requests beyond the limit do not wait, they
  are answered RATE_LIMITED.
* Two generations on one session share its cancellation: the first to end clears
  it for both (`CancelStopsSoon` excepts them). A cancel for an idle session ends
  the next generation (`OneCancelOneVictim` bounds the harm to one).

## 7. Plan

1. Done: `KernelWorld`, `CommandStore`, `CommandKernel`, `WorkSchedule`,
   `InferenceServer`, `McpDaemon`, `WorldTxn`, `CommandLog`, their runs, and the
   proofs of section 4.
2. An abstract specification of the transactions (a serial history of commits) and of
   the daemon (one outcome per request), and proofs that the modules implement them.
3. Schedule graph: the topological sort against a reference definition.
4. Despawn, slot reuse and stale handles of the ECS world, once a transaction or
   a command despawns.
