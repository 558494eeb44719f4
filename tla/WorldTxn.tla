------------------------------ MODULE WorldTxn ------------------------------
(***************************************************************************)
(* World transactions (crates/prism-ecs-constitutional/src/world_txn/txn.rs *)
(* on the world of crates/prism-ecs-core/src/world.rs).                    *)
(*                                                                         *)
(* A system reads the world, opens a transaction against its epoch, stages *)
(* spawns, component inserts and component removals, and commits: prepare  *)
(* validates and resolves without changing anything, apply_prepared makes  *)
(* every change and advances the epoch.  Systems interleave between these  *)
(* calls, each of which has the world to itself.  A world whose mutation   *)
(* policy allows it can also be changed directly, past the transactions.   *)
(*                                                                         *)
(* The transactions that callers build never despawn, so an entity's       *)
(* generation stays 0 and a handle is an id.  A component's value is the   *)
(* transaction that wrote it.  Events and the schema catalogue, which      *)
(* transit does not pass, are left out.                                    *)
(***************************************************************************)
EXTENDS Naturals, SequencesExt

CONSTANTS
  Txns,
  Durable,     \* component types that are journaled and replayed
  Transient,   \* component types that are not
  MaxId,       \* bound: entity ids
  MaxStaged,   \* bound: staged operations of a transaction
  MaxDirect,   \* bound: direct mutations
  None

ASSUME TxnAssumption ==
  /\ Durable \cap Transient = {}
  /\ None \notin Txns \cup {"direct"}
  /\ IsFiniteSet(Txns)
  /\ MaxId \in Nat \ {0}
  /\ {MaxStaged, MaxDirect} \subseteq Nat

VARIABLES
  meta,      \* entity_meta: which slots are occupied
  next_id,   \* the allocator
  comps,     \* component store: who wrote the component, or None
  versions,  \* component_versions: writes per entity
  epoch,     \* the world epoch
  txn,       \* the transactions
  log,       \* history: the journals of all commits, one after the other
  directs,   \* number of direct mutations
  dirty      \* history: transactions that a direct mutation overlapped

world == <<meta, next_id, comps, versions, epoch>>
vars  == <<world, txn, log, directs, dirty>>

Comps == Durable \cup Transient
Ids   == 1 .. MaxId

Closed == [pc |-> "idle", expected_epoch |-> 0, spawns |-> <<>>, inserts |-> <<>>,
           pending |-> <<>>, removes |-> <<>>, reads |-> {}, snap |-> <<>>]

Ended(how) == [Closed EXCEPT !.pc = how]

Row(id) == [c \in Comps |-> comps[<<id, c>>]]

Writers == Txns \cup {"direct", None}
Stores  == [Ids \X Comps -> Writers]

\* A transaction under construction or prepared.  Before prepare, an operation
\* in pending names its entity by the place of a spawn.
Transactions ==
  [pc : {"idle", "reading", "open", "prepared", "committed", "failed", "panicked"},
   expected_epoch : Nat,
   spawns  : Seq([is_pending : BOOLEAN, id : Nat]),
   inserts : Seq([id : Ids, comp : Comps]),
   pending : Seq([id : 1 .. MaxStaged, comp : Comps]),
   removes : Seq([id : Ids, comp : Comps]),
   reads   : SUBSET [id : Ids, version : Nat, row : [Comps -> Writers]],
   snap    : {<<>>} \cup (Seq(BOOLEAN) \X Stores)]

TypeOK ==
  /\ meta \in Seq(BOOLEAN) /\ Len(meta) <= MaxId
  /\ next_id \in Nat
  /\ comps \in Stores
  /\ versions \in [Ids -> Nat]
  /\ epoch \in 0 .. Cardinality(Txns)
  /\ txn \in [Txns -> Transactions]
  /\ log \in Seq([change : {"Insert", "Remove"}, ops : SUBSET [id : Ids, comp : Durable]])
  /\ directs \in 0 .. MaxDirect
  /\ dirty \subseteq Txns

\* A world with one entity in it, made while bootstrapping.
Init ==
  /\ meta = <<TRUE>>
  /\ next_id = 2
  /\ comps = [k \in Ids \X Comps |-> None]
  /\ versions = [id \in Ids |-> 0]
  /\ epoch = 0
  /\ txn = [t \in Txns |-> Closed]
  /\ log = <<>>
  /\ directs = 0
  /\ dirty = {}

has_entity(id) == id \in DOMAIN meta /\ meta[id]

(***************************************************************************)
(* Building a transaction.                                                 *)
(***************************************************************************)

\* A system looks at an entity and keeps its version for record_read (bound: one
\* read per transaction).
Read(t, id) ==
  /\ txn[t].pc \in {"idle", "reading"}
  /\ txn[t].reads = {}
  /\ has_entity(id)
  /\ txn' = [txn EXCEPT ![t].pc = "reading",
                        ![t].reads = {[id |-> id, version |-> versions[id], row |-> Row(id)]}]
  /\ UNCHANGED <<world, log, directs, dirty>>

\* WorldTxn::new.
Begin(t) ==
  /\ txn[t].pc \in {"idle", "reading"}
  /\ txn' = [txn EXCEPT ![t].pc = "open", ![t].expected_epoch = epoch,
                        ![t].snap = <<meta, comps>>]
  /\ UNCHANGED <<world, log, directs, dirty>>

Staged(t) == Len(txn[t].spawns) + Len(txn[t].inserts) + Len(txn[t].pending)
               + Len(txn[t].removes)

CanStage(t) == txn[t].pc = "open" /\ Staged(t) < MaxStaged

\* Under a reserved id: next_entity_id of the world as it is now, or the id
\* that a replayed event names.
stage_spawn(t, id) ==
  /\ CanStage(t)
  /\ txn' = [txn EXCEPT ![t].spawns = Append(@, [is_pending |-> FALSE, id |-> id])]
  /\ UNCHANGED <<world, log, directs, dirty>>

spawn_pending(t) ==
  /\ CanStage(t)
  /\ txn' = [txn EXCEPT ![t].spawns = Append(@, [is_pending |-> TRUE, id |-> 0])]
  /\ UNCHANGED <<world, log, directs, dirty>>

push_insert(t, id, c) ==
  /\ CanStage(t)
  /\ txn' = [txn EXCEPT ![t].inserts = Append(@, [id |-> id, comp |-> c])]
  /\ UNCHANGED <<world, log, directs, dirty>>

\* id is the token of a pending spawn: its place among the spawns.
add_component_pending(t, id, c) ==
  /\ CanStage(t)
  /\ id \in DOMAIN txn[t].spawns /\ txn[t].spawns[id].is_pending
  /\ txn' = [txn EXCEPT ![t].pending = Append(@, [id |-> id, comp |-> c])]
  /\ UNCHANGED <<world, log, directs, dirty>>

push_remove(t, id, c) ==
  /\ CanStage(t)
  /\ txn' = [txn EXCEPT ![t].removes = Append(@, [id |-> id, comp |-> c])]
  /\ UNCHANGED <<world, log, directs, dirty>>

(***************************************************************************)
(* prepare: resolve and validate.                                          *)
(***************************************************************************)

\* Pending spawns get ids from the allocator, and the components staged
\* against their tokens go to those ids, after the inserts staged by id (in
\* the order of tokens in the code; no two of them may touch one component).
Resolved(x) ==
  [x EXCEPT
     !.spawns  = [i \in DOMAIN @ |-> IF @[i].is_pending
                                       THEN [is_pending |-> FALSE, id |-> next_id + i - 1]
                                       ELSE @[i]],
     !.inserts = @ \o [i \in DOMAIN x.pending |->
                         [x.pending[i] EXCEPT !.id = next_id + x.pending[i].id - 1]],
     !.pending = <<>>]

SpawnIds(x) == [i \in DOMAIN x.spawns |-> x.spawns[i].id]

\* Mutants: no duplicate check among the spawns; no epoch check.
ValidDuplicates(x) ==
  /\ x.expected_epoch = epoch
  /\ \A i \in DOMAIN x.spawns : ~has_entity(x.spawns[i].id)
  /\ \A d \in x.reads : versions[d.id] = d.version
  /\ \A op \in ToSet(x.inserts \o x.removes) :
       has_entity(op.id) \/ op.id \in ToSet(SpawnIds(x))
  /\ IsInjective(x.inserts) /\ IsInjective(x.removes)

ValidAnyEpoch(x) ==
  /\ \A i \in DOMAIN x.spawns : ~has_entity(x.spawns[i].id)
  /\ IsInjective(SpawnIds(x))
  /\ \A d \in x.reads : versions[d.id] = d.version
  /\ \A op \in ToSet(x.inserts \o x.removes) :
       has_entity(op.id) \/ op.id \in ToSet(SpawnIds(x))
  /\ IsInjective(x.inserts) /\ IsInjective(x.removes)

\* The checks of prepare_inner on a resolved transaction: 1a the epoch; 1b, 1c
\* the spawned ids are free and distinct; 1d what was read is unchanged; 1e
\* every operation has its entity; 1g no two inserts and no two removals of
\* one component.  An insert beside a removal of it passes.
Valid(x) ==
  /\ x.expected_epoch = epoch
  /\ \A i \in DOMAIN x.spawns : ~has_entity(x.spawns[i].id)
  /\ IsInjective(SpawnIds(x))
  /\ \A d \in x.reads : versions[d.id] = d.version
  /\ \A op \in ToSet(x.inserts \o x.removes) :
       has_entity(op.id) \/ op.id \in ToSet(SpawnIds(x))
  /\ IsInjective(x.inserts) /\ IsInjective(x.removes)

\* Bound: the ids given to pending spawns.
Fits(x) == ToSet(SpawnIds(x)) \subseteq Ids

Prepare(t) ==
  /\ txn[t].pc = "open"
  /\ Valid(Resolved(txn[t])) /\ Fits(Resolved(txn[t]))
  /\ txn' = [txn EXCEPT ![t] = [Resolved(@) EXCEPT !.pc = "prepared"]]
  /\ UNCHANGED <<world, log, directs, dirty>>

\* prepare returned an error, and nothing else happened.
Reject(t) ==
  /\ txn[t].pc = "open"
  /\ ~Valid(Resolved(txn[t]))
  /\ txn' = [txn EXCEPT ![t] = Ended("failed")]
  /\ UNCHANGED <<world, log, directs, dirty>>

(***************************************************************************)
(* apply_prepared: make every change.                                      *)
(***************************************************************************)

\* Mutant: the allocator is not moved past the ids.
spawn_entity_with_idKeepNext(ids) ==
  LET fresh == {id \in ids : ~has_entity(id)} IN
  /\ meta' = [i \in 1 .. Max(fresh \cup {Len(meta)}) |-> i \in fresh \/ has_entity(i)]
  /\ next_id' = next_id

\* Each id in turn, in whatever order: a no-op on an occupied slot; else the
\* metadata grows to hold the id and the allocator moves past it.
spawn_entity_with_id(ids) ==
  LET fresh == {id \in ids : ~has_entity(id)} IN
  /\ meta' = [i \in 1 .. Max(fresh \cup {Len(meta)}) |-> i \in fresh \/ has_entity(i)]
  /\ next_id' = Max({id + 1 : id \in fresh} \cup {next_id})

\* Mutant: only durable operations count as writes.
WritesDurable(x, id) ==
  Cardinality({i \in DOMAIN x.inserts : x.inserts[i].id = id /\ x.inserts[i].comp \in Durable})
    + Cardinality({i \in DOMAIN x.removes : x.removes[i].id = id /\ x.removes[i].comp \in Durable})

\* Every operation on an entity counts as a write of it.
Writes(x, id) == Cardinality({i \in DOMAIN x.inserts : x.inserts[i].id = id})
                   + Cardinality({i \in DOMAIN x.removes : x.removes[i].id = id})

DurableOps(ops) == {op \in ToSet(ops) : op.comp \in Durable}

\* Mutant: the removals are journaled first, although they are applied last.
JournalRemovesFirst(x) ==
  << [change |-> "Remove", ops |-> DurableOps(x.removes)],
     [change |-> "Insert", ops |-> DurableOps(x.inserts)] >>

\* Mutant: transient components are journaled too.
JournalTransient(x) ==
  << [change |-> "Insert", ops |-> ToSet(x.inserts)],
     [change |-> "Remove", ops |-> ToSet(x.removes)] >>

\* Durable operations only: the inserts, then the removals.  No two inserts
\* and no two removals are of one component, so that each run is a set.
Journal(x) ==
  << [change |-> "Insert", ops |-> DurableOps(x.inserts)],
     [change |-> "Remove", ops |-> DurableOps(x.removes)] >>

Op(id, c) == [id |-> id, comp |-> c]

\* Of one component the inserts are applied before the removals.
Apply(t, x) ==
  /\ spawn_entity_with_id(ToSet(SpawnIds(x)))
  /\ comps' = [k \in Ids \X Comps |->
                 IF Op(k[1], k[2]) \in ToSet(x.removes) THEN None ELSE
                 IF Op(k[1], k[2]) \in ToSet(x.inserts) THEN t ELSE comps[k]]
  /\ versions' = [id \in Ids |-> versions[id] + Writes(x, id)]
  /\ epoch' = epoch + 1
  /\ log' = log \o Journal(x)
  /\ txn' = [txn EXCEPT ![t] = Ended("committed")]
  /\ UNCHANGED <<directs, dirty>>

ApplyPrepared(t) ==
  /\ txn[t].pc = "prepared"
  /\ epoch = txn[t].expected_epoch
  /\ Apply(t, txn[t])

\* assert_eq!(current_epoch, prepared.expected_epoch), before any change.
ApplyPanics(t) ==
  /\ txn[t].pc = "prepared"
  /\ epoch # txn[t].expected_epoch
  /\ txn' = [txn EXCEPT ![t] = Ended("panicked")]
  /\ UNCHANGED <<world, log, directs, dirty>>

\* prepare and apply_prepared in one call.
Transit(t) ==
  /\ txn[t].pc = "open"
  /\ Valid(Resolved(txn[t])) /\ Fits(Resolved(txn[t]))
  /\ Apply(t, Resolved(txn[t]))

(***************************************************************************)
(* Mutations that bypass the transactions: neither epoch nor version moves. *)
(***************************************************************************)

Direct ==
  /\ directs < MaxDirect
  /\ directs' = directs + 1
  /\ dirty' = dirty \cup {t \in Txns : txn[t].pc \in {"reading", "open", "prepared"}}
  /\ UNCHANGED <<versions, epoch, txn, log>>

\* World::spawn with an empty free list.
DirectSpawn ==
  /\ Direct
  /\ next_id < MaxId
  /\ meta' = Append(meta, TRUE)
  /\ next_id' = next_id + 1
  /\ UNCHANGED comps

DirectInsert(id, c) ==
  /\ Direct
  /\ has_entity(id)
  /\ comps' = [comps EXCEPT ![<<id, c>>] = "direct"]
  /\ UNCHANGED <<meta, next_id>>

-----------------------------------------------------------------------------

\* Bound: the ids a caller names are those of the first entity, of the next
\* one and, to spawn, of one further and of the holes that leaves.
Named == {1, next_id} \cap Ids
Holes == {id \in Ids : id <= next_id + 1 /\ ~has_entity(id)}

Stage(t) ==
  \/ spawn_pending(t)
  \/ \E id \in Holes : stage_spawn(t, id)
  \/ \E id \in Named, c \in Comps : push_insert(t, id, c) \/ push_remove(t, id, c)
  \/ \E id \in 1 .. MaxStaged, c \in Comps : add_component_pending(t, id, c)

Commit(t) == Prepare(t) \/ Reject(t) \/ ApplyPrepared(t) \/ ApplyPanics(t) \/ Transit(t)

Next ==
  \/ \E t \in Txns : Begin(t) \/ Stage(t) \/ Commit(t) \/ \E id \in Named : Read(t, id)
  \/ DirectSpawn
  \/ \E id \in Named, c \in Comps : DirectInsert(id, c)

Spec == Init /\ [][Next]_vars

-----------------------------------------------------------------------------
(***************************************************************************)
(* Properties.                                                             *)
(***************************************************************************)

Commits(t) == txn[t].pc # "committed" /\ txn'[t].pc = "committed"

\* A transaction commits on the very world it was opened on: of two that were
\* open together at most one commits, through transit or in two calls, unless
\* somebody wrote past the transactions.
CommitsSerialize ==
  [][\A t \in Txns : Commits(t) /\ t \notin dirty => txn[t].snap = <<meta, comps>>]_vars

\* What a committing transaction recorded as read, before it was opened, is
\* still what the entity holds: every kind of write moves its version.
ReadsAreCurrent ==
  [][\A t \in Txns : Commits(t) /\ t \notin dirty =>
       \A d \in txn[t].reads : d.row = Row(d.id)]_vars

Alive == {id \in DOMAIN meta : meta[id]}

\* Every spawn of a committing transaction makes a new entity of its own.
SpawnsAreDistinct ==
  [][\A t \in Txns : Commits(t) /\ t \notin dirty =>
       /\ Cardinality(Alive') = Cardinality(Alive) + Len(txn[t].spawns)
       /\ ToSet(SpawnIds(Resolved(txn[t]))) \subseteq Alive' \ Alive]_vars

\* The allocator's next id is the one whose metadata a direct spawn appends,
\* through sparse ids and pending ones.
AllocatorAligned == next_id = Len(meta) + 1

\* Replaying the journals of all commits gives the durable components that
\* are there, as long as only transactions wrote.
JournalReplays ==
  directs = 0 =>
    \A id \in Ids, c \in Durable :
      comps[<<id, c>>] # None <=>
        \E i \in DOMAIN log :
          /\ log[i].change = "Insert"
          /\ Op(id, c) \in log[i].ops
          /\ \A j \in i + 1 .. Len(log) : Op(id, c) \notin log[j].ops
=============================================================================
