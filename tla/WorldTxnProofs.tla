--------------------------- MODULE WorldTxnProofs ---------------------------
(***************************************************************************)
(* Proofs about world transactions, for any set of transactions, any       *)
(* component types and any number of staged operations and direct          *)
(* mutations.                                                              *)
(***************************************************************************)
EXTENDS WorldTxn, DataLemmas, SequenceTheorems

\* What a transaction has staged: an id that a caller named is an id, and an
\* operation on a pending spawn names one; prepare leaves nothing pending.
StagedTxn(x) ==
  /\ \A i \in DOMAIN x.spawns : ~x.spawns[i].is_pending => x.spawns[i].id \in Ids
  /\ \A i \in DOMAIN x.pending : /\ x.pending[i].id \in DOMAIN x.spawns
                                 /\ x.spawns[x.pending[i].id].is_pending
  /\ x.pc = "prepared" => /\ x.pending = <<>>
                          /\ \A i \in DOMAIN x.spawns : ~x.spawns[i].is_pending

StagedWell == \A t \in Txns : StagedTxn(txn[t])

Committed == {t \in Txns : txn[t].pc = "committed"}

\* The epoch is the number of commits.
EpochCounts == epoch = Cardinality(Committed)

WorldInv == TypeOK /\ AllocatorAligned /\ StagedWell /\ EpochCounts

\* The world moves on from the one a transaction was opened on only with the
\* epoch, unless somebody writes past the transactions.
OpenedOn ==
  \A t \in Txns \ dirty : txn[t].pc \in {"open", "prepared"} =>
    /\ txn[t].expected_epoch <= epoch
    /\ txn[t].expected_epoch = epoch => txn[t].snap = <<meta, comps>>

\* What a transaction has read changes only with the version it recorded.
ReadsOn ==
  \A t \in Txns \ dirty :
    /\ txn[t].pc = "idle" => txn[t].reads = {}
    /\ txn[t].pc \in {"reading", "open", "prepared"} =>
         \A d \in txn[t].reads :
           /\ d.version <= versions[d.id]
           /\ d.version = versions[d.id] => d.row = Row(d.id)

\* Until the epoch moves, what prepare has checked stays so.
PreparedOn ==
  \A t \in Txns \ dirty :
    LET x == txn[t] IN
    x.pc = "prepared" /\ x.expected_epoch = epoch =>
      /\ \A d \in x.reads : versions[d.id] = d.version
      /\ \A i \in DOMAIN x.spawns : ~has_entity(x.spawns[i].id)
      /\ IsInjective(SpawnIds(x))

TxnInv == OpenedOn /\ ReadsOn /\ PreparedOn

-----------------------------------------------------------------------------

\* A transaction that ended, however it did, holds nothing.
LEMMA EndedType ==
  ASSUME NEW how \in {"committed", "failed", "panicked"}
  PROVE  /\ Closed \in Transactions
         /\ Ended(how) \in Transactions
         /\ Ended(how).pc = how
         /\ Ended(how).spawns = <<>> /\ Ended(how).pending = <<>>
<1>1. Closed \in Transactions /\ Closed.spawns = <<>> /\ Closed.pending = <<>>
  <2>1. <<>> \in Seq([is_pending : BOOLEAN, id : Nat]) /\ <<>> \in Seq([id : Ids, comp : Comps])
        /\ <<>> \in Seq([id : 1 .. MaxStaged, comp : Comps])
    OBVIOUS
  <2>2. QED
    BY <2>1 DEF Closed, Transactions
<1>2. QED
  BY <1>1 DEF Ended, Transactions

\* A function on 1 .. n is a sequence of length n.
LEMMA SeqOfFunction ==
  ASSUME NEW n \in Nat, NEW S, NEW f \in [1 .. n -> S]
  PROVE  f \in Seq(S) /\ Len(f) = n
BY SeqDef

\* Replacing what a transaction holds by something of the same type.
LEMMA StagedUpdate ==
  ASSUME NEW y \in Transactions, NEW sp \in Seq([is_pending : BOOLEAN, id : Nat]),
         NEW ins \in Seq([id : Ids, comp : Comps]),
         NEW pe \in Seq([id : 1 .. MaxStaged, comp : Comps])
  PROVE  [y EXCEPT !.spawns = sp, !.inserts = ins, !.pending = pe] \in Transactions
BY DEF Transactions

\* The elements of a sequence.
LEMMA SeqElements ==
  ASSUME NEW S, NEW s \in Seq(S)
  PROVE  DOMAIN s = 1 .. Len(s) /\ Len(s) \in Nat /\ \A i \in DOMAIN s : s[i] \in S
OBVIOUS

\* Resolving gives every pending spawn an id of its place, and the components
\* staged against its token that id.
LEMMA ResolvedType ==
  ASSUME WorldInv, NEW t \in Txns, Fits(Resolved(txn[t]))
  PROVE  LET x == Resolved(txn[t]) IN
         /\ x \in Transactions
         /\ x.pc = txn[t].pc /\ x.expected_epoch = txn[t].expected_epoch
         /\ x.reads = txn[t].reads /\ x.snap = txn[t].snap
         /\ x.pending = <<>> /\ Len(x.spawns) = Len(txn[t].spawns)
         /\ \A i \in DOMAIN x.spawns : ~x.spawns[i].is_pending /\ x.spawns[i].id \in Ids
<1> DEFINE y == txn[t]
           x == Resolved(y)
           sp == [i \in DOMAIN y.spawns |-> IF y.spawns[i].is_pending
                                              THEN [is_pending |-> FALSE, id |-> next_id + i - 1]
                                              ELSE y.spawns[i]]
           late == [i \in DOMAIN y.pending |->
                      [y.pending[i] EXCEPT !.id = next_id + y.pending[i].id - 1]]
<1>1. y \in Transactions /\ next_id \in Nat /\ next_id > 0
  BY DEF WorldInv, TypeOK, AllocatorAligned
<1>2. /\ y.spawns \in Seq([is_pending : BOOLEAN, id : Nat])
      /\ y.inserts \in Seq([id : Ids, comp : Comps])
      /\ y.pending \in Seq([id : 1 .. MaxStaged, comp : Comps])
  BY <1>1 DEF Transactions
<1>3. x = [y EXCEPT !.spawns = sp, !.inserts = @ \o late, !.pending = <<>>]
  BY DEF Resolved
<1>4. /\ x.spawns = sp /\ x.inserts = y.inserts \o late /\ x.pending = <<>>
      /\ x.pc = y.pc /\ x.expected_epoch = y.expected_epoch
      /\ x.reads = y.reads /\ x.snap = y.snap /\ x.removes = y.removes
  BY <1>1, <1>3 DEF Transactions
<1>5. /\ sp \in Seq([is_pending : BOOLEAN, id : Nat]) /\ Len(sp) = Len(y.spawns)
      /\ \A i \in DOMAIN sp : ~sp[i].is_pending
  <2>2. /\ DOMAIN y.spawns = 1 .. Len(y.spawns) /\ Len(y.spawns) \in Nat
        /\ \A i \in DOMAIN y.spawns : y.spawns[i] \in [is_pending : BOOLEAN, id : Nat]
    BY <1>2, SeqElements
  <2>1. ASSUME NEW i \in 1 .. Len(y.spawns)
        PROVE  sp[i] \in [is_pending : BOOLEAN, id : Nat] /\ ~sp[i].is_pending
    <3>1. y.spawns[i] \in [is_pending : BOOLEAN, id : Nat] /\ i \in Nat /\ i > 0
      BY <2>2
    <3>2. next_id + i - 1 \in Nat
      BY <1>1, <3>1
    <3>3. CASE y.spawns[i].is_pending
      <4>1. sp[i] = [is_pending |-> FALSE, id |-> next_id + i - 1]
        BY <2>2, <3>3
      <4> HIDE DEF sp, y
      <4>2. QED
        BY <3>2, <4>1
    <3>4. CASE ~y.spawns[i].is_pending
      <4>1. sp[i] = y.spawns[i]
        BY <2>2, <3>4
      <4> HIDE DEF sp, y
      <4>2. QED
        BY <3>1, <3>4, <4>1
    <3>5. QED
      BY <3>3, <3>4
  <2>3. sp \in [1 .. Len(y.spawns) -> [is_pending : BOOLEAN, id : Nat]]
    BY <2>1, <2>2
  <2> HIDE DEF sp
  <2>4. QED
    BY <2>1, <2>2, <2>3, SeqOfFunction
<1>6. \A i \in DOMAIN sp : sp[i].id \in Ids
  BY <1>4 DEF Fits, SpawnIds, ToSet
<1>7. late \in Seq([id : Ids, comp : Comps])
  <2>1. DOMAIN y.pending = 1 .. Len(y.pending) /\ Len(y.pending) \in Nat
    BY <1>2
  <2>2. ASSUME NEW i \in DOMAIN y.pending PROVE late[i] \in [id : Ids, comp : Comps]
    <3>1. y.pending[i].id \in DOMAIN y.spawns /\ y.spawns[y.pending[i].id].is_pending
      BY DEF WorldInv, StagedWell, StagedTxn
    <3>2. next_id + y.pending[i].id - 1 \in Ids
      BY <1>6, <3>1
    <3>3. y.pending[i] \in [id : 1 .. MaxStaged, comp : Comps]
      BY <1>2, SeqElements
    <3>4. QED
      BY <3>2, <3>3
  <2>3. late \in [1 .. Len(y.pending) -> [id : Ids, comp : Comps]]
    BY <2>1, <2>2
  <2> HIDE DEF late
  <2>4. QED
    BY <2>1, <2>3, SeqOfFunction
<1>8. y.inserts \o late \in Seq([id : Ids, comp : Comps])
  BY <1>2, <1>7, ConcatProperties
<1>9. x \in Transactions
  <2>1. <<>> \in Seq([id : 1 .. MaxStaged, comp : Comps])
    OBVIOUS
  <2>2. x = [y EXCEPT !.spawns = sp, !.inserts = y.inserts \o late, !.pending = <<>>]
    BY <1>3
  <2> HIDE DEF sp, late, x, y
  <2>3. QED
    BY <1>1, <1>5, <1>8, <2>1, <2>2, StagedUpdate
<1>10. QED
  BY <1>4, <1>5, <1>6, <1>9

-----------------------------------------------------------------------------
(***************************************************************************)
(* The invariant is preserved.                                             *)
(***************************************************************************)

\* A step that changes one transaction and nothing else, and is no commit.
LEMMA OneTxnStep ==
  ASSUME WorldInv, NEW t \in Txns, NEW x \in Transactions, StagedTxn(x),
         txn[t].pc # "committed", x.pc # "committed",
         txn' = [txn EXCEPT ![t] = x], UNCHANGED <<world, log, directs, dirty>>
  PROVE  WorldInv'
<1>1. txn \in [Txns -> Transactions] /\ UNCHANGED <<meta, next_id, comps, versions, epoch>>
  BY DEF WorldInv, TypeOK, world
<1>2. txn' \in [Txns -> Transactions] /\ txn'[t] = x /\ \A u \in Txns \ {t} : txn'[u] = txn[u]
  BY <1>1
<1>3. TypeOK'
  <2>1. TypeOK
    BY DEF WorldInv
  <2>2. QED
    BY <1>1, <1>2, <2>1 DEF TypeOK, Transactions, Stores, Writers
<1>4. AllocatorAligned'
  BY <1>1 DEF WorldInv, AllocatorAligned
<1>5. StagedWell'
  <2>1. \A u \in Txns : StagedTxn(txn'[u])
    BY <1>2 DEF WorldInv, StagedWell
  <2>2. QED
    BY <2>1 DEF StagedWell, StagedTxn
<1>6. EpochCounts'
  <2>1. Committed' = Committed
    BY <1>2 DEF Committed
  <2>2. QED
    BY <1>1, <2>1 DEF WorldInv, EpochCounts
<1>7. QED
  BY <1>3, <1>4, <1>5, <1>6 DEF WorldInv

\* Spawning a set of ids makes them alive, disturbs nobody and keeps the
\* allocator at the end of the metadata.
LEMMA SpawnEffect ==
  ASSUME meta \in Seq(BOOLEAN), Len(meta) <= MaxId, AllocatorAligned,
         NEW ids \in SUBSET Ids, spawn_entity_with_id(ids)
  PROVE  /\ meta' \in Seq(BOOLEAN) /\ Len(meta') <= MaxId /\ Len(meta) <= Len(meta')
         /\ next_id' = Len(meta') + 1
         /\ \A i \in Nat : has_entity(i)' <=> i \in ids \/ has_entity(i)
<1> DEFINE fresh == {id \in ids : ~has_entity(id)}
           S1 == fresh \cup {Len(meta)}
           S2 == {id + 1 : id \in fresh} \cup {next_id}
           M == Max(S1)
           new == [i \in 1 .. M |-> i \in fresh \/ has_entity(i)]
<1>0. MaxId \in Nat /\ Len(meta) \in Nat /\ DOMAIN meta = 1 .. Len(meta) /\ next_id = Len(meta) + 1
  BY TxnAssumption DEF AllocatorAligned
<1>1. fresh \in SUBSET (1 .. MaxId)
  BY DEF Ids
<1>2. M \in S1 /\ \A y \in S1 : M >= y
  <2>1. S1 \in SUBSET Nat /\ S1 # {} /\ \A y \in S1 : y <= MaxId
    BY <1>0, <1>1
  <2> HIDE DEF S1
  <2>2. QED
    BY <1>0, <2>1, MaxOfBounded
<1>3. M \in Nat /\ M <= MaxId /\ Len(meta) <= M
  BY <1>0, <1>1, <1>2
<1>4. meta' = new /\ next_id' = Max(S2)
  BY DEF spawn_entity_with_id
<1>5. Max(S2) = M + 1
  <2>1. S2 \in SUBSET Nat /\ S2 # {} /\ \A y \in S2 : y <= MaxId + 1
    BY <1>0, <1>1
  <2>2. Max(S2) \in S2 /\ \A y \in S2 : Max(S2) >= y
    <3>1. MaxId + 1 \in Nat
      BY <1>0
    <3> HIDE DEF S1, S2, M, new
    <3>2. QED
      BY <2>1, <3>1, MaxOfBounded
  <2>3. M + 1 \in S2
    BY <1>0, <1>2
  <2>4. Max(S2) - 1 \in S1
    BY <1>0, <1>1, <2>2
  <2> HIDE DEF S1, S2, M
  <2>5. Max(S2) \in Nat /\ Max(S2) >= M + 1 /\ M >= Max(S2) - 1
    BY <1>2, <2>1, <2>2, <2>3, <2>4
  <2>6. QED
    BY <1>3, <2>5
<1>6. new \in [1 .. M -> BOOLEAN]
  <2> HIDE DEF M, fresh
  <2>1. \A i : has_entity(i) \in BOOLEAN
    BY DEF has_entity
  <2>2. QED
    BY <2>1
<1>7. new \in Seq(BOOLEAN) /\ Len(new) = M /\ DOMAIN new = 1 .. M
  <2>1. DOMAIN new = 1 .. M
    OBVIOUS
  <2> HIDE DEF new, M
  <2>2. QED
    BY <1>3, <1>6, <2>1, SeqOfFunction
<1>8. ASSUME NEW i \in Nat PROVE has_entity(i)' <=> i \in ids \/ has_entity(i)
  <2>1. has_entity(i)' <=> i \in 1 .. M /\ new[i]
    <3> HIDE DEF new, M
    <3>1. QED
      BY <1>4, <1>7 DEF has_entity
  <2>2. i \in 1 .. M => (new[i] <=> i \in fresh \/ has_entity(i))
    <3> HIDE DEF M, fresh
    <3>1. QED
      OBVIOUS
  <2>3. i \in fresh \/ has_entity(i) => i \in 1 .. M
    <3>1. i \in fresh => i \in 1 .. M
      BY <1>1, <1>2, <1>3
    <3>2. has_entity(i) => i \in 1 .. M
      BY <1>0, <1>3 DEF has_entity
    <3>3. QED
      BY <3>1, <3>2
  <2>4. i \in fresh \/ has_entity(i) <=> i \in ids \/ has_entity(i)
    OBVIOUS
  <2>5. QED
    BY <2>1, <2>2, <2>3, <2>4
<1>9. QED
  <2> HIDE DEF new, M, S2
  <2>1. QED
    BY <1>3, <1>4, <1>5, <1>7, <1>8

\* The number of writes of an entity is a number, and positive if there is one.
LEMMA WritesNat ==
  ASSUME NEW x \in Transactions, NEW id
  PROVE  /\ Writes(x, id) \in Nat
         /\ (\E op \in ToSet(x.inserts) \cup ToSet(x.removes) : op.id = id) => Writes(x, id) > 0
<1> DEFINE I == {i \in DOMAIN x.inserts : x.inserts[i].id = id}
           R == {i \in DOMAIN x.removes : x.removes[i].id = id}
<1>1. /\ DOMAIN x.inserts = 1 .. Len(x.inserts) /\ Len(x.inserts) \in Nat
      /\ DOMAIN x.removes = 1 .. Len(x.removes) /\ Len(x.removes) \in Nat
  BY DEF Transactions
<1>2. IsFiniteSet(I) /\ IsFiniteSet(R)
  <2>1. IsFiniteSet(1 .. Len(x.inserts)) /\ IsFiniteSet(1 .. Len(x.removes))
    BY <1>1, FS_Interval
  <2>2. QED
    BY <1>1, <2>1, FS_Subset
<1>3. Cardinality(I) \in Nat /\ Cardinality(R) \in Nat
  BY <1>2, FS_CardinalityType
<1>4. Writes(x, id) = Cardinality(I) + Cardinality(R)
  BY DEF Writes
<1>5. (\E op \in ToSet(x.inserts) \cup ToSet(x.removes) : op.id = id) => I # {} \/ R # {}
  BY DEF ToSet
<1>6. (I # {} => Cardinality(I) # 0) /\ (R # {} => Cardinality(R) # 0)
  BY <1>2, FS_EmptySet
<1> HIDE DEF I, R
<1>7. QED
  BY <1>3, <1>4, <1>5, <1>6

\* The effect of a commit.
LEMMA ApplyStep ==
  ASSUME WorldInv, NEW t \in Txns, txn[t].pc # "committed", NEW x \in Transactions,
         ToSet(SpawnIds(x)) \subseteq Ids, Apply(t, x)
  PROVE  WorldInv'
<1> DEFINE ids == ToSet(SpawnIds(x))
<1>0. TypeOK /\ AllocatorAligned /\ StagedWell /\ EpochCounts
  BY DEF WorldInv
<1>1. /\ meta' \in Seq(BOOLEAN) /\ Len(meta') <= MaxId
      /\ next_id' = Len(meta') + 1
  <2>1. spawn_entity_with_id(ids) /\ meta \in Seq(BOOLEAN) /\ Len(meta) <= MaxId
    BY <1>0 DEF Apply, TypeOK
  <2> HIDE DEF ids
  <2>2. ids \in SUBSET Ids
    BY DEF ids
  <2>3. QED
    BY <1>0, <2>1, <2>2, SpawnEffect
<1>2. comps' \in Stores
  <2>1. \A k \in Ids \X Comps : comps[k] \in Writers
    BY <1>0 DEF TypeOK, Stores
  <2>2. QED
    BY <2>1 DEF Apply, Stores, Writers
<1>3. versions' \in [Ids -> Nat]
  <2>1. \A id \in Ids : versions[id] \in Nat /\ Writes(x, id) \in Nat
    BY <1>0, WritesNat DEF TypeOK
  <2>2. \A id \in Ids : versions[id] + Writes(x, id) \in Nat
    BY <2>1
  <2>3. versions' = [id \in Ids |-> versions[id] + Writes(x, id)]
    BY DEF Apply
  <2>4. QED
    BY <2>2, <2>3
<1>4. /\ txn \in [Txns -> Transactions] /\ txn' \in [Txns -> Transactions]
      /\ txn'[t] = Ended("committed") /\ \A u \in Txns \ {t} : txn'[u] = txn[u]
  <2>1. txn' = [txn EXCEPT ![t] = Ended("committed")] /\ txn \in [Txns -> Transactions]
    BY <1>0 DEF Apply, TypeOK
  <2>2. QED
    BY <2>1, EndedType
<1>5. Committed' = Committed \cup {t} /\ t \notin Committed
  <2>1. txn'[t].pc = "committed"
    BY <1>4, EndedType
  <2>2. QED
    BY <1>4, <2>1 DEF Committed
<1>6. epoch' = Cardinality(Committed') /\ epoch' \in 0 .. Cardinality(Txns)
  <2>1. IsFiniteSet(Txns) /\ Committed \subseteq Txns /\ Committed' \subseteq Txns
    BY <1>5, TxnAssumption DEF Committed
  <2>2. IsFiniteSet(Committed) /\ IsFiniteSet(Committed')
    BY <2>1, FS_Subset
  <2>3. Cardinality(Committed') = Cardinality(Committed) + 1
    BY <1>5, <2>2, FS_AddElement
  <2>4. epoch' = epoch + 1 /\ epoch = Cardinality(Committed)
    BY <1>0 DEF Apply, EpochCounts
  <2>5. Cardinality(Committed') <= Cardinality(Txns) /\ Cardinality(Committed') \in Nat
        /\ Cardinality(Txns) \in Nat
    BY <2>1, <2>2, FS_Subset, FS_CardinalityType
  <2>6. QED
    BY <2>3, <2>4, <2>5
<1>7. log' \in Seq([change : {"Insert", "Remove"}, ops : SUBSET [id : Ids, comp : Durable]])
  <2> DEFINE E == [change : {"Insert", "Remove"}, ops : SUBSET [id : Ids, comp : Durable]]
  <2>1. ASSUME NEW s \in Seq([id : Ids, comp : Comps])
        PROVE  DurableOps(s) \subseteq [id : Ids, comp : Durable]
    <3>1. \A i \in DOMAIN s : s[i] \in [id : Ids, comp : Comps]
      BY SeqElements
    <3>2. QED
      BY <3>1 DEF DurableOps, ToSet
  <2>2. x.inserts \in Seq([id : Ids, comp : Comps]) /\ x.removes \in Seq([id : Ids, comp : Comps])
    BY DEF Transactions
  <2>3. /\ [change |-> "Insert", ops |-> DurableOps(x.inserts)] \in E
        /\ [change |-> "Remove", ops |-> DurableOps(x.removes)] \in E
    BY <2>1, <2>2
  <2>4. Journal(x) \in Seq(E) /\ log \in Seq(E) /\ log' = log \o Journal(x)
    <3> HIDE DEF E
    <3>1. Journal(x) \in Seq(E)
      BY <2>3 DEF Journal
    <3>2. log \in Seq(E) /\ log' = log \o Journal(x)
      BY <1>0 DEF TypeOK, Apply, E
    <3>3. QED
      BY <3>1, <3>2
  <2> HIDE DEF E
  <2>5. log' \in Seq(E)
    BY <2>4, ConcatProperties
  <2>6. QED
    BY <2>5 DEF E
<1>8. TypeOK'
  <2>1. directs' \in 0 .. MaxDirect /\ dirty' \subseteq Txns
    BY <1>0 DEF TypeOK, Apply
  <2>2. next_id' \in Nat
    BY <1>1
  <2>3. (txn \in [Txns -> Transactions])' /\ (comps \in Stores)'
    BY <1>2, <1>4 DEF Transactions, Stores, Writers
  <2>4. QED
    BY <1>1, <1>3, <1>6, <1>7, <2>1, <2>2, <2>3 DEF TypeOK
<1>9. StagedWell'
  <2>1. StagedTxn(Ended("committed"))
    <3>1. /\ Ended("committed").pc = "committed" /\ Ended("committed").spawns = <<>>
          /\ Ended("committed").pending = <<>>
      BY EndedType
    <3>2. QED
      BY <3>1 DEF StagedTxn
  <2>2. \A u \in Txns : StagedTxn(txn'[u])
    BY <1>0, <1>4, <2>1 DEF StagedWell
  <2>3. QED
    BY <2>2 DEF StagedWell, StagedTxn
<1>10. QED
  BY <1>1, <1>6, <1>8, <1>9 DEF WorldInv, AllocatorAligned, EpochCounts

\* A mutation past the transactions.
LEMMA DirectStep ==
  ASSUME WorldInv, DirectSpawn \/ \E id \in Named, c \in Comps : DirectInsert(id, c)
  PROVE  WorldInv'
<1>0. TypeOK /\ AllocatorAligned /\ StagedWell /\ EpochCounts
  BY DEF WorldInv
<1>1. /\ directs < MaxDirect /\ directs' = directs + 1
      /\ dirty' = dirty \cup {t \in Txns : txn[t].pc \in {"reading", "open", "prepared"}}
      /\ UNCHANGED <<versions, epoch, txn, log>>
  BY DEF DirectSpawn, DirectInsert, Direct
<1>2. /\ meta' \in Seq(BOOLEAN) /\ Len(meta') <= MaxId
      /\ next_id' = Len(meta') + 1 /\ comps' \in Stores
  <2>1. CASE DirectSpawn
    BY <1>0, <2>1, TxnAssumption DEF TypeOK, AllocatorAligned, DirectSpawn
  <2>2. CASE \E id \in Named, c \in Comps : DirectInsert(id, c)
    <3>1. PICK id \in Named, c \in Comps : DirectInsert(id, c)
      BY <2>2
    <3>2. comps' = [comps EXCEPT ![<<id, c>>] = "direct"] /\ comps \in [Ids \X Comps -> Writers]
      BY <1>0, <3>1 DEF DirectInsert, TypeOK, Stores
    <3>3. comps' \in Stores
      BY <3>2 DEF Stores, Writers
    <3>4. QED
      BY <1>0, <3>1, <3>3 DEF TypeOK, AllocatorAligned, DirectInsert
  <2>3. QED
    BY <2>1, <2>2
<1>3. directs' \in 0 .. MaxDirect /\ dirty' \subseteq Txns
  BY <1>0, <1>1, TxnAssumption DEF TypeOK
<1>4. Committed' = Committed /\ StagedWell'
  BY <1>0, <1>1 DEF Committed, StagedWell, StagedTxn
<1>5. TypeOK'
  <2>1. (comps \in Stores)' /\ (txn \in [Txns -> Transactions])'
    BY <1>0, <1>1, <1>2 DEF TypeOK, Transactions, Stores, Writers
  <2>2. next_id' \in Nat
    BY <1>2
  <2>3. QED
    BY <1>0, <1>1, <1>2, <1>3, <2>1, <2>2 DEF TypeOK
<1>6. QED
  BY <1>0, <1>1, <1>2, <1>4, <1>5 DEF WorldInv, AllocatorAligned, EpochCounts

-----------------------------------------------------------------------------
(***************************************************************************)
(* The kinds of steps.                                                     *)
(***************************************************************************)

\* The transaction keeps what it was opened with and what it has read.
Kept(t, x) ==
  /\ x.expected_epoch = txn[t].expected_epoch
  /\ x.snap = txn[t].snap
  /\ x.reads = txn[t].reads

\* A step that makes x of transaction t, and leaves the world alone.
Builds(t, x) ==
  /\ StagedTxn(x)
  /\ txn[t].pc # "committed"
  /\ txn' = [txn EXCEPT ![t] = x] /\ UNCHANGED <<world, log, directs, dirty>>
  /\ \/ /\ txn[t].pc \in {"idle", "reading"} /\ x.pc = "reading"
        /\ \E id \in Ids : x.reads = {[id |-> id, version |-> versions[id], row |-> Row(id)]}
     \/ /\ txn[t].pc \in {"idle", "reading"} /\ x.pc = "open"
        /\ x.expected_epoch = epoch /\ x.snap = <<meta, comps>> /\ x.reads = txn[t].reads
     \/ txn[t].pc = "open" /\ x.pc = "open" /\ Kept(t, x)
     \/ txn[t].pc = "open" /\ x.pc = "prepared" /\ Kept(t, x) /\ Valid(x) /\ Fits(x)
     \/ x.pc \in {"failed", "panicked"}

\* A step that commits transaction t, resolved to x.
Carries(t, x) ==
  /\ txn[t].pc \in {"open", "prepared"}
  /\ Apply(t, x)
  /\ Kept(t, x)
  /\ \/ txn[t].pc = "open" /\ x = Resolved(txn[t]) /\ Valid(x) /\ Fits(x)
     \/ txn[t].pc = "prepared" /\ x = txn[t] /\ epoch = x.expected_epoch

\* Replacing the phase of a transaction, or something else that it holds.
LEMMA FieldUpdate ==
  ASSUME NEW y \in Transactions,
         NEW pc \in {"idle", "reading", "open", "prepared", "committed", "failed", "panicked"}
  PROVE  /\ [y EXCEPT !.pc = pc] \in Transactions
         /\ \A n \in Nat, s \in {<<>>} \cup (Seq(BOOLEAN) \X Stores) :
              [y EXCEPT !.pc = pc, !.expected_epoch = n, !.snap = s] \in Transactions
         /\ \A r \in SUBSET [id : Ids, version : Nat, row : [Comps -> Writers]] :
              [y EXCEPT !.pc = pc, !.reads = r] \in Transactions
<1>1. [y EXCEPT !.pc = pc] \in Transactions
  BY DEF Transactions
<1>2. ASSUME NEW n \in Nat, NEW s \in {<<>>} \cup (Seq(BOOLEAN) \X Stores)
      PROVE  [y EXCEPT !.pc = pc, !.expected_epoch = n, !.snap = s] \in Transactions
  BY DEF Transactions
<1>3. ASSUME NEW r \in SUBSET [id : Ids, version : Nat, row : [Comps -> Writers]]
      PROVE  [y EXCEPT !.pc = pc, !.reads = r] \in Transactions
  BY DEF Transactions
<1>4. QED
  BY <1>1, <1>2, <1>3

\* Staging one more operation.
LEMMA AppendUpdate ==
  ASSUME NEW y \in Transactions
  PROVE  /\ \A e \in [is_pending : BOOLEAN, id : Nat] :
              [y EXCEPT !.spawns = Append(y.spawns, e)] \in Transactions
         /\ \A e \in [id : Ids, comp : Comps] :
              /\ [y EXCEPT !.inserts = Append(y.inserts, e)] \in Transactions
              /\ [y EXCEPT !.removes = Append(y.removes, e)] \in Transactions
         /\ \A e \in [id : 1 .. MaxStaged, comp : Comps] :
              [y EXCEPT !.pending = Append(y.pending, e)] \in Transactions
<1>0. /\ y.spawns \in Seq([is_pending : BOOLEAN, id : Nat])
      /\ y.inserts \in Seq([id : Ids, comp : Comps])
      /\ y.pending \in Seq([id : 1 .. MaxStaged, comp : Comps])
      /\ y.removes \in Seq([id : Ids, comp : Comps])
  BY DEF Transactions
<1>1. ASSUME NEW e \in [is_pending : BOOLEAN, id : Nat]
      PROVE  [y EXCEPT !.spawns = Append(y.spawns, e)] \in Transactions
  <2>1. Append(y.spawns, e) \in Seq([is_pending : BOOLEAN, id : Nat])
    BY <1>0, AppendProperties
  <2>2. QED
    BY <2>1 DEF Transactions
<1>2. ASSUME NEW e \in [id : Ids, comp : Comps]
      PROVE  /\ [y EXCEPT !.inserts = Append(y.inserts, e)] \in Transactions
             /\ [y EXCEPT !.removes = Append(y.removes, e)] \in Transactions
  <2>1. Append(y.inserts, e) \in Seq([id : Ids, comp : Comps])
    BY <1>0, AppendProperties
  <2>2. Append(y.removes, e) \in Seq([id : Ids, comp : Comps])
    BY <1>0, AppendProperties
  <2>3. [y EXCEPT !.inserts = Append(y.inserts, e)] \in Transactions
    BY <2>1 DEF Transactions
  <2>4. [y EXCEPT !.removes = Append(y.removes, e)] \in Transactions
    BY <2>2 DEF Transactions
  <2>5. QED
    BY <2>3, <2>4
<1>3. ASSUME NEW e \in [id : 1 .. MaxStaged, comp : Comps]
      PROVE  [y EXCEPT !.pending = Append(y.pending, e)] \in Transactions
  <2>1. Append(y.pending, e) \in Seq([id : 1 .. MaxStaged, comp : Comps])
    BY <1>0, AppendProperties
  <2>2. QED
    BY <2>1 DEF Transactions
<1>4. QED
  BY <1>1, <1>2, <1>3

\* Reading and opening.
LEMMA OpeningSteps ==
  ASSUME WorldInv, NEW t \in Txns, Begin(t) \/ \E id \in Named : Read(t, id)
  PROVE  \E x \in Transactions : Builds(t, x)
<1> DEFINE y == txn[t]
<1>0. /\ TypeOK /\ StagedTxn(y) /\ y \in Transactions /\ txn \in [Txns -> Transactions]
  BY DEF WorldInv, TypeOK, StagedWell
<1>1. CASE Begin(t)
  <2> DEFINE x == [y EXCEPT !.pc = "open", !.expected_epoch = epoch, !.snap = <<meta, comps>>]
  <2>1. epoch \in Nat /\ <<meta, comps>> \in {<<>>} \cup (Seq(BOOLEAN) \X Stores)
    BY <1>0 DEF TypeOK
  <2>2. x \in Transactions
    <3> HIDE DEF y
    <3>1. QED
      BY <1>0, <2>1, FieldUpdate
  <2>3. /\ x.pc = "open" /\ x.expected_epoch = epoch /\ x.snap = <<meta, comps>>
        /\ x.reads = y.reads /\ x.spawns = y.spawns /\ x.pending = y.pending
    <3> HIDE DEF y
    <3>1. QED
      BY <1>0 DEF Transactions
  <2>4. StagedTxn(x)
    <3> HIDE DEF x, y
    <3>1. QED
      BY <1>0, <2>3 DEF StagedTxn
  <2>5. txn' = [txn EXCEPT ![t] = x]
    BY <1>0, <1>1 DEF Begin
  <2>6. y.pc \in {"idle", "reading"} /\ UNCHANGED <<world, log, directs, dirty>>
    BY <1>1 DEF Begin
  <2>7. Builds(t, x)
    <3> HIDE DEF x
    <3>1. QED
      BY <2>3, <2>4, <2>5, <2>6 DEF Builds
  <2>8. QED
    BY <2>2, <2>7
<1>2. CASE \E id \in Named : Read(t, id)
  <2>0. PICK id \in Named : Read(t, id)
    BY <1>2
  <2> DEFINE r == {[id |-> id, version |-> versions[id], row |-> Row(id)]}
             x == [y EXCEPT !.pc = "reading", !.reads = r]
  <2>1. r \in SUBSET [id : Ids, version : Nat, row : [Comps -> Writers]]
    <3>1. id \in Ids /\ versions[id] \in Nat
      BY <1>0 DEF Named, TypeOK
    <3>2. Row(id) \in [Comps -> Writers]
      BY <1>0, <3>1 DEF Row, TypeOK, Stores
    <3>3. QED
      BY <3>1, <3>2
  <2>2. x \in Transactions
    <3> HIDE DEF y, r
    <3>1. QED
      BY <1>0, <2>1, FieldUpdate
  <2>3. /\ x.pc = "reading" /\ x.reads = r /\ x.spawns = y.spawns /\ x.pending = y.pending
    <3> HIDE DEF y, r
    <3>1. QED
      BY <1>0 DEF Transactions
  <2>4. StagedTxn(x)
    <3> HIDE DEF x, y
    <3>1. QED
      BY <1>0, <2>3 DEF StagedTxn
  <2>5. txn' = [txn EXCEPT ![t] = x]
    BY <1>0, <2>0 DEF Read
  <2>6. y.pc \in {"idle", "reading"} /\ UNCHANGED <<world, log, directs, dirty>> /\ id \in Ids
    BY <2>0 DEF Read, Named
  <2>7. Builds(t, x)
    <3> HIDE DEF x
    <3>1. QED
      BY <2>3, <2>4, <2>5, <2>6 DEF Builds
  <2>8. QED
    BY <2>2, <2>7
<1>3. QED
  BY <1>1, <1>2

\* Staging.
LEMMA StagingSteps ==
  ASSUME WorldInv, NEW t \in Txns, Stage(t)
  PROVE  \E x \in Transactions : Builds(t, x)
<1> DEFINE y == txn[t]
<1>0. /\ StagedTxn(y) /\ y \in Transactions /\ txn \in [Txns -> Transactions]
  BY DEF WorldInv, TypeOK, StagedWell
<1>1. CASE spawn_pending(t)
  <2> DEFINE e == [is_pending |-> TRUE, id |-> 0]
             x == [y EXCEPT !.spawns = Append(y.spawns, e)]
  <2>1. x \in Transactions
    <3>1. e \in [is_pending : BOOLEAN, id : Nat]
      OBVIOUS
    <3> HIDE DEF y, e
    <3>2. QED
      BY <1>0, <3>1, AppendUpdate
  <2>2. /\ x.spawns = Append(y.spawns, e) /\ x.pc = y.pc /\ x.expected_epoch = y.expected_epoch
        /\ x.snap = y.snap /\ x.reads = y.reads
        /\ x.pending = y.pending
    <3> HIDE DEF y, e
    <3>1. QED
      BY <1>0 DEF Transactions
  <2>3. StagedTxn(x)
    <3>1. y.spawns \in Seq([is_pending : BOOLEAN, id : Nat]) /\ y.pc = "open"
      BY <1>0, <1>1 DEF Transactions, CanStage, spawn_pending
    <3>2. ~e.is_pending => e.id \in Ids
      BY <1>0 DEF Holes
    <3>3. /\ DOMAIN x.spawns = 1 .. (Len(y.spawns) + 1) /\ x.spawns[Len(y.spawns) + 1] = e
          /\ \A i \in DOMAIN y.spawns : x.spawns[i] = y.spawns[i]
      <4> HIDE DEF x, y, e
      <4>1. QED
        BY <2>2, <3>1
    <3>4. DOMAIN y.spawns = 1 .. Len(y.spawns) /\ Len(y.spawns) \in Nat
      BY <3>1
    <3> HIDE DEF x, y, e
    <3>5. \A i \in DOMAIN x.spawns : ~x.spawns[i].is_pending => x.spawns[i].id \in Ids
      BY <1>0, <3>2, <3>3, <3>4 DEF StagedTxn
    <3>6. \A i \in DOMAIN x.pending : /\ x.pending[i].id \in DOMAIN x.spawns
                                     /\ x.spawns[x.pending[i].id].is_pending
      BY <1>0, <2>2, <3>3, <3>4 DEF StagedTxn
    <3>7. QED
      BY <2>2, <3>1, <3>5, <3>6 DEF StagedTxn
  <2>4. txn' = [txn EXCEPT ![t] = x]
    BY <1>0, <1>1 DEF spawn_pending
  <2>5. y.pc = "open" /\ UNCHANGED <<world, log, directs, dirty>>
    BY <1>1 DEF spawn_pending, CanStage
  <2>6. Builds(t, x)
    <3> HIDE DEF x
    <3>1. QED
      BY <2>2, <2>3, <2>4, <2>5 DEF Builds, Kept
  <2>7. QED
    BY <2>1, <2>6
<1>2. CASE \E id \in Holes : stage_spawn(t, id)
  <2>0. PICK id \in Holes : stage_spawn(t, id)
    BY <1>2
  <2> DEFINE e == [is_pending |-> FALSE, id |-> id]
             x == [y EXCEPT !.spawns = Append(y.spawns, e)]
  <2>1. x \in Transactions
    <3>1. e \in [is_pending : BOOLEAN, id : Nat]
      BY DEF Holes, Ids
    <3> HIDE DEF y, e
    <3>2. QED
      BY <1>0, <3>1, AppendUpdate
  <2>2. /\ x.spawns = Append(y.spawns, e) /\ x.pc = y.pc /\ x.expected_epoch = y.expected_epoch
        /\ x.snap = y.snap /\ x.reads = y.reads
        /\ x.pending = y.pending
    <3> HIDE DEF y, e
    <3>1. QED
      BY <1>0 DEF Transactions
  <2>3. StagedTxn(x)
    <3>1. y.spawns \in Seq([is_pending : BOOLEAN, id : Nat]) /\ y.pc = "open"
      BY <1>0, <2>0 DEF Transactions, CanStage, stage_spawn
    <3>2. ~e.is_pending => e.id \in Ids
      BY <1>0 DEF Holes
    <3>3. /\ DOMAIN x.spawns = 1 .. (Len(y.spawns) + 1) /\ x.spawns[Len(y.spawns) + 1] = e
          /\ \A i \in DOMAIN y.spawns : x.spawns[i] = y.spawns[i]
      <4> HIDE DEF x, y, e
      <4>1. QED
        BY <2>2, <3>1
    <3>4. DOMAIN y.spawns = 1 .. Len(y.spawns) /\ Len(y.spawns) \in Nat
      BY <3>1
    <3> HIDE DEF x, y, e
    <3>5. \A i \in DOMAIN x.spawns : ~x.spawns[i].is_pending => x.spawns[i].id \in Ids
      BY <1>0, <3>2, <3>3, <3>4 DEF StagedTxn
    <3>6. \A i \in DOMAIN x.pending : /\ x.pending[i].id \in DOMAIN x.spawns
                                     /\ x.spawns[x.pending[i].id].is_pending
      BY <1>0, <2>2, <3>3, <3>4 DEF StagedTxn
    <3>7. QED
      BY <2>2, <3>1, <3>5, <3>6 DEF StagedTxn
  <2>4. txn' = [txn EXCEPT ![t] = x]
    BY <1>0, <2>0 DEF stage_spawn
  <2>5. y.pc = "open" /\ UNCHANGED <<world, log, directs, dirty>>
    BY <2>0 DEF stage_spawn, CanStage
  <2>6. Builds(t, x)
    <3> HIDE DEF x
    <3>1. QED
      BY <2>2, <2>3, <2>4, <2>5 DEF Builds, Kept
  <2>7. QED
    BY <2>1, <2>6
<1>3. CASE \E id \in Named, c \in Comps : push_insert(t, id, c)
  <2>0. PICK id \in Named, c \in Comps : push_insert(t, id, c)
    BY <1>3
  <2> DEFINE e == [id |-> id, comp |-> c]
             x == [y EXCEPT !.inserts = Append(y.inserts, e)]
  <2>1. x \in Transactions
    <3>1. e \in [id : Ids, comp : Comps]
      BY DEF Named
    <3> HIDE DEF y, e
    <3>2. QED
      BY <1>0, <3>1, AppendUpdate
  <2>2. /\ x.inserts = Append(y.inserts, e) /\ x.pc = y.pc /\ x.expected_epoch = y.expected_epoch
        /\ x.snap = y.snap /\ x.reads = y.reads
        /\ x.spawns = y.spawns /\ x.pending = y.pending
    <3> HIDE DEF y, e
    <3>1. QED
      BY <1>0 DEF Transactions
  <2>3. StagedTxn(x)
    <3> HIDE DEF x, y, e
    <3>1. QED
      BY <1>0, <2>2 DEF StagedTxn
  <2>4. txn' = [txn EXCEPT ![t] = x]
    BY <1>0, <2>0 DEF push_insert
  <2>5. y.pc = "open" /\ UNCHANGED <<world, log, directs, dirty>>
    BY <2>0 DEF push_insert, CanStage
  <2>6. Builds(t, x)
    <3> HIDE DEF x
    <3>1. QED
      BY <2>2, <2>3, <2>4, <2>5 DEF Builds, Kept
  <2>7. QED
    BY <2>1, <2>6
<1>4. CASE \E id \in Named, c \in Comps : push_remove(t, id, c)
  <2>0. PICK id \in Named, c \in Comps : push_remove(t, id, c)
    BY <1>4
  <2> DEFINE e == [id |-> id, comp |-> c]
             x == [y EXCEPT !.removes = Append(y.removes, e)]
  <2>1. x \in Transactions
    <3>1. e \in [id : Ids, comp : Comps]
      BY DEF Named
    <3> HIDE DEF y, e
    <3>2. QED
      BY <1>0, <3>1, AppendUpdate
  <2>2. /\ x.removes = Append(y.removes, e) /\ x.pc = y.pc /\ x.expected_epoch = y.expected_epoch
        /\ x.snap = y.snap /\ x.reads = y.reads
        /\ x.spawns = y.spawns /\ x.pending = y.pending
    <3> HIDE DEF y, e
    <3>1. QED
      BY <1>0 DEF Transactions
  <2>3. StagedTxn(x)
    <3> HIDE DEF x, y, e
    <3>1. QED
      BY <1>0, <2>2 DEF StagedTxn
  <2>4. txn' = [txn EXCEPT ![t] = x]
    BY <1>0, <2>0 DEF push_remove
  <2>5. y.pc = "open" /\ UNCHANGED <<world, log, directs, dirty>>
    BY <2>0 DEF push_remove, CanStage
  <2>6. Builds(t, x)
    <3> HIDE DEF x
    <3>1. QED
      BY <2>2, <2>3, <2>4, <2>5 DEF Builds, Kept
  <2>7. QED
    BY <2>1, <2>6
<1>5. CASE \E id \in 1 .. MaxStaged, c \in Comps : add_component_pending(t, id, c)
  <2>0. PICK id \in 1 .. MaxStaged, c \in Comps : add_component_pending(t, id, c)
    BY <1>5
  <2> DEFINE e == [id |-> id, comp |-> c]
             x == [y EXCEPT !.pending = Append(y.pending, e)]
  <2>1. x \in Transactions
    <3>1. e \in [id : 1 .. MaxStaged, comp : Comps]
      OBVIOUS
    <3> HIDE DEF y, e
    <3>2. QED
      BY <1>0, <3>1, AppendUpdate
  <2>2. /\ x.pending = Append(y.pending, e) /\ x.pc = y.pc /\ x.expected_epoch = y.expected_epoch
        /\ x.snap = y.snap /\ x.reads = y.reads
        /\ x.spawns = y.spawns
    <3> HIDE DEF y, e
    <3>1. QED
      BY <1>0 DEF Transactions
  <2>3. StagedTxn(x)
    <3>1. y.pending \in Seq([id : 1 .. MaxStaged, comp : Comps]) /\ y.pc = "open"
      BY <1>0, <2>0 DEF Transactions, CanStage, add_component_pending
    <3>2. e.id \in DOMAIN y.spawns /\ y.spawns[e.id].is_pending
      BY <2>0 DEF add_component_pending
    <3>3. \A i \in DOMAIN x.pending : \/ i \in DOMAIN y.pending /\ x.pending[i] = y.pending[i]
                                     \/ x.pending[i] = e
      <4> HIDE DEF x, y, e
      <4>1. QED
        BY <2>2, <3>1
    <3> HIDE DEF x, y, e
    <3>4. \A i \in DOMAIN x.pending : /\ x.pending[i].id \in DOMAIN x.spawns
                                     /\ x.spawns[x.pending[i].id].is_pending
      BY <1>0, <2>2, <3>2, <3>3 DEF StagedTxn
    <3>5. QED
      BY <1>0, <2>2, <3>1, <3>4 DEF StagedTxn
  <2>4. txn' = [txn EXCEPT ![t] = x]
    BY <1>0, <2>0 DEF add_component_pending
  <2>5. y.pc = "open" /\ UNCHANGED <<world, log, directs, dirty>>
    BY <2>0 DEF add_component_pending, CanStage
  <2>6. Builds(t, x)
    <3> HIDE DEF x
    <3>1. QED
      BY <2>2, <2>3, <2>4, <2>5 DEF Builds, Kept
  <2>7. QED
    BY <2>1, <2>6
<1>6. QED
  BY <1>1, <1>2, <1>3, <1>4, <1>5 DEF Stage

\* The checks do not look at the phase.
LEMMA SameChecks ==
  ASSUME NEW x \in Transactions, NEW z \in Transactions,
         z.expected_epoch = x.expected_epoch, z.spawns = x.spawns, z.reads = x.reads,
         z.inserts = x.inserts, z.removes = x.removes
  PROVE  (Valid(x) => Valid(z)) /\ (Fits(x) => Fits(z))
<1>1. SpawnIds(x) = SpawnIds(z)
  BY DEF SpawnIds
<1>2. QED
  BY <1>1 DEF Valid, Fits

\* prepare, its errors, and the assertion of apply_prepared.
LEMMA PreparingSteps ==
  ASSUME WorldInv, NEW t \in Txns, Prepare(t) \/ Reject(t) \/ ApplyPanics(t)
  PROVE  \E x \in Transactions : Builds(t, x)
<1> DEFINE y == txn[t]
<1>0. /\ StagedTxn(y) /\ y \in Transactions /\ txn \in [Txns -> Transactions]
  BY DEF WorldInv, TypeOK, StagedWell
<1>1. CASE Prepare(t)
  <2> DEFINE z == Resolved(y)
             x == [z EXCEPT !.pc = "prepared"]
  <2>1. /\ y.pc = "open" /\ Valid(z) /\ Fits(z) /\ txn' = [txn EXCEPT ![t] = x]
        /\ UNCHANGED <<world, log, directs, dirty>>
    BY <1>0, <1>1 DEF Prepare
  <2>2. /\ z \in Transactions /\ z.expected_epoch = y.expected_epoch
        /\ z.reads = y.reads /\ z.snap = y.snap /\ z.pending = <<>>
        /\ \A i \in DOMAIN z.spawns : ~z.spawns[i].is_pending /\ z.spawns[i].id \in Ids
    BY <2>1, ResolvedType
  <2> HIDE DEF z, y
  <2>3. x \in Transactions
    BY <2>2, FieldUpdate
  <2>4. /\ x.pc = "prepared" /\ x.expected_epoch = z.expected_epoch /\ x.reads = z.reads
        /\ x.snap = z.snap /\ x.pending = z.pending /\ x.spawns = z.spawns
        /\ x.inserts = z.inserts /\ x.removes = z.removes
    BY <2>2 DEF Transactions
  <2> HIDE DEF x
  <2>5. Valid(x) /\ Fits(x)
    BY <2>1, <2>2, <2>3, <2>4, SameChecks
  <2>6. StagedTxn(x)
    BY <2>2, <2>4 DEF StagedTxn
  <2>7. Kept(t, x)
    BY <2>2, <2>4 DEF Kept, y
  <2>8. Builds(t, x)
    BY <2>1, <2>4, <2>5, <2>6, <2>7 DEF Builds, y
  <2>9. QED
    BY <2>3, <2>8
<1>2. CASE Reject(t) \/ ApplyPanics(t)
  <2>1. PICK how \in {"failed", "panicked"} : txn' = [txn EXCEPT ![t] = Ended(how)]
    BY <1>2 DEF Reject, ApplyPanics
  <2>2. y.pc \in {"open", "prepared"} /\ UNCHANGED <<world, log, directs, dirty>>
    BY <1>2 DEF Reject, ApplyPanics
  <2> DEFINE x == Ended(how)
  <2>3. x \in Transactions /\ x.pc = how /\ x.spawns = <<>> /\ x.pending = <<>>
    BY EndedType
  <2> HIDE DEF x
  <2>4. StagedTxn(x)
    BY <2>3 DEF StagedTxn
  <2>5. Builds(t, x)
    BY <2>1, <2>2, <2>3, <2>4 DEF Builds, x
  <2>6. QED
    BY <2>3, <2>5
<1>3. QED
  BY <1>1, <1>2

\* apply_prepared and transit.
LEMMA CommittingSteps ==
  ASSUME WorldInv, NEW t \in Txns, ApplyPrepared(t) \/ Transit(t)
  PROVE  \E x \in Transactions : Carries(t, x)
<1>1. CASE ApplyPrepared(t)
  <2>1. txn[t] \in Transactions
    BY DEF WorldInv, TypeOK
  <2>2. Carries(t, txn[t])
    BY <1>1 DEF ApplyPrepared, Carries, Kept
  <2>3. QED
    BY <2>1, <2>2
<1>2. CASE Transit(t)
  <2> DEFINE x == Resolved(txn[t])
  <2>1. txn[t].pc = "open" /\ Valid(x) /\ Fits(x) /\ Apply(t, x)
    BY <1>2 DEF Transit
  <2>2. x \in Transactions /\ Kept(t, x)
    BY <2>1, ResolvedType DEF Kept
  <2>3. Carries(t, x)
    <3> HIDE DEF x
    <3>1. QED
      BY <2>1, <2>2 DEF Carries, x
  <2>4. QED
    BY <2>2, <2>3
<1>3. QED
  BY <1>1, <1>2

\* The ids that a committing transaction spawns are ids.
LEMMA CarriesFits ==
  ASSUME WorldInv, NEW t \in Txns, NEW x \in Transactions, Carries(t, x)
  PROVE  ToSet(SpawnIds(x)) \subseteq Ids
<1>1. CASE Fits(x)
  BY <1>1 DEF Fits
<1>2. CASE txn[t].pc = "prepared" /\ x = txn[t]
  <2>1. StagedTxn(x) /\ x.pc = "prepared"
    BY <1>2 DEF WorldInv, StagedWell
  <2>2. \A i \in DOMAIN x.spawns : x.spawns[i].id \in Ids
    BY <2>1 DEF StagedTxn
  <2>3. QED
    BY <2>2 DEF ToSet, SpawnIds
<1>3. QED
  BY <1>1, <1>2 DEF Carries

\* Every step builds a transaction, commits one, writes past them or changes
\* nothing.
LEMMA StepKinds ==
  ASSUME WorldInv, [Next]_vars
  PROVE  \/ UNCHANGED vars
         \/ \E t \in Txns, x \in Transactions : Builds(t, x)
         \/ \E t \in Txns, x \in Transactions : Carries(t, x)
         \/ DirectSpawn
         \/ \E id \in Named, c \in Comps : DirectInsert(id, c)
<1>1. ASSUME NEW t \in Txns, Begin(t) \/ \E id \in Named : Read(t, id)
      PROVE  \E x \in Transactions : Builds(t, x)
  BY <1>1, OpeningSteps
<1>2. ASSUME NEW t \in Txns, Stage(t)
      PROVE  \E x \in Transactions : Builds(t, x)
  BY <1>2, StagingSteps
<1>3. ASSUME NEW t \in Txns, Prepare(t) \/ Reject(t) \/ ApplyPanics(t)
      PROVE  \E x \in Transactions : Builds(t, x)
  BY <1>3, PreparingSteps
<1>4. ASSUME NEW t \in Txns, ApplyPrepared(t) \/ Transit(t)
      PROVE  \E x \in Transactions : Carries(t, x)
  BY <1>4, CommittingSteps
<1>5. QED
  BY <1>1, <1>2, <1>3, <1>4 DEF Next, Commit

\* The invariant holds in the first state.
LEMMA InitWorldInv == Init => WorldInv
<1> SUFFICES ASSUME Init PROVE WorldInv
  OBVIOUS
<1>0. Closed \in Transactions /\ Closed.pc = "idle" /\ Closed.spawns = <<>> /\ Closed.pending = <<>>
  BY EndedType DEF Closed
<1>1. /\ meta \in Seq(BOOLEAN) /\ Len(meta) = 1 /\ next_id = 2 /\ MaxId \in Nat \ {0}
      /\ MaxDirect \in Nat
  BY TxnAssumption DEF Init
<1>2. comps \in Stores /\ versions \in [Ids -> Nat]
  BY DEF Init, Stores, Writers
<1>3. txn \in [Txns -> Transactions] /\ \A t \in Txns : txn[t] = Closed
  BY <1>0 DEF Init
<1>4. Committed = {}
  BY <1>0, <1>3 DEF Committed
<1>5. Cardinality(Committed) = 0 /\ Cardinality(Txns) \in Nat
  BY <1>4, FS_EmptySet, FS_CardinalityType, TxnAssumption
<1>6. TypeOK
  <2>1. log = <<>> /\ directs = 0 /\ dirty = {} /\ epoch = 0
    BY DEF Init
  <2>2. log \in Seq([change : {"Insert", "Remove"}, ops : SUBSET [id : Ids, comp : Durable]])
    BY <2>1
  <2>3. QED
    BY <1>1, <1>2, <1>3, <1>5, <2>1, <2>2 DEF TypeOK
<1>7. StagedWell
  BY <1>0, <1>3 DEF StagedWell, StagedTxn
<1>8. QED
  BY <1>1, <1>5, <1>6, <1>7 DEF WorldInv, AllocatorAligned, EpochCounts, Init

\* Every step preserves it.
LEMMA StepWorldInv == WorldInv /\ [Next]_vars => WorldInv'
<1> SUFFICES ASSUME WorldInv, [Next]_vars PROVE WorldInv'
  OBVIOUS
<1>1. CASE UNCHANGED vars
  BY <1>1 DEF vars, world, WorldInv, TypeOK, AllocatorAligned, StagedWell, StagedTxn, EpochCounts,
              Committed, Transactions, Stores, Writers
<1>2. ASSUME NEW t \in Txns, NEW x \in Transactions, Builds(t, x)
      PROVE  WorldInv'
  <2>1. /\ StagedTxn(x) /\ txn[t].pc # "committed" /\ x.pc # "committed"
        /\ txn' = [txn EXCEPT ![t] = x] /\ UNCHANGED <<world, log, directs, dirty>>
    BY <1>2 DEF Builds
  <2>2. QED
    BY <2>1, OneTxnStep
<1>3. ASSUME NEW t \in Txns, NEW x \in Transactions, Carries(t, x)
      PROVE  WorldInv'
  BY <1>3, CarriesFits, ApplyStep DEF Carries
<1>4. QED
  BY <1>1, <1>2, <1>3, StepKinds, DirectStep

\* The transactions, the world and the journal have their types, and the
\* epoch never exceeds the number of transactions.
THEOREM TypeCorrect == Spec => []TypeOK
<1>1. Init => WorldInv
  BY InitWorldInv
<1>2. WorldInv /\ [Next]_vars => WorldInv'
  BY StepWorldInv
<1>3. WorldInv => TypeOK
  BY DEF WorldInv
<1>4. QED
  BY <1>1, <1>2, <1>3, PTL DEF Spec

\* A direct spawn appends the metadata of the very id it hands out, whatever
\* sparse and pending ids transactions have spawned before.
THEOREM AllocatorAlignedHolds == Spec => []AllocatorAligned
<1>1. Init => WorldInv
  BY InitWorldInv
<1>2. WorldInv /\ [Next]_vars => WorldInv'
  BY StepWorldInv
<1>3. WorldInv => AllocatorAligned
  BY DEF WorldInv
<1>4. QED
  BY <1>1, <1>2, <1>3, PTL DEF Spec

-----------------------------------------------------------------------------
(***************************************************************************)
(* Commits.                                                                *)
(***************************************************************************)

\* Building a transaction keeps what is known of the others, and says of this
\* one what it has just seen of the world.
LEMMA BuildsTxnInv ==
  ASSUME WorldInv, TxnInv, NEW t \in Txns, NEW x \in Transactions, Builds(t, x)
  PROVE  TxnInv'
<1>1. /\ txn'[t] = x /\ \A u \in Txns \ {t} : txn'[u] = txn[u]
  BY DEF WorldInv, TypeOK, Builds
<1>2. UNCHANGED <<meta, next_id, comps, versions, epoch, dirty>>
  BY DEF Builds, world
<1>3. epoch \in Nat /\ versions \in [Ids -> Nat] /\ \A id : Row(id)' = Row(id)
  BY <1>2 DEF WorldInv, TypeOK, Row
<1>4. OpenedOn'
  <2>1. ASSUME NEW u \in Txns \ dirty, txn'[u].pc \in {"open", "prepared"}
        PROVE  /\ txn'[u].expected_epoch <= epoch
               /\ txn'[u].expected_epoch = epoch => txn'[u].snap = <<meta, comps>>
    <3>1. CASE u # t
      BY <1>1, <2>1, <3>1 DEF TxnInv, OpenedOn
    <3>2. CASE u = t
      BY <1>1, <1>3, <2>1, <3>2 DEF TxnInv, OpenedOn, Builds, Kept
    <3>3. QED
      BY <3>1, <3>2
  <2>2. QED
    BY <1>2, <2>1 DEF OpenedOn
<1>5. ReadsOn'
  <2>1. ASSUME NEW u \in Txns \ dirty
        PROVE  /\ txn'[u].pc = "idle" => txn'[u].reads = {}
               /\ txn'[u].pc \in {"reading", "open", "prepared"} =>
                    \A d \in txn'[u].reads :
                      /\ d.version <= versions[d.id]
                      /\ d.version = versions[d.id] => d.row = Row(d.id)
    <3>1. CASE u # t
      BY <1>1, <2>1, <3>1 DEF TxnInv, ReadsOn
    <3>2. CASE u = t /\ x.pc = "reading"
      <4>1. PICK id \in Ids : x.reads = {[id |-> id, version |-> versions[id], row |-> Row(id)]}
        BY <3>2 DEF Builds
      <4>2. versions[id] \in Nat
        BY <1>3
      <4>3. QED
        BY <1>1, <3>2, <4>1, <4>2
    <3>3. CASE u = t /\ x.pc \in {"open", "prepared"}
      <4>1. x.reads = txn[t].reads /\ txn[t].pc \in {"idle", "reading", "open"}
        BY <3>3 DEF Builds, Kept
      <4>2. QED
        BY <1>1, <3>3, <4>1 DEF TxnInv, ReadsOn
    <3>4. CASE u = t /\ x.pc \in {"failed", "panicked"}
      BY <1>1, <3>4
    <3>5. QED
      BY <3>1, <3>2, <3>3, <3>4 DEF Builds
  <2>2. QED
    BY <1>2, <1>3, <2>1 DEF ReadsOn
<1>6. PreparedOn'
  <2>1. ASSUME NEW u \in Txns \ dirty, txn'[u].pc = "prepared", txn'[u].expected_epoch = epoch
        PROVE  /\ \A d \in txn'[u].reads : versions[d.id] = d.version
               /\ \A i \in DOMAIN txn'[u].spawns : ~has_entity(txn'[u].spawns[i].id)
               /\ IsInjective(SpawnIds(txn'[u]))
    <3>1. CASE u # t
      BY <1>1, <2>1, <3>1 DEF TxnInv, PreparedOn
    <3>2. CASE u = t
      <4>1. Valid(x)
        BY <1>1, <2>1, <3>2 DEF Builds
      <4>2. QED
        BY <1>1, <3>2, <4>1 DEF Valid
    <3>3. QED
      BY <3>1, <3>2
  <2>2. QED
    BY <1>2, <2>1 DEF PreparedOn, has_entity, SpawnIds, IsInjective
<1>7. QED
  BY <1>4, <1>5, <1>6 DEF TxnInv

\* A commit moves the epoch past every open transaction, and the version of
\* every entity it writes.
LEMMA CarriesTxnInv ==
  ASSUME WorldInv, TxnInv, NEW t \in Txns, NEW x \in Transactions, Carries(t, x)
  PROVE  TxnInv'
<1>1. /\ txn'[t].pc = "committed" /\ \A u \in Txns \ {t} : txn'[u] = txn[u]
  <2>1. txn' = [txn EXCEPT ![t] = Ended("committed")] /\ txn \in [Txns -> Transactions]
    BY DEF WorldInv, TypeOK, Carries, Apply
  <2>2. QED
    BY <2>1, EndedType
<1>2. epoch' = epoch + 1 /\ dirty' = dirty /\ epoch \in Nat /\ txn \in [Txns -> Transactions]
  BY DEF Carries, Apply, WorldInv, TypeOK
<1>3. ASSUME NEW u \in Txns \ dirty, txn'[u].pc \in {"open", "prepared"}
      PROVE  txn'[u].expected_epoch <= epoch' /\ txn'[u].expected_epoch # epoch'
  <2>1. u # t /\ txn'[u] = txn[u]
    BY <1>1, <1>3
  <2>2. txn[u].expected_epoch <= epoch
    BY <1>3, <2>1 DEF TxnInv, OpenedOn
  <2>3. txn[u].expected_epoch \in Nat
    BY <1>2 DEF Transactions
  <2>4. QED
    BY <1>2, <2>1, <2>2, <2>3
<1>4. OpenedOn'
  BY <1>2, <1>3 DEF OpenedOn
<1>5. PreparedOn'
  BY <1>2, <1>3 DEF PreparedOn
<1>6. ReadsOn'
  <2>1. ASSUME NEW u \in Txns \ dirty, txn'[u].pc \in {"reading", "open", "prepared"},
               NEW d \in txn'[u].reads
        PROVE  /\ d.version <= versions'[d.id]
               /\ d.version = versions'[d.id] => d.row = Row(d.id)'
    <3>1. u # t /\ txn'[u] = txn[u]
      BY <1>1, <2>1
    <3>2. d.version <= versions[d.id] /\ (d.version = versions[d.id] => d.row = Row(d.id))
      BY <2>1, <3>1 DEF TxnInv, ReadsOn
    <3>3. d.id \in Ids /\ d.version \in Nat
      BY <1>2, <3>1 DEF Transactions
    <3>4. /\ versions[d.id] \in Nat /\ Writes(x, d.id) \in Nat
          /\ versions'[d.id] = versions[d.id] + Writes(x, d.id)
      BY <3>3, WritesNat DEF WorldInv, TypeOK, Carries, Apply
    <3>5. ASSUME d.version = versions'[d.id] PROVE d.row = Row(d.id)'
      <4>1. Writes(x, d.id) = 0 /\ d.version = versions[d.id]
        BY <3>2, <3>3, <3>4, <3>5
      <4>2. \A op \in ToSet(x.inserts) \cup ToSet(x.removes) : op.id # d.id
        BY <4>1, WritesNat
      <4>3. ASSUME NEW c \in Comps PROVE comps'[<<d.id, c>>] = comps[<<d.id, c>>]
        <5>1. Op(d.id, c) \notin ToSet(x.inserts) /\ Op(d.id, c) \notin ToSet(x.removes)
          BY <4>2 DEF Op
        <5>2. comps' = [k \in Ids \X Comps |->
                          IF Op(k[1], k[2]) \in ToSet(x.removes) THEN None ELSE
                          IF Op(k[1], k[2]) \in ToSet(x.inserts) THEN t ELSE comps[k]]
          BY DEF Carries, Apply
        <5>3. QED
          BY <3>3, <5>1, <5>2
      <4>4. Row(d.id)' = Row(d.id)
        BY <4>3 DEF Row
      <4>5. QED
        BY <3>2, <4>1, <4>4
    <3>6. QED
      BY <3>2, <3>3, <3>4, <3>5
  <2>2. ASSUME NEW u \in Txns \ dirty, txn'[u].pc = "idle" PROVE txn'[u].reads = {}
    BY <1>1, <2>2 DEF TxnInv, ReadsOn
  <2>3. QED
    BY <1>2, <2>1, <2>2 DEF ReadsOn
<1>7. QED
  BY <1>4, <1>5, <1>6 DEF TxnInv

\* Every step preserves what is known of the transactions.
LEMMA StepTxnInv == WorldInv /\ TxnInv /\ [Next]_vars => TxnInv'
<1> SUFFICES ASSUME WorldInv, TxnInv, [Next]_vars PROVE TxnInv'
  OBVIOUS
<1>1. CASE UNCHANGED vars
  <2>1. UNCHANGED <<meta, comps, versions, epoch, txn, dirty>>
    BY <1>1 DEF vars, world
  <2>2. OpenedOn' /\ PreparedOn'
    <3>1. OpenedOn'
      BY <2>1 DEF TxnInv, OpenedOn
    <3>2. \A t : /\ SpawnIds(txn[t])' = SpawnIds(txn[t])
                /\ IsInjective(SpawnIds(txn[t]))' = IsInjective(SpawnIds(txn[t]))
                /\ \A id : has_entity(id)' = has_entity(id)
      BY <2>1 DEF SpawnIds, IsInjective, has_entity
    <3>3. PreparedOn'
      BY <2>1, <3>2 DEF TxnInv, PreparedOn
    <3>4. QED
      BY <3>1, <3>3
  <2>3. \A id : Row(id)' = Row(id)
    BY <2>1 DEF Row
  <2>4. ReadsOn'
    BY <2>1, <2>3 DEF TxnInv, ReadsOn
  <2>5. QED
    BY <2>2, <2>4 DEF TxnInv
<1>2. CASE DirectSpawn \/ \E id \in Named, c \in Comps : DirectInsert(id, c)
  <2>1. /\ dirty' = dirty \cup {t \in Txns : txn[t].pc \in {"reading", "open", "prepared"}}
        /\ txn' = txn
    BY <1>2 DEF DirectSpawn, DirectInsert, Direct
  <2>2. QED
    BY <2>1 DEF TxnInv, OpenedOn, ReadsOn, PreparedOn
<1>3. QED
  BY <1>1, <1>2, StepKinds, BuildsTxnInv, CarriesTxnInv

\* The two invariants together.
LEMMA TxnInvariant == Spec => [](WorldInv /\ TxnInv)
<1>1. Init => WorldInv /\ TxnInv
  <2>1. ASSUME Init PROVE TxnInv
    <3>1. \A t \in Txns : txn[t].pc = "idle" /\ txn[t].reads = {}
      BY <2>1 DEF Init, Closed
    <3>2. QED
      BY <3>1 DEF TxnInv, OpenedOn, ReadsOn, PreparedOn
  <2>2. QED
    BY <2>1, InitWorldInv
<1>2. WorldInv /\ TxnInv /\ [Next]_vars => (WorldInv /\ TxnInv)'
  BY StepWorldInv, StepTxnInv
<1>3. QED
  BY <1>1, <1>2, PTL DEF Spec

\* Only apply_prepared and transit commit, and only at the epoch the
\* transaction was opened at.
LEMMA CommitStep ==
  ASSUME WorldInv, TxnInv, [Next]_vars, NEW t \in Txns, Commits(t)
  PROVE  \E x \in Transactions :
           /\ Carries(t, x) /\ txn[t].expected_epoch = epoch
           /\ t \notin dirty =>
                /\ \A d \in x.reads : versions[d.id] = d.version
                /\ \A i \in DOMAIN x.spawns : ~has_entity(x.spawns[i].id)
                /\ IsInjective(SpawnIds(x))
<1>0. txn[t].pc # "committed" /\ txn'[t].pc = "committed" /\ txn \in [Txns -> Transactions]
  BY DEF Commits, WorldInv, TypeOK
<1>1. ~UNCHANGED vars /\ ~DirectSpawn /\ ~(\E id \in Named, c \in Comps : DirectInsert(id, c))
  BY <1>0 DEF vars, DirectSpawn, DirectInsert, Direct
<1>2. ASSUME NEW u \in Txns, NEW x \in Transactions, Builds(u, x) PROVE FALSE
  <2>1. txn' = [txn EXCEPT ![u] = x] /\ x.pc # "committed"
    BY <1>2 DEF Builds
  <2>2. QED
    BY <1>0, <2>1
<1>3. ASSUME NEW u \in Txns, NEW x \in Transactions, Carries(u, x) PROVE u = t
  <2>1. txn' = [txn EXCEPT ![u] = Ended("committed")]
    BY <1>3 DEF Carries, Apply
  <2>2. QED
    BY <1>0, <2>1
<1>4. PICK x \in Transactions : Carries(t, x)
  BY <1>1, <1>2, <1>3, StepKinds
<1>5. CASE Valid(x)
  BY <1>4, <1>5 DEF Carries, Kept, Valid
<1>6. CASE txn[t].pc = "prepared" /\ x = txn[t] /\ epoch = x.expected_epoch
  BY <1>4, <1>6 DEF TxnInv, PreparedOn
<1>7. QED
  BY <1>4, <1>5, <1>6 DEF Carries

\* A transaction that commits, through transit or in two calls, does so on the
\* very world it was opened on, unless somebody wrote past the transactions.
THEOREM CommitsSerializeHolds == Spec => CommitsSerialize
<1>1. WorldInv /\ TxnInv /\ [Next]_vars
        => [\A t \in Txns : Commits(t) /\ t \notin dirty => txn[t].snap = <<meta, comps>>]_vars
  <2> SUFFICES ASSUME WorldInv, TxnInv, [Next]_vars, NEW t \in Txns, Commits(t), t \notin dirty
               PROVE  txn[t].snap = <<meta, comps>>
    OBVIOUS
  <2>1. txn[t].expected_epoch = epoch /\ txn[t].pc \in {"open", "prepared"}
    BY CommitStep DEF Carries
  <2>2. QED
    BY <2>1 DEF TxnInv, OpenedOn
<1>2. QED
  BY <1>1, TxnInvariant, PTL DEF Spec, CommitsSerialize

\* What a committing transaction has read is still there: every write of an
\* entity, durable or not, moves the version that prepare compares.
THEOREM ReadsAreCurrentHolds == Spec => ReadsAreCurrent
<1>1. WorldInv /\ TxnInv /\ [Next]_vars
        => [\A t \in Txns : Commits(t) /\ t \notin dirty =>
              \A d \in txn[t].reads : d.row = Row(d.id)]_vars
  <2> SUFFICES ASSUME WorldInv, TxnInv, [Next]_vars, NEW t \in Txns, Commits(t), t \notin dirty,
                      NEW d \in txn[t].reads
               PROVE  d.row = Row(d.id)
    OBVIOUS
  <2>1. versions[d.id] = d.version /\ txn[t].pc \in {"open", "prepared"}
    BY CommitStep DEF Carries, Kept
  <2>2. QED
    BY <2>1 DEF TxnInv, ReadsOn
<1>2. QED
  BY <1>1, TxnInvariant, PTL DEF Spec, ReadsAreCurrent

\* A prepared transaction is resolved already.
LEMMA ResolvedPrepared ==
  ASSUME WorldInv, NEW t \in Txns, txn[t].pc = "prepared"
  PROVE  SpawnIds(Resolved(txn[t])) = SpawnIds(txn[t])
<1> DEFINE y == txn[t]
           sp == [i \in DOMAIN y.spawns |-> IF y.spawns[i].is_pending
                                              THEN [is_pending |-> FALSE, id |-> next_id + i - 1]
                                              ELSE y.spawns[i]]
<1>1. y \in Transactions /\ \A i \in DOMAIN y.spawns : ~y.spawns[i].is_pending
  BY DEF WorldInv, TypeOK, StagedWell, StagedTxn
<1>2. Resolved(y).spawns = sp
  BY <1>1 DEF Resolved, Transactions
<1>3. DOMAIN sp = DOMAIN y.spawns /\ \A i \in DOMAIN y.spawns : sp[i] = y.spawns[i]
  BY <1>1
<1> HIDE DEF sp, y
<1>4. SpawnIds(Resolved(y)) = SpawnIds(y)
  BY <1>2, <1>3 DEF SpawnIds
<1>5. QED
  BY <1>4 DEF y

\* Every spawn of a committing transaction makes a new entity of its own.
THEOREM SpawnsAreDistinctHolds == Spec => SpawnsAreDistinct
<1>1. WorldInv /\ TxnInv /\ [Next]_vars
        => [\A t \in Txns : Commits(t) /\ t \notin dirty =>
              /\ Cardinality(Alive') = Cardinality(Alive) + Len(txn[t].spawns)
              /\ ToSet(SpawnIds(Resolved(txn[t]))) \subseteq Alive' \ Alive]_vars
  <2> SUFFICES ASSUME WorldInv, TxnInv, [Next]_vars, NEW t \in Txns, Commits(t), t \notin dirty
               PROVE  /\ Cardinality(Alive') = Cardinality(Alive) + Len(txn[t].spawns)
                      /\ ToSet(SpawnIds(Resolved(txn[t]))) \subseteq Alive' \ Alive
    OBVIOUS
  <2>0. PICK x \in Transactions :
          /\ Carries(t, x)
          /\ \A i \in DOMAIN x.spawns : ~has_entity(x.spawns[i].id)
          /\ IsInjective(SpawnIds(x))
    BY CommitStep
  <2> DEFINE f == SpawnIds(x)
             ids == ToSet(f)
             n == Len(x.spawns)
  <2>1. /\ DOMAIN x.spawns = 1 .. n /\ n \in Nat /\ DOMAIN f = 1 .. n
        /\ \A i \in 1 .. n : f[i] = x.spawns[i].id
    BY DEF Transactions, SpawnIds
  <2>2. f = SpawnIds(Resolved(txn[t])) /\ n = Len(txn[t].spawns)
    <3>1. CASE txn[t].pc = "open" /\ x = Resolved(txn[t]) /\ Fits(x)
      BY <3>1, ResolvedType
    <3>2. CASE txn[t].pc = "prepared" /\ x = txn[t]
      BY <3>2, ResolvedPrepared
    <3>3. QED
      BY <2>0, <3>1, <3>2 DEF Carries
  <2>3. ids \in SUBSET Ids
    BY <2>0, CarriesFits
  <2>4. \A i \in Nat : has_entity(i)' <=> i \in ids \/ has_entity(i)
    <3>1. /\ meta \in Seq(BOOLEAN) /\ Len(meta) <= MaxId /\ AllocatorAligned
          /\ spawn_entity_with_id(ids)
      BY <2>0 DEF WorldInv, TypeOK, Carries, Apply
    <3> HIDE DEF ids
    <3>2. QED
      BY <2>3, <3>1, SpawnEffect
  <2>5. /\ meta \in Seq(BOOLEAN) /\ meta' \in Seq(BOOLEAN)
    BY StepWorldInv DEF WorldInv, TypeOK
  <2>6. /\ Alive \subseteq Nat /\ Alive' \subseteq Nat /\ ids \subseteq Nat
        /\ \A i \in Nat : (i \in Alive <=> has_entity(i)) /\ (i \in Alive' <=> has_entity(i)')
    BY <2>3, <2>5 DEF Alive, has_entity, Ids
  <2>7. ids \cap Alive = {}
    <3>1. \A id \in ids : ~has_entity(id)
      BY <2>0, <2>1 DEF ToSet
    <3> HIDE DEF ids
    <3>2. QED
      BY <2>6, <3>1
  <2>8. Alive' = Alive \cup ids
    <3> HIDE DEF ids
    <3>1. QED
      BY <2>4, <2>6
  <2>9. IsFiniteSet(ids) /\ Cardinality(ids) = n
    <3>1. f \in [1 .. n -> ids] /\ \A id \in ids : \E i \in 1 .. n : f[i] = id
      BY <2>1 DEF ToSet, SpawnIds
    <3>2. f \in Surjection(1 .. n, ids) /\ f \in Injection(1 .. n, ids)
      <4> HIDE DEF f, ids, n
      <4>1. QED
        BY <2>0, <3>1 DEF Surjection, Injection, f
    <3>3. IsFiniteSet(1 .. n) /\ Cardinality(1 .. n) = n
      BY <2>1, FS_Interval
    <3> HIDE DEF f, ids, n
    <3>4. QED
      BY <3>2, <3>3, FS_Surjection
  <2>10. IsFiniteSet(Alive)
    <3>1. Alive \subseteq 1 .. Len(meta) /\ Len(meta) \in Nat
      BY <2>5 DEF Alive
    <3>2. IsFiniteSet(1 .. Len(meta))
      BY <3>1, FS_Interval
    <3>3. QED
      BY <3>1, <3>2, FS_Subset
  <2>11. Cardinality(Alive') = Cardinality(Alive) + n
    <3> HIDE DEF ids, n
    <3>1. Cardinality(Alive \cup ids) = Cardinality(Alive) + Cardinality(ids) - Cardinality({})
      BY <2>7, <2>9, <2>10, FS_Union
    <3>2. Cardinality({}) = 0 /\ Cardinality(Alive) \in Nat /\ n \in Nat
      BY <2>1, <2>10, FS_EmptySet, FS_CardinalityType
    <3>3. QED
      BY <2>8, <2>9, <3>1, <3>2
  <2>12. ids \subseteq Alive' \ Alive
    BY <2>7, <2>8
  <2> HIDE DEF f, n
  <2>13. QED
    BY <2>2, <2>11, <2>12
<1>2. QED
  BY <1>1, TxnInvariant, PTL DEF Spec, SpawnsAreDistinct

-----------------------------------------------------------------------------
(***************************************************************************)
(* The journal.                                                            *)
(***************************************************************************)

\* The last entry of the journal lg that touches a component inserts it.
Holds(lg, op) ==
  \E i \in DOMAIN lg :
    /\ lg[i].change = "Insert"
    /\ op \in lg[i].ops
    /\ \A j \in i + 1 .. Len(lg) : op \notin lg[j].ops

\* Appending the entries of a commit: a removal wins over an insert, and both
\* over what was journaled before.
LEMMA JournalAppends ==
  ASSUME NEW S, NEW lg \in Seq(S), NEW ins, NEW rem, NEW op
  PROVE  Holds(lg \o << [change |-> "Insert", ops |-> ins], [change |-> "Remove", ops |-> rem] >>, op)
           <=> op \notin rem /\ (op \in ins \/ Holds(lg, op))
<1> DEFINE n == Len(lg)
           new == lg \o << [change |-> "Insert", ops |-> ins], [change |-> "Remove", ops |-> rem] >>
<1>1. /\ n \in Nat /\ DOMAIN lg = 1 .. n
      /\ Len(new) = n + 2 /\ DOMAIN new = 1 .. n + 2
      /\ \A i \in 1 .. n : new[i] = lg[i]
      /\ new[n + 1] = [change |-> "Insert", ops |-> ins]
      /\ new[n + 2] = [change |-> "Remove", ops |-> rem]
  OBVIOUS
<1>2. new[n + 1].change = "Insert" /\ new[n + 1].ops = ins /\ new[n + 2].change = "Remove"
      /\ new[n + 2].ops = rem
  BY <1>1
<1> HIDE DEF new, n
<1>3. ASSUME Holds(new, op) PROVE op \notin rem /\ (op \in ins \/ Holds(lg, op))
  <2>1. PICK i \in 1 .. n + 2 : /\ new[i].change = "Insert" /\ op \in new[i].ops
                                /\ \A j \in i + 1 .. n + 2 : op \notin new[j].ops
    BY <1>1, <1>3 DEF Holds
  <2>2. i # n + 2 /\ n + 2 \in i + 1 .. n + 2
    BY <1>1, <1>2, <2>1
  <2>3. CASE i = n + 1
    BY <1>2, <2>1, <2>2, <2>3
  <2>4. CASE i \in 1 .. n
    <3>1. \A j \in i + 1 .. n : j \in i + 1 .. n + 2 /\ new[j] = lg[j]
      BY <1>1, <2>4
    <3>2. Holds(lg, op)
      BY <1>1, <2>1, <2>4, <3>1 DEF Holds, n
    <3>3. QED
      BY <1>2, <2>1, <2>2, <3>2
  <2>5. QED
    BY <1>1, <2>1, <2>2, <2>3, <2>4
<1>4. ASSUME op \notin rem, op \in ins PROVE Holds(new, op)
  <2>1. n + 1 \in DOMAIN new /\ \A j \in n + 2 .. n + 2 : j = n + 2
    BY <1>1
  <2>2. (n + 1) + 1 = n + 2
    BY <1>1
  <2>3. QED
    BY <1>1, <1>2, <1>4, <2>1, <2>2 DEF Holds
<1>5. ASSUME op \notin rem, op \notin ins, Holds(lg, op) PROVE Holds(new, op)
  <2>1. PICK i \in 1 .. n : /\ lg[i].change = "Insert" /\ op \in lg[i].ops
                            /\ \A j \in i + 1 .. n : op \notin lg[j].ops
    BY <1>1, <1>5 DEF Holds, n
  <2>2. ASSUME NEW j \in i + 1 .. n + 2 PROVE op \notin new[j].ops
    <3>1. j \in i + 1 .. n \/ j = n + 1 \/ j = n + 2
      BY <1>1
    <3>2. QED
      BY <1>1, <1>2, <1>5, <2>1, <3>1
  <2>3. i \in DOMAIN new /\ new[i].change = "Insert" /\ op \in new[i].ops
    BY <1>1, <2>1
  <2>4. QED
    BY <1>1, <2>2, <2>3 DEF Holds
<1>6. QED
  BY <1>3, <1>4, <1>5 DEF new

\* Replaying the journals of all commits gives the durable components that
\* are there, as long as only transactions wrote.
THEOREM JournalReplaysHolds == Spec => []JournalReplays
<1>0. JournalReplays <=> (directs = 0 => \A id \in Ids, c \in Durable :
                            comps[<<id, c>>] # None <=> Holds(log, Op(id, c)))
  BY DEF JournalReplays, Holds
<1>1. Init => JournalReplays
  <2>1. ASSUME Init PROVE \A id \in Ids, c \in Durable : comps[<<id, c>>] = None /\ ~Holds(log, Op(id, c))
    BY <2>1 DEF Init, Holds, Comps
  <2>2. QED
    BY <1>0, <2>1
<1>2. WorldInv /\ JournalReplays /\ [Next]_vars => JournalReplays'
  <2> SUFFICES ASSUME WorldInv, JournalReplays, [Next]_vars PROVE JournalReplays'
    OBVIOUS
  <2>1. CASE UNCHANGED <<comps, log, directs>>
    BY <2>1 DEF JournalReplays
  <2>2. CASE directs' # 0
    BY <2>2 DEF JournalReplays
  <2>3. ASSUME NEW t \in Txns, NEW x \in Transactions, Carries(t, x), directs' = 0
        PROVE  \A id \in Ids, c \in Durable : comps'[<<id, c>>] # None <=> Holds(log', Op(id, c))
    <3> SUFFICES ASSUME NEW id \in Ids, NEW c \in Durable
                 PROVE  comps'[<<id, c>>] # None <=> Holds(log', Op(id, c))
      OBVIOUS
    <3> DEFINE o == Op(id, c)
    <3>1. /\ directs = 0 /\ log' = log \o Journal(x)
          /\ comps' = [k \in Ids \X Comps |->
                         IF Op(k[1], k[2]) \in ToSet(x.removes) THEN None ELSE
                         IF Op(k[1], k[2]) \in ToSet(x.inserts) THEN t ELSE comps[k]]
      BY <2>3 DEF Carries, Apply
    <3>2. comps'[<<id, c>>] = IF o \in ToSet(x.removes) THEN None ELSE
                              IF o \in ToSet(x.inserts) THEN t ELSE comps[<<id, c>>]
      BY <3>1 DEF Comps
    <3>3. /\ o \in DurableOps(x.removes) <=> o \in ToSet(x.removes)
          /\ o \in DurableOps(x.inserts) <=> o \in ToSet(x.inserts)
      BY DEF DurableOps, Op
    <3>4. comps[<<id, c>>] # None <=> Holds(log, o)
      BY <1>0, <3>1
    <3>5. Holds(log', o) <=> /\ o \notin DurableOps(x.removes)
                             /\ o \in DurableOps(x.inserts) \/ Holds(log, o)
      <4>1. log \in Seq([change : {"Insert", "Remove"}, ops : SUBSET [id : Ids, comp : Durable]])
        BY DEF WorldInv, TypeOK
      <4> HIDE DEF o
      <4>2. QED
        BY <3>1, <4>1, JournalAppends DEF Journal
    <3>6. t # None
      BY TxnAssumption
    <3> HIDE DEF o
    <3>7. QED
      BY <3>2, <3>3, <3>4, <3>5, <3>6 DEF o
  <2>4. ASSUME NEW t \in Txns, NEW x \in Transactions, Carries(t, x)
        PROVE  JournalReplays'
    BY <2>3, <2>4 DEF JournalReplays, Holds
  <2>5. ASSUME NEW t \in Txns, NEW x \in Transactions, Builds(t, x)
        PROVE  UNCHANGED <<comps, log, directs>>
    BY <2>5 DEF Builds, world
  <2>6. ASSUME DirectSpawn \/ \E id \in Named, c \in Comps : DirectInsert(id, c)
        PROVE  directs' # 0
    <3>1. directs' = directs + 1
      BY <2>6 DEF DirectSpawn, DirectInsert, Direct
    <3>2. directs \in Nat
      BY TxnAssumption DEF WorldInv, TypeOK
    <3>3. QED
      BY <3>1, <3>2
  <2>7. UNCHANGED vars => UNCHANGED <<comps, log, directs>>
    BY DEF vars, world
  <2>8. QED
    BY <2>1, <2>2, <2>4, <2>5, <2>6, <2>7, StepKinds
<1>3. QED
  BY <1>1, <1>2, TxnInvariant, PTL DEF Spec
=============================================================================
