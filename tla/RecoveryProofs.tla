---------------------------- MODULE RecoveryProofs ----------------------------
(***************************************************************************)
(* What recovery rebuilds.  As long as calls of submit do not overlap, no  *)
(* port call fails and no lease command is submitted, replaying the        *)
(* journal gives the very world that was served, and recovery gets to its  *)
(* end after every crash.  Each of the three conditions is needed.  Calls  *)
(* that overlap may take the world lock in another order than that of      *)
(* their sequences; and even in that order, one may                        *)
(* complete on top of another's mutation that a crash loses (recovery_cut).*)
(* A failed complete leaves a mutation without a journal entry, and a      *)
(* lease command panics when it is replayed.                               *)
(***************************************************************************)
EXTENDS CommandKernelProofs, DataLemmas

\* The calls are one after the other, none of them about a lease, and no call
\* of a port has failed.
Serial ==
  /\ \A s, t \in Submitters : pc[s] # "idle" /\ pc[t] # "idle" => s = t
  /\ \A s \in Submitters : pc[s] # "idle" => OpOf(s) \notin LeaseOps
  /\ faults = 0

\* H[q] is the world after the replay of everything recorded below q, and
\* that replay goes through.
Replays(H) ==
  /\ DOMAIN H = Nat /\ H[0] = <<>>
  /\ \A q \in Nat : JournaledAt(q) = {} => H[q + 1] = H[q]
  /\ \A q \in Nat : \A k \in JournaledAt(q) :
       /\ ReplayVerdict(H[q], CommandOf[k], commands[k].result) = "ok"
       /\ H[q + 1] = Execute(H[q], CommandOf[k]).world

\* What caller s did to the world that everything recorded so far has built.
Mutated(H, s) ==
  LET r == Execute(H[next_sequence], CommandOf[call[s].key])
  IN  r.ok /\ world = r.world /\ call[s].result = r.entity

\* Where the world stands between H's worlds.
Follows(H) ==
  /\ status # "halted"
  /\ status = "recovering" => cursor <= next_sequence /\ world = H[cursor]
  /\ status = "up" /\ (\A s \in Submitters : pc[s] # "mutated") => world = H[next_sequence]
  /\ \A s \in Submitters : pc[s] = "mutated" => Mutated(H, s)

\* The call at work was admitted last.
Latest ==
  \A s \in Submitters : pc[s] # "idle" =>
    pc[s] \in {"admitted", "mutated"} /\ call[s].sequence + 1 = next_sequence

ReplayInv == Latest /\ \E H : Replays(H) /\ Follows(H)

-----------------------------------------------------------------------------

\* Where nothing is recorded, H does not move.
LEMMA Level ==
  ASSUME NEW H, Replays(H), NEW a \in Nat, NEW b \in Nat, a <= b,
         \A q \in Nat : a <= q /\ q < b => JournaledAt(q) = {}
  PROVE  H[b] = H[a]
<1> DEFINE N == {q \in Nat : a <= q /\ q <= b => H[q] = H[a]}
<1>1. 0 \in N
  OBVIOUS
<1>2. ASSUME NEW q \in Nat, q \in N PROVE q + 1 \in N
  <2>1. CASE a <= q /\ q + 1 <= b
    <3>1. JournaledAt(q) = {} /\ H[q] = H[a]
      BY <1>2, <2>1
    <3>2. H[q + 1] = H[a]
      BY <3>1 DEF Replays
    <3>3. QED
      BY <3>2
  <2>2. CASE ~(a <= q /\ q + 1 <= b)
    <3>1. a <= q + 1 /\ q + 1 <= b => q + 1 = a
      BY <2>2
    <3>2. QED
      BY <3>1
  <2>3. QED
    BY <2>1, <2>2
<1>3. Nat \subseteq N
  <2> HIDE DEF N
  <2>1. QED
    BY <1>1, <1>2, NatSetInduction
<1>4. QED
  BY <1>3

\* Nothing is recorded from the next sequence on.
LEMMA NothingAhead ==
  ASSUME TypeOK, SequencesUnique, NEW q \in Nat, next_sequence <= q
  PROVE  JournaledAt(q) = {}
<1>1. \A k \in Keys : commands[k].st = "Completed" => commands[k].sequence < next_sequence
  BY DEF SequencesUnique, Filed
<1>2. next_sequence \in Nat /\ \A k \in Keys : commands[k].sequence \in Nat
  BY DEF TypeOK, Entries
<1>3. QED
  BY <1>1, <1>2 DEF JournaledAt

\* H stays good while the journal stays the same.
LEMMA ReplaysKept ==
  ASSUME NEW H, Replays(H),
         \A k \in Keys : /\ commands'[k].st = "Completed" <=> commands[k].st = "Completed"
                         /\ commands[k].st = "Completed" => commands'[k] = commands[k]
  PROVE  Replays(H)'
<1>1. \A q : JournaledAt(q)' = JournaledAt(q)
  BY DEF JournaledAt
<1>2. \A q : \A k \in JournaledAt(q) : k \in Keys /\ commands'[k] = commands[k]
  BY DEF JournaledAt
<1>3. QED
  BY <1>1, <1>2 DEF Replays

\* A step that leaves the store, the world and the status alone, in which no
\* call gets further than returning.
LEMMA QuietKeeps ==
  ASSUME ReplayInv, UNCHANGED <<commands, next_sequence, world, status, cursor>>,
         \A t \in Submitters : pc'[t] # "idle" => pc'[t] = pc[t] /\ call'[t] = call[t],
         \A t \in Submitters : pc[t] = "mutated" => pc'[t] = "mutated"
  PROVE  ReplayInv'
<1>1. PICK H : Replays(H) /\ Follows(H)
  BY DEF ReplayInv
<1>2. Replays(H)'
  BY <1>1, ReplaysKept
<1>3. Latest'
  BY DEF ReplayInv, Latest
<1>4. Follows(H)'
  <2>1. ASSUME NEW s \in Submitters, pc'[s] = "mutated" PROVE Mutated(H, s)'
    <3>1. pc[s] = "mutated" /\ call'[s] = call[s]
      BY <2>1
    <3>2. QED
      BY <1>1, <3>1 DEF Follows, Mutated
  <2>2. QED
    BY <1>1, <2>1 DEF Follows
<1>5. QED
  BY <1>2, <1>3, <1>4 DEF ReplayInv

\* Admit: the new entry is not recorded yet, and it is the last.
LEMMA AdmitKeeps ==
  ASSUME TypeOK, OwnInv, Serial', ReplayInv,
         NEW s \in Submitters, NEW k \in Keys, Admit(s, k)
  PROVE  ReplayInv'
<1>1. PICK H : Replays(H) /\ Follows(H)
  BY DEF ReplayInv
<1>2. /\ commands' = [commands EXCEPT ![k] = InFlightEntry(next_sequence)]
      /\ next_sequence' = next_sequence + 1 /\ next_sequence \in Nat
      /\ pc' = [pc EXCEPT ![s] = "admitted"] /\ pc[s] = "idle"
      /\ call' = [call EXCEPT ![s] = [key |-> k, sequence |-> next_sequence, result |-> 0]]
      /\ status = "up" /\ UNCHANGED <<world, status, cursor>>
      /\ commands[k].st # "Completed"
  BY DEF Admit, Goto, admit, Admissible, TypeOK
<1>3. Replays(H)'
  <2>1. commands'[k].st = "InFlight" /\ \A j \in Keys \ {k} : commands'[j] = commands[j]
    BY <1>2 DEF InFlightEntry, TypeOK
  <2>2. QED
    BY <1>1, <1>2, <2>1, ReplaysKept
<1>4. \A t \in Submitters : pc'[t] # "idle" => t = s
  BY <1>2 DEF Serial, TypeOK
<1>5. pc'[s] = "admitted" /\ call'[s].sequence = next_sequence
  BY <1>2 DEF TypeOK
<1>6. Latest'
  BY <1>2, <1>4, <1>5 DEF Latest
<1>7. \A t \in Submitters : pc[t] # "mutated"
  BY <1>2, <1>4 DEF TypeOK
<1>8. world' = H[next_sequence + 1]
  <2>1. JournaledAt(next_sequence) = {}
    BY <1>2, NothingAhead DEF OwnInv
  <2>2. H[next_sequence + 1] = H[next_sequence]
    BY <1>1, <1>2, <2>1 DEF Replays
  <2>3. QED
    BY <1>1, <1>2, <1>7, <2>2 DEF Follows
<1>9. Follows(H)'
  BY <1>2, <1>4, <1>5, <1>8 DEF Follows
<1>10. QED
  BY <1>3, <1>6, <1>9 DEF ReplayInv

\* ExecuteOk: the caller is one command ahead of the journal.
LEMMA ExecuteKeeps ==
  ASSUME TypeOK, Serial, ReplayInv, NEW s \in Submitters, ExecuteOk(s)
  PROVE  ReplayInv'
<1>1. PICK H : Replays(H) /\ Follows(H)
  BY DEF ReplayInv
<1>2. PICK r : r = Execute(world, CommandOf[call[s].key])
  OBVIOUS
<1>3. /\ pc[s] = "admitted" /\ pc' = [pc EXCEPT ![s] = "mutated"] /\ r.ok /\ world' = r.world
      /\ call' = [call EXCEPT ![s].result = r.entity] /\ status = "up"
      /\ UNCHANGED <<commands, next_sequence, status, cursor>>
  BY <1>2 DEF ExecuteOk, Goto, storeVars
<1>4. \A t \in Submitters : t # s => pc[t] = "idle" /\ pc'[t] = "idle"
  BY <1>3 DEF Serial, TypeOK
<1>5. /\ pc'[s] = "mutated" /\ call'[s].key = call[s].key
      /\ call'[s].sequence = call[s].sequence /\ call'[s].result = r.entity
  BY <1>3 DEF TypeOK, Calls
<1>6. Replays(H)'
  BY <1>1, <1>3, ReplaysKept
<1>7. Latest'
  BY <1>3, <1>4, <1>5 DEF ReplayInv, Latest
<1>8. world = H[next_sequence]
  BY <1>1, <1>3, <1>4 DEF Follows
<1>9. Mutated(H, s)'
  BY <1>2, <1>3, <1>5, <1>8 DEF Mutated
<1>10. Follows(H)'
  BY <1>3, <1>4, <1>5, <1>9 DEF Follows
<1>11. QED
  BY <1>6, <1>7, <1>10 DEF ReplayInv

\* Complete: the journal catches up with the world.
LEMMA CompleteKeeps ==
  ASSUME TypeOK, OwnInv, Serial, ReplayInv, NEW s \in Submitters, Complete(s)
  PROVE  ReplayInv'
<1>1. PICK H : Replays(H) /\ Follows(H)
  BY DEF ReplayInv
<1>2. PICK k, n : k = call[s].key /\ n = call[s].sequence
  OBVIOUS
<1>3. /\ pc[s] = "mutated" /\ pc' = [pc EXCEPT ![s] = "idle"] /\ status = "up"
      /\ commands' = complete(commands, n, call[s].result)
      /\ UNCHANGED <<next_sequence, world, status, cursor>>
  BY <1>2 DEF Complete, Return, Goto
<1>4. /\ k \in Keys /\ n \in Nat /\ call[s].result \in Nat /\ next_sequence \in Nat
      /\ n + 1 = next_sequence
      /\ commands[k].st = "InFlight" /\ commands[k].sequence = n
  BY <1>2, <1>3 DEF TypeOK, Calls, ReplayInv, Latest, OwnInv, Ownership
<1>5. /\ commands'[k] = [st |-> "Completed", sequence |-> n, result |-> call[s].result]
      /\ \A j \in Keys \ {k} : commands'[j] = commands[j]
  <2>1. commands' = [commands EXCEPT ![k] =
                       [st |-> "Completed", sequence |-> n, result |-> call[s].result]]
    <3>1. pc[s] # "idle" /\ call[s].result \in Nat
      BY <1>3, <1>4
    <3>2. complete(commands, call[s].sequence, call[s].result)
            = [commands EXCEPT ![call[s].key] =
                 [st |-> "Completed", sequence |-> call[s].sequence, result |-> call[s].result]]
      BY <3>1, SettleOwn
    <3>3. QED
      BY <1>2, <1>3, <3>2
  <2>2. QED
    BY <1>4, <2>1 DEF TypeOK
<1>6. \A t \in Submitters : pc'[t] = "idle"
  BY <1>3 DEF Serial, TypeOK
<1>7. JournaledAt(n) = {} /\ JournaledAt(n)' = {k}
  <2>1. \A j \in Keys : commands[j].st # "Absent" /\ commands[j].sequence = n => j = k
    BY <1>4 DEF OwnInv, SequencesUnique, Filed
  <2>2. QED
    BY <1>4, <1>5, <2>1 DEF JournaledAt
<1>8. ASSUME NEW q \in Nat, q # n
      PROVE  JournaledAt(q)' = JournaledAt(q) /\ \A j \in JournaledAt(q) : commands'[j] = commands[j]
  BY <1>4, <1>5, <1>8 DEF JournaledAt
<1>9. \A q \in Nat : q > n => JournaledAt(q) = {}
  <2>1. \A q \in Nat : q > n => next_sequence <= q
    BY <1>4
  <2>2. QED
    BY <2>1, NothingAhead DEF OwnInv
<1>10. PICK G : /\ DOMAIN G = Nat /\ \A q \in Nat : q <= n => G[q] = H[q]
                /\ \A q \in Nat : q > n => G[q] = world
  <2> DEFINE F == [q \in Nat |-> IF q <= n THEN H[q] ELSE world]
  <2>1. /\ DOMAIN F = Nat /\ \A q \in Nat : q <= n => F[q] = H[q]
        /\ \A q \in Nat : q > n => F[q] = world
    BY <1>4
  <2> HIDE DEF F
  <2>2. QED
    BY <2>1
<1>11. H[next_sequence] = H[n]
  BY <1>1, <1>4, <1>7 DEF Replays
<1>12. /\ Execute(H[n], CommandOf[k]).ok /\ world = Execute(H[n], CommandOf[k]).world
       /\ call[s].result = Execute(H[n], CommandOf[k]).entity
  BY <1>1, <1>2, <1>3, <1>11 DEF Follows, Mutated
<1>13. CommandOf[k].op \notin LeaseOps
  BY <1>2, <1>3 DEF Serial, OpOf
<1>14. ReplayVerdict(H[n], CommandOf[k], call[s].result) = "ok"
  BY <1>12, <1>13 DEF ReplayVerdict
<1>15. Replays(G)'
  <2>1. G[0] = <<>>
    BY <1>1, <1>4, <1>10 DEF Replays
  <2>2. ASSUME NEW q \in Nat, JournaledAt(q)' = {} PROVE G[q + 1] = G[q]
    <3>1. q # n
      BY <1>7, <2>2
    <3>2. JournaledAt(q) = {}
      BY <1>8, <2>2, <3>1
    <3>3. H[q + 1] = H[q]
      BY <1>1, <3>2 DEF Replays
    <3>4. (q <= n /\ q + 1 <= n) \/ (q > n /\ q + 1 > n)
      BY <1>4, <3>1
    <3>5. QED
      BY <1>10, <3>3, <3>4
  <2>3. ASSUME NEW q \in Nat, NEW j \in JournaledAt(q)'
        PROVE  /\ ReplayVerdict(G[q], CommandOf[j], commands'[j].result) = "ok"
               /\ G[q + 1] = Execute(G[q], CommandOf[j]).world
    <3>1. CASE q = n
      <4>1. j = k /\ G[q] = H[n] /\ G[q + 1] = world /\ commands'[j].result = call[s].result
        BY <1>4, <1>5, <1>7, <1>10, <2>3, <3>1
      <4>2. QED
        BY <1>12, <1>14, <4>1
    <3>2. CASE q # n
      <4>1. j \in JournaledAt(q) /\ commands'[j] = commands[j]
        BY <1>8, <2>3, <3>2
      <4>2. q <= n /\ q + 1 <= n
        BY <1>4, <1>9, <3>2, <4>1
      <4>3. G[q] = H[q] /\ G[q + 1] = H[q + 1]
        BY <1>10, <4>2
      <4>4. QED
        BY <1>1, <4>1, <4>3 DEF Replays
    <3>3. QED
      BY <3>1, <3>2
  <2>4. QED
    BY <1>10, <2>1, <2>2, <2>3 DEF Replays
<1>16. Follows(G)'
  <2>1. G[next_sequence] = world
    BY <1>4, <1>10
  <2>2. QED
    BY <1>3, <1>6, <2>1 DEF Follows
<1>17. Latest'
  BY <1>6 DEF Latest
<1>18. QED
  BY <1>15, <1>16, <1>17 DEF ReplayInv


\* Crash: what callers were at is gone, and the journal is not.
LEMMA CrashKeeps ==
  ASSUME ReplayInv, Crash
  PROVE  ReplayInv'
<1>1. PICK H : Replays(H) /\ Follows(H)
  BY DEF ReplayInv
<1>2. status' = "down" /\ UNCHANGED <<commands, next_sequence>> /\ \A s \in Submitters : pc'[s] = "idle"
  BY DEF Crash, storeVars
<1>3. Replays(H)'
  BY <1>1, <1>2, ReplaysKept
<1>4. Follows(H)' /\ Latest'
  BY <1>2 DEF Follows, Latest
<1>5. QED
  BY <1>3, <1>4 DEF ReplayInv

\* BeginRecovery: the replay starts from nothing.
LEMMA BeginKeeps ==
  ASSUME TypeOK, OwnInv, ReplayInv, BeginRecovery
  PROVE  ReplayInv'
<1>1. PICK H : Replays(H) /\ Follows(H)
  BY DEF ReplayInv
<1>2. /\ status = "down" /\ status' = "recovering" /\ cursor' = 0 /\ world' = <<>>
      /\ UNCHANGED <<commands, next_sequence, pc, call>>
  BY DEF BeginRecovery, storeVars
<1>3. \A s \in Submitters : pc'[s] = "idle"
  BY <1>2 DEF OwnInv, OnlyUpServes
<1>4. Replays(H)'
  BY <1>1, <1>2, ReplaysKept
<1>5. Follows(H)' /\ Latest'
  <2>1. H[0] = <<>> /\ next_sequence \in Nat /\ 0 <= next_sequence
    BY <1>1 DEF Replays, TypeOK
  <2>2. QED
    BY <1>2, <1>3, <2>1 DEF Follows, Latest
<1>6. QED
  BY <1>4, <1>5 DEF ReplayInv

\* The world that a recovering daemon has come to is the one that the next
\* recorded command was run on.
LEMMA ReplayReaches ==
  ASSUME TypeOK, OwnInv, NEW H, Replays(H), Follows(H), status = "recovering",
         NEW k \in Keys, IsFirst(commands, ToReplay, k)
  PROVE  /\ commands[k].sequence \in Nat /\ commands[k].sequence < next_sequence
         /\ k \in JournaledAt(commands[k].sequence)
         /\ world = H[commands[k].sequence]
<1>1. PICK n : n = commands[k].sequence
  OBVIOUS
<1>2. /\ n \in Nat /\ cursor \in Nat /\ next_sequence \in Nat
      /\ \A j \in Keys : commands[j].sequence \in Nat
  BY <1>1 DEF TypeOK, Entries
<1>3. /\ commands[k].st = "Completed" /\ cursor <= n
      /\ \A j \in Keys : commands[j].st = "Completed" /\ commands[j].sequence >= cursor
                           => n <= commands[j].sequence
  BY <1>1, <1>2 DEF IsFirst, ToReplay, completed_after
<1>4. \A q \in Nat : cursor <= q /\ q < n => JournaledAt(q) = {}
  BY <1>2, <1>3 DEF JournaledAt
<1>5. H[n] = H[cursor]
  BY <1>2, <1>3, <1>4, Level
<1>6. n < next_sequence
  BY <1>1, <1>3 DEF OwnInv, SequencesUnique, Filed
<1>7. QED
  BY <1>1, <1>2, <1>3, <1>5, <1>6 DEF Follows, JournaledAt

\* ReplayNext goes along H.
LEMMA ReplayNextKeeps ==
  ASSUME TypeOK, OwnInv, ReplayInv, NEW k \in Keys, ReplayNext(k)
  PROVE  ReplayInv'
<1>1. PICK H : Replays(H) /\ Follows(H)
  BY DEF ReplayInv
<1>2. PICK n : n = commands[k].sequence
  OBVIOUS
<1>3. /\ status = "recovering" /\ IsFirst(commands, ToReplay, k)
      /\ world' = Execute(world, CommandOf[k]).world /\ cursor' = n + 1
      /\ UNCHANGED <<commands, next_sequence, status, pc, call>>
  BY <1>2 DEF ReplayNext, storeVars
<1>4. n \in Nat /\ n < next_sequence /\ k \in JournaledAt(n) /\ world = H[n]
  BY <1>1, <1>2, <1>3, ReplayReaches
<1>5. world' = H[n + 1]
  BY <1>1, <1>3, <1>4 DEF Replays
<1>6. \A s \in Submitters : pc'[s] = "idle"
  BY <1>3 DEF OwnInv, OnlyUpServes
<1>7. Replays(H)'
  BY <1>1, <1>3, ReplaysKept
<1>8. Follows(H)' /\ Latest'
  <2>1. n + 1 <= next_sequence
    BY <1>4 DEF TypeOK
  <2>2. QED
    BY <1>3, <1>5, <1>6, <2>1 DEF Follows, Latest
<1>9. QED
  BY <1>7, <1>8 DEF ReplayInv

\* ReplayFails cannot happen.
LEMMA ReplayGoesThrough ==
  ASSUME TypeOK, OwnInv, ReplayInv, NEW k \in Keys, ReplayFails(k)
  PROVE  FALSE
<1>1. PICK H : Replays(H) /\ Follows(H)
  BY DEF ReplayInv
<1>2. PICK n : n = commands[k].sequence
  OBVIOUS
<1>3. /\ status = "recovering" /\ IsFirst(commands, ToReplay, k)
      /\ ReplayVerdict(world, CommandOf[k], commands[k].result) # "ok"
  BY DEF ReplayFails
<1>4. n \in Nat /\ k \in JournaledAt(n) /\ world = H[n]
  BY <1>1, <1>2, <1>3, ReplayReaches
<1>5. QED
  BY <1>1, <1>3, <1>4 DEF Replays

\* Reconcile frees an entry that is not recorded.
LEMMA ReconcileKeeps ==
  ASSUME TypeOK, OwnInv, ReplayInv, NEW k \in Keys, Reconcile(k)
  PROVE  ReplayInv'
<1>1. PICK H : Replays(H) /\ Follows(H)
  BY DEF ReplayInv
<1>2. /\ status = "recovering"
      /\ commands' = transition_state(commands, commands[k].sequence, "recovery_required")
      /\ UNCHANGED <<next_sequence, world, status, cursor, pc, call>>
  BY DEF Reconcile
<1>3. ASSUME NEW j \in Keys
      PROVE  \/ commands'[j] = commands[j]
             \/ commands[j].st = "InFlight" /\ commands'[j].st = "RecoveryRequired"
  <2>1. CASE j \in InFlightWith(commands, commands[k].sequence)
    <3>1. commands[j].st = "InFlight" /\ commands'[j] = [commands[j] EXCEPT !.st = "RecoveryRequired"]
      BY <1>2, <2>1 DEF transition_state, InFlightWith
    <3>2. commands[j] \in Entries
      BY DEF TypeOK
    <3>3. QED
      BY <3>1, <3>2 DEF Entries
  <2>2. CASE j \notin InFlightWith(commands, commands[k].sequence)
    BY <1>2, <2>2 DEF transition_state
  <2>3. QED
    BY <2>1, <2>2
<1>4. \A j \in Keys : /\ commands'[j].st = "Completed" <=> commands[j].st = "Completed"
                      /\ commands[j].st = "Completed" => commands'[j] = commands[j]
  BY <1>3
<1>5. Replays(H)'
  BY <1>1, <1>4, ReplaysKept
<1>6. \A s \in Submitters : pc'[s] = "idle"
  BY <1>2 DEF OwnInv, OnlyUpServes
<1>7. Follows(H)' /\ Latest'
  BY <1>1, <1>2, <1>6 DEF Follows, Latest
<1>8. QED
  BY <1>5, <1>7 DEF ReplayInv

\* FinishRecovery: nothing is recorded beyond the cursor.
LEMMA FinishKeeps ==
  ASSUME TypeOK, OwnInv, ReplayInv, FinishRecovery
  PROVE  ReplayInv'
<1>1. PICK H : Replays(H) /\ Follows(H)
  BY DEF ReplayInv
<1>2. /\ status = "recovering" /\ ToReplay = {} /\ status' = "up"
      /\ UNCHANGED <<commands, next_sequence, world, cursor, pc, call>>
  BY DEF FinishRecovery, storeVars
<1>3. cursor \in Nat /\ next_sequence \in Nat /\ cursor <= next_sequence /\ world = H[cursor]
  BY <1>1, <1>2 DEF TypeOK, Follows
<1>4. \A q \in Nat : cursor <= q => JournaledAt(q) = {}
  BY <1>2, <1>3 DEF ToReplay, completed_after, JournaledAt
<1>5. H[next_sequence] = H[cursor]
  BY <1>1, <1>3, <1>4, Level
<1>6. \A s \in Submitters : pc'[s] = "idle"
  BY <1>2 DEF OwnInv, OnlyUpServes
<1>7. Replays(H)'
  BY <1>1, <1>2, ReplaysKept
<1>8. Follows(H)' /\ Latest'
  BY <1>2, <1>3, <1>5, <1>6 DEF Follows, Latest
<1>9. QED
  BY <1>7, <1>8 DEF ReplayInv

\* The steps of a caller.
LEMMA SubmitKeeps ==
  ASSUME TypeOK, OwnInv, Serial, Serial', ReplayInv, NEW s \in Submitters, Submit(s)
  PROVE  ReplayInv'
<1>1. ASSUME NEW k \in Keys, AdmitCompleted(s, k) PROVE ReplayInv'
  BY <1>1, QuietKeeps DEF AdmitCompleted, storeVars
<1>2. ASSUME Return(s, "admitted"), UNCHANGED <<commands, next_sequence, world, status, cursor>>
      PROVE  ReplayInv'
  <2>1. pc[s] = "admitted" /\ \A t \in Submitters : pc'[t] # "idle" => t # s
    BY <1>2 DEF Return, Goto, TypeOK
  <2>2. \A t \in Submitters : t # s => pc'[t] = pc[t] /\ call'[t] = call[t]
    BY <1>2 DEF Return, Goto, TypeOK
  <2>3. QED
    BY <1>2, <2>1, <2>2, QuietKeeps
<1>3. CASE RejectEpoch(s)
  BY <1>2, <1>3 DEF RejectEpoch, storeVars
<1>4. CASE ExecuteErr(s)
  <2>1. commands' = commands
    BY <1>4, FailedIsRefused DEF ExecuteErr, TypeOK
  <2>2. QED
    BY <1>2, <1>4, <2>1 DEF ExecuteErr
<1>5. pc[s] # "idle" => pc[s] \in {"admitted", "mutated"} /\ OpOf(s) \notin LeaseOps
  BY DEF ReplayInv, Latest, Serial
<1>6. CASE \/ AcquireLease(s) \/ DenyLease(s) \/ ReleaseLease(s)
           \/ SetLeaseState(s) \/ SetLeaseStateErr(s)
  <2>1. FALSE
    BY <1>5, <1>6 DEF AcquireLease, DenyLease, ReleaseLease, SetLeaseState, SetLeaseStateErr,
                      Return, Goto, LeaseOps
  <2>2. QED
    BY <2>1
<1>7. CASE LeaseFault(s) \/ CompleteFault(s)
  <2>1. faults = 0 /\ faults' = 0 /\ faults' = faults + 1
    BY <1>7 DEF LeaseFault, CompleteFault, FaultBudget, Serial
  <2>2. QED
    BY <2>1
<1>8. QED
  BY <1>1, <1>3, <1>4, <1>6, <1>7, AdmitKeeps, ExecuteKeeps, CompleteKeeps DEF Submit, Continue

\* Every step between serial states keeps the invariant.
LEMMA ReplayStep ==
  ASSUME TypeOK, OwnInv, Serial, Serial', ReplayInv, [Next]_vars
  PROVE  ReplayInv'
<1>1. CASE UNCHANGED vars
  BY <1>1, QuietKeeps DEF vars
<1>2. ASSUME NEW e \in leases, LeaseExpires(e) PROVE ReplayInv'
  BY <1>2, QuietKeeps DEF LeaseExpires, storeVars
<1>3. QED
  BY <1>1, <1>2, SubmitKeeps, CrashKeeps, BeginKeeps, ReplayNextKeeps, ReplayGoesThrough,
     ReconcileKeeps, FinishKeeps DEF Next, Recover

\* The empty journal builds the empty world.
LEMMA ReplayInit == Init => ReplayInv
<1> SUFFICES ASSUME Init PROVE ReplayInv
  OBVIOUS
<1>1. PICK H : H = [q \in Nat |-> <<>>]
  OBVIOUS
<1>2. \A q : JournaledAt(q) = {}
  BY DEF Init, AbsentEntry, JournaledAt
<1>3. Replays(H)
  BY <1>1, <1>2 DEF Replays
<1>4. Follows(H) /\ Latest
  BY <1>1 DEF Init, Follows, Latest
<1>5. QED
  BY <1>3, <1>4 DEF ReplayInv

\* The invariant holds as long as the calls are serial.
LEMMA ReplayInvHolds == Spec /\ []Serial => [](TypeOK /\ OwnInv /\ ReplayInv)
<1>1. TypeOK /\ OwnInv /\ [Next]_vars => OwnInv'
  BY OwnStep
<1>2. TypeOK /\ OwnInv /\ Serial /\ Serial' /\ ReplayInv /\ [Next]_vars => ReplayInv'
  BY ReplayStep
<1>3. QED
  BY <1>1, <1>2, OwnInit, ReplayInit, TypeCorrect, PTL DEF Spec

\* After any number of crashes, at any moment, recovery gets to its end: every
\* recorded command succeeds again and names the entity that its caller was
\* told, if calls do not overlap, no port fails and no lease is asked for.
THEOREM RecoveryNeverHaltsSerially == Spec /\ []Serial => []RecoveryNeverHalts
<1>1. ReplayInv => RecoveryNeverHalts
  BY DEF ReplayInv, Follows, RecoveryNeverHalts
<1>2. QED
  BY <1>1, ReplayInvHolds, PTL

\* Rebuilt walks along H.
LEMMA RebuiltIs ==
  ASSUME TypeOK, NEW H, Replays(H)
  PROVE  Rebuilt = H[next_sequence]
<1>1. PICK m : m = next_sequence
  OBVIOUS
<1>2. m \in Nat
  BY <1>1 DEF TypeOK
<1> DEFINE Replay(x, q) == IF JournaledAt(q) = {} THEN x ELSE
                           Execute(x, CommandOf[CHOOSE k \in JournaledAt(q) : TRUE]).world
           Is(f) == f = [q \in 0 .. m |-> IF q = 0 THEN <<>> ELSE Replay(f[q - 1], q - 1)]
<1>3. Rebuilt = (CHOOSE f : Is(f))[m]
  BY <1>1 DEF Rebuilt
<1>4. \A q \in Nat : H[q + 1] = Replay(H[q], q)
  <2>1. ASSUME NEW q \in Nat PROVE H[q + 1] = Replay(H[q], q)
    <3>1. CASE JournaledAt(q) = {}
      BY <3>1 DEF Replays
    <3>2. CASE JournaledAt(q) # {}
      <4>1. PICK k : k = CHOOSE j \in JournaledAt(q) : TRUE
        OBVIOUS
      <4>2. k \in JournaledAt(q)
        BY <3>2, <4>1
      <4>3. H[q + 1] = Execute(H[q], CommandOf[k]).world
        BY <4>2 DEF Replays
      <4>4. QED
        BY <3>2, <4>1, <4>3
    <3>3. QED
      BY <3>1, <3>2
  <2>2. QED
    BY <2>1
<1> HIDE DEF Replay
<1>5. Is([q \in 0 .. m |-> H[q]])
  <2> DEFINE h == [q \in 0 .. m |-> H[q]]
  <2>1. ASSUME NEW q \in 0 .. m PROVE h[q] = IF q = 0 THEN <<>> ELSE Replay(h[q - 1], q - 1)
    <3>1. CASE q = 0
      BY <3>1 DEF Replays
    <3>2. CASE q # 0
      <4>1. q - 1 \in Nat /\ q - 1 \in 0 .. m /\ (q - 1) + 1 = q
        BY <1>2, <3>2
      <4>2. H[q] = Replay(H[q - 1], q - 1)
        BY <1>4, <4>1
      <4>3. QED
        BY <3>2, <4>1, <4>2
    <3>3. QED
      BY <3>1, <3>2
  <2>2. h = [q \in 0 .. m |-> h[q]]
    OBVIOUS
  <2> HIDE DEF h
  <2>3. Is(h)
    BY <2>1, <2>2
  <2>4. QED
    BY <2>3 DEF h
<1>6. PICK f : f = CHOOSE g : Is(g)
  OBVIOUS
<1>7. Is(f)
  <2> HIDE DEF Is
  <2>1. QED
    BY <1>5, <1>6
<1>8. f[0] = <<>> /\ \A q \in 1 .. m : f[q] = Replay(f[q - 1], q - 1)
  BY <1>2, <1>7
<1> HIDE DEF Is
<1> DEFINE N == {q \in Nat : q <= m => f[q] = H[q]}
<1>9. 0 \in N
  BY <1>8 DEF Replays
<1>10. ASSUME NEW q \in Nat, q \in N PROVE q + 1 \in N
  <2>1. ASSUME q + 1 <= m PROVE f[q + 1] = H[q + 1]
    <3>1. q + 1 \in 1 .. m /\ (q + 1) - 1 = q /\ f[q] = H[q]
      BY <1>2, <1>10, <2>1
    <3>2. f[q + 1] = Replay(f[q], q)
      BY <1>8, <3>1
    <3>3. QED
      BY <1>4, <3>1, <3>2
  <2>2. QED
    BY <2>1
<1>11. Nat \subseteq N
  <2> HIDE DEF N
  <2>1. QED
    BY <1>9, <1>10, NatSetInduction
<1>12. f[m] = H[m]
  BY <1>2, <1>11
<1>13. QED
  BY <1>1, <1>3, <1>6, <1>12

\* The world served is the one that the journal builds, whenever no call is
\* half way: after any history of serial calls, refusals, crashes and
\* recoveries, a crash would lose nothing and change nothing.
THEOREM JournalReproducesWorldSerially == Spec /\ []Serial => []JournalReproducesWorld
<1>1. ASSUME TypeOK, ReplayInv PROVE JournalReproducesWorld
  <2>1. PICK H : Replays(H) /\ Follows(H)
    BY <1>1 DEF ReplayInv
  <2>2. Rebuilt = H[next_sequence]
    BY <1>1, <2>1, RebuiltIs
  <2>3. QED
    BY <2>1, <2>2 DEF JournalReproducesWorld, Follows
<1>2. QED
  BY <1>1, ReplayInvHolds, PTL
=============================================================================
