---------------------------- MODULE CommandStore ---------------------------
(***************************************************************************)
(* The command store port (ports/mod.rs, trait CommandStore) as its        *)
(* implementation InMemoryCommandStore (test_adapters.rs) behaves: a map   *)
(* from idempotency key to the state of the one command filed under it.    *)
(* Every call runs under the store's mutex, so each is one atomic step.    *)
(*                                                                         *)
(* The operators below are pure: they take the map and return the map the  *)
(* call leaves behind.  An absent key is an entry with st = "Absent".      *)
(***************************************************************************)
EXTENDS Naturals

CONSTANT Keys

EntryStates == {"Absent", "InFlight", "RecoveryRequired", "Completed"}

\* `result` is the entity named by the stored CommandResult (0: none).
Entries == [st : EntryStates, sequence : Nat, result : Nat]

AbsentEntry == [st |-> "Absent", sequence |-> 0, result |-> 0]

InFlightEntry(seq) == [st |-> "InFlight", sequence |-> seq, result |-> 0]

\* Mutants: the InFlight arm of admit is missing; the Completed arm is.
AdmissibleInFlight(m, k) == m[k].st # "Completed"

AdmissibleCompleted(m, k) == m[k].st # "InFlight"

\* admit: a key never seen or freed by recovery is filed under a fresh sequence.
Admissible(m, k) == m[k].st \in {"Absent", "RecoveryRequired"}

\* Mutant: a key freed by recovery comes back under its old sequence.
admitOldSequence(m, k, seq) ==
  [m EXCEPT ![k] = InFlightEntry(IF @.st = "RecoveryRequired" THEN @.sequence ELSE seq)]

admit(m, k, seq) == [m EXCEPT ![k] = InFlightEntry(seq)]

\* The scan of complete and transition_state for the in-flight entry of seq.
InFlightWith(m, seq) == {k \in Keys : m[k].st = "InFlight" /\ m[k].sequence = seq}

\* complete: a sequence that is not in flight is an error and changes nothing.
complete(m, seq, result) ==
  [k \in Keys |->
     IF k \in InFlightWith(m, seq)
       THEN [st |-> "Completed", sequence |-> seq, result |-> result]
       ELSE m[k]]

\* Mutant: the store only knows the target "failed".
transition_stateFailed(m, seq, target) ==
  [k \in Keys |->
     IF target = "failed" /\ k \in InFlightWith(m, seq)
       THEN [m[k] EXCEPT !.st = "RecoveryRequired"]
       ELSE m[k]]

\* transition_state: the only target it knows is "recovery_required"; any
\* other is an error and changes nothing.
transition_state(m, seq, target) ==
  [k \in Keys |->
     IF target = "recovery_required" /\ k \in InFlightWith(m, seq)
       THEN [m[k] EXCEPT !.st = "RecoveryRequired"]
       ELSE m[k]]

\* Mutant: strictly after.
completed_afterStrict(m, seq) == {k \in Keys : m[k].st = "Completed" /\ m[k].sequence > seq}

\* completed_after and unresolved, as sets of keys; the callers walk them in
\* sequence order.
completed_after(m, seq) == {k \in Keys : m[k].st = "Completed" /\ m[k].sequence >= seq}

unresolved(m) == {k \in Keys : m[k].st = "InFlight"}

\* Mutant: the sort_by_key is missing and the map's order is any order.
IsAny(m, S, k) == k \in S

\* The first of a set of keys in sequence order.
IsFirst(m, S, k) == k \in S /\ \A j \in S : m[k].sequence <= m[j].sequence
============================================================================
