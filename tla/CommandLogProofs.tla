-------------------------- MODULE CommandLogProofs --------------------------
(***************************************************************************)
(* Proof that CommandKernel implements CommandLog.  A crash, a recovery, a *)
(* lease or an admission is a stuttering step of the log; complete is its  *)
(* Record step, a repeated submission its Repeat step, and a failing port  *)
(* its Fail step.                                                          *)
(***************************************************************************)
EXTENDS CommandKernelProofs

\* A step that completes no command leaves the recorded outcomes alone.
LEMMA RecordedFrame ==
  ASSUME TypeOK, [Next]_vars,
         \A k \in Keys : commands'[k].st = "Completed" => commands[k].st = "Completed"
  PROVE  Recorded' = Recorded
<1>1. \A k \in Keys : commands[k].st = "Completed" => commands'[k] = commands[k]
  BY FinalStep
<1> QED BY <1>1 DEF Recorded

\* Neither does a step that leaves the store alone.
LEMMA RecordedSame ==
  ASSUME commands' = commands
  PROVE  Recorded' = Recorded
  BY DEF Recorded

\* The sequence of a caller at work is in no recorded outcome.
LEMMA OwnFresh ==
  ASSUME TypeOK, OwnInv, NEW s \in Submitters, pc[s] # "idle"
  PROVE  /\ call[s].key \in Keys
         /\ Recorded[call[s].key] = {}
         /\ Log!Fresh(Outcome(call[s]))
<1>1. /\ call[s].key \in Keys
      /\ commands[call[s].key].st = "InFlight"
      /\ commands[call[s].key].sequence = call[s].sequence
  BY DEF TypeOK, Calls, OwnInv, Ownership
<1>2. \A k \in Keys : commands[k].st = "Completed" => commands[k].sequence # call[s].sequence
  BY <1>1 DEF OwnInv, SequencesUnique, Filed
<1>3. ASSUME NEW k \in Keys, NEW p \in Recorded[k]
      PROVE  p.sequence # Outcome(call[s]).sequence
  <2>1. commands[k].st = "Completed" /\ p = Outcome(commands[k])
    BY <1>3 DEF Recorded
  <2> QED BY <1>2, <2>1 DEF Outcome
<1>4. Recorded[call[s].key] = {}
  BY <1>1 DEF Recorded
<1> QED BY <1>1, <1>3, <1>4 DEF Log!Fresh

\* complete records and answers in one step.
LEMMA CompleteRecords ==
  ASSUME TypeOK, OwnInv, NEW s \in Submitters, Complete(s)
  PROVE  Log!Record(call[s].key)
<1> DEFINE k == call[s].key
           o == Outcome(call[s])
<1>1. pc[s] = "mutated" /\ k \in Keys /\ call[s].result \in Nat
  BY DEF Complete, Return, Goto, TypeOK, Calls
<1>2. Recorded[k] = {} /\ Log!Fresh(o)
  BY <1>1, OwnFresh
<1>3. commands' = [commands EXCEPT ![k] =
                     [st |-> "Completed", sequence |-> call[s].sequence,
                      result |-> call[s].result]]
  BY <1>1, SettleOwn DEF Complete
<1>4. commands \in [Keys -> Entries]
  BY DEF TypeOK
<1>5. Recorded' = [Recorded EXCEPT ![k] = {o}]
  BY <1>1, <1>3, <1>4 DEF Recorded, Outcome
<1>6. answers' = [answers EXCEPT ![k] = @ \cup {o}] /\ faults' = faults
  BY DEF Complete, Answer, budgetVars
<1>7. o \in answers'[k]
  BY <1>1, <1>6 DEF TypeOK
<1> QED BY <1>2, <1>5, <1>6, <1>7 DEF Log!Record

\* A step of a caller whose port call failed.
LEMMA FaultFails ==
  ASSUME TypeOK, OwnInv, [Next]_vars, NEW s \in Submitters, LeaseFault(s) \/ CompleteFault(s)
  PROVE  Log!Fail
<1>1. CASE LeaseFault(s)
  <2>1. commands' = commands /\ answers' = answers /\ faults' = faults + 1
    BY <1>1 DEF LeaseFault, FaultBudget, storeVars, historyVars
  <2> QED BY <2>1, RecordedSame DEF Log!Fail
<1>2. CASE CompleteFault(s)
  <2>1. pc[s] # "idle" /\ faults' = faults + 1
    BY <1>2 DEF CompleteFault, Return, Goto, FaultBudget
  <2>2. /\ call[s].key \in Keys
        /\ Recorded[call[s].key] = {}
        /\ Log!Fresh(Outcome(call[s]))
    BY <2>1, OwnFresh
  <2>3. \A k \in Keys : commands'[k].st = "Completed" => commands[k].st = "Completed"
    <3>1. CASE commands' = commands
      BY <3>1
    <3>2. CASE commands' = transition_state(commands, call[s].sequence, "recovery_required")
      BY <3>2 DEF transition_state, TypeOK, Entries
    <3> QED BY <1>2, <3>1, <3>2 DEF CompleteFault
  <2>4. Recorded' = Recorded
    BY <2>3, RecordedFrame
  <2>5. \/ answers' = answers
        \/ answers' = [answers EXCEPT ![call[s].key] = @ \cup {Outcome(call[s])}]
    BY <1>2 DEF CompleteFault, Answer
  <2>6. CASE answers' = answers
    BY <2>1, <2>4, <2>6 DEF Log!Fail
  <2>7. CASE answers' = [answers EXCEPT ![call[s].key] = @ \cup {Outcome(call[s])}]
    <3>1. Outcome(call[s]) \in answers'[call[s].key]
      BY <2>2, <2>7 DEF TypeOK
    <3> QED BY <2>1, <2>2, <2>4, <2>7, <3>1 DEF Log!Fail
  <2> QED BY <2>5, <2>6, <2>7
<1> QED BY <1>1, <1>2

\* Every step of the kernel is a step of the log or changes nothing of it.
LEMMA LogStep ==
  ASSUME TypeOK, OwnInv, [Next]_vars
  PROVE  [Log!Next]_(Log!vars)
<1>1. ASSUME NEW s \in Submitters, NEW k \in Keys, Admit(s, k) PROVE UNCHANGED Log!vars
  <2>1. /\ Admissible(commands, k)
        /\ commands' = [commands EXCEPT ![k] = InFlightEntry(next_sequence)]
        /\ answers' = answers /\ faults' = faults
    BY <1>1 DEF Admit, admit, historyVars, budgetVars
  <2>2. \A j \in Keys : commands'[j].st = "Completed" => commands[j].st = "Completed"
    BY <2>1 DEF TypeOK, InFlightEntry
  <2> QED BY <2>1, <2>2, RecordedFrame DEF Log!vars
<1>2. ASSUME NEW s \in Submitters, NEW k \in Keys, AdmitCompleted(s, k) PROVE Log!Repeat(k)
  <2>1. /\ commands' = commands /\ commands[k].st = "Completed"
        /\ answers' = [answers EXCEPT ![k] = @ \cup {Outcome(commands[k])}]
        /\ faults' = faults
    BY <1>2 DEF AdmitCompleted, Answer, storeVars, budgetVars
  <2>2. Recorded[k] = {Outcome(commands[k])}
    BY <2>1 DEF Recorded
  <2> QED BY <2>1, <2>2, RecordedSame DEF Log!Repeat
<1>3. ASSUME NEW s \in Submitters, ExecuteErr(s) PROVE UNCHANGED Log!vars
  <2>1. commands' = commands /\ answers' = answers /\ faults' = faults
    BY <1>3, FailedIsRefused DEF ExecuteErr, TypeOK, historyVars, budgetVars
  <2> QED BY <2>1, RecordedSame DEF Log!vars
<1>4. ASSUME NEW s \in Submitters,
             \/ RejectEpoch(s) \/ ExecuteOk(s) \/ AcquireLease(s) \/ DenyLease(s)
             \/ ReleaseLease(s) \/ SetLeaseState(s) \/ SetLeaseStateErr(s)
      PROVE  UNCHANGED Log!vars
  <2>1. commands' = commands /\ answers' = answers /\ faults' = faults
    BY <1>4 DEF RejectEpoch, ExecuteOk, AcquireLease, DenyLease, ReleaseLease, SetLeaseState,
                SetLeaseStateErr, storeVars, historyVars, budgetVars
  <2> QED BY <2>1, RecordedSame DEF Log!vars
<1>5. ASSUME NEW s \in Submitters, Complete(s) PROVE \E k \in Keys : Log!Record(k)
  BY <1>5, CompleteRecords DEF TypeOK, Calls
<1>6. ASSUME NEW s \in Submitters, LeaseFault(s) \/ CompleteFault(s) PROVE Log!Fail
  BY <1>6, FaultFails
<1>7. ASSUME \/ \E e \in leases : LeaseExpires(e)
             \/ Crash \/ BeginRecovery \/ FinishRecovery
             \/ \E k \in Keys : ReplayNext(k) \/ ReplayFails(k)
             \/ UNCHANGED vars
      PROVE  UNCHANGED Log!vars
  <2>1. commands' = commands /\ answers' = answers /\ faults' = faults
    BY <1>7 DEF LeaseExpires, Crash, BeginRecovery, FinishRecovery, ReplayNext, ReplayFails,
                storeVars, historyVars, budgetVars, vars
  <2> QED BY <2>1, RecordedSame DEF Log!vars
<1>8. ASSUME NEW k \in Keys, Reconcile(k) PROVE UNCHANGED Log!vars
  <2>1. /\ commands' = transition_state(commands, commands[k].sequence, "recovery_required")
        /\ answers' = answers /\ faults' = faults
    BY <1>8 DEF Reconcile, historyVars, budgetVars
  <2>2. \A j \in Keys : commands'[j].st = "Completed" => commands[j].st = "Completed"
    BY <2>1 DEF transition_state, TypeOK, Entries
  <2> QED BY <2>1, <2>2, RecordedFrame DEF Log!vars
<1> QED BY <1>1, <1>2, <1>3, <1>4, <1>5, <1>6, <1>7, <1>8
        DEF Next, Submit, Continue, Recover, Log!Next

\* Any number of racing callers over any commands, with crashes, recoveries,
\* leases and failing ports, is to its clients a log in which each command has
\* one outcome, recorded for good when it is first answered.
THEOREM ImplementsCommandLogHolds == Spec => ImplementsCommandLog
<1>1. Init => Log!Init
  BY DEF Init, Log!Init, Recorded, AbsentEntry
<1>2. TypeOK /\ OwnInv /\ [Next]_vars => OwnInv'
  BY OwnStep
<1>3. TypeOK /\ OwnInv /\ [Next]_vars => [Log!Next]_(Log!vars)
  BY LogStep
<1> QED BY <1>1, <1>2, <1>3, OwnInit, TypeCorrect, PTL DEF Spec, ImplementsCommandLog, Log!Spec
=============================================================================
