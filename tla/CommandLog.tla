---------------------------- MODULE CommandLog ----------------------------
(***************************************************************************)
(* What the kernel promises its clients, without callers, sequences drawn  *)
(* ahead of time, leases, crashes or recovery: under every idempotency key *)
(* at most one outcome is ever recorded, for good, and whoever is answered *)
(* is answered with the recorded outcome.  The one way out is a failing    *)
(* port: a client may then be told an outcome that is not recorded.        *)
(***************************************************************************)
EXTENDS Naturals

CONSTANT Keys

VARIABLES
  journal,  \* per key: {}, or {o} once outcome o is recorded
  told,     \* per key: the outcomes clients were told
  failures  \* port calls that failed

vars == <<journal, told, failures>>

Init ==
  /\ journal = [k \in Keys |-> {}]
  /\ told = [k \in Keys |-> {}]
  /\ failures = 0

\* No other recorded outcome has this one's sequence.
Fresh(o) == \A k \in Keys : \A p \in journal[k] : p.sequence # o.sequence

\* An outcome is recorded and answered in one step.
Record(k) ==
  /\ journal[k] = {}
  /\ \E o \in told'[k] :
       /\ Fresh(o)
       /\ journal' = [journal EXCEPT ![k] = {o}]
       /\ told' = [told EXCEPT ![k] = @ \cup {o}]
  /\ UNCHANGED failures

\* A retry is told what is recorded.
Repeat(k) ==
  /\ journal[k] # {}
  /\ told' = [told EXCEPT ![k] = @ \cup journal[k]]
  /\ UNCHANGED <<journal, failures>>

\* A port call fails; somebody may have been told what nobody recorded.
Fail ==
  /\ failures' = failures + 1
  /\ \/ told' = told
     \/ \E k \in Keys : \E o \in told'[k] :
          /\ journal[k] = {}
          /\ Fresh(o)
          /\ told' = [told EXCEPT ![k] = @ \cup {o}]
  /\ UNCHANGED journal

Next ==
  \/ \E k \in Keys : Record(k) \/ Repeat(k)
  \/ Fail

Spec == Init /\ [][Next]_vars
=============================================================================
