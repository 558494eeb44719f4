SPECIFICATION Spec
CONSTANTS
  s1 = s1
  s2 = s2
  create = create
  model = model
  finish = finish
  stale = stale
  acquire = acquire
  drop = drop
  advance = advance
  job = job
  Keys = {create, finish, acquire, drop}
  Submitters = {s1, s2}
  CommandOf <- MCCommandOf
  ExpectedEpoch <- MCExpectedEpoch
  MaxCrashes = 1
  MaxFaults = 1
SYMMETRY Callers
INVARIANTS
  TypeOK
  SoleOwner
  KernelInv
  ExactlyOnce
  AnsweredIsJournaledUnlessFault
PROPERTIES
  CompletedIsFinal
  ImplementsCommandLog
CHECK_DEADLOCK FALSE
