SPECIFICATION Spec
CONSTANTS
  s1 = s1
  s2 = s2
  create = create
  model = model
  finish = finish
  stale = stale
  acquire = acquire
  drop = drop
  advance = advance
  job = job
  Keys = {create, model}
  Submitters = {s1, s2}
  CommandOf <- MCCommandOf
  ExpectedEpoch <- MCExpectedEpoch
  MaxCrashes = 1
  MaxFaults = 0
INVARIANTS
  RecoveryNeverHalts
CHECK_DEADLOCK FALSE
