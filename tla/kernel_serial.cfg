SPECIFICATION Spec
CONSTANTS
  s1 = s1
  s2 = s2
  create = create
  model = model
  finish = finish
  stale = stale
  acquire = acquire
  drop = drop
  advance = advance
  job = job
  Keys = {create, model, job, advance, finish}
  Submitters = {s1}
  CommandOf <- MCCommandOf
  ExpectedEpoch <- MCExpectedEpoch
  MaxCrashes = 2
  MaxFaults = 0
INVARIANTS
  JournalReproducesWorld
  RecoveryNeverHalts
