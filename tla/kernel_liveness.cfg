SPECIFICATION FairSpec
CONSTANTS
  s1 = s1
  s2 = s2
  create = create
  model = model
  finish = finish
  stale = stale
  acquire = acquire
  drop = drop
  advance = advance
  job = job
  Keys = {create, stale, acquire}
  Submitters = {s1, s2}
  CommandOf <- MCCommandOf
  ExpectedEpoch <- MCExpectedEpoch
  MaxCrashes = 2
  MaxFaults = 1
PROPERTIES
  SubmitReturns
  InFlightFreedByRecovery
CHECK_DEADLOCK FALSE
