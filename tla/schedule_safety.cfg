SPECIFICATION Spec
CONSTANTS
  Claims <- MixedClaims
  MaxWorks = 2
  AdmissionCapacity = 1
  MaxInflightTokens = 8
  MaxKvTokens = 8
  PrefillLimit = 1
  MaxScan = 64
  MaxBatch = 1
  MaxFaults = 1
  Lingers = {1}
INVARIANTS
  TypeOK
  TickCommandsAccepted
PROPERTIES
  AdmissionWithinCapacity
  PublishedBeforeDiscarded
