SPECIFICATION Spec
CONSTANTS
  Claims <- TokenClaims
  MaxWorks = 2
  AdmissionCapacity = 2
  MaxInflightTokens = 4
  MaxKvTokens = 8
  PrefillLimit = 1
  MaxScan = 64
  MaxBatch = 32
  MaxFaults = 1
  Lingers = {}
INVARIANTS
  ProgressConserved
PROPERTIES
  AdmissionWithinTokens
