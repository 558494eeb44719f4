SPECIFICATION Spec
CONSTANTS
  Claims <- MixedClaims
  MaxWorks = 1
  AdmissionCapacity = 1
  MaxInflightTokens = 8
  MaxKvTokens = 8
  PrefillLimit = 1
  MaxScan = 64
  MaxBatch = 32
  MaxFaults = 0
  Lingers = {}
PROPERTIES
  FinishedIsFinal
