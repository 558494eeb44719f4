SPECIFICATION FairSpec
CONSTANTS
  Claims <- ShortClaims
  MaxWorks = 2
  AdmissionCapacity = 2
  MaxInflightTokens = 8
  MaxKvTokens = 8
  PrefillLimit = 1
  MaxScan = 64
  MaxBatch = 32
  MaxFaults = 1
  Lingers = {}
PROPERTIES
  EveryWorkEnds
