SPECIFICATION Spec
CONSTANTS
  t1 = t1
  t2 = t2
  lease = lease
  token = token
  None = None
  Txns = {t1, t2}
  Durable = {lease}
  Transient = {token}
  MaxId = 8
  MaxStaged = 2
  MaxDirect = 1
SYMMETRY Alike
INVARIANTS
  TypeOK
  AllocatorAligned
  JournalReplays
PROPERTIES
  CommitsSerialize
  ReadsAreCurrent
  SpawnsAreDistinct
CHECK_DEADLOCK FALSE
