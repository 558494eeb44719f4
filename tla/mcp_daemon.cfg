SPECIFICATION FairSpec
CONSTANTS
  c1 = c1
  c2 = c2
  call = call
  other = other
  ping = ping
  note = note
  probe = probe
  tool = tool
  Conns = {c1, c2}
  Requests = {call, other, ping, note, probe}
  Tools = {tool}
  Script <- MCScript
  KindOf <- MCKindOf
  ToolOf <- MCToolOf
  MaxConcurrency <- MCMaxConcurrency
  QueueCapacity = 1
  ChannelCapacity = 1
  MaxPanics = 1
INVARIANTS
  TypeOK
  RunningWithinLimit
  PermitsAccounted
  AnsweredOnceTruthfully
PROPERTIES
  EveryRequestAnswered
CHECK_DEADLOCK FALSE
