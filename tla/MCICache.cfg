SPECIFICATION FairSpec
CONSTANTS
  p1 = p1
  p2 = p2
  i1 = i1
  i2 = i2
  i3 = i3
  Producers = {p1, p2}
  Items = {i1, i2, i3}
  Content <- MCContent
  ID <- MCID
  Keys = {1}
  QueueMax = 2
  MemThreshold = 0
  None = None
INVARIANTS
  TypeOK
  WorkerAlive
  NoLostWakeup
  NopNotLost
  SyncBeforeModify
  CacheCanonical
PROPERTIES
  ObjectStable
  ProducersFinish
  CleanupCompletes
  ImplementsCollector
