SPECIFICATION Spec
CONSTANTS
  a = a
  b = b
  Channels = {a, b}
  Sessions = {p1, p2}
  Nodes = {n1}
  NumShards = 2
  NumReplicas = 1
  ShardOf <- OnePerShard
  BatchSize = 2
  MaxId = 2
  MaxTxRows = 1
  MaxRemoves = 0
  MaxCrashes = 1
  NoOne = NoOne
  Orphan = Orphan
  LockNodes = {n1, n2}
  LeaderBatchSize = 2
  MaxBacklog = 2
  MaxLockFaults = 2
  Workers = {w1}
  NotifyBatch = 2
  MaxRows = 4
  MaxNotifyFaults = 2
  PassNodes = {n1, n2}
  DayLength = 2
  LookaheadDays = 0
  RetentionDays = 2
  Skew = 1
  StartTime = 3
  UserPartitions <- NotDated
  MaxTime = 8
  MaxErrors = 1
  NoNode = NoNode
  ConsumerNodes = {n1, n2}
  UseTryLock = TRUE
  PartitionSelectLimit = 2
  MaxMessages = 3
  MaxConsumerFaults = 2
\* A node may stop for good, and the bounds end the publishing.
CHECK_DEADLOCK FALSE
INVARIANTS LockSafe PartitionsKept ConsumerSafe
PROPERTIES EventuallyDispatched ShardPolled NotifyWorks OldPartitionsGo ConsumerWorks
