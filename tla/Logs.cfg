SPECIFICATION Spec
CONSTANTS
  a = a
  b = b
  Channels = {a, b}
  Sessions = {p1, p2}
  Nodes = {n1}
  NumShards = 1
  NumReplicas = 1
  ShardOf <- OneShard
  BatchSize = 2
  MaxId = 3
  MaxTxRows = 2
  MaxRemoves = 1
  MaxCrashes = 1
  NoKey = NoKey
  Keys = {k1}
  Publishers = {p1, p2}
  PublishArgs <- MixedArgs
  ReadArgs <- Reads
  DefaultMetaTTL = 1
  MaxTime = 3
  MaxPublishes = 3
  NoMember = NoMember
  Members = {p1, p2}
  MaxPollRecords = 2
  PartitionQueueMaxSize = 2
  MaxLog = 4
  MaxKafkaFaults = 2
SYMMETRY Symmetry
\* The bounds end every behaviour.
CHECK_DEADLOCK FALSE
INVARIANTS OutboxSafe NoSkippedRow PublishSafe HistorySafe KafkaDelivery KafkaPartition
PROPERTY ImplementsFeed
