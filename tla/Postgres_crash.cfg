SPECIFICATION Spec
CONSTANTS
  SNodes = {n1}
  MaxVersion = 1
  ShardsOf <- EqualShards
  SchemaKinds = {"map", "stream", "controller"}
  Databases = {"empty", "installed"}
  MaxSchemaFaults = 1
  ONodes = {n1, n2}
  OShards = {0, 1}
  OBatch = 2
  OKinds = {"controller", "map", "fanout"}
  MaxMsgs = 2
  MaxOFaults = 1
  PoolKinds = {"map", "stream", "controller"}
  ReplicaCounts = {0, 2}
  HashBits = 5
  ShardCounts = {0, 3}
  WChannels = {c1, c2, c3}
  ChannelLimit = 2
  KeyBatch = 1
  RowBatch = 1
  MaxExpired = 2
  MaxWFaults = 1
  NoMember = NoMember
  Members = {m1, m2}
  MaxPollRecords = 2
  PartitionQueueMaxSize = 1
  MaxLog = 2
  MaxKafkaFaults = 1
\* Nodes may stop for good, and the bounds end the publishing.
CHECK_DEADLOCK FALSE
INVARIANT ServingIsComplete
