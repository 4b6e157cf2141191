SPECIFICATION Spec
CONSTANTS
  AppConfigs <- MCAppConfigs
  Services = {"redis_stream", "aws_sqs", "usage"}
  MaxReloads = 2
  MaxSvcFailures = 1
  MaxEntry = 2
  EntryContent <- MCEntryContent
  Concurrency = 1
  MaxRQFaults = 2
  QKinds = {"sqs", "session", "nats", "pubsub"}
  QMessages <- MCQMessages
  Receivers = {r1, r2}
  SqsRetries = 1
  AzureRetries = 1
  LaneLimit = 1
  MaxQFaults = 2
\* The process exits, and queues run empty.
CHECK_DEADLOCK FALSE
INVARIANTS AppOrder QueueSafe
PROPERTIES AcceptedTermExits RedisQueueWorks QueueWorks
