SPECIFICATION Spec
CONSTANTS
  Verifications = {p1, p2}
  VerifierConfigs <- MCVerifierConfigs
  Tokens <- MCTokens
  Domains = {"A", "B"}
  Kids = {"k"}
  TTL = 1
  MaxVersion = 1
  MaxClock = 2
  MaxVerifierReloads = 1
  Trackers = {t1, t2}
  SecretConfigs <- MCSecretConfigs
  TrackBatches <- MCTrackBatches
  Now = 4
  Readers = {r1, r2}
  CachedChannels = {"a", "b"}
  Size = 2
  Width = 3
  CacheTTL = 2
  MaxVersions = 2
  MaxStreams = 2
  MaxBuffered = 1
  ApiChannels <- MCApiChannels
  ApiRequests <- MCApiRequests
  BatchConcurrency = 2
  MaxDeliveries = 2
  UniKinds = {"sse", "grpc", "webtransport"}
  MaxWrites = 2
  Handshakes <- MCHandshakes
  ServeOptions <- MCServe
  MaxPings = 1
  MaxPushes = 1
  MaxWSFaults = 1
  NatsConfigs <- MCNatsConfigs
  NatsChannels = {"a.x", "a:x", "*"}
  Wild = {"*"}
  MaxNatsSubs = 2
  MaxNatsMessages = 2
  MaxNatsFaults = 1
\* Requests, streams and connections end.
CHECK_DEADLOCK FALSE
INVARIANTS AcceptedInDomain TrackedWithConfiguredSecret DispatchedRight FramesRight NatsServes
PROPERTIES CacheFresh StreamsRight UniWorks ClosesForGood
