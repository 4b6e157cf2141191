SPECIFICATION Spec
CONSTANTS
  Clients = {c1, c2}
  Boots <- MCBoots
  Configs <- MCConfigs
  Channels <- MCChannels
  Requests <- MCRequests
  ConnTokens <- MCConnTokens
  SubTokens <- MCSubTokens
  Proxy <- MCProxy
  Keys <- MCKeys
  MaxReloads = 1
  NumKeys = 2
  IdemKeys = {i1}
  MapNoKey = MapNoKey
  MapPublishArgs <- MapPublishes
  RemoveArgs <- MapRemoves
  KeyTTL = 1
  MetaTTL = 1
  IdemTTL = 1
  ExpireBatch = 1
  PageLimit = 1
  StreamLimit = 2
  ClearUsed = TRUE
  MapMaxTime = 3
  MaxEntries = 3
  MaxEpochs = 2
CHECK_DEADLOCK FALSE
INVARIANT OneConnectionPerUser
