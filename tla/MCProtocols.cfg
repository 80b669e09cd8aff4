CONSTANTS
  s1 = s1
  s2 = s2
  h1 = h1
  h2 = h2
  CapSessions = {s1, s2}
  CapHosts = {h1, h2}
  CapHomes <- MCHomes
  CapLimit = 2
  QueueCapacity = 1
  ForwardBatch = 2
  BatchCapacity = 1
  FrameBound = 3
  TokenAgents = {a1, a2}
  TokenBound = 3
  PhaseBound = 2
  FailBound = 1
  Unsendable = {2}
  Coordinators = {k1, k2, k3}
  Trusted = {k1, k2}
  EventBound = 2
  PushBound = 1
  ChannelSize = 2
SPECIFICATION Spec
INVARIANTS
  CaptureExact
  TokenNeverOlder
  LeaseHeldByOne
  RepliesAnswerEvents
PROPERTIES
  CaptureFinishes
  TokenReachesAgents
  SocketIoEnds
