CONSTANTS
  Connections = {c1, c2}
  AddrBound = 3
  SourceBound = 2
  AppBound = 2
  PeerBound = 2
  HighWater = 1
  MockConns = {m1, m2}
  ClientFrames = {"a", "b"}
  MockRules <- MCRules
  ReplayFrames = 2
  CloseAfter = 2
  ReceiveBound = 2
  PlanInputs <- MCInputs
  MaxRate = 4
  SerReplies <- MCReplies
  SerEnds <- MCEnds
  SerInterval = 3
  SliverPart = 2
  SerFlush = 2
  SerBase = 1
  LagWakes <- MCWakes
  LagThreshold <- MCThresholds
  LagMax = 3
  LagInterval = 6
  LateInRun = 3
  LateInInterval = 2
  LagShare = 60
  LiveAgents = {g1, g2}
  LivePhases = 2
  LiveReplies = 1
  LiveEnd = 1
  LiveQueue = 1
  ExportLag = 0
  HeldIntervals = 1
  VerAgents = {v1, v2}
  VerPhases = 2
  VerResults <- MCResults
  VerSlos <- MCSlos
  VerPercent = 50
  CmpInputs <- MCCmpInputs
  SlackPart = 4
SPECIFICATION Spec
INVARIANTS
  RaceCoversAddresses
  DeflateTransparent
  MockAnswersInOrder
  SharesAccepted
  SeriesAddsUp
  LagVerdictExact
  VerdictSound
  CompareSound
PROPERTIES
  LivePictureTrue
