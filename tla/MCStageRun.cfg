SPECIFICATION FairSpec
CONSTANTS
  Workers = {0, 1, 2}
  Capped = TRUE
  MaxRequests = 1
  NoReconnect = FALSE
  OwnToken = TRUE
  HandshakeBound = 1
  ErrorBound = 0
  Sends = TRUE
  StreamChaos = TRUE
  SendBound = 1
  RecvBound = 1
  Profile <- UpDownUp
  ShareIndex = 0
  ShareAgents = 1
INVARIANTS
  StageBooks
  KeptWorkersRun
PROPERTIES
  StoppedWorkersEnd
