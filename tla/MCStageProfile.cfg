SPECIFICATION Spec
CONSTANTS
  Workers = {0, 1, 2}
  Capped = TRUE
  MaxRequests = 2
  NoReconnect = TRUE
  OwnToken = TRUE
  HandshakeBound = 1
  ErrorBound = 0
  Sends = TRUE
  StreamChaos = FALSE
  SendBound = 1
  RecvBound = 0
  Profile <- UpDownUp
  ShareIndex = 0
  ShareAgents = 1
PROPERTIES
  RunningWorkersFollowProfile
