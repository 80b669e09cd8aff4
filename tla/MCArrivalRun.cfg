SPECIFICATION FairSpec
CONSTANTS
  Workers = {0, 1, 2}
  Capped = FALSE
  MaxRequests = 1
  NoReconnect = TRUE
  OwnToken = TRUE
  HandshakeBound = 1
  ErrorBound = 0
  Sends = FALSE
  StreamChaos = FALSE
  SendBound = 0
  RecvBound = 0
  Gap = 1
  End = 3
  SessionDuration = 1
  MaxOpen = 2
  Interval = 1
PROPERTIES
  ArrivalsRecorded
  NoArrivalOverdue
  SessionsEnd
