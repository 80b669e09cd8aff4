SPECIFICATION FairSpec
CONSTANTS
  Workers = {w1, w2}
  Capped = TRUE
  MaxRequests = 2
  NoReconnect = FALSE
  OwnToken = FALSE
  HandshakeBound = 2
  ErrorBound = 1
  Paced = TRUE
  Chaos = TRUE
  Checks = TRUE
  SendBound = 2
INVARIANTS
  TypeOK
  GaugeIsOpenSessions
  SendsWithinLimit
  ClaimOvershoot
  ErrorsWithinAttempts
  ReportExact
PROPERTIES
  CancelEndsRun
  LimitCancelsRun
