SPECIFICATION FairSpec
CONSTANTS
  Workers = {w1, w2}
  Capped = FALSE
  MaxRequests = 1
  NoReconnect = FALSE
  OwnToken = FALSE
  HandshakeBound = 2
  ErrorBound = 0
  DataBound = 1
  GraphErrorBound = 1
INVARIANTS
  SessionBooks
PROPERTIES
  CancelEndsRun
