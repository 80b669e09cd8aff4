SPECIFICATION Spec
CONSTANTS
  Workers = {w1, w2}
  Capped = FALSE
  MaxRequests = 1
  NoReconnect = FALSE
  OwnToken = FALSE
  HandshakeBound = 2
  ErrorBound = 1
  DataBound = 1
  GraphErrorBound = 1
PROPERTIES
  CloseIsNoError
