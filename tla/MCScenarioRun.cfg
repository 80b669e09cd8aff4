SPECIFICATION FairSpec
CONSTANTS
  Workers = {w1}
  Capped = TRUE
  MaxRequests = 2
  NoReconnect = FALSE
  OwnToken = FALSE
  HandshakeBound = 2
  ErrorBound = 1
  Paced = TRUE
  Chaos = TRUE
  Checks = TRUE
  SendBound = 3
  login = login
  query = query
  ActionNames = {login, query}
  NoAction = NoAction
  AwaitsReplies = TRUE
  Scripts <- MCScripts
INVARIANTS
  ScenarioBooks
PROPERTIES
  ActionCountsOwnBurst
  LimitEndsScenario
