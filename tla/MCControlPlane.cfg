SPECIFICATION FairSpec
CONSTANTS
  Agents = {a1, a2}
  Phases = 2
INVARIANTS
  PhasesSeparated
  MessagesExpected
  MissingAgentsAreLost
PROPERTIES
  KeepsPromise
  EverybodyEnds
