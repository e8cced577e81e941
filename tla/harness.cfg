SPECIFICATION LivesSpec
CONSTANTS
  Calls = {c1}
  MCServers = {s1, s2}
  ServerNames = {s1, s2}
  Nil = Nil
  Hanging = {}
  MaxIncarnation = 2
  Ends <- MCEnds
  Instances <- MCInstances
SYMMETRY MCSymmetry
CHECK_DEADLOCK FALSE
INVARIANTS
  PositiveRepliesSurvive
  PersistersIsolated
  ZombieCallsNeverExecute
  EnabledIffConnected
  NoTickerLeftBehind
