SPECIFICATION ChecksSpec
CONSTANTS
  N = 2
  Cmds = {a, b}
  NoCmd = NoCmd
  MaxIndex = 2
  MaxLives = 2
  Peers = 3
  MaxTerm = 2
  MaxIters = 2
SYMMETRY MCSymmetry
CHECK_DEADLOCK FALSE
INVARIANTS
  NoFalseAlarm
  DivergenceCaught
  ReturnedMeansCommitted
  AgreementsCounted
  LeadersNotFalselyAccused
  VerdictsTrueWhenStill
