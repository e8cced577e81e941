SPECIFICATION Lab0Spec
CONSTANTS
  InitialSize = 2
  Values = {1, 2}
  Zero = 0
  Procs = {p1, p2}
  NoProc = NoProc
  MaxItems = 4
  Waiters = {w1, w2, w3}
  MaxPosts = 3
  Clients = {c1, c2, c3, c4}
  Limit = 2
  Input <- MCInput
  InCap = 1
  OutCaps = {0, 1}
  Data <- MCInput
  OutCap = 1
INVARIANTS
  UnitsConserved
  ConcurrencyBounded
  NothingLost
  ClosedMeansMerged
PROPERTIES
  IsFifoQueue
  EveryCallReturns
  EveryMergeEnds
