SPECIFICATION LoadTestSpec
CONSTANTS
  Conns = {k1}
  Requests = {r1, r2}
  UserIdOffset = 4
  MinUserCount = 2
  Elapsed = {1}
  MaxElapsed = 1
  Word = 8
  Seeds <- MCSeeds
  Stream <- MCStream
  UserRange <- MCUserRange
  VideoRange <- MCVideoRange
  SubscribeCounts = {1}
  LikeCounts = {1}
  TopVideoCounts = {2}
  Features = {1, 2}
  Coefficients = {3}
  Uint64 = 16
  USER_ID_OFFSET = 4
  VIDEO_ID_OFFSET = 100
  MaxDraws = 4
SYMMETRY MCSymmetry
INVARIANTS
  QuietCountsAgree
  ReportsConsistent
  SnapshotsConsistent
  IdsResolve
  RanksDeterministic
