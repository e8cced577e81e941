SPECIFICATION Spec
CONSTANTS
  Users <- MCUsers
  Videos <- MCVideos
  SubscribedTo <- MCSubscribedTo
  LikedVideos <- MCLikedVideos
  TrendingVideos <- MCTrending
  Score <- MCScore
  UserServiceBatch = 2
  VideoServiceBatch = 2
  Requests = {r1, r2}
  RequestUsers = {0, 1}
  Limits <- MCLimits
  MaxBatchSize = 2
  ClientPoolSize = 2
  OptionSets <- MCOptions
  FiConfigs <- MCAnswering
  UnreliableNetwork = FALSE
SYMMETRY MCSymmetry
INVARIANTS
  FreshResponsesExact
  CountersExact
  UserPoolBalanced
  NeverRejectedByBackend
