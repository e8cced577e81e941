SPECIFICATION FairSpec
CONSTANTS
  Users <- MCUsers
  Videos <- MCVideos
  SubscribedTo <- MCSubscribedTo
  LikedVideos <- MCLikedVideos
  TrendingVideos <- MCTrending
  Score <- MCScore
  UserServiceBatch = 2
  VideoServiceBatch = 2
  Requests = {r1}
  RequestUsers = {1}
  Limits = {0}
  MaxBatchSize = 2
  ClientPoolSize = 2
  OptionSets <- MCOptions
  FiConfigs <- MCOmitting
  UnreliableNetwork = FALSE
PROPERTIES
  CacheRefreshesForever
