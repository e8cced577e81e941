SPECIFICATION Spec
CONSTANTS
  Handlers = {h1, h2}
  Users <- MCUsers
  Limits = {0}
  Score <- MCScore
  Trending <- MCTrending
  MaxRefreshes = 1
SYMMETRY MCSymmetry
INVARIANTS
  NoDuplicateVideos
