SPECIFICATION Spec
CONSTANTS
  Handlers = {h1, h2}
  Users <- MCUsers
  Limits = {0, 2}
  Score <- MCScore
  Trending <- MCTrending
  MaxRefreshes = 2
SYMMETRY MCSymmetry
INVARIANTS
  UncontendedResponsesCorrect
  ResponsesFromOneRefresh
