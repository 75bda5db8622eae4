SPECIFICATION Spec
CONSTANTS
  p1 = p1
  p2 = p2
  i1 = i1
  Points = {p1}
  Intervals = {i1}
  PointsOf <- OnePoint
  MaxRetry = 0
  MaxPolls = 4
  OnTime = TRUE
  ResendRefused = TRUE
INVARIANTS NoRequestWhileAwaited
