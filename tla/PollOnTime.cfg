SPECIFICATION FairSpec
CONSTANTS
  p1 = p1
  p2 = p2
  i1 = i1
  Points = {p1}
  Intervals = {i1}
  PointsOf <- OnePoint
  MaxRetry = 1
  MaxPolls = 4
  OnTime = TRUE
  ResendRefused = TRUE
INVARIANTS SilentOnlyIfOverlap NoSecondRequest
PROPERTIES PollReported AwaitEnds
