SPECIFICATION FairSpec
CONSTANTS
  l1 = l1
  l2 = l2
  p1 = p1
  p2 = p2
  Loops = {l1, l2}
  Points = {p1, p2}
  PointOf <- mcPointOf
  Kinds = {"good", "bad", "noSeq"}
  Limited = TRUE
  MaxPolls = 2
  MaxResp = 1
INVARIANTS TypeOK ReportsAreRight OneTracked WritesInOrder
PROPERTIES EveryPollAnalysed StopEnds
CHECK_DEADLOCK FALSE
