SPECIFICATION FairSpec
CONSTANTS
  MaxLosses = 3
  MaxFails = 2
INVARIANT TypeOK
PROPERTIES LinkSpec LastingLossReported ConnectionsSignalled
