SPECIFICATION FairSpec
CONSTANTS
  read = read
  write = write
  r1 = r1
  r2 = r2
  r3 = r3
  Ops = {read, write}
  WriteOps = {write}
  Requests = {r1, r2, r3}
  OpOf <- mcOpOf
  Messages <- mcMessages
  NTx = 2
  MaxRetry = 1
INVARIANTS TypeOK OwnData EntryBacked CrashNeedsReuse
PROPERTY EveryCommandAnswered
CHECK_DEADLOCK FALSE
