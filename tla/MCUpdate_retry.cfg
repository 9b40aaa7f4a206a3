SPECIFICATION FairSpec
CONSTANTS
  Component <- MCComponent
  RRSetKey <- MCKeys
  Client = {c1, c2}
  UpdateRequest <- MCRequests
  InterestTriedMax = 2
  SendMayFail = TRUE
  MaxRuns = 2
  InitialRecords <- MCRecords
  ServerMayEnd = TRUE
INVARIANTS TypeOK SuccessMeansExecuted RetryIsHarmless
PROPERTIES RunEnds
CHECK_DEADLOCK FALSE
