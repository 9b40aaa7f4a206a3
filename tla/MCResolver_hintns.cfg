SPECIFICATION FairSpec
CONSTANTS
  Component <- MCComponent
  RRSetKey <- HintKeys
  Stub = {s1}
  Question <- HintQuestions
  InitialDatabases <- HintDatabases
  Updatable = {}
  ServerHint <- ServersFH
  RootHint <- ISP
  Faults = {}
  MaxRrLabelLen = 3
INVARIANTS DelegationAnswered
CHECK_DEADLOCK FALSE
