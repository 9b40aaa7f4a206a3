SPECIFICATION FairSpec
CONSTANTS
  Component <- MCComponent
  RRSetKey <- StaticKeys
  Stub = {s1}
  Question <- StaticQuestions
  InitialDatabases <- StaticDatabases
  Updatable = {}
  ServerHint <- Servers
  RootHint <- NoHint
  Faults = {}
  MaxRrLabelLen = 3
INVARIANTS ResolutionCorrect FinishedWithinName SilentOnlyIfUnresolvable
PROPERTIES EventuallyEnds WalkRefinement
CHECK_DEADLOCK FALSE
