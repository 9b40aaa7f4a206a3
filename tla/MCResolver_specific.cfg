SPECIFICATION FairSpec
CONSTANTS
  Component <- MCComponent
  RRSetKey <- StaticKeys
  Stub = {s1}
  Question <- StaticQuestions
  InitialDatabases <- StaticDatabases
  Updatable = {}
  ServerHint <- Servers
  RootHint <- NoHint
  Faults = {}
  MaxRrLabelLen = 3
PROPERTIES AsksSomethingNew
CHECK_DEADLOCK FALSE
