SPECIFICATION Spec
CONSTANTS
  Component <- MCComponent
  RRSetKey <- MovingKeys
  Stub = {s1}
  Question <- MovingQuestions
  InitialDatabases <- MovingDatabases
  Updatable <- MovingUpdatable
  ServerHint <- Servers
  RootHint <- ISP
  Faults = {"loss", "foreign", "stop"}
  MaxRrLabelLen = 3
INVARIANTS AuthorityChain AnswerFromAuthority HintFromParent
