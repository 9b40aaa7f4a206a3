SPECIFICATION DigSpec
CONSTANTS
  Component <- DigComponent
  Ending <- DigEnding
  Stem <- DigStem
  Beginning <- DigBeginning
  RRSetKey <- DigKeys
  Stub = {s1, s2}
  Question <- NoOthers
  InitialDatabases <- DigDatabases
  Updatable <- DigUpdatable
  ServerHint <- Servers
  RootHint <- NoHint
  Faults = {"loss", "stop"}
  MaxRrLabelLen = 2
  Dig = {d}
  DigQuestion <- DigQuestions
  ResolverName <- Lo
  InterestTriedMax = 2
INVARIANTS TypeOK DigTypeOK AuthorityChain AnswerFromAuthority DigGotItsOwn
PROPERTY DigEnds
