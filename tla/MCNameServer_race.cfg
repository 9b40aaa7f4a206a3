SPECIFICATION LiveSpec
CONSTANTS
  Component <- LiveComponent
  Ending <- LiveEnding
  Stem <- LiveStem
  Beginning <- LiveBeginning
  RRSetKey <- LiveKeys
  Server <- RaceServers
  Request <- LiveRequests
  Question <- LiveQuestions
  ForwardingHint <- LiveHint
  Delegation <- RaceDelegations
  Failures = {"crash", "busy"}
  MaxId = 3
  InitialTables <- LiveTables
INVARIANTS
  LiveTypeOK
  NoDuplicateRR
  EveryRRHasItsSet
  DelegatedWithCertificate
  ReplyIsOfAMoment
  AddedWhereMeant
  LabelIsReadBack
PROPERTY UpdatesOnly
