SPECIFICATION LiveSpec
CONSTANTS
  Component <- LiveComponent
  Ending <- LiveEnding
  Stem <- LiveStem
  Beginning <- LiveBeginning
  RRSetKey <- LiveKeys
  Server <- RaceServers
  Request <- RaceRequests
  Question <- AliasQuestions
  ForwardingHint <- LiveHint
  Delegation <- RaceDelegations
  Failures = {}
  MaxId = 4
  InitialTables <- RaceTables
INVARIANT LabelIsReadBack
