SPECIFICATION Spec
CONSTANTS
  Component <- MCComponent
  RRSetKey <- TwoZonesKeys
  Server <- TwoZonesServers
  Request <- BusyRequests
  Delegation <- NoDelegations
  Failures = {"busy"}
  MaxId = 4
  InitialTables <- TwoZonesTables
PROPERTIES FailureIsAnswered
