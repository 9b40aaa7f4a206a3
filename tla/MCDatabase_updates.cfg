SPECIFICATION Spec
CONSTANTS
  Component <- MCComponent
  RRSetKey <- TwoZonesKeys
  Server <- TwoZonesServers
  Request <- TwoZonesRequests
  Delegation <- NoDelegations
  Failures = {"crash", "busy"}
  MaxId = 4
  InitialTables <- TwoZonesTables
INVARIANTS TypeOK AcknowledgedUpdate
PROPERTIES ZonesAreIsolated StoreRefinement
