SPECIFICATION ZoneSetupSpec
CONSTANTS
  Component <- MCComponent
  RRSetKey <- ZoneKeys
  Server <- ZoneServers
  Request <- ZoneRequests
  Delegation <- ZoneDelegations
  Failures = {"crash", "busy"}
  MaxId = 3
  InitialTables <- RaceTables
  DefaultFile = "ndns_local"
  InitialZones <- OneFile
  Zone <- Zones
  Registration <- ZoneRegistrations
  InitialProducts <- ZoneProducts
INVARIANTS
  SetupTypeOK
  EveryRRSetHasItsZone
  ServerIdIsItsZone
  ZoneHasOneCertificate
  DelegationIsSigned
CHECK_DEADLOCK FALSE
