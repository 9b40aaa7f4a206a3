----------------------------- MODULE ZoneSetup -----------------------------
(***************************************************************************)
(* Zones from their keys to their name servers: zone-create, zone-register,  *)
(* zone-delegate and name-server-daemon as processes that share keychain,    *)
(* files and database, each of which may be cut off and called again.        *)
(***************************************************************************)
EXTENDS SharedDatabase, ZoneTools

VARIABLE zoneId          \* per server: m_zone.getId()

setupSpecVars == <<vars, setupVars, zoneId>>

ZoneSetupInit ==
  /\ rrsets = {} /\ rrs = {}
  /\ pc = [z \in Server |-> "down"]
  /\ request = [z \in Server |-> SomeRequest(z)]
  /\ rrsetId = [z \in Server |-> 0]
  /\ rrsetIdOfRR = [z \in Server |-> 0]
  /\ rrId = [z \in Server |-> 0]
  /\ ToolInit
  /\ before = [z \in Server |-> {}]
  /\ SetupInit
  /\ zoneId = [z \in Server |-> 0]

-----------------------------------------------------------------------------
\* Mutant: run() goes on when the zone is not in the database.
MayRunAlways(id) == TRUE

\* run() stops the io service if the zone has no id, so processEvents
\* returns at once and the process ends with -1.
MayRun(id) == id # 0

\* name-server-daemon is started with --dbfile=file.  Only the look-up of the
\* zone's id uses the option.
StartServer(z, file) ==
  /\ MayRun(ZoneId(file, z))
  /\ Restart(z)
  /\ zoneId' = [zoneId EXCEPT ![z] = ZoneId(file, z)]
  /\ UNCHANGED setupVars

RunServer(z) ==
  /\ \/ \E r \in Request : ReceiveUpdate(z, r)
     \/ ServerStep(z)
     \/ AnswerUpdate(z)
  /\ UNCHANGED setupVars
  /\ UNCHANGED zoneId

EndServer(z) ==
  /\ Crash(z) \/ StatementFails(z)
  /\ zoneId' = [zoneId EXCEPT ![z] = 0]
  /\ UNCHANGED setupVars

CreateZone(z) ==
  /\ StartCreate(z) \/ MakeProduct(z) \/ CreateCrash(z)
  /\ UNCHANGED <<vars, zoneId>>

RegisterTop(t) ==
  /\ \/ StartRegister(t) /\ UNCHANGED <<rrsets, rrs>>
     \/ LookupZone(t)
     \/ RegisterZone(t)
     \/ RefusedZone(t)
     \/ RegisterTopRRSet(t)
     \/ RegisterTopRR(t)
     \/ RegisterCrash(t)
  /\ UNCHANGED <<toolVars, serverVars, before, zoneId>>

DelegateZone(d) ==
  \/ /\ StartDelegate(d) \/ DelegateStep(d)
     /\ UNCHANGED <<serverVars, before, zoneId>>
  \/ ToolCrash(d) /\ UNCHANGED setupVars /\ UNCHANGED zoneId

ZoneSetupNext ==
  \/ \E z \in Server :
       \/ \E file \in DbFile : StartServer(z, file)
       \/ RunServer(z)
       \/ EndServer(z)
  \/ \E z \in Zone : CreateZone(z)
  \/ \E t \in Registration : RegisterTop(t)
  \/ \E d \in Delegation : DelegateZone(d)

ZoneSetupSpec == ZoneSetupInit /\ [][ZoneSetupNext]_setupSpecVars

-----------------------------------------------------------------------------
\* Every variable stays in its type.
SetupTypeOK ==
  /\ TypeOK
  /\ zones \in [DbFile -> SUBSET ZoneRow]
  /\ products \subseteq Name \X Product
  /\ createAt \in [Zone -> 0 .. Len(Products)]
  /\ topAt \in [Registration -> TopAt]
  /\ topRRset \in [Registration -> Nat]
  /\ cutOff \subseteq Zone
  /\ zoneId \in [Server -> Nat]

(***************************************************************************)
(* Every row of rrsets belongs to a zone of the database, whoever wrote it   *)
(* and whichever calls were cut off: the FOREIGN KEY of the table, which      *)
(* SQLite does not enforce here.                                             *)
(***************************************************************************)
EveryRRSetHasItsZone ==
  \A s \in rrsets : \E r \in zones[DefaultFile] : r.name = s.key.zone

(***************************************************************************)
(* The id that a running server writes and selects rows with is that of its  *)
(* own zone: of the zones the tables know by this id, its name is the one.    *)
(* The daemon offers to "set database file" (name-server-daemon.cpp:42).     *)
(***************************************************************************)
ServerIdIsItsZone ==
  \A z \in Server : pc[z] # "down" =>
    \A r \in zones[DefaultFile] : r.id = zoneId[z] <=> r.name = z

(***************************************************************************)
(* However many calls of zone-register race for a zone, with one certificate *)
(* or several, the zone ends up with one certificate: it has none only if    *)
(* the call that entered it is still at work or some call was cut off.       *)
(***************************************************************************)
Certified(t) == HoldsIn(t.cert, t.certData)

ZoneHasOneCertificate ==
  \A t \in Registration : ZoneId(DefaultFile, t.zone) # 0 =>
    LET calls == {u \in Registration : u.zone = t.zone} IN
    /\ \A u \in calls : Certified(t) /\ Certified(u) => t.cert = u.cert
    /\ \/ \E u \in calls : Certified(u) \/ topAt[u] \in {"insertRRSet", "insertRR"}
       \/ t.zone \in cutOff

(***************************************************************************)
(* A sub-zone that the database delegates has a key of its own which its     *)
(* parent was able to sign: the trust that zone-create, zone-register and     *)
(* zone-delegate build together, in any order and with any call cut off.     *)
(***************************************************************************)
DelegationIsSigned ==
  \A d \in Delegation : HoldsIn(d.sub, d.nsDatas[1]) =>
    /\ {<<SubZone(d), p>> : p \in {"KSK", "KSK-CERT", "PKS-FILE"}} \subseteq products
    /\ <<d.sub.zone, "DSK-CERT">> \in products
    /\ HoldsIn(d.cert, d.certData)

=============================================================================
