-------------------------- MODULE ZoneSetup_proofs --------------------------
(***************************************************************************)
(* Proofs about the tools that set up zones next to running servers.  All   *)
(* that servers and zone-delegate do is proved in SharedDatabase_proofs;    *)
(* the statements of zone-register come on top.                             *)
(***************************************************************************)
EXTENDS ZoneSetup, SharedDatabase_proofs

LEMMA SetupSteps ==
  ASSUME [ZoneSetupNext]_setupSpecVars
  PROVE  [Next]_vars \/ \E t \in Registration : RegisterTop(t)
<1>1. ASSUME NEW z \in Server, NEW file \in DbFile, StartServer(z, file)
      PROVE  Next
  BY <1>1 DEF StartServer, Next
<1>2. ASSUME NEW z \in Server, RunServer(z) \/ EndServer(z)
      PROVE  Next
  BY <1>2 DEF RunServer, EndServer, Next
<1>3. ASSUME NEW z \in Zone, CreateZone(z)
      PROVE  UNCHANGED vars
  BY <1>3 DEF CreateZone
<1>4. ASSUME NEW d \in Delegation, DelegateZone(d)
      PROVE  [Next]_vars
  <2>1. CASE ToolCrash(d)
    BY <2>1 DEF Next
  <2>2. CASE StartDelegate(d) /\ UNCHANGED <<serverVars, before>>
    <3>1. CASE StartTool(d)
      BY <2>2, <3>1 DEF ToolStep, Next
    <3>2. CASE UNCHANGED <<rrsets, rrs, at, insertedIds>>
      BY <2>2, <3>2 DEF vars, toolVars
    <3>3. QED
      BY <2>2, <3>1, <3>2 DEF StartDelegate
  <2>3. CASE DelegateStep(d) /\ UNCHANGED <<serverVars, before>>
    BY <2>3 DEF DelegateStep, ToolStep, Next
  <2>4. QED
    BY <1>4, <2>1, <2>2, <2>3 DEF DelegateZone
<1>5. CASE UNCHANGED setupSpecVars
  BY <1>5 DEF setupSpecVars
<1>6. QED
  BY <1>1, <1>2, <1>3, <1>4, <1>5 DEF ZoneSetupNext

-----------------------------------------------------------------------------
\* The table zones keeps its ids and names apart, so a zone has one id.
LEMMA ZoneIdOf ==
  ASSUME NEW file \in DbFile, IsZoneTable(zones[file]), NEW zone
  PROVE  /\ ZoneId(file, zone) \in Nat
         /\ ZoneId(file, zone) # 0 => \E r \in zones[file] : r.name = zone /\ r.id = ZoneId(file, zone)
         /\ \A r \in zones[file] : r.name = zone => r.id = ZoneId(file, zone) /\ r.id # 0
<1> DEFINE rows == {r \in zones[file] : r.name = zone}
           ids == {r.id : r \in rows}
           f == [r \in rows |-> r.id]
<1>1. \A r \in zones[file] : r.id \in Nat \ {0}
  BY DEF IsZoneTable, ZoneRow
<1>2. IsFiniteSet(rows)
  BY FS_Subset DEF IsZoneTable
<1>3. IsFiniteSet(ids)
  <2>1. f \in Surjection(rows, ids)
    BY DEF Surjection
  <2>2. QED
    BY <1>2, <2>1, FS_Surjection
<1>4. IsFiniteSet(ids \cup {0})
  BY <1>3, FS_AddElement
<1>5. ids \cup {0} \in SUBSET Nat /\ ids \cup {0} # {}
  BY <1>1
<1>6. ZoneId(file, zone) \in ids \cup {0} /\ \A i \in ids \cup {0} : i <= ZoneId(file, zone)
  <2>1. ZoneId(file, zone) = Max(ids \cup {0})
    BY DEF ZoneId
  <2> HIDE DEF ids
  <2>2. QED
    BY <1>4, <1>5, <2>1, MaxOfFinite
<1>7. PICK id : id = ZoneId(file, zone)
  OBVIOUS
<1>8. id \in ids \cup {0} /\ \A i \in ids \cup {0} : i <= id
  BY <1>6, <1>7
<1>9. \A r, q \in rows : r = q
  BY DEF IsZoneTable
<1>10. ASSUME NEW r \in rows
       PROVE  r.id = id /\ r.id # 0
  <2>1. ids = {r.id}
    BY <1>9, <1>10
  <2>2. r.id \in Nat /\ r.id > 0
    BY <1>1, <1>10
  <2>3. r.id <= id /\ id \in {r.id, 0}
    BY <1>8, <2>1
  <2>4. QED
    BY <2>2, <2>3
<1>11. QED
  BY <1>5, <1>7, <1>8, <1>10

LEMMA InsertZoneSound ==
  ASSUME zones \in [DbFile -> SUBSET ZoneRow], \A file \in DbFile : IsZoneTable(zones[file]),
         NEW zone \in Name, InsertZone(zone)
  PROVE  /\ zones' \in [DbFile -> SUBSET ZoneRow]
         /\ \A file \in DbFile : IsZoneTable(zones'[file]) /\ zones[file] \subseteq zones'[file]
         /\ \A r \in zones'[DefaultFile] : r \in zones[DefaultFile] \/ r.name = zone
         /\ \A r \in zones[DefaultFile] : r.name # zone
         /\ \E r \in zones'[DefaultFile] : r.name = zone
<1> DEFINE rows == zones[DefaultFile]
           new == [id |-> NewId(rows), name |-> zone]
<1>1. DefaultFile \in DbFile
  BY ZoneToolsAssumption
<1>2. PICK id : id = NewId(rows)
  OBVIOUS
<1>3. id \in Nat \ {0} /\ \A r \in rows : r.id < id
  <2>1. IsFiniteSet(rows) /\ \A r \in rows : r.id \in Nat
    BY <1>1 DEF IsZoneTable, ZoneRow
  <2> HIDE DEF rows
  <2>2. QED
    BY <1>2, <2>1, NewIdIsGreatest
<1>4. zones' = [zones EXCEPT ![DefaultFile] = rows \cup {new}]
  BY DEF InsertZone
<1>5. new \in ZoneRow /\ new.id = id /\ new.name = zone
  BY <1>2, <1>3 DEF ZoneRow
<1> HIDE DEF new
<1>6. \A r \in rows : r.name # zone
  BY <1>1, ZoneIdOf DEF InsertZone
<1>7. IsZoneTable(rows \cup {new})
  <2>1. IsFiniteSet(rows \cup {new})
    BY <1>1, FS_AddElement DEF IsZoneTable
  <2>2. \A r \in rows : r.id # new.id /\ r.name # new.name
    <3>1. \A r \in rows : r.id \in Nat
      BY <1>1 DEF IsZoneTable, ZoneRow
    <3>2. QED
      BY <1>3, <1>5, <1>6, <3>1
  <2>3. IsZoneTable(rows)
    BY <1>1
  <2> HIDE DEF rows
  <2>4. QED
    BY <1>5, <2>1, <2>2, <2>3 DEF IsZoneTable
<1>8. zones'[DefaultFile] = rows \cup {new} /\ \A file \in DbFile \ {DefaultFile} : zones'[file] = zones[file]
  BY <1>1, <1>4
<1>9. rows \subseteq ZoneRow
  BY <1>1
<1>10. zones' \in [DbFile -> SUBSET ZoneRow]
  BY <1>1, <1>4, <1>5, <1>9
<1>11. \A file \in DbFile : IsZoneTable(zones'[file]) /\ zones[file] \subseteq zones'[file]
  BY <1>7, <1>8
<1>12. QED
  BY <1>5, <1>6, <1>8, <1>10, <1>11

-----------------------------------------------------------------------------
\* What the tools keep: the tables of zones are sound, and zone-register holds
\* the id of the row it has inserted.
SetupVarsInv ==
  /\ zones \in [DbFile -> SUBSET ZoneRow]
  /\ \A file \in DbFile : IsZoneTable(zones[file])
  /\ products \subseteq Name \X Product
  /\ createAt \in [Zone -> 0 .. Len(Products)]
  /\ topAt \in [Registration -> TopAt]
  /\ topRRset \in [Registration -> Nat]
  /\ cutOff \subseteq Zone
  /\ zoneId \in [Server -> Nat]

RegisterInv == \A t \in Registration : topAt[t] = "insertRR" => IsIdOf(topRRset[t], t.cert)

SetupInv == IInv /\ SetupVarsInv /\ RegisterInv

LEMMA ProductsAre ==
  /\ Len(Products) = 6 /\ DOMAIN Products = 1 .. 6
  /\ Products[1] = "KSK" /\ Products[2] = "DSK" /\ Products[3] = "KSK-CERT"
  /\ Products[4] = "SS-FILE" /\ Products[5] = "DSK-CERT" /\ Products[6] = "SKS-FILE"
  /\ \A i \in 1 .. 6 : Products[i] \in Product
  /\ "PKS-FILE" \in Product
<1>1. /\ Len(Products) = 6 /\ DOMAIN Products = 1 .. 6
      /\ Products[1] = "KSK" /\ Products[2] = "DSK" /\ Products[3] = "KSK-CERT"
      /\ Products[4] = "SS-FILE" /\ Products[5] = "DSK-CERT" /\ Products[6] = "SKS-FILE"
  BY DEF Products
<1>2. QED
  BY <1>1 DEF Product, Range

LEMMA RegistrationIs ==
  ASSUME NEW t \in Registration
  PROVE  /\ t.zone \in Zone /\ t.zone \in Name
         /\ t.cert \in RRSetKey /\ t.cert.zone = t.zone /\ t.certData \in Name
BY ZoneToolsAssumption

LEMMA InitSetupInv == ZoneSetupInit => SetupInv
<1> SUFFICES ASSUME ZoneSetupInit PROVE SetupInv
  OBVIOUS
<1>1. SoundTables
  BY FS_EmptySet DEF ZoneSetupInit, SoundTables, IsRRSetTable, IsRRTable
<1>2. ServersInv /\ pc \in [Server -> PC] /\ request \in [Server -> Request]
  BY SomeRequestType DEF ZoneSetupInit, ServersInv, ServerInv, Located, PC
<1>3. ToolsInv
  <2>1. << >> \in Seq(Nat \ {0}) /\ DOMAIN << >> = {}
    OBVIOUS
  <2>2. \A d \in Delegation : Statements(d) \in Nat
    BY RRSetsOfIs, RRsOfIs
  <2>3. QED
    BY <2>1, <2>2 DEF ZoneSetupInit, ToolInit, ToolsInv, ToolInv
<1>4. SetupVarsInv
  BY ZoneToolsAssumption, ProductsAre DEF ZoneSetupInit, SetupInit, SetupVarsInv, TopAt
<1>5. RegisterInv
  BY DEF ZoneSetupInit, SetupInit, RegisterInv
<1>6. QED
  BY <1>1, <1>2, <1>3, <1>4, <1>5 DEF SetupInv, IInv

LEMMA ServersKeepSets ==
  ASSUME IInv, [Next]_vars
  PROVE  rrsets \subseteq rrsets'
<1>1. ASSUME NEW z \in Server, ServerStep(z)
      PROVE  rrsets \subseteq rrsets'
  BY <1>1, ServerStepInv DEF IInv
<1>2. ASSUME NEW d \in Delegation, ToolStep(d)
      PROVE  rrsets \subseteq rrsets'
  BY <1>2, ToolStepInv DEF IInv, ToolStep
<1>3. ASSUME NEW y \in Server,
             \/ \E r \in Request : ReceiveUpdate(y, r)
             \/ AnswerUpdate(y) \/ StatementFails(y) \/ Crash(y) \/ Restart(y)
      PROVE  rrsets \subseteq rrsets'
  BY <1>3, OtherStepKeepsTables DEF IInv
<1>4. ASSUME NEW d \in Delegation, ToolCrash(d)
      PROVE  rrsets \subseteq rrsets'
  BY <1>4 DEF ToolCrash
<1>5. QED
  BY <1>1, <1>2, <1>3, <1>4 DEF Next, vars

\* What zone-register writes keeps the tables sound and leaves the processes
\* that refer to them alone.
LEMMA RegisterKeepsIInv ==
  ASSUME SetupInv, NEW t \in Registration, RegisterTop(t)
  PROVE  IInv' /\ rrsets \subseteq rrsets'
<1> USE DEF SetupInv, IInv
<1>1. SoundTables' /\ rrsets \subseteq rrsets'
  <2>1. CASE RegisterTopRRSet(t)
    BY <2>1, RegistrationIs, InsertRRSetSound DEF RegisterTopRRSet, Class
  <2>2. CASE RegisterTopRR(t)
    <3>1. InsertRR(topRRset[t], t.certData) /\ topRRset[t] \in Nat /\ t.certData \in Name
      BY <2>2, RegistrationIs DEF RegisterTopRR, SetupVarsInv
    <3>2. \E s \in rrsets : s.id = topRRset[t]
      BY <2>2 DEF RegisterTopRR, RegisterInv, IsIdOf
    <3>3. QED
      BY <3>1, <3>2, InsertRRSound DEF InsertRR
  <2>3. CASE UNCHANGED <<rrsets, rrs>>
    BY <2>3 DEF SoundTables
  <2>4. QED
    BY <2>1, <2>2, <2>3 DEF RegisterTop, LookupZone, RegisterZone, RefusedZone, RegisterCrash
<1>2. UNCHANGED <<toolVars, serverVars>>
  BY DEF RegisterTop
<1>3. QED
  BY <1>1, <1>2, ToolsIdle, ServersIdle DEF serverVars

LEMMA NextIInvOfSetup ==
  ASSUME SetupInv, [ZoneSetupNext]_setupSpecVars
  PROVE  IInv' /\ rrsets \subseteq rrsets'
BY SetupSteps, NextIInv, ServersKeepSets, RegisterKeepsIInv DEF SetupInv

\* zone-register between two of its statements.
LEMMA RegisterVars ==
  ASSUME SetupInv, NEW t \in Registration, RegisterTop(t)
  PROVE  /\ topAt' \in [Registration -> TopAt] /\ topRRset' \in [Registration -> Nat]
         /\ \A u \in Registration \ {t} : topAt'[u] = topAt[u] /\ topRRset'[u] = topRRset[u]
         /\ topAt'[t] = "insertRR" => IsIdOf(topRRset[t], t.cert)'
         /\ cutOff' \subseteq Zone
<1> USE DEF SetupInv, SetupVarsInv
<1>1. CASE RegisterTopRRSet(t)
  <2>1. PICK id : id = NewId(rrsets)
    OBVIOUS
  <2>2. id \in Nat /\ topRRset' = [topRRset EXCEPT ![t] = id]
    BY <1>1, <2>1, NewRRSetId DEF IInv, RegisterTopRRSet
  <2>3. IsIdOf(id, t.cert)'
    BY <1>1, <2>1, RegistrationIs, InsertRRSetSound DEF IInv, RegisterTopRRSet, Class
  <2>4. QED
    BY <1>1, <2>2, <2>3 DEF RegisterTopRRSet, TopAt, IsIdOf
<1>2. CASE RegisterTopRR(t) \/ RefusedZone(t) \/ RegisterCrash(t)
  <2>1. EndRegister(t) /\ (cutOff' = cutOff \/ cutOff' = cutOff \cup {t.zone})
    BY <1>2 DEF RegisterTopRR, RefusedZone, RegisterCrash
  <2>2. QED
    BY <2>1, RegistrationIs DEF EndRegister, TopAt
<1>3. CASE LookupZone(t)
  BY <1>3 DEF LookupZone, EndRegister, TopAt
<1>4. CASE RegisterZone(t) \/ StartRegister(t)
  BY <1>4 DEF RegisterZone, StartRegister, TopAt
<1>5. QED
  BY <1>1, <1>2, <1>3, <1>4 DEF RegisterTop

LEMMA NextSetupInv == SetupInv /\ [ZoneSetupNext]_setupSpecVars => SetupInv'
<1> SUFFICES ASSUME SetupInv, [ZoneSetupNext]_setupSpecVars PROVE SetupInv'
  OBVIOUS
<1>1. IInv' /\ rrsets \subseteq rrsets'
  BY NextIInvOfSetup
<1>2. ASSUME UNCHANGED <<topAt, topRRset>>
      PROVE  RegisterInv'
  <2>1. \A t \in Registration : IsIdOf(topRRset[t], t.cert) => IsIdOf(topRRset[t], t.cert)'
    BY <1>1, <1>2 DEF IsIdOf
  <2>2. QED
    BY <1>2, <2>1 DEF SetupInv, RegisterInv
<1>3. ASSUME NEW z \in Server, NEW file \in DbFile, StartServer(z, file)
      PROVE  SetupVarsInv' /\ UNCHANGED <<topAt, topRRset>>
  <2>1. ZoneId(file, z) \in Nat
    BY ZoneIdOf DEF SetupInv, SetupVarsInv
  <2>2. QED
    BY <1>3, <2>1 DEF StartServer, SetupInv, SetupVarsInv, setupVars
<1>4. ASSUME NEW z \in Server, RunServer(z) \/ EndServer(z)
      PROVE  SetupVarsInv' /\ UNCHANGED <<topAt, topRRset>>
  BY <1>4 DEF RunServer, EndServer, SetupInv, SetupVarsInv, setupVars
<1>5. ASSUME NEW z \in Zone, CreateZone(z)
      PROVE  SetupVarsInv' /\ UNCHANGED <<topAt, topRRset>>
  <2>1. z \in Name
    BY ZoneToolsAssumption
  <2>2. CASE StartCreate(z) \/ CreateCrash(z)
    BY <1>5, <2>2, ProductsAre DEF CreateZone, StartCreate, CreateCrash, SetupInv, SetupVarsInv
  <2>3. CASE MakeProduct(z)
    <3>1. createAt[z] \in 1 .. 6
      BY <2>3, ProductsAre DEF MakeProduct, SetupInv, SetupVarsInv
    <3>2. <<z, Products[createAt[z]]>> \in Name \X Product
      BY <2>1, <3>1, ProductsAre
    <3>3. createAt' \in [Zone -> 0 .. Len(Products)]
      BY <2>3, <3>1, ProductsAre DEF MakeProduct, SetupInv, SetupVarsInv
    <3>4. QED
      BY <1>5, <2>3, <3>2, <3>3 DEF CreateZone, MakeProduct, SetupInv, SetupVarsInv
  <2>4. QED
    BY <1>5, <2>2, <2>3 DEF CreateZone
<1>6. ASSUME NEW t \in Registration, RegisterTop(t)
      PROVE  SetupVarsInv' /\ RegisterInv'
  <2>1. /\ topAt' \in [Registration -> TopAt] /\ topRRset' \in [Registration -> Nat]
        /\ \A u \in Registration \ {t} : topAt'[u] = topAt[u] /\ topRRset'[u] = topRRset[u]
        /\ topAt'[t] = "insertRR" => IsIdOf(topRRset[t], t.cert)'
        /\ cutOff' \subseteq Zone
    BY <1>6, RegisterVars
  <2>2. zones' \in [DbFile -> SUBSET ZoneRow] /\ \A file \in DbFile : IsZoneTable(zones'[file])
    <3>1. CASE RegisterZone(t)
      BY <3>1, RegistrationIs, InsertZoneSound DEF RegisterZone, SetupInv, SetupVarsInv
    <3>2. CASE ~RegisterZone(t)
      <4>1. zones' = zones
        BY <1>6, <3>2 DEF RegisterTop, StartRegister, LookupZone, RefusedZone, RegisterTopRRSet,
           RegisterTopRR, RegisterCrash
      <4>2. QED
        BY <4>1 DEF SetupInv, SetupVarsInv
    <3>3. QED
      BY <3>1, <3>2
  <2>3. UNCHANGED <<products, createAt, zoneId>>
    BY <1>6 DEF RegisterTop, StartRegister, LookupZone, RegisterZone, RefusedZone, RegisterTopRRSet,
       RegisterTopRR, RegisterCrash
  <2>4. SetupVarsInv'
    BY <2>1, <2>2, <2>3 DEF SetupInv, SetupVarsInv
  <2>5. RegisterInv'
    <3>1. ASSUME NEW u \in Registration \ {t}, IsIdOf(topRRset[u], u.cert)
          PROVE  IsIdOf(topRRset[u], u.cert)'
      BY <1>1, <2>1, <3>1 DEF IsIdOf
    <3>2. QED
      BY <2>1, <3>1 DEF SetupInv, RegisterInv
  <2>6. QED
    BY <2>4, <2>5
<1>7. ASSUME NEW d \in Delegation, DelegateZone(d)
      PROVE  SetupVarsInv' /\ UNCHANGED <<topAt, topRRset>>
  <2>1. CASE StartDelegate(d)
    <3>1. SubZone(d) \in Name
      <4>1. d.sub.zone \in Name /\ d.sub.label \in Name
        BY ZoneRegisterAssumption, RRSetKeyAssumption
      <4>2. QED
        BY <4>1 DEF SubZone, Name
    <3>2. <<SubZone(d), "PKS-FILE">> \in Name \X Product
      BY <3>1, ProductsAre
    <3>3. UNCHANGED zoneId
      BY <1>7, <2>1 DEF DelegateZone, ToolCrash
    <3>4. QED
      BY <2>1, <3>2, <3>3 DEF StartDelegate, SetupInv, SetupVarsInv
  <2>2. CASE ~StartDelegate(d)
    BY <1>7, <2>2 DEF DelegateZone, DelegateStep, setupVars, SetupInv, SetupVarsInv
  <2>3. QED
    BY <2>1, <2>2
<1>8. CASE UNCHANGED setupSpecVars
  <2>1. UNCHANGED setupVars /\ zoneId' = zoneId
    BY <1>8 DEF setupSpecVars
  <2>2. SetupVarsInv'
    BY <2>1 DEF setupVars, SetupInv, SetupVarsInv
  <2>3. RegisterInv'
    BY <1>2, <2>1 DEF setupVars
  <2>4. QED
    BY <1>1, <2>2, <2>3 DEF SetupInv
<1>9. QED
  BY <1>1, <1>2, <1>3, <1>4, <1>5, <1>6, <1>7, <1>8 DEF ZoneSetupNext, SetupInv

THEOREM SetupSpecInv == ZoneSetupSpec => []SetupInv
BY InitSetupInv, NextSetupInv, PTL DEF ZoneSetupSpec

\* Type correctness of the four tools and the servers together, for all zones,
\* calls, products and updates.
THEOREM SetupTypeCorrect == ZoneSetupSpec => []SetupTypeOK
<1>1. SetupInv => SetupTypeOK
  BY SoundTablesType DEF SetupInv, IInv, ServersInv, ToolsInv, TypeOK, SetupVarsInv, SetupTypeOK
<1>2. QED
  BY <1>1, SetupSpecInv, PTL

-----------------------------------------------------------------------------
(***************************************************************************)
(* Servers that are started without --dbfile: they look up the id of their   *)
(* zone in the file they work on.  With another file a server would run on   *)
(* an id that is not its zone's.                                             *)
(***************************************************************************)
OneDatabase == DbFile = {DefaultFile}

HasZone(name) == \E r \in zones[DefaultFile] : r.name = name

\* Whoever writes does so for a zone of the table: servers and tools have
\* looked, and no statement deletes a zone.
ZonesInv ==
  /\ \A z \in Server : pc[z] # "down" =>
       \E r \in zones[DefaultFile] : r.name = z /\ r.id = zoneId[z]
  /\ \A d \in Delegation : at[d] # 0 => HasZone(d.sub.zone)
  /\ \A t \in Registration : topAt[t] \in {"insertRRSet", "insertRR"} => HasZone(t.zone)
  /\ EveryRRSetHasItsZone

LEMMA InitZones == ZoneSetupInit => ZonesInv
BY DEF ZoneSetupInit, ToolInit, SetupInit, ZonesInv, EveryRRSetHasItsZone

LEMMA OnlyRegisterMoves ==
  ASSUME [ZoneSetupNext]_setupSpecVars, \A t \in Registration : ~RegisterTop(t)
  PROVE  UNCHANGED <<topAt, topRRset, cutOff, zones>>
<1>1. ASSUME NEW z \in Server, (\E file \in DbFile : StartServer(z, file))
                                 \/ RunServer(z) \/ EndServer(z)
      PROVE  UNCHANGED <<topAt, topRRset, cutOff, zones>>
  BY <1>1 DEF StartServer, RunServer, EndServer, setupVars
<1>2. ASSUME NEW z \in Zone, CreateZone(z)
      PROVE  UNCHANGED <<topAt, topRRset, cutOff, zones>>
  BY <1>2 DEF CreateZone, StartCreate, MakeProduct, CreateCrash
<1>3. ASSUME NEW d \in Delegation, DelegateZone(d)
      PROVE  UNCHANGED <<topAt, topRRset, cutOff, zones>>
  BY <1>3 DEF DelegateZone, StartDelegate, DelegateStep, setupVars
<1>4. CASE UNCHANGED setupSpecVars
  BY <1>4 DEF setupSpecVars, setupVars
<1>5. QED
  BY <1>1, <1>2, <1>3, <1>4 DEF ZoneSetupNext

LEMMA ZonesGrow ==
  ASSUME SetupInv, [ZoneSetupNext]_setupSpecVars
  PROVE  /\ zones[DefaultFile] \subseteq zones'[DefaultFile]
         /\ (\A t \in Registration : ~RegisterZone(t)) => zones' = zones
         /\ \A name : HasZone(name) => HasZone(name)'
<1>1. ASSUME NEW t \in Registration, RegisterZone(t)
      PROVE  zones[DefaultFile] \subseteq zones'[DefaultFile]
  BY <1>1, RegistrationIs, InsertZoneSound, ZoneToolsAssumption
     DEF RegisterZone, SetupInv, SetupVarsInv
<1>2. ASSUME \A t \in Registration : ~RegisterZone(t)
      PROVE  zones' = zones
  <2>1. ASSUME NEW t \in Registration, RegisterTop(t)
        PROVE  zones' = zones
    BY <1>2, <2>1 DEF RegisterTop, StartRegister, LookupZone, RefusedZone, RegisterTopRRSet,
       RegisterTopRR, RegisterCrash
  <2>2. QED
    BY <2>1, OnlyRegisterMoves
<1>3. zones[DefaultFile] \subseteq zones'[DefaultFile]
  BY <1>1, <1>2
<1>4. QED
  BY <1>2, <1>3 DEF HasZone

\* A new row of rrsets is for the zone of the process that inserts it.
LEMMA InsertedRowsHaveZone ==
  ASSUME NEW key, NEW class, InsertRRSet(key, class)
  PROVE  \A s \in rrsets' : s \in rrsets \/ s.key = key
<1> DEFINE new == [id |-> NewId(rrsets), key |-> key, class |-> class]
<1>1. rrsets' = rrsets \cup {new} /\ new.key = key
  BY DEF InsertRRSet
<1> HIDE DEF new
<1>2. QED
  BY <1>1

LEMMA StepRows ==
  ASSUME SetupInv, [ZoneSetupNext]_setupSpecVars, NEW s \in rrsets', s \notin rrsets
  PROVE  \/ \E z \in Server : pc[z] = "insertRRSet" /\ s.key = request[z].key
         \/ \E d \in Delegation : at[d] # 0 /\ s.key \in {d.cert, d.sub}
         \/ \E t \in Registration : RegisterTop(t) /\ topAt[t] = "insertRRSet" /\ s.key = t.cert
<1>1. ASSUME NEW z \in Server, ServerStep(z)
      PROVE  pc[z] = "insertRRSet" /\ s.key = request[z].key
  <2>1. InsertMissingRRSet(z)
    BY <1>1 DEF ServerStep, LookupRRSet, LookupRR, InsertNewRR, InsertRR, RemoveRR, DeleteRR,
       RemoveRelatedRRs, DeleteRRsOf
  <2>2. QED
    BY <2>1, InsertedRowsHaveZone DEF InsertMissingRRSet
<1>2. ASSUME NEW y \in Server,
             \/ \E r \in Request : ReceiveUpdate(y, r)
             \/ AnswerUpdate(y) \/ StatementFails(y) \/ Crash(y) \/ Restart(y)
      PROVE  FALSE
  BY <1>2, OtherStepKeepsTables DEF SetupInv, IInv
<1>3. ASSUME NEW d \in Delegation, ToolStep(d)
      PROVE  at[d] # 0 /\ s.key \in {d.cert, d.sub}
  <2>1. RegisterRRSet(d)
    BY <1>3 DEF ToolStep, StartTool, RegisterRR, InsertRR, RefusedRRSet
  <2>2. at[d] \in 1 .. 2
    BY <2>1, RRSetsOfIs DEF RegisterRRSet
  <2>3. s.key = RRSetsOf(d)[at[d]]
    BY <2>1, InsertedRowsHaveZone DEF RegisterRRSet
  <2>4. QED
    BY <2>2, <2>3, RRSetsOfIs
<1>4. ASSUME NEW d \in Delegation, ToolCrash(d)
      PROVE  FALSE
  BY <1>4 DEF ToolCrash
<1>5. ASSUME NEW t \in Registration, RegisterTop(t)
      PROVE  topAt[t] = "insertRRSet" /\ s.key = t.cert
  <2>1. RegisterTopRRSet(t)
    BY <1>5 DEF RegisterTop, LookupZone, RegisterZone, RefusedZone, RegisterTopRR, InsertRR, RegisterCrash
  <2>2. QED
    BY <2>1, InsertedRowsHaveZone DEF RegisterTopRRSet
<1>6. CASE UNCHANGED vars
  BY <1>6 DEF vars
<1>7. CASE [Next]_vars
  BY <1>1, <1>2, <1>3, <1>4, <1>6, <1>7 DEF Next
<1>8. QED
  BY <1>5, <1>7, SetupSteps

\* A run of zone-delegate gets to its statements from its checks only.
LEMMA DelegationStarts ==
  ASSUME SetupInv, [ZoneSetupNext]_setupSpecVars, NEW d \in Delegation, at[d] = 0, at'[d] # 0
  PROVE  StartDelegate(d) /\ ZoneId(DefaultFile, d.sub.zone) # 0
<1>1. ASSUME NEW e \in Delegation, DelegateZone(e)
      PROVE  StartDelegate(d) /\ ZoneId(DefaultFile, d.sub.zone) # 0
  <2>1. StartDelegate(e)
    <3>1. e # d /\ ~StartDelegate(e) => at'[d] = at[d]
      BY <1>1 DEF DelegateZone, DelegateStep, RegisterRRSet, RegisterRR, RefusedRRSet,
         ToolCrash, SetupInv, IInv, ToolsInv
    <3>2. DOMAIN RRSetsOf(d) = 1 .. 2 /\ Len(RRSetsOf(d)) = 2 /\ DOMAIN RRsOf(d) = 1 .. 1 + Len(d.nsDatas)
      BY RRSetsOfIs, RRsOfIs
    <3>3. e = d /\ ~StartDelegate(e) => FALSE
      BY <1>1, <3>2 DEF DelegateZone, DelegateStep, RegisterRRSet, RegisterRR,
         RefusedRRSet, ToolCrash, SetupInv, IInv, ToolsInv
    <3>4. QED
      BY <3>1, <3>3
  <2>2. ZoneId(DefaultFile, e.sub.zone) # 0 /\ StartTool(e)
    BY <2>1 DEF StartDelegate
  <2>3. e = d
    BY <2>2 DEF StartTool, SetupInv, IInv, ToolsInv
  <2>4. QED
    BY <2>1, <2>2, <2>3
<1>2. CASE \A e \in Delegation : ~DelegateZone(e)
  <2>1. ASSUME NEW z \in Server, (\E file \in DbFile : StartServer(z, file))
                                   \/ RunServer(z) \/ EndServer(z)
        PROVE  at' = at
    BY <2>1 DEF StartServer, RunServer, EndServer, Restart, ReceiveUpdate, ServerStep,
       AnswerUpdate, Crash, StatementFails, Dies, toolVars
  <2>2. ASSUME NEW z \in Zone, CreateZone(z)
        PROVE  at' = at
    BY <2>2 DEF CreateZone, vars, toolVars
  <2>3. ASSUME NEW t \in Registration, RegisterTop(t)
        PROVE  at' = at
    BY <2>3 DEF RegisterTop, toolVars
  <2>4. CASE UNCHANGED setupSpecVars
    BY <2>4 DEF setupSpecVars, vars, toolVars
  <2>5. QED
    BY <1>2, <2>1, <2>2, <2>3, <2>4 DEF ZoneSetupNext
<1>3. QED
  BY <1>1, <1>2

LEMMA NextZones ==
  ASSUME OneDatabase, SetupInv, SetupInv', ZonesInv, [ZoneSetupNext]_setupSpecVars
  PROVE  ZonesInv'
<1>1. zones[DefaultFile] \subseteq zones'[DefaultFile] /\ \A name : HasZone(name) => HasZone(name)'
  BY ZonesGrow
<1>2. EveryRRSetHasItsZone'
  <2>1. ASSUME NEW s \in rrsets'
        PROVE  HasZone(s.key.zone)'
    <3>1. CASE s \in rrsets
      BY <1>1, <3>1 DEF ZonesInv, EveryRRSetHasItsZone, HasZone
    <3>2. ASSUME NEW z \in Server, pc[z] = "insertRRSet", s.key = request[z].key
          PROVE  HasZone(s.key.zone)
      BY <3>2 DEF ZonesInv, HasZone, SetupInv, IInv, ServersInv, ServerInv
    <3>3. ASSUME NEW d \in Delegation, at[d] # 0, s.key \in {d.cert, d.sub}
          PROVE  HasZone(s.key.zone)
      BY <3>3, ZoneRegisterAssumption DEF ZonesInv
    <3>4. ASSUME NEW t \in Registration, topAt[t] = "insertRRSet", s.key = t.cert
          PROVE  HasZone(s.key.zone)
      BY <3>4, RegistrationIs DEF ZonesInv
    <3>5. QED
      BY <1>1, <3>1, <3>2, <3>3, <3>4, StepRows
  <2>2. QED
    BY <2>1 DEF EveryRRSetHasItsZone, HasZone
<1>3. ASSUME NEW z \in Server, pc'[z] # "down"
      PROVE  \E r \in zones'[DefaultFile] : r.name = z /\ r.id = zoneId'[z]
  <2>1. CASE pc[z] # "down" /\ zoneId'[z] = zoneId[z]
    BY <1>1, <2>1 DEF ZonesInv
  <2>2. ASSUME NEW y \in Server, NEW file \in DbFile, StartServer(y, file)
        PROVE  \/ pc[z] # "down" /\ zoneId'[z] = zoneId[z]
               \/ \E r \in zones[DefaultFile] : r.name = z /\ r.id = zoneId'[z]
    <3>1. file = DefaultFile
      BY <2>2 DEF OneDatabase
    <3>2. CASE y = z
      <4>1. ZoneId(DefaultFile, z) # 0 /\ zoneId'[z] = ZoneId(DefaultFile, z)
        BY <2>2, <3>1, <3>2 DEF StartServer, MayRun, SetupInv, SetupVarsInv
      <4>2. DefaultFile \in DbFile /\ IsZoneTable(zones[DefaultFile])
        BY ZoneToolsAssumption DEF SetupInv, SetupVarsInv
      <4>3. \E r \in zones[DefaultFile] : r.name = z /\ r.id = ZoneId(DefaultFile, z)
        BY <4>1, <4>2, ZoneIdOf
      <4>4. QED
        BY <4>1, <4>3
    <3>3. CASE y # z
      BY <1>3, <2>2, <3>3, OneServerMoves DEF StartServer, SetupInv, SetupVarsInv, IInv
    <3>4. QED
      BY <3>2, <3>3
  <2>3. ASSUME NEW y \in Server, RunServer(y)
        PROVE  pc[z] # "down" /\ zoneId'[z] = zoneId[z]
    <3>1. pc[y] # "down"
      BY <2>3 DEF RunServer, ReceiveUpdate, Receive, ServerStep, LookupRRSet, LookupRR,
         InsertMissingRRSet, InsertNewRR, RemoveRR, RemoveRelatedRRs, AnswerUpdate, Answered
    <3>2. y # z => pc'[z] = pc[z]
      BY <2>3, OneServerMoves DEF RunServer, SetupInv, IInv
    <3>3. QED
      BY <1>3, <2>3, <3>1, <3>2 DEF RunServer
  <2>4. ASSUME NEW y \in Server, EndServer(y)
        PROVE  pc[z] # "down" /\ zoneId'[z] = zoneId[z]
    <3>1. pc'[y] = "down"
      BY <2>4 DEF EndServer, Crash, StatementFails, Dies, Leave, GoTo, SetupInv, IInv, ServersInv
    <3>2. y # z
      BY <1>3, <3>1
    <3>3. pc'[z] = pc[z]
      BY <2>4, <3>2, OneServerMoves DEF EndServer, SetupInv, IInv
    <3>4. QED
      BY <1>3, <2>4, <3>2, <3>3 DEF EndServer, SetupInv, SetupVarsInv
  <2>5. ASSUME UNCHANGED <<pc, zoneId>>
        PROVE  pc[z] # "down" /\ zoneId'[z] = zoneId[z]
    BY <1>3, <2>5
  <2>6. ASSUME NEW d \in Delegation, DelegateZone(d)
        PROVE  UNCHANGED <<pc, zoneId>>
    BY <2>6 DEF DelegateZone, ToolCrash, serverVars
  <2>7. ASSUME NEW x \in Zone, CreateZone(x)
        PROVE  UNCHANGED <<pc, zoneId>>
    BY <2>7 DEF CreateZone, vars, serverVars
  <2>8. ASSUME NEW t \in Registration, RegisterTop(t)
        PROVE  UNCHANGED <<pc, zoneId>>
    BY <2>8 DEF RegisterTop, serverVars
  <2>9. CASE UNCHANGED setupSpecVars
    BY <2>5, <2>9, <2>1 DEF setupSpecVars, vars, serverVars
  <2>10. QED
    BY <1>1, <2>1, <2>2, <2>3, <2>4, <2>5, <2>6, <2>7, <2>8, <2>9 DEF ZoneSetupNext
<1>4. ASSUME NEW d \in Delegation, at'[d] # 0
      PROVE  HasZone(d.sub.zone)'
  <2>1. CASE at[d] # 0
    BY <1>1, <2>1 DEF ZonesInv
  <2>2. CASE at[d] = 0
    <3>1. ZoneId(DefaultFile, d.sub.zone) # 0
      BY <1>4, <2>2, DelegationStarts
    <3>2. DefaultFile \in DbFile /\ IsZoneTable(zones[DefaultFile])
      BY ZoneToolsAssumption DEF SetupInv, SetupVarsInv
    <3>3. HasZone(d.sub.zone)
      BY <3>1, <3>2, ZoneIdOf DEF HasZone
    <3>4. QED
      BY <1>1, <3>3
  <2>3. QED
    BY <2>1, <2>2
<1>5. ASSUME NEW t \in Registration, topAt'[t] \in {"insertRRSet", "insertRR"}
      PROVE  HasZone(t.zone)'
  <2>1. CASE topAt[t] \in {"insertRRSet", "insertRR"}
    BY <1>1, <2>1 DEF ZonesInv
  <2>2. CASE topAt[t] \notin {"insertRRSet", "insertRR"}
    <3>1. RegisterZone(t)
      <4>1. PICK u \in Registration : RegisterTop(u)
        <5>1. topAt' # topAt
          BY <1>5, <2>2
        <5>2. QED
          BY <5>1, OnlyRegisterMoves
      <4>2. u = t
        BY <1>5, <2>2, <4>1, RegisterVars
      <4>3. QED
        BY <1>5, <2>2, <4>1, <4>2 DEF RegisterTop, StartRegister, LookupZone, RefusedZone, EndRegister,
           RegisterTopRRSet, RegisterTopRR, RegisterCrash, SetupInv, SetupVarsInv
    <3>2. QED
      BY <3>1, RegistrationIs, InsertZoneSound DEF RegisterZone, SetupInv, SetupVarsInv, HasZone
  <2>3. QED
    BY <2>1, <2>2
<1>6. QED
  BY <1>2, <1>3, <1>4, <1>5 DEF ZonesInv

LEMMA SpecZones == OneDatabase /\ ZoneSetupSpec => [](SetupInv /\ ZonesInv)
<1>1. ASSUME OneDatabase
      PROVE  SetupInv /\ SetupInv' /\ ZonesInv /\ [ZoneSetupNext]_setupSpecVars => ZonesInv'
  BY <1>1, NextZones
<1>2. CASE OneDatabase
  <2>1. SetupInv /\ SetupInv' /\ ZonesInv /\ [ZoneSetupNext]_setupSpecVars => ZonesInv'
    BY <1>1, <1>2
  <2>2. QED
    BY <2>1, InitZones, SetupSpecInv, PTL DEF ZoneSetupSpec
<1>3. QED
  BY <1>2

\* The FOREIGN KEY of rrsets, which SQLite does not enforce here: a row is only
\* inserted by a process that has found, or entered, the row's zone.
THEOREM RowsHaveZones == OneDatabase /\ ZoneSetupSpec => []EveryRRSetHasItsZone
BY SpecZones, PTL DEF ZonesInv

\* NameServer::run looks up the zone's id once; it stays the id of that zone and
\* of no other, whatever zone-register enters later.
THEOREM ServerIdStays == OneDatabase /\ ZoneSetupSpec => []ServerIdIsItsZone
<1>1. SetupInv /\ ZonesInv => ServerIdIsItsZone
  <2> SUFFICES ASSUME SetupInv, ZonesInv, NEW z \in Server, pc[z] # "down",
                      NEW r \in zones[DefaultFile]
               PROVE  r.id = zoneId[z] <=> r.name = z
    BY DEF ServerIdIsItsZone
  <2>1. PICK q \in zones[DefaultFile] : q.name = z /\ q.id = zoneId[z]
    BY DEF ZonesInv
  <2>2. r.id = q.id \/ r.name = q.name => r = q
    BY ZoneToolsAssumption DEF SetupInv, SetupVarsInv, IsZoneTable
  <2>3. QED
    BY <2>1, <2>2
<1>2. QED
  BY <1>1, SpecZones, PTL

-----------------------------------------------------------------------------
(***************************************************************************)
(* What zone-register writes, for zones that are not there yet, and clients  *)
(* and runs of zone-delegate that leave its certificates alone.             *)
(***************************************************************************)
RegistrationsApart ==
  /\ \A t \in Registration, r \in Request : r.key # t.cert
  /\ \A t \in Registration, d \in Delegation : t.cert # d.cert /\ t.cert # d.sub

ZonesAreNew ==
  \A t \in Registration : \A r \in InitialZones[DefaultFile] : r.name # t.zone

LEMMA RegisterRecords ==
  ASSUME SetupInv, NEW t \in Registration, RegisterTop(t)
  PROVE  /\ \A k, x : HoldsIn(k, x) => HoldsIn(k, x)'
         /\ \A k, x : HoldsIn(k, x)' => HoldsIn(k, x) \/ k = t.cert
         /\ RegisterTopRR(t) => HoldsIn(t.cert, t.certData)'
<1>1. CASE RegisterTopRR(t)
  <2>1. /\ InsertRR(topRRset[t], t.certData) /\ topRRset[t] \in Nat /\ t.certData \in Name
        /\ IsIdOf(topRRset[t], t.cert)
    BY <1>1, RegistrationIs DEF RegisterTopRR, SetupInv, SetupVarsInv, RegisterInv
  <2>2. QED
    BY <2>1, InsertHolds, InsertKeepsRecords, InsertAddsRecord DEF SetupInv, IInv
<1>2. CASE RegisterTopRRSet(t)
  <2>1. \A k, x : HoldsIn(k, x)' <=> HoldsIn(k, x)
    BY <1>2, NewSetHoldsNothing DEF RegisterTopRRSet, SetupInv, IInv
  <2>2. ~RegisterTopRR(t)
    BY <1>2 DEF RegisterTopRRSet, RegisterTopRR
  <2>3. QED
    BY <2>1, <2>2
<1>3. CASE ~RegisterTopRR(t) /\ ~RegisterTopRRSet(t)
  <2>1. rrsets' = rrsets /\ rrs' = rrs
    BY <1>3 DEF RegisterTop, LookupZone, RegisterZone, RefusedZone, RegisterCrash
  <2>2. QED
    BY <1>3, <2>1 DEF HoldsIn
<1>4. QED
  BY <1>1, <1>2, <1>3

\* zone-register deletes no row of another set, so a server still finds the
\* row it is about to delete.
LEMMA RegisterKeepsRemovals ==
  ASSUME RegistrationsApart, SetupInv, RemovalsInv, NEW t \in Registration, RegisterTop(t)
  PROVE  RemovalsInv'
<1>1. UNCHANGED serverVars
  BY DEF RegisterTop
<1>2. CASE RegisterTopRR(t)
  <2>1. InsertRR(topRRset[t], t.certData) /\ IsIdOf(topRRset[t], t.cert)
    BY <1>2 DEF RegisterTopRR, SetupInv, RegisterInv
  <2>2. ASSUME NEW z \in Server, pc[z] = "removeRR", NEW r \in RowsOf(rrsetIdOfRR[z])
        PROVE  r \in RowsOf(rrsetIdOfRR[z])'
    <3>1. IsIdOf(rrsetIdOfRR[z], request[z].key) /\ request[z] \in Request
      BY <2>2 DEF SetupInv, IInv, ServersInv, ServerInv, Located
    <3>2. rrsetIdOfRR[z] # topRRset[t]
      BY <2>1, <3>1, OnlyOneSetPerId DEF SetupInv, IInv, RegistrationsApart
    <3>3. r \in rrs /\ r.rrset # topRRset[t]
      BY <2>2, <3>2 DEF RowsOf
    <3>4. r \in rrs'
      BY <2>1, <3>3 DEF InsertRR, SelectRR
    <3>5. QED
      BY <1>1, <2>2, <3>4 DEF RowsOf, serverVars
  <2>3. QED
    BY <1>1, <2>2 DEF RemovalsInv, RemovalInv, serverVars
<1>3. CASE ~RegisterTopRR(t)
  <2>1. rrs' = rrs
    BY <1>3 DEF RegisterTop, RegisterTopRRSet, InsertRRSet, LookupZone, RegisterZone, RefusedZone,
       RegisterCrash
  <2>2. QED
    BY <1>1, <2>1 DEF RemovalsInv, RemovalInv, RowsOf, serverVars
<1>4. QED
  BY <1>2, <1>3

LEMMA NextRemovalsOfSetup ==
  ASSUME NoRemovalOfDelegated, RegistrationsApart, SetupInv, SetupInv', RemovalsInv,
         [ZoneSetupNext]_setupSpecVars
  PROVE  RemovalsInv'
BY SetupSteps, NextRemovals, RegisterKeepsRemovals DEF SetupInv

\* What no client may update stays: servers and zone-delegate delete nothing of it.
LEMMA RecordsStay ==
  ASSUME SetupInv, SetupInv', RemovalsInv, [ZoneSetupNext]_setupSpecVars,
         NEW key, \A r \in Request : r.key # key, NEW data, HoldsIn(key, data)
  PROVE  HoldsIn(key, data)'
<1>1. ASSUME NEW y \in Server, ServerStep(y)
      PROVE  HoldsIn(key, data)'
  <2>1. request[y] \in Request
    BY DEF SetupInv, IInv
  <2>2. QED
    BY <1>1, <2>1, ServerKeepsCertificates DEF SetupInv, IInv, RemovalsInv
<1>2. ASSUME UNCHANGED <<rrsets, rrs>>
      PROVE  HoldsIn(key, data)'
  BY <1>2 DEF HoldsIn
<1>3. ASSUME NEW y \in Server,
             \/ \E r \in Request : ReceiveUpdate(y, r)
             \/ AnswerUpdate(y) \/ StatementFails(y) \/ Crash(y) \/ Restart(y)
      PROVE  HoldsIn(key, data)'
  BY <1>2, <1>3, OtherStepKeepsTables DEF SetupInv, IInv
<1>4. ASSUME NEW d \in Delegation, ToolStep(d)
      PROVE  HoldsIn(key, data)'
  <2>1. CASE RegisterRR(d)
    BY <2>1, ToolWrites, InsertKeepsRecords DEF SetupInv, IInv
  <2>2. CASE RegisterRRSet(d)
    BY <2>2, NewSetHoldsNothing DEF RegisterRRSet, SetupInv, IInv
  <2>3. CASE StartTool(d) \/ RefusedRRSet(d)
    BY <1>2, <2>3 DEF StartTool, RefusedRRSet
  <2>4. QED
    BY <1>4, <2>1, <2>2, <2>3 DEF ToolStep
<1>5. ASSUME NEW d \in Delegation, ToolCrash(d)
      PROVE  HoldsIn(key, data)'
  BY <1>2, <1>5 DEF ToolCrash
<1>6. CASE UNCHANGED vars
  BY <1>2, <1>6 DEF vars
<1>7. CASE [Next]_vars
  BY <1>1, <1>3, <1>4, <1>5, <1>6, <1>7 DEF Next
<1>8. QED
  BY <1>7, SetupSteps, RegisterRecords

-----------------------------------------------------------------------------
\* One call of zone-register has entered a zone, and its certificate is the
\* zone's; the others have found the zone there, or been refused.
Entered(t) == topAt[t] \in {"insertRRSet", "insertRR"}

RegistrationsInv ==
  /\ \A t \in Registration : Entered(t) => HasZone(t.zone)
  /\ \A t, u \in Registration : t.zone = u.zone /\ Entered(t) /\ Entered(u) => t = u
  /\ \A t \in Registration : \A s \in rrsets : s.key = t.cert => HasZone(t.zone)
  /\ \A t, u \in Registration : t.zone = u.zone =>
       \A s, q \in rrsets : s.key = t.cert /\ q.key = u.cert => t.cert = u.cert
  /\ \A t, u \in Registration : t.zone = u.zone /\ topAt[t] = "insertRRSet" =>
       \A s \in rrsets : s.key # u.cert
  /\ \A t \in Registration : HasZone(t.zone) =>
       \/ \E u \in Registration : u.zone = t.zone /\ (Certified(u) \/ Entered(u))
       \/ t.zone \in cutOff

LEMMA InitRegistrations == ZonesAreNew /\ ZoneSetupInit => RegistrationsInv
BY DEF ZonesAreNew, ZoneSetupInit, SetupInit, RegistrationsInv, Entered, HasZone

\* The steps of the others: no row of a zone's certificate, no zone, no call.
LEMMA OthersKeepRegistrations ==
  ASSUME RegistrationsApart, SetupInv, SetupInv', RemovalsInv, RegistrationsInv,
         [ZoneSetupNext]_setupSpecVars, \A t \in Registration : ~RegisterTop(t)
  PROVE  RegistrationsInv'
<1>1. UNCHANGED <<topAt, topRRset, cutOff>>
  BY OnlyRegisterMoves
<1>2. zones' = zones
  BY OnlyRegisterMoves
<1>3. ASSUME NEW t \in Registration, NEW s \in rrsets', s.key = t.cert
      PROVE  s \in rrsets
  <2>1. ASSUME NEW z \in Server
        PROVE  s.key # request[z].key
    BY <1>3, <2>1 DEF RegistrationsApart, SetupInv, IInv
  <2>2. \A d \in Delegation : s.key \notin {d.cert, d.sub}
    BY <1>3 DEF RegistrationsApart
  <2>3. QED
    BY <2>1, <2>2, StepRows
<1>4. \A t \in Registration : Certified(t) => Certified(t)'
  BY RecordsStay DEF RegistrationsApart, Certified
<1>5. QED
  BY <1>1, <1>2, <1>3, <1>4 DEF RegistrationsInv, Entered, HasZone

\* A call enters its zone when no other has.
LEMMA EnteringKeepsRegistrations ==
  ASSUME SetupInv, RegistrationsInv, NEW t \in Registration, RegisterZone(t), RegisterTop(t)
  PROVE  RegistrationsInv'
<1>1. /\ \A r \in zones'[DefaultFile] : r \in zones[DefaultFile] \/ r.name = t.zone
      /\ zones[DefaultFile] \subseteq zones'[DefaultFile]
      /\ ~HasZone(t.zone) /\ HasZone(t.zone)'
  BY RegistrationIs, InsertZoneSound, ZoneToolsAssumption DEF RegisterZone, SetupInv, SetupVarsInv, HasZone
<1>2. /\ \A name : HasZone(name) => HasZone(name)'
      /\ \A name : HasZone(name)' => HasZone(name) \/ name = t.zone
  BY <1>1 DEF HasZone
<1>3. rrsets' = rrsets /\ rrs' = rrs /\ cutOff' = cutOff
  BY DEF RegisterZone
<1>4. topAt'[t] = "insertRRSet" /\ \A u \in Registration \ {t} : topAt'[u] = topAt[u]
  BY DEF RegisterZone, SetupInv, SetupVarsInv
<1>5. \A u \in Registration : u.zone = t.zone => ~Entered(u)
  BY <1>1 DEF RegistrationsInv
<1>6. \A u \in Registration : u.zone = t.zone => \A s \in rrsets : s.key # u.cert
  BY <1>1 DEF RegistrationsInv
<1>7. \A u \in Registration : Certified(u) => Certified(u)'
  BY <1>3 DEF Certified, HoldsIn
<1>8. \A u \in Registration : u.zone # t.zone => (Entered(u)' <=> Entered(u))
  BY <1>4 DEF Entered
<1>9. Entered(t)'
  BY <1>4 DEF Entered
<1>10. \A u \in Registration : u.zone = t.zone /\ Entered(u)' => u = t
  BY <1>4, <1>5 DEF Entered
<1>11. \A u \in Registration : Entered(u)' => HasZone(u.zone)'
  BY <1>2, <1>8, <1>1 DEF RegistrationsInv
<1>12. \A u, v \in Registration : u.zone = v.zone /\ Entered(u)' /\ Entered(v)' => u = v
  BY <1>8, <1>10 DEF RegistrationsInv
<1>13. \A u, v \in Registration : u.zone = v.zone /\ topAt'[u] = "insertRRSet" =>
         \A s \in rrsets' : s.key # v.cert
  BY <1>3, <1>4, <1>6 DEF RegistrationsInv
<1>14. \A u \in Registration : HasZone(u.zone)' =>
         \/ \E v \in Registration : v.zone = u.zone /\ (Certified(v)' \/ Entered(v)')
         \/ u.zone \in cutOff'
  BY <1>2, <1>3, <1>7, <1>8, <1>9 DEF RegistrationsInv
<1>15. \A u \in Registration : \A s \in rrsets' : s.key = u.cert => HasZone(u.zone)'
  BY <1>2, <1>3 DEF RegistrationsInv
<1>16. QED
  BY <1>3, <1>11, <1>12, <1>13, <1>14, <1>15 DEF RegistrationsInv

\* It then inserts the row for the zone's only certificate.
LEMMA InsertingKeepsRegistrations ==
  ASSUME SetupInv, RegistrationsInv, NEW t \in Registration, RegisterTopRRSet(t), RegisterTop(t)
  PROVE  RegistrationsInv'
<1>1. zones' = zones /\ cutOff' = cutOff
  BY DEF RegisterTopRRSet
<1>2. topAt'[t] = "insertRR" /\ \A u \in Registration \ {t} : topAt'[u] = topAt[u]
  BY DEF RegisterTopRRSet, SetupInv, SetupVarsInv
<1>3. \A s \in rrsets' : s \in rrsets \/ s.key = t.cert
  BY InsertedRowsHaveZone DEF RegisterTopRRSet
<1>4. \A u \in Registration : Certified(u) => Certified(u)'
  BY RegisterRecords DEF Certified
<1>5. topAt[t] = "insertRRSet" /\ Entered(t) /\ HasZone(t.zone)
  BY DEF RegisterTopRRSet, RegistrationsInv, Entered
<1>6. \A u \in Registration : Entered(u)' <=> Entered(u)
  BY <1>2, <1>5 DEF Entered
<1>7. \A u \in Registration : u.cert = t.cert => u.zone = t.zone
  BY RegistrationIs
<1>8. \A u \in Registration : u.zone = t.zone => topAt'[u] # "insertRRSet"
  BY <1>2, <1>5 DEF RegistrationsInv, Entered
<1>9. \A u, v \in Registration : u.zone = v.zone /\ topAt'[u] = "insertRRSet" =>
        \A s \in rrsets' : s.key # v.cert
  <2> SUFFICES ASSUME NEW u \in Registration, NEW v \in Registration, u.zone = v.zone,
                      topAt'[u] = "insertRRSet", NEW s \in rrsets'
               PROVE  s.key # v.cert
    OBVIOUS
  <2>1. u # t /\ u.zone # t.zone /\ topAt[u] = "insertRRSet"
    BY <1>2, <1>8
  <2>2. QED
    BY <1>3, <1>7, <2>1 DEF RegistrationsInv
<1>10. \A u, v \in Registration : u.zone = v.zone =>
         \A s, q \in rrsets' : s.key = u.cert /\ q.key = v.cert => u.cert = v.cert
  <2> SUFFICES ASSUME NEW u \in Registration, NEW v \in Registration, u.zone = v.zone,
                      NEW s \in rrsets', NEW q \in rrsets', s.key = u.cert, q.key = v.cert
               PROVE  u.cert = v.cert
    OBVIOUS
  <2>1. CASE u.zone # t.zone
    BY <1>3, <1>7, <2>1 DEF RegistrationsInv
  <2>2. CASE u.zone = t.zone
    <3>1. \A p \in rrsets : p.key # u.cert /\ p.key # v.cert
      BY <1>5, <2>2 DEF RegistrationsInv
    <3>2. QED
      BY <1>3, <3>1
  <2>3. QED
    BY <2>1, <2>2
<1>11. \A u \in Registration : \A s \in rrsets' : s.key = u.cert => HasZone(u.zone)'
  BY <1>1, <1>3, <1>5, <1>7 DEF RegistrationsInv, HasZone
<1>12. \A u \in Registration : HasZone(u.zone)' =>
         \/ \E v \in Registration : v.zone = u.zone /\ (Certified(v)' \/ Entered(v)')
         \/ u.zone \in cutOff'
  BY <1>1, <1>4, <1>6 DEF RegistrationsInv, HasZone
<1>13. QED
  BY <1>1, <1>6, <1>9, <1>10, <1>11, <1>12 DEF RegistrationsInv, HasZone

\* It ends with the certificate in place, cut off, or without having entered the
\* zone.
LEMMA EndingKeepsRegistrations ==
  ASSUME SetupInv, RegistrationsInv, NEW t \in Registration, RegisterTop(t),
         rrsets' = rrsets, zones' = zones, topAt'[t] \notin {"insertRRSet", "insertRR"},
         cutOff \subseteq cutOff',
         Entered(t) => Certified(t)' \/ t.zone \in cutOff'
  PROVE  RegistrationsInv'
<1>1. \A u \in Registration \ {t} : topAt'[u] = topAt[u]
  BY RegisterVars
<1>2. \A u \in Registration : Certified(u) => Certified(u)'
  BY RegisterRecords DEF Certified
<1>3. /\ \A u \in Registration : Entered(u)' => Entered(u)
      /\ \A u \in Registration \ {t} : Entered(u) => Entered(u)'
      /\ \A u \in Registration : topAt'[u] = "insertRRSet" => topAt[u] = "insertRRSet"
  BY <1>1 DEF Entered
<1>4. \A u \in Registration : HasZone(u.zone)' =>
        \/ \E v \in Registration : v.zone = u.zone /\ (Certified(v)' \/ Entered(v)')
        \/ u.zone \in cutOff'
  <2> SUFFICES ASSUME NEW u \in Registration, HasZone(u.zone), u.zone \notin cutOff'
               PROVE  \E v \in Registration : v.zone = u.zone /\ (Certified(v)' \/ Entered(v)')
    BY DEF HasZone
  <2>1. PICK v \in Registration : v.zone = u.zone /\ (Certified(v) \/ Entered(v))
    BY DEF RegistrationsInv
  <2>2. Certified(v)' \/ Entered(v)'
    BY <1>2, <1>3, <2>1
  <2>3. QED
    BY <2>1, <2>2
<1>5. QED
  BY <1>3, <1>4 DEF RegistrationsInv, HasZone

LEMMA NextRegistrations ==
  ASSUME RegistrationsApart, SetupInv, SetupInv', RemovalsInv, RegistrationsInv,
         [ZoneSetupNext]_setupSpecVars
  PROVE  RegistrationsInv'
<1>1. ASSUME NEW t \in Registration, RegisterTop(t)
      PROVE  RegistrationsInv'
  <2>1. CASE RegisterZone(t)
    BY <1>1, <2>1, EnteringKeepsRegistrations
  <2>2. CASE RegisterTopRRSet(t)
    BY <1>1, <2>2, InsertingKeepsRegistrations
  <2>3. CASE RegisterTopRR(t)
    <3>1. Certified(t)'
      BY <1>1, <2>3, RegisterRecords DEF Certified
    <3>2. rrsets' = rrsets /\ zones' = zones /\ cutOff' = cutOff /\ topAt'[t] = "none"
      BY <2>3 DEF RegisterTopRR, InsertRR, EndRegister, SetupInv, SetupVarsInv
    <3>3. QED
      BY <1>1, <3>1, <3>2, EndingKeepsRegistrations
  <2>4. CASE RegisterCrash(t)
    BY <1>1, <2>4, EndingKeepsRegistrations DEF RegisterCrash, EndRegister, Entered, SetupInv, SetupVarsInv
  <2>5. CASE (StartRegister(t) /\ UNCHANGED <<rrsets, rrs>>) \/ LookupZone(t) \/ RefusedZone(t)
    <3>1. /\ topAt[t] \in {"none", "lookup", "insertZone"}
          /\ topAt'[t] \in {"none", "lookup", "insertZone"}
          /\ rrsets' = rrsets /\ zones' = zones /\ cutOff' = cutOff
      BY <2>5 DEF StartRegister, LookupZone, RefusedZone, EndRegister, SetupInv, SetupVarsInv
    <3>2. QED
      BY <1>1, <3>1, EndingKeepsRegistrations DEF Entered
  <2>6. QED
    BY <1>1, <2>1, <2>2, <2>3, <2>4, <2>5 DEF RegisterTop
<1>2. QED
  BY <1>1, OthersKeepRegistrations

LEMMA InitRemovalsOfSetup == ZoneSetupInit => RemovalsInv
BY DEF ZoneSetupInit, RemovalsInv, RemovalInv

\* However many calls of zone-register race for a zone between the look-up and
\* the insertion of doRegisterTop, it gets the certificate of one of them.
THEOREM OneCertificate ==
  NoRemovalOfDelegated /\ RegistrationsApart /\ ZonesAreNew /\ ZoneSetupSpec
    => []ZoneHasOneCertificate
<1>1. ASSUME NoRemovalOfDelegated, RegistrationsApart
      PROVE  SetupInv /\ SetupInv' /\ RemovalsInv /\ RegistrationsInv /\ [ZoneSetupNext]_setupSpecVars
               => RemovalsInv' /\ RegistrationsInv'
  BY <1>1, NextRemovalsOfSetup, NextRegistrations
<1>2. SetupInv /\ RegistrationsInv => ZoneHasOneCertificate
  <2> SUFFICES ASSUME SetupInv, RegistrationsInv, NEW t \in Registration,
                      ZoneId(DefaultFile, t.zone) # 0
               PROVE  LET calls == {u \in Registration : u.zone = t.zone} IN
                      /\ \A u \in calls : Certified(t) /\ Certified(u) => t.cert = u.cert
                      /\ \/ \E u \in calls : Certified(u) \/ topAt[u] \in {"insertRRSet", "insertRR"}
                         \/ t.zone \in cutOff
    BY DEF ZoneHasOneCertificate
  <2>1. HasZone(t.zone)
    <3>1. DefaultFile \in DbFile /\ IsZoneTable(zones[DefaultFile])
      BY ZoneToolsAssumption DEF SetupInv, SetupVarsInv
    <3>2. \E r \in zones[DefaultFile] : r.name = t.zone
      BY <3>1, ZoneIdOf
    <3>3. QED
      BY <3>2 DEF HasZone
  <2>2. \A u \in Registration : Certified(u) => \E s \in rrsets : s.key = u.cert
    BY DEF Certified, HoldsIn
  <2>3. QED
    BY <2>1, <2>2 DEF RegistrationsInv, Entered
<1>3. CASE NoRemovalOfDelegated /\ RegistrationsApart /\ ZonesAreNew
  <2>1. SetupInv /\ SetupInv' /\ RemovalsInv /\ RegistrationsInv /\ [ZoneSetupNext]_setupSpecVars
          => RemovalsInv' /\ RegistrationsInv'
    BY <1>1, <1>3
  <2>2. ZoneSetupInit => RegistrationsInv
    BY <1>3, InitRegistrations
  <2>3. QED
    BY <1>2, <2>1, <2>2, InitRemovalsOfSetup, SetupSpecInv, PTL DEF ZoneSetupSpec
<1>4. QED
  BY <1>3

-----------------------------------------------------------------------------
(***************************************************************************)
(* The keys a delegation stands on, for sub-zones whose first name server    *)
(* only zone-delegate writes.                                               *)
(***************************************************************************)
FirstServerFromTool == \A d \in Delegation, r \in Request : r.data # d.nsDatas[1]

Signed(d) ==
  /\ {<<SubZone(d), p>> : p \in {"KSK", "KSK-CERT", "PKS-FILE"}} \subseteq products
  /\ <<d.sub.zone, "DSK-CERT">> \in products

\* What zone-create has made, it has made in order.
ProductsInv ==
  /\ MadeInOrder(products)
  /\ \A z \in Zone : createAt[z] > 1 => <<z, Products[createAt[z] - 1]>> \in products

\* zone-delegate passes its checks before it writes, and no key is deleted.
SignedInv ==
  \A d \in Delegation : at[d] # 0 \/ HoldsIn(d.sub, d.nsDatas[1]) => Signed(d)

LEMMA InitSigned == ZoneSetupInit => ProductsInv /\ SignedInv /\ CertificatesInv
<1> SUFFICES ASSUME ZoneSetupInit PROVE ProductsInv /\ SignedInv /\ CertificatesInv
  OBVIOUS
<1>1. ProductsInv
  BY ZoneToolsAssumption DEF ZoneSetupInit, SetupInit, ProductsInv
<1>2. \A key, data : ~HoldsIn(key, data)
  BY DEF ZoneSetupInit, HoldsIn
<1>3. \A d \in Delegation : at[d] = 0
  BY DEF ZoneSetupInit, ToolInit
<1>4. QED
  BY <1>1, <1>2, <1>3 DEF SignedInv, CertificatesInv, DelegatedWithCertificate

\* The step of zone-create that makes the next product.
LEMMA MakingKeepsOrder ==
  ASSUME SetupInv, ProductsInv, NEW z \in Zone, MakeProduct(z)
  PROVE  ProductsInv'
<1>1. PICK k : k = createAt[z]
  OBVIOUS
<1>2. k \in 1 .. 6 /\ products' = products \cup {<<z, Products[k]>>}
  BY <1>1, ProductsAre DEF MakeProduct, SetupInv, SetupVarsInv
<1>3. \A i \in 1 .. 6 : Products[i] = Products[k] => i = k
  BY <1>2, ProductsAre
<1>4. k > 1 => <<z, Products[k - 1]>> \in products
  BY <1>1 DEF ProductsInv
<1>5. MadeInOrder(products')
  <2> SUFFICES ASSUME NEW entry \in products', NEW i \in 2 .. 6, entry[2] = Products[i]
               PROVE  <<entry[1], Products[i - 1]>> \in products'
    BY ProductsAre DEF MadeInOrder
  <2>1. CASE entry \in products
    BY <1>2, <2>1, ProductsAre DEF ProductsInv, MadeInOrder
  <2>2. CASE entry = <<z, Products[k]>>
    BY <1>2, <1>3, <1>4, <2>2
  <2>3. QED
    BY <1>2, <2>1, <2>2
<1>6. ASSUME NEW y \in Zone, createAt'[y] > 1
      PROVE  <<y, Products[createAt'[y] - 1]>> \in products'
  <2>1. CASE y = z
    <3>1. createAt'[z] = IF k = 6 THEN 0 ELSE k + 1
      BY <1>1, ProductsAre DEF MakeProduct, SetupInv, SetupVarsInv
    <3>2. createAt'[z] - 1 = k
      BY <1>2, <1>6, <2>1, <3>1
    <3>3. QED
      BY <1>2, <2>1, <3>2
  <2>2. CASE y # z
    <3>1. createAt'[y] = createAt[y]
      BY <2>2 DEF MakeProduct, SetupInv, SetupVarsInv
    <3>2. QED
      BY <1>2, <1>6, <3>1 DEF ProductsInv
  <2>3. QED
    BY <2>1, <2>2
<1>7. QED
  BY <1>5, <1>6 DEF ProductsInv

LEMMA NextProducts ==
  ASSUME SetupInv, ProductsInv, [ZoneSetupNext]_setupSpecVars
  PROVE  ProductsInv' /\ products \subseteq products'
<1>1. ASSUME UNCHANGED <<products, createAt>>
      PROVE  ProductsInv' /\ products \subseteq products'
  BY <1>1 DEF ProductsInv, MadeInOrder
<1>2. ASSUME NEW z \in Server, (\E file \in DbFile : StartServer(z, file))
                                 \/ RunServer(z) \/ EndServer(z)
      PROVE  UNCHANGED <<products, createAt>>
  BY <1>2 DEF StartServer, RunServer, EndServer, setupVars
<1>3. ASSUME NEW t \in Registration, RegisterTop(t)
      PROVE  UNCHANGED <<products, createAt>>
  BY <1>3 DEF RegisterTop, StartRegister, LookupZone, RegisterZone, RefusedZone, RegisterTopRRSet,
     RegisterTopRR, RegisterCrash
<1>4. ASSUME NEW z \in Zone, CreateZone(z)
      PROVE  ProductsInv' /\ products \subseteq products'
  <2>1. CASE StartCreate(z) \/ CreateCrash(z)
    <3>1. products' = products
      BY <2>1 DEF StartCreate, CreateCrash
    <3>2. \A y \in Zone : createAt'[y] = createAt[y] \/ createAt'[y] \in {0, 1}
      BY <2>1 DEF StartCreate, CreateCrash, SetupInv, SetupVarsInv
    <3>3. QED
      BY <3>1, <3>2 DEF ProductsInv, MadeInOrder
  <2>2. CASE MakeProduct(z)
    BY <2>2, MakingKeepsOrder DEF MakeProduct
  <2>3. QED
    BY <1>4, <2>1, <2>2 DEF CreateZone
<1>5. ASSUME NEW d \in Delegation, DelegateZone(d)
      PROVE  ProductsInv' /\ products \subseteq products'
  <2>1. CASE StartDelegate(d)
    <3>1. products' = products \cup {<<SubZone(d), "PKS-FILE">>} /\ createAt' = createAt
      BY <2>1 DEF StartDelegate
    <3>2. \A i \in 1 .. 6 : Products[i] # "PKS-FILE"
      BY ProductsAre
    <3>3. MadeInOrder(products')
      <4> SUFFICES ASSUME NEW entry \in products', NEW i \in 2 .. 6, entry[2] = Products[i]
                   PROVE  <<entry[1], Products[i - 1]>> \in products'
        BY ProductsAre DEF MadeInOrder
      <4>1. entry \in products
        BY <3>1, <3>2
      <4>2. QED
        BY <3>1, <4>1, ProductsAre DEF ProductsInv, MadeInOrder
    <3>4. QED
      BY <3>1, <3>3 DEF ProductsInv
  <2>2. CASE ~StartDelegate(d)
    BY <1>1, <1>5, <2>2 DEF DelegateZone, DelegateStep, setupVars
  <2>3. QED
    BY <2>1, <2>2
<1>6. CASE UNCHANGED setupSpecVars
  BY <1>1, <1>6 DEF setupSpecVars, setupVars
<1>7. QED
  BY <1>1, <1>2, <1>3, <1>4, <1>5, <1>6 DEF ZoneSetupNext

\* The checks of zone-delegate: who has the file has the key and certificate it
\* was written from.
LEMMA StartedIsSigned ==
  ASSUME ProductsInv, NEW d \in Delegation, StartDelegate(d)
  PROVE  Signed(d)'
<1>1. /\ <<d.sub.zone, "DSK-CERT">> \in products
      /\ <<SubZone(d), "SS-FILE">> \in products
      /\ products' = products \cup {<<SubZone(d), "PKS-FILE">>}
  BY DEF StartDelegate, MayDelegate
<1>2. PICK sub : sub = SubZone(d)
  OBVIOUS
<1>3. ASSUME NEW i \in 2 .. 6, NEW j \in 1 .. 5, i = j + 1, <<sub, Products[i]>> \in products
      PROVE  <<sub, Products[j]>> \in products
  <2>1. j = i - 1 /\ i \in 2 .. Len(Products)
    BY <1>3, ProductsAre
  <2>2. QED
    BY <1>3, <2>1 DEF ProductsInv, MadeInOrder
<1>4. <<sub, Products[4]>> \in products
  BY <1>1, <1>2, ProductsAre
<1>5. <<sub, Products[3]>> \in products
  BY <1>3, <1>4
<1>6. <<sub, Products[2]>> \in products
  BY <1>3, <1>5
<1>7. <<sub, Products[1]>> \in products
  BY <1>3, <1>6
<1>8. <<SubZone(d), "KSK-CERT">> \in products /\ <<SubZone(d), "KSK">> \in products
  BY <1>2, <1>5, <1>7, ProductsAre
<1>9. SubZone(d)' = SubZone(d)
  BY DEF SubZone
<1>10. QED
  BY <1>1, <1>8, <1>9 DEF Signed

\* Who may have written a record that was not there before.
LEMMA NewRecords ==
  ASSUME SetupInv, SetupInv', RemovalsInv, [ZoneSetupNext]_setupSpecVars,
         NEW key, NEW data, HoldsIn(key, data)', ~HoldsIn(key, data)
  PROVE  \/ data \in {r.data : r \in Request}
         \/ \E d \in Delegation : at[d] # 0 /\ key \in {d.cert, d.sub}
         \/ \E t \in Registration : key = t.cert
<1>1. ASSUME NEW y \in Server, ServerStep(y)
      PROVE  data \in {r.data : r \in Request}
  <2>1. request[y] \in Request
    BY DEF SetupInv, IInv
  <2>2. QED
    BY <1>1, <2>1, ServerKeepsCertificates DEF SetupInv, IInv, RemovalsInv
<1>2. ASSUME UNCHANGED <<rrsets, rrs>>
      PROVE  FALSE
  BY <1>2 DEF HoldsIn
<1>3. ASSUME NEW y \in Server,
             \/ \E r \in Request : ReceiveUpdate(y, r)
             \/ AnswerUpdate(y) \/ StatementFails(y) \/ Crash(y) \/ Restart(y)
      PROVE  FALSE
  BY <1>2, <1>3, OtherStepKeepsTables DEF SetupInv, IInv
<1>4. ASSUME NEW d \in Delegation, ToolStep(d)
      PROVE  at[d] # 0 /\ key \in {d.cert, d.sub}
  <2>1. CASE RegisterRR(d)
    <3>1. key \in {d.cert, d.sub}
      BY <2>1, ToolWrites, InsertAddsRecord DEF SetupInv, IInv
    <3>2. at[d] # 0
      BY <2>1, NextRR DEF SetupInv, IInv
    <3>3. QED
      BY <3>1, <3>2
  <2>2. CASE RegisterRRSet(d)
    BY <2>2, NewSetHoldsNothing DEF RegisterRRSet, SetupInv, IInv
  <2>3. CASE StartTool(d) \/ RefusedRRSet(d)
    BY <1>2, <2>3 DEF StartTool, RefusedRRSet
  <2>4. QED
    BY <1>4, <2>1, <2>2, <2>3 DEF ToolStep
<1>5. ASSUME NEW d \in Delegation, ToolCrash(d)
      PROVE  FALSE
  BY <1>2, <1>5 DEF ToolCrash
<1>6. CASE UNCHANGED vars
  BY <1>2, <1>6 DEF vars
<1>7. CASE [Next]_vars
  BY <1>1, <1>3, <1>4, <1>5, <1>6, <1>7 DEF Next
<1>8. ASSUME NEW t \in Registration, RegisterTop(t)
      PROVE  key = t.cert
  BY <1>8, RegisterRecords
<1>9. QED
  BY <1>7, <1>8, SetupSteps

LEMMA NextSigned ==
  ASSUME FirstServerFromTool, DelegationsApart, RegistrationsApart, SetupInv, SetupInv', RemovalsInv,
         ProductsInv, SignedInv, [ZoneSetupNext]_setupSpecVars
  PROVE  SignedInv'
<1>1. products \subseteq products'
  BY NextProducts
<1>2. \A d \in Delegation : Signed(d) => Signed(d)'
  BY <1>1 DEF Signed, SubZone
<1>3. ASSUME NEW d \in Delegation, at'[d] # 0
      PROVE  Signed(d)'
  <2>1. CASE at[d] # 0
    BY <1>2, <2>1 DEF SignedInv
  <2>2. CASE at[d] = 0
    BY <1>3, <2>2, DelegationStarts, StartedIsSigned
  <2>3. QED
    BY <2>1, <2>2
<1>4. ASSUME NEW d \in Delegation, HoldsIn(d.sub, d.nsDatas[1])'
      PROVE  Signed(d)'
  <2>1. CASE HoldsIn(d.sub, d.nsDatas[1])
    BY <1>2, <2>1 DEF SignedInv
  <2>2. CASE ~HoldsIn(d.sub, d.nsDatas[1])
    <3>1. PICK key, data : key = d.sub /\ data = d.nsDatas[1]
      OBVIOUS
    <3>2. data \notin {r.data : r \in Request}
      BY <3>1 DEF FirstServerFromTool
    <3>3. \A t \in Registration : key # t.cert
      BY <3>1 DEF RegistrationsApart
    <3>4. HoldsIn(key, data)' /\ ~HoldsIn(key, data)
      BY <1>4, <2>2, <3>1
    <3>5. PICK e \in Delegation : at[e] # 0 /\ key \in {e.cert, e.sub}
      BY <3>2, <3>3, <3>4, NewRecords
    <3>6. d.sub = e.sub /\ Signed(e)
      BY <3>1, <3>5 DEF DelegationsApart, SignedInv
    <3>7. QED
      BY <1>2, <3>6 DEF Signed, SubZone
  <2>3. QED
    BY <2>1, <2>2
<1>5. QED
  BY <1>3, <1>4 DEF SignedInv

\* The argument of CertificateComesFirst, with zone-register next to it.
LEMMA NextCertificatesOfSetup ==
  ASSUME DelegationsApart, RegistrationsApart, SetupInv, SetupInv', RemovalsInv, CertificatesInv,
         [ZoneSetupNext]_setupSpecVars
  PROVE  CertificatesInv'
<1>1. CASE [Next]_vars
  BY <1>1, NextCertificates DEF SetupInv
<1>2. ASSUME NEW t \in Registration, RegisterTop(t)
      PROVE  CertificatesInv'
  <2>1. /\ \A k, x : HoldsIn(k, x) => HoldsIn(k, x)'
        /\ \A k, x : HoldsIn(k, x)' => HoldsIn(k, x) \/ k = t.cert
    BY <1>2, RegisterRecords
  <2>2. at' = at
    BY <1>2 DEF RegisterTop, toolVars
  <2>3. \A d \in Delegation : d.sub # t.cert
    BY <1>2 DEF RegistrationsApart
  <2>4. QED
    BY <2>1, <2>2, <2>3 DEF CertificatesInv, DelegatedWithCertificate
<1>3. QED
  BY <1>1, <1>2, SetupSteps

\* The tools in any order, any of them cut off and called again: a sub-zone that
\* has a name server has the key and certificate its parent signed with a
\* certificate of its own, and the signed certificate is in the database.
THEOREM DelegationsAreSigned ==
  /\ NoRemovalOfDelegated /\ DelegationsApart /\ RegistrationsApart /\ FirstServerFromTool
  /\ ZoneSetupSpec
  => []DelegationIsSigned
<1> DEFINE Apart == NoRemovalOfDelegated /\ DelegationsApart /\ RegistrationsApart /\ FirstServerFromTool
           Inv == RemovalsInv /\ ProductsInv /\ SignedInv /\ CertificatesInv
<1>1. ASSUME Apart
      PROVE  SetupInv /\ SetupInv' /\ Inv /\ [ZoneSetupNext]_setupSpecVars => Inv'
  BY <1>1, NextRemovalsOfSetup, NextProducts, NextSigned, NextCertificatesOfSetup
<1>2. ZoneSetupInit => Inv
  BY InitRemovalsOfSetup, InitSigned
<1>3. ASSUME Apart, Inv
      PROVE  DelegationIsSigned
  <2> SUFFICES ASSUME NEW d \in Delegation, HoldsIn(d.sub, d.nsDatas[1])
               PROVE  /\ {<<SubZone(d), p>> : p \in {"KSK", "KSK-CERT", "PKS-FILE"}} \subseteq products
                      /\ <<d.sub.zone, "DSK-CERT">> \in products
                      /\ HoldsIn(d.cert, d.certData)
    BY DEF DelegationIsSigned
  <2>1. Signed(d)
    BY <1>3 DEF SignedInv
  <2>2. d.nsDatas[1] \in Range(d.nsDatas)
    <3>1. d.nsDatas \in Seq(Name) /\ d.nsDatas # << >>
      BY ZoneRegisterAssumption
    <3>2. 1 \in DOMAIN d.nsDatas
      BY <3>1, EmptySeq, LenProperties
    <3>3. QED
      BY <3>2 DEF Range
  <2>3. d.nsDatas[1] \notin {r.data : r \in Request}
    BY <1>3 DEF FirstServerFromTool
  <2>4. HoldsIn(d.cert, d.certData)
    BY <1>3, <2>2, <2>3 DEF CertificatesInv, DelegatedWithCertificate
  <2>5. QED
    BY <2>1, <2>4 DEF Signed
<1>4. CASE Apart
  <2>1. SetupInv /\ SetupInv' /\ Inv /\ [ZoneSetupNext]_setupSpecVars => Inv'
    BY <1>1, <1>4
  <2>2. Inv => DelegationIsSigned
    BY <1>3, <1>4
  <2> HIDE DEF Inv
  <2>3. QED
    BY <1>2, <2>1, <2>2, SetupSpecInv, PTL DEF ZoneSetupSpec
<1>5. QED
  BY <1>4

=============================================================================
