----------------------------- MODULE ZoneTools -----------------------------
(***************************************************************************)
(* Setting up zones: the table zones with ZoneMgr, and the tools that come   *)
(* before a zone has a name server.  zone-create makes keys, certificates    *)
(* and files; zone-register enters a zone with its certificate               *)
(* (ZoneRegister::doRegisterTop), one step per SQL statement; zone-delegate  *)
(* signs the key of a sub-zone and goes on in module ZoneRegister.           *)
(*                                                                          *)
(* Every tool works on the default database file.  A row of rrsets names     *)
(* its zone here and has the id of its row of zones in the code.             *)
(***************************************************************************)
EXTENDS ZoneRegister

CONSTANTS
  DefaultFile,     \* src/db/ndns-local.db, what DBMgr opens
  InitialZones,    \* per database file: the rows of zones
  Zone,            \* the zones that are set up
  Registration,    \* what zone-register may be called with
  InitialProducts  \* what zone-create may have made before

DbFile == DOMAIN InitialZones

ZoneRow == [id : Nat \ {0}, name : Name]

\* What CREATE TABLE zones asks of its rows.
IsZoneTable(rows) ==
  /\ rows \subseteq ZoneRow /\ IsFiniteSet(rows)
  /\ \A r, q \in rows : r.id = q.id \/ r.name = q.name => r = q

\* What zone-create makes, in this order; its first step makes the identity.
Products == <<"KSK", "DSK", "KSK-CERT", "SS-FILE", "DSK-CERT", "SKS-FILE">>
Product == Range(Products) \cup {"PKS-FILE"}

\* zone-create, cut off or not, leaves a product only after the one before it.
MadeInOrder(made) ==
  \A entry \in made : \A i \in 2 .. Len(Products) :
    entry[2] = Products[i] => <<entry[1], Products[i - 1]>> \in made

ASSUME ZoneToolsAssumption ==
  /\ DefaultFile \in DbFile
  /\ InitialZones \in [DbFile -> SUBSET ZoneRow]
  /\ \A file \in DbFile : IsZoneTable(InitialZones[file])
  /\ Zone \subseteq Name
  /\ Registration \subseteq [zone : Zone, cert : RRSetKey, certData : Name]
  /\ \A t \in Registration : t.cert.zone = t.zone
  /\ InitialProducts \subseteq SUBSET (Name \X Product)
  /\ \A made \in InitialProducts : MadeInOrder(made)

VARIABLES
  zones,           \* per database file: the rows of zones
  products,        \* the keys, certificates and files there are
  createAt,        \* per zone: the next step of zone-create; 0 if not running
  topAt,           \* per registration: the next statement of zone-register
  topRRset,        \* per registration: rrset.getId()
  cutOff           \* zones whose zone-register ended after it had entered them
                   \* (a history variable)

setupVars == <<zones, products, createAt, topAt, topRRset, cutOff>>

TopAt == {"none", "lookup", "insertZone", "insertRRSet", "insertRR"}

-----------------------------------------------------------------------------
\* Mutant: SELECT id FROM zones without the WHERE.
ZoneIdOfAny(file, zone) ==
  Max({r.id : r \in zones[file]} \cup {0})

\* ZoneMgr::lookupId; the id of a Zone is 0 until a row is found.
ZoneId(file, zone) ==
  Max({r.id : r \in {r \in zones[file] : r.name = zone}} \cup {0})

\* Mutant: the table is created without UNIQUE.
InsertZoneAgain(zone) ==
  zones' = [zones EXCEPT ![DefaultFile] =
              @ \cup {[id |-> NewId(@), name |-> zone]}]

\* ZoneMgr::insert; UNIQUE refuses a second row of the name.
InsertZone(zone) ==
  /\ ZoneId(DefaultFile, zone) = 0
  /\ zones' = [zones EXCEPT ![DefaultFile] =
                 @ \cup {[id |-> NewId(@), name |-> zone]}]

SetupInit ==
  /\ zones = InitialZones
  /\ products \in InitialProducts
  /\ createAt = [z \in Zone |-> 0]
  /\ topAt = [t \in Registration |-> "none"]
  /\ topRRset = [t \in Registration |-> 0]
  /\ cutOff = {}

-----------------------------------------------------------------------------
IsIdentity(zone) == <<zone, "KSK">> \in products

\* An identity that exists already ends the tool with -1 and no effect, also
\* one that an earlier call was not able to complete.
StartCreate(z) ==
  /\ createAt[z] = 0
  /\ ~IsIdentity(z)
  /\ createAt' = [createAt EXCEPT ![z] = 1]
  /\ UNCHANGED <<zones, products, topAt, topRRset, cutOff>>

MakeProduct(z) ==
  /\ createAt[z] # 0
  /\ products' = products \cup {<<z, Products[createAt[z]]>>}
  /\ createAt' = [createAt EXCEPT ![z] = IF @ = Len(Products) THEN 0 ELSE @ + 1]
  /\ UNCHANGED <<zones, topAt, topRRset, cutOff>>

CreateCrash(z) ==
  /\ createAt[z] # 0
  /\ createAt' = [createAt EXCEPT ![z] = 0]
  /\ UNCHANGED <<zones, products, topAt, topRRset, cutOff>>

-----------------------------------------------------------------------------
\* main of zone-register: the zone must be an identity, and its certificate
\* file is loaded; without the file the null pointer ends the tool.
StartRegister(t) ==
  /\ topAt[t] = "none"
  /\ IsIdentity(t.zone)
  /\ <<t.zone, "SKS-FILE">> \in products
  /\ topAt' = [topAt EXCEPT ![t] = "lookup"]
  /\ UNCHANGED <<zones, products, createAt, topRRset, cutOff>>

\* The tool ends, done or not.
EndRegister(t) ==
  /\ topAt' = [topAt EXCEPT ![t] = "none"]
  /\ topRRset' = [topRRset EXCEPT ![t] = 0]

\* For a zone that is there doRegisterTop returns false, which main ignores.
LookupZone(t) ==
  /\ topAt[t] = "lookup"
  /\ \/ /\ ZoneId(DefaultFile, t.zone) = 0
        /\ topAt' = [topAt EXCEPT ![t] = "insertZone"]
        /\ UNCHANGED topRRset
     \/ ZoneId(DefaultFile, t.zone) # 0 /\ EndRegister(t)
  /\ UNCHANGED <<rrsets, rrs, zones, products, createAt, cutOff>>

\* zoneMgr.insert(); another call has been faster if it is refused.
RegisterZone(t) ==
  /\ topAt[t] = "insertZone"
  /\ InsertZone(t.zone)
  /\ topAt' = [topAt EXCEPT ![t] = "insertRRSet"]
  /\ UNCHANGED <<rrsets, rrs, products, createAt, topRRset, cutOff>>

RefusedZone(t) ==
  /\ topAt[t] = "insertZone"
  /\ ZoneId(DefaultFile, t.zone) # 0
  /\ EndRegister(t)
  /\ UNCHANGED <<rrsets, rrs, zones, products, createAt, cutOff>>

RegisterTopRRSet(t) ==
  /\ topAt[t] = "insertRRSet"
  /\ InsertRRSet(t.cert, "NULL")
  /\ topRRset' = [topRRset EXCEPT ![t] = NewId(rrsets)]
  /\ topAt' = [topAt EXCEPT ![t] = "insertRR"]
  /\ UNCHANGED <<zones, products, createAt, cutOff>>

RegisterTopRR(t) ==
  /\ topAt[t] = "insertRR"
  /\ InsertRR(topRRset[t], t.certData)
  /\ EndRegister(t)
  /\ UNCHANGED <<zones, products, createAt, cutOff>>

RegisterCrash(t) ==
  /\ topAt[t] # "none"
  /\ EndRegister(t)
  /\ cutOff' = IF topAt[t] \in {"insertRRSet", "insertRR"}
               THEN cutOff \cup {t.zone} ELSE cutOff
  /\ UNCHANGED <<rrsets, rrs, zones, products, createAt>>

-----------------------------------------------------------------------------
SubZone(d) == d.sub.zone \o d.sub.label

\* Mutant: the sub-zone only has to be an identity, as its parent has.
MayDelegateIdentity(d) ==
  /\ IsIdentity(d.sub.zone)
  /\ <<d.sub.zone, "DSK-CERT">> \in products
  /\ IsIdentity(SubZone(d))

\* The parent is an identity, the DSK certificate it signs with exists, and
\* the file of the sub-zone's certificate can be loaded.
MayDelegate(d) ==
  /\ IsIdentity(d.sub.zone)
  /\ <<d.sub.zone, "DSK-CERT">> \in products
  /\ <<SubZone(d), "SS-FILE">> \in products

\* main of zone-delegate up to doRegisterZone: the certificate is signed and
\* saved.  All it looks at only ever grows, so this is one step.  If the
\* parent is not in the database doRegisterZone returns false, which main
\* ignores.
StartDelegate(d) ==
  /\ at[d] = 0
  /\ MayDelegate(d)
  /\ products' = products \cup {<<SubZone(d), "PKS-FILE">>}
  /\ \/ /\ ZoneId(DefaultFile, d.sub.zone) # 0
        /\ StartTool(d)
     \/ /\ ZoneId(DefaultFile, d.sub.zone) = 0
        /\ UNCHANGED <<rrsets, rrs, at, insertedIds>>
  /\ UNCHANGED <<zones, createAt, topAt, topRRset, cutOff>>

DelegateStep(d) ==
  /\ RegisterRRSet(d) \/ RegisterRR(d) \/ RefusedRRSet(d)
  /\ UNCHANGED <<zones, products, createAt, topAt, topRRset, cutOff>>

=============================================================================
