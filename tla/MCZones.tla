------------------------------ MODULE MCZones ------------------------------
(***************************************************************************)
(* Instances of ZoneSetup for TLC: /net and /net/sim are set up, /net/sim    *)
(* with two certificates to choose from, and delegated.                      *)
(***************************************************************************)
EXTENDS ZoneSetup, MCDatabase

TopKey(zone, key) == [zone |-> zone, label |-> <<key>>, type |-> "ID-CERT"]
Register(zone, key) == [zone |-> zone, cert |-> TopKey(zone, key), certData |-> <<key>>]

-----------------------------------------------------------------------------
\* Two zone-registers race for /net, which has a server and delegates
\* /net/sim.  All keys are there, or those of /net have to be made first, or the
\* call of zone-create for /net/sim was cut off.
Zones == {Net, Sim}
ZoneProducts ==
  {Zones \X Range(Products), {Sim} \X Range(Products),
   ({Net} \X Range(Products)) \cup {<<Sim, "KSK">>}}
ZoneRegistrations == {Register(Net, "ksk"), Register(Net, "ns2")}
ZoneKeys == {r.cert : r \in ZoneRegistrations} \cup {CertKey, DelegationKey}
ZoneServers == {Net}
ZoneRequests == Ask(DelegationKey, {"ADD"}, {NS2})
ZoneDelegations == {Delegate(<<NS>>)}

\* The root zone is there already.
RootZone == {[id |-> 1, name |-> << >>]}
OneFile == [ndns_local |-> RootZone]

=============================================================================
