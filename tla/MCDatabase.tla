----------------------------- MODULE MCDatabase -----------------------------
(***************************************************************************)
(* Instances of SharedDatabase for TLC: the zones /net and /net/sim on one  *)
(* database file, and /net/sim being delegated by /net.                     *)
(***************************************************************************)
EXTENDS SharedDatabase

MCComponent == {"net", "sim", "www", "ksk", "ns", "ns2", "h1", "h2"}

Net == <<"net">>
Sim == <<"net", "sim">>
Www == <<"www">>
NS == <<"ns">>
NS2 == <<"ns2">>
H1 == <<"h1">>
H2 == <<"h2">>

DelegationKey == [zone |-> Net, label |-> <<"sim">>, type |-> "NS"]
CertKey == [zone |-> Net, label |-> <<"sim", "ksk">>, type |-> "ID-CERT"]
WwwKey(zone) == [zone |-> zone, label |-> Www, type |-> "TXT"]

Ask(key, actions, data) == [key : {key}, action : actions, data : data]
Rows(keys, class) == {[id |-> i, key |-> keys[i], class |-> class] : i \in DOMAIN keys}

NoRows == [rrsets |-> {}, rrs |-> {}]

Delegate(nsDatas) ==
  [cert |-> CertKey, certData |-> <<"ksk">>, sub |-> DelegationKey, nsDatas |-> nsDatas]

-----------------------------------------------------------------------------
\* Two servers update the same label in their own zones.
TwoZonesKeys == {WwwKey(Net), WwwKey(Sim)}
TwoZonesServers == {Net, Sim}
TwoZonesRequests ==
  Ask(WwwKey(Net), {"ADD", "REMOVE", "REPLACE-ALL"}, {H1, H2})
    \cup Ask(WwwKey(Sim), {"ADD", "REMOVE", "REPLACE-ALL"}, {H1})
    \cup Ask(WwwKey(Net), {"NONE", "REPLACE"}, {H1})
TwoZonesTables ==
  { NoRows,
    [ rrsets |-> Rows(<<WwwKey(Sim), WwwKey(Net)>>, "NULL"),
      rrs    |-> {[id |-> 1, rrset |-> 2, data |-> H2],
                  [id |-> 2, rrset |-> 2, data |-> H1]} ] }
NoDelegations == {}

-----------------------------------------------------------------------------
\* The server of /net updates the delegation zone-delegate is writing.
RaceKeys == {CertKey, DelegationKey}
RaceServers == {Net}
RaceRequests ==
  Ask(DelegationKey, {"ADD", "REMOVE", "REPLACE-ALL"}, {NS2})
    \cup Ask(DelegationKey, {"ADD"}, {H1})
RaceDelegations == {Delegate(<<NS, NS2>>)}
RaceTables == {NoRows}

\* Two servers, one client each; nothing fails but what SQLite refuses.
BusyRequests == {[key |-> WwwKey(Net), action |-> "ADD", data |-> H1],
                 [key |-> WwwKey(Sim), action |-> "ADD", data |-> H1]}

=============================================================================
