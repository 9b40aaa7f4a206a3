---------------------------- MODULE MCNameServer ----------------------------
(***************************************************************************)
(* Instances of LiveNameServer for TLC: the server of /net answers queries   *)
(* and executes updates of the delegation zone-delegate is writing.          *)
(***************************************************************************)
EXTENDS LiveNameServer, MCDatabase

LiveComponent ==
  MCComponent \cup Marker \cup AnyType \cup {HintMark, Version, SignedUpdate, "NS1", "OpenDNS", "Open"}

LiveEnding == [c \in LiveComponent |-> CASE c \in Marker -> c [] c = "OpenDNS" -> "DNS" [] OTHER -> ""]
LiveStem == [c \in LiveComponent |-> IF c = "OpenDNS" THEN <<"Open">> ELSE << >>]
LiveBeginning ==
  [c \in LiveComponent |->
     CASE c \in RRType \cup {"DYNDNSUPDATE"} -> c [] c = "NS1" -> "NS" [] OTHER -> ""]

LiveHint == [z \in RaceServers |-> H1]

AskFor(hint, label, type) ==
  [hint |-> hint, zone |-> Net, queryType |-> "DNS", label |-> label, type |-> type]

-----------------------------------------------------------------------------
\* A label with a component like a type, and what is no legal query.
LiveQuestions ==
  { AskFor(<< >>, <<"sim">>, "NS"),
    AskFor(H1, CertKey.label, "ID-CERT"),
    AskFor(<< >>, <<"sim", "NS1">>, "TXT"),
    AskFor(<< >>, << >>, "TXT"),
    AskFor(<< >>, <<"sim">>, "UNKNOWN") }
BelowKey == [zone |-> Net, label |-> <<"sim", "www">>, type |-> "NS"]
LiveKeys == RaceKeys \cup {BelowKey}
LiveRequests ==
  Ask(DelegationKey, {"REMOVE", "REPLACE-ALL"}, {NS2})
    \cup Ask(DelegationKey, {"ADD"}, {H1})
    \cup Ask(BelowKey, {"REMOVE"}, {NS2})
LiveTables ==
  {[rrsets |-> Rows(<<BelowKey>>, "NULL"), rrs |-> {[id |-> 1, rrset |-> 1, data |-> NS2]}]}

\* A label with a component that ends like a marker.
AliasQuestions == {AskFor(<< >>, <<"OpenDNS", "www">>, "TXT")}

=============================================================================
