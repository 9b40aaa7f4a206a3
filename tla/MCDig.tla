------------------------------- MODULE MCDig -------------------------------
(***************************************************************************)
(* Instances of NameDig for TLC: digs with two tries for names on the way    *)
(* that updates move, and for a name that the patterns read otherwise.      *)
(***************************************************************************)
EXTENDS NameDig, MCResolver

DigComponent ==
  MCComponent \cup Marker \cup AnyType \cup {HintMark, Version, SignedUpdate, "lo", "OpenDNS", "Open"}

DigEnding == [c \in DigComponent |-> CASE c \in Marker -> c [] c = "OpenDNS" -> "DNS" [] OTHER -> ""]
DigStem == [c \in DigComponent |-> IF c = "OpenDNS" THEN <<"Open">> ELSE << >>]
DigBeginning == [c \in DigComponent |-> IF c \in RRType \cup {"DYNDNSUPDATE"} THEN c ELSE ""]

Lo == <<"lo">>
NoOthers == {}    \* only digs ask the resolver
DigQuestions ==
  { [label |-> Zone(2), type |-> "TXT"],
    [label |-> <<"OpenDNS", "sim">>, type |-> "TXT"] }

\* /net comes and goes while the record of /net/sim is in both zones.
DigKeys == {NSKey(0, 1), Key(0, <<"net", "sim">>, "TXT"), Key(1, <<"sim">>, "TXT")}
DigDatabases == {[k \in DigKeys |-> <<NS>>]}
DigUpdatable == {<<NSKey(0, 1), NS>>}

=============================================================================
