---------------------------- MODULE NamePatterns ----------------------------
(***************************************************************************)
(* How the packets' fields become names and names become fields again:      *)
(* Query::toInterest and fromInterest, QueryUpdate's, Response::fromData,   *)
(* and the regular expressions of ndns-label.hpp in between.                *)
(*                                                                          *)
(* The expressions see a name as text, so a component is taken for a marker *)
(* by its ending and for a type by its beginning.  All repetitions are      *)
(* greedy: the zone extends to the last marker and the label to the last    *)
(* type that leave a match.                                                 *)
(***************************************************************************)
EXTENDS NdnsTypes, FiniteSetsExt

CONSTANTS
  Ending,          \* per component: the marker it ends in, or ""
  Stem,            \* per component: what stands before that marker, as a name
  Beginning        \* per component: the type of a pattern it begins with, or ""

Marker == {"DNS", "DNS-R"}
AnyType == RRType \cup {"A", "AAAA", "DYNDNSUPDATE", "UNKNOWN"}
HintMark == "%F0."
Version == "version"            \* appendVersion()
SignedUpdate == "update"        \* the wire form of an update's Data

ASSUME NamePatternsAssumption ==
  /\ Marker \cup AnyType \cup {HintMark, Version, SignedUpdate} \subseteq Component
  /\ Ending \in [Component -> Marker \cup {""}]
  /\ Stem \in [Component -> Name]
  /\ Beginning \in [Component -> RRType \cup {"DYNDNSUPDATE", ""}]
  /\ \A m \in Marker : Ending[m] = m /\ Stem[m] = << >>
  /\ \A c \in AnyType \cup {HintMark, Version, SignedUpdate} : Ending[c] = ""
  /\ \A t \in RRType \cup {"DYNDNSUPDATE"} : Beginning[t] = t
  /\ \A c \in {"A", "AAAA", "UNKNOWN", Version, SignedUpdate} : Beginning[c] = ""

QueryFields == [hint : Name, zone : Name, queryType : Marker, label : Name, type : AnyType]

-----------------------------------------------------------------------------
\* Query::toInterest.
QueryName(q) ==
  (IF q.hint = << >> THEN << >> ELSE Append(q.hint, HintMark))
    \o q.zone \o <<q.queryType>> \o q.label \o <<q.type>>

\* The name of a query's Data, and of the Data inside an update.
DataName(q) == Append(QueryName(q), Version)

\* QueryUpdate::toInterest: the signed update stands where the label does.
UpdateName(hint, zone) ==
  DataName([hint |-> hint, zone |-> zone, queryType |-> "DNS",
            label |-> <<SignedUpdate>>, type |-> "DYNDNSUPDATE"])

-----------------------------------------------------------------------------
\* Where the type of a pattern may stand after a marker: one label between.
TypesAfter(name, types, i) == {t \in i + 2 .. Len(name) : Beginning[name[t]] \in types}

\* The components that a pattern may take for its marker.
Cuts(name, markers, types) ==
  {i \in DOMAIN name : Ending[name[i]] \in markers /\ TypesAfter(name, types, i) # {}}

MatchQueryName(name) == Cuts(name, Marker, RRType) # {}
MatchUpdateName(name) == Cuts(name, {"DNS"}, {"DYNDNSUPDATE"}) # {}

\* Mutant: (/.*?), the first marker and the first type.
FieldsNotGreedy(name, markers, types) ==
  LET i == Min(Cuts(name, markers, types))
      t == Min(TypesAfter(name, types, i))
      hints == {h \in 1 .. i - 1 : name[h] = HintMark}
      start == Max(hints \cup {0}) IN
  [ hint      |-> SubSeq(name, 1, start - 1),
    zone      |-> SubSeq(name, start + 1, i - 1) \o Stem[name[i]],
    queryType |-> Ending[name[i]],
    label     |-> SubSeq(name, i + 1, t - 1),
    type      |-> Beginning[name[t]] ]

\* What a match leaves in the map, read as names and enumerations.
Fields(name, markers, types) ==
  LET i == Max(Cuts(name, markers, types))
      t == Max(TypesAfter(name, types, i))
      hints == {h \in 1 .. i - 1 : name[h] = HintMark}
      start == Max(hints \cup {0}) IN
  [ hint      |-> SubSeq(name, 1, start - 1),
    zone      |-> SubSeq(name, start + 1, i - 1) \o Stem[name[i]],
    queryType |-> Ending[name[i]],
    label     |-> SubSeq(name, i + 1, t - 1),
    type      |-> Beginning[name[t]] ]

QueryFieldsOf(name) == Fields(name, Marker, RRType)
UpdateFieldsOf(name) == Fields(name, {"DNS"}, {"DYNDNSUPDATE"})

\* QueryUpdate::fromInterest counts its way to the signed update.
SignedUpdateOf(name) ==
  LET f == UpdateFieldsOf(name)
      temp == (IF f.hint = << >> THEN 0 ELSE Len(f.hint) + 1) + Len(f.zone) + 1
  IN name[temp + 1]

\* Response::fromData.  A name that does not match is only reported: the
\* label and the type stay those of Response::Response().
LabelAndType(name) ==
  IF MatchQueryName(name)
  THEN [label |-> QueryFieldsOf(name).label, type |-> QueryFieldsOf(name).type]
  ELSE [label |-> << >>, type |-> "NS"]

-----------------------------------------------------------------------------
\* Names the patterns read back as they were written: a marker ends no label
\* component that others follow, and the zone has no component like the mark
\* of a hint.
Plain(q) ==
  /\ q.label # << >>
  /\ \A i \in 1 .. Len(q.label) - 1 : Ending[q.label[i]] = ""
  /\ \A i \in DOMAIN q.zone : q.zone[i] # HintMark

=============================================================================
