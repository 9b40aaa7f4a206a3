----------------------------- MODULE NameServer -----------------------------
(***************************************************************************)
(* The query side of NameServer::onInterest, with QueryMgr::lookup and      *)
(* QueryMgr::hasAuth.  Handling a query changes nothing in the server, so   *)
(* the handler is an operator from the database and the Interest to the     *)
(* Response, and the actions of NameCachingResolver apply it.               *)
(*                                                                          *)
(* The database is seen as the RR sets of all zones: a key is a row of      *)
(* rrsets (zone, label, type) and its value the data of its rows in rrs in  *)
(* the order of their ids; an absent row of rrsets and one without RRs are  *)
(* both the empty sequence, which lookup cannot tell apart.                 *)
(***************************************************************************)
EXTENDS NdnsTypes

CONSTANT RRSetKey               \* the RR sets of the instance

ASSUME RRSetKeyAssumption ==
  RRSetKey \subseteq [zone : Name, label : Name, type : RRType]

Database == [RRSetKey -> Seq(Name)]

\* RRSetMgr::lookupIds and the SELECT on rrs: no row, no RRs.
Lookup(db, zone, label, type) ==
  LET key == [zone |-> zone, label |-> label, type |-> type] IN
  IF key \in RRSetKey THEN db[key] ELSE << >>

IsStrictlyBelow(label, upper) ==
  Len(label) > Len(upper) /\ GetPrefix(label, Len(upper)) = upper

\* Mutant: label LIKE '<label>' without the '/%'.
HasAuthExactLabel(db, zone, label, type) ==
  \E key \in RRSetKey : /\ key.zone = zone
                        /\ key.type = type
                        /\ key.label = label
                        /\ db[key] # << >>

\* Some RR of this type is stored under a longer label: label LIKE '<label>/%'.
HasAuth(db, zone, label, type) ==
  \E key \in RRSetKey : /\ key.zone = zone
                        /\ key.type = type
                        /\ IsStrictlyBelow(key.label, label)
                        /\ db[key] # << >>

\* /zone/DNS//type has no label: none of the name patterns matches it.
IsLegal(interest) == interest.label # << >>

Answer(db, interest) ==
  LET rrs == Lookup(db, interest.zone, interest.label, interest.type) IN
  [ rrs  |-> rrs,
    type |-> CASE rrs # << >> -> "NDNS-Resp"
               [] /\ rrs = << >>
                  /\ interest.type = "NS"
                  /\ HasAuth(db, interest.zone, interest.label, "NS")
                  -> "NDNS-Auth"
               [] OTHER -> "NDNS-Nack" ]

(***************************************************************************)
(* DyndnsMgr::update as seen from outside, run to its end without another   *)
(* writer in between (module DyndnsMgr has its single SQL statements).  ADD *)
(* of data already present changes nothing; REMOVE deletes the row found by *)
(* id; REPLACE-ALL leaves the new data alone in the set.                    *)
(***************************************************************************)
Without(rrs, i) == SubSeq(rrs, 1, i - 1) \o SubSeq(rrs, i + 1, Len(rrs))

\* Mutant: ADD does not look for the data first.
UpdatedAddsAgain(rrs, action, data) ==
  CASE action = "ADD" -> Append(rrs, data)
    [] action = "REMOVE" /\ \E i \in DOMAIN rrs : rrs[i] = data ->
         Without(rrs, CHOOSE i \in DOMAIN rrs : rrs[i] = data)
    [] action = "REPLACE-ALL" -> <<data>>
    [] OTHER -> rrs

Updated(rrs, action, data) ==
  CASE action = "ADD" /\ \A i \in DOMAIN rrs : rrs[i] # data ->
         Append(rrs, data)
    [] action = "REMOVE" /\ \E i \in DOMAIN rrs : rrs[i] = data ->
         Without(rrs, CHOOSE i \in DOMAIN rrs : rrs[i] = data)
    [] action = "REPLACE-ALL" -> <<data>>
    [] OTHER -> rrs

=============================================================================
