------------------------------ MODULE QueryMgr ------------------------------
(***************************************************************************)
(* The query side of the name servers statement by statement:               *)
(* NameServer::onInterest, its query branch, with QueryMgr::lookup and      *)
(* QueryMgr::hasAuth.  The server that executes a query is the one of       *)
(* DyndnsMgr: single-threaded, one Interest at a time.  Module NameServer   *)
(* has the whole handler as one operator, Answer.                           *)
(***************************************************************************)
EXTENDS DyndnsMgr

VARIABLES
  question,        \* per server: the query it executes, as it read it
  foundId,         \* per server: m_rrset.getId()
  response         \* per server: the Response so far

queryVars == <<question, foundId, response>>

QueryStatement == {"lookupIds", "selectRRs", "hasAuth"}
Querying == QueryStatement \cup {"reply"}

NoQuestion == [zone |-> << >>, label |-> << >>, type |-> "NS"]

QueryInit ==
  /\ question = [z \in Server |-> NoQuestion]
  /\ foundId = [z \in Server |-> 0]
  /\ response = [z \in Server |-> InitialResponse]

ReceiveQuery(z, q) ==
  /\ pc[z] = "idle"
  /\ q.zone = z
  /\ question' = [question EXCEPT ![z] = q]
  /\ GoTo(z, "lookupIds")
  /\ UNCHANGED <<rrsets, rrs, request, rrsetId, rrsetIdOfRR, rrId, foundId, response>>

\* m_rrsetMgr.lookupIds().
LookupIds(z) ==
  /\ pc[z] = "lookupIds"
  /\ \E id \in LastId(SelectRRSet(question[z])) : foundId' = [foundId EXCEPT ![z] = id]
  /\ GoTo(z, "selectRRs")
  /\ UNCHANGED <<rrsets, rrs, request, rrsetId, rrsetIdOfRR, rrId, question, response>>

Respond(z, type, records) ==
  /\ response' = [response EXCEPT ![z] = [type |-> type, rrs |-> records]]
  /\ GoTo(z, "reply")

\* The SELECT on rrs, and what the handler does if there are records, or if
\* the type is one without Auth.
SelectRRs(z) ==
  /\ pc[z] = "selectRRs"
  /\ LET records == Records(foundId[z]) IN
     \/ records # << >> /\ Respond(z, "NDNS-Resp", records)
     \/ records = << >> /\ question[z].type # "NS" /\ Respond(z, "NDNS-Nack", << >>)
     \/ records = << >> /\ question[z].type = "NS" /\ GoTo(z, "hasAuth") /\ UNCHANGED response
  /\ UNCHANGED <<rrsets, rrs, request, rrsetId, rrsetIdOfRR, rrId, question, foundId>>

\* Mutant: label LIKE '<label>%'.
RRsBelowOrAt(q) ==
  {r \in rrs : \E s \in rrsets : /\ s.id = r.rrset
                                 /\ s.key.zone = q.zone
                                 /\ s.key.type = q.type
                                 /\ GetPrefix(s.key.label, Len(q.label)) = q.label}

\* The rows hasAuth counts: rrs joined with rrsets.
RRsBelow(q) ==
  {r \in rrs : \E s \in rrsets : /\ s.id = r.rrset
                                 /\ s.key.zone = q.zone
                                 /\ s.key.type = q.type
                                 /\ IsStrictlyBelow(s.key.label, q.label)}

CountAuth(z) ==
  /\ pc[z] = "hasAuth"
  /\ Respond(z, IF RRsBelow(question[z]) # {} THEN "NDNS-Auth" ELSE "NDNS-Nack", << >>)
  /\ UNCHANGED <<rrsets, rrs, request, rrsetId, rrsetIdOfRR, rrId, question, foundId>>

\* The Data is put.
Reply(z) ==
  /\ pc[z] = "reply"
  /\ Leave(z, "idle")
  /\ question' = [question EXCEPT ![z] = NoQuestion]
  /\ foundId' = [foundId EXCEPT ![z] = 0]
  /\ response' = [response EXCEPT ![z] = InitialResponse]

=============================================================================
