----------------------------- MODULE DyndnsMgr -----------------------------
(***************************************************************************)
(* The update side of the name servers: NameServer::onInterest, its update  *)
(* branch, and DyndnsMgr::update, one step per SQL statement.  The servers  *)
(* of several zones are processes of their own on one database file; each   *)
(* is single-threaded and executes one update at a time.                    *)
(***************************************************************************)
EXTENDS RRTables

CONSTANTS
  Server,          \* the zones with a name server on this host
  Request,         \* the updates clients send
  Failures,        \* subset of {"crash", "busy"}
  MaxId            \* bound of the model on the ids of rrs

UpdateRequest == [key : RRSetKey, action : UpdateAction, data : Name]

ASSUME DyndnsMgrAssumption ==
  /\ Server \subseteq Name
  /\ Request \subseteq UpdateRequest
  /\ \A z \in Server : \E r \in Request : r.key.zone = z
  /\ Failures \subseteq {"crash", "busy"}
  /\ MaxId \in Nat

VARIABLES
  pc,              \* per server: its next statement
  request,         \* per server: the update it executes
  rrsetId,         \* per server: rrset.getId() of the local variable rrset
  rrsetIdOfRR,     \* per server: rr.getRrset().getId(), the copy in the RR
  rrId             \* per server: rr.getId()

serverVars == <<pc, request, rrsetId, rrsetIdOfRR, rrId>>

Reading == {"lookupRRSet", "lookupRR"}
Writing == {"insertRRSet", "insertRR", "removeRR", "removeRelatedRRs"}
PC == {"idle", "answer", "down"} \cup Reading \cup Writing

SomeRequest(z) == CHOOSE r \in Request : r.key.zone = z

ServerInit ==
  /\ pc = [z \in Server |-> "idle"]
  /\ request = [z \in Server |-> SomeRequest(z)]
  /\ rrsetId = [z \in Server |-> 0]
  /\ rrsetIdOfRR = [z \in Server |-> 0]
  /\ rrId = [z \in Server |-> 0]

GoTo(z, label) == pc' = [pc EXCEPT ![z] = label]

\* The handler is left, by its end or with the process; its locals are gone.
Leave(z, label) ==
  /\ GoTo(z, label)
  /\ request' = [request EXCEPT ![z] = SomeRequest(z)]
  /\ rrsetId' = [rrsetId EXCEPT ![z] = 0]
  /\ rrsetIdOfRR' = [rrsetIdOfRR EXCEPT ![z] = 0]
  /\ rrId' = [rrId EXCEPT ![z] = 0]
  /\ UNCHANGED <<rrsets, rrs>>

-----------------------------------------------------------------------------
(***************************************************************************)
(* onInterest receives an update.  The RR comes with id 0 and its set is    *)
(* not looked up yet.                                                       *)
(***************************************************************************)
Receive(z, r) ==
  /\ pc[z] = "idle"
  /\ r.key.zone = z
  /\ r.action = "REMOVE" \/ NewId(rrs) <= MaxId
  /\ GoTo(z, "lookupRRSet")
  /\ request' = [request EXCEPT ![z] = r]
  /\ UNCHANGED <<rrsets, rrs, rrsetId, rrsetIdOfRR, rrId>>

\* Mutant: REPLACE-ALL does not remove what a set holds.
BranchReplaceAdds(action, set, rr) ==
  CASE action = "NONE"                             -> "answer"
    [] action = "ADD" /\ rr # 0                    -> "answer"
    [] action = "REMOVE" /\ rr > 0                 -> "removeRR"
    [] action = "REMOVE" /\ rr = 0                 -> "answer"
    [] (action = "ADD" /\ rr = 0) \/ action = "REPLACE-ALL" ->
         IF set = 0 THEN "insertRRSet" ELSE "insertRR"
    [] OTHER                                       -> "down"

\* What the branch on the action does once both lookups are done.  The last
\* case throws out of a function declared throw(), which ends the process.
Branch(action, set, rr) ==
  CASE action = "NONE"                             -> "answer"
    [] action = "ADD" /\ rr # 0                    -> "answer"
    [] action = "ADD" /\ rr = 0 /\ set = 0         -> "insertRRSet"
    [] action = "ADD" /\ rr = 0 /\ set # 0         -> "insertRR"
    [] action = "REMOVE" /\ rr > 0                 -> "removeRR"
    [] action = "REMOVE" /\ rr = 0                 -> "answer"
    [] action = "REPLACE-ALL" /\ set > 0           -> "removeRelatedRRs"
    [] action = "REPLACE-ALL" /\ set = 0           -> "insertRRSet"
    [] action \in {"REPLACE", "UNKNOWN"}           -> "down"

\* rrsetMgr.lookupIds() and rr.setRrset(rrset); without a set the RR is not
\* looked up.
LookupRRSet(z) ==
  /\ pc[z] = "lookupRRSet"
  /\ \E id \in LastId(SelectRRSet(request[z].key)) :
       /\ rrsetId' = [rrsetId EXCEPT ![z] = id]
       /\ rrsetIdOfRR' = [rrsetIdOfRR EXCEPT ![z] = id]
       /\ GoTo(z, IF id = 0 THEN Branch(request[z].action, 0, rrId[z]) ELSE "lookupRR")
  /\ UNCHANGED <<rrsets, rrs, request, rrId>>

\* rrMgr.lookupIds().
LookupRR(z) ==
  /\ pc[z] = "lookupRR"
  /\ \E id \in LastId(SelectRR(rrsetIdOfRR[z], request[z].data)) :
       /\ rrId' = [rrId EXCEPT ![z] = id]
       /\ GoTo(z, Branch(request[z].action, rrsetId[z], id))
  /\ UNCHANGED <<rrsets, rrs, request, rrsetId, rrsetIdOfRR>>

\* Mutant: the RR keeps its copy of the set from before the insertion.
InsertMissingRRSetForgets(z) ==
  /\ pc[z] = "insertRRSet"
  /\ InsertRRSet(request[z].key, "")
  /\ rrsetId' = [rrsetId EXCEPT ![z] = NewId(rrsets)]
  /\ GoTo(z, "insertRR")
  /\ UNCHANGED <<request, rrsetIdOfRR, rrId>>

\* rrsetMgr.insert() and rr.setRrset(rrset).
InsertMissingRRSet(z) ==
  /\ pc[z] = "insertRRSet"
  /\ InsertRRSet(request[z].key, "")
  /\ rrsetId' = [rrsetId EXCEPT ![z] = NewId(rrsets)]
  /\ rrsetIdOfRR' = [rrsetIdOfRR EXCEPT ![z] = NewId(rrsets)]
  /\ GoTo(z, "insertRR")
  /\ UNCHANGED <<request, rrId>>

\* rrMgr.insert().
InsertNewRR(z) ==
  /\ pc[z] = "insertRR"
  /\ InsertRR(rrsetIdOfRR[z], request[z].data)
  /\ rrId' = [rrId EXCEPT ![z] = NewId(rrs \ SelectRR(rrsetIdOfRR[z], request[z].data))]
  /\ GoTo(z, "answer")
  /\ UNCHANGED <<request, rrsetId, rrsetIdOfRR>>

\* Mutant: DELETE FROM rrs WHERE rrset_id=... in place of WHERE id=...
RemoveRROfSet(z) ==
  /\ pc[z] = "removeRR"
  /\ DeleteRRsOf(rrsetId[z])
  /\ GoTo(z, "answer")
  /\ UNCHANGED <<request, rrsetId, rrsetIdOfRR, rrId>>

\* rrMgr.remove().
RemoveRR(z) ==
  /\ pc[z] = "removeRR"
  /\ DeleteRR(rrId[z])
  /\ GoTo(z, "answer")
  /\ UNCHANGED <<request, rrsetId, rrsetIdOfRR, rrId>>

\* rrsetMgr.removeRelatedRRs(): the first statement of REPLACE-ALL.
RemoveRelatedRRs(z) ==
  /\ pc[z] = "removeRelatedRRs"
  /\ DeleteRRsOf(rrsetId[z])
  /\ GoTo(z, "insertRR")
  /\ UNCHANGED <<request, rrsetId, rrsetIdOfRR, rrId>>

\* The Data with DyNDNS-OK is put.
Answered(z) == pc[z] = "answer" /\ Leave(z, "idle")

=============================================================================
