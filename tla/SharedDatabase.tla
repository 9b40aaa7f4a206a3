--------------------------- MODULE SharedDatabase ---------------------------
(***************************************************************************)
(* The name servers of several zones and the tool zone-delegate as          *)
(* processes on one database file: their SQL statements interleave, and a   *)
(* process may end between two of them.                                     *)
(***************************************************************************)
EXTENDS DyndnsMgr, ZoneRegister

CONSTANT InitialTables   \* records of what rrsets and rrs may hold

ASSUME SharedDatabaseAssumption ==
  \A t \in InitialTables : IsRRSetTable(t.rrsets) /\ IsRRTable(t.rrs, t.rrsets)

VARIABLE before          \* per server: what its set held when the update came
                         \* (a history variable for AcknowledgedUpdate)

vars == <<rrsets, rrs, serverVars, toolVars, before>>

Init ==
  /\ \E t \in InitialTables : rrsets = t.rrsets /\ rrs = t.rrs
  /\ ServerInit
  /\ ToolInit
  /\ before = [z \in Server |-> {}]

\* Some process of the others is at a statement, and one of the two writes:
\* SQLite may refuse either with SQLITE_BUSY, as no busy timeout is set.
Contended(z) ==
  /\ pc[z] \in Reading \cup Writing
  /\ \/ \E y \in Server \ {z} :
          \/ pc[y] \in Writing
          \/ pc[y] \in Reading /\ pc[z] \in Writing
     \/ \E d \in Delegation : at[d] # 0

ReceiveUpdate(z, r) ==
  /\ Receive(z, r)
  /\ before' = [before EXCEPT ![z] = Findable(r.key)]
  /\ UNCHANGED toolVars

ServerStep(z) ==
  /\ \/ LookupRRSet(z)
     \/ LookupRR(z)
     \/ InsertMissingRRSet(z)
     \/ InsertNewRR(z)
     \/ RemoveRR(z)
     \/ RemoveRelatedRRs(z)
  /\ UNCHANGED <<toolVars, before>>

AnswerUpdate(z) ==
  /\ Answered(z)
  /\ before' = [before EXCEPT ![z] = {}]
  /\ UNCHANGED toolVars

Dies(z) ==
  /\ Leave(z, "down")
  /\ before' = [before EXCEPT ![z] = {}]
  /\ UNCHANGED toolVars

\* executeOnly throws in update(): std::terminate, and no answer.
StatementFails(z) ==
  /\ "busy" \in Failures
  /\ Contended(z)
  /\ Dies(z)

Crash(z) ==
  /\ "crash" \in Failures
  /\ pc[z] # "down"
  /\ Dies(z)

Restart(z) ==
  /\ pc[z] = "down"
  /\ Leave(z, "idle")
  /\ UNCHANGED <<toolVars, before>>

ToolStep(d) ==
  /\ StartTool(d) \/ RegisterRRSet(d) \/ RegisterRR(d) \/ RefusedRRSet(d)
  /\ UNCHANGED <<serverVars, before>>

\* The tool is killed, or SQLite refuses its statement next to a server's.
ToolCrash(d) ==
  /\ at[d] # 0
  /\ \/ "crash" \in Failures
     \/ "busy" \in Failures /\ \E z \in Server : pc[z] \in Reading \cup Writing
  /\ at' = [at EXCEPT ![d] = 0]
  /\ UNCHANGED <<rrsets, rrs, insertedIds, serverVars, before>>

Next ==
  \/ \E z \in Server :
       \/ \E r \in Request : ReceiveUpdate(z, r)
       \/ ServerStep(z)
       \/ AnswerUpdate(z)
       \/ StatementFails(z)
       \/ Crash(z)
       \/ Restart(z)
  \/ \E d \in Delegation : ToolStep(d) \/ ToolCrash(d)

Spec == Init /\ [][Next]_vars

-----------------------------------------------------------------------------
\* Every variable stays in its type.
TypeOK ==
  /\ TablesTypeOK
  /\ pc \in [Server -> PC]
  /\ request \in [Server -> Request]
  /\ rrsetId \in [Server -> Nat]
  /\ rrsetIdOfRR \in [Server -> Nat]
  /\ rrId \in [Server -> Nat]
  /\ at \in [Delegation -> Nat]
  /\ insertedIds \in [Delegation -> Seq(Nat \ {0})]

(***************************************************************************)
(* When the server answers an update, the set the update is for holds what  *)
(* Updated makes of what it held when the update came: other servers on the *)
(* same file change nothing of it.  For sets zone-delegate does not write.  *)
(***************************************************************************)
AcknowledgedUpdate ==
  \A z \in Server :
    pc[z] = "answer" =>
      Findable(request[z].key) =
        {Updated(b, request[z].action, request[z].data) : b \in before[z]}

(***************************************************************************)
(* A server changes nothing that the server of another zone can find.       *)
(***************************************************************************)
ZonesAreIsolated ==
  [][\A z \in Server : pc'[z] # pc[z] =>
       \A key \in RRSetKey : key.zone # z => Findable(key)' = Findable(key)]_vars

(***************************************************************************)
(* A sub-zone has name servers from zone-delegate (data no update brings)   *)
(* only when its certificate is there too, whenever the tool is cut off.    *)
(***************************************************************************)
HoldsIn(key, data) ==
  \E s \in rrsets, r \in rrs : s.key = key /\ r.rrset = s.id /\ r.data = data

DelegatedWithCertificate ==
  \A d \in Delegation : \A data \in Range(d.nsDatas) \ {r.data : r \in Request} :
    HoldsIn(d.sub, data) => HoldsIn(d.cert, d.certData)

(***************************************************************************)
(* Without crashes no update takes its server down: one that fails on the   *)
(* database, or has an action that is not supported, is answered with       *)
(* DyNDNS-Fail (name-server.cpp:63: the handler around update() "handles    *)
(* the runtime_error").                                                     *)
(***************************************************************************)
FailureIsAnswered ==
  [][\A z \in Server : pc[z] \in Reading \cup Writing => pc'[z] # "down"]_vars

-----------------------------------------------------------------------------
(***************************************************************************)
(* The servers implement RecordStore.                                       *)
(***************************************************************************)
RecordsOf(key) == CHOOSE records \in Findable(key) : TRUE

Store == INSTANCE RecordStore WITH
  RecordData <- {r.data : r \in Request}
                 \cup UNION {{d.certData} \cup Range(d.nsDatas) : d \in Delegation},
  db <- [key \in RRSetKey |-> RecordsOf(key)],
  replacing <- {<<request[z].key, request[z].data>> :
                  z \in {z \in Server : pc[z] = "insertRR"
                                        /\ request[z].action = "REPLACE-ALL"}}

StoreRefinement == Store!StoreSpec

=============================================================================
