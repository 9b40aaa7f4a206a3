---------------------------- MODULE ZoneRegister ----------------------------
(***************************************************************************)
(* The tool zone-delegate: ZoneRegister::doRegisterZone, one step per SQL   *)
(* statement.  It writes, next to running name servers, the set of the      *)
(* sub-zone's certificate and the set of its NS (or other) records, then    *)
(* the certificate and the records.  It never looks for existing rows, it   *)
(* has no transaction, and a statement that fails ends it.                  *)
(***************************************************************************)
EXTENDS RRTables

CONSTANT Delegation      \* what the tool may be called with

ASSUME ZoneRegisterAssumption ==
  /\ Delegation \subseteq [cert : RRSetKey, certData : Name,
                            sub : RRSetKey, nsDatas : Seq(Name)]
  /\ \A d \in Delegation : d.cert.zone = d.sub.zone /\ d.nsDatas # << >>

VARIABLES
  at,              \* per delegation: its next statement; 0 if none is running
  insertedIds      \* per delegation: rrset.getId() of the sets inserted

toolVars == <<at, insertedIds>>

RRSetsOf(d) == <<d.cert, d.sub>>

\* Mutant: the name servers are inserted before the certificate.
RRsOfNSFirst(d) ==
  [i \in DOMAIN d.nsDatas |-> [set |-> 2, data |-> d.nsDatas[i]]]
    \o <<[set |-> 1, data |-> d.certData]>>

\* The certificate, then the records of the sub-zone, each with its set.
RRsOf(d) ==
  <<[set |-> 1, data |-> d.certData]>>
    \o [i \in DOMAIN d.nsDatas |-> [set |-> 2, data |-> d.nsDatas[i]]]

Statements(d) == Len(RRSetsOf(d)) + Len(RRsOf(d))

ToolInit ==
  /\ at = [d \in Delegation |-> 0]
  /\ insertedIds = [d \in Delegation |-> << >>]

\* The zone is in the database, so doRegisterZone goes on to its statements.
StartTool(d) ==
  /\ at[d] = 0
  /\ at' = [at EXCEPT ![d] = 1]
  /\ insertedIds' = [insertedIds EXCEPT ![d] = << >>]
  /\ UNCHANGED <<rrsets, rrs>>

\* rrsetMgr.insert() for the certificate's set, then for the records'.
RegisterRRSet(d) ==
  /\ at[d] \in DOMAIN RRSetsOf(d)
  /\ InsertRRSet(RRSetsOf(d)[at[d]], "NULL")
  /\ insertedIds' = [insertedIds EXCEPT ![d] = Append(@, NewId(rrsets))]
  /\ at' = [at EXCEPT ![d] = @ + 1]

\* rrMgr.insert() for the certificate, then for each record.
RegisterRR(d) ==
  LET i == at[d] - Len(RRSetsOf(d)) IN
  /\ i \in DOMAIN RRsOf(d)
  /\ InsertRR(insertedIds[d][RRsOf(d)[i].set], RRsOf(d)[i].data)
  /\ at' = [at EXCEPT ![d] = IF @ = Statements(d) THEN 0 ELSE @ + 1]
  /\ UNCHANGED insertedIds

\* The set is there from an earlier call: the unique index refuses the row
\* and the runtime_error leaves main().
RefusedRRSet(d) ==
  /\ at[d] \in DOMAIN RRSetsOf(d)
  /\ HasRRSet(RRSetsOf(d)[at[d]], "NULL")
  /\ at' = [at EXCEPT ![d] = 0]
  /\ UNCHANGED <<rrsets, rrs, insertedIds>>

=============================================================================
