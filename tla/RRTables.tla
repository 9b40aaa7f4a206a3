------------------------------ MODULE RRTables ------------------------------
(***************************************************************************)
(* The tables rrsets and rrs of the SQLite file that all name servers and   *)
(* tools of a host share, with the SQL statements RRSetMgr and RRMgr send.  *)
(* Each statement commits on its own, so each is one step of its process.   *)
(*                                                                          *)
(* A row of rrsets is looked up by its key (zone, label, type); class is a  *)
(* column of the unique index only: DyndnsMgr leaves it empty and           *)
(* ZoneRegister writes the text NULL.  ttl and ndndata are left out.        *)
(***************************************************************************)
EXTENDS NameServer, FiniteSetsExt

VARIABLES
  rrsets,          \* the rows of rrsets
  rrs              \* the rows of rrs

Class == {"", "NULL"}

RRSetRow == [id : Nat \ {0}, key : RRSetKey, class : Class]
RRRow == [id : Nat \ {0}, rrset : Nat, data : Name]

\* INTEGER PRIMARY KEY without AUTOINCREMENT.
NewId(rows) == Max({r.id : r \in rows} \cup {0}) + 1

\* Mutant: m_tempInt is not set to 0 before the statement.
LastIdUnset(rows) == IF rows = {} THEN {0 - 1} ELSE {r.id : r \in rows}

\* What sqlite3_exec leaves in m_tempInt: the id of the last row of the
\* result, in an order the statement does not fix; 0 if there is none.
LastId(rows) == IF rows = {} THEN {0} ELSE {r.id : r \in rows}

-----------------------------------------------------------------------------
\* Mutant: the rows of every zone with this label and type.
SelectRRSetOfAnyZone(key) ==
  {r \in rrsets : r.key.label = key.label /\ r.key.type = key.type}

\* RRSetMgr::lookupIds: zone_id, label and type, whatever the class.
SelectRRSet(key) == {r \in rrsets : r.key = key}

\* RRMgr::lookupIds.
SelectRR(rrset, data) == {r \in rrs : r.rrset = rrset /\ r.data = data}

\* RRSetMgr::insert; the unique index refuses a second row of the same class.
HasRRSet(key, class) == \E r \in rrsets : r.key = key /\ r.class = class

InsertRRSet(key, class) ==
  /\ ~HasRRSet(key, class)
  /\ rrsets' = rrsets \cup {[id |-> NewId(rrsets), key |-> key, class |-> class]}
  /\ UNCHANGED rrs

\* Mutant: the tables are created without the trigger rrs_update.
InsertRRWithoutTrigger(rrset, data) ==
  /\ rrs' = rrs \cup {[id |-> NewId(rrs), rrset |-> rrset, data |-> data]}
  /\ UNCHANGED rrsets

\* RRMgr::insert, with the trigger rrs_update that runs before the new row
\* has its id.
InsertRR(rrset, data) ==
  LET others == rrs \ SelectRR(rrset, data) IN
  /\ rrs' = others \cup {[id |-> NewId(others), rrset |-> rrset, data |-> data]}
  /\ UNCHANGED rrsets

\* RRMgr::remove.
DeleteRR(id) == rrs' = {r \in rrs : r.id # id} /\ UNCHANGED rrsets

\* RRSetMgr::removeRelatedRRs.
DeleteRRsOf(rrset) == rrs' = {r \in rrs : r.rrset # rrset} /\ UNCHANGED rrsets

-----------------------------------------------------------------------------
\* The data of rows, ORDER BY id: a row has as many before it as its place says.
InOrder(rows) ==
  LET Before(r) == {q \in rows : q.id < r.id} IN
  [i \in 1 .. Cardinality(rows) |->
     (CHOOSE r \in rows : Cardinality(Before(r)) = i - 1).data]

\* SELECT ... FROM rrs WHERE rrset_id=... ORDER BY id.
Records(rrset) == InOrder({r \in rrs : r.rrset = rrset})

\* What QueryMgr::lookup may find for a key.
Findable(key) == {Records(id) : id \in LastId(SelectRRSet(key))}

\* What the two CREATE TABLE statements and the trigger ask of their rows.
IsRRSetTable(rows) ==
  /\ rows \subseteq RRSetRow /\ IsFiniteSet(rows)
  /\ \A r, q \in rows : r.id = q.id => r = q
  /\ \A r, q \in rows : r.key = q.key /\ r.class = q.class => r = q

IsRRTable(rows, sets) ==
  /\ rows \subseteq RRRow /\ IsFiniteSet(rows)
  /\ \A r, q \in rows : r.id = q.id => r = q
  /\ \A r, q \in rows : r.rrset = q.rrset /\ r.data = q.data => r = q
  /\ \A r \in rows : \E s \in sets : s.id = r.rrset

TablesTypeOK ==
  /\ rrsets \subseteq RRSetRow
  /\ rrs \subseteq RRRow
  /\ \A r, q \in rrsets : r.id = q.id => r = q
  /\ \A r, q \in rrs : r.id = q.id => r = q

(***************************************************************************)
(* An RR set holds no data twice, although writers look before they insert  *)
(* and others may insert in between: the trigger sees to it.                *)
(***************************************************************************)
NoDuplicateRR ==
  \A r, q \in rrs : r.rrset = q.rrset /\ r.data = q.data => r = q

(***************************************************************************)
(* Every RR belongs to a row of rrsets: the FOREIGN KEY of the table, which *)
(* SQLite does not enforce unless it is told to, and nobody tells it.       *)
(***************************************************************************)
EveryRRHasItsSet == \A r \in rrs : \E s \in rrsets : s.id = r.rrset

=============================================================================
