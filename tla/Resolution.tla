----------------------------- MODULE Resolution -----------------------------
(***************************************************************************)
(* What resolving a name means, stated over the database alone and not over *)
(* the resolver's steps, and the properties that compare the two.  They are *)
(* about databases that do not change under the query.                      *)
(***************************************************************************)
EXTENDS NameCachingResolver, FiniteSetsExt

\* The lengths at which the zone of the first i components cuts the name.
CutsBelow(name, i) ==
  {j \in (i + 1) .. Len(name) :
     Lookup(db, GetPrefix(name, i), GetSubName(name, i, j - i), "NS") # << >>}

\* The zones on the way down from the root, each cutting at its next cut.
IsPathOfZones(name, zones) ==
  /\ 0 \in zones
  /\ \A i \in zones : CutsBelow(name, i) # {} => Min(CutsBelow(name, i)) \in zones

ZonesOf(name) ==
  {i \in 0 .. Len(name) : \A zones \in SUBSET (0 .. Len(name)) :
                            IsPathOfZones(name, zones) => i \in zones}

AuthorityOf(name) == Max(ZonesOf(name))

\* The last zone that hands the name on; only for a name below the root zone.
ParentOf(name, n) ==
  CHOOSE i \in ZonesOf(name) : CutsBelow(name, i) # {} /\ Min(CutsBelow(name, i)) = n

RecordsAt(name, n, type) == Lookup(db, GetPrefix(name, n), GetSuffix(name, n), type)

ExpectedRecords(q) ==
  LET n == AuthorityOf(q.rrLabel) IN
  IF q.rrType = "NS"
  THEN IF n = Len(q.rrLabel) /\ n > 0
       THEN RecordsAt(q.rrLabel, ParentOf(q.rrLabel, n), "NS") ELSE << >>
  ELSE RecordsAt(q.rrLabel, n, q.rrType)

ExpectedResponse(q) ==
  [ rrs |-> ExpectedRecords(q),
    type |-> IF ExpectedRecords(q) = << >> THEN "NDNS-Nack" ELSE "NDNS-Resp" ]

\* All hops of the name can be taken: the child's server is running, and
\* with forwarding hints the parent knows the hint the child listens on.
HopsServed(name) ==
  \A i, j \in ZonesOf(name) :
    CutsBelow(name, i) # {} /\ j = Min(CutsBelow(name, i)) =>
      LET child == GetPrefix(name, j)
          ns == Head(Lookup(db, GetPrefix(name, i), GetSubName(name, i, j - i), "NS"))
          hints == Lookup(db, GetPrefix(name, i), ns, "FH") IN
      /\ child \in DOMAIN ServerHint
      /\ EnableForwardingHint => hints # << >> /\ Head(hints) = ServerHint[child]

(***************************************************************************)
(* The questions the resolver can answer.  It has nothing to ask once the   *)
(* whole name is a zone of its own (except for the NS question, which the   *)
(* parent's record answers, and that without forwarding hints only), and it *)
(* never gets past a name that is an inner node above deeper delegations.   *)
(***************************************************************************)
IsInnerNode(name) ==
  LET n == AuthorityOf(name) IN
  n < Len(name) /\ HasAuth(db, GetPrefix(name, n), GetSuffix(name, n), "NS")

Resolvable(q) ==
  /\ HopsServed(q.rrLabel)
  /\ ~IsInnerNode(q.rrLabel)
  /\ AuthorityOf(q.rrLabel) = Len(q.rrLabel)
       => q.rrType = "NS" /\ q.rrLabel # << >> /\ ~EnableForwardingHint

-----------------------------------------------------------------------------
(***************************************************************************)
(* Over a database that does not change, the Response a stub gets is the    *)
(* one the delegations of the database define: right zone, right records,   *)
(* and a Nack exactly when there is no such record.                         *)
(***************************************************************************)
ResolutionCorrect ==
  \A s \in Stub : status[s] = "answered" =>
                    iq[s].lastResponse = ExpectedResponse(iq[s].query)

(***************************************************************************)
(* m_finishedLabelNum counts labels of the name "resolved successfully", so *)
(* it never exceeds their number (iterative-query.hpp:180).                 *)
(***************************************************************************)
FinishedWithinName ==
  \A s \in Stub : iq[s].finishedLabelNum <= Len(DstLabel(s))

(***************************************************************************)
(* A query that goes on after Data asks a question it has not just asked:   *)
(* after an Auth in particular a more specific one.                         *)
(***************************************************************************)
AsksSomethingNew ==
  [][\A s \in Stub :
       status[s] = "delivering" /\ status'[s] = "waiting" =>
         LatestInterest(iq'[s]) # LatestInterest(iq[s])]_vars

(***************************************************************************)
(* Without faults, a question the resolver can answer is never dropped.     *)
(***************************************************************************)
SilentOnlyIfUnresolvable ==
  \A s \in Stub : status[s] = "silent" => ~Resolvable(iq[s].query)

(***************************************************************************)
(* Every question is brought to an end, by an answer or by giving up, but   *)
(* for the names in the middle of a delegation (see IsInnerNode).           *)
(***************************************************************************)
EventuallyEnds ==
  \A s \in Stub :
    (Outstanding(s) /\ ~IsInnerNode(DstLabel(s))) ~> ~Outstanding(s)

(***************************************************************************)
(* What run.sh expects of "dig /net/ndnsim /lo --rrtype=NS": the NS question *)
(* for a delegated name is answered, not dropped.                           *)
(***************************************************************************)
DelegationAnswered ==
  \A s \in Stub :
    /\ status[s] = "silent"
    /\ iq[s].query.rrType = "NS"
    => \/ ExpectedRecords(iq[s].query) = << >>
       \/ ~HopsServed(DstLabel(s))

-----------------------------------------------------------------------------
(***************************************************************************)
(* Over a database that does not change the resolver, with the strategy of  *)
(* either class, implements DelegationWalk: whatever it asks in between,    *)
(* each answer takes a question one zone further, ends it or leaves it      *)
(* where it is.                                                             *)
(***************************************************************************)
StatusNow == [s \in Stub |-> IF Outstanding(s) THEN "open" ELSE status[s]]
QuestionNow == [s \in Stub |-> iq[s].query]
ZoneNow == [s \in Stub |-> iq[s].finishedLabelNum]
ResponseNow ==
  [s \in Stub |-> IF status[s] = "answered" THEN iq[s].lastResponse ELSE InitialResponse]

Walk == INSTANCE DelegationWalk WITH
  status <- StatusNow, question <- QuestionNow, zone <- ZoneNow, response <- ResponseNow

WalkRefinement == Walk!WalkSpec

=============================================================================
