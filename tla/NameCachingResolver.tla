------------------------ MODULE NameCachingResolver ------------------------
(***************************************************************************)
(* The resolver daemon between its stubs and the name servers.              *)
(*                                                                          *)
(* onInterest starts an iterative query for a stub; resolve sends its next  *)
(* Interest with the IQ object copied into the two callbacks; onData feeds  *)
(* the Data to the object and answers the stub, asks on or gives up;        *)
(* onTimeout gives up.  The queries of different stubs interleave, name     *)
(* servers are updated meanwhile, and Data may come from any cache of the   *)
(* network, since no Interest asks for fresh Data (Query::toInterest sets   *)
(* no MustBeFresh).                                                         *)
(***************************************************************************)
EXTENDS IterativeQueryWithForwardingHint, NameServer

CONSTANTS
  Stub,            \* the stubs; each has at most one question outstanding
  Question,        \* the questions stubs ask
  InitialDatabases,\* what the RR sets of all zones may be in the beginning
  Updatable,       \* pairs of an RR set and data dynamic updates add, remove
                   \* or put there
  ServerHint,      \* zones with a running name server, each with its hint
  RootHint,        \* the --hint option; the empty name: no forwarding hints
  Faults,          \* subset of {"loss", "foreign", "stop"}
  MaxRrLabelLen    \* bound of the model on m_rrLabelLen

ASSUME ResolverAssumption ==
  /\ Question \subseteq Query
  /\ InitialDatabases \subseteq Database
  /\ Updatable \subseteq RRSetKey \X Name
  /\ RootHint \in Name
  /\ Faults \subseteq {"loss", "foreign", "stop"}
  /\ MaxRrLabelLen \in Nat

VARIABLES
  running,         \* the resolver process is up
  db,              \* the database behind the name servers
  published,       \* all Data name servers have put: what caches may hold
  status,          \* per stub: where its question is
  iq,              \* per stub: the IQ object in the pending callbacks
  reply            \* per stub: the Response on its way back to the resolver

vars == <<running, db, published, status, iq, reply>>

Status == {"idle",        \* nothing asked yet
           "waiting",     \* the resolver's Interest is out
           "delivering",  \* Data for it is on the way
           "answered",    \* Data with m_lastResponse was put for the stub
           "silent"}      \* the resolver gave up and the stub gets nothing

Outstanding(s) == status[s] \in {"waiting", "delivering"}

\* The daemon chooses the strategy by the --hint option.
EnableForwardingHint == RootHint # << >>

StrategyDoData(q, re) ==
  IF EnableForwardingHint THEN DoDataFH(q, re) ELSE DoData(q, re)

\* The Interest resolve() sends for the object; m_lastInterest afterwards.
LatestInterest(q) ==
  IF EnableForwardingHint THEN ToLatestInterestFH(q) ELSE ToLatestInterest(q)

\* A server listens on <zone>/DNS and on <its hint>/%F0./<zone>/DNS.
Reachable(interest) ==
  /\ interest.zone \in DOMAIN ServerHint
  /\ interest.hint \in {<< >>, ServerHint[interest.zone]}

WillBeAnswered(interest) == Reachable(interest) /\ IsLegal(interest)

Init ==
  /\ running = TRUE
  /\ db \in InitialDatabases
  /\ published = {}
  /\ status = [s \in Stub |-> "idle"]
  /\ iq = [s \in Stub |-> NewIQ(DefaultQuery)]
  /\ reply = [s \in Stub |-> InitialResponse]

-----------------------------------------------------------------------------
(***************************************************************************)
(* onInterest: a new IQ object, with the root zone's hint when hints are    *)
(* enabled, and its first Interest.  A question whose name does not parse   *)
(* leaves the default Query, the empty name and type NS, and goes on.       *)
(***************************************************************************)
StartIQ(q) ==
  IF EnableForwardingHint
  THEN [NewIQ(q) EXCEPT !.forwardingHint = RootHint,
                        !.lastForwardingHint = RootHint]
  ELSE NewIQ(q)

OnInterest(s, q) ==
  /\ running
  /\ ~Outstanding(s)
  /\ iq' = [iq EXCEPT ![s] = StartIQ(q)]
  /\ status' = [status EXCEPT ![s] = "waiting"]
  /\ UNCHANGED <<running, db, published, reply>>

Deliver(s, re) ==
  /\ reply' = [reply EXCEPT ![s] = re]
  /\ status' = [status EXCEPT ![s] = "delivering"]

(***************************************************************************)
(* NameServer::onInterest, query branch: the server of the zone answers.    *)
(* Its other branch, the illegal name, does nothing: the Interest waits.    *)
(***************************************************************************)
ServerOnInterest(s) ==
  LET interest == LatestInterest(iq[s])
      re == Answer(db, interest) IN
  /\ status[s] = "waiting"
  /\ WillBeAnswered(interest)
  /\ Deliver(s, re)
  /\ published' = published \cup {[interest |-> interest, response |-> re]}
  /\ UNCHANGED <<running, db, iq>>

\* A cache answers with Data published earlier under the same name.
CacheReply(s) ==
  /\ status[s] = "waiting"
  /\ \E data \in published :
       /\ data.interest = LatestInterest(iq[s])
       /\ Deliver(s, data.response)
  /\ UNCHANGED <<running, db, published, iq>>

\* Data whose response type the resolver does not know.
ForeignReply(s) ==
  /\ "foreign" \in Faults
  /\ status[s] = "waiting"
  /\ Deliver(s, [type |-> "UNKNOWN", rrs |-> << >>])
  /\ UNCHANGED <<running, db, published, iq>>

(***************************************************************************)
(* onData: doData, then answer the stub, ask on, or return silently.        *)
(***************************************************************************)
StatusAfter(step) ==
  CASE step = "AnswerStub" -> "answered"
    [] step \in {"NSQuery", "RRQuery", "FHQuery"} -> "waiting"
    [] step = "Abort" -> "silent"

OnData(s) ==
  LET next == StrategyDoData(iq[s], reply[s]) IN
  /\ running
  /\ status[s] = "delivering"
  /\ next.rrLabelLen <= MaxRrLabelLen
  /\ iq' = [iq EXCEPT ![s] = next]
  /\ status' = [status EXCEPT ![s] = StatusAfter(next.step)]
  /\ UNCHANGED <<running, db, published, reply>>

(***************************************************************************)
(* onTimeout: doTimeout only prints.  The Interest, or the Data for it, was *)
(* lost, or no server answers such an Interest; Data that comes later finds *)
(* no callback.                                                             *)
(***************************************************************************)
OnTimeout(s) ==
  /\ running
  /\ \/ status[s] = "waiting" /\ ~WillBeAnswered(LatestInterest(iq[s]))
     \/ Outstanding(s) /\ "loss" \in Faults
  /\ status' = [status EXCEPT ![s] = "silent"]
  /\ UNCHANGED <<running, db, published, iq, reply>>

\* A signal, or an exception out of processEvents: all callbacks are gone.
Stop ==
  /\ "stop" \in Faults
  /\ running
  /\ running' = FALSE
  /\ status' = [s \in Stub |-> IF Outstanding(s) THEN "silent" ELSE status[s]]
  /\ UNCHANGED <<db, published, iq, reply>>

\* run() of a new process: it knows nothing of the questions before.
Run ==
  /\ ~running
  /\ running' = TRUE
  /\ UNCHANGED <<db, published, status, iq, reply>>

\* NameServer::onInterest, update branch, on some RR set.
Update(key, action, data) ==
  /\ db[key] # Updated(db[key], action, data)
  /\ db' = [db EXCEPT ![key] = Updated(@, action, data)]
  /\ UNCHANGED <<running, published, status, iq, reply>>

DynamicUpdate ==
  \E u \in Updatable, action \in {"ADD", "REMOVE", "REPLACE-ALL"} :
    Update(u[1], action, u[2])

Next ==
  \/ \E s \in Stub :
       \/ \E q \in Question : OnInterest(s, q)
       \/ ServerOnInterest(s)
       \/ CacheReply(s)
       \/ ForeignReply(s)
       \/ OnData(s)
       \/ OnTimeout(s)
  \/ Stop
  \/ Run
  \/ DynamicUpdate

Spec == Init /\ [][Next]_vars

(***************************************************************************)
(* The face's event loop runs every pending callback, the ndn-cxx timer     *)
(* fires for every Interest without Data, and a reachable server answers.   *)
(***************************************************************************)
Fairness ==
  \A s \in Stub : /\ WF_vars(ServerOnInterest(s))
                  /\ WF_vars(OnData(s))
                  /\ WF_vars(OnTimeout(s))

FairSpec == Spec /\ Fairness

-----------------------------------------------------------------------------
(***************************************************************************)
(* Properties that hold whatever the servers are updated to, whichever      *)
(* cache answers and whatever is lost.                                      *)
(***************************************************************************)
\* Every variable stays in its type.
TypeOK ==
  /\ running \in BOOLEAN
  /\ db \in Database
  /\ published \subseteq Data
  /\ status \in [Stub -> Status]
  /\ iq \in [Stub -> IQ]
  /\ reply \in [Stub -> Response]

DstLabel(s) == iq[s].query.rrLabel

\* Some server of the zone of the first i components of the name has put an
\* NS record for the next components up to the j-th.
Delegates(name, i, j) ==
  \E data \in published :
    /\ data.interest.zone = GetPrefix(name, i)
    /\ data.interest.label = GetSubName(name, i, j - i)
    /\ data.interest.type = "NS"
    /\ data.response.type = "NDNS-Resp"

\* Zone n is reached from the root by published delegations: every set of
\* zones with the root in it and closed under them contains n.
ReachedByDelegation(name, n) ==
  \A zones \in SUBSET (0 .. n) :
    /\ 0 \in zones
    /\ \A i \in zones : \A j \in 0 .. n :
         i < j /\ Delegates(name, i, j) => j \in zones
    => n \in zones

(***************************************************************************)
(* The zone a query is in was reached from the root zone by NS records that *)
(* the name servers above it really published: m_finishedLabelNum never     *)
(* moves to a zone nobody delegated, however answers are delayed, cached or *)
(* overtaken by updates.                                                    *)
(***************************************************************************)
AuthorityChain ==
  \A s \in Stub : ReachedByDelegation(DstLabel(s), iq[s].finishedLabelNum)

(***************************************************************************)
(* The Response a stub gets was published by a zone on that chain, for the  *)
(* type the stub asked; records are those of exactly the rest of its name,  *)
(* a Nack is for a leading part of the rest.                                *)
(***************************************************************************)
Answers(data, q, n) ==
  LET rest == GetSuffix(q.query.rrLabel, n)
      label == data.interest.label IN
  /\ data.response = q.lastResponse
  /\ data.interest.zone = GetPrefix(q.query.rrLabel, n)
  /\ data.interest.type = q.query.rrType
  /\ \/ data.response.type = "NDNS-Resp" /\ label = rest
     \/ data.response.type = "NDNS-Nack" /\ label = GetPrefix(rest, Len(label))

AnsweredByAuthority(q) ==
  \E data \in published : \E n \in {q.finishedLabelNum, q.lastFinishedLabelNum} :
    Answers(data, q, n) /\ ReachedByDelegation(q.query.rrLabel, n)

AnswerFromAuthority ==
  \A s \in Stub : status[s] = "answered" => AnsweredByAuthority(iq[s])

(***************************************************************************)
(* With forwarding hints, the hint a query uses for its present zone is the *)
(* first FH record the parent published for the first name server of the    *)
(* delegation it followed, asked for under the hint of the parent.          *)
(***************************************************************************)
HintFromParent ==
  \A s \in Stub :
    LET q == iq[s]
        parent == GetPrefix(DstLabel(s), q.lastFinishedLabelNum) IN
    EnableForwardingHint /\ q.finishedLabelNum > 0 =>
      \E delegation, hint \in published :
        /\ delegation.interest =
             [ hint |-> q.lastForwardingHint, zone |-> parent, type |-> "NS",
               label |-> GetSubName(DstLabel(s), q.lastFinishedLabelNum,
                                    q.finishedLabelNum - q.lastFinishedLabelNum) ]
        /\ delegation.response.rrs # << >>
        /\ hint.interest =
             [ hint |-> q.lastForwardingHint, zone |-> parent, type |-> "FH",
               label |-> Head(delegation.response.rrs) ]
        /\ hint.response.rrs # << >>
        /\ Head(hint.response.rrs) = q.forwardingHint

=============================================================================
