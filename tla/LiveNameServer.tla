--------------------------- MODULE LiveNameServer ---------------------------
(***************************************************************************)
(* NameServer::onInterest as a running server executes it: it hears a name,  *)
(* finds out by the patterns whether that is an update or a query and what   *)
(* it is about, and executes it statement by statement, while zone-delegate  *)
(* and the servers of other zones write to the same database file.           *)
(***************************************************************************)
EXTENDS SharedDatabase, QueryMgr, NamePatterns

CONSTANTS
  Question,        \* what stubs and resolvers ask
  ForwardingHint   \* per server: m_forwardingHint; empty if it has none

ASSUME LiveNameServerAssumption ==
  /\ Question \subseteq QueryFields
  /\ ForwardingHint \in [Server -> Name]

VARIABLES
  asked,           \* per server: the set its client means
  seen             \* per server: what Answer made of the database at each
                   \* moment since the query came (both are history variables)

liveVars == <<vars, queryVars, asked, seen>>

-----------------------------------------------------------------------------
\* The name prefixes of run(); a server's prefix is the name of its zone.
Filters(z) ==
  {Append(z, "DNS")}
    \cup {Append(hint, HintMark) \o Append(z, "DNS") : hint \in {ForwardingHint[z]} \ {<< >>}}

Reaches(name, z) == \E filter \in Filters(z) : GetPrefix(name, Len(filter)) = filter

\* The set that fields are about for the server of z, whatever zone they name.
KeyFor(z, fields) == [zone |-> z, label |-> fields.label, type |-> fields.type]

\* Query::fromInterest.
HearQuery(z, q) ==
  LET name == QueryName(q) IN
  /\ Reaches(name, z)
  /\ ~MatchUpdateName(name) /\ MatchQueryName(name)
  /\ ReceiveQuery(z, KeyFor(z, QueryFieldsOf(name)))
  /\ asked' = [asked EXCEPT ![z] = KeyFor(q.zone, q)]
  /\ UNCHANGED <<toolVars, before>>

\* Mutant: the client does not append m_rrLabel.
UpdateContentWithoutLabel(key) ==
  DataName([hint |-> << >>, zone |-> key.zone, queryType |-> "DNS",
            label |-> << >>, type |-> key.type])

\* What a client puts into an update: DynamicDNSUpdate::toInterest.
UpdateContent(key) ==
  DataName([hint |-> << >>, zone |-> key.zone, queryType |-> "DNS",
            label |-> key.label, type |-> key.type])

\* QueryUpdate::fromInterest.  What is no signed update at its place throws.
HearUpdate(z, r) ==
  LET name == UpdateName(<< >>, r.key.zone) IN
  /\ Reaches(name, z)
  /\ MatchUpdateName(name) /\ SignedUpdateOf(name) = SignedUpdate
  /\ ReceiveUpdate(z, [r EXCEPT !.key = KeyFor(z, LabelAndType(UpdateContent(r.key)))])
  /\ asked' = [asked EXCEPT ![z] = r.key]

Hear(z) ==
  \/ \E q \in Question : HearQuery(z, q)
  \/ /\ \E r \in Request : HearUpdate(z, r)
     /\ UNCHANGED queryVars

\* Between two Interests nothing is asked.
ForgetAsked(z) ==
  asked' = [asked EXCEPT ![z] = IF pc'[z] \in {"idle", "down"} THEN NoQuestion ELSE @]

ExecuteQuery(z) ==
  /\ LookupIds(z) \/ SelectRRs(z) \/ CountAuth(z) \/ Reply(z)
  /\ ForgetAsked(z)
  /\ UNCHANGED <<toolVars, before>>

ExecuteUpdate(z) ==
  /\ ServerStep(z) \/ AnswerUpdate(z)
  /\ ForgetAsked(z)
  /\ UNCHANGED queryVars

\* A query holds no lock between its statements, and one that is refused
\* throws out of onInterest into run(), which ends the server.
QueryFails(z) ==
  /\ "busy" \in Failures
  /\ pc[z] \in QueryStatement
  /\ (\E y \in Server : pc[y] \in Writing) \/ (\E d \in Delegation : at[d] # 0)
  /\ Dies(z)

\* The handler's locals go with the process.
End(z) ==
  /\ StatementFails(z) \/ QueryFails(z) \/ Crash(z)
  /\ question' = [question EXCEPT ![z] = NoQuestion]
  /\ foundId' = [foundId EXCEPT ![z] = 0]
  /\ response' = [response EXCEPT ![z] = InitialResponse]
  /\ ForgetAsked(z)

Others ==
  /\ \/ \E z \in Server : Restart(z)
     \/ \E d \in Delegation : ToolStep(d) \/ ToolCrash(d)
  /\ UNCHANGED <<queryVars, asked>>

-----------------------------------------------------------------------------
\* The database as module NameServer sees it, once for each row that a
\* look-up of the set may find; below it any row counts.
Views(key) ==
  {[k \in RRSetKey |-> IF k = key THEN records
                       ELSE CHOOSE found \in Findable(k) :
                              found # << >> \/ Findable(k) = {<< >>}] :
     records \in Findable(key)}

AnswersNow(key) == {Answer(v, key) : v \in Views(key)}

Watch ==
  seen' = [z \in Server |->
             CASE pc'[z] \notin Querying -> {}
               [] pc'[z] = "lookupIds" /\ pc[z] = "idle" -> AnswersNow(asked[z])'
               [] OTHER -> seen[z] \cup AnswersNow(asked[z])']

LiveInit ==
  /\ Init
  /\ QueryInit
  /\ asked = [z \in Server |-> NoQuestion]
  /\ seen = [z \in Server |-> {}]

LiveNext ==
  /\ (\E z \in Server : Hear(z) \/ ExecuteQuery(z) \/ ExecuteUpdate(z) \/ End(z)) \/ Others
  /\ Watch

LiveSpec == LiveInit /\ [][LiveNext]_liveVars

-----------------------------------------------------------------------------
\* Every variable stays in its type.
LiveTypeOK ==
  /\ TablesTypeOK
  /\ pc \in [Server -> PC \cup Querying]
  /\ \A z \in Server : question[z] \in {NoQuestion} \cup
                         [zone : {z}, label : Name, type : RRType]
  /\ foundId \in [Server -> Nat]
  /\ response \in [Server -> Response]

(***************************************************************************)
(* What a server replies is what the database said, at one moment while the *)
(* query was executed, of the set its client meant, although the question   *)
(* went through a name and three statements and others wrote in between.    *)
(* So a query may be taken for one step (Answer).  For names that are Plain.*)
(***************************************************************************)
ReplyIsOfAMoment ==
  \A z \in Server : pc[z] = "reply" => response[z] \in seen[z]

(***************************************************************************)
(* When a server acknowledges an update that brings data, the data are in   *)
(* the set the client meant, also while zone-delegate writes that set.  For *)
(* names that are Plain.                                                    *)
(***************************************************************************)
AddedWhereMeant ==
  \A z \in Server :
    pc[z] = "answer" /\ request[z].action \in {"ADD", "REPLACE-ALL"} =>
      HoldsIn(asked[z], request[z].data)

(***************************************************************************)
(* Reading a query's Interest gives the label it was made with, as          *)
(* tests/unit/query.cpp:52 has it: q.getRrLabel() is q2.getRrLabel().       *)
(***************************************************************************)
LabelIsReadBack ==
  \A z \in Server : pc[z] \in Querying => question[z].label = asked[z].label

-----------------------------------------------------------------------------
(***************************************************************************)
(* Queries, and the names in which updates come, add nothing to what        *)
(* happens to the database: each step of a live server is one that module   *)
(* SharedDatabase has of an update a client sent, or changes nothing there. *)
(* A server that answers a query is idle in that module.                    *)
(***************************************************************************)
Updates == INSTANCE SharedDatabase WITH
  pc <- [z \in Server |-> IF pc[z] \in Querying THEN "idle" ELSE pc[z]]

UpdatesOnly == Updates!Spec

=============================================================================
