------------------------------ MODULE NameDig ------------------------------
(***************************************************************************)
(* The tool dig as the resolver's stub.  It sends its Interest once per try *)
(* and takes the first Data whose name extends the Interest's, which may be *)
(* the answer to an earlier try, or of an earlier run, from a cache on the  *)
(* way.  The resolver starts a query of its own for every Interest that     *)
(* reaches it and names its answer after the Query it has read.             *)
(***************************************************************************)
EXTENDS NameCachingResolver, NamePatterns

CONSTANTS
  Dig,             \* the dig processes
  DigQuestion,     \* the names and types they are called with
  ResolverName,    \* the routable prefix of the resolver
  InterestTriedMax \* m_interestTriedMax

ASSUME NameDigAssumption ==
  /\ DigQuestion \subseteq [label : Name, type : AnyType]
  /\ ResolverName \in Name
  /\ InterestTriedMax \in Nat \ {0}

VARIABLES
  heard,           \* per stub of the resolver: m_query, as it was read
  dig,             \* per dig: whether it runs, or how it ended
  wants,           \* per dig: m_dstLabel and m_rrType
  interestTriedNum,\* per dig: m_interestTriedNum
  got              \* per dig: the Response of onData

digOnly == <<dig, wants, interestTriedNum, got>>
digVars == <<vars, heard, digOnly>>

DigState == {"idle", "waiting", "success", "failed"}

\* What Query::Query() leaves of an Interest that fromInterest cannot read.
DefaultFields ==
  [hint |-> << >>, zone |-> << >>, queryType |-> "DNS",
   label |-> DefaultQuery.rrLabel, type |-> DefaultQuery.rrType]

Read(name) == IF MatchQueryName(name) THEN QueryFieldsOf(name) ELSE DefaultFields

\* Mutant: setRrType is forgotten.
ToInterestOfDefaultType(w) ==
  QueryName([hint |-> << >>, zone |-> ResolverName, queryType |-> "DNS-R",
             label |-> w.label, type |-> "NS"])

\* NameDig::toInterest.
ToInterest(w) ==
  QueryName([hint |-> << >>, zone |-> ResolverName, queryType |-> "DNS-R",
             label |-> w.label, type |-> w.type])

\* What the resolver reads of a dig's Interest.
Heard == [w \in DigQuestion |-> Read(ToInterest(w))]

\* Mutant: the Data is named after the label asked, whoever's it is.
AnswerNameByLabel(fields) ==
  DataName([fields EXCEPT !.hint = << >>, !.zone = ResolverName, !.queryType = "DNS-R"])

\* The resolver's onData: the name of the Data for the stub.
AnswerName(fields) == DataName([fields EXCEPT !.hint = << >>])

DigInit ==
  /\ Init
  /\ heard = [s \in Stub |-> DefaultFields]
  /\ dig = [d \in Dig |-> "idle"]
  /\ \E w \in DigQuestion : wants = [d \in Dig |-> w]
  /\ interestTriedNum = [d \in Dig |-> 0]
  /\ got = [d \in Dig |-> InitialResponse]

-----------------------------------------------------------------------------
\* The Interest reaches the resolver, or it is lost, or merged with an
\* earlier one that is pending, or met by Data on the way.
ExpressInterest(w) ==
  LET fields == Heard[w] IN
  \/ \E s \in Stub : /\ OnInterest(s, [rrLabel |-> fields.label, rrType |-> fields.type])
                     /\ heard' = [heard EXCEPT ![s] = fields]
  \/ UNCHANGED <<vars, heard>>

\* main() and run(): a new process.
StartDig(d, w) ==
  /\ dig[d] # "waiting"
  /\ dig' = [dig EXCEPT ![d] = "waiting"]
  /\ wants' = [wants EXCEPT ![d] = w]
  /\ interestTriedNum' = [interestTriedNum EXCEPT ![d] = 1]
  /\ got' = [got EXCEPT ![d] = InitialResponse]
  /\ ExpressInterest(w)

\* onData: the first Data stops the face.
OnDigData(d) ==
  /\ dig[d] = "waiting"
  /\ \E s \in Stub :
       /\ status[s] = "answered"
       /\ GetPrefix(AnswerName(heard[s]), Len(ToInterest(wants[d]))) = ToInterest(wants[d])
       /\ got' = [got EXCEPT ![d] = iq[s].lastResponse]
  /\ dig' = [dig EXCEPT ![d] = "success"]
  /\ UNCHANGED <<vars, heard, wants, interestTriedNum>>

\* onTimeout, the last try: "All Interests timeout".
GiveUp(d) ==
  /\ dig[d] = "waiting"
  /\ interestTriedNum[d] >= InterestTriedMax
  /\ dig' = [dig EXCEPT ![d] = "failed"]
  /\ UNCHANGED <<vars, heard, wants, interestTriedNum, got>>

\* Mutant: one Interest more than allowed.
TryAgainOneMore(d) ==
  /\ dig[d] = "waiting"
  /\ interestTriedNum[d] <= InterestTriedMax
  /\ interestTriedNum' = [interestTriedNum EXCEPT ![d] = @ + 1]
  /\ ExpressInterest(wants[d])
  /\ UNCHANGED <<dig, wants, got>>

\* Mutant: sendQuery does not count.
TryAgainUncounted(d) ==
  /\ dig[d] = "waiting"
  /\ interestTriedNum[d] < InterestTriedMax
  /\ ExpressInterest(wants[d])
  /\ UNCHANGED digOnly

\* onTimeout, an earlier try: the Interest is built and sent again.
TryAgain(d) ==
  /\ dig[d] = "waiting"
  /\ interestTriedNum[d] < InterestTriedMax
  /\ interestTriedNum' = [interestTriedNum EXCEPT ![d] = @ + 1]
  /\ ExpressInterest(wants[d])
  /\ UNCHANGED <<dig, wants, got>>

\* expressInterest or processEvents throws: m_hasError, whatever may come.
FaceFails(d) ==
  /\ "stop" \in Faults
  /\ dig[d] = "waiting"
  /\ dig' = [dig EXCEPT ![d] = "failed"]
  /\ UNCHANGED <<vars, heard, wants, interestTriedNum, got>>

ResolverStep ==
  /\ \/ \E s \in Stub :
          ServerOnInterest(s) \/ CacheReply(s) \/ ForeignReply(s) \/ OnData(s) \/ OnTimeout(s)
     \/ Stop
     \/ Run
     \/ DynamicUpdate
  /\ UNCHANGED <<heard, digOnly>>

DigNext ==
  \/ \E d \in Dig :
       \/ \E w \in DigQuestion : StartDig(d, w)
       \/ OnDigData(d)
       \/ GiveUp(d)
       \/ TryAgain(d)
       \/ FaceFails(d)
  \/ ResolverStep

\* ndn-cxx's timer fires for every Interest without Data.
DigSpec ==
  DigInit /\ [][DigNext]_digVars /\ \A d \in Dig : WF_digVars(GiveUp(d) \/ TryAgain(d))

-----------------------------------------------------------------------------
\* Every variable of dig stays in its type, and no dig sends too often.
DigTypeOK ==
  /\ heard \in [Stub -> QueryFields]
  /\ dig \in [Dig -> DigState]
  /\ wants \in [Dig -> DigQuestion]
  /\ interestTriedNum \in [Dig -> 0 .. InterestTriedMax]
  /\ got \in [Dig -> Response]

(***************************************************************************)
(* What dig prints was published, for the name and type it was called with, *)
(* by a zone that is delegated from the root, whichever try or earlier run  *)
(* the Data was meant for and however the resolver reads the Interest: a    *)
(* misread question is not answered at all.                                 *)
(***************************************************************************)
DigGotItsOwn ==
  \A d \in Dig : dig[d] = "success" =>
    LET asked == [query |-> [rrLabel |-> wants[d].label, rrType |-> wants[d].type],
                  lastResponse |-> got[d]] IN
    \E n \in 0 .. Len(wants[d].label) :
      /\ \E data \in published : Answers(data, asked, n)
      /\ ReachedByDelegation(wants[d].label, n)

(***************************************************************************)
(* A dig ends, whether or not any of its Interests or their Data arrive and *)
(* whatever becomes of the resolver: only its own timer has to fire.        *)
(***************************************************************************)
DigEnds == \A d \in Dig : dig[d] = "waiting" ~> dig[d] # "waiting"

=============================================================================
