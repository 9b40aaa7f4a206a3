---------------------- MODULE NameCachingResolver_proofs ----------------------
(***************************************************************************)
(* Proofs about the resolver for every database, set of stubs, questions,   *)
(* updates, faults and hints; at the end, of what module Resolution says    *)
(* for databases that do not change.                                        *)
(***************************************************************************)
EXTENDS Resolution, NameServer_proofs

-----------------------------------------------------------------------------
(***************************************************************************)
(* The invariant.  Next to the types it says what is known of the Data in   *)
(* the network and of the steps an IQ object can be in.                     *)
(***************************************************************************)
\* Data a name server has put: never for an empty label, records come exactly
\* with the type NDNS-Resp, and only questions for NS are answered by an Auth.
ServerData(data) ==
  /\ data.interest.label # << >>
  /\ data.response.type \in {"NDNS-Resp", "NDNS-Nack", "NDNS-Auth"}
  /\ data.response.type = "NDNS-Resp" => data.response.rrs # << >>
  /\ data.response.type = "NDNS-Auth" => data.interest.type = "NS"

PublishedByServers == \A data \in published : ServerData(data)

\* The steps of an object that has an Interest out.
StepOK(q) ==
  /\ q.rrLabelLen >= 1
  /\ q.step = "RRQuery" => q.query.rrType # "NS"
  /\ q.step = "FHQuery" => EnableForwardingHint

\* Between two zones m_lastResponse is the delegation the query follows.
DelegationInHand(q) ==
  \E data \in published :
    /\ data.interest.zone = AuthorityZone(q)
    /\ data.interest.label =
         GetSubName(q.query.rrLabel, q.finishedLabelNum, q.rrLabelLen)
    /\ data.interest.type = "NS"
    /\ data.response = q.lastResponse
    /\ data.response.type = "NDNS-Resp"

\* AuthorityChain, and the same for the parent of the present zone.
Chain(q) ==
  /\ ReachedByDelegation(q.query.rrLabel, q.finishedLabelNum)
  /\ ReachedByDelegation(q.query.rrLabel, q.lastFinishedLabelNum)

ObjectInv(q) ==
  /\ StepOK(q)
  /\ Chain(q)
  /\ q.step = "FHQuery" => DelegationInHand(q)

\* Data on the way back answers the Interest that is out, or is foreign.
ReplyGenuine(q, re) ==
  \/ re.type = "UNKNOWN"
  \/ [interest |-> LatestInterest(q), response |-> re] \in published

StubInv(s) ==
  /\ ObjectInv(iq[s])
  /\ Outstanding(s) => iq[s].step \in {"NSQuery", "RRQuery", "FHQuery"}
  /\ status[s] = "delivering" => ReplyGenuine(iq[s], reply[s])
  /\ status[s] = "answered" => AnsweredByAuthority(iq[s])

IInv == /\ TypeOK
        /\ PublishedByServers
        /\ \A s \in Stub : StubInv(s)

-----------------------------------------------------------------------------
(***************************************************************************)
(* The types of the operators.                                              *)
(***************************************************************************)
\* The server's answer: a Response, with records exactly in a NDNS-Resp.
LEMMA AnswerType ==
  ASSUME NEW d \in Database, NEW interest \in Interest
  PROVE  /\ Answer(d, interest) \in Response
         /\ Answer(d, interest).type \in {"NDNS-Resp", "NDNS-Nack", "NDNS-Auth"}
         /\ Answer(d, interest).type = "NDNS-Resp"
              => Answer(d, interest).rrs # << >>
         /\ Answer(d, interest).type = "NDNS-Auth" => interest.type = "NS"
<1> DEFINE rrs == Lookup(d, interest.zone, interest.label, interest.type)
<1>1. rrs \in Seq(Name)
  BY EmptySeq DEF Lookup, Database
<1> HIDE DEF rrs
<1>2. /\ Answer(d, interest).rrs = rrs
      /\ Answer(d, interest).type \in {"NDNS-Resp", "NDNS-Nack", "NDNS-Auth"}
      /\ Answer(d, interest).type = "NDNS-Resp" => rrs # << >>
      /\ Answer(d, interest).type = "NDNS-Auth" => interest.type = "NS"
  BY DEF Answer, rrs
<1>3. Answer(d, interest) = [rrs  |-> Answer(d, interest).rrs,
                             type |-> Answer(d, interest).type]
  BY DEF Answer
<1>4. QED
  BY <1>1, <1>2, <1>3 DEF Response, ResponseType

\* The constructor and its hints.
LEMMA StartIQType ==
  ASSUME NEW q \in Query
  PROVE  /\ NewIQ(q) \in IQ
         /\ StartIQ(q) \in IQ
         /\ StartIQ(q).query = q
         /\ StartIQ(q).step = "NSQuery"
         /\ StartIQ(q).rrLabelLen = 1
         /\ StartIQ(q).finishedLabelNum = 0
         /\ StartIQ(q).lastFinishedLabelNum = 0
<1>1. RootHint \in Name
  BY ResolverAssumption
<1>2. << >> \in Name /\ << >> \in Seq(Name)
  BY EmptySeq DEF Name
<1>3. InitialResponse \in Response
  BY <1>2 DEF InitialResponse, Response, ResponseType
<1>4. NewIQ(q) \in IQ
  BY <1>2, <1>3 DEF NewIQ, IQ, QueryStep
<1>5. QED
  BY <1>1, <1>4 DEF StartIQ, NewIQ, IQ

\* The Interest for an object.
LEMMA LatestInterestType ==
  ASSUME NEW q \in IQ, q.step = "FHQuery" => q.lastResponse.rrs # << >>
  PROVE  LatestInterest(q) \in Interest
<1>1. q.query.rrLabel \in Name /\ q.finishedLabelNum \in Nat /\ q.rrLabelLen \in Nat
  BY DEF IQ, Query
<1>2. AuthorityZone(q) \in Name /\ CurrentLabel(q) \in Name
  BY <1>1, PieceType DEF AuthorityZone, CurrentLabel
<1>3. q.query.rrType \in RRType /\ "NS" \in RRType /\ "FH" \in RRType
  BY DEF IQ, Query, RRType
<1>4. q.lastResponse.rrs # << >> => Head(q.lastResponse.rrs) \in Name
  BY HeadTailProperties DEF IQ, Response
<1>5. << >> \in Name /\ q.forwardingHint \in Name
  BY EmptySeq DEF Name, IQ
<1>6. ToLatestInterest(q) \in Interest
  BY <1>2, <1>3, <1>5 DEF ToLatestInterest, Interest
<1>7. ToLatestInterestFH(q) \in Interest
  BY <1>2, <1>3, <1>4, <1>5 DEF ToLatestInterestFH, Interest
<1>8. QED
  BY <1>6, <1>7 DEF LatestInterest

-----------------------------------------------------------------------------
(***************************************************************************)
(* Chains of delegations.                                                   *)
(***************************************************************************)
\* The root zone needs no delegation.
LEMMA RootReached == \A name : ReachedByDelegation(name, 0)
  BY DEF ReachedByDelegation

\* One more published delegation leads one zone further.
LEMMA ChainExtends ==
  ASSUME NEW name, NEW i \in Nat, NEW j \in Nat, i < j,
         ReachedByDelegation(name, i), Delegates(name, i, j)
  PROVE  ReachedByDelegation(name, j)
<1> SUFFICES ASSUME NEW zones \in SUBSET (0 .. j), 0 \in zones,
                    \A a \in zones : \A b \in 0 .. j :
                      a < b /\ Delegates(name, a, b) => b \in zones
             PROVE  j \in zones
  BY DEF ReachedByDelegation
<1> DEFINE upper == zones \cap (0 .. i)
<1>1. upper \in SUBSET (0 .. i) /\ 0 \in upper
  OBVIOUS
<1>2. \A a \in upper : \A b \in 0 .. i :
        a < b /\ Delegates(name, a, b) => b \in upper
  OBVIOUS
<1>3. i \in upper
  BY <1>1, <1>2 DEF ReachedByDelegation
<1>4. QED
  BY <1>3

\* Data once published stays, and with it the chains it carries.
LEMMA ChainStays ==
  ASSUME published \subseteq published'
  PROVE  \A name : \A n : ReachedByDelegation(name, n) => ReachedByDelegation(name, n)'
<1> SUFFICES ASSUME NEW name, NEW n, ReachedByDelegation(name, n)
             PROVE  ReachedByDelegation(name, n)'
  OBVIOUS
<1>1. \A i, j : Delegates(name, i, j) => Delegates(name, i, j)'
  BY DEF Delegates
<1>2. QED
  BY <1>1 DEF ReachedByDelegation

-----------------------------------------------------------------------------
(***************************************************************************)
(* doData.  The object before it has an Interest out, and the Response is   *)
(* what some server published for that Interest or of an unknown type.      *)
(***************************************************************************)
Active(q) ==
  /\ q \in IQ
  /\ q.step \in {"NSQuery", "RRQuery", "FHQuery"}
  /\ StepOK(q)
  /\ Chain(q)
  /\ q.step = "FHQuery" => DelegationInHand(q)

PublishedFor(q, re) ==
  /\ [interest |-> LatestInterest(q), response |-> re] \in published
  /\ ServerData([interest |-> LatestInterest(q), response |-> re])

\* What holds of the object after doData.
Good(next) ==
  /\ next \in IQ
  /\ next.step \in {"NSQuery", "RRQuery", "FHQuery", "AnswerStub", "Abort"}
  /\ StepOK(next)
  /\ Chain(next)
  /\ next.step = "FHQuery" => DelegationInHand(next)
  /\ next.step = "AnswerStub" => AnsweredByAuthority(next)

\* The fields of the Interest an active object has out.
LEMMA LatestInterestFields ==
  ASSUME NEW q \in IQ
  PROVE  /\ LatestInterest(q).zone = GetPrefix(q.query.rrLabel, q.finishedLabelNum)
         /\ q.step = "NSQuery" =>
              /\ LatestInterest(q).type = "NS"
              /\ LatestInterest(q).label =
                   GetSubName(q.query.rrLabel, q.finishedLabelNum, q.rrLabelLen)
         /\ q.step = "RRQuery" =>
              /\ LatestInterest(q).type = q.query.rrType
              /\ LatestInterest(q).label =
                   GetSuffix(q.query.rrLabel, q.finishedLabelNum)
         /\ q.step = "FHQuery" /\ EnableForwardingHint =>
              LatestInterest(q).type = "FH"
  BY DEF LatestInterest, ToLatestInterest, ToLatestInterestFH, AuthorityZone,
         CurrentLabel

\* Advance moves to the zone the labels asked about are delegated to.
LEMMA AdvanceGood ==
  ASSUME NEW q \in IQ, q.rrLabelLen >= 1, Chain(q),
         Delegates(q.query.rrLabel, q.finishedLabelNum,
                   q.finishedLabelNum + q.rrLabelLen)
  PROVE  /\ Advance(q) \in IQ
         /\ Chain(Advance(q))
         /\ Advance(q).query = q.query
         /\ Advance(q).step = q.step
         /\ Advance(q).rrLabelLen = 1
         /\ Advance(q).lastFinishedLabelNum = q.finishedLabelNum
         /\ Advance(q).finishedLabelNum = q.finishedLabelNum + q.rrLabelLen
<1>1. q.finishedLabelNum \in Nat /\ q.rrLabelLen \in Nat
  BY DEF IQ
<1>2. q.finishedLabelNum + q.rrLabelLen \in Nat
      /\ q.finishedLabelNum < q.finishedLabelNum + q.rrLabelLen
  BY <1>1
<1>3. ReachedByDelegation(q.query.rrLabel, q.finishedLabelNum + q.rrLabelLen)
  BY <1>1, <1>2, ChainExtends DEF Chain
<1>4. /\ Advance(q) \in IQ
      /\ Advance(q).query = q.query
      /\ Advance(q).step = q.step
      /\ Advance(q).rrLabelLen = 1
      /\ Advance(q).lastFinishedLabelNum = q.finishedLabelNum
      /\ Advance(q).finishedLabelNum = q.finishedLabelNum + q.rrLabelLen
  BY <1>1, <1>2 DEF Advance, IQ
<1>5. Chain(Advance(q))
  BY <1>3, <1>4 DEF Chain
<1>6. QED
  BY <1>4, <1>5

\* Giving up.
LEMMA AbortGood ==
  ASSUME NEW q, Active(q)
  PROVE  Good([q EXCEPT !.step = "Abort"])
<1> DEFINE next == [q EXCEPT !.step = "Abort"]
<1>1. /\ next \in IQ
      /\ next.step = "Abort"
      /\ next.query = q.query
      /\ next.rrLabelLen = q.rrLabelLen
      /\ next.finishedLabelNum = q.finishedLabelNum
      /\ next.lastFinishedLabelNum = q.lastFinishedLabelNum
  BY DEF Active, IQ, QueryStep
<1>2. QED
  BY <1>1 DEF Active, Good, StepOK, Chain

\* A Nack of the labels asked about, or of the records.
LEMMA NackGood ==
  ASSUME NEW q, NEW re \in Response, Active(q), PublishedFor(q, re),
         re.type = "NDNS-Nack", q.step # "FHQuery"
  PROVE  Good([q EXCEPT !.step = StepAfterNack(q), !.lastResponse = re])
<1> DEFINE next == [q EXCEPT !.step = StepAfterNack(q), !.lastResponse = re]
           data == [interest |-> LatestInterest(q), response |-> re]
           name == q.query.rrLabel
           n == q.finishedLabelNum
<1>1. /\ q \in IQ
      /\ q.step \in {"NSQuery", "RRQuery"}
      /\ name \in Name
      /\ n \in Nat
      /\ q.rrLabelLen \in Nat
      /\ q.rrLabelLen >= 1
  BY DEF Active, StepOK, IQ, Query
<1>2. /\ StepAfterNack(q) \in {"RRQuery", "AnswerStub"}
      /\ StepAfterNack(q) = "RRQuery" => q.query.rrType # "NS"
      /\ StepAfterNack(q) = "AnswerStub" /\ q.step = "NSQuery"
           => q.query.rrType = "NS"
  BY <1>1 DEF StepAfterNack
<1>3. /\ next \in IQ
      /\ next.step = StepAfterNack(q)
      /\ next.query = q.query
      /\ next.rrLabelLen = q.rrLabelLen
      /\ next.finishedLabelNum = n
      /\ next.lastFinishedLabelNum = q.lastFinishedLabelNum
      /\ next.lastResponse = re
  BY <1>1, <1>2 DEF IQ, QueryStep
<1>4. Chain(next)
  BY <1>3 DEF Active, Chain
<1>5. ASSUME next.step = "AnswerStub"
      PROVE  AnsweredByAuthority(next)
  <2> DEFINE label == LatestInterest(q).label
  <2>1. /\ data \in published
        /\ data.response = re
        /\ data.interest.label = label
        /\ data.interest.zone = GetPrefix(name, n)
    BY <1>1, LatestInterestFields DEF PublishedFor
  <2>2. data.interest.type = q.query.rrType
    BY <1>1, <1>2, <1>3, <1>5, LatestInterestFields
  <2>3. label = GetPrefix(GetSuffix(name, n), Len(label))
    <3>1. CASE q.step = "NSQuery"
      BY <1>1, <3>1, LatestInterestFields, SubNameLeadsSuffix
    <3>2. CASE q.step = "RRQuery"
      <4>1. label = GetSuffix(name, n)
        BY <1>1, <3>2, LatestInterestFields
      <4>2. label \in Name
        BY <1>1, <4>1, PieceType
      <4>3. GetPrefix(label, Len(label)) = label
        BY <4>2, SubSeqFull DEF GetPrefix, AtMost, Name
      <4>4. QED
        BY <4>1, <4>3
    <3>3. QED
      BY <1>1, <3>1, <3>2
  <2> HIDE DEF next, data, label, name, n
  <2>4. Answers(data, next, n)
    BY <1>3, <2>1, <2>2, <2>3 DEF Answers, name
  <2>5. ReachedByDelegation(name, n)
    BY DEF Active, Chain, name, n
  <2>6. QED
    BY <1>3, <2>1, <2>4, <2>5 DEF AnsweredByAuthority, name
<1>6. QED
  BY <1>1, <1>2, <1>3, <1>4, <1>5 DEF Good, StepOK

\* An Auth: one more label.
LEMMA AuthGood ==
  ASSUME NEW q, Active(q), NEW re \in Response, PublishedFor(q, re),
         re.type = "NDNS-Auth"
  PROVE  Good(DoAuth(q))
<1>1. /\ DoAuth(q) \in IQ
      /\ DoAuth(q).step = q.step
      /\ DoAuth(q).query = q.query
      /\ DoAuth(q).rrLabelLen = q.rrLabelLen + 1
      /\ DoAuth(q).finishedLabelNum = q.finishedLabelNum
      /\ DoAuth(q).lastFinishedLabelNum = q.lastFinishedLabelNum
  BY DEF Active, IQ, DoAuth
<1>2. q.rrLabelLen \in Nat
  BY DEF Active, IQ
<1>3. q.step # "FHQuery"
  BY LatestInterestFields DEF Active, StepOK, PublishedFor, ServerData
<1>4. QED
  BY <1>1, <1>2, <1>3 DEF Active, Good, StepOK, Chain

\* The delegation asked for leads from the present zone to the next one.
LEMMA DelegatesNext ==
  ASSUME NEW q \in IQ,
         \E data \in published :
           /\ data.interest.zone = GetPrefix(q.query.rrLabel, q.finishedLabelNum)
           /\ data.interest.label =
                GetSubName(q.query.rrLabel, q.finishedLabelNum, q.rrLabelLen)
           /\ data.interest.type = "NS"
           /\ data.response.type = "NDNS-Resp"
  PROVE  Delegates(q.query.rrLabel, q.finishedLabelNum,
                   q.finishedLabelNum + q.rrLabelLen)
<1>1. PICK n \in Nat, len \in Nat : n = q.finishedLabelNum /\ len = q.rrLabelLen
  BY DEF IQ
<1>2. (n + len) - n = len
  OBVIOUS
<1>3. \E data \in published :
        /\ data.interest.zone = GetPrefix(q.query.rrLabel, n)
        /\ data.interest.label = GetSubName(q.query.rrLabel, n, (n + len) - n)
        /\ data.interest.type = "NS"
        /\ data.response.type = "NDNS-Resp"
  BY <1>1, <1>2
<1>4. Delegates(q.query.rrLabel, n, n + len)
  BY <1>3, Zenon DEF Delegates
<1>5. QED
  BY <1>1, <1>4

\* The records of the rest of the name: the answer of the stub.
LEMMA RecordsGood ==
  ASSUME NEW q, NEW re \in Response, Active(q), PublishedFor(q, re),
         re.type = "NDNS-Resp", q.step = "RRQuery"
  PROVE  Good([q EXCEPT !.step = "AnswerStub", !.lastResponse = re])
<1> DEFINE next == [q EXCEPT !.step = "AnswerStub", !.lastResponse = re]
           data == [interest |-> LatestInterest(q), response |-> re]
<1>1. q \in IQ
  BY DEF Active
<1>2. /\ next \in IQ
      /\ next.step = "AnswerStub"
      /\ next.query = q.query
      /\ next.rrLabelLen = q.rrLabelLen
      /\ next.finishedLabelNum = q.finishedLabelNum
      /\ next.lastFinishedLabelNum = q.lastFinishedLabelNum
      /\ next.lastResponse = re
  BY <1>1 DEF IQ, QueryStep
<1>3. /\ data \in published
      /\ data.response = re
      /\ data.interest.zone = GetPrefix(q.query.rrLabel, q.finishedLabelNum)
      /\ data.interest.type = q.query.rrType
      /\ data.interest.label = GetSuffix(q.query.rrLabel, q.finishedLabelNum)
  BY <1>1, LatestInterestFields DEF PublishedFor
<1> HIDE DEF next, data
<1>4. Answers(data, next, q.finishedLabelNum)
  BY <1>2, <1>3 DEF Answers
<1>5. AnsweredByAuthority(next)
  BY <1>2, <1>3, <1>4 DEF AnsweredByAuthority, Active, Chain
<1>6. Good(next)
  BY <1>2, <1>5 DEF Active, Good, StepOK, Chain
<1>7. QED
  BY <1>6 DEF next

\* Without hints: the delegation of the labels asked about.
LEMMA DelegationGood ==
  ASSUME NEW q, NEW re \in Response, Active(q), PublishedFor(q, re),
         re.type = "NDNS-Resp", q.step = "NSQuery"
  PROVE  Good(DoResp(q, re))
<1> DEFINE data == [interest |-> LatestInterest(q), response |-> re]
           name == q.query.rrLabel
           n == q.finishedLabelNum
           next == DoResp(q, re)
<1>1. /\ q \in IQ
      /\ name \in Name
      /\ n \in Nat
      /\ q.rrLabelLen \in Nat
      /\ q.rrLabelLen >= 1
      /\ Chain(q)
  BY DEF Active, StepOK, IQ, Query
<1>2. /\ data \in published
      /\ data.response = re
      /\ data.interest.zone = GetPrefix(name, n)
      /\ data.interest.type = "NS"
      /\ data.interest.label = GetSubName(name, n, q.rrLabelLen)
  BY <1>1, LatestInterestFields DEF PublishedFor
<1>3. Delegates(name, n, n + q.rrLabelLen)
  BY <1>1, <1>2, DelegatesNext
<1>4. /\ Advance(q) \in IQ
      /\ Chain(Advance(q))
      /\ Advance(q).query = q.query
      /\ Advance(q).step = q.step
      /\ Advance(q).rrLabelLen = 1
      /\ Advance(q).lastFinishedLabelNum = n
      /\ Advance(q).finishedLabelNum = n + q.rrLabelLen
  BY <1>1, <1>3, AdvanceGood
<1>5. PICK last : last = (q.query.rrType = "NS" /\ n + q.rrLabelLen = Len(name))
  OBVIOUS
<1>6. next = [Advance(q) EXCEPT !.lastResponse = re,
                                !.step = IF last THEN "AnswerStub" ELSE "NSQuery"]
  BY <1>4, <1>5 DEF DoResp
<1>7. /\ next \in IQ
      /\ next.query = q.query
      /\ next.step = IF last THEN "AnswerStub" ELSE "NSQuery"
      /\ next.rrLabelLen = 1
      /\ next.lastFinishedLabelNum = n
      /\ next.finishedLabelNum = n + q.rrLabelLen
      /\ next.lastResponse = re
  BY <1>4, <1>6 DEF IQ, QueryStep
<1>8. Chain(next)
  BY <1>4, <1>7 DEF Chain
<1>9. ASSUME next.step = "AnswerStub"
      PROVE  AnsweredByAuthority(next)
  <2>1. q.query.rrType = "NS" /\ n + q.rrLabelLen = Len(name)
    BY <1>5, <1>7, <1>9
  <2>2. GetSubName(name, n, q.rrLabelLen) = GetSuffix(name, n)
    BY <1>1, <2>1 DEF GetSubName, GetSuffix, AtMost
  <2> HIDE DEF next, data, name, n
  <2>3. Answers(data, next, n)
    BY <1>2, <1>7, <2>1, <2>2 DEF Answers, name
  <2>4. ReachedByDelegation(name, n)
    BY <1>1 DEF Chain, name, n
  <2>5. QED
    BY <1>2, <1>7, <2>3, <2>4 DEF AnsweredByAuthority, name
<1>10. QED
  BY <1>7, <1>8, <1>9 DEF Good, StepOK

\* With hints, from NSQuery to FHQuery.  The test for the end of an NS question
\* succeeds here only for a zone as long as the name, of which nothing is left
\* to ask about: a server never answers that.
LEMMA DelegationGoodFH ==
  ASSUME NEW q, NEW re \in Response, Active(q), PublishedFor(q, re),
         re.type = "NDNS-Resp", q.step = "NSQuery", EnableForwardingHint
  PROVE  Good(DoRespFH(q, re))
<1> DEFINE data == [interest |-> LatestInterest(q), response |-> re]
           name == q.query.rrLabel
           n == q.finishedLabelNum
           next == DoRespFH(q, re)
<1>1. /\ q \in IQ
      /\ name \in Name
      /\ n \in Nat
      /\ q.rrLabelLen \in Nat
      /\ q.rrLabelLen >= 1
      /\ Chain(q)
  BY DEF Active, StepOK, IQ, Query
<1>2. /\ data \in published
      /\ data.response = re
      /\ data.interest.zone = GetPrefix(name, n)
      /\ data.interest.type = "NS"
      /\ data.interest.label = GetSubName(name, n, q.rrLabelLen)
      /\ data.interest.label # << >>
  BY <1>1, LatestInterestFields DEF PublishedFor, ServerData
<1>3. n # Len(name)
  <2>1. SUFFICES ASSUME n = Len(name)
                 PROVE  GetSubName(name, n, q.rrLabelLen) = << >>
    BY <1>2
  <2> HIDE DEF name, n
  <2>2. AtMost(n + q.rrLabelLen, Len(name)) = n
    BY <1>1, <2>1 DEF AtMost
  <2>3. GetSubName(name, n, q.rrLabelLen) = SubSeq(name, n + 1, n)
    BY <2>2 DEF GetSubName
  <2>4. n + 1 \in Int /\ n \in Int /\ n < n + 1
    BY <1>1
  <2>5. QED
    BY <2>3, <2>4, SubSeqEmpty
<1>4. next = [q EXCEPT !.lastResponse = re, !.step = "FHQuery"]
  BY <1>3 DEF DoRespFH
<1>5. /\ next \in IQ
      /\ next.query = q.query
      /\ next.step = "FHQuery"
      /\ next.rrLabelLen = q.rrLabelLen
      /\ next.lastFinishedLabelNum = q.lastFinishedLabelNum
      /\ next.finishedLabelNum = n
      /\ next.lastResponse = re
  BY <1>1, <1>4 DEF IQ, QueryStep
<1>6. Chain(next)
  BY <1>1, <1>5 DEF Chain
<1> HIDE DEF next, data
<1>7. DelegationInHand(next)
  BY <1>2, <1>5 DEF DelegationInHand, AuthorityZone
<1>8. Good(next)
  BY <1>1, <1>5, <1>6, <1>7 DEF Good, StepOK
<1>9. QED
  BY <1>8 DEF next

\* With hints, from FHQuery to NSQuery in the child zone.
LEMMA HintGood ==
  ASSUME NEW q, NEW re \in Response, Active(q), PublishedFor(q, re),
         re.type = "NDNS-Resp", q.step = "FHQuery"
  PROVE  Good(DoRespFH(q, re))
<1> DEFINE next == DoRespFH(q, re)
<1>1. q \in IQ /\ q.rrLabelLen >= 1 /\ Chain(q) /\ DelegationInHand(q)
  BY DEF Active, StepOK
<1>2. Head(re.rrs) \in Name
  BY HeadTailProperties DEF PublishedFor, ServerData, Response
<1>3. Delegates(q.query.rrLabel, q.finishedLabelNum,
                q.finishedLabelNum + q.rrLabelLen)
  BY <1>1, DelegatesNext DEF DelegationInHand, AuthorityZone
<1>4. /\ Advance(q) \in IQ
      /\ Chain(Advance(q))
      /\ Advance(q).rrLabelLen = 1
  BY <1>1, <1>3, AdvanceGood
<1>5. next = [Advance(q) EXCEPT !.step = "NSQuery",
                                !.lastForwardingHint = q.forwardingHint,
                                !.forwardingHint = Head(re.rrs)]
  BY DEF DoRespFH
<1>6. q.forwardingHint \in Name
  BY <1>1 DEF IQ
<1>7. /\ next \in IQ
      /\ next.step = "NSQuery"
      /\ next.query = Advance(q).query
      /\ next.rrLabelLen = 1
      /\ next.lastFinishedLabelNum = Advance(q).lastFinishedLabelNum
      /\ next.finishedLabelNum = Advance(q).finishedLabelNum
  BY <1>2, <1>4, <1>5, <1>6 DEF IQ, QueryStep
<1>8. QED
  BY <1>4, <1>7 DEF Good, StepOK, Chain

\* A Nack for the hint ends the query without an answer.
LEMMA NackGoodFH ==
  ASSUME NEW q, NEW re \in Response, Active(q), PublishedFor(q, re),
         re.type = "NDNS-Nack"
  PROVE  Good(DoNackFH(q, re))
<1>1. CASE q.step # "FHQuery"
  BY <1>1, NackGood DEF DoNackFH
<1>2. CASE q.step = "FHQuery"
  <2> DEFINE next == [q EXCEPT !.step = "Abort", !.lastResponse = re]
  <2>1. /\ next \in IQ
        /\ next.step = "Abort"
        /\ next.query = q.query
        /\ next.rrLabelLen = q.rrLabelLen
        /\ next.finishedLabelNum = q.finishedLabelNum
        /\ next.lastFinishedLabelNum = q.lastFinishedLabelNum
    BY DEF Active, IQ, QueryStep
  <2>2. Good(next)
    BY <2>1 DEF Active, Good, StepOK, Chain
  <2>3. QED
    BY <1>2, <2>2 DEF DoNackFH
<1>3. QED
  BY <1>1, <1>2

\* doData of either strategy.
LEMMA DoDataGood ==
  ASSUME NEW q, NEW re \in Response, Active(q),
         \/ re.type = "UNKNOWN"
         \/ PublishedFor(q, re)
  PROVE  Good(StrategyDoData(q, re))
<1>1. CASE re.type = "UNKNOWN"
  <2>1. StrategyDoData(q, re) = [q EXCEPT !.step = "Abort"]
    BY <1>1 DEF StrategyDoData, DoData, DoDataFH
  <2>2. QED
    BY <2>1, AbortGood
<1>2. CASE re.type # "UNKNOWN"
  <2> USE <1>2
  <2>1. /\ PublishedFor(q, re)
        /\ re.type \in {"NDNS-Resp", "NDNS-Nack", "NDNS-Auth"}
    BY DEF PublishedFor, ServerData
  <2>2. q.step \in {"NSQuery", "RRQuery", "FHQuery"}
    BY DEF Active
  <2>3. CASE re.type = "NDNS-Auth"
    <3>1. StrategyDoData(q, re) = DoAuth(q)
      BY <2>3 DEF StrategyDoData, DoData, DoDataFH
    <3>2. QED
      BY <2>1, <2>3, <3>1, AuthGood
  <2>4. CASE EnableForwardingHint /\ re.type = "NDNS-Nack"
    <3>1. StrategyDoData(q, re) = DoNackFH(q, re)
      BY <2>4 DEF StrategyDoData, DoDataFH
    <3>2. QED
      BY <2>1, <2>4, <3>1, NackGoodFH
  <2>5. CASE EnableForwardingHint /\ re.type = "NDNS-Resp"
    <3>1. StrategyDoData(q, re) = DoRespFH(q, re)
      BY <2>5 DEF StrategyDoData, DoDataFH
    <3>2. CASE q.step = "RRQuery"
      <4>1. DoRespFH(q, re) = [q EXCEPT !.step = "AnswerStub", !.lastResponse = re]
        BY <3>2 DEF DoRespFH
      <4>2. Good([q EXCEPT !.step = "AnswerStub", !.lastResponse = re])
        BY <2>1, <2>5, <3>2, RecordsGood, Zenon
      <4>3. QED
        BY <3>1, <4>1, <4>2, Zenon
    <3>3. QED
      BY <2>1, <2>2, <2>5, <3>1, <3>2, DelegationGoodFH, HintGood
  <2>6. CASE ~EnableForwardingHint
    <3>1. StrategyDoData(q, re) = DoData(q, re) /\ q.step # "FHQuery"
      BY <2>6 DEF StrategyDoData, Active, StepOK
    <3>2. CASE re.type = "NDNS-Nack"
      <4>1. DoData(q, re)
              = [q EXCEPT !.step = StepAfterNack(q), !.lastResponse = re]
        BY <3>2 DEF DoData, DoNack
      <4>2. Good([q EXCEPT !.step = StepAfterNack(q), !.lastResponse = re])
        BY <2>1, <3>1, <3>2, NackGood, Zenon
      <4>3. QED
        BY <3>1, <4>1, <4>2, Zenon
    <3>3. CASE re.type = "NDNS-Resp" /\ q.step = "RRQuery"
      <4>1. DoData(q, re) = [q EXCEPT !.step = "AnswerStub", !.lastResponse = re]
        BY <3>3 DEF DoData, DoResp
      <4>2. Good([q EXCEPT !.step = "AnswerStub", !.lastResponse = re])
        BY <2>1, <3>3, RecordsGood, Zenon
      <4>3. QED
        BY <3>1, <4>1, <4>2, Zenon
    <3>4. CASE re.type = "NDNS-Resp" /\ q.step = "NSQuery"
      <4>1. DoData(q, re) = DoResp(q, re)
        BY <3>4 DEF DoData
      <4>2. Good(DoResp(q, re))
        BY <2>1, <3>4, DelegationGood, Zenon
      <4>3. QED
        BY <3>1, <4>1, <4>2, Zenon
    <3>5. QED
      BY <2>1, <2>2, <2>3, <3>1, <3>2, <3>3, <3>4
  <2>7. QED
    BY <2>1, <2>3, <2>4, <2>5, <2>6
<1>3. QED
  BY <1>1, <1>2

-----------------------------------------------------------------------------
(***************************************************************************)
(* The invariant is inductive.                                              *)
(***************************************************************************)
\* What the invariant says of a stub survives when the stub's object stays as
\* it is and only more Data is published.
LEMMA StubInvStays ==
  ASSUME NEW s \in Stub, StubInv(s), published \subseteq published',
         iq'[s] = iq[s],
         status'[s] \in {status[s], "silent"},
         status'[s] = "delivering" => reply'[s] = reply[s]
  PROVE  StubInv(s)'
<1>1. PICK q : q = iq[s]
  OBVIOUS
<1>2. PICK re : re = reply[s]
  OBVIOUS
<1>3. iq'[s] = q
  BY <1>1
<1>4. \A name, n : ReachedByDelegation(name, n) => ReachedByDelegation(name, n)'
  BY ChainStays
<1>5. ObjectInv(q)'
  BY <1>1, <1>4 DEF StubInv, ObjectInv, Chain, DelegationInHand
<1>6. status'[s] = "delivering" => ReplyGenuine(q, re)'
  BY <1>1, <1>2 DEF StubInv, ReplyGenuine
<1>7. status'[s] = "answered" => AnsweredByAuthority(q)'
  <2>1. AnsweredByAuthority(q) => AnsweredByAuthority(q)'
    BY <1>4 DEF AnsweredByAuthority
  <2>2. QED
    BY <1>1, <2>1 DEF StubInv
<1>8. Outstanding(s)' => q.step \in {"NSQuery", "RRQuery", "FHQuery"}
  BY <1>1 DEF StubInv, Outstanding
<1>9. QED
  BY <1>2, <1>3, <1>5, <1>6, <1>7, <1>8 DEF StubInv

\* A new object.
LEMMA StartIQInv ==
  ASSUME NEW q \in Query
  PROVE  ObjectInv(StartIQ(q)) /\ ObjectInv(NewIQ(q))
<1>1. /\ NewIQ(q).query = q
      /\ NewIQ(q).step = "NSQuery"
      /\ NewIQ(q).rrLabelLen = 1
      /\ NewIQ(q).finishedLabelNum = 0
      /\ NewIQ(q).lastFinishedLabelNum = 0
  BY DEF NewIQ
<1>2. QED
  BY <1>1, StartIQType, RootReached DEF ObjectInv, StepOK, Chain

\* The initial state satisfies the invariant.
THEOREM InitInv == Init => IInv
<1> SUFFICES ASSUME Init PROVE IInv
  OBVIOUS
<1>1. DefaultQuery \in Query
  BY EmptySeq DEF DefaultQuery, Query, Name, RRType
<1>2. InitialResponse \in Response
  BY EmptySeq DEF InitialResponse, Response, ResponseType
<1>3. NewIQ(DefaultQuery) \in IQ
  BY <1>1, StartIQType
<1>4. TypeOK
  BY <1>2, <1>3, ResolverAssumption DEF Init, TypeOK, Status
<1>5. PublishedByServers
  BY DEF Init, PublishedByServers
<1>6. ASSUME NEW s \in Stub
      PROVE  StubInv(s)
  <2>1. iq[s] = NewIQ(DefaultQuery) /\ status[s] = "idle"
    BY DEF Init
  <2>2. QED
    BY <1>1, <2>1, StartIQInv DEF StubInv, Outstanding
<1>7. QED
  BY <1>4, <1>5, <1>6 DEF IInv

\* onInterest.
LEMMA OnInterestInv ==
  ASSUME IInv, NEW s \in Stub, NEW q \in Query, OnInterest(s, q)
  PROVE  IInv'
<1>1. StartIQ(q) \in IQ /\ StartIQ(q).step = "NSQuery"
  BY StartIQType
<1>2. TypeOK'
  BY <1>1 DEF IInv, TypeOK, OnInterest, Status
<1>3. PublishedByServers'
  BY DEF IInv, PublishedByServers, OnInterest
<1>4. ASSUME NEW t \in Stub, t # s
      PROVE  StubInv(t)'
  BY <1>4, StubInvStays DEF IInv, TypeOK, OnInterest
<1>5. StubInv(s)'
  <2>1. iq'[s] = StartIQ(q) /\ status'[s] = "waiting" /\ published' = published
    BY DEF IInv, TypeOK, OnInterest
  <2>2. PICK new : new = StartIQ(q)
    OBVIOUS
  <2>3. ObjectInv(new) /\ new.step = "NSQuery"
    BY <1>1, <2>2, StartIQInv
  <2>4. ObjectInv(new)'
    BY <2>1, <2>3, ChainStays DEF ObjectInv, Chain
  <2>5. QED
    BY <2>1, <2>2, <2>3, <2>4 DEF StubInv
<1>6. QED
  BY <1>2, <1>3, <1>4, <1>5 DEF IInv

\* Data of whatever origin is on its way, and published if a server put it.
LEMMA DeliverInv ==
  ASSUME IInv, NEW s \in Stub, NEW re \in Response,
         status[s] = "waiting", Deliver(s, re),
         UNCHANGED <<running, db, iq>>,
         published \subseteq published', published' \subseteq Data,
         PublishedByServers', ReplyGenuine(iq[s], re)'
  PROVE  IInv'
<1>1. /\ reply' = [reply EXCEPT ![s] = re]
      /\ status' = [status EXCEPT ![s] = "delivering"]
  BY DEF Deliver
<1>2. TypeOK'
  BY <1>1 DEF IInv, TypeOK, Status
<1>3. ASSUME NEW t \in Stub, t # s
      PROVE  StubInv(t)'
  BY <1>1, <1>3, StubInvStays DEF IInv, TypeOK
<1>4. StubInv(s)'
  <2>1. PICK q : q = iq[s] /\ q = iq'[s]
    OBVIOUS
  <2>2. reply'[s] = re /\ status'[s] = "delivering"
    BY <1>1 DEF IInv, TypeOK
  <2>3. ObjectInv(q) /\ q.step \in {"NSQuery", "RRQuery", "FHQuery"}
    BY <2>1 DEF IInv, StubInv, Outstanding
  <2>4. ObjectInv(q)'
    BY <2>3, ChainStays DEF ObjectInv, Chain, DelegationInHand
  <2>5. ReplyGenuine(q, re)'
    BY <2>1 DEF ReplyGenuine
  <2>6. QED
    BY <2>1, <2>2, <2>3, <2>4, <2>5 DEF StubInv
<1>5. QED
  BY <1>2, <1>3, <1>4 DEF IInv

\* A server's answer, a cache's answer, and foreign Data.
LEMMA ReplyInv ==
  ASSUME IInv, NEW s \in Stub,
         ServerOnInterest(s) \/ CacheReply(s) \/ ForeignReply(s)
  PROVE  IInv'
<1>1. CASE ServerOnInterest(s)
  <2> PICK interest : interest = LatestInterest(iq[s])
    OBVIOUS
  <2> PICK re : re = Answer(db, interest)
    OBVIOUS
  <2> DEFINE data == [interest |-> interest, response |-> re]
  <2>1. interest \in Interest
    <3>1. /\ iq[s] \in IQ
          /\ ObjectInv(iq[s])
          /\ PublishedByServers
      BY DEF IInv, TypeOK, StubInv
    <3>2. iq[s].step = "FHQuery" => iq[s].lastResponse.rrs # << >>
      BY <3>1 DEF ObjectInv, DelegationInHand, PublishedByServers, ServerData
    <3>3. QED
      BY <3>1, <3>2, LatestInterestType
  <2>2. /\ re \in Response
        /\ re.type \in {"NDNS-Resp", "NDNS-Nack", "NDNS-Auth"}
        /\ re.type = "NDNS-Resp" => re.rrs # << >>
        /\ re.type = "NDNS-Auth" => interest.type = "NS"
    BY <2>1, AnswerType DEF IInv, TypeOK
  <2>3. /\ status[s] = "waiting"
        /\ interest.label # << >>
        /\ Deliver(s, re)
        /\ published' = published \cup {data}
        /\ UNCHANGED <<running, db, iq>>
    BY <1>1 DEF ServerOnInterest, WillBeAnswered, IsLegal
  <2>4. data \in Data
    BY <2>1, <2>2 DEF Data
  <2>5. ServerData(data)
    BY <2>2, <2>3 DEF ServerData
  <2> HIDE DEF data
  <2>6. published' \subseteq Data /\ PublishedByServers'
    BY <2>3, <2>4, <2>5 DEF IInv, TypeOK, PublishedByServers
  <2>7. ReplyGenuine(iq[s], re)'
    BY <2>3 DEF ReplyGenuine, data
  <2>8. published \subseteq published'
    BY <2>3
  <2>9. QED
    BY <2>2, <2>3, <2>6, <2>7, <2>8, DeliverInv
<1>2. CASE CacheReply(s)
  <2>1. PICK data \in published : /\ data.interest = LatestInterest(iq[s])
                                  /\ Deliver(s, data.response)
    BY <1>2 DEF CacheReply
  <2>2. status[s] = "waiting" /\ UNCHANGED <<running, db, published, iq>>
    BY <1>2 DEF CacheReply
  <2>3. data \in Data /\ data.response \in Response
    BY DEF IInv, TypeOK, Data
  <2>4. data = [interest |-> data.interest, response |-> data.response]
    BY <2>3 DEF Data
  <2>5. ReplyGenuine(iq[s], data.response)
    BY <2>1, <2>4 DEF ReplyGenuine
  <2>6. ReplyGenuine(iq[s], data.response)'
    BY <2>2, <2>5 DEF ReplyGenuine
  <2>7. published' \subseteq Data /\ PublishedByServers'
    BY <2>2 DEF IInv, TypeOK, PublishedByServers
  <2>8. QED
    BY <2>1, <2>2, <2>3, <2>6, <2>7, DeliverInv
<1>3. CASE ForeignReply(s)
  <2> DEFINE re == [type |-> "UNKNOWN", rrs |-> << >>]
  <2>1. re \in Response
    BY EmptySeq DEF Response, ResponseType
  <2>2. /\ status[s] = "waiting"
        /\ Deliver(s, re)
        /\ UNCHANGED <<running, db, published, iq>>
    BY <1>3 DEF ForeignReply
  <2>3. ReplyGenuine(iq[s], re)'
    BY DEF ReplyGenuine
  <2>4. published' \subseteq Data /\ PublishedByServers'
    BY <2>2 DEF IInv, TypeOK, PublishedByServers
  <2>5. QED
    BY <2>1, <2>2, <2>3, <2>4, DeliverInv
<1>4. QED
  BY <1>1, <1>2, <1>3

\* onData.
LEMMA OnDataInv ==
  ASSUME IInv, NEW s \in Stub, OnData(s)
  PROVE  IInv'
<1>1. PICK q : q = iq[s]
  OBVIOUS
<1>2. PICK re : re = reply[s]
  OBVIOUS
<1>3. PICK next : next = StrategyDoData(q, re)
  OBVIOUS
<1>4. /\ status[s] = "delivering"
      /\ iq' = [iq EXCEPT ![s] = next]
      /\ status' = [status EXCEPT ![s] = StatusAfter(next.step)]
      /\ UNCHANGED <<running, db, published, reply>>
  BY <1>1, <1>2, <1>3 DEF OnData
<1>5. Active(q) /\ re \in Response
  BY <1>1, <1>2, <1>4 DEF IInv, TypeOK, StubInv, ObjectInv, Outstanding, Active
<1>6. re.type = "UNKNOWN" \/ PublishedFor(q, re)
  BY <1>1, <1>2, <1>4 DEF IInv, StubInv, ReplyGenuine, PublishedByServers, PublishedFor
<1>7. Good(next)
  BY <1>3, <1>5, <1>6, DoDataGood
<1>8. /\ StatusAfter(next.step) \in Status
      /\ StatusAfter(next.step) # "delivering"
      /\ StatusAfter(next.step) = "waiting"
           => next.step \in {"NSQuery", "RRQuery", "FHQuery"}
      /\ StatusAfter(next.step) = "answered" => next.step = "AnswerStub"
  BY <1>7 DEF Good, StatusAfter, Status
<1>9. TypeOK'
  BY <1>4, <1>7, <1>8 DEF IInv, TypeOK, Good
<1>10. PublishedByServers'
  BY <1>4 DEF IInv, PublishedByServers
<1>11. ASSUME NEW t \in Stub, t # s
       PROVE  StubInv(t)'
  BY <1>4, <1>11, StubInvStays DEF IInv, TypeOK
<1>12. StubInv(s)'
  <2>1. iq'[s] = next /\ status'[s] = StatusAfter(next.step)
    BY <1>4 DEF IInv, TypeOK
  <2>2. \A name, n : ReachedByDelegation(name, n) => ReachedByDelegation(name, n)'
    BY <1>4, ChainStays
  <2>3. ObjectInv(next)'
    BY <1>4, <1>7, <2>2 DEF Good, ObjectInv, Chain, DelegationInHand
  <2>4. next.step = "AnswerStub" => AnsweredByAuthority(next)'
    BY <1>4, <1>7, <2>2 DEF Good, AnsweredByAuthority
  <2>5. QED
    BY <1>8, <2>1, <2>3, <2>4 DEF StubInv, Outstanding
<1>13. QED
  BY <1>9, <1>10, <1>11, <1>12 DEF IInv

\* The steps that leave all objects alone: a timeout, the end and the start of
\* the process, an update of the database.
LEMMA OtherInv ==
  ASSUME IInv,
         \/ \E s \in Stub : OnTimeout(s)
         \/ Stop
         \/ Run
         \/ DynamicUpdate
         \/ UNCHANGED vars
  PROVE  IInv'
<1>1. /\ UNCHANGED <<published, iq, reply>>
      /\ running' \in BOOLEAN
      /\ status' \in [Stub -> Status]
      /\ \A t \in Stub : status'[t] \in {status[t], "silent"}
  BY DEF IInv, TypeOK, OnTimeout, Stop, Run, DynamicUpdate, Update, vars, Status
<1>2. db' \in Database
  <2>1. CASE DynamicUpdate
    <3>1. PICK u \in Updatable, action \in {"ADD", "REMOVE", "REPLACE-ALL"} :
            Update(u[1], action, u[2])
      BY <2>1 DEF DynamicUpdate
    <3>2. u[1] \in RRSetKey /\ u[2] \in Name
      BY ResolverAssumption
    <3>3. Updated(db[u[1]], action, u[2]) \in Seq(Name)
      BY <3>2, UpdatedType DEF IInv, TypeOK, Database
    <3>4. QED
      BY <3>1, <3>2, <3>3 DEF IInv, TypeOK, Database, Update
  <2>2. CASE ~DynamicUpdate
    BY <2>2 DEF IInv, TypeOK, OnTimeout, Stop, Run, vars
  <2>3. QED
    BY <2>1, <2>2
<1>3. TypeOK'
  BY <1>1, <1>2 DEF IInv, TypeOK
<1>4. PublishedByServers'
  BY <1>1 DEF IInv, PublishedByServers
<1>5. ASSUME NEW t \in Stub
      PROVE  StubInv(t)'
  BY <1>1, StubInvStays DEF IInv
<1>6. QED
  BY <1>3, <1>4, <1>5 DEF IInv

\* Every step keeps the invariant.
THEOREM StepInv == IInv /\ [Next]_vars => IInv'
<1> SUFFICES ASSUME IInv, [Next]_vars PROVE IInv'
  OBVIOUS
<1>1. CASE \E s \in Stub : \E q \in Question : OnInterest(s, q)
  BY <1>1, OnInterestInv, ResolverAssumption
<1>2. CASE \E s \in Stub : ServerOnInterest(s) \/ CacheReply(s) \/ ForeignReply(s)
  BY <1>2, ReplyInv
<1>3. CASE \E s \in Stub : OnData(s)
  BY <1>3, OnDataInv
<1>4. CASE (\E s \in Stub : OnTimeout(s)) \/ Stop \/ Run \/ DynamicUpdate
           \/ UNCHANGED vars
  BY <1>4, OtherInv
<1>5. QED
  BY <1>1, <1>2, <1>3, <1>4 DEF Next

\* In every reachable state the invariant holds.
THEOREM Invariance == Spec => []IInv
  BY InitInv, StepInv, PTL DEF Spec

(***************************************************************************)
(* Type correctness of the resolver: in particular no step reads the first  *)
(* record of an empty Response.                                             *)
(***************************************************************************)
THEOREM TypeCorrect == Spec => []TypeOK
<1>1. IInv => TypeOK
  BY DEF IInv
<1>2. QED
  BY <1>1, Invariance, PTL

(***************************************************************************)
(* m_finishedLabelNum only ever counts labels of zones that a chain of      *)
(* published NS records leads to from the root, whatever the servers are    *)
(* updated to, whichever cache answers, whatever is lost or foreign.        *)
(***************************************************************************)
THEOREM AuthorityChainHolds == Spec => []AuthorityChain
<1>1. IInv => AuthorityChain
  BY DEF IInv, StubInv, ObjectInv, Chain, AuthorityChain, DstLabel
<1>2. QED
  BY <1>1, Invariance, PTL

(***************************************************************************)
(* Data put for a stub repeats a Response that a zone on that chain         *)
(* published for the type and (up to the end of the name, or in a Nack for  *)
(* a leading part) the labels the stub asked for.                           *)
(***************************************************************************)
THEOREM AnswerFromAuthorityHolds == Spec => []AnswerFromAuthority
<1>1. IInv => AnswerFromAuthority
  BY DEF IInv, StubInv, AnswerFromAuthority
<1>2. QED
  BY <1>1, Invariance, PTL

-----------------------------------------------------------------------------
(***************************************************************************)
(* Hints.  The two answers a hint comes from are gone when it is used, so    *)
(* the invariant says of the object in between that it follows a delegation  *)
(* which the zone it is in published under the hint it is asked with.        *)
(***************************************************************************)
\* The hint of object q is the parent's, for the delegation that was followed.
HintOfParent(q) ==
  LET parent == GetPrefix(q.query.rrLabel, q.lastFinishedLabelNum) IN
  \E delegation, hint \in published :
    /\ delegation.interest =
         [ hint |-> q.lastForwardingHint, zone |-> parent, type |-> "NS",
           label |-> GetSubName(q.query.rrLabel, q.lastFinishedLabelNum,
                                q.finishedLabelNum - q.lastFinishedLabelNum) ]
    /\ delegation.response.rrs # << >>
    /\ hint.interest =
         [ hint |-> q.lastForwardingHint, zone |-> parent, type |-> "FH",
           label |-> Head(delegation.response.rrs) ]
    /\ hint.response.rrs # << >>
    /\ Head(hint.response.rrs) = q.forwardingHint

\* m_lastResponse is what came for the Interest that asked for the delegation.
DelegationUnderHint(q) ==
  \E delegation \in published :
    /\ delegation.interest =
         [ hint |-> q.forwardingHint, zone |-> AuthorityZone(q), type |-> "NS",
           label |-> GetSubName(q.query.rrLabel, q.finishedLabelNum, q.rrLabelLen) ]
    /\ delegation.response = q.lastResponse
    /\ delegation.response.rrs # << >>

HintInv(q) ==
  EnableForwardingHint =>
    /\ q.finishedLabelNum > 0 => HintOfParent(q)
    /\ q.step = "FHQuery" => DelegationUnderHint(q)

\* A Response that does not end the step FHQuery with a hint, nor begin it.
LEMMA OtherDataHint ==
  ASSUME NEW q \in IQ, NEW next, HintInv(q), next.step # "FHQuery",
         next.query = q.query,
         next.finishedLabelNum = q.finishedLabelNum,
         next.lastFinishedLabelNum = q.lastFinishedLabelNum,
         next.forwardingHint = q.forwardingHint,
         next.lastForwardingHint = q.lastForwardingHint
  PROVE  HintInv(next)
  BY DEF HintInv, HintOfParent

\* The NS record: the query follows the delegation it has asked for.
LEMMA DelegationHint ==
  ASSUME NEW q, NEW re \in Response, Active(q), PublishedFor(q, re), HintInv(q),
         re.type = "NDNS-Resp", q.step = "NSQuery", EnableForwardingHint
  PROVE  HintInv(DoRespFH(q, re))
<1> DEFINE next == DoRespFH(q, re)
           data == [interest |-> LatestInterest(q), response |-> re]
<1>1. q \in IQ
  BY DEF Active
<1>2. /\ next.query = q.query
      /\ next.rrLabelLen = q.rrLabelLen
      /\ next.finishedLabelNum = q.finishedLabelNum
      /\ next.lastFinishedLabelNum = q.lastFinishedLabelNum
      /\ next.forwardingHint = q.forwardingHint
      /\ next.lastForwardingHint = q.lastForwardingHint
      /\ next.lastResponse = re
  BY <1>1 DEF DoRespFH, IQ
<1>3. /\ data \in published
      /\ data.interest =
           [ hint |-> q.forwardingHint, zone |-> AuthorityZone(q), type |-> "NS",
             label |-> GetSubName(q.query.rrLabel, q.finishedLabelNum, q.rrLabelLen) ]
      /\ data.response = re
      /\ re.rrs # << >>
  BY DEF PublishedFor, ServerData, LatestInterest, ToLatestInterestFH, CurrentLabel
<1> HIDE DEF next, data
<1>4. DelegationUnderHint(next)
  BY <1>2, <1>3 DEF DelegationUnderHint, AuthorityZone
<1>5. q.finishedLabelNum > 0 => HintOfParent(next)
  BY <1>2 DEF HintInv, HintOfParent
<1>6. HintInv(next)
  BY <1>2, <1>4, <1>5 DEF HintInv
<1>7. QED
  BY <1>6 DEF next

\* The FH record: the query enters the child zone with its hint.
LEMMA HintHint ==
  ASSUME NEW q, NEW re \in Response, Active(q), PublishedFor(q, re), HintInv(q),
         re.type = "NDNS-Resp", q.step = "FHQuery", EnableForwardingHint
  PROVE  HintInv(DoRespFH(q, re))
<1> DEFINE next == DoRespFH(q, re)
           data == [interest |-> LatestInterest(q), response |-> re]
<1>1. q \in IQ
  BY DEF Active
<1>2. /\ next.query = q.query
      /\ next.step = "NSQuery"
      /\ next.finishedLabelNum = q.finishedLabelNum + q.rrLabelLen
      /\ next.lastFinishedLabelNum = q.finishedLabelNum
      /\ next.forwardingHint = Head(re.rrs)
      /\ next.lastForwardingHint = q.forwardingHint
  BY <1>1 DEF DoRespFH, Advance, IQ
<1>3. /\ data \in published
      /\ data.interest =
           [ hint |-> q.forwardingHint, zone |-> AuthorityZone(q), type |-> "FH",
             label |-> Head(q.lastResponse.rrs) ]
      /\ data.response = re
      /\ re.rrs # << >>
  BY DEF PublishedFor, ServerData, LatestInterest, ToLatestInterestFH
<1>4. PICK delegation \in published :
        /\ delegation.interest =
             [ hint |-> q.forwardingHint, zone |-> AuthorityZone(q), type |-> "NS",
               label |-> GetSubName(q.query.rrLabel, q.finishedLabelNum, q.rrLabelLen) ]
        /\ delegation.response = q.lastResponse
        /\ delegation.response.rrs # << >>
  BY DEF HintInv, DelegationUnderHint
<1> HIDE DEF next, data
<1>5. next.finishedLabelNum - next.lastFinishedLabelNum = q.rrLabelLen
  BY <1>1, <1>2 DEF IQ
<1>6. HintOfParent(next)
  BY <1>2, <1>3, <1>4, <1>5 DEF HintOfParent, AuthorityZone
<1>7. HintInv(next)
  BY <1>2, <1>6 DEF HintInv
<1>8. QED
  BY <1>7 DEF next

\* doData, in each step and for each type of Response.
LEMMA DoDataHint ==
  ASSUME NEW q, NEW re \in Response, Active(q), HintInv(q),
         re.type = "UNKNOWN" \/ PublishedFor(q, re)
  PROVE  HintInv(StrategyDoData(q, re))
<1>1. CASE ~EnableForwardingHint
  BY <1>1 DEF HintInv
<1>2. CASE EnableForwardingHint
  <2>1. q \in IQ /\ q.step \in {"NSQuery", "RRQuery", "FHQuery"}
    BY DEF Active
  <2>2. StrategyDoData(q, re) = DoDataFH(q, re)
    BY <1>2 DEF StrategyDoData
  <2>3. CASE re.type = "UNKNOWN"
    <3>1. DoDataFH(q, re) = [q EXCEPT !.step = "Abort"]
      BY <2>3 DEF DoDataFH
    <3>2. HintInv([q EXCEPT !.step = "Abort"])
      BY <2>1, OtherDataHint DEF IQ
    <3>3. QED
      BY <2>2, <3>1, <3>2
  <2>4. CASE re.type = "NDNS-Nack"
    <3> DEFINE next == DoNackFH(q, re)
    <3>1. /\ next.step # "FHQuery"
          /\ next.query = q.query
          /\ next.finishedLabelNum = q.finishedLabelNum
          /\ next.lastFinishedLabelNum = q.lastFinishedLabelNum
          /\ next.forwardingHint = q.forwardingHint
          /\ next.lastForwardingHint = q.lastForwardingHint
      BY <2>1 DEF DoNackFH, StepAfterNack, IQ
    <3>2. HintInv(next)
      BY <2>1, <3>1, OtherDataHint
    <3>3. QED
      BY <2>2, <2>4, <3>2 DEF DoDataFH
  <2>5. CASE re.type = "NDNS-Auth"
    <3> DEFINE next == DoAuth(q)
    <3>1. q.step # "FHQuery"
      BY <1>2, <2>1, <2>5, LatestInterestFields DEF PublishedFor, ServerData
    <3>2. /\ next.step # "FHQuery"
          /\ next.query = q.query
          /\ next.finishedLabelNum = q.finishedLabelNum
          /\ next.lastFinishedLabelNum = q.lastFinishedLabelNum
          /\ next.forwardingHint = q.forwardingHint
          /\ next.lastForwardingHint = q.lastForwardingHint
      BY <2>1, <3>1 DEF DoAuth, IQ
    <3>3. HintInv(next)
      BY <2>1, <3>2, OtherDataHint
    <3>4. QED
      BY <2>2, <2>5, <3>3 DEF DoDataFH
  <2>6. CASE re.type = "NDNS-Resp"
    <3>1. StrategyDoData(q, re) = DoRespFH(q, re)
      BY <2>2, <2>6 DEF DoDataFH
    <3>2. CASE q.step = "RRQuery"
      <4>1. DoRespFH(q, re) = [q EXCEPT !.step = "AnswerStub", !.lastResponse = re]
        BY <3>2 DEF DoRespFH
      <4>2. HintInv([q EXCEPT !.step = "AnswerStub", !.lastResponse = re])
        BY <2>1, OtherDataHint DEF IQ
      <4>3. QED
        BY <3>1, <4>1, <4>2
    <3>3. CASE q.step \in {"NSQuery", "FHQuery"}
      BY <1>2, <2>6, <3>1, <3>3, DelegationHint, HintHint
    <3>4. QED
      BY <2>1, <3>2, <3>3
  <2>7. QED
    BY <2>3, <2>4, <2>5, <2>6 DEF PublishedFor, ServerData
<1>3. QED
  BY <1>1, <1>2

HintsInv == \A s \in Stub : HintInv(iq[s])

LEMMA InitHints == Init => HintsInv
  BY DEF Init, NewIQ, HintsInv, HintInv

LEMMA StepHints == IInv /\ HintsInv /\ [Next]_vars => HintsInv'
<1> SUFFICES ASSUME IInv, HintsInv, [Next]_vars, NEW t \in Stub
             PROVE  HintInv(iq[t])'
  BY DEF HintsInv
<1>1. published \subseteq published' /\ iq \in [Stub -> IQ]
  BY DEF Next, OnInterest, ServerOnInterest, CacheReply, ForeignReply, OnData,
         OnTimeout, Stop, Run, DynamicUpdate, Update, vars, IInv, TypeOK
<1>2. \A q : HintInv(q) => HintInv(q)'
  BY <1>1 DEF HintInv, HintOfParent, DelegationUnderHint
<1>3. CASE iq'[t] = iq[t]
  <2>1. PICK q : q = iq[t]
    OBVIOUS
  <2>2. HintInv(q)'
    BY <1>2, <2>1 DEF HintsInv
  <2>3. QED
    BY <1>3, <2>1, <2>2
<1>4. ASSUME NEW s \in Stub, NEW question \in Question, OnInterest(s, question)
      PROVE  HintInv(iq[t])'
  <2>1. CASE s = t
    <3>1. PICK q : q = StartIQ(question)
      OBVIOUS
    <3>2. q.finishedLabelNum = 0 /\ q.step = "NSQuery"
      BY <3>1, StartIQType, ResolverAssumption
    <3>3. HintInv(q)'
      BY <3>2 DEF HintInv
    <3>4. iq'[t] = q
      BY <1>1, <1>4, <2>1, <3>1 DEF OnInterest
    <3>5. QED
      BY <3>3, <3>4
  <2>2. QED
    BY <1>1, <1>3, <1>4, <2>1 DEF OnInterest
<1>5. ASSUME NEW s \in Stub, OnData(s)
      PROVE  HintInv(iq[t])'
  <2>1. CASE s = t
    <3>1. PICK q, re : q = iq[t] /\ re = reply[t]
      OBVIOUS
    <3>2. PICK next : next = StrategyDoData(q, re)
      OBVIOUS
    <3>3. status[t] = "delivering" /\ iq' = [iq EXCEPT ![t] = next]
      BY <1>5, <2>1, <3>1, <3>2 DEF OnData
    <3>4. Active(q) /\ re \in Response
      BY <3>1, <3>3 DEF IInv, TypeOK, StubInv, ObjectInv, Outstanding, Active
    <3>5. re.type = "UNKNOWN" \/ PublishedFor(q, re)
      BY <3>1, <3>3 DEF IInv, StubInv, ReplyGenuine, PublishedByServers, PublishedFor
    <3>6. HintInv(next)
      BY <3>1, <3>2, <3>4, <3>5, DoDataHint DEF HintsInv
    <3>7. HintInv(next)'
      BY <1>2, <3>6
    <3>8. iq'[t] = next
      BY <1>1, <3>3
    <3>9. QED
      BY <3>7, <3>8
  <2>2. QED
    BY <1>1, <1>3, <1>5, <2>1 DEF OnData
<1>6. CASE iq' = iq
  BY <1>3, <1>6
<1>7. QED
  BY <1>4, <1>5, <1>6 DEF Next, ServerOnInterest, CacheReply, ForeignReply, OnTimeout,
                          Stop, Run, DynamicUpdate, Update, vars

(***************************************************************************)
(* The hint a query uses for its zone is the first FH record which the      *)
(* parent published for the first name server of the delegation that was    *)
(* followed, asked for under the hint of the parent: m_forwardingHint and   *)
(* m_finishedLabelNum, advanced in different answers, never get apart.      *)
(***************************************************************************)
THEOREM HintFromParentHolds == Spec => []HintFromParent
<1>1. HintsInv => HintFromParent
  BY DEF HintsInv, HintInv, HintOfParent, HintFromParent, DstLabel
<1>2. Init => IInv /\ HintsInv
  BY InitInv, InitHints
<1>3. IInv /\ HintsInv /\ [Next]_vars => (IInv /\ HintsInv)'
  BY StepInv, StepHints
<1>4. QED
  BY <1>1, <1>2, <1>3, PTL DEF Spec

-----------------------------------------------------------------------------
(***************************************************************************)
(* Zones and cuts.                                                          *)
(***************************************************************************)
\* The next cut below a zone.
LEMMA NextCut ==
  ASSUME NEW name \in Name, NEW i \in Nat
  PROVE  /\ CutsBelow(name, i) \subseteq (i + 1) .. Len(name)
         /\ CutsBelow(name, i) # {} =>
              /\ Min(CutsBelow(name, i)) \in CutsBelow(name, i)
              /\ \A j \in CutsBelow(name, i) : Min(CutsBelow(name, i)) <= j
<1>1. PICK len \in Nat : len = Len(name)
  BY LenProperties DEF Name
<1> DEFINE S == CutsBelow(name, i)
           T == {len - j : j \in S}
<1>2. S \subseteq (i + 1) .. len
  BY <1>1 DEF CutsBelow
<1> HIDE DEF S
<1>3. ASSUME S # {}
      PROVE  \E m \in S : \A j \in S : m <= j
  <2>1. T \subseteq 0 .. len
    BY <1>2
  <2>2. IsFiniteSet(T)
    BY <1>1, <2>1, FS_Interval, FS_Subset, 0 \in Int, len \in Int
  <2>3. T # {} /\ T \in SUBSET Nat
    BY <1>3, <2>1
  <2>4. Max(T) \in T /\ \A x \in T : x <= Max(T)
    BY <2>2, <2>3, MaxOfFinite
  <2>5. PICK m \in S : Max(T) = len - m
    BY <2>4
  <2>6. \A j \in S : len - j <= len - m
    BY <2>4, <2>5
  <2>7. \A j \in S : m <= j
    BY <1>2, <2>6
  <2>8. QED
    BY <2>7
<1>4. S # {} => Min(S) \in S /\ \A j \in S : Min(S) <= j
  BY <1>2, <1>3 DEF Min
<1>5. QED
  BY <1>1, <1>2, <1>4 DEF S

\* The zones of a name are the least path of zones.
LEMMA ZonesAreLeast ==
  ASSUME NEW name \in Name
  PROVE  /\ ZonesOf(name) \subseteq 0 .. Len(name)
         /\ Len(name) \in Nat
         /\ 0 \in ZonesOf(name)
         /\ \A i \in ZonesOf(name) :
              CutsBelow(name, i) # {} => Min(CutsBelow(name, i)) \in ZonesOf(name)
         /\ \A zones \in SUBSET (0 .. Len(name)) :
              IsPathOfZones(name, zones) => ZonesOf(name) \subseteq zones
<1>1. Len(name) \in Nat
  BY LenProperties DEF Name
<1>2. ASSUME NEW i \in ZonesOf(name), CutsBelow(name, i) # {}
      PROVE  Min(CutsBelow(name, i)) \in ZonesOf(name)
  <2>1. i \in 0 .. Len(name)
    BY DEF ZonesOf
  <2>2. Min(CutsBelow(name, i)) \in 0 .. Len(name)
    BY <1>1, <1>2, <2>1, NextCut
  <2>3. QED
    BY <1>2, <2>2 DEF ZonesOf, IsPathOfZones
<1>3. 0 \in ZonesOf(name)
  BY <1>1 DEF ZonesOf, IsPathOfZones
<1>4. QED
  BY <1>1, <1>2, <1>3 DEF ZonesOf

\* A query that has finished n labels is in a zone of the name, and every
\* zone above hands the name on to no further than there.
Walked(name, n) ==
  /\ n \in ZonesOf(name)
  /\ \A i \in ZonesOf(name) :
       i < n => CutsBelow(name, i) # {} /\ Min(CutsBelow(name, i)) <= n

\* The walk begins at the root.
LEMMA WalkedRoot ==
  ASSUME NEW name \in Name
  PROVE  Walked(name, 0)
<1>1. \A i \in ZonesOf(name) : ~(i < 0)
  BY ZonesAreLeast
<1>2. QED
  BY <1>1, ZonesAreLeast DEF Walked

\* One zone further: no zone lies between a zone and its next cut.
LEMMA WalkedOn ==
  ASSUME NEW name \in Name, NEW n \in Nat, Walked(name, n), CutsBelow(name, n) # {}
  PROVE  LET m == Min(CutsBelow(name, n)) IN
         /\ m \in Nat /\ n < m /\ m <= Len(name)
         /\ Walked(name, m)
         /\ \A i \in ZonesOf(name) : i <= n \/ m <= i
<1> DEFINE Z == ZonesOf(name)
<1> PICK m : m = Min(CutsBelow(name, n))
  OBVIOUS
<1>1. /\ Z \subseteq 0 .. Len(name) /\ Len(name) \in Nat /\ 0 \in Z /\ n \in Z
      /\ m \in Z /\ n < m /\ m <= Len(name) /\ m \in Nat
  BY ZonesAreLeast, NextCut DEF Walked
<1> DEFINE P == {i \in Z : i <= n \/ m <= i}
<1>2. ASSUME NEW i \in P, CutsBelow(name, i) # {}
      PROVE  Min(CutsBelow(name, i)) \in P
  <2> PICK k : k = Min(CutsBelow(name, i))
    OBVIOUS
  <2>1. k \in Z /\ i \in Nat
    BY <1>1, <1>2, ZonesAreLeast
  <2>2. k \in Nat /\ i < k
    BY <1>2, <2>1, <1>1, NextCut
  <2>3. i < n => k <= n
    BY <1>2 DEF Walked
  <2>4. k <= n \/ m <= k
    BY <1>1, <2>1, <2>2, <2>3
  <2>5. QED
    BY <2>1, <2>4
<1>3. P \in SUBSET (0 .. Len(name)) /\ 0 \in P
  BY <1>1
<1>4. IsPathOfZones(name, P)
  <2> HIDE DEF P
  <2>1. QED
    BY <1>2, <1>3 DEF IsPathOfZones
<1>5. Z \subseteq P
  <2> HIDE DEF P
  <2>1. QED
    BY <1>3, <1>4, ZonesAreLeast
<1>6. ASSUME NEW i \in Z, i < m
      PROVE  CutsBelow(name, i) # {} /\ Min(CutsBelow(name, i)) <= m
  <2>1. i \in Nat /\ i <= n
    BY <1>1, <1>5, <1>6
  <2>2. CASE i = n
    BY <1>1, <2>2
  <2>3. CASE i < n
    <3>1. CutsBelow(name, i) # {} /\ Min(CutsBelow(name, i)) <= n
      BY <2>3 DEF Walked
    <3>2. Min(CutsBelow(name, i)) \in Nat
      BY <1>1, <2>1, <3>1, NextCut
    <3>3. QED
      BY <1>1, <3>1, <3>2
  <2>4. QED
    BY <2>1, <2>2, <2>3
<1>7. Walked(name, m)
  BY <1>1, <1>6 DEF Walked
<1>8. QED
  BY <1>1, <1>5, <1>7

\* A zone without cuts below ends the walk: it is the authority.
LEMMA AuthorityFound ==
  ASSUME NEW name \in Name, NEW n \in Nat, Walked(name, n), CutsBelow(name, n) = {}
  PROVE  AuthorityOf(name) = n /\ n <= Len(name)
<1> DEFINE Z == ZonesOf(name)
           P == {i \in Z : i <= n}
<1>1. /\ Z \subseteq 0 .. Len(name) /\ Len(name) \in Nat /\ 0 \in Z /\ n \in Z
  BY ZonesAreLeast DEF Walked
<1>2. ASSUME NEW i \in P, CutsBelow(name, i) # {}
      PROVE  Min(CutsBelow(name, i)) \in P
  <2>1. i # n /\ i < n
    BY <1>1, <1>2
  <2>2. QED
    BY <1>2, <2>1, ZonesAreLeast DEF Walked
<1>3. P \in SUBSET (0 .. Len(name)) /\ 0 \in P
  BY <1>1
<1>4. Z \subseteq P
  <2> HIDE DEF P
  <2>1. IsPathOfZones(name, P)
    BY <1>2, <1>3 DEF IsPathOfZones
  <2>2. QED
    BY <1>3, <2>1, ZonesAreLeast
<1>5. \A i \in Z : i <= n
  BY <1>4
<1>6. Max(Z) = n
  <2>1. \A x \in Z : (\A y \in Z : x >= y) => x = n
    BY <1>1, <1>5
  <2>2. \A y \in Z : n >= y
    BY <1>1, <1>5
  <2>3. QED
    BY <1>1, <2>1, <2>2 DEF Max
<1>7. QED
  BY <1>1, <1>6 DEF AuthorityOf

\* The zone that handed a name on is its parent, and the only one.
LEMMA ParentFound ==
  ASSUME NEW name \in Name, NEW n \in Nat, Walked(name, n), CutsBelow(name, n) # {}
  PROVE  ParentOf(name, Min(CutsBelow(name, n))) = n
<1> DEFINE Z == ZonesOf(name)
<1> PICK m : m = Min(CutsBelow(name, n))
  OBVIOUS
<1>1. /\ Z \subseteq 0 .. Len(name) /\ Len(name) \in Nat /\ n \in Z /\ m \in Nat /\ n < m
      /\ \A i \in Z : i <= n \/ m <= i
  BY ZonesAreLeast, WalkedOn DEF Walked
<1>2. ASSUME NEW i \in Z, CutsBelow(name, i) # {}, Min(CutsBelow(name, i)) = m
      PROVE  i = n
  <2>1. i \in Nat /\ i < m
    BY <1>1, <1>2, NextCut
  <2>2. ~(i < n)
    BY <1>1, <1>2, <2>1 DEF Walked
  <2>3. QED
    BY <1>1, <2>1, <2>2
<1>3. QED
  BY <1>1, <1>2 DEF ParentOf

\* Every zone but the root's has a parent.
LEMMA ZoneHasParent ==
  ASSUME NEW name \in Name, NEW n \in ZonesOf(name), n # 0
  PROVE  \E i \in ZonesOf(name) : CutsBelow(name, i) # {} /\ Min(CutsBelow(name, i)) = n
<1> SUFFICES ASSUME \A i \in ZonesOf(name) :
                      CutsBelow(name, i) # {} => Min(CutsBelow(name, i)) # n
             PROVE  FALSE
  OBVIOUS
<1> DEFINE P == ZonesOf(name) \ {n}
<1>1. P \in SUBSET (0 .. Len(name)) /\ 0 \in P
  BY ZonesAreLeast
<1>2. \A i \in P : CutsBelow(name, i) # {} => Min(CutsBelow(name, i)) \in P
  BY ZonesAreLeast
<1> HIDE DEF P
<1>3. ZonesOf(name) \subseteq P
  BY <1>1, <1>2, ZonesAreLeast DEF IsPathOfZones
<1>4. QED
  BY <1>3 DEF P

-----------------------------------------------------------------------------
(***************************************************************************)
(* The labels a query asks about, and what a server says of them.           *)
(***************************************************************************)
\* Past the end of the name the label is the rest of it.
LEMMA LabelClamped ==
  ASSUME NEW name \in Name, NEW n \in Nat, NEW len \in Nat, Len(name) <= n + len
  PROVE  GetSubName(name, n, len) = GetSuffix(name, n)
<1>1. AtMost(n + len, Len(name)) = Len(name)
  BY LenProperties DEF AtMost, Name
<1>2. QED
  BY <1>1 DEF GetSubName, GetSuffix

\* There is a rest of the name just if it is longer.
LEMMA LabelEmpty ==
  ASSUME NEW name \in Name, NEW n \in Nat
  PROVE  Len(name) \in Nat /\ (GetSuffix(name, n) = << >> <=> Len(name) <= n)
<1>1. PICK len \in Nat : len = Len(name)
  BY LenProperties DEF Name
<1>2. /\ Len(GetSuffix(name, n)) = IF n + 1 <= len THEN len - (n + 1) + 1 ELSE 0
      /\ GetSuffix(name, n) \in Name
  BY <1>1, PieceOfName, n + 1 \in Nat \ {0}, len <= len DEF GetSuffix
<1>3. GetSuffix(name, n) = << >> <=> Len(GetSuffix(name, n)) = 0
  BY <1>2, EmptySeq, Len(<< >>) = 0, LenProperties DEF Name
<1>4. QED
  BY <1>1, <1>2, <1>3

\* A longer label lies below a shorter one.
LEMMA LongerLabel ==
  ASSUME NEW name \in Name, NEW n \in Nat, NEW len \in Nat, NEW more \in Nat,
         len < more, n + more <= Len(name)
  PROVE  IsStrictlyBelow(GetSubName(name, n, more), GetSubName(name, n, len))
<1>1. PICK total \in Nat : total = Len(name)
  BY LenProperties DEF Name
<1> PICK upper, lower : upper = GetSubName(name, n, len) /\ lower = GetSubName(name, n, more)
  OBVIOUS
<1>2. upper = SubSeq(name, n + 1, n + len) /\ lower = SubSeq(name, n + 1, n + more)
  BY <1>1 DEF GetSubName, AtMost
<1>3. /\ upper \in Name /\ lower \in Name
      /\ Len(upper) = IF n + 1 <= n + len THEN n + len - (n + 1) + 1 ELSE 0
      /\ \A j \in 1 .. n + len - (n + 1) + 1 : upper[j] = name[n + 1 + j - 1]
  BY <1>1, <1>2, PieceOfName, n + 1 \in Nat \ {0}, n + len \in Nat, n + len <= Len(name), n + more \in Nat
<1>4. /\ Len(lower) = IF n + 1 <= n + more THEN n + more - (n + 1) + 1 ELSE 0
      /\ \A j \in 1 .. n + more - (n + 1) + 1 : lower[j] = name[n + 1 + j - 1]
  BY <1>1, <1>2, PieceOfName, n + 1 \in Nat \ {0}, n + more \in Nat
<1>5. Len(upper) = len /\ Len(lower) = more
  BY <1>3, <1>4
<1>6. \A j \in 1 .. Len(upper) : lower[0 + j] = upper[j]
  <2> SUFFICES ASSUME NEW j \in 1 .. len PROVE lower[0 + j] = upper[j]
    BY <1>5
  <2>1. j \in 1 .. n + len - (n + 1) + 1 /\ j \in 1 .. n + more - (n + 1) + 1 /\ 0 + j = j
    OBVIOUS
  <2>2. QED
    BY <1>3, <1>4, <2>1
<1>7. SubSeq(lower, 0 + 1, 0 + Len(upper)) = upper
  BY <1>3, <1>5, <1>6, PieceIs, 0 \in Nat, 0 + len <= more
<1>8. GetPrefix(lower, len) = upper
  BY <1>5, <1>7 DEF GetPrefix, AtMost
<1>9. QED
  BY <1>5, <1>8 DEF IsStrictlyBelow

\* No zone within the labels that were asked about so far.
NoCutBefore(name, n, len) == \A j \in CutsBelow(name, n) : n + len <= j

\* NDNS-Resp: the labels asked about are the next cut.
LEMMA RespIsCut ==
  ASSUME NEW name \in Name, NEW n \in Nat, NEW len \in Nat \ {0}, NoCutBefore(name, n, len),
         GetSubName(name, n, len) # << >>,
         Lookup(db, GetPrefix(name, n), GetSubName(name, n, len), "NS") # << >>
  PROVE  /\ n + len \in CutsBelow(name, n)
         /\ Min(CutsBelow(name, n)) = n + len
<1>1. PICK total \in Nat : total = Len(name)
  BY LenProperties DEF Name
<1>2. n + len <= total
  <2> SUFFICES ASSUME total < n + len PROVE FALSE
    BY <1>1
  <2>1. GetSubName(name, n, len) = GetSuffix(name, n)
    BY <1>1, LabelClamped
  <2>2. n < total
    BY <1>1, <2>1, LabelEmpty
  <2>3. total - n \in Nat /\ n + (total - n) = total
    BY <2>2
  <2>4. GetSubName(name, n, total - n) = GetSuffix(name, n)
    BY <1>1, <2>3, LabelClamped
  <2>5. total \in CutsBelow(name, n)
    BY <1>1, <2>1, <2>2, <2>4 DEF CutsBelow
  <2>6. QED
    BY <2>5 DEF NoCutBefore
<1>3. n + len \in CutsBelow(name, n)
  <2>1. n + len - n = len /\ n + len \in n + 1 .. Len(name)
    BY <1>1, <1>2
  <2>2. QED
    BY <2>1 DEF CutsBelow
<1>4. Min(CutsBelow(name, n)) \in CutsBelow(name, n) /\ Min(CutsBelow(name, n)) <= n + len
  BY <1>3, NextCut
<1>5. n + len <= Min(CutsBelow(name, n)) /\ Min(CutsBelow(name, n)) \in Nat
  BY <1>4, NextCut DEF NoCutBefore
<1>6. QED
  BY <1>3, <1>4, <1>5

\* No record there: the next cut is further down.
LEMMA MissIsNoCut ==
  ASSUME NEW name \in Name, NEW n \in Nat, NEW len \in Nat \ {0}, NoCutBefore(name, n, len),
         Lookup(db, GetPrefix(name, n), GetSubName(name, n, len), "NS") = << >>
  PROVE  NoCutBefore(name, n, len + 1)
<1> SUFFICES ASSUME NEW j \in CutsBelow(name, n) PROVE n + (len + 1) <= j
  BY DEF NoCutBefore
<1>1. n + len <= j /\ j \in Nat
  BY NextCut DEF NoCutBefore
<1>2. j # n + len
  <2> SUFFICES ASSUME j = n + len PROVE FALSE
    OBVIOUS
  <2>1. j - n = len
    OBVIOUS
  <2>2. QED
    BY <2>1 DEF CutsBelow
<1>3. QED
  BY <1>1, <1>2

\* NDNS-Nack: there is no record here nor below.
LEMMA NackIsLast ==
  ASSUME NEW name \in Name, NEW n \in Nat, NEW len \in Nat \ {0}, NoCutBefore(name, n, len),
         Lookup(db, GetPrefix(name, n), GetSubName(name, n, len), "NS") = << >>,
         ~HasAuth(db, GetPrefix(name, n), GetSubName(name, n, len), "NS")
  PROVE  CutsBelow(name, n) = {}
<1> SUFFICES ASSUME NEW j \in CutsBelow(name, n) PROVE FALSE
  OBVIOUS
<1>1. n + (len + 1) <= j /\ j \in Nat /\ j <= Len(name) /\ Len(name) \in Nat
  <2>1. n + (len + 1) <= j
    BY MissIsNoCut DEF NoCutBefore
  <2>2. Len(name) \in Nat /\ j \in (n + 1) .. Len(name)
    BY NextCut, LenProperties DEF Name
  <2>3. QED
    BY <2>1, <2>2
<1> DEFINE key == [zone |-> GetPrefix(name, n), label |-> GetSubName(name, n, j - n), type |-> "NS"]
<1>2. key \in RRSetKey /\ db[key] # << >>
  BY DEF CutsBelow, Lookup
<1>3. IsStrictlyBelow(key.label, GetSubName(name, n, len))
  <2>1. j - n \in Nat /\ len < j - n /\ n + (j - n) <= Len(name)
    BY <1>1
  <2>2. QED
    BY <2>1, LongerLabel
<1>4. key.zone = GetPrefix(name, n) /\ key.type = "NS"
  OBVIOUS
<1> HIDE DEF key
<1>5. QED
  BY <1>2, <1>3, <1>4 DEF HasAuth

-----------------------------------------------------------------------------
(***************************************************************************)
(* doData over a database that does not change.                             *)
(***************************************************************************)
\* The object has walked down the zones of its name; between two zones it
\* holds the delegation it follows, and it asks for the records only where
\* nothing is delegated any more.
WalkInv(q) ==
  LET name == q.query.rrLabel
      n == q.finishedLabelNum IN
  /\ Walked(name, n)
  /\ NoCutBefore(name, n, q.rrLabelLen)
  /\ q.step = "FHQuery" =>
       /\ n + q.rrLabelLen \in CutsBelow(name, n)
       /\ Min(CutsBelow(name, n)) = n + q.rrLabelLen
       /\ q.lastResponse.rrs =
            Lookup(db, GetPrefix(name, n), GetSubName(name, n, q.rrLabelLen), "NS")
  /\ q.step = "RRQuery" => CutsBelow(name, n) = {}
  /\ q.step = "NSQuery" /\ n = Len(name) /\ n # 0 /\ ~EnableForwardingHint =>
       q.query.rrType # "NS"

\* The Response is what the server of the zone answers.
AnswerOf(q, re) ==
  /\ LatestInterest(q).label # << >>
  /\ re = Answer(db, LatestInterest(q))

\* A step of the walk: it stays, goes to the next zone, or ends with the
\* delegation of the whole name or with what the authority has.
Reply(rrs) == [rrs |-> rrs, type |-> IF rrs = << >> THEN "NDNS-Nack" ELSE "NDNS-Resp"]

StaysOrDescends(q, next) ==
  \/ next.finishedLabelNum = q.finishedLabelNum
  \/ /\ CutsBelow(q.query.rrLabel, q.finishedLabelNum) # {}
     /\ next.finishedLabelNum = Min(CutsBelow(q.query.rrLabel, q.finishedLabelNum))

EndsWithDelegation(q, next) ==
  LET name == q.query.rrLabel
      n == q.finishedLabelNum IN
  /\ q.query.rrType = "NS"
  /\ CutsBelow(name, n) # {} /\ Min(CutsBelow(name, n)) = Len(name)
  /\ next.finishedLabelNum = Len(name)
  /\ RecordsAt(name, n, "NS") # << >>
  /\ next.lastResponse = Reply(RecordsAt(name, n, "NS"))

EndsAtAuthority(q, next) ==
  LET name == q.query.rrLabel
      n == q.finishedLabelNum IN
  /\ CutsBelow(name, n) = {}
  /\ next.finishedLabelNum = n
  /\ q.query.rrType = "NS" => n # Len(name)
  /\ next.lastResponse = Reply(IF q.query.rrType = "NS" THEN << >>
                               ELSE RecordsAt(name, n, q.query.rrType))

WalkStep(q, next) ==
  /\ next.query = q.query
  /\ next.step \in {"NSQuery", "RRQuery", "FHQuery"} => StaysOrDescends(q, next)
  /\ next.step = "Abort" => next.finishedLabelNum = q.finishedLabelNum
  /\ next.step = "AnswerStub" => EndsWithDelegation(q, next) \/ EndsAtAuthority(q, next)

\* doData keeps the walk and takes such a step.
WalksOn(q, next) == WalkInv(next) /\ WalkStep(q, next)

\* What an Answer says of its set.
LEMMA AnswerIs ==
  ASSUME NEW d, NEW interest
  PROVE  LET rrs == Lookup(d, interest.zone, interest.label, interest.type)
             re == Answer(d, interest) IN
         /\ re = [rrs |-> rrs, type |-> re.type]
         /\ re.rrs = rrs
         /\ re.type = "NDNS-Resp" <=> rrs # << >>
         /\ re.type = "NDNS-Nack" => rrs = << >>
         /\ re.type = "NDNS-Nack" /\ interest.type = "NS" =>
              ~HasAuth(d, interest.zone, interest.label, "NS")
         /\ re.type = "NDNS-Auth" => rrs = << >> /\ interest.type = "NS"
         /\ re.type \in {"NDNS-Resp", "NDNS-Nack", "NDNS-Auth"}
  BY DEF Answer

\* What the walk ends with at the authority is the expected Response.
LEMMA RecordsExpected ==
  ASSUME NEW q \in IQ, NEW next, WalkInv(q), EndsAtAuthority(q, next)
  PROVE  next.lastResponse = ExpectedResponse(q.query)
<1> PICK name, n : name = q.query.rrLabel /\ n = q.finishedLabelNum
  OBVIOUS
<1>1. name \in Name /\ n \in Nat
  BY DEF IQ, Query
<1>2. AuthorityOf(name) = n
  BY <1>1, AuthorityFound DEF WalkInv, EndsAtAuthority
<1>3. ExpectedRecords(q.query) = IF q.query.rrType = "NS" THEN << >>
                                 ELSE RecordsAt(name, n, q.query.rrType)
  BY <1>2 DEF ExpectedRecords, EndsAtAuthority
<1>4. QED
  BY <1>3 DEF ExpectedResponse, EndsAtAuthority, Reply

\* So is the delegation of the whole name.
LEMMA DelegationExpected ==
  ASSUME NEW q \in IQ, NEW next, WalkInv(q), EndsWithDelegation(q, next)
  PROVE  next.lastResponse = ExpectedResponse(q.query)
<1> PICK name, n, len : /\ name = q.query.rrLabel /\ n = q.finishedLabelNum
                        /\ len = Len(name)
  OBVIOUS
<1>1. name \in Name /\ n \in Nat /\ len \in Nat
  BY LenProperties DEF IQ, Query, Name
<1>2. Walked(name, len) /\ n < len
  BY <1>1, WalkedOn DEF WalkInv, EndsWithDelegation
<1>3. CutsBelow(name, len) = {}
  BY <1>1, NextCut, \A i \in len + 1 .. len : FALSE
<1>4. AuthorityOf(name) = len
  BY <1>1, <1>2, <1>3, AuthorityFound
<1>5. ParentOf(name, len) = n
  BY <1>1, ParentFound DEF WalkInv, EndsWithDelegation
<1>6. q.query.rrType = "NS" /\ len > 0
  BY <1>1, <1>2 DEF EndsWithDelegation
<1>7. ExpectedRecords(q.query) = RecordsAt(name, n, "NS")
  BY <1>4, <1>5, <1>6 DEF ExpectedRecords
<1>8. QED
  BY <1>7 DEF ExpectedResponse, EndsWithDelegation, Reply

\* What came for the question for NS.
LEMMA AnswerOfNS ==
  ASSUME NEW q, NEW re, Active(q), AnswerOf(q, re), q.step = "NSQuery"
  PROVE  LET name == q.query.rrLabel
             n == q.finishedLabelNum
             label == GetSubName(name, n, q.rrLabelLen)
             rrs == Lookup(db, GetPrefix(name, n), label, "NS") IN
         /\ re = [rrs |-> rrs, type |-> re.type] /\ re.rrs = rrs
         /\ label # << >> /\ n # Len(name)
         /\ re.type = "NDNS-Resp" <=> rrs # << >>
         /\ re.type = "NDNS-Nack" =>
              rrs = << >> /\ ~HasAuth(db, GetPrefix(name, n), label, "NS")
         /\ re.type = "NDNS-Auth" => rrs = << >>
<1> PICK interest : interest = LatestInterest(q)
  OBVIOUS
<1>1. /\ q \in IQ /\ q.query.rrLabel \in Name /\ q.finishedLabelNum \in Nat
      /\ q.rrLabelLen \in Nat
  BY DEF Active, IQ, Query
<1>2. /\ interest.zone = GetPrefix(q.query.rrLabel, q.finishedLabelNum)
      /\ interest.type = "NS"
      /\ interest.label = GetSubName(q.query.rrLabel, q.finishedLabelNum, q.rrLabelLen)
      /\ interest.label # << >> /\ re = Answer(db, interest)
  BY <1>1, LatestInterestFields DEF AnswerOf
<1>3. q.finishedLabelNum # Len(q.query.rrLabel)
  <2> SUFFICES ASSUME q.finishedLabelNum = Len(q.query.rrLabel) PROVE FALSE
    OBVIOUS
  <2>1. interest.label = GetSuffix(q.query.rrLabel, q.finishedLabelNum)
    BY <1>1, <1>2, LabelClamped
  <2>2. QED
    BY <1>1, <1>2, <2>1, LabelEmpty
<1>4. QED
  BY <1>2, <1>3, AnswerIs

\* What came for the records themselves.
LEMMA AnswerOfRR ==
  ASSUME NEW q, NEW re, Active(q), AnswerOf(q, re), q.step = "RRQuery"
  PROVE  LET rrs == RecordsAt(q.query.rrLabel, q.finishedLabelNum, q.query.rrType) IN
         /\ re = [rrs |-> rrs, type |-> re.type]
         /\ re.type \in {"NDNS-Resp", "NDNS-Nack"}
         /\ re.type = "NDNS-Resp" <=> rrs # << >>
<1> PICK interest : interest = LatestInterest(q)
  OBVIOUS
<1>1. /\ interest.zone = GetPrefix(q.query.rrLabel, q.finishedLabelNum)
      /\ interest.type = q.query.rrType /\ q.query.rrType # "NS"
      /\ interest.label = GetSuffix(q.query.rrLabel, q.finishedLabelNum)
      /\ re = Answer(db, interest)
  BY LatestInterestFields DEF AnswerOf, Active, StepOK
<1>2. QED
  BY <1>1, AnswerIs DEF RecordsAt

\* The object is given up.
LEMMA AbortWalk ==
  ASSUME NEW q, Active(q), WalkInv(q), NEW next,
         next.step = "Abort", next.query = q.query, next.rrLabelLen = q.rrLabelLen,
         next.finishedLabelNum = q.finishedLabelNum
  PROVE  WalksOn(q, next)
  BY DEF WalksOn, WalkInv, WalkStep

\* An Auth: the labels asked about are no cut, one more is asked about.
LEMMA AuthWalk ==
  ASSUME NEW q, NEW re, Active(q), WalkInv(q), AnswerOf(q, re), re.type = "NDNS-Auth"
  PROVE  WalksOn(q, DoAuth(q))
<1> PICK name, n, len, next : /\ name = q.query.rrLabel /\ n = q.finishedLabelNum
                              /\ len = q.rrLabelLen /\ next = DoAuth(q)
  OBVIOUS
<1>1. q \in IQ /\ name \in Name /\ n \in Nat /\ len \in Nat \ {0}
  BY DEF Active, StepOK, IQ, Query
<1>2. LatestInterest(q).type = "NS"
  BY AnswerIs DEF AnswerOf
<1>3. q.step = "NSQuery"
  BY <1>1, <1>2, LatestInterestFields DEF Active, StepOK
<1>4. Lookup(db, GetPrefix(name, n), GetSubName(name, n, len), "NS") = << >>
  BY <1>3, AnswerOfNS
<1>5. NoCutBefore(name, n, len + 1)
  BY <1>1, <1>4, MissIsNoCut DEF WalkInv
<1>6. /\ next.step = "NSQuery" /\ next.query = q.query /\ next.rrLabelLen = len + 1
      /\ next.finishedLabelNum = n
  BY <1>1, <1>3 DEF DoAuth, IQ
<1>7. WalksOn(q, next)
  BY <1>3, <1>5, <1>6 DEF WalksOn, WalkInv, WalkStep, StaysOrDescends
<1>8. QED
  BY <1>7

\* A Nack of the labels asked about, or of the records.
LEMMA NackWalk ==
  ASSUME NEW q, NEW re, Active(q), WalkInv(q), AnswerOf(q, re), re.type = "NDNS-Nack",
         q.step # "FHQuery"
  PROVE  WalksOn(q, [q EXCEPT !.step = StepAfterNack(q), !.lastResponse = re])
<1> PICK next : next = [q EXCEPT !.step = StepAfterNack(q), !.lastResponse = re]
  OBVIOUS
<1> PICK name, n, len : name = q.query.rrLabel /\ n = q.finishedLabelNum /\ len = q.rrLabelLen
  OBVIOUS
<1>1. /\ q \in IQ /\ name \in Name /\ n \in Nat /\ len \in Nat \ {0} /\ q.query \in Query
      /\ q.step \in {"NSQuery", "RRQuery"}
  BY DEF Active, StepOK, IQ, Query
<1>2. /\ next.step = StepAfterNack(q) /\ next.query = q.query /\ next.rrLabelLen = len
      /\ next.finishedLabelNum = n /\ next.lastResponse = re
  BY <1>1 DEF IQ
<1>3. Walked(name, n) /\ NoCutBefore(name, n, len)
  BY DEF WalkInv
<1>4. CutsBelow(name, n) = {}
  <2>1. CASE q.step = "NSQuery"
    BY <1>1, <1>3, <2>1, AnswerOfNS, NackIsLast
  <2>2. CASE q.step = "RRQuery"
    BY <2>2 DEF WalkInv
  <2>3. QED
    BY <1>1, <2>1, <2>2
<1>5. CASE q.step = "NSQuery" /\ q.query.rrType = "NS"
  <2>1. next.step = "AnswerStub"
    BY <1>2, <1>5 DEF StepAfterNack
  <2>2. re = [rrs |-> << >>, type |-> "NDNS-Nack"] /\ n # Len(name)
    BY <1>5, AnswerOfNS
  <2>3. EndsAtAuthority(q, next)
    BY <1>2, <1>4, <1>5, <2>2 DEF EndsAtAuthority, Reply
  <2>4. QED
    BY <1>2, <1>3, <2>1, <2>3 DEF WalksOn, WalkInv, WalkStep
<1>6. CASE q.step = "NSQuery" /\ q.query.rrType # "NS"
  <2>1. next.step = "RRQuery"
    BY <1>2, <1>6 DEF StepAfterNack
  <2>2. QED
    BY <1>2, <1>3, <1>4, <2>1 DEF WalksOn, WalkInv, WalkStep, StaysOrDescends
<1>7. CASE q.step = "RRQuery"
  <2>1. next.step = "AnswerStub" /\ q.query.rrType # "NS"
    BY <1>2, <1>7 DEF StepAfterNack, Active, StepOK
  <2>2. re = Reply(RecordsAt(name, n, q.query.rrType))
    BY <1>7, AnswerOfRR DEF Reply
  <2>3. EndsAtAuthority(q, next)
    BY <1>2, <1>4, <2>1, <2>2 DEF EndsAtAuthority
  <2>4. QED
    BY <1>2, <1>3, <2>1, <2>3 DEF WalksOn, WalkInv, WalkStep
<1>8. QED
  BY <1>1, <1>5, <1>6, <1>7

\* The records.
LEMMA RecordsWalk ==
  ASSUME NEW q, NEW re, Active(q), WalkInv(q), AnswerOf(q, re), re.type = "NDNS-Resp",
         q.step = "RRQuery"
  PROVE  WalksOn(q, [q EXCEPT !.step = "AnswerStub", !.lastResponse = re])
<1> PICK next : next = [q EXCEPT !.step = "AnswerStub", !.lastResponse = re]
  OBVIOUS
<1>1. /\ q \in IQ /\ q.query \in Query /\ q.finishedLabelNum \in Nat /\ q.query.rrType # "NS"
  BY DEF Active, StepOK, IQ
<1>2. /\ next.step = "AnswerStub" /\ next.query = q.query /\ next.rrLabelLen = q.rrLabelLen
      /\ next.finishedLabelNum = q.finishedLabelNum /\ next.lastResponse = re
  BY <1>1 DEF IQ
<1>3. re = Reply(RecordsAt(q.query.rrLabel, q.finishedLabelNum, q.query.rrType))
  BY AnswerOfRR DEF Reply
<1>4. EndsAtAuthority(q, next)
  BY <1>1, <1>2, <1>3 DEF EndsAtAuthority, WalkInv
<1>5. WalksOn(q, next)
  BY <1>2, <1>4 DEF WalksOn, WalkInv, WalkStep
<1>6. QED
  BY <1>5

\* The labels asked about are the next zone.
LEMMA NextZone ==
  ASSUME NEW q, Active(q), Walked(q.query.rrLabel, q.finishedLabelNum),
         CutsBelow(q.query.rrLabel, q.finishedLabelNum) # {},
         Min(CutsBelow(q.query.rrLabel, q.finishedLabelNum)) = q.finishedLabelNum + q.rrLabelLen
  PROVE  LET m == q.finishedLabelNum + q.rrLabelLen IN
         /\ Walked(q.query.rrLabel, m) /\ m \in Nat
         /\ NoCutBefore(q.query.rrLabel, m, 1)
<1> PICK m : m = q.finishedLabelNum + q.rrLabelLen
  OBVIOUS
<1>1. q.query.rrLabel \in Name /\ q.finishedLabelNum \in Nat
  BY DEF Active, IQ, Query
<1>2. m \in Nat /\ Walked(q.query.rrLabel, m)
  BY <1>1, WalkedOn
<1>3. NoCutBefore(q.query.rrLabel, m, 1)
  BY <1>1, <1>2, NextCut, LenProperties DEF NoCutBefore, Name
<1>4. QED
  BY <1>2, <1>3

\* A delegation, without forwarding hints.
LEMMA DelegationStep ==
  ASSUME NEW q, NEW re, Active(q), WalkInv(q), AnswerOf(q, re), re.type = "NDNS-Resp",
         q.step = "NSQuery"
  PROVE  WalksOn(q, DoResp(q, re))
<1> PICK name, n, len, next : /\ name = q.query.rrLabel /\ n = q.finishedLabelNum
                              /\ len = q.rrLabelLen /\ next = DoResp(q, re)
  OBVIOUS
<1>1. q \in IQ /\ q.query \in Query /\ name \in Name /\ n \in Nat /\ len \in Nat \ {0}
  BY DEF Active, StepOK, IQ, Query
<1> DEFINE rrs == Lookup(db, GetPrefix(name, n), GetSubName(name, n, len), "NS")
<1>2. /\ re = [rrs |-> rrs, type |-> "NDNS-Resp"] /\ rrs # << >>
      /\ GetSubName(name, n, len) # << >>
  BY AnswerOfNS
<1>3. Walked(name, n) /\ NoCutBefore(name, n, len)
  BY DEF WalkInv
<1>4. CutsBelow(name, n) # {} /\ Min(CutsBelow(name, n)) = n + len
  BY <1>1, <1>2, <1>3, RespIsCut
<1>5. Walked(name, n + len) /\ n + len \in Nat /\ NoCutBefore(name, n + len, 1)
  BY <1>1, <1>3, <1>4, NextZone
<1>6. /\ next.query = q.query /\ next.rrLabelLen = 1 /\ next.lastResponse = re
      /\ next.finishedLabelNum = n + len
      /\ next.step = IF q.query.rrType = "NS" /\ n + len = Len(name)
                     THEN "AnswerStub" ELSE "NSQuery"
  BY <1>1 DEF DoResp, Advance, IQ
<1>7. ASSUME next.step = "AnswerStub"
      PROVE  EndsWithDelegation(q, next)
  <2>1. q.query.rrType = "NS" /\ n + len = Len(name)
    BY <1>6, <1>7
  <2>2. rrs = RecordsAt(name, n, "NS")
    BY <1>1, <2>1, LabelClamped DEF RecordsAt
  <2> HIDE DEF rrs
  <2>3. QED
    BY <1>2, <1>4, <1>6, <2>1, <2>2 DEF EndsWithDelegation, Reply
<1>8. WalksOn(q, next)
  BY <1>4, <1>5, <1>6, <1>7 DEF WalksOn, WalkInv, WalkStep, StaysOrDescends
<1>9. QED
  BY <1>8

\* A delegation, with forwarding hints: it is not followed yet.
LEMMA DelegationStepFH ==
  ASSUME NEW q, NEW re, Active(q), WalkInv(q), AnswerOf(q, re), re.type = "NDNS-Resp",
         q.step = "NSQuery"
  PROVE  WalksOn(q, DoRespFH(q, re)) /\ DoRespFH(q, re).step = "FHQuery"
<1> PICK name, n, len, next : /\ name = q.query.rrLabel /\ n = q.finishedLabelNum
                              /\ len = q.rrLabelLen /\ next = DoRespFH(q, re)
  OBVIOUS
<1>1. q \in IQ /\ name \in Name /\ n \in Nat /\ len \in Nat \ {0}
  BY DEF Active, StepOK, IQ, Query
<1>2. /\ re.rrs = Lookup(db, GetPrefix(name, n), GetSubName(name, n, len), "NS")
      /\ re.rrs # << >>
      /\ GetSubName(name, n, len) # << >> /\ n # Len(name)
  BY AnswerOfNS
<1>3. Walked(name, n) /\ NoCutBefore(name, n, len)
  BY DEF WalkInv
<1>4. n + len \in CutsBelow(name, n) /\ Min(CutsBelow(name, n)) = n + len
  BY <1>1, <1>2, <1>3, RespIsCut
<1>5. /\ next.query = q.query /\ next.rrLabelLen = len /\ next.lastResponse = re
      /\ next.finishedLabelNum = n /\ next.step = "FHQuery"
  BY <1>1, <1>2 DEF DoRespFH, IQ
<1>6. WalksOn(q, next)
  BY <1>2, <1>3, <1>4, <1>5 DEF WalksOn, WalkInv, WalkStep, StaysOrDescends
<1>7. QED
  BY <1>5, <1>6

\* The hint: the delegation is followed.
LEMMA HintWalk ==
  ASSUME NEW q, NEW re, Active(q), WalkInv(q), q.step = "FHQuery"
  PROVE  WalksOn(q, DoRespFH(q, re))
<1> PICK name, n, len, next : /\ name = q.query.rrLabel /\ n = q.finishedLabelNum
                              /\ len = q.rrLabelLen /\ next = DoRespFH(q, re)
  OBVIOUS
<1>1. q \in IQ /\ EnableForwardingHint
  BY DEF Active, StepOK
<1>2. Walked(name, n + len) /\ NoCutBefore(name, n + len, 1)
  BY NextZone DEF WalkInv
<1>3. /\ next.query = q.query /\ next.rrLabelLen = 1 /\ next.step = "NSQuery"
      /\ next.finishedLabelNum = n + len
  BY <1>1 DEF DoRespFH, Advance, IQ
<1>4. WalksOn(q, next)
  BY <1>1, <1>2, <1>3 DEF WalksOn, WalkInv, WalkStep, StaysOrDescends
<1>5. QED
  BY <1>4

\* doData, in each step and for each type of Response.
LEMMA DoDataWalk ==
  ASSUME NEW q, NEW re \in Response, Active(q), WalkInv(q),
         re.type = "UNKNOWN" \/ AnswerOf(q, re)
  PROVE  WalksOn(q, StrategyDoData(q, re))
<1> PICK next : next = StrategyDoData(q, re)
  OBVIOUS
<1>1. q \in IQ /\ q.step \in {"NSQuery", "RRQuery", "FHQuery"}
  BY DEF Active
<1>2. CASE re.type = "UNKNOWN"
  <2>1. next = [q EXCEPT !.step = "Abort"]
    BY <1>2 DEF StrategyDoData, DoData, DoDataFH
  <2>2. /\ next.step = "Abort" /\ next.query = q.query /\ next.rrLabelLen = q.rrLabelLen
        /\ next.finishedLabelNum = q.finishedLabelNum
    BY <1>1, <2>1 DEF IQ
  <2>3. QED
    BY <2>2, AbortWalk
<1>3. CASE AnswerOf(q, re) /\ re.type = "NDNS-Auth"
  <2>1. next = DoAuth(q)
    BY <1>3 DEF StrategyDoData, DoData, DoDataFH
  <2>2. QED
    BY <1>3, <2>1, AuthWalk
<1>4. CASE AnswerOf(q, re) /\ re.type = "NDNS-Nack"
  <2>1. CASE q.step = "FHQuery"
    <3>1. EnableForwardingHint
      BY <2>1 DEF Active, StepOK
    <3>2. next = [q EXCEPT !.step = "Abort", !.lastResponse = re]
      BY <1>4, <2>1, <3>1 DEF StrategyDoData, DoDataFH, DoNackFH
    <3>3. /\ next.step = "Abort" /\ next.query = q.query /\ next.rrLabelLen = q.rrLabelLen
          /\ next.finishedLabelNum = q.finishedLabelNum
      BY <1>1, <3>2 DEF IQ
    <3>4. QED
      BY <3>3, AbortWalk
  <2>2. CASE q.step # "FHQuery"
    <3>1. next = [q EXCEPT !.step = StepAfterNack(q), !.lastResponse = re]
      BY <1>4, <2>2 DEF StrategyDoData, DoDataFH, DoNackFH, DoData, DoNack
    <3>2. WalksOn(q, [q EXCEPT !.step = StepAfterNack(q), !.lastResponse = re])
      BY <1>4, <2>2, NackWalk
    <3>3. QED
      BY <3>1, <3>2
  <2>3. QED
    BY <2>1, <2>2
<1>5. CASE AnswerOf(q, re) /\ re.type = "NDNS-Resp"
  <2>1. next = IF EnableForwardingHint THEN DoRespFH(q, re) ELSE DoResp(q, re)
    BY <1>5 DEF StrategyDoData, DoDataFH, DoData
  <2>2. CASE q.step = "RRQuery"
    <3>1. next = [q EXCEPT !.step = "AnswerStub", !.lastResponse = re]
      BY <2>1, <2>2 DEF DoRespFH, DoResp
    <3>2. WalksOn(q, [q EXCEPT !.step = "AnswerStub", !.lastResponse = re])
      BY <1>5, <2>2, RecordsWalk
    <3>3. QED
      BY <3>1, <3>2
  <2>3. CASE q.step = "NSQuery"
    BY <1>5, <2>1, <2>3, DelegationStep, DelegationStepFH
  <2>4. CASE q.step = "FHQuery"
    <3>1. EnableForwardingHint
      BY <2>4 DEF Active, StepOK
    <3>2. QED
      BY <2>1, <2>4, <3>1, HintWalk
  <2>5. QED
    BY <1>1, <2>2, <2>3, <2>4
<1>6. AnswerOf(q, re) => re.type \in {"NDNS-Resp", "NDNS-Nack", "NDNS-Auth"}
  BY AnswerIs DEF AnswerOf
<1>7. QED
  BY <1>2, <1>3, <1>4, <1>5, <1>6

-----------------------------------------------------------------------------
(***************************************************************************)
(* The walk is an invariant, and it ends where the delegations say.         *)
(***************************************************************************)
\* The databases do not change.
Static == Updatable = {}

WalksInv ==
  /\ \A data \in published : data.response = Answer(db, data.interest)
  /\ \A s \in Stub : /\ WalkInv(iq[s])
                     /\ status[s] = "answered" =>
                          iq[s].lastResponse = ExpectedResponse(iq[s].query)

\* A new object is at the root.
LEMMA NewWalk ==
  ASSUME NEW q \in Query
  PROVE  WalkInv(StartIQ(q)) /\ WalkInv(NewIQ(q))
<1>1. \A new : /\ new.query = q /\ new.step = "NSQuery" /\ new.rrLabelLen = 1
               /\ new.finishedLabelNum = 0
               => WalkInv(new)
  <2>1. q.rrLabel \in Name
    BY DEF Query
  <2>2. Walked(q.rrLabel, 0)
    BY <2>1, WalkedRoot
  <2>3. NoCutBefore(q.rrLabel, 0, 1)
    BY <2>1, NextCut, LenProperties DEF NoCutBefore, Name
  <2>4. QED
    BY <2>2, <2>3 DEF WalkInv
<1>2. /\ NewIQ(q).query = q /\ NewIQ(q).step = "NSQuery" /\ NewIQ(q).rrLabelLen = 1
      /\ NewIQ(q).finishedLabelNum = 0
  BY DEF NewIQ
<1>3. QED
  BY <1>1, <1>2, StartIQType

\* In the beginning nothing is published and nothing asked.
LEMMA InitWalks == Init => WalksInv
<1> SUFFICES ASSUME Init PROVE WalksInv
  OBVIOUS
<1>1. DefaultQuery \in Query
  BY EmptySeq DEF DefaultQuery, Query, Name, RRType
<1>2. QED
  BY <1>1, NewWalk DEF Init, WalksInv

\* Without updates no step changes the database.
LEMMA DatabaseStays ==
  ASSUME Static, [Next]_vars
  PROVE  db' = db
  BY DEF Static, Next, OnInterest, ServerOnInterest, CacheReply, ForeignReply, OnData,
         OnTimeout, Stop, Run, DynamicUpdate, vars

\* So do the zones, and what depends on them.
LEMMA ZonesStay ==
  ASSUME db' = db
  PROVE  /\ \A q : WalkInv(q)' <=> WalkInv(q)
         /\ \A q : ExpectedResponse(q)' = ExpectedResponse(q)
         /\ \A q : Resolvable(q)' <=> Resolvable(q)
         /\ \A name : HopsServed(name)' <=> HopsServed(name)
<1>1. \A name, i : CutsBelow(name, i)' = CutsBelow(name, i)
  BY DEF CutsBelow
<1>2. \A name : ZonesOf(name)' = ZonesOf(name)
  BY <1>1 DEF ZonesOf, IsPathOfZones
<1>3. \A name : AuthorityOf(name)' = AuthorityOf(name)
  BY <1>2 DEF AuthorityOf
<1>4. \A name, n : ParentOf(name, n)' = ParentOf(name, n)
  BY <1>1, <1>2 DEF ParentOf
<1>5. \A name, n, type : RecordsAt(name, n, type)' = RecordsAt(name, n, type)
  BY DEF RecordsAt
<1>6. \A q : ExpectedResponse(q)' = ExpectedResponse(q)
  BY <1>3, <1>4, <1>5 DEF ExpectedResponse, ExpectedRecords
<1>7. \A q : WalkInv(q)' <=> WalkInv(q)
  BY <1>1, <1>2 DEF WalkInv, Walked, NoCutBefore
<1>8. \A name : HopsServed(name)' <=> HopsServed(name)
  BY <1>1, <1>2 DEF HopsServed
<1>9. \A name : IsInnerNode(name)' <=> IsInnerNode(name)
  BY <1>3 DEF IsInnerNode
<1>10. QED
  BY <1>3, <1>6, <1>7, <1>8, <1>9 DEF Resolvable

\* Data on the way back is what the server of the zone answers.
LEMMA ReplyIsAnswer ==
  ASSUME IInv, WalksInv, NEW s \in Stub, status[s] = "delivering"
  PROVE  /\ Active(iq[s]) /\ reply[s] \in Response
         /\ reply[s].type = "UNKNOWN" \/ AnswerOf(iq[s], reply[s])
<1>1. Active(iq[s]) /\ reply[s] \in Response
  BY DEF IInv, TypeOK, StubInv, ObjectInv, Outstanding, Active
<1>2. ASSUME reply[s].type # "UNKNOWN"
      PROVE  AnswerOf(iq[s], reply[s])
  <2> DEFINE data == [interest |-> LatestInterest(iq[s]), response |-> reply[s]]
  <2>1. data \in published
    BY <1>2 DEF IInv, StubInv, ReplyGenuine
  <2>2. data.interest = LatestInterest(iq[s]) /\ data.response = reply[s]
    OBVIOUS
  <2> HIDE DEF data
  <2>3. data.interest.label # << >> /\ data.response = Answer(db, data.interest)
    BY <2>1 DEF IInv, PublishedByServers, ServerData, WalksInv
  <2>4. QED
    BY <2>2, <2>3 DEF AnswerOf
<1>3. QED
  BY <1>1, <1>2

\* Every step keeps every query on its walk.
LEMMA StepWalks == Static /\ IInv /\ WalksInv /\ [Next]_vars => WalksInv'
<1> SUFFICES ASSUME Static, IInv, WalksInv, [Next]_vars PROVE WalksInv'
  OBVIOUS
<1>1. db' = db /\ iq \in [Stub -> IQ] /\ status \in [Stub -> Status]
  BY DatabaseStays DEF IInv, TypeOK
<1>2. \A data \in published' : data.response = Answer(db', data.interest)
  BY <1>1 DEF WalksInv, Next, OnInterest, ServerOnInterest, CacheReply, ForeignReply,
              OnData, OnTimeout, Stop, Run, DynamicUpdate, Update, vars
<1> SUFFICES ASSUME NEW t \in Stub
             PROVE  /\ WalkInv(iq'[t])
                    /\ status'[t] = "answered" =>
                         iq'[t].lastResponse = ExpectedResponse(iq'[t].query)
  <2>1. /\ \A q : WalkInv(q)' <=> WalkInv(q)
        /\ \A q : ExpectedResponse(q)' = ExpectedResponse(q)
    BY <1>1, ZonesStay
  <2>2. QED
    BY <1>2, <2>1 DEF WalksInv
<1>3. CASE iq'[t] = iq[t] /\ (status'[t] = "answered" => status[t] = "answered")
  BY <1>3 DEF WalksInv
<1>4. ASSUME NEW s \in Stub, NEW question \in Question, OnInterest(s, question)
      PROVE  /\ WalkInv(iq'[t])
             /\ status'[t] = "answered" =>
                  iq'[t].lastResponse = ExpectedResponse(iq'[t].query)
  <2>1. CASE s = t
    <3>1. iq'[t] = StartIQ(question) /\ status'[t] = "waiting"
      BY <1>1, <1>4, <2>1 DEF OnInterest
    <3>2. QED
      BY <3>1, NewWalk, ResolverAssumption
  <2>2. QED
    BY <1>1, <1>3, <1>4, <2>1 DEF OnInterest
<1>5. ASSUME NEW s \in Stub, OnData(s)
      PROVE  /\ WalkInv(iq'[t])
             /\ status'[t] = "answered" =>
                  iq'[t].lastResponse = ExpectedResponse(iq'[t].query)
  <2>1. CASE s = t
    <3>1. PICK q, re : q = iq[t] /\ re = reply[t]
      OBVIOUS
    <3>2. PICK next : next = StrategyDoData(q, re)
      OBVIOUS
    <3>3. /\ status[t] = "delivering" /\ iq'[t] = next
          /\ status'[t] = StatusAfter(next.step)
      BY <1>1, <1>5, <2>1, <3>1, <3>2 DEF OnData
    <3>4. WalksOn(q, next)
      BY <3>1, <3>2, <3>3, ReplyIsAnswer, DoDataWalk DEF WalksInv
    <3>5. status'[t] = "answered" => next.step = "AnswerStub"
      <4>1. Good(next)
        BY <3>1, <3>2, <3>3, ReplyIsAnswer, DoDataGood
           DEF IInv, StubInv, ReplyGenuine, PublishedByServers, PublishedFor
      <4>2. QED
        BY <3>3, <4>1 DEF StatusAfter, Good
    <3>6. next.step = "AnswerStub" => next.lastResponse = ExpectedResponse(next.query)
      BY <3>1, <3>3, <3>4, ReplyIsAnswer, RecordsExpected, DelegationExpected
         DEF WalksOn, WalkStep, WalksInv, Active
    <3>7. QED
      BY <3>3, <3>4, <3>5, <3>6 DEF WalksOn
  <2>2. QED
    BY <1>1, <1>3, <1>5, <2>1 DEF OnData
<1>6. CASE iq' = iq /\ (status'[t] = "answered" => status[t] = "answered")
  BY <1>3, <1>6
<1>7. QED
  BY <1>1, <1>4, <1>5, <1>6
     DEF Next, ServerOnInterest, CacheReply, ForeignReply, OnTimeout, Deliver,
         Stop, Run, DynamicUpdate, Update, vars

\* The two invariants together, over databases that do not change.
LEMMA WalksAlways == Static /\ Spec => []WalksInv
<1>1. Init => IInv /\ WalksInv
  BY InitInv, InitWalks
<1>2. ASSUME Static
      PROVE  IInv /\ WalksInv /\ [Next]_vars => (IInv /\ WalksInv)'
  BY <1>2, StepInv, StepWalks
<1>3. CASE Static
  <2>1. IInv /\ WalksInv /\ [Next]_vars => (IInv /\ WalksInv)'
    BY <1>2, <1>3
  <2>2. QED
    BY <1>1, <2>1, PTL DEF Spec
<1>4. QED
  BY <1>3

(***************************************************************************)
(* The Response a stub gets is the one the delegations of the database       *)
(* define, whatever the labels, databases, faults and caches: the walk of   *)
(* IterativeQuery::doData ends at the authority of the name.                *)
(***************************************************************************)
THEOREM ResolutionCorrectHolds == Static /\ Spec => []ResolutionCorrect
<1>1. WalksInv => ResolutionCorrect
  BY DEF WalksInv, ResolutionCorrect
<1>2. QED
  BY <1>1, WalksAlways, PTL

(***************************************************************************)
(* m_finishedLabelNum never exceeds the number of labels, although an Auth  *)
(* may make m_rrLabelLen larger than the rest of the name.                  *)
(***************************************************************************)
THEOREM FinishedWithinNameHolds == Static /\ Spec => []FinishedWithinName
<1>1. IInv /\ WalksInv => FinishedWithinName
  <2> SUFFICES ASSUME IInv, WalksInv, NEW s \in Stub
               PROVE  iq[s].finishedLabelNum <= Len(DstLabel(s))
    BY DEF FinishedWithinName
  <2>1. DstLabel(s) \in Name
    BY DEF DstLabel, IInv, TypeOK, IQ, Query
  <2>2. iq[s].finishedLabelNum \in ZonesOf(DstLabel(s))
    BY DEF WalksInv, WalkInv, Walked, DstLabel
  <2>3. QED
    BY <2>1, <2>2, ZonesAreLeast
<1>2. Spec => []IInv
  BY Invariance
<1>3. QED
  BY <1>1, <1>2, WalksAlways, PTL

-----------------------------------------------------------------------------
(***************************************************************************)
(* Who is not answered.  Along the hops of a name whose servers run, every  *)
(* Interest reaches the server of its zone under the hint it listens on.    *)
(***************************************************************************)
\* The server of the root zone runs, and the option --hint is its hint.
RootServed ==
  /\ << >> \in DOMAIN ServerHint
  /\ EnableForwardingHint => RootHint = ServerHint[<< >>]

\* A name server of a delegation with a forwarding hint is not the empty name.
HintsAreAsked == \A key \in RRSetKey : key.type = "FH" => key.label # << >>

HopInv(q) ==
  EnableForwardingHint /\ HopsServed(q.query.rrLabel) =>
    q.forwardingHint = ServerHint[AuthorityZone(q)]

\* Every zone of a name with served hops has a server.
LEMMA ZoneIsServed ==
  ASSUME RootServed, NEW name \in Name, NEW n \in ZonesOf(name), HopsServed(name)
  PROVE  GetPrefix(name, n) \in DOMAIN ServerHint
<1>1. CASE n = 0
  <2>1. Len(name) \in Nat
    BY LenProperties DEF Name
  <2>2. AtMost(0, Len(name)) = 0
    BY <2>1 DEF AtMost
  <2>3. GetPrefix(name, 0) = << >>
    BY <2>2, SubSeqEmpty DEF GetPrefix
  <2>4. QED
    BY <1>1, <2>3 DEF RootServed
<1>2. CASE n # 0
  BY <1>2, ZoneHasParent DEF HopsServed
<1>3. QED
  BY <1>1, <1>2

\* In FHQuery the parent knows the hint of the zone the query goes to.
LEMMA HintIsKnown ==
  ASSUME NEW q, Active(q), WalkInv(q), q.step = "FHQuery", HopsServed(q.query.rrLabel)
  PROVE  LET zone == GetPrefix(q.query.rrLabel, q.finishedLabelNum)
             hints == Lookup(db, zone, Head(q.lastResponse.rrs), "FH")
             child == GetPrefix(q.query.rrLabel, q.finishedLabelNum + q.rrLabelLen) IN
         hints # << >> /\ Head(hints) = ServerHint[child]
<1> PICK name, n, len : name = q.query.rrLabel /\ n = q.finishedLabelNum /\ len = q.rrLabelLen
  OBVIOUS
<1>1. /\ n \in Nat /\ len \in Nat /\ n + len - n = len
      /\ EnableForwardingHint
  BY DEF Active, StepOK, IQ
<1>2. /\ n \in ZonesOf(name) /\ CutsBelow(name, n) # {}
      /\ n + len = Min(CutsBelow(name, n)) /\ n + len \in ZonesOf(name)
  BY NextZone DEF WalkInv, Walked
<1>3. q.lastResponse.rrs = Lookup(db, GetPrefix(name, n), GetSubName(name, n, n + len - n), "NS")
  BY <1>1 DEF WalkInv
<1>4. QED
  BY <1>1, <1>2, <1>3 DEF HopsServed

\* The Interest of a question that can be resolved is answered.
LEMMA AskedIsAnswered ==
  ASSUME RootServed, HintsAreAsked, NEW q, Active(q), WalkInv(q), HopInv(q), Resolvable(q.query)
  PROVE  WillBeAnswered(LatestInterest(q))
<1> PICK name, n, len, interest : /\ name = q.query.rrLabel /\ n = q.finishedLabelNum
                                  /\ len = q.rrLabelLen /\ interest = LatestInterest(q)
  OBVIOUS
<1>1. /\ q \in IQ /\ name \in Name /\ n \in Nat /\ len \in Nat \ {0}
      /\ q.step \in {"NSQuery", "RRQuery", "FHQuery"}
  BY DEF Active, StepOK, IQ, Query
<1>2. HopsServed(name)
  BY DEF Resolvable
<1>3. Walked(name, n) /\ n \in ZonesOf(name) /\ n <= Len(name) /\ Len(name) \in Nat
  BY <1>1, ZonesAreLeast DEF WalkInv, Walked
<1>4. Reachable(interest)
  <2>1. interest.zone = GetPrefix(name, n) /\ GetPrefix(name, n) \in DOMAIN ServerHint
    BY <1>1, <1>2, <1>3, LatestInterestFields, ZoneIsServed
  <2>2. interest.hint = IF EnableForwardingHint THEN q.forwardingHint ELSE << >>
    BY DEF LatestInterest, ToLatestInterest, ToLatestInterestFH
  <2>3. EnableForwardingHint => q.forwardingHint = ServerHint[interest.zone]
    BY <1>2, <2>1 DEF HopInv, AuthorityZone
  <2>4. QED
    BY <2>1, <2>2, <2>3 DEF Reachable
<1>5. CutsBelow(name, n) = {} => AuthorityOf(name) = n
  BY <1>1, <1>3, AuthorityFound
<1>6. n = Len(name) => /\ CutsBelow(name, n) = {}
                       /\ q.query.rrType = "NS" /\ n # 0 /\ ~EnableForwardingHint
  <2> SUFFICES ASSUME n = Len(name)
               PROVE  /\ CutsBelow(name, n) = {}
                      /\ q.query.rrType = "NS" /\ n # 0 /\ ~EnableForwardingHint
    OBVIOUS
  <2>1. CutsBelow(name, n) = {}
    BY <1>1, NextCut, \A i \in n + 1 .. n : FALSE
  <2>2. q.query.rrType = "NS" /\ name # << >> /\ ~EnableForwardingHint
    BY <1>5, <2>1 DEF Resolvable
  <2>3. n # 0
    BY <1>1, <2>2, EmptySeq DEF Name
  <2>4. QED
    BY <2>1, <2>2, <2>3
<1>7. interest.label # << >>
  <2>1. CASE q.step = "NSQuery"
    <3> SUFFICES ASSUME interest.label = << >> PROVE FALSE
      OBVIOUS
    <3>1. n # Len(name)
      BY <1>6, <2>1 DEF WalkInv
    <3>2. GetSubName(name, n, len) = << >>
      BY <1>1, <2>1, LatestInterestFields
    <3>3. PICK e \in Nat : e = AtMost(n + len, Len(name)) /\ e <= Len(name) /\ n + 1 <= e
      BY <1>1, <1>3, <3>1 DEF AtMost
    <3>4. Len(GetSubName(name, n, len)) = e - (n + 1) + 1
      BY <1>1, <3>3, PieceOfName, n + 1 \in Nat \ {0} DEF GetSubName
    <3>5. QED
      BY <1>1, <3>2, <3>3, <3>4, Len(<< >>) = 0
  <2>2. CASE q.step = "RRQuery"
    <3>1. q.query.rrType # "NS"
      BY <2>2 DEF Active, StepOK
    <3>2. interest.label = GetSuffix(name, n)
      BY <1>1, <2>2, LatestInterestFields
    <3>3. QED
      BY <1>1, <1>3, <1>6, <3>1, <3>2, LabelEmpty
  <2>3. CASE q.step = "FHQuery"
    <3>1. interest.label = Head(q.lastResponse.rrs)
      BY <2>3 DEF LatestInterest, ToLatestInterestFH, Active, StepOK
    <3>2. Lookup(db, GetPrefix(name, n), interest.label, "FH") # << >>
      BY <1>2, <2>3, <3>1, HintIsKnown
    <3> DEFINE key == [zone |-> GetPrefix(name, n), label |-> interest.label, type |-> "FH"]
    <3>3. key \in RRSetKey
      BY <3>2 DEF Lookup
    <3>4. key.type = "FH" /\ key.label = interest.label
      OBVIOUS
    <3> HIDE DEF key
    <3>5. QED
      BY <3>3, <3>4 DEF HintsAreAsked
  <2>4. QED
    BY <1>1, <2>1, <2>2, <2>3
<1>8. QED
  BY <1>4, <1>7 DEF WillBeAnswered, IsLegal

\* doData keeps the hint of the zone and does not abort on a served way.
LEMMA DoDataHops ==
  ASSUME NEW q, NEW re \in Response, Active(q), WalkInv(q), HopInv(q), AnswerOf(q, re)
  PROVE  LET next == StrategyDoData(q, re) IN
         /\ HopInv(next)
         /\ next.step = "Abort" => ~HopsServed(q.query.rrLabel)
         /\ next.query = q.query
<1> PICK next : next = StrategyDoData(q, re)
  OBVIOUS
<1>1. /\ q \in IQ /\ q.step \in {"NSQuery", "RRQuery", "FHQuery"}
      /\ q.step = "FHQuery" => EnableForwardingHint
      /\ re.type \in {"NDNS-Resp", "NDNS-Nack", "NDNS-Auth"}
  BY AnswerIs DEF Active, StepOK, AnswerOf
<1>2. CASE ~EnableForwardingHint
  <2>1. next = DoData(q, re)
    BY <1>2 DEF StrategyDoData
  <2>2. next.step # "Abort" /\ next.query = q.query
    BY <1>1, <1>2, <2>1 DEF DoData, DoNack, DoAuth, DoResp, Advance, StepAfterNack, IQ
  <2>3. QED
    BY <1>2, <2>2 DEF HopInv
<1>3. CASE EnableForwardingHint /\ q.step = "FHQuery"
  <2> PICK interest : interest = LatestInterest(q)
    OBVIOUS
  <2>1. /\ interest.zone = GetPrefix(q.query.rrLabel, q.finishedLabelNum)
        /\ interest.label = Head(q.lastResponse.rrs) /\ interest.type = "FH"
        /\ re = Answer(db, interest)
    BY <1>3 DEF AnswerOf, LatestInterest, ToLatestInterestFH, AuthorityZone
  <2>2. /\ re.rrs = Lookup(db, interest.zone, interest.label, "FH")
        /\ re.type = "NDNS-Resp" <=> re.rrs # << >>
        /\ re.type # "NDNS-Auth"
    BY <2>1, AnswerIs
  <2>3. HopsServed(q.query.rrLabel) =>
          /\ re.rrs # << >>
          /\ Head(re.rrs) =
               ServerHint[GetPrefix(q.query.rrLabel, q.finishedLabelNum + q.rrLabelLen)]
    BY <1>3, <2>1, <2>2, HintIsKnown
  <2>4. next = DoDataFH(q, re)
    BY <1>3 DEF StrategyDoData
  <2>5. CASE re.type = "NDNS-Nack"
    <3>1. next.query = q.query /\ next.forwardingHint = q.forwardingHint
          /\ next.finishedLabelNum = q.finishedLabelNum
      BY <1>1, <2>4, <2>5 DEF DoDataFH, DoNackFH, IQ
    <3>2. ~HopsServed(q.query.rrLabel)
      BY <2>2, <2>3, <2>5
    <3>3. QED
      BY <3>1, <3>2 DEF HopInv
  <2>6. CASE re.type = "NDNS-Resp"
    <3>1. next = DoRespFH(q, re)
      BY <2>4, <2>6 DEF DoDataFH
    <3>2. /\ next.query = q.query /\ next.step = "NSQuery"
          /\ next.forwardingHint = Head(re.rrs)
          /\ next.finishedLabelNum = q.finishedLabelNum + q.rrLabelLen
      BY <1>1, <1>3, <3>1 DEF DoRespFH, Advance, IQ
    <3>3. HopInv(next)
      BY <2>3, <3>2 DEF HopInv, AuthorityZone
    <3>4. QED
      BY <3>2, <3>3
  <2>7. QED
    BY <1>1, <2>2, <2>5, <2>6
<1>4. CASE EnableForwardingHint /\ q.step # "FHQuery"
  <2>1. next = DoDataFH(q, re)
    BY <1>4 DEF StrategyDoData
  <2>2. /\ next.step # "Abort" /\ next.query = q.query
        /\ next.forwardingHint = q.forwardingHint
        /\ next.finishedLabelNum = q.finishedLabelNum
    BY <1>1, <1>4, <2>1 DEF DoDataFH, DoNackFH, DoAuth, DoRespFH, StepAfterNack, IQ
  <2>3. QED
    BY <2>2 DEF HopInv, AuthorityZone
<1>5. QED
  BY <1>2, <1>3, <1>4

\* No question that can be resolved has been given up.
SilenceInv ==
  \A s \in Stub :
    /\ status[s] # "idle" => HopInv(iq[s])
    /\ status[s] = "delivering" => reply[s].type # "UNKNOWN"
    /\ status[s] = "silent" => ~Resolvable(iq[s].query)

\* Every step keeps the hints of the hops and gives up only what it may.
LEMMA StepSilence ==
  ASSUME Static, Faults = {}, RootServed, HintsAreAsked,
         IInv, WalksInv, SilenceInv, [Next]_vars
  PROVE  SilenceInv'
<1>1. /\ db' = db /\ iq \in [Stub -> IQ] /\ status \in [Stub -> Status]
      /\ reply \in [Stub -> Response]
  BY DatabaseStays DEF IInv, TypeOK
<1> SUFFICES ASSUME NEW t \in Stub
             PROVE  /\ status'[t] # "idle" => HopInv(iq'[t])
                    /\ status'[t] = "delivering" => reply'[t].type # "UNKNOWN"
                    /\ status'[t] = "silent" => ~Resolvable(iq'[t].query)
  <2>1. \A q : HopInv(q)' <=> HopInv(q)
    BY <1>1, ZonesStay DEF HopInv
  <2>2. \A q : Resolvable(q)' <=> Resolvable(q)
    BY <1>1, ZonesStay
  <2>3. QED
    BY <2>1, <2>2 DEF SilenceInv
<1> DEFINE Kept == /\ iq'[t] = iq[t] /\ status[t] # "idle"
                   /\ status'[t] = "delivering" => reply'[t].type # "UNKNOWN"
                   /\ status'[t] = "silent" => ~Resolvable(iq[t].query)
<1>2. CASE iq'[t] = iq[t] /\ status'[t] = status[t] /\ reply'[t] = reply[t]
  BY <1>2 DEF SilenceInv
<1>3. CASE Kept
  BY <1>3 DEF SilenceInv
<1>4. ASSUME NEW s \in Stub, NEW question \in Question, OnInterest(s, question), s = t
      PROVE  /\ status'[t] # "idle" => HopInv(iq'[t])
             /\ status'[t] = "delivering" => reply'[t].type # "UNKNOWN"
             /\ status'[t] = "silent" => ~Resolvable(iq'[t].query)
  <2>1. iq'[t] = StartIQ(question) /\ status'[t] = "waiting"
    BY <1>1, <1>4 DEF OnInterest
  <2>2. PICK new : new = StartIQ(question)
    OBVIOUS
  <2>3. /\ new.finishedLabelNum = 0 /\ new.query = question
        /\ EnableForwardingHint => new.forwardingHint = RootHint
        /\ question.rrLabel \in Name
    BY <2>2, StartIQType, ResolverAssumption DEF StartIQ, NewIQ, Query
  <2>4. AuthorityZone(new) = << >>
    <3>1. Len(question.rrLabel) \in Nat
      BY <2>3, LenProperties DEF Name
    <3>2. AtMost(0, Len(question.rrLabel)) = 0
      BY <3>1 DEF AtMost
    <3>3. QED
      BY <2>3, <3>2, SubSeqEmpty DEF AuthorityZone, GetPrefix
  <2>5. HopInv(new)
    BY <2>3, <2>4 DEF HopInv, RootServed
  <2>6. QED
    BY <2>1, <2>2, <2>5
<1>5. ASSUME NEW s \in Stub, OnData(s), s = t
      PROVE  /\ status'[t] # "idle" => HopInv(iq'[t])
             /\ status'[t] = "delivering" => reply'[t].type # "UNKNOWN"
             /\ status'[t] = "silent" => ~Resolvable(iq'[t].query)
  <2>1. PICK q, re : q = iq[t] /\ re = reply[t]
    OBVIOUS
  <2>2. PICK next : next = StrategyDoData(q, re)
    OBVIOUS
  <2>3. /\ status[t] = "delivering" /\ iq'[t] = next
        /\ status'[t] = StatusAfter(next.step)
    BY <1>1, <1>5, <2>1, <2>2 DEF OnData
  <2>4. Active(q) /\ re \in Response /\ AnswerOf(q, re) /\ WalkInv(q) /\ HopInv(q)
    BY <2>1, <2>3, ReplyIsAnswer DEF SilenceInv, WalksInv
  <2>5. /\ HopInv(next) /\ next.query = q.query
        /\ next.step = "Abort" => ~HopsServed(q.query.rrLabel)
    BY <2>2, <2>4, DoDataHops
  <2>6. next.step \in {"NSQuery", "RRQuery", "FHQuery", "AnswerStub", "Abort"}
    BY <2>1, <2>2, <2>3, <2>4, DoDataGood
       DEF SilenceInv, IInv, StubInv, ReplyGenuine, PublishedByServers, PublishedFor, Good
  <2>7. /\ status'[t] # "delivering"
        /\ status'[t] = "silent" => next.step = "Abort"
    BY <2>3, <2>6 DEF StatusAfter
  <2>8. QED
    BY <2>3, <2>5, <2>7 DEF Resolvable
<1>6. ASSUME NEW s \in Stub, OnTimeout(s), s = t
      PROVE  Kept
  <2>1. /\ status[t] = "waiting" /\ ~WillBeAnswered(LatestInterest(iq[t]))
        /\ status'[t] = "silent" /\ iq'[t] = iq[t] /\ reply'[t] = reply[t]
    BY <1>1, <1>6 DEF OnTimeout
  <2>2. Active(iq[t]) /\ WalkInv(iq[t]) /\ HopInv(iq[t])
    BY <2>1 DEF IInv, TypeOK, StubInv, ObjectInv, Outstanding, Active, WalksInv, SilenceInv
  <2>3. ~Resolvable(iq[t].query)
    BY <2>1, <2>2, AskedIsAnswered
  <2>4. QED
    BY <2>1, <2>3
<1>7. ASSUME NEW s \in Stub, s = t, NEW re, Deliver(s, re), status[s] = "waiting",
             iq' = iq, re.type # "UNKNOWN"
      PROVE  Kept
  BY <1>1, <1>7 DEF Deliver
<1>8. ASSUME NEW s \in Stub, s = t, ServerOnInterest(s)
      PROVE  Kept
  <2>1. Answer(db, LatestInterest(iq[s])).type # "UNKNOWN"
    BY AnswerIs
  <2>2. QED
    BY <1>7, <1>8, <2>1 DEF ServerOnInterest
<1>9. ASSUME NEW s \in Stub, s = t, CacheReply(s)
      PROVE  Kept
  <2>1. \A data \in published : data.response.type # "UNKNOWN"
    BY DEF IInv, PublishedByServers, ServerData
  <2>2. QED
    BY <1>7, <1>9, <2>1 DEF CacheReply
<1>10. ~Stop /\ \A s : ~ForeignReply(s)
  BY DEF Stop, ForeignReply
<1>11. CASE UNCHANGED <<iq, status, reply>>
  BY <1>2, <1>11
<1>12. ASSUME NEW s \in Stub, s # t,
              \/ \E q \in Question : OnInterest(s, q)
              \/ ServerOnInterest(s) \/ CacheReply(s) \/ OnData(s) \/ OnTimeout(s)
       PROVE  iq'[t] = iq[t] /\ status'[t] = status[t] /\ reply'[t] = reply[t]
  BY <1>1, <1>12 DEF OnInterest, ServerOnInterest, CacheReply, OnData, OnTimeout, Deliver
<1>13. QED
  <2> HIDE DEF Kept
  <2>1. CASE \E s \in Stub :
               \/ \E q \in Question : OnInterest(s, q)
               \/ ServerOnInterest(s) \/ CacheReply(s) \/ OnData(s) \/ OnTimeout(s)
    BY <1>2, <1>3, <1>4, <1>5, <1>6, <1>8, <1>9, <1>12, <2>1
  <2>2. CASE Run \/ DynamicUpdate \/ UNCHANGED vars
    BY <1>11, <2>2 DEF Run, DynamicUpdate, Update, vars
  <2>3. QED
    BY <1>10, <2>1, <2>2 DEF Next

(***************************************************************************)
(* Without faults, a question is dropped only if the resolver has nothing   *)
(* to ask or nobody to ask it: no time-out and no Abort ends the others.    *)
(***************************************************************************)
THEOREM SilentOnlyIfUnresolvableHolds ==
  Static /\ Faults = {} /\ RootServed /\ HintsAreAsked /\ Spec => []SilentOnlyIfUnresolvable
<1>1. SilenceInv => SilentOnlyIfUnresolvable
  BY DEF SilenceInv, SilentOnlyIfUnresolvable
<1>2. Init => IInv /\ WalksInv /\ SilenceInv
  BY InitInv, InitWalks DEF Init, SilenceInv
<1>3. CASE Static /\ Faults = {} /\ RootServed /\ HintsAreAsked
  <2>1. IInv /\ WalksInv /\ SilenceInv /\ [Next]_vars => (IInv /\ WalksInv /\ SilenceInv)'
    BY <1>3, StepInv, StepWalks, StepSilence
  <2>2. QED
    BY <1>1, <1>2, <2>1, PTL DEF Spec
<1>4. QED
  BY <1>3

-----------------------------------------------------------------------------
(***************************************************************************)
(* The resolver implements DelegationWalk.                                  *)
(***************************************************************************)
\* Both modules read the database in the same way.
LEMMA WalkReads ==
  /\ \A name, i, j : Walk!Delegation(name, i, j) =
                       Lookup(db, GetPrefix(name, i), GetSubName(name, i, j - i), "NS")
  /\ \A name, i, type :
       Walk!Lookup(db, Walk!GetPrefix(name, i), Walk!GetSuffix(name, i), type) =
         RecordsAt(name, i, type)
<1>1. \A name, i, j : Walk!Delegation(name, i, j) =
                        Lookup(db, GetPrefix(name, i), GetSubName(name, i, j - i), "NS")
  BY DEF Walk!Delegation, Walk!Lookup, Walk!GetPrefix, Walk!GetSubName, Walk!AtMost,
         Lookup, GetPrefix, GetSubName, AtMost
<1>2. \A name, i, type :
        Walk!Lookup(db, Walk!GetPrefix(name, i), Walk!GetSuffix(name, i), type) =
          RecordsAt(name, i, type)
  BY DEF Walk!Lookup, Walk!GetPrefix, Walk!GetSuffix, Walk!AtMost,
         RecordsAt, Lookup, GetPrefix, GetSuffix, AtMost
<1>3. QED
  BY <1>1, <1>2

\* The next cut is the next zone, and a zone without cuts the authority.
LEMMA WalkZones ==
  ASSUME NEW name \in Name, NEW n \in Nat
  PROVE  /\ CutsBelow(name, n) # {} => Walk!IsNextZone(name, n, Min(CutsBelow(name, n)))
         /\ CutsBelow(name, n) = {} => Walk!IsAuthority(name, n)
<1>1. Len(name) \in Nat
  BY LenProperties DEF Name
<1>2. \A j \in (n + 1) .. Len(name) :
        Walk!Delegation(name, n, j) # << >> <=> j \in CutsBelow(name, n)
  BY WalkReads DEF CutsBelow
<1>3. CutsBelow(name, n) = {} => Walk!IsAuthority(name, n)
  BY <1>2 DEF Walk!IsAuthority
<1>4. ASSUME CutsBelow(name, n) # {}
      PROVE  Walk!IsNextZone(name, n, Min(CutsBelow(name, n)))
  <2> PICK m : m = Min(CutsBelow(name, n))
    OBVIOUS
  <2>1. /\ m \in CutsBelow(name, n) /\ m \in (n + 1) .. Len(name)
        /\ \A j \in CutsBelow(name, n) : m <= j
    BY <1>4, NextCut
  <2>2. \A j \in (n + 1) .. (m - 1) : j \in (n + 1) .. Len(name) /\ ~(m <= j)
    BY <1>1, <2>1
  <2>3. \A j \in (n + 1) .. (m - 1) : Walk!Delegation(name, n, j) = << >>
    BY <1>2, <2>1, <2>2
  <2>4. Walk!IsNextZone(name, n, m)
    BY <1>2, <2>1, <2>3 DEF Walk!IsNextZone
  <2>5. QED
    BY <2>4
<1>5. QED
  BY <1>3, <1>4

\* What the walk knows of each stub.
walkNow == <<db, StatusNow, QuestionNow, ZoneNow, ResponseNow>>

\* A step that ends no question and changes no object is none of the walk's.
LEMMA WalkStutters ==
  ASSUME db' = db, iq' = iq, \A s \in Stub : Outstanding(s)' = Outstanding(s) /\
           (~Outstanding(s) => status'[s] = status[s])
  PROVE  walkNow' = walkNow
<1>1. \A s \in Stub : status'[s] = "answered" <=> status[s] = "answered"
  BY DEF Outstanding
<1>2. StatusNow' = StatusNow /\ ResponseNow' = ResponseNow
  BY <1>1 DEF StatusNow, ResponseNow
<1>3. QED
  BY <1>2 DEF walkNow, QuestionNow, ZoneNow

\* onTimeout and the end of the process give the questions of some stubs up.
LEMMA GivesUp ==
  ASSUME NEW S \in SUBSET Stub, \A s \in S : Outstanding(s),
         status' = [s \in Stub |-> IF s \in S THEN "silent" ELSE status[s]],
         db' = db, iq' = iq
  PROVE  Walk!GiveUp(S)
<1>1. StatusNow' = [s \in Stub |-> IF s \in S THEN "silent" ELSE StatusNow[s]]
  BY DEF StatusNow, Outstanding
<1>2. ResponseNow' = ResponseNow
  BY DEF ResponseNow, Outstanding
<1>3. \A s \in S : StatusNow[s] = "open"
  BY DEF StatusNow
<1>4. QED
  BY <1>1, <1>2, <1>3 DEF Walk!GiveUp, QuestionNow, ZoneNow

\* onInterest asks.
LEMMA AskImplements ==
  ASSUME IInv, NEW s \in Stub, NEW q \in Question, OnInterest(s, q)
  PROVE  Walk!Ask(s, q)
<1>1. iq \in [Stub -> IQ] /\ status \in [Stub -> Status]
  BY DEF IInv, TypeOK
<1>2. StartIQ(q).query = q /\ StartIQ(q).finishedLabelNum = 0
  BY DEF StartIQ, NewIQ
<1>3. /\ status' = [status EXCEPT ![s] = "waiting"] /\ ~Outstanding(s)
      /\ iq' = [iq EXCEPT ![s] = StartIQ(q)] /\ db' = db
  BY DEF OnInterest
<1>4. StatusNow' = [StatusNow EXCEPT ![s] = "open"] /\ StatusNow[s] # "open"
  BY <1>1, <1>3 DEF StatusNow, Outstanding, Status
<1>5. ResponseNow' = [ResponseNow EXCEPT ![s] = InitialResponse]
  BY <1>1, <1>3 DEF ResponseNow
<1>6. QuestionNow' = [QuestionNow EXCEPT ![s] = q] /\ ZoneNow' = [ZoneNow EXCEPT ![s] = 0]
  BY <1>1, <1>2, <1>3 DEF QuestionNow, ZoneNow
<1>7. Walk!InitialResponse = InitialResponse
  BY DEF Walk!InitialResponse, InitialResponse
<1>8. QED
  BY <1>3, <1>4, <1>5, <1>6, <1>7 DEF Walk!Ask

\* The object of one stub changes, and so does what the walk knows of it.
LEMMA ObjectMoves ==
  ASSUME IInv, NEW s \in Stub, NEW next, status[s] = "delivering",
         next.query = iq[s].query,
         next.step \in {"NSQuery", "RRQuery", "FHQuery", "AnswerStub", "Abort"},
         iq' = [iq EXCEPT ![s] = next],
         status' = [status EXCEPT ![s] = StatusAfter(next.step)]
  PROVE  /\ StatusNow[s] = "open"
         /\ StatusNow' = [StatusNow EXCEPT ![s] =
              CASE next.step = "AnswerStub" -> "answered"
                [] next.step = "Abort" -> "silent"
                [] OTHER -> "open"]
         /\ QuestionNow' = QuestionNow
         /\ ZoneNow' = [ZoneNow EXCEPT ![s] = next.finishedLabelNum]
         /\ ResponseNow' =
              IF next.step = "AnswerStub"
              THEN [ResponseNow EXCEPT ![s] = next.lastResponse] ELSE ResponseNow
<1>1. iq \in [Stub -> IQ] /\ status \in [Stub -> Status]
  BY DEF IInv, TypeOK
<1>2. /\ iq'[s] = next /\ status'[s] = StatusAfter(next.step)
      /\ \A t \in Stub \ {s} : iq'[t] = iq[t] /\ status'[t] = status[t]
  BY <1>1
<1>3. /\ next.step = "AnswerStub" <=> status'[s] = "answered"
      /\ next.step = "Abort" <=> status'[s] = "silent"
      /\ next.step \in {"NSQuery", "RRQuery", "FHQuery"} <=> status'[s] = "waiting"
  BY <1>2 DEF StatusAfter
<1>4. StatusNow[s] = "open"
  BY DEF StatusNow, Outstanding
<1>5. QuestionNow' = QuestionNow /\ ZoneNow' = [ZoneNow EXCEPT ![s] = next.finishedLabelNum]
  <2>1. \A t \in Stub : iq'[t].query = iq[t].query
    BY <1>2
  <2>2. QuestionNow' = QuestionNow
    BY <2>1 DEF QuestionNow
  <2>3. ZoneNow'[s] = next.finishedLabelNum
    BY <1>2 DEF ZoneNow
  <2>4. \A t \in Stub \ {s} : ZoneNow'[t] = ZoneNow[t]
    BY <1>2 DEF ZoneNow
  <2>5. QED
    BY <2>2, <2>3, <2>4 DEF ZoneNow
<1>6. StatusNow' = [StatusNow EXCEPT ![s] =
        CASE next.step = "AnswerStub" -> "answered"
          [] next.step = "Abort" -> "silent"
          [] OTHER -> "open"]
  <2>1. StatusNow'[s] = CASE next.step = "AnswerStub" -> "answered"
                          [] next.step = "Abort" -> "silent"
                          [] OTHER -> "open"
    BY <1>3 DEF StatusNow, Outstanding
  <2>2. \A t \in Stub \ {s} : StatusNow'[t] = StatusNow[t]
    BY <1>2 DEF StatusNow, Outstanding
  <2>3. QED
    BY <2>1, <2>2 DEF StatusNow
<1>7. ResponseNow' = IF next.step = "AnswerStub"
                     THEN [ResponseNow EXCEPT ![s] = next.lastResponse] ELSE ResponseNow
  <2>1. ResponseNow'[s] = IF next.step = "AnswerStub" THEN next.lastResponse
                                                      ELSE ResponseNow[s]
    BY <1>2, <1>3 DEF ResponseNow
  <2>2. \A t \in Stub \ {s} : ResponseNow'[t] = ResponseNow[t]
    BY <1>2 DEF ResponseNow
  <2>3. QED
    BY <2>1, <2>2 DEF ResponseNow
<1>8. QED
  BY <1>4, <1>5, <1>6, <1>7

\* onData stays, descends, ends the question or gives it up.
LEMMA DataImplements ==
  ASSUME Static, IInv, WalksInv, NEW s \in Stub, OnData(s)
  PROVE  \/ Walk!Descend(s) \/ Walk!ReplyDelegation(s) \/ Walk!ReplyRecords(s)
         \/ Walk!GiveUp({s}) \/ walkNow' = walkNow
<1> PICK q, re : q = iq[s] /\ re = reply[s]
  OBVIOUS
<1> PICK next : next = StrategyDoData(q, re)
  OBVIOUS
<1> PICK name, n : name = q.query.rrLabel /\ n = q.finishedLabelNum
  OBVIOUS
<1>1. /\ status[s] = "delivering" /\ db' = db
      /\ iq' = [iq EXCEPT ![s] = next]
      /\ status' = [status EXCEPT ![s] = StatusAfter(next.step)]
  BY DEF OnData
<1>2. Active(q) /\ WalkInv(q) /\ WalksOn(q, next)
  BY <1>1, ReplyIsAnswer, DoDataWalk DEF WalksInv
<1>3. q \in IQ /\ name \in Name /\ n \in Nat
  BY <1>2 DEF Active, IQ, Query
<1>4. next.step \in {"NSQuery", "RRQuery", "FHQuery", "AnswerStub", "Abort"}
  <2>1. Good(next)
    BY <1>1, ReplyIsAnswer, DoDataGood
       DEF IInv, StubInv, ReplyGenuine, PublishedByServers, PublishedFor
  <2>2. QED
    BY <2>1 DEF Good
<1>5. next.query = q.query
  BY <1>2 DEF WalksOn, WalkStep
<1>6. /\ StatusNow[s] = "open"
      /\ StatusNow' = [StatusNow EXCEPT ![s] =
           CASE next.step = "AnswerStub" -> "answered"
             [] next.step = "Abort" -> "silent"
             [] OTHER -> "open"]
      /\ QuestionNow' = QuestionNow
      /\ ZoneNow' = [ZoneNow EXCEPT ![s] = next.finishedLabelNum]
      /\ ResponseNow' =
           IF next.step = "AnswerStub"
           THEN [ResponseNow EXCEPT ![s] = next.lastResponse] ELSE ResponseNow
  BY <1>1, <1>4, <1>5, ObjectMoves
<1>7. QuestionNow[s] = q.query /\ ZoneNow[s] = n
  BY DEF QuestionNow, ZoneNow
<1>8. /\ StatusNow = [StatusNow EXCEPT ![s] = StatusNow[s]]
      /\ ZoneNow = [ZoneNow EXCEPT ![s] = ZoneNow[s]]
  BY DEF StatusNow, ZoneNow
<1>9. CASE next.step \in {"NSQuery", "RRQuery", "FHQuery"}
  <2>1. StaysOrDescends(q, next)
    BY <1>2, <1>9 DEF WalksOn, WalkStep
  <2>2. StatusNow' = StatusNow /\ ResponseNow' = ResponseNow
    BY <1>6, <1>8, <1>9
  <2>3. CASE next.finishedLabelNum = n
    BY <1>1, <1>6, <1>7, <1>8, <2>2, <2>3 DEF walkNow
  <2>4. CASE next.finishedLabelNum # n
    <3> PICK m : m = Min(CutsBelow(name, n))
      OBVIOUS
    <3>1. CutsBelow(name, n) # {} /\ next.finishedLabelNum = m
      BY <2>1, <2>4 DEF StaysOrDescends
    <3>2. Walk!IsNextZone(name, n, m) /\ m \in 1 .. Len(name)
      BY <1>3, <3>1, WalkZones, NextCut, LenProperties DEF Name
    <3>3. Walk!Descend(s)
      BY <1>1, <1>6, <1>7, <2>2, <3>1, <3>2 DEF Walk!Descend
    <3>4. QED
      BY <3>3
  <2>5. QED
    BY <2>3, <2>4
<1>10. CASE next.step = "AnswerStub"
  <2>1. /\ StatusNow' = [StatusNow EXCEPT ![s] = "answered"]
        /\ ResponseNow' = [ResponseNow EXCEPT ![s] = next.lastResponse]
    BY <1>6, <1>10
  <2>2. ASSUME NEW rrs, next.lastResponse = Reply(rrs)
        PROVE  Walk!Reply(s, rrs)
    BY <1>1, <1>6, <2>1, <2>2 DEF Walk!Reply, Reply
  <2>3. CASE EndsWithDelegation(q, next)
    <3>1. /\ CutsBelow(name, n) # {} /\ Min(CutsBelow(name, n)) = Len(name)
          /\ q.query.rrType = "NS" /\ next.finishedLabelNum = Len(name)
          /\ next.lastResponse = Reply(RecordsAt(name, n, "NS"))
      BY <2>3 DEF EndsWithDelegation
    <3>2. n < Len(name) /\ Len(name) \in Nat
      BY <1>2, <1>3, <3>1, WalkedOn DEF WalkInv
    <3>3. GetSubName(name, n, Len(name) - n) = GetSuffix(name, n)
      BY <1>3, <3>2, LabelClamped, Len(name) - n \in Nat, Len(name) <= n + (Len(name) - n)
    <3>4. Walk!Delegation(name, n, Len(name)) = RecordsAt(name, n, "NS")
      BY <3>3, WalkReads DEF RecordsAt
    <3>5. Walk!IsNextZone(name, n, Len(name))
      BY <1>3, <3>1, WalkZones
    <3>6. Walk!Reply(s, Walk!Delegation(name, n, Len(name)))
      BY <2>2, <3>1, <3>4
    <3>7. ZoneNow' = [ZoneNow EXCEPT ![s] = Len(name)]
      BY <1>6, <3>1
    <3>8. Walk!ReplyDelegation(s)
      BY <1>7, <3>1, <3>5, <3>6, <3>7 DEF Walk!ReplyDelegation
    <3>9. QED
      BY <3>8
  <2>4. CASE EndsAtAuthority(q, next)
    <3>1. /\ CutsBelow(name, n) = {} /\ next.finishedLabelNum = n
          /\ q.query.rrType = "NS" => n # Len(name)
          /\ next.lastResponse = Reply(IF q.query.rrType = "NS" THEN << >>
                                       ELSE RecordsAt(name, n, q.query.rrType))
      BY <2>4 DEF EndsAtAuthority
    <3>2. Walk!IsAuthority(name, n)
      BY <1>3, <3>1, WalkZones
    <3>3. ZoneNow' = ZoneNow
      BY <1>6, <1>7, <1>8, <3>1
    <3>4. Walk!Reply(s, IF q.query.rrType = "NS" THEN << >>
                        ELSE RecordsAt(name, n, q.query.rrType))
      BY <2>2, <3>1
    <3>5. RecordsAt(name, n, q.query.rrType) =
            Walk!Lookup(db, Walk!GetPrefix(name, n), Walk!GetSuffix(name, n), q.query.rrType)
      BY WalkReads
    <3>6. Walk!ReplyRecords(s)
      BY <1>7, <3>1, <3>2, <3>3, <3>4, <3>5 DEF Walk!ReplyRecords
    <3>7. QED
      BY <3>6
  <2>5. QED
    BY <1>2, <1>10, <2>3, <2>4 DEF WalksOn, WalkStep
<1>11. CASE next.step = "Abort"
  <2>1. next.finishedLabelNum = n
    BY <1>2, <1>11 DEF WalksOn, WalkStep
  <2>2. ZoneNow' = ZoneNow /\ ResponseNow' = ResponseNow
    BY <1>6, <1>7, <1>8, <1>11, <2>1
  <2>3. StatusNow' = [t \in Stub |-> IF t \in {s} THEN "silent" ELSE StatusNow[t]]
    BY <1>6, <1>11 DEF StatusNow
  <2>4. Walk!GiveUp({s})
    BY <1>1, <1>6, <2>2, <2>3 DEF Walk!GiveUp
  <2>5. QED
    BY <2>4
<1>12. QED
  BY <1>4, <1>9, <1>10, <1>11

\* Every step of the resolver, its servers and the caches.
LEMMA StepImplementsWalk ==
  ASSUME Static, IInv, WalksInv, Next
  PROVE  Walk!WalkNext \/ walkNow' = walkNow
<1>1. db' = db /\ iq \in [Stub -> IQ] /\ status \in [Stub -> Status]
  BY DatabaseStays DEF IInv, TypeOK
<1>2. ASSUME NEW s \in Stub, NEW q \in Question, OnInterest(s, q)
      PROVE  Walk!WalkNext
  BY <1>2, AskImplements DEF Walk!WalkNext
<1>3. ASSUME NEW s \in Stub, ServerOnInterest(s) \/ CacheReply(s) \/ ForeignReply(s)
      PROVE  walkNow' = walkNow
  <2>1. iq' = iq /\ status[s] = "waiting" /\ status' = [status EXCEPT ![s] = "delivering"]
    BY <1>3 DEF ServerOnInterest, CacheReply, ForeignReply, Deliver
  <2>2. \A t \in Stub : /\ Outstanding(t)' = Outstanding(t)
                        /\ ~Outstanding(t) => status'[t] = status[t]
    BY <1>1, <2>1 DEF Outstanding
  <2>3. QED
    BY <1>1, <2>1, <2>2, WalkStutters
<1>4. ASSUME NEW s \in Stub, OnData(s)
      PROVE  Walk!WalkNext \/ walkNow' = walkNow
  BY <1>4, DataImplements DEF Walk!WalkNext
<1>5. ASSUME NEW s \in Stub, OnTimeout(s)
      PROVE  Walk!WalkNext
  <2>1. Outstanding(s) /\ iq' = iq /\ status' = [status EXCEPT ![s] = "silent"]
    BY <1>5 DEF OnTimeout, Outstanding
  <2>2. status' = [t \in Stub |-> IF t \in {s} THEN "silent" ELSE status[t]]
    BY <1>1, <2>1
  <2>3. Walk!GiveUp({s})
    BY <1>1, <2>1, <2>2, GivesUp
  <2>4. QED
    BY <2>3 DEF Walk!WalkNext
<1>6. ASSUME Stop
      PROVE  Walk!WalkNext
  <2> DEFINE S == {s \in Stub : Outstanding(s)}
  <2>1. status' = [s \in Stub |-> IF s \in S THEN "silent" ELSE status[s]] /\ iq' = iq
    BY <1>6 DEF Stop
  <2>2. S \in SUBSET Stub /\ \A s \in S : Outstanding(s)
    OBVIOUS
  <2> HIDE DEF S
  <2>3. Walk!GiveUp(S)
    BY <1>1, <2>1, <2>2, GivesUp
  <2>4. QED
    BY <2>2, <2>3 DEF Walk!WalkNext
<1>7. ASSUME iq' = iq, status' = status
      PROVE  walkNow' = walkNow
  BY <1>1, <1>7, WalkStutters DEF Outstanding
<1>8. QED
  BY <1>2, <1>3, <1>4, <1>5, <1>6, <1>7 DEF Next, Run, DynamicUpdate, Update

(***************************************************************************)
(* Over a database that does not change the resolver, with the strategy of  *)
(* either class, is a walk down the delegations: every step of doData, of   *)
(* the servers, the caches and the faults is one of its steps or none.      *)
(***************************************************************************)
THEOREM ResolverImplementsWalk == Static /\ Spec => WalkRefinement
<1>1. IInv /\ Init => Walk!WalkInit
  <2> SUFFICES ASSUME IInv, Init PROVE Walk!WalkInit
    OBVIOUS
  <2>1. db \in Walk!Database
    BY DEF IInv, TypeOK, Walk!Database, Walk!Name, Database, Name
  <2>2. StatusNow = [s \in Stub |-> "idle"]
    BY DEF Init, StatusNow, Outstanding
  <2>3. QuestionNow = [s \in Stub |-> Walk!DefaultQuery] /\ ZoneNow = [s \in Stub |-> 0]
    BY DEF Init, NewIQ, QuestionNow, ZoneNow, DefaultQuery, Walk!DefaultQuery
  <2>4. ResponseNow = [s \in Stub |-> Walk!InitialResponse]
    BY DEF Init, ResponseNow, InitialResponse, Walk!InitialResponse
  <2>5. QED
    BY <2>1, <2>2, <2>3, <2>4 DEF Walk!WalkInit
<1>2. ASSUME Static
      PROVE  IInv /\ WalksInv /\ [Next]_vars => [Walk!WalkNext]_walkNow
  <2> SUFFICES ASSUME IInv, WalksInv, [Next]_vars
               PROVE  [Walk!WalkNext]_walkNow
    OBVIOUS
  <2>1. CASE Next
    BY <1>2, <2>1, StepImplementsWalk
  <2>2. CASE UNCHANGED vars
    BY <2>2, WalkStutters DEF vars, Outstanding
  <2>3. QED
    BY <2>1, <2>2
<1>3. CASE Static
  <2>1. IInv /\ WalksInv /\ [Next]_vars => [Walk!WalkNext]_walkNow
    BY <1>2, <1>3
  <2>2. Spec => []IInv /\ []WalksInv
    BY <1>3, Invariance, WalksAlways, PTL
  <2>3. Spec => Walk!WalkInit /\ [][Walk!WalkNext]_walkNow
    BY <1>1, <2>1, <2>2, PTL DEF Spec
  <2>4. QED
    BY <2>3, PTL DEF WalkRefinement, Walk!WalkSpec, Walk!walkVars, walkNow
<1>4. QED
  BY <1>3

=============================================================================
