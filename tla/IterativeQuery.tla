--------------------------- MODULE IterativeQuery ---------------------------
(***************************************************************************)
(* class IterativeQuery: the resolution of one question as a state machine  *)
(* driven by the responses of the name servers.  The resolver keeps one     *)
(* such object per outstanding Interest, by value, so the module gives the  *)
(* object as a record and its methods as operators on that record.          *)
(*                                                                          *)
(* m_authZoneIndex is only ever assigned 0 (the other RRs of a response are *)
(* never tried), so m_lastResponse.getRrs()[m_authZoneIndex] is Head.       *)
(* m_tryNum and m_tryMax are never read.                                    *)
(***************************************************************************)
EXTENDS NdnsTypes

IQ == [ query             : Query,
        step              : QueryStep,
        finishedLabelNum  : Nat,
        lastFinishedLabelNum : Nat,
        rrLabelLen        : Nat,
        lastResponse      : Response,
        forwardingHint     : Name,       \* used with forwarding hints only
        lastForwardingHint : Name ]

\* The constructor.
NewIQ(query) ==
  [ query |-> query, step |-> "NSQuery", finishedLabelNum |-> 0,
    lastFinishedLabelNum |-> 0, rrLabelLen |-> 1,
    lastResponse |-> InitialResponse,
    forwardingHint |-> << >>, lastForwardingHint |-> << >> ]

\* The zone that is asked next, and the part of the name it is asked about.
AuthorityZone(iq) == GetPrefix(iq.query.rrLabel, iq.finishedLabelNum)

\* Mutant: the question for the records asks about the next labels only.
CurrentLabelOfNSOnly(iq) ==
  GetSubName(iq.query.rrLabel, iq.finishedLabelNum, iq.rrLabelLen)

CurrentLabel(iq) ==
  IF iq.step = "RRQuery"
  THEN GetSuffix(iq.query.rrLabel, iq.finishedLabelNum)
  ELSE GetSubName(iq.query.rrLabel, iq.finishedLabelNum, iq.rrLabelLen)

(***************************************************************************)
(* doData, one operator per branch on the response type.                    *)
(***************************************************************************)
\* Mutant: a Nack of the records themselves does not end the query.
StepAfterNackAsksAgain(iq) ==
  IF iq.step = "NSQuery"
  THEN IF iq.query.rrType = "NS" THEN "AnswerStub" ELSE "RRQuery"
  ELSE iq.step

\* m_step after a Nack; an NS question is answered by the Nack itself.
StepAfterNack(iq) ==
  CASE iq.step = "NSQuery" /\ iq.query.rrType = "NS" -> "AnswerStub"
    [] iq.step = "NSQuery" /\ iq.query.rrType # "NS" -> "RRQuery"
    [] iq.step = "RRQuery" -> "AnswerStub"
    [] OTHER -> iq.step

\* Mutant: m_lastResponse keeps the Response before the Nack.
DoNackForgets(iq, re) == [iq EXCEPT !.step = StepAfterNack(iq)]

\* Mutant: the labels a Nack was about count as resolved.
DoNackAdvances(iq, re) ==
  [iq EXCEPT !.step = StepAfterNack(iq), !.lastResponse = re,
             !.finishedLabelNum = @ + iq.rrLabelLen]

DoNack(iq, re) == [iq EXCEPT !.step = StepAfterNack(iq), !.lastResponse = re]

\* "need more specific info": ask about one more component.
DoAuth(iq) == [iq EXCEPT !.rrLabelLen = @ + 1]

\* Mutant: m_rrLabelLen is not reset for the next zone.
AdvanceKeepsLen(iq) ==
  [iq EXCEPT !.lastFinishedLabelNum = iq.finishedLabelNum,
             !.finishedLabelNum = @ + iq.rrLabelLen]

\* Mutant: the resolved labels are taken off instead of added.
AdvanceBackwards(iq) ==
  [iq EXCEPT !.lastFinishedLabelNum = iq.finishedLabelNum,
             !.finishedLabelNum = @ - iq.rrLabelLen,
             !.rrLabelLen = 1]

\* The labels asked about are delegated: they are resolved.
Advance(iq) ==
  [iq EXCEPT !.lastFinishedLabelNum = iq.finishedLabelNum,
             !.finishedLabelNum = @ + iq.rrLabelLen,
             !.rrLabelLen = 1]

\* Mutant: the end of an NS question is tested before the label number moves.
DoRespTestsEarly(iq, re) ==
  CASE iq.step = "NSQuery" ->
         [Advance(iq) EXCEPT
            !.lastResponse = re,
            !.step = IF /\ iq.query.rrType = "NS"
                        /\ iq.finishedLabelNum = Len(iq.query.rrLabel)
                     THEN "AnswerStub" ELSE @]
    [] iq.step = "RRQuery" ->
         [iq EXCEPT !.step = "AnswerStub", !.lastResponse = re]
    [] OTHER -> iq

DoResp(iq, re) ==
  CASE iq.step = "NSQuery" ->
         LET next == Advance(iq) IN
         [next EXCEPT
            !.lastResponse = re,
            !.step = IF /\ iq.query.rrType = "NS"
                        /\ next.finishedLabelNum = Len(iq.query.rrLabel)
                     THEN "AnswerStub" ELSE @]
    [] iq.step = "RRQuery" ->
         [iq EXCEPT !.step = "AnswerStub", !.lastResponse = re]
    [] OTHER -> iq

DoData(iq, re) ==
  CASE re.type = "UNKNOWN"   -> [iq EXCEPT !.step = "Abort"]
    [] re.type = "NDNS-Nack" -> DoNack(iq, re)
    [] re.type = "NDNS-Auth" -> DoAuth(iq)
    [] re.type = "NDNS-Resp" -> DoResp(iq, re)
    [] OTHER -> iq

(***************************************************************************)
(* toLatestInterest, for the steps in which resolve() calls it.             *)
(***************************************************************************)
ToLatestInterest(iq) ==
  [ hint  |-> << >>,
    zone  |-> AuthorityZone(iq),
    label |-> CurrentLabel(iq),
    type  |-> IF iq.step = "NSQuery" THEN "NS" ELSE iq.query.rrType ]

=============================================================================
