------------------ MODULE IterativeQueryWithForwardingHint ------------------
(***************************************************************************)
(* class IterativeQueryWithForwardingHint: the strategy of a resolver that  *)
(* reaches the name servers through forwarding hints.  Between two zones it *)
(* asks the parent for the FH record of the name server the NS record names *)
(* and uses its data as the hint of the Interests to the child zone.        *)
(*                                                                          *)
(* m_forwardingHintIndex is never assigned but 0, so getRrs()[index] is     *)
(* Head.  The Nack branch shares StepAfterNack with the base class and adds *)
(* the step of its own, FHQuery.                                            *)
(***************************************************************************)
EXTENDS IterativeQuery

\* Mutant: m_lastResponse keeps the Response before the Nack.
DoNackFHForgets(iq, re) ==
  [iq EXCEPT !.step = IF iq.step = "FHQuery" THEN "Abort" ELSE StepAfterNack(iq)]

DoNackFH(iq, re) ==
  [iq EXCEPT !.step = IF iq.step = "FHQuery" THEN "Abort" ELSE StepAfterNack(iq),
             !.lastResponse = re]

\* Mutant: the labels are counted when the NS record comes and again when the
\* hint comes.
DoRespFHCountsTwice(iq, re) ==
  CASE iq.step = "NSQuery" ->
         [iq EXCEPT !.lastResponse = re, !.step = "FHQuery",
                    !.finishedLabelNum = @ + iq.rrLabelLen]
    [] iq.step = "FHQuery" ->
         [Advance(iq) EXCEPT
            !.step = "NSQuery",
            !.lastForwardingHint = iq.forwardingHint,
            !.forwardingHint = Head(re.rrs)]
    [] iq.step = "RRQuery" ->
         [iq EXCEPT !.step = "AnswerStub", !.lastResponse = re]
    [] OTHER -> iq

\* Mutant: the query enters the child zone with the hint of the parent.
DoRespFHKeepsHint(iq, re) ==
  CASE iq.step = "NSQuery" -> [iq EXCEPT !.lastResponse = re, !.step = "FHQuery"]
    [] iq.step = "FHQuery" -> [Advance(iq) EXCEPT !.step = "NSQuery"]
    [] iq.step = "RRQuery" ->
         [iq EXCEPT !.step = "AnswerStub", !.lastResponse = re]
    [] OTHER -> iq

\* In NSQuery the test for the end of an NS question reads the label number
\* of the parent, which FHQuery has not advanced yet.
DoRespFH(iq, re) ==
  CASE iq.step = "NSQuery" ->
         [iq EXCEPT
            !.lastResponse = re,
            !.step = IF /\ iq.query.rrType = "NS"
                        /\ iq.finishedLabelNum = Len(iq.query.rrLabel)
                     THEN "AnswerStub" ELSE "FHQuery"]
    [] iq.step = "FHQuery" ->
         [Advance(iq) EXCEPT
            !.step = "NSQuery",
            !.lastForwardingHint = iq.forwardingHint,
            !.forwardingHint = Head(re.rrs)]
    [] iq.step = "RRQuery" ->
         [iq EXCEPT !.step = "AnswerStub", !.lastResponse = re]
    [] OTHER -> iq

DoDataFH(iq, re) ==
  CASE re.type = "UNKNOWN"   -> [iq EXCEPT !.step = "Abort"]
    [] re.type = "NDNS-Nack" -> DoNackFH(iq, re)
    [] re.type = "NDNS-Auth" -> DoAuth(iq)
    [] re.type = "NDNS-Resp" -> DoRespFH(iq, re)
    [] OTHER -> iq

ToLatestInterestFH(iq) ==
  [ hint  |-> iq.forwardingHint,
    zone  |-> AuthorityZone(iq),
    label |-> IF iq.step = "FHQuery" THEN Head(iq.lastResponse.rrs)
                                     ELSE CurrentLabel(iq),
    type  |-> CASE iq.step = "NSQuery" -> "NS"
                [] iq.step = "FHQuery" -> "FH"
                [] OTHER -> iq.query.rrType ]

=============================================================================
