------------------------------ MODULE NdnsTypes ------------------------------
(***************************************************************************)
(* The vocabulary shared by all components of NDNS: names, the enumerations *)
(* of ndns-enum.hpp, and the two packets of the query plane (the Interest a *)
(* Query turns into and the Response a name server puts into Data).         *)
(*                                                                          *)
(* A name is a sequence of components.  RR data are names as well: the      *)
(* resolver itself reads the data of NS and FH records as names             *)
(* (Name(rr.getRrData())), and for TXT only equality matters.               *)
(***************************************************************************)
EXTENDS Naturals, Sequences

CONSTANT Component              \* the name components of the instance

Name == Seq(Component)

(***************************************************************************)
(* ndn::Name::getPrefix and getSubName.  Both clamp silently to the end of  *)
(* the name; the resolver relies on (and is sometimes misled by) that.      *)
(***************************************************************************)
AtMost(i, n) == IF i <= n THEN i ELSE n

GetPrefix(name, n) == SubSeq(name, 1, AtMost(n, Len(name)))

GetSubName(name, start, n) ==
  SubSeq(name, start + 1, AtMost(start + n, Len(name)))

GetSuffix(name, start) == SubSeq(name, start + 1, Len(name))

(***************************************************************************)
(* ndns-enum.hpp and ndns-label.hpp.  The query-name regular expressions    *)
(* know these four RR types only.                                           *)
(***************************************************************************)
RRType == {"NS", "FH", "TXT", "ID-CERT"}

ResponseType == {"NDNS-Resp", "NDNS-Nack", "NDNS-Auth",
                 "DyNDNS-OK", "DyNDNS-Fail", "UNKNOWN"}

QueryStep == {"NSQuery", "FHQuery", "RRQuery", "AnswerStub", "Abort"}

UpdateAction == {"NONE", "ADD", "REMOVE", "REPLACE-ALL", "REPLACE", "UNKNOWN"}

(***************************************************************************)
(* What a stub asks: a name and the type of the records wanted.             *)
(***************************************************************************)
Query == [rrLabel : Name, rrType : RRType]

\* Query::Query(): what fromInterest leaves of a name it cannot parse.
DefaultQuery == [rrLabel |-> << >>, rrType |-> "NS"]

(***************************************************************************)
(* A query Interest /<hint>/%F0./<zone>/DNS/<label>/<type>; the empty hint  *)
(* stands for an Interest without the hint part (Query::toInterest).        *)
(***************************************************************************)
Interest == [hint : Name, zone : Name, label : Name, type : RRType]

(***************************************************************************)
(* A Response: its type and the data of its RRs, in the order of their ids. *)
(***************************************************************************)
Response == [type : ResponseType, rrs : Seq(Name)]

Data == [interest : Interest, response : Response]

\* Response::Response(): what m_lastResponse holds before any Data is read.
InitialResponse == [type |-> "NDNS-Resp", rrs |-> << >>]

=============================================================================
