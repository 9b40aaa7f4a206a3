------------------------ MODULE LiveNameServer_proofs ------------------------
(***************************************************************************)
(* Proofs about a running name server: what it reads out of the names it    *)
(* hears, and what its statements find next to other writers.               *)
(***************************************************************************)
EXTENDS LiveNameServer, SharedDatabase_proofs, NamePatterns_proofs

-----------------------------------------------------------------------------
\* A name whose components are no marks.
Unmarked(name) == \A i \in DOMAIN name : name[i] \notin Marker \cup {HintMark}

\* A name of a hint of length h, or none if h is 0, and a zone of length n.
Marked(name, h, n) ==
  /\ h # 0 => name[h] = HintMark
  /\ \A j \in 1 .. h - 1 : name[j] \notin Marker \cup {HintMark}
  /\ \A j \in 1 .. n : name[h + j] \notin Marker \cup {HintMark}
  /\ name[h + n + 1] \in Marker

LEMMA SameMarks ==
  ASSUME NEW name, NEW filter, NEW h \in Nat, NEW n \in Nat, NEW g \in Nat, NEW m \in Nat,
         Marked(name, h, n), Marked(filter, g, m),
         \A j \in 1 .. g + m + 1 : name[j] = filter[j]
  PROVE  h = g /\ n = m
<1> DEFINE Mark(j) == name[j] \in Marker \cup {HintMark}
           IsHint(j) == name[j] = HintMark
           FilterMark(j) == filter[j] \in Marker \cup {HintMark}
           FilterHint(j) == filter[j] = HintMark
<1>1. /\ h # 0 => IsHint(h) /\ Mark(h)
      /\ \A j \in 1 .. h - 1 : ~Mark(j)
      /\ \A j \in 1 .. n : ~Mark(h + j)
      /\ Mark(h + n + 1) /\ ~IsHint(h + n + 1)
  BY MarksAreComponents DEF Marked
<1>2. /\ g # 0 => FilterHint(g) /\ FilterMark(g)
      /\ \A j \in 1 .. g - 1 : ~FilterMark(j)
      /\ \A j \in 1 .. m : ~FilterMark(g + j)
      /\ FilterMark(g + m + 1) /\ ~FilterHint(g + m + 1)
  BY MarksAreComponents DEF Marked
<1>3. \A j \in 1 .. g + m + 1 : (Mark(j) <=> FilterMark(j)) /\ (IsHint(j) <=> FilterHint(j))
  OBVIOUS
<1> HIDE DEF Mark, IsHint, FilterMark, FilterHint
<1>4. \A j \in Nat : h < j /\ j <= h + n => ~Mark(j)
  <2> SUFFICES ASSUME NEW j \in Nat, h < j, j <= h + n PROVE ~Mark(j)
    OBVIOUS
  <2>1. j - h \in 1 .. n /\ h + (j - h) = j
    OBVIOUS
  <2>2. QED
    BY <1>1, <2>1
<1>5. \A j \in Nat : g < j /\ j <= g + m => ~FilterMark(j)
  <2> SUFFICES ASSUME NEW j \in Nat, g < j, j <= g + m PROVE ~FilterMark(j)
    OBVIOUS
  <2>1. j - g \in 1 .. m /\ g + (j - g) = j
    OBVIOUS
  <2>2. QED
    BY <1>2, <2>1
<1>6. h = g
  <2>1. ASSUME h = 0, g # 0 PROVE FALSE
    <3>1. CASE g <= n
      BY <1>2, <1>3, <1>4, <2>1, <3>1
    <3>2. CASE g = n + 1
      BY <1>1, <1>2, <1>3, <2>1, <3>2
    <3>3. CASE g > n + 1
      <4>1. n + 1 \in 1 .. g - 1 /\ n + 1 \in 1 .. g + m + 1 /\ h + n + 1 = n + 1
        BY <2>1, <3>3
      <4>2. QED
        BY <1>1, <1>2, <1>3, <4>1
    <3>4. QED
      BY <3>1, <3>2, <3>3
  <2>2. ASSUME h # 0, g = 0 PROVE FALSE
    <3>1. CASE h <= m
      BY <1>1, <1>3, <1>5, <2>2, <3>1
    <3>2. CASE h = m + 1
      BY <1>1, <1>2, <1>3, <2>2, <3>2
    <3>3. CASE h > m + 1
      <4>1. m + 1 \in 1 .. h - 1 /\ m + 1 \in 1 .. g + m + 1 /\ g + m + 1 = m + 1
        BY <2>2, <3>3
      <4>2. QED
        BY <1>1, <1>2, <1>3, <4>1
    <3>4. QED
      BY <3>1, <3>2, <3>3
  <2>3. ASSUME h # 0, g # 0, h < g PROVE FALSE
    <3>1. h \in 1 .. g - 1 /\ h \in 1 .. g + m + 1
      BY <2>3
    <3>2. QED
      BY <1>1, <1>2, <1>3, <2>3, <3>1
  <2>4. ASSUME h # 0, g # 0, g < h PROVE FALSE
    <3>1. g \in 1 .. h - 1 /\ g \in 1 .. g + m + 1
      BY <2>4
    <3>2. QED
      BY <1>1, <1>2, <1>3, <2>4, <3>1
  <2>5. QED
    BY <2>1, <2>2, <2>3, <2>4
<1>7. n = m
  <2>1. ASSUME n < m PROVE FALSE
    <3>1. h + n + 1 \in Nat /\ g < h + n + 1 /\ h + n + 1 <= g + m /\ h + n + 1 \in 1 .. g + m + 1
      BY <1>6, <2>1
    <3>2. QED
      BY <1>1, <1>3, <1>5, <3>1
  <2>2. ASSUME m < n PROVE FALSE
    <3>1. g + m + 1 \in Nat /\ h < g + m + 1 /\ g + m + 1 <= h + n /\ g + m + 1 \in 1 .. g + m + 1
      BY <1>6, <2>2
    <3>2. QED
      BY <1>2, <1>3, <1>4, <3>1
  <2>3. QED
    BY <2>1, <2>2
<1>8. QED
  BY <1>6, <1>7

\* A prefix that run() registers is a hint, if the server has one, the name of
\* its zone and the marker.
LEMMA FilterIs ==
  ASSUME NEW z \in Server, Unmarked(z), Unmarked(ForwardingHint[z]), NEW filter \in Filters(z)
  PROVE  \E g \in Nat :
           /\ filter \in Name /\ Len(filter) = g + Len(z) + 1
           /\ Marked(filter, g, Len(z))
           /\ \A j \in 1 .. Len(z) : filter[g + j] = z[j]
<1>1. z \in Name /\ ForwardingHint[z] \in Name /\ "DNS" \in Component /\ HintMark \in Component
  BY DyndnsMgrAssumption, LiveNameServerAssumption, MarksAreComponents DEF Marker
<1> DEFINE m == Len(z)
           own == Append(z, "DNS")
<1>2. /\ m \in Nat /\ DOMAIN z = 1 .. m
      /\ own \in Name /\ Len(own) = m + 1 /\ own[m + 1] = "DNS"
      /\ \A j \in 1 .. m : own[j] = z[j]
  BY <1>1, LenProperties, AppendProperties DEF Name
<1>3. \A j \in 1 .. m : z[j] \notin Marker \cup {HintMark}
  BY <1>2 DEF Unmarked
<1>4. "DNS" \in Marker
  BY DEF Marker
<1> HIDE DEF own, m
<1>5. CASE filter = own
  <2>1. 0 \in Nat /\ 0 + m + 1 = m + 1 /\ \A j \in 1 .. m : 0 + j = j
    BY <1>2
  <2>2. Marked(filter, 0, m)
    BY <1>2, <1>3, <1>4, <1>5, <2>1 DEF Marked
  <2>3. /\ filter \in Name /\ Len(filter) = 0 + m + 1
        /\ \A j \in 1 .. m : filter[0 + j] = z[j]
    BY <1>2, <1>5, <2>1
  <2>4. QED
    BY <2>1, <2>2, <2>3 DEF m
<1>6. ASSUME NEW hint \in {ForwardingHint[z]} \ {<< >>}, filter = Append(hint, HintMark) \o own
      PROVE  \E g \in Nat :
               /\ filter \in Name /\ Len(filter) = g + m + 1
               /\ Marked(filter, g, m)
               /\ \A j \in 1 .. m : filter[g + j] = z[j]
  <2> DEFINE g == Len(hint) + 1
             part == Append(hint, HintMark)
  <2>1. /\ hint \in Name /\ Len(hint) \in Nat /\ g \in Nat /\ DOMAIN hint = 1 .. g - 1
        /\ part \in Name /\ Len(part) = g /\ part[g] = HintMark
        /\ \A j \in 1 .. g - 1 : part[j] = hint[j]
    <3>1. hint \in Seq(Component) /\ Len(hint) \in Nat /\ DOMAIN hint = 1 .. Len(hint)
      BY <1>1, LenProperties DEF Name
    <3>2. /\ part \in Seq(Component) /\ Len(part) = Len(hint) + 1
          /\ part[Len(hint) + 1] = HintMark
          /\ \A j \in 1 .. Len(hint) : part[j] = hint[j]
      BY <1>1, <3>1, AppendProperties
    <3>3. (Len(hint) + 1) - 1 = Len(hint) /\ Len(hint) + 1 \in Nat
      BY <3>1
    <3>4. QED
      BY <3>1, <3>2, <3>3 DEF Name
  <2> HIDE DEF g, part
  <2>2. \A j \in 1 .. g - 1 : hint[j] \notin Marker \cup {HintMark}
    BY <2>1 DEF Unmarked
  <2>3. /\ filter \in Name /\ Len(filter) = Len(part) + Len(own)
        /\ \A j \in 1 .. Len(part) : filter[j] = part[j]
        /\ \A j \in 1 .. Len(own) : filter[Len(part) + j] = own[j]
    BY <1>2, <1>6, <2>1, Concatenated DEF part
  <2>4. /\ Len(filter) = g + m + 1
        /\ \A j \in 1 .. g : filter[j] = part[j]
        /\ \A j \in 1 .. m + 1 : filter[g + j] = own[j]
    BY <1>2, <2>1, <2>3
  <2>5. g # 0 => filter[g] = HintMark
    BY <2>1, <2>4
  <2>6. \A j \in 1 .. g - 1 : filter[j] \notin Marker \cup {HintMark}
    BY <2>1, <2>2, <2>4
  <2>7. \A j \in 1 .. m : filter[g + j] = z[j]
    BY <1>2, <2>4
  <2>8. filter[g + m + 1] = "DNS"
    <3>1. m + 1 \in 1 .. m + 1 /\ g + (m + 1) = g + m + 1
      BY <1>2, <2>1
    <3>2. QED
      BY <1>2, <2>4, <3>1
  <2>9. Marked(filter, g, m)
    BY <1>3, <1>4, <2>5, <2>6, <2>7, <2>8 DEF Marked
  <2>10. QED
    BY <2>1, <2>3, <2>4, <2>7, <2>9
<1>7. filter = own \/ \E hint \in {ForwardingHint[z]} \ {<< >>} : filter = Append(hint, HintMark) \o own
  BY DEF Filters, own
<1>8. QED
  BY <1>5, <1>6, <1>7 DEF m

LEMMA QueryNameMarked ==
  ASSUME NEW q \in QueryFields, Unmarked(q.zone), Unmarked(q.hint), NEW tail \in Name
  PROVE  Marked(QueryName(q) \o tail, Len(HintPart(q)), Len(q.zone))
<1> DEFINE name == QueryName(q) \o tail
           h == Len(HintPart(q))
           z == Len(q.zone)
           l == Len(q.hint)
<1>1. /\ h \in Nat /\ z \in Nat
      /\ \A j \in 1 .. h : name[j] = HintPart(q)[j]
      /\ \A j \in 1 .. z : name[h + j] = q.zone[j]
      /\ name[h + z + 1] \in Marker
  <2> HIDE DEF name, h, z
  <2>1. IsNameOf(name, q, tail)
    BY QueryNameIs DEF name
  <2>2. QED
    BY <2>1 DEF IsNameOf, h, z, QueryFields
<1>2. DOMAIN q.zone = 1 .. z /\ DOMAIN q.hint = 1 .. l
  BY LenProperties DEF QueryFields, Name
<1>3. /\ h = 0 \/ h = l + 1
      /\ h # 0 => HintPart(q)[h] = HintMark /\ \A j \in 1 .. l : HintPart(q)[j] = q.hint[j]
      /\ l \in Nat
  BY HintPartIs
<1> HIDE DEF name, h, z, l
<1>4. h # 0 => name[h] = HintMark
  BY <1>1, <1>3
<1>5. \A j \in 1 .. h - 1 : name[j] \notin Marker \cup {HintMark}
  <2> SUFFICES ASSUME NEW j \in 1 .. h - 1 PROVE name[j] \notin Marker \cup {HintMark}
    OBVIOUS
  <2>1. j \in 1 .. h /\ h # 0 /\ j \in 1 .. l
    BY <1>1, <1>3
  <2>2. name[j] = q.hint[j]
    BY <1>1, <1>3, <2>1
  <2>3. QED
    BY <1>2, <2>1, <2>2 DEF Unmarked
<1>6. \A j \in 1 .. z : name[h + j] \notin Marker \cup {HintMark}
  BY <1>1, <1>2 DEF Unmarked
<1>7. QED
  BY <1>1, <1>4, <1>5, <1>6 DEF Marked, name, h, z

\* A server hears what is meant for its zone.
LEMMA ReachesItsZone ==
  ASSUME NEW z \in Server, Unmarked(z), Unmarked(ForwardingHint[z]),
         NEW q \in QueryFields, Unmarked(q.zone), Unmarked(q.hint), NEW tail \in Name,
         Reaches(QueryName(q) \o tail, z)
  PROVE  z = q.zone
<1> DEFINE name == QueryName(q) \o tail
<1>1. PICK filter \in Filters(z) : GetPrefix(name, Len(filter)) = filter
  BY DEF Reaches
<1>2. PICK g \in Nat : /\ filter \in Name /\ Len(filter) = g + Len(z) + 1
                       /\ Marked(filter, g, Len(z))
                       /\ \A j \in 1 .. Len(z) : filter[g + j] = z[j]
  BY FilterIs
<1> DEFINE h == Len(HintPart(q))
           n == Len(q.zone)
           m == Len(z)
<1>3. /\ h \in Nat /\ n \in Nat /\ name \in Name /\ Len(name) \in Nat
      /\ \A j \in 1 .. n : name[h + j] = q.zone[j]
  <2> HIDE DEF name, h, n
  <2>1. IsNameOf(name, q, tail)
    BY QueryNameIs DEF name
  <2>2. name \in Name
    BY <2>1 DEF IsNameOf
  <2>3. Len(name) \in Nat
    BY <2>2, LenProperties DEF Name
  <2>4. QED
    BY <2>1, <2>2, <2>3 DEF IsNameOf, h, n
<1>4. Marked(name, h, n)
  BY QueryNameMarked
<1>5. z \in Name /\ q.zone \in Name /\ m \in Nat
  BY DyndnsMgrAssumption, LenProperties DEF QueryFields, Name
<1> HIDE DEF name, h, n, m
<1>6. Len(filter) = g + m + 1 /\ Marked(filter, g, m) /\ \A j \in 1 .. m : filter[g + j] = z[j]
  BY <1>2 DEF m
<1>7. \A j \in 1 .. g + m + 1 : name[j] = filter[j]
  <2> DEFINE k == g + m + 1
             e == AtMost(k, Len(name))
  <2>1. k \in Nat /\ k >= 1
    BY <1>5
  <2> HIDE DEF k
  <2>2. e \in Nat /\ e <= Len(name) /\ (e = k \/ (e = Len(name) /\ e < k))
    <3>1. PICK len \in Nat : len = Len(name)
      BY <1>3
    <3>2. \/ AtMost(k, len) = k /\ k <= len
          \/ AtMost(k, len) = len /\ len < k
      BY <2>1 DEF AtMost
    <3>3. QED
      BY <2>1, <3>1, <3>2
  <2>3. Len(filter) = k
    BY <1>6 DEF k
  <2>4. SubSeq(name, 1, e) = filter
    BY <1>1, <2>3 DEF GetPrefix
  <2> HIDE DEF e
  <2>5. /\ Len(SubSeq(name, 1, e)) = IF 1 <= e THEN e - 1 + 1 ELSE 0
        /\ \A j \in 1 .. e - 1 + 1 : SubSeq(name, 1, e)[j] = name[1 + j - 1]
    BY <1>3, <2>2, PieceOfName, 1 \in Nat \ {0}
  <2>6. e = k
    BY <2>1, <2>2, <2>3, <2>4, <2>5
  <2>7. \A j \in 1 .. k : j \in 1 .. e - 1 + 1 /\ 1 + j - 1 = j
    BY <2>1, <2>6
  <2>8. \A j \in 1 .. k : name[j] = filter[j]
    BY <2>4, <2>5, <2>7
  <2>9. QED
    BY <2>8 DEF k
<1>8. h = g /\ n = m
  BY <1>3, <1>4, <1>5, <1>6, <1>7, SameMarks
<1>9. \A j \in 1 .. n : q.zone[j] = z[j]
  <2> SUFFICES ASSUME NEW j \in 1 .. n PROVE q.zone[j] = z[j]
    OBVIOUS
  <2>1. g + j \in 1 .. g + m + 1
    BY <1>3, <1>8
  <2>2. QED
    BY <1>3, <1>6, <1>7, <1>8, <2>1
<1>10. Len(q.zone) = Len(z) /\ \A j \in 1 .. Len(q.zone) : q.zone[j] = z[j]
  BY <1>8, <1>9 DEF n, m
<1>11. QED
  BY <1>5, <1>10, SeqEqual DEF Name

-----------------------------------------------------------------------------
\* What the servers hold while they execute queries.
QueriesInv ==
  /\ DOMAIN question = Server
  /\ \A z \in Server :
       question[z] \in {NoQuestion} \cup [zone : {z}, label : Name, type : RRType]
  /\ foundId \in [Server -> Nat]
  /\ response \in [Server -> Response]

\* The inductive invariant: that of SharedDatabase, with servers that are at a
\* statement of a query as well.
LiveInv ==
  /\ SoundTables
  /\ ServersInv
  /\ ToolsInv
  /\ pc \in [Server -> PC \cup Querying]
  /\ QueriesInv

\* The sets that updates are executed for exist: RRSetKey is closed under what
\* a server makes of the name of an update it hears.
HeardKeysExist ==
  \A z \in Server, r \in Request :
    Reaches(UpdateName(<< >>, r.key.zone), z) =>
      KeyFor(z, LabelAndType(UpdateContent(r.key))) \in RRSetKey

LEMMA LiveInitInv == LiveInit => LiveInv
<1> SUFFICES ASSUME LiveInit PROVE LiveInv
  OBVIOUS
<1>1. IInv
  BY InitIInv DEF LiveInit
<1>2. InitialResponse \in Response
  <2>1. << >> \in Seq(Name)
    OBVIOUS
  <2>2. QED
    BY <2>1 DEF InitialResponse, Response, ResponseType
<1>3. QueriesInv
  BY <1>2 DEF LiveInit, QueryInit, QueriesInv
<1>4. QED
  BY <1>1, <1>3 DEF IInv, LiveInv

LEMMA QueriesIdle ==
  ASSUME QueriesInv, UNCHANGED queryVars
  PROVE  QueriesInv'
BY DEF QueriesInv, queryVars

\* The handler of a query is left, by its end or with the process.
LEMMA QueriesLeft ==
  ASSUME QueriesInv, NEW z \in Server,
         question' = [question EXCEPT ![z] = NoQuestion],
         foundId' = [foundId EXCEPT ![z] = 0],
         response' = [response EXCEPT ![z] = InitialResponse]
  PROVE  QueriesInv'
<1>1. InitialResponse \in Response
  <2>1. << >> \in Seq(Name)
    OBVIOUS
  <2>2. QED
    BY <2>1 DEF InitialResponse, Response, ResponseType
<1>2. QED
  BY <1>1 DEF QueriesInv

LEMMA HearQueryInv ==
  ASSUME LiveInv, NEW z \in Server, NEW q \in Question, HearQuery(z, q)
  PROVE  LiveInv'
<1> DEFINE name == QueryName(q)
           heard == KeyFor(z, QueryFieldsOf(name))
<1>1. heard \in [zone : {z}, label : Name, type : RRType]
  <2>1. name \in Name
    BY QueryNameType, LiveNameServerAssumption
  <2>2. MatchQueryName(name)
    BY DEF HearQuery
  <2> HIDE DEF name
  <2>3. QED
    BY <2>1, <2>2, FieldsType DEF KeyFor
<1>2. ReceiveQuery(z, heard) /\ UNCHANGED toolVars
  BY DEF HearQuery
<1> HIDE DEF heard
<1>3. /\ pc[z] = "idle" /\ pc' = [pc EXCEPT ![z] = "lookupIds"]
      /\ question' = [question EXCEPT ![z] = heard]
      /\ UNCHANGED <<rrsets, rrs, request, rrsetId, rrsetIdOfRR, rrId, foundId, response>>
  BY <1>2 DEF ReceiveQuery, GoTo
<1>4. ServersInv'
  BY <1>3 DEF LiveInv, ServersInv, ServerInv, Located, RRLookedUp, IsIdOf
<1>5. QueriesInv'
  BY <1>1, <1>3 DEF LiveInv, QueriesInv
<1>6. pc' \in [Server -> PC \cup Querying]
  BY <1>3 DEF LiveInv, Querying, QueryStatement
<1>7. SoundTables' /\ ToolsInv'
  BY <1>2, <1>3, ToolsIdle DEF LiveInv, SoundTables
<1>8. QED
  BY <1>4, <1>5, <1>6, <1>7 DEF LiveInv

LEMMA HearUpdateInv ==
  ASSUME HeardKeysExist, LiveInv, NEW z \in Server, NEW r \in Request, HearUpdate(z, r),
         UNCHANGED queryVars
  PROVE  LiveInv'
<1> DEFINE key == KeyFor(z, LabelAndType(UpdateContent(r.key)))
           heard == [r EXCEPT !.key = key]
<1>1. key \in RRSetKey
  BY DEF HearUpdate, HeardKeysExist
<1> HIDE DEF key
<1>2. heard \in UpdateRequest
  BY <1>1, DyndnsMgrAssumption DEF UpdateRequest
<1>3. Receive(z, heard) /\ UNCHANGED toolVars
  BY DEF HearUpdate, ReceiveUpdate, key
<1> HIDE DEF heard
<1>4. ServersInv' /\ rrsets' = rrsets /\ rrs' = rrs
  BY <1>2, <1>3, ReceiveInv DEF LiveInv
<1>5. pc' \in [Server -> PC \cup Querying]
  BY <1>3 DEF LiveInv, Receive, GoTo, PC, Reading
<1>6. QED
  BY <1>3, <1>4, <1>5, ToolsIdle, QueriesIdle DEF LiveInv, SoundTables

\* The records that a SELECT on rrs hands over.
LEMMA RecordsType ==
  ASSUME SoundTables, NEW id
  PROVE  Records(id) \in Seq(Name)
BY RowsOfSet, InOrderOfRows

\* The servers that execute no update do not see a query's statement.
LEMMA QueryStatementInv ==
  ASSUME LiveInv, NEW z \in Server, pc[z] \in QueryStatement,
         NEW next \in Querying, pc' = [pc EXCEPT ![z] = next],
         UNCHANGED <<rrsets, rrs, request, rrsetId, rrsetIdOfRR, rrId, toolVars>>,
         QueriesInv'
  PROVE  LiveInv'
<1>1. pc[z] \notin RRLookedUp /\ next \notin Located
  BY DEF QueryStatement, RRLookedUp, Querying, Located
<1>2. ServersInv'
  <2>1. DOMAIN pc' = Server
    BY DEF LiveInv
  <2>2. \A y \in Server : ServerInv(y)'
    BY <1>1 DEF LiveInv, ServersInv, ServerInv, IsIdOf
  <2>3. QED
    BY <2>1, <2>2 DEF LiveInv, ServersInv
<1>3. pc' \in [Server -> PC \cup Querying]
  BY DEF LiveInv
<1>4. SoundTables' /\ ToolsInv'
  BY ToolsIdle DEF LiveInv, SoundTables
<1>5. QED
  BY <1>2, <1>3, <1>4 DEF LiveInv

\* The handler is left, for the next Interest or with the process.
LEMMA LeaveLiveInv ==
  ASSUME LiveInv, NEW z \in Server, NEW label \in {"idle", "down"}, Leave(z, label),
         UNCHANGED toolVars, QueriesInv'
  PROVE  LiveInv'
<1>1. ServersInv' /\ rrsets' = rrsets /\ rrs' = rrs
  BY LeaveInv DEF LiveInv
<1>2. pc' \in [Server -> PC \cup Querying]
  BY DEF LiveInv, Leave, GoTo, PC
<1>3. QED
  BY <1>1, <1>2, ToolsIdle DEF LiveInv, SoundTables

LEMMA ExecuteQueryInv ==
  ASSUME LiveInv, NEW z \in Server, ExecuteQuery(z)
  PROVE  LiveInv'
<1>1. UNCHANGED toolVars
  BY DEF ExecuteQuery
<1>2. CASE LookupIds(z)
  <2>1. PICK id \in LastId(SelectRRSet(question[z])) : foundId' = [foundId EXCEPT ![z] = id]
    BY <1>2 DEF LookupIds
  <2>2. id \in Nat
    BY LastIdOf DEF SelectRRSet, LiveInv, SoundTables, IsRRSetTable, RRSetRow
  <2>3. QueriesInv'
    BY <1>2, <2>1, <2>2 DEF LiveInv, QueriesInv, LookupIds
  <2>4. pc[z] \in QueryStatement /\ "selectRRs" \in Querying
    BY <1>2 DEF LookupIds, QueryStatement, Querying
  <2>5. QED
    BY <1>1, <1>2, <2>3, <2>4, QueryStatementInv DEF LookupIds, GoTo
<1>3. ASSUME NEW type \in ResponseType, NEW records \in Seq(Name), Respond(z, type, records),
             pc[z] \in QueryStatement,
             UNCHANGED <<rrsets, rrs, request, rrsetId, rrsetIdOfRR, rrId, question, foundId>>
      PROVE  LiveInv'
  <2>1. [type |-> type, rrs |-> records] \in Response
    BY DEF Response
  <2>2. QueriesInv'
    BY <1>3, <2>1 DEF LiveInv, QueriesInv, Respond
  <2>3. "reply" \in Querying
    BY DEF Querying
  <2>4. QED
    BY <1>1, <1>3, <2>2, <2>3, QueryStatementInv DEF Respond, GoTo
<1>4. {"NDNS-Resp", "NDNS-Nack", "NDNS-Auth"} \subseteq ResponseType /\ << >> \in Seq(Name)
  BY DEF ResponseType
<1>5. CASE SelectRRs(z)
  <2>1. /\ pc[z] \in QueryStatement /\ "hasAuth" \in Querying
        /\ UNCHANGED <<rrsets, rrs, request, rrsetId, rrsetIdOfRR, rrId, question, foundId>>
    BY <1>5 DEF SelectRRs, QueryStatement, Querying
  <2>2. PICK records : records = Records(foundId[z])
    OBVIOUS
  <2>3. records \in Seq(Name)
    BY <2>2, RecordsType DEF LiveInv
  <2>4. \/ Respond(z, "NDNS-Resp", records)
        \/ Respond(z, "NDNS-Nack", << >>)
        \/ GoTo(z, "hasAuth") /\ UNCHANGED response
    BY <1>5, <2>2 DEF SelectRRs
  <2>5. CASE GoTo(z, "hasAuth") /\ UNCHANGED response
    BY <1>1, <2>1, <2>5, QueriesIdle, QueryStatementInv DEF LiveInv, GoTo, queryVars
  <2>6. QED
    BY <1>3, <1>4, <2>1, <2>3, <2>4, <2>5
<1>6. CASE CountAuth(z)
  <2>1. /\ pc[z] \in QueryStatement
        /\ UNCHANGED <<rrsets, rrs, request, rrsetId, rrsetIdOfRR, rrId, question, foundId>>
    BY <1>6 DEF CountAuth, QueryStatement
  <2>2. Respond(z, "NDNS-Auth", << >>) \/ Respond(z, "NDNS-Nack", << >>)
    BY <1>6 DEF CountAuth
  <2>3. QED
    BY <1>3, <1>4, <2>1, <2>2
<1>7. CASE Reply(z)
  <2>1. QueriesInv'
    BY <1>7, QueriesLeft DEF LiveInv, Reply
  <2>2. QED
    BY <1>1, <1>7, <2>1, LeaveLiveInv DEF Reply
<1>8. QED
  BY <1>2, <1>5, <1>6, <1>7 DEF ExecuteQuery

LEMMA ExecuteUpdateInv ==
  ASSUME LiveInv, NEW z \in Server, ExecuteUpdate(z)
  PROVE  LiveInv'
<1>1. QueriesInv'
  BY QueriesIdle DEF ExecuteUpdate, LiveInv
<1>2. CASE ServerStep(z)
  <2>1. SoundTables' /\ ServersInv' /\ rrsets \subseteq rrsets'
    BY <1>2, ServerStepInv DEF LiveInv
  <2>2. pc' \in [Server -> PC \cup Querying]
    BY <1>2, ServerStepPC DEF LiveInv
  <2>3. ToolsInv'
    BY <1>2, <2>1, ToolsIdle DEF LiveInv, ServerStep
  <2>4. QED
    BY <1>1, <2>1, <2>2, <2>3 DEF LiveInv
<1>3. CASE AnswerUpdate(z)
  BY <1>1, <1>3, LeaveLiveInv DEF AnswerUpdate, Answered
<1>4. QED
  BY <1>2, <1>3 DEF ExecuteUpdate

LEMMA EndInv ==
  ASSUME LiveInv, NEW z \in Server, End(z)
  PROVE  LiveInv'
<1>1. QueriesInv'
  BY QueriesLeft DEF LiveInv, End
<1>2. Leave(z, "down") /\ UNCHANGED toolVars
  BY DEF End, StatementFails, QueryFails, Crash, Dies
<1>3. QED
  BY <1>1, <1>2, LeaveLiveInv

LEMMA OthersInv ==
  ASSUME LiveInv, Others
  PROVE  LiveInv'
<1>1. QueriesInv'
  BY QueriesIdle DEF LiveInv, Others
<1>2. ASSUME NEW z \in Server, Restart(z)
      PROVE  LiveInv'
  BY <1>1, <1>2, LeaveLiveInv DEF Restart
<1>3. ASSUME NEW d \in Delegation, ToolStep(d)
      PROVE  LiveInv'
  <2>1. SoundTables' /\ ToolsInv' /\ rrsets \subseteq rrsets'
    BY <1>3, ToolStepInv DEF ToolStep, LiveInv
  <2>2. ServersInv'
    BY <1>3, <2>1, ServersIdle DEF ToolStep, LiveInv
  <2>3. pc' = pc
    BY <1>3 DEF ToolStep, serverVars
  <2>4. QED
    BY <1>1, <2>1, <2>2, <2>3 DEF LiveInv
<1>4. ASSUME NEW d \in Delegation, ToolCrash(d)
      PROVE  LiveInv'
  <2>1. ToolsInv'
    BY <1>4, EndToolInv DEF ToolCrash, LiveInv
  <2>2. rrsets' = rrsets /\ rrs' = rrs /\ UNCHANGED serverVars
    BY <1>4 DEF ToolCrash
  <2>3. ServersInv'
    BY <2>2, ServersIdle DEF LiveInv
  <2>4. QED
    BY <1>1, <2>1, <2>2, <2>3 DEF LiveInv, SoundTables, serverVars
<1>5. QED
  BY <1>2, <1>3, <1>4 DEF Others

LEMMA LiveNextInv == HeardKeysExist /\ LiveInv /\ [LiveNext]_liveVars => LiveInv'
<1> SUFFICES ASSUME HeardKeysExist, LiveInv, [LiveNext]_liveVars PROVE LiveInv'
  OBVIOUS
<1>1. ASSUME NEW z \in Server, Hear(z)
      PROVE  LiveInv'
  BY <1>1, HearQueryInv, HearUpdateInv DEF Hear
<1>2. CASE UNCHANGED liveVars
  <2>1. UNCHANGED <<rrsets, rrs, serverVars, toolVars, queryVars>>
    BY <1>2 DEF liveVars, vars
  <2>2. ServersInv' /\ ToolsInv' /\ QueriesInv'
    BY <2>1, ServersIdle, ToolsIdle, QueriesIdle DEF LiveInv
  <2>3. QED
    BY <2>1, <2>2 DEF LiveInv, SoundTables, serverVars
<1>3. QED
  BY <1>1, <1>2, ExecuteQueryInv, ExecuteUpdateInv, EndInv, OthersInv DEF LiveNext

\* Servers that execute queries and updates as they hear them hold what
\* NameServer::onInterest, QueryMgr and DyndnsMgr expect of their locals.
THEOREM LiveSpecInv == HeardKeysExist /\ LiveSpec => []LiveInv
<1>1. CASE HeardKeysExist
  BY <1>1, LiveInitInv, LiveNextInv, PTL DEF LiveSpec
<1>2. CASE ~HeardKeysExist
  BY <1>2
<1>3. QED
  BY <1>1, <1>2

\* Type correctness of the live server: the fields that Query::fromInterest
\* reads, the id of lookupIds and the Response stay in their types.
THEOREM LiveTypeCorrect == HeardKeysExist /\ LiveSpec => []LiveTypeOK
<1>1. ASSUME LiveInv
      PROVE  LiveTypeOK
  <2>1. TablesTypeOK /\ pc \in [Server -> PC \cup Querying]
    BY <1>1, SoundTablesType DEF LiveInv
  <2>2. QED
    BY <1>1, <2>1 DEF LiveInv, QueriesInv, LiveTypeOK
<1>2. QED
  BY <1>1, LiveSpecInv, PTL

\* The trigger rrs_update keeps the tables free of duplicates under servers
\* that take their updates from the names of Interests, next to queries.
THEOREM LiveNoDuplicates == HeardKeysExist /\ LiveSpec => []NoDuplicateRR
<1>1. LiveInv => NoDuplicateRR
  BY SoundTablesType DEF LiveInv
<1>2. QED
  BY <1>1, LiveSpecInv, PTL

\* No statement of onInterest's update branch, of the tools or of a query
\* leaves a record without its set.
THEOREM LiveRecordsHaveSets == HeardKeysExist /\ LiveSpec => []EveryRRHasItsSet
<1>1. LiveInv => EveryRRHasItsSet
  BY SoundTablesType DEF LiveInv
<1>2. QED
  BY <1>1, LiveSpecInv, PTL

-----------------------------------------------------------------------------
\* The fields that DynamicDNSUpdate::toInterest writes into the name of the
\* update's Data, and into that of its Interest.
ContentFields(key) ==
  [hint |-> << >>, zone |-> key.zone, queryType |-> "DNS", label |-> key.label, type |-> key.type]
SignedFields(zone) ==
  [hint |-> << >>, zone |-> zone, queryType |-> "DNS",
   label |-> <<SignedUpdate>>, type |-> "DYNDNSUPDATE"]

\* Names as the patterns expect them.  Of the questions, those that are taken
\* for a query: one without a label, or of a type no pattern knows, is not
\* heard at all.
PlainNames ==
  /\ \A z \in Server : Unmarked(z) /\ Unmarked(ForwardingHint[z])
  /\ \A r \in Request : Unmarked(r.key.zone) /\ Plain(ContentFields(r.key))
  /\ \A q \in Question : MatchQueryName(QueryName(q)) =>
       Unmarked(q.zone) /\ Unmarked(q.hint) /\ Plain(q) /\ q.type \in RRType

LEMMA UpdateKeyIs ==
  ASSUME NEW key \in RRSetKey
  PROVE  /\ key \in [zone : Name, label : Name, type : RRType]
         /\ ContentFields(key) \in QueryFields
         /\ SignedFields(key.zone) \in QueryFields
<1>1. key \in [zone : Name, label : Name, type : RRType]
  BY RRSetKeyAssumption
<1>2. << >> \in Name /\ <<SignedUpdate>> \in Name /\ "DNS" \in Marker
  BY MarksAreComponents, OneComponent, EmptySeq DEF Name, Marker
<1>3. key.type \in AnyType /\ "DYNDNSUPDATE" \in AnyType
  BY <1>1 DEF AnyType
<1>4. key.zone \in Name /\ key.label \in Name
  BY <1>1
<1>5. ContentFields(key) \in QueryFields
  BY <1>2, <1>3, <1>4 DEF ContentFields, QueryFields
<1>6. SignedFields(key.zone) \in QueryFields
  BY <1>2, <1>3, <1>4 DEF SignedFields, QueryFields
<1>7. QED
  BY <1>1, <1>5, <1>6

LEMMA DataNameIs ==
  ASSUME NEW q \in QueryFields
  PROVE  DataName(q) = QueryName(q) \o <<Version>>
<1>1. QueryName(q) \in Seq(Component) /\ Version \in Component
  BY QueryNameType, MarksAreComponents DEF Name
<1>2. QED
  BY <1>1, AppendIsConcat DEF DataName

\* What a server reads out of an update is the set the client means.
LEMMA UpdateIsReadBack ==
  ASSUME PlainNames, NEW r \in Request
  PROVE  LabelAndType(UpdateContent(r.key)) = [label |-> r.key.label, type |-> r.key.type]
<1> DEFINE key == r.key
           f == ContentFields(key)
           name == UpdateContent(key)
<1>1. key \in RRSetKey
  BY DyndnsMgrAssumption DEF UpdateRequest
<1>2. f \in QueryFields /\ Plain(f) /\ key.type \in RRType
  BY <1>1, UpdateKeyIs DEF PlainNames
<1>3. name = QueryName(f) \o <<Version>>
  BY <1>2, DataNameIs DEF UpdateContent, ContentFields
<1>4. f.label = key.label /\ f.type = key.type /\ f.queryType = "DNS"
  BY DEF ContentFields
<1> HIDE DEF f, name
<1>5. IsPatternFor(f, Marker, RRType)
  BY <1>2, <1>4, MarksAreComponents DEF IsPatternFor, Marker
<1>6. Cuts(name, Marker, RRType) # {} /\ Fields(name, Marker, RRType) = f
  BY <1>2, <1>3, <1>5, VersionIsNoType, ReadBack
<1>7. QED
  BY <1>4, <1>6 DEF LabelAndType, MatchQueryName, QueryFieldsOf, name, key

LEMMA UpdateReachesItsZone ==
  ASSUME PlainNames, NEW z \in Server, NEW r \in Request,
         Reaches(UpdateName(<< >>, r.key.zone), z)
  PROVE  z = r.key.zone
<1> DEFINE f == SignedFields(r.key.zone)
<1>1. r.key \in RRSetKey
  BY DyndnsMgrAssumption DEF UpdateRequest
<1>2. f \in QueryFields
  BY <1>1, UpdateKeyIs
<1>3. UpdateName(<< >>, r.key.zone) = QueryName(f) \o <<Version>>
  BY <1>2, DataNameIs DEF UpdateName, SignedFields
<1>4. f.zone = r.key.zone /\ f.hint = << >>
  BY DEF SignedFields
<1>5. Unmarked(f.zone) /\ Unmarked(f.hint) /\ Unmarked(z) /\ Unmarked(ForwardingHint[z])
  BY <1>4 DEF PlainNames, Unmarked
<1> HIDE DEF f
<1>6. QED
  BY <1>2, <1>3, <1>4, <1>5, VersionIsNoType, ReachesItsZone

\* With such names a server executes what clients send, on the set they mean.
LEMMA UpdateIsHeard ==
  ASSUME PlainNames, NEW z \in Server, NEW r \in Request,
         Reaches(UpdateName(<< >>, r.key.zone), z)
  PROVE  /\ KeyFor(z, LabelAndType(UpdateContent(r.key))) = r.key
         /\ [r EXCEPT !.key = KeyFor(z, LabelAndType(UpdateContent(r.key)))] = r
<1>1. r \in UpdateRequest /\ r.key \in [zone : Name, label : Name, type : RRType]
  <2>1. r \in UpdateRequest /\ r.key \in RRSetKey
    BY DyndnsMgrAssumption DEF UpdateRequest
  <2>2. QED
    BY <2>1, UpdateKeyIs
<1>2. KeyFor(z, LabelAndType(UpdateContent(r.key))) = [zone |-> r.key.zone, label |-> r.key.label, type |-> r.key.type]
  <2>1. z = r.key.zone
    BY UpdateReachesItsZone
  <2>2. LabelAndType(UpdateContent(r.key)) = [label |-> r.key.label, type |-> r.key.type]
    BY UpdateIsReadBack
  <2>3. QED
    BY <2>1, <2>2 DEF KeyFor
<1>3. KeyFor(z, LabelAndType(UpdateContent(r.key))) = r.key
  BY <1>1, <1>2
<1>4. [r EXCEPT !.key = r.key] = r
  BY <1>1 DEF UpdateRequest
<1>5. QED
  BY <1>3, <1>4

LEMMA PlainKeysExist == PlainNames => HeardKeysExist
<1> SUFFICES ASSUME PlainNames, NEW z \in Server, NEW r \in Request,
                    Reaches(UpdateName(<< >>, r.key.zone), z)
             PROVE  KeyFor(z, LabelAndType(UpdateContent(r.key))) \in RRSetKey
  BY DEF HeardKeysExist
<1>1. QED
  BY UpdateIsHeard, DyndnsMgrAssumption DEF UpdateRequest

LEMMA QuestionIsHeard ==
  ASSUME PlainNames, NEW z \in Server, NEW q \in Question,
         Reaches(QueryName(q), z), MatchQueryName(QueryName(q))
  PROVE  q.zone = z /\ KeyFor(z, QueryFieldsOf(QueryName(q))) = KeyFor(q.zone, q)
<1>1. /\ q \in QueryFields /\ Plain(q) /\ q.type \in RRType
      /\ Unmarked(q.zone) /\ Unmarked(q.hint) /\ Unmarked(z) /\ Unmarked(ForwardingHint[z])
  BY LiveNameServerAssumption DEF PlainNames
<1>2. QueryName(q) \o << >> = QueryName(q) /\ << >> \in Name
  BY <1>1, QueryNameType, ConcatEmptySeq DEF Name
<1>3. NoTypeIn(<< >>)
  <2>1. 1 .. Len(<< >>) = {}
    OBVIOUS
  <2>2. QED
    BY <2>1 DEF NoTypeIn
<1>4. IsPatternFor(q, Marker, RRType)
  BY <1>1, MarksAreComponents DEF IsPatternFor, QueryFields
<1>5. Fields(QueryName(q) \o << >>, Marker, RRType) = q
  BY <1>1, <1>2, <1>3, <1>4, ReadBack
<1>6. QueryFieldsOf(QueryName(q)) = q
  BY <1>2, <1>5 DEF QueryFieldsOf
<1>7. z = q.zone
  BY <1>1, <1>2, ReachesItsZone
<1>8. QED
  BY <1>6, <1>7

-----------------------------------------------------------------------------
\* The servers as module SharedDatabase sees them.
IdlePC == [z \in Server |-> IF pc[z] \in Querying THEN "idle" ELSE pc[z]]

LEMMA QueryingIsApart == \A label \in PC : label \notin Querying
BY DEF PC, Reading, Writing, Querying, QueryStatement

LEMMA IdlePCMoves ==
  ASSUME pc \in [Server -> PC \cup Querying], NEW z \in Server, NEW next \in PC,
         pc' = [pc EXCEPT ![z] = next]
  PROVE  IdlePC' = [IdlePC EXCEPT ![z] = next]
BY QueryingIsApart DEF IdlePC

LEMMA IdlePCStays ==
  ASSUME pc \in [Server -> PC \cup Querying], NEW z \in Server,
         pc[z] \in Querying \cup {"idle"}, NEW next \in Querying \cup {"idle"},
         pc' = [pc EXCEPT ![z] = next]
  PROVE  IdlePC' = IdlePC
BY DEF IdlePC

LEMMA IdlePCIs ==
  ASSUME NEW z \in Server
  PROVE  /\ pc[z] \in PC => IdlePC[z] = pc[z]
         /\ pc[z] \in Querying => IdlePC[z] = "idle"
         /\ IdlePC[z] \in Reading \cup Writing <=> pc[z] \in Reading \cup Writing
         /\ IdlePC[z] \in Reading <=> pc[z] \in Reading
         /\ IdlePC[z] \in Writing <=> pc[z] \in Writing
         /\ IdlePC[z] = "down" <=> pc[z] = "down"
BY DEF IdlePC, PC, Reading, Writing, Querying, QueryStatement

LEMMA SameInOrder == \A rows : Updates!InOrder(rows) = InOrder(rows)
BY DEF InOrder, Updates!InOrder, Cardinality, Updates!Cardinality

LEMMA SameFindable == \A key : Updates!Findable(key) = Findable(key)
BY SameInOrder DEF Findable, Updates!Findable, Updates!LastId, Updates!SelectRRSet, LastId,
  SelectRRSet, Records, Updates!Records

LEMMA SameMax == \A S : Updates!Max(S) = Max(S)
BY DEF Max, Updates!Max

LEMMA SameNewId == \A rows : Updates!NewId(rows) = NewId(rows)
BY SameMax DEF NewId, Updates!NewId

LEMMA SameSomeRequest == \A z : Updates!SomeRequest(z) = SomeRequest(z)
BY DEF SomeRequest, Updates!SomeRequest

LEMMA SameBranch == \A action, set, rr : Updates!Branch(action, set, rr) = Branch(action, set, rr)
BY DEF Branch, Updates!Branch

LEMMA StatementIsUpdates ==
  ASSUME SoundTables, ServersInv, pc \in [Server -> PC \cup Querying],
         NEW z \in Server, ServerStep(z)
  PROVE  Updates!ServerStep(z)
<1>1. PICK next \in PC : pc' = [pc EXCEPT ![z] = next]
  BY ServerStepPC
<1>2. IdlePC' = [IdlePC EXCEPT ![z] = next]
  BY <1>1, IdlePCMoves
<1>3. pc[z] \in Reading \cup Writing
  BY DEF ServerStep, LookupRRSet, LookupRR, InsertMissingRRSet, InsertNewRR, RemoveRR,
    RemoveRelatedRRs, Reading, Writing
<1>4. IdlePC[z] = pc[z]
  BY <1>3, IdlePCIs DEF PC
<1>5. UNCHANGED <<toolVars, before>>
  BY DEF ServerStep
<1> USE SameBranch DEF GoTo, Updates!GoTo
<1>6. ASSUME LookupRRSet(z)
       PROVE  Updates!LookupRRSet(z)
  BY <1>1, <1>2, <1>4, <1>6 DEF LookupRRSet, Updates!LookupRRSet, IdlePC,
    SelectRRSet, Updates!SelectRRSet, LastId, Updates!LastId
<1>7. ASSUME LookupRR(z)
       PROVE  Updates!LookupRR(z)
  <2>1. PICK id \in LastId(SelectRR(rrsetIdOfRR[z], request[z].data)) :
          /\ rrId' = [rrId EXCEPT ![z] = id]
          /\ pc' = [pc EXCEPT ![z] = Branch(request[z].action, rrsetId[z], id)]
    BY <1>7 DEF LookupRR
  <2>2. next = Branch(request[z].action, rrsetId[z], id)
    BY <1>1, <2>1
  <2>3. id \in Updates!LastId(Updates!SelectRR(rrsetIdOfRR[z], request[z].data))
    BY DEF SelectRR, Updates!SelectRR, LastId, Updates!LastId
  <2>4. QED
    BY <1>2, <1>4, <1>7, <2>1, <2>2, <2>3 DEF LookupRR, Updates!LookupRR, IdlePC
<1>8. ASSUME InsertMissingRRSet(z)
       PROVE  Updates!InsertMissingRRSet(z)
  BY <1>1, <1>2, <1>4, <1>8, SameNewId DEF InsertMissingRRSet, Updates!InsertMissingRRSet, IdlePC,
    InsertRRSet, Updates!InsertRRSet, HasRRSet, Updates!HasRRSet
<1>9. ASSUME InsertNewRR(z)
       PROVE  Updates!InsertNewRR(z)
  BY <1>1, <1>2, <1>4, <1>9, SameNewId DEF InsertNewRR, Updates!InsertNewRR, IdlePC,
    InsertRR, Updates!InsertRR, SelectRR, Updates!SelectRR
<1>10. ASSUME RemoveRR(z)
       PROVE  Updates!RemoveRR(z)
  BY <1>1, <1>2, <1>4, <1>10 DEF RemoveRR, Updates!RemoveRR, IdlePC, DeleteRR, Updates!DeleteRR
<1>11. ASSUME RemoveRelatedRRs(z)
       PROVE  Updates!RemoveRelatedRRs(z)
  BY <1>1, <1>2, <1>4, <1>11 DEF RemoveRelatedRRs, Updates!RemoveRelatedRRs, IdlePC,
    DeleteRRsOf, Updates!DeleteRRsOf
<1>12. QED
  BY <1>5, <1>6, <1>7, <1>8, <1>9, <1>10, <1>11 DEF ServerStep, Updates!ServerStep, toolVars,
    Updates!toolVars

-----------------------------------------------------------------------------
\* A server that executes no update holds nothing of one; one that executes a
\* query or an update does so for the set its client means.
MeansIt(z) ==
  /\ pc[z] \in Querying \cup {"idle"} =>
       /\ request[z] = SomeRequest(z)
       /\ rrsetId[z] = 0 /\ rrsetIdOfRR[z] = 0 /\ rrId[z] = 0
  /\ pc[z] \in Querying => question[z] = asked[z]
  /\ pc[z] \in Reading \cup Writing \cup {"answer"} => asked[z] = request[z].key

MeaningInv ==
  /\ DOMAIN asked = Server
  /\ request \in [Server -> Request]
  /\ \A z \in Server : MeansIt(z)

LEMMA MeaningStays ==
  ASSUME NEW y, MeansIt(y), pc'[y] = pc[y], request'[y] = request[y],
         rrsetId'[y] = rrsetId[y], rrsetIdOfRR'[y] = rrsetIdOfRR[y], rrId'[y] = rrId[y],
         question'[y] = question[y], asked'[y] = asked[y]
  PROVE  MeansIt(y)'
BY DEF MeansIt

LEMMA InitMeaning == LiveInit => MeaningInv
BY SomeRequestType DEF LiveInit, Init, ServerInit, MeaningInv, MeansIt, Querying, QueryStatement,
  Reading, Writing

\* The handler is left: by a reply, an answer or with the process, or the
\* server starts again.
LEMMA LeaveMeaning ==
  ASSUME LiveInv, MeaningInv, NEW z \in Server, NEW label \in {"idle", "down"}, Leave(z, label),
         \/ UNCHANGED question
         \/ question' = [question EXCEPT ![z] = NoQuestion],
         \/ UNCHANGED asked
         \/ ForgetAsked(z)
  PROVE  MeaningInv'
<1>1. DOMAIN asked' = Server /\ request' \in [Server -> Request]
  BY SomeRequestType DEF ForgetAsked, MeaningInv, Leave
<1>2. MeansIt(z)'
  <2>1. pc'[z] = label /\ pc'[z] \notin Querying \cup Reading \cup Writing \cup {"answer"}
    BY DEF LiveInv, Leave, GoTo, Querying, QueryStatement, Reading, Writing
  <2>2. request'[z] = SomeRequest(z) /\ rrsetId'[z] = 0 /\ rrsetIdOfRR'[z] = 0 /\ rrId'[z] = 0
    BY DEF LiveInv, ServersInv, Leave
  <2>3. SomeRequest(z)' = SomeRequest(z)
    BY DEF SomeRequest
  <2>4. QED
    BY <2>1, <2>2, <2>3 DEF MeansIt
<1>3. ASSUME NEW y \in Server, y # z
      PROVE  MeansIt(y)'
  <2>1. /\ pc'[y] = pc[y] /\ request'[y] = request[y]
        /\ rrsetId'[y] = rrsetId[y] /\ rrsetIdOfRR'[y] = rrsetIdOfRR[y] /\ rrId'[y] = rrId[y]
    BY <1>3 DEF LiveInv, ServersInv, Leave, GoTo
  <2>2. question'[y] = question[y]
    BY <1>3 DEF LiveInv, QueriesInv
  <2>3. asked'[y] = asked[y]
    BY <1>3 DEF MeaningInv, ForgetAsked
  <2>4. MeansIt(y)
    BY DEF MeaningInv
  <2>5. QED
    BY <2>1, <2>2, <2>3, <2>4, MeaningStays
<1>4. QED
  BY <1>1, <1>2, <1>3 DEF MeaningInv

\* A statement of a query.
LEMMA QueryMeaning ==
  ASSUME LiveInv, MeaningInv, NEW z \in Server, pc[z] \in QueryStatement,
         NEW next \in Querying, pc' = [pc EXCEPT ![z] = next], ForgetAsked(z),
         UNCHANGED <<request, rrsetId, rrsetIdOfRR, rrId, question>>
  PROVE  MeaningInv'
<1>1. pc'[z] = next /\ next \notin {"idle", "down"} \cup Reading \cup Writing \cup {"answer"}
      /\ pc[z] \in Querying
  BY DEF LiveInv, Querying, QueryStatement, Reading, Writing
<1>2. DOMAIN asked' = Server /\ \A y \in Server : asked'[y] = asked[y]
  BY <1>1 DEF ForgetAsked, MeaningInv
<1>3. MeansIt(z)'
  <2>1. SomeRequest(z)' = SomeRequest(z)
    BY DEF SomeRequest
  <2>2. QED
    BY <1>1, <1>2, <2>1 DEF MeaningInv, MeansIt
<1>4. ASSUME NEW y \in Server, y # z
      PROVE  MeansIt(y)'
  <2>1. pc'[y] = pc[y]
    BY <1>4 DEF LiveInv
  <2>2. QED
    BY <1>2, <2>1, MeaningStays DEF MeaningInv
<1>5. QED
  BY <1>2, <1>3, <1>4 DEF MeaningInv

LEMMA HearMeaning ==
  ASSUME PlainNames, LiveInv, MeaningInv, NEW z \in Server, Hear(z)
  PROVE  MeaningInv'
<1>1. ASSUME NEW q \in Question, HearQuery(z, q)
      PROVE  MeaningInv'
  <2>1. /\ pc[z] = "idle" /\ pc' = [pc EXCEPT ![z] = "lookupIds"]
        /\ question' = [question EXCEPT ![z] = KeyFor(q.zone, q)]
        /\ asked' = [asked EXCEPT ![z] = KeyFor(q.zone, q)]
        /\ UNCHANGED <<request, rrsetId, rrsetIdOfRR, rrId>>
    BY <1>1, QuestionIsHeard DEF HearQuery, ReceiveQuery, GoTo
  <2>2. MeansIt(z)'
    <3>1. pc'[z] = "lookupIds" /\ question'[z] = asked'[z]
      BY <2>1 DEF LiveInv, QueriesInv, MeaningInv
    <3>2. SomeRequest(z)' = SomeRequest(z)
      BY DEF SomeRequest
    <3>3. QED
      BY <2>1, <3>1, <3>2 DEF MeaningInv, MeansIt, Reading, Writing
  <2>3. ASSUME NEW y \in Server, y # z
        PROVE  MeansIt(y)'
    <3>1. pc'[y] = pc[y] /\ question'[y] = question[y] /\ asked'[y] = asked[y]
      BY <2>1, <2>3 DEF LiveInv, QueriesInv, MeaningInv
    <3>2. QED
      BY <2>1, <3>1, MeaningStays DEF MeaningInv
  <2>4. QED
    BY <2>1, <2>2, <2>3 DEF MeaningInv
<1>2. ASSUME NEW r \in Request, HearUpdate(z, r), UNCHANGED queryVars
      PROVE  MeaningInv'
  <2>1. ReceiveUpdate(z, r)
    BY <1>2, UpdateIsHeard DEF HearUpdate
  <2>2. /\ pc[z] = "idle" /\ pc' = [pc EXCEPT ![z] = "lookupRRSet"]
        /\ request' = [request EXCEPT ![z] = r]
        /\ asked' = [asked EXCEPT ![z] = r.key]
        /\ UNCHANGED <<rrsetId, rrsetIdOfRR, rrId, question>>
    BY <1>2, <2>1 DEF HearUpdate, ReceiveUpdate, Receive, GoTo, queryVars
  <2>3. MeansIt(z)'
    <3>1. pc'[z] = "lookupRRSet" /\ asked'[z] = r.key /\ request'[z] = r
      BY <2>2 DEF LiveInv, ServersInv, MeaningInv
    <3>2. QED
      BY <3>1 DEF MeansIt, Querying, QueryStatement
  <2>4. ASSUME NEW y \in Server, y # z
        PROVE  MeansIt(y)'
    <3>1. pc'[y] = pc[y] /\ request'[y] = request[y] /\ asked'[y] = asked[y]
      BY <2>2, <2>4 DEF LiveInv, ServersInv, MeaningInv
    <3>2. QED
      BY <2>2, <3>1, MeaningStays DEF MeaningInv
  <2>5. QED
    BY <2>2, <2>3, <2>4 DEF MeaningInv
<1>3. QED
  BY <1>1, <1>2 DEF Hear

LEMMA ExecuteQueryMeaning ==
  ASSUME LiveInv, MeaningInv, NEW z \in Server, ExecuteQuery(z)
  PROVE  MeaningInv'
<1>1. ForgetAsked(z)
  BY DEF ExecuteQuery
<1>2. CASE LookupIds(z) \/ SelectRRs(z) \/ CountAuth(z)
  <2>1. /\ pc[z] \in QueryStatement
        /\ UNCHANGED <<request, rrsetId, rrsetIdOfRR, rrId, question>>
    BY <1>2 DEF LookupIds, SelectRRs, CountAuth, QueryStatement
  <2>2. \E next \in Querying : pc' = [pc EXCEPT ![z] = next]
    <3>1. {"selectRRs", "hasAuth", "reply"} \subseteq Querying
      BY DEF Querying, QueryStatement
    <3>2. QED
      BY <1>2, <3>1 DEF LookupIds, SelectRRs, CountAuth, Respond, GoTo
  <2>3. QED
    BY <1>1, <2>1, <2>2, QueryMeaning
<1>3. CASE Reply(z)
  BY <1>1, <1>3, LeaveMeaning DEF Reply
<1>4. QED
  BY <1>2, <1>3 DEF ExecuteQuery

LEMMA ExecuteUpdateMeaning ==
  ASSUME LiveInv, MeaningInv, NEW z \in Server, ExecuteUpdate(z)
  PROVE  MeaningInv'
<1>1. ForgetAsked(z) /\ question' = question
  BY DEF ExecuteUpdate, queryVars
<1>2. CASE ServerStep(z)
  <2>1. PICK next \in PC \ {"idle"} : pc' = [pc EXCEPT ![z] = next] /\ request' = request
    BY <1>2, ServerStepPC DEF LiveInv
  <2>2. pc'[z] = next /\ next \notin Querying \cup {"idle"}
    BY <2>1, QueryingIsApart DEF LiveInv
  <2>3. pc[z] \in Reading \cup Writing
    BY <1>2 DEF ServerStep, LookupRRSet, LookupRR, InsertMissingRRSet, InsertNewRR, RemoveRR,
      RemoveRelatedRRs, Reading, Writing
  <2>4. next # "down" => asked'[z] = asked[z]
    BY <1>1, <2>1, <2>2 DEF ForgetAsked, MeaningInv
  <2>5. MeansIt(z)'
    <3>1. asked[z] = request[z].key
      BY <2>3 DEF MeaningInv, MeansIt
    <3>2. "down" \notin Reading \cup Writing \cup {"answer"}
      BY DEF Reading, Writing
    <3>3. QED
      BY <2>1, <2>2, <2>4, <3>1, <3>2 DEF MeansIt
  <2>6. ASSUME NEW y \in Server, y # z
        PROVE  MeansIt(y)'
    <3>1. /\ pc'[y] = pc[y] /\ request'[y] = request[y]
          /\ rrsetId'[y] = rrsetId[y] /\ rrsetIdOfRR'[y] = rrsetIdOfRR[y] /\ rrId'[y] = rrId[y]
      BY <1>2, <2>6, OneServerMoves DEF LiveInv
    <3>2. asked'[y] = asked[y]
      BY <1>1, <2>6 DEF ForgetAsked, MeaningInv
    <3>3. QED
      BY <1>1, <3>1, <3>2, MeaningStays DEF MeaningInv
  <2>7. QED
    BY <1>1, <2>1, <2>5, <2>6 DEF MeaningInv, ForgetAsked
<1>3. CASE AnswerUpdate(z)
  BY <1>1, <1>3, LeaveMeaning DEF AnswerUpdate, Answered
<1>4. QED
  BY <1>2, <1>3 DEF ExecuteUpdate

LEMMA NextMeaning ==
  ASSUME PlainNames, LiveInv, MeaningInv, [LiveNext]_liveVars
  PROVE  MeaningInv'
<1>1. ASSUME NEW z \in Server, Hear(z) \/ ExecuteQuery(z) \/ ExecuteUpdate(z)
      PROVE  MeaningInv'
  BY <1>1, HearMeaning, ExecuteQueryMeaning, ExecuteUpdateMeaning
<1>2. ASSUME NEW z \in Server, End(z)
      PROVE  MeaningInv'
  BY <1>2, LeaveMeaning DEF End, StatementFails, QueryFails, Crash, Dies
<1>3. ASSUME UNCHANGED <<serverVars, queryVars, asked>>
      PROVE  MeaningInv'
  <2>1. \A z : SomeRequest(z)' = SomeRequest(z)
    BY DEF SomeRequest
  <2>2. QED
    BY <1>3, <2>1 DEF MeaningInv, MeansIt, serverVars, queryVars
<1>4. CASE Others
  <2>1. ASSUME NEW z \in Server, Restart(z)
        PROVE  MeaningInv'
    BY <1>4, <2>1, LeaveMeaning DEF Others, Restart, queryVars
  <2>2. QED
    BY <1>3, <1>4, <2>1 DEF Others, ToolStep, ToolCrash
<1>5. CASE UNCHANGED liveVars
  BY <1>3, <1>5 DEF liveVars, vars
<1>6. QED
  BY <1>1, <1>2, <1>4, <1>5 DEF LiveNext

-----------------------------------------------------------------------------
\* Queries, and the names of updates, add nothing to module SharedDatabase.
LEMMA InitIsUpdates == LiveInit => Updates!Init
<1> SUFFICES ASSUME LiveInit PROVE Updates!Init
  OBVIOUS
<1>1. IdlePC = [z \in Server |-> "idle"]
  BY DEF LiveInit, Init, ServerInit, IdlePC, Querying, QueryStatement
<1>2. Updates!ServerInit
  BY <1>1, SameSomeRequest DEF LiveInit, Init, ServerInit, Updates!ServerInit, IdlePC
<1>3. Updates!ToolInit
  BY DEF LiveInit, Init, ToolInit, Updates!ToolInit
<1>4. QED
  BY <1>2, <1>3 DEF LiveInit, Init, Updates!Init

LEMMA LeaveIsUpdates ==
  ASSUME LiveInv, NEW z \in Server, NEW label \in {"idle", "down"}, Leave(z, label)
  PROVE  Updates!Leave(z, label)
<1>1. label \in PC /\ pc' = [pc EXCEPT ![z] = label]
  BY DEF Leave, GoTo, PC
<1>2. IdlePC' = [IdlePC EXCEPT ![z] = label]
  BY <1>1, IdlePCMoves DEF LiveInv
<1>3. QED
  BY <1>2, SameSomeRequest DEF Leave, Updates!Leave, Updates!GoTo, IdlePC

LEMMA HearIsUpdates ==
  ASSUME PlainNames, LiveInv, NEW z \in Server, NEW r \in Request, HearUpdate(z, r)
  PROVE  Updates!ReceiveUpdate(z, r)
<1>1. ReceiveUpdate(z, r)
  BY UpdateIsHeard DEF HearUpdate
<1>2. pc[z] = "idle" /\ pc' = [pc EXCEPT ![z] = "lookupRRSet"] /\ "lookupRRSet" \in PC /\ "idle" \in PC
  BY <1>1 DEF ReceiveUpdate, Receive, GoTo, PC, Reading
<1>3. IdlePC' = [IdlePC EXCEPT ![z] = "lookupRRSet"] /\ IdlePC[z] = "idle"
  BY <1>2, IdlePCMoves, IdlePCIs DEF LiveInv
<1>4. Updates!Receive(z, r)
  BY <1>1, <1>3, SameNewId DEF ReceiveUpdate, Receive, Updates!Receive, Updates!GoTo, IdlePC
<1>5. QED
  BY <1>1, <1>4, SameFindable DEF toolVars, Updates!toolVars, ReceiveUpdate, Updates!ReceiveUpdate

LEMMA DiesIsUpdates ==
  ASSUME LiveInv, NEW z \in Server, Dies(z)
  PROVE  Updates!Dies(z)
BY LeaveIsUpdates DEF toolVars, Updates!toolVars, Dies, Updates!Dies

LEMMA SameRRsOf ==
  \A d : /\ Updates!RRSetsOf(d) = RRSetsOf(d)
         /\ Updates!RRsOf(d) = RRsOf(d)
         /\ Updates!Statements(d) = Statements(d)
BY DEF RRSetsOf, Updates!RRSetsOf, RRsOf, Updates!RRsOf, Statements, Updates!Statements

LEMMA ToolIsUpdates ==
  ASSUME LiveInv, NEW d \in Delegation, ToolStep(d)
  PROVE  Updates!ToolStep(d)
<1>1. UNCHANGED Updates!serverVars
  <2>1. IdlePC' = IdlePC
    BY DEF ToolStep, serverVars, IdlePC
  <2>2. QED
    BY <2>1 DEF ToolStep, serverVars, Updates!serverVars, IdlePC
<1>2. ASSUME StartTool(d)
      PROVE  Updates!StartTool(d)
  BY <1>2 DEF StartTool, Updates!StartTool
<1>3. ASSUME RegisterRRSet(d)
      PROVE  Updates!RegisterRRSet(d)
  BY <1>3, SameNewId, SameRRsOf DEF RegisterRRSet, Updates!RegisterRRSet, InsertRRSet,
    Updates!InsertRRSet,
    HasRRSet, Updates!HasRRSet
<1>4. ASSUME RegisterRR(d)
      PROVE  Updates!RegisterRR(d)
  BY <1>4, SameNewId, SameRRsOf DEF RegisterRR, Updates!RegisterRR, InsertRR, Updates!InsertRR,
    SelectRR, Updates!SelectRR
<1>5. ASSUME RefusedRRSet(d)
      PROVE  Updates!RefusedRRSet(d)
  BY <1>5, SameRRsOf DEF RefusedRRSet, Updates!RefusedRRSet, HasRRSet, Updates!HasRRSet
<1>6. QED
  BY <1>1, <1>2, <1>3, <1>4, <1>5 DEF ToolStep, Updates!ToolStep

LEMMA ToolCrashIsUpdates ==
  ASSUME NEW d \in Delegation, ToolCrash(d)
  PROVE  Updates!ToolCrash(d)
<1>1. UNCHANGED Updates!serverVars
  <2>1. IdlePC' = IdlePC
    BY DEF ToolCrash, serverVars, IdlePC
  <2>2. QED
    BY <2>1 DEF ToolCrash, serverVars, Updates!serverVars, IdlePC
<1>2. ASSUME NEW z \in Server, pc[z] \in Reading \cup Writing
      PROVE  IdlePC[z] \in Updates!Reading \cup Updates!Writing
  BY <1>2, IdlePCIs DEF Reading, Writing, Updates!Reading, Updates!Writing
<1>3. QED
  BY <1>1, <1>2 DEF ToolCrash, Updates!ToolCrash, IdlePC

\* A statement of a query, or its reply, changes nothing of it.
LEMMA QueryIsNoUpdate ==
  ASSUME LiveInv, MeaningInv, NEW z \in Server, ExecuteQuery(z)
  PROVE  UNCHANGED Updates!vars
<1>1. /\ pc[z] \in Querying
      /\ \E next \in Querying \cup {"idle"} : pc' = [pc EXCEPT ![z] = next]
      /\ rrsets' = rrsets /\ rrs' = rrs
      /\ UNCHANGED <<toolVars, before>>
  <2>1. {"selectRRs", "hasAuth", "reply"} \subseteq Querying
    BY DEF Querying, QueryStatement
  <2>2. QED
    BY <2>1 DEF ExecuteQuery, LookupIds, SelectRRs, CountAuth, Reply, Respond, Leave, GoTo,
      Querying, QueryStatement
<1>2. UNCHANGED <<request, rrsetId, rrsetIdOfRR, rrId>>
  <2>1. CASE LookupIds(z) \/ SelectRRs(z) \/ CountAuth(z)
    BY <2>1 DEF LookupIds, SelectRRs, CountAuth
  <2>2. CASE Reply(z)
    <3>1. /\ request' = [request EXCEPT ![z] = SomeRequest(z)]
          /\ rrsetId' = [rrsetId EXCEPT ![z] = 0]
          /\ rrsetIdOfRR' = [rrsetIdOfRR EXCEPT ![z] = 0]
          /\ rrId' = [rrId EXCEPT ![z] = 0]
      BY <2>2 DEF Reply, Leave
    <3>2. request[z] = SomeRequest(z) /\ rrsetId[z] = 0 /\ rrsetIdOfRR[z] = 0 /\ rrId[z] = 0
      BY <1>1 DEF MeaningInv, MeansIt
    <3>3. QED
      BY <3>1, <3>2 DEF LiveInv, ServersInv
  <2>3. QED
    BY <2>1, <2>2 DEF ExecuteQuery
<1>3. IdlePC' = IdlePC
  BY <1>1, IdlePCStays DEF LiveInv
<1>4. QED
  BY <1>1, <1>2, <1>3 DEF Updates!vars, Updates!serverVars, Updates!toolVars, toolVars, IdlePC

LEMMA EndIsUpdates ==
  ASSUME "busy" \in Failures => "crash" \in Failures,
         LiveInv, NEW z \in Server, End(z)
  PROVE  Updates!StatementFails(z) \/ Updates!Crash(z)
<1>1. Updates!Dies(z)
  BY DiesIsUpdates DEF End, StatementFails, QueryFails, Crash
<1>2. ASSUME "crash" \in Failures, pc[z] # "down"
      PROVE  Updates!Crash(z)
  BY <1>1, <1>2, IdlePCIs DEF Updates!Crash, IdlePC
<1>3. CASE QueryFails(z) \/ Crash(z)
  <2>1. "crash" \in Failures /\ pc[z] # "down"
    BY <1>3 DEF QueryFails, Crash, QueryStatement
  <2>2. QED
    BY <1>2, <2>1
<1>4. CASE StatementFails(z)
  <2>1. "crash" \in Failures /\ pc[z] # "down"
    BY <1>4 DEF StatementFails, Contended, Reading, Writing
  <2>2. QED
    BY <1>2, <2>1
<1>5. QED
  BY <1>3, <1>4 DEF End

LEMMA NextIsUpdates ==
  ASSUME PlainNames, "busy" \in Failures => "crash" \in Failures,
         LiveInv, MeaningInv, [LiveNext]_liveVars
  PROVE  [Updates!Next]_(Updates!vars)
<1>1. ASSUME NEW z \in Server, Hear(z)
      PROVE  [Updates!Next]_(Updates!vars)
  <2>1. ASSUME NEW q \in Question, HearQuery(z, q)
        PROVE  UNCHANGED Updates!vars
    <3>1. /\ pc[z] = "idle" /\ pc' = [pc EXCEPT ![z] = "lookupIds"]
          /\ UNCHANGED <<rrsets, rrs, request, rrsetId, rrsetIdOfRR, rrId, toolVars, before>>
      BY <2>1 DEF HearQuery, ReceiveQuery, GoTo
    <3>2. "lookupIds" \in Querying
      BY DEF Querying, QueryStatement
    <3>3. IdlePC' = IdlePC
      BY <3>1, <3>2, IdlePCStays DEF LiveInv
    <3>4. QED
      BY <3>1, <3>3 DEF Updates!vars, Updates!serverVars, Updates!toolVars, toolVars, IdlePC
  <2>2. QED
    BY <1>1, <2>1, HearIsUpdates DEF Hear, Updates!Next
<1>2. ASSUME NEW z \in Server, ExecuteUpdate(z)
      PROVE  Updates!Next
  <2>1. CASE ServerStep(z)
    BY <2>1, StatementIsUpdates DEF LiveInv, Updates!Next
  <2>2. CASE AnswerUpdate(z)
    <3>1. pc[z] = "answer" /\ Leave(z, "idle") /\ "answer" \in PC
      BY <2>2 DEF AnswerUpdate, Answered, PC
    <3>2. IdlePC[z] = "answer" /\ Updates!Leave(z, "idle")
      BY <3>1, IdlePCIs, LeaveIsUpdates
    <3>3. Updates!AnswerUpdate(z)
      BY <2>2, <3>2 DEF toolVars, Updates!toolVars, AnswerUpdate, Updates!AnswerUpdate,
        Updates!Answered, IdlePC
    <3>4. QED
      BY <3>3 DEF Updates!Next
  <2>3. QED
    BY <1>2, <2>1, <2>2 DEF ExecuteUpdate
<1>3. ASSUME NEW z \in Server, End(z)
      PROVE  Updates!Next
  BY <1>3, EndIsUpdates DEF Updates!Next
<1>4. ASSUME NEW z \in Server, Restart(z)
      PROVE  Updates!Next
  <2>1. pc[z] = "down" /\ Leave(z, "idle")
    BY <1>4 DEF Restart
  <2>2. IdlePC[z] = "down" /\ Updates!Leave(z, "idle")
    BY <2>1, IdlePCIs, LeaveIsUpdates
  <2>3. Updates!Restart(z)
    BY <1>4, <2>2 DEF toolVars, Updates!toolVars, Restart, Updates!Restart, IdlePC
  <2>4. QED
    BY <2>3 DEF Updates!Next
<1>5. ASSUME NEW d \in Delegation, ToolStep(d) \/ ToolCrash(d)
      PROVE  Updates!Next
  BY <1>5, ToolIsUpdates, ToolCrashIsUpdates DEF Updates!Next
<1>6. CASE UNCHANGED liveVars
  <2>1. IdlePC' = IdlePC
    BY <1>6 DEF liveVars, vars, serverVars, IdlePC
  <2>2. QED
    BY <1>6, <2>1 DEF liveVars, vars, serverVars, toolVars, IdlePC,
      Updates!vars, Updates!serverVars, Updates!toolVars
<1>7. QED
  BY <1>1, <1>2, <1>3, <1>4, <1>5, <1>6, QueryIsNoUpdate DEF LiveNext, Others

\* A live server does to the database what module SharedDatabase says of the
\* updates its clients send: a query does nothing to it, and an update that
\* comes in a name is executed on the set that was meant.  A query that SQLite
\* refuses ends its server, so where statements fail servers must be able to.
THEOREM LiveImplementsUpdates ==
  PlainNames /\ ("busy" \in Failures => "crash" \in Failures) /\ LiveSpec => UpdatesOnly
<1>1. CASE PlainNames /\ ("busy" \in Failures => "crash" \in Failures)
  <2>1. HeardKeysExist
    BY <1>1, PlainKeysExist
  <2>2. LiveInit => LiveInv /\ MeaningInv /\ Updates!Init
    BY LiveInitInv, InitMeaning, InitIsUpdates
  <2>3. LiveInv /\ MeaningInv /\ [LiveNext]_liveVars =>
          LiveInv' /\ MeaningInv' /\ [Updates!Next]_(Updates!vars)
    BY <1>1, <2>1, LiveNextInv, NextMeaning, NextIsUpdates
  <2>4. QED
    BY <2>2, <2>3, PTL DEF LiveSpec, UpdatesOnly, Updates!Spec
<1>2. CASE ~(PlainNames /\ ("busy" \in Failures => "crash" \in Failures))
  BY <1>2
<1>3. QED
  BY <1>1, <1>2

-----------------------------------------------------------------------------
\* What a step does to the tables: a server executes a statement of an update,
\* a tool goes on or ends, or nothing is written and the servers that execute
\* updates are those from before, or at their first look-up.
Executing == Located \cup {"insertRRSet", "answer"}

LEMMA LiveSteps ==
  ASSUME LiveInv, MeaningInv, [LiveNext]_liveVars
  PROVE  \/ \E y \in Server : ServerStep(y) /\ ForgetAsked(y)
         \/ \E d \in Delegation : (ToolStep(d) \/ ToolCrash(d)) /\ asked' = asked
         \/ /\ UNCHANGED <<rrsets, rrs, toolVars>>
            /\ \A z \in Server : pc'[z] \in Executing =>
                 /\ pc'[z] = pc[z] /\ request'[z] = request[z] /\ rrId'[z] = rrId[z]
                 /\ rrsetIdOfRR'[z] = rrsetIdOfRR[z] /\ asked'[z] = asked[z]
<1> DEFINE Quiet == /\ UNCHANGED <<rrsets, rrs, toolVars>>
                    /\ \A z \in Server : pc'[z] \in Executing =>
                         /\ pc'[z] = pc[z] /\ request'[z] = request[z] /\ rrId'[z] = rrId[z]
                         /\ rrsetIdOfRR'[z] = rrsetIdOfRR[z] /\ asked'[z] = asked[z]
<1>1. ASSUME NEW y \in Server, NEW next, next \notin Executing, pc' = [pc EXCEPT ![y] = next],
             UNCHANGED <<rrsets, rrs, toolVars>>,
             \A z \in Server \ {y} :
               /\ request'[z] = request[z] /\ rrId'[z] = rrId[z]
               /\ rrsetIdOfRR'[z] = rrsetIdOfRR[z] /\ asked'[z] = asked[z]
      PROVE  Quiet
  <2>1. pc'[y] \notin Executing
    BY <1>1 DEF LiveInv
  <2>2. \A z \in Server \ {y} : pc'[z] = pc[z]
    BY <1>1 DEF LiveInv
  <2>3. QED
    BY <1>1, <2>1, <2>2
<1>2. {"idle", "down", "lookupRRSet"} \cap Executing = {} /\ Querying \cap Executing = {}
  BY DEF Executing, Located, Querying, QueryStatement
<1>3. ASSUME NEW y \in Server, NEW label \in {"idle", "down"}, Leave(y, label), UNCHANGED toolVars,
             ForgetAsked(y) \/ UNCHANGED asked
      PROVE  Quiet
  <2>1. label \notin Executing
    BY <1>2
  <2>2. /\ pc' = [pc EXCEPT ![y] = label]
        /\ UNCHANGED <<rrsets, rrs, toolVars>>
    BY <1>3 DEF Leave, GoTo
  <2>3. \A z \in Server \ {y} :
               /\ request'[z] = request[z] /\ rrId'[z] = rrId[z]
               /\ rrsetIdOfRR'[z] = rrsetIdOfRR[z] /\ asked'[z] = asked[z]
    <3>1. \A z \in Server \ {y} : asked'[z] = asked[z]
      BY <1>3 DEF MeaningInv, ForgetAsked
    <3>2. QED
      BY <1>3, <3>1 DEF Leave, LiveInv, ServersInv
  <2> HIDE DEF Quiet
  <2>4. QED
    BY <1>1, <2>1, <2>2, <2>3
<1> HIDE DEF Quiet
<1>4. ASSUME NEW y \in Server, Hear(y)
      PROVE  Quiet
  <2>1. ASSUME NEW q \in Question, HearQuery(y, q)
        PROVE  Quiet
    <3>1. /\ pc' = [pc EXCEPT ![y] = "lookupIds"]
          /\ UNCHANGED <<rrsets, rrs, toolVars, request, rrId, rrsetIdOfRR>>
          /\ \A z \in Server \ {y} : asked'[z] = asked[z]
      BY <2>1 DEF HearQuery, ReceiveQuery, GoTo, MeaningInv
    <3>2. "lookupIds" \notin Executing
      BY <1>2 DEF Querying, QueryStatement
    <3>3. QED
      BY <1>1, <3>1, <3>2
  <2>2. ASSUME NEW r \in Request, HearUpdate(y, r)
        PROVE  Quiet
    <3>1. /\ pc' = [pc EXCEPT ![y] = "lookupRRSet"]
          /\ UNCHANGED <<rrsets, rrs, toolVars, rrId, rrsetIdOfRR>>
          /\ \A z \in Server \ {y} : asked'[z] = asked[z] /\ request'[z] = request[z]
      BY <2>2 DEF HearUpdate, ReceiveUpdate, Receive, GoTo, LiveInv, ServersInv, MeaningInv
    <3>2. "lookupRRSet" \notin Executing
      BY <1>2
    <3>3. QED
      BY <1>1, <3>1, <3>2
  <2>3. QED
    BY <1>4, <2>1, <2>2 DEF Hear
<1>5. ASSUME NEW y \in Server, ExecuteQuery(y)
      PROVE  Quiet
  <2>1. UNCHANGED toolVars /\ ForgetAsked(y)
    BY <1>5 DEF ExecuteQuery
  <2>2. CASE LookupIds(y) \/ SelectRRs(y) \/ CountAuth(y)
    <3>1. UNCHANGED <<rrsets, rrs, toolVars, request, rrId, rrsetIdOfRR>>
      BY <2>1, <2>2 DEF LookupIds, SelectRRs, CountAuth
    <3>2. PICK next \in Querying : pc' = [pc EXCEPT ![y] = next]
      <4>1. {"selectRRs", "hasAuth", "reply"} \subseteq Querying
        BY DEF Querying, QueryStatement
      <4>2. QED
        BY <2>2, <4>1 DEF LookupIds, SelectRRs, CountAuth, Respond, GoTo
    <3>3. \A z \in Server \ {y} : asked'[z] = asked[z]
      BY <2>1 DEF ForgetAsked, MeaningInv
    <3>4. next \notin Executing
      BY <1>2
    <3>5. QED
      BY <1>1, <3>1, <3>2, <3>3, <3>4
  <2>3. CASE Reply(y)
    BY <1>3, <2>1, <2>3 DEF Reply
  <2>4. QED
    BY <1>5, <2>2, <2>3 DEF ExecuteQuery
<1>6. ASSUME NEW y \in Server, ExecuteUpdate(y)
      PROVE  (ServerStep(y) /\ ForgetAsked(y)) \/ Quiet
  BY <1>3, <1>6 DEF ExecuteUpdate, AnswerUpdate, Answered
<1>7. ASSUME NEW y \in Server, End(y)
      PROVE  Quiet
  BY <1>3, <1>7 DEF End, StatementFails, QueryFails, Crash, Dies
<1>8. CASE Others
  <2>1. ASSUME NEW y \in Server, Restart(y)
        PROVE  Quiet
    BY <1>3, <1>8, <2>1 DEF Others, Restart
  <2>2. QED
    BY <1>8, <2>1 DEF Others, Quiet
<1>9. CASE UNCHANGED liveVars
  BY <1>9 DEF liveVars, vars, serverVars, toolVars, Quiet
<1>10. QED
  BY <1>4, <1>5, <1>6, <1>7, <1>8, <1>9 DEF LiveNext, Quiet

\* Who deletes a row has been asked to, and with two zones on the file the row
\* is the one that was named.
ServersApart == NoRemovalOfDelegated \/ \A y, z \in Server : y = z

DeletionsInv ==
  /\ \A z \in Server : pc[z] = "removeRR" => request[z].action = "REMOVE"
  /\ NoRemovalOfDelegated => RemovalsInv

LEMMA InitDeletions == LiveInit => DeletionsInv
BY InitRemovals DEF LiveInit, Init, ServerInit, DeletionsInv

LEMMA NextDeletions ==
  ASSUME LiveInv, LiveInv', MeaningInv, DeletionsInv, [LiveNext]_liveVars
  PROVE  DeletionsInv'
<1>1. ASSUME NEW y \in Server, ServerStep(y)
      PROVE  DeletionsInv'
  <2>1. pc'[y] = "removeRR" => request'[y].action = "REMOVE"
    <3>1. CASE LookupRR(y)
      BY <3>1, LookupRRFindsRow DEF LiveInv, RemovalInv
    <3>2. CASE LookupRRSet(y)
      <4>1. PICK id : pc' = [pc EXCEPT ![y] = IF id = 0 THEN Branch(request[y].action, 0, rrId[y]) ELSE "lookupRR"]
        BY <3>2 DEF LookupRRSet, GoTo
      <4>2. rrId[y] = 0 /\ request[y].action \in UpdateAction
        BY <3>2 DEF LookupRRSet, LiveInv, ServersInv, ServerInv, RRLookedUp, UpdateRequest
      <4>3. Branch(request[y].action, 0, rrId[y]) # "removeRR"
        BY <4>2, BranchLeads
      <4>4. QED
        BY <4>1, <4>3 DEF LiveInv
    <3>3. CASE InsertMissingRRSet(y) \/ InsertNewRR(y) \/ RemoveRR(y) \/ RemoveRelatedRRs(y)
      BY <3>3 DEF InsertMissingRRSet, InsertNewRR, RemoveRR, RemoveRelatedRRs, GoTo, LiveInv
    <3>4. QED
      BY <1>1, <3>1, <3>2, <3>3 DEF ServerStep
  <2>2. \A z \in Server \ {y} : pc'[z] = pc[z] /\ request'[z] = request[z]
    BY <1>1, OneServerMoves DEF LiveInv
  <2>3. NoRemovalOfDelegated => RemovalsInv'
    BY <1>1, ServerKeepsRemovals DEF LiveInv, DeletionsInv
  <2>4. NoRemovalOfDelegated' = NoRemovalOfDelegated
    BY DEF NoRemovalOfDelegated
  <2>5. QED
    BY <2>1, <2>2, <2>3, <2>4 DEF DeletionsInv
<1>2. ASSUME NEW d \in Delegation, ToolStep(d) \/ ToolCrash(d)
      PROVE  DeletionsInv'
  <2>1. UNCHANGED serverVars
    BY <1>2 DEF ToolStep, ToolCrash
  <2>2. CASE ToolStep(d)
    BY <2>1, <2>2, ToolKeepsRemovals DEF LiveInv, MeaningInv, DeletionsInv, serverVars,
      NoRemovalOfDelegated
  <2>3. CASE ToolCrash(d)
    BY <2>1, <2>3 DEF ToolCrash, DeletionsInv, RemovalsInv, RemovalInv, RowsOf, serverVars,
      NoRemovalOfDelegated
  <2>4. QED
    BY <1>2, <2>2, <2>3
<1>3. ASSUME UNCHANGED <<rrsets, rrs, toolVars>>,
             \A z \in Server : pc'[z] \in Executing =>
               /\ pc'[z] = pc[z] /\ request'[z] = request[z] /\ rrId'[z] = rrId[z]
               /\ rrsetIdOfRR'[z] = rrsetIdOfRR[z]
      PROVE  DeletionsInv'
  <2>1. "removeRR" \in Executing
    BY DEF Executing, Located
  <2>2. QED
    BY <1>3, <2>1 DEF DeletionsInv, RemovalsInv, RemovalInv, RowsOf, NoRemovalOfDelegated
<1>4. QED
  BY <1>1, <1>2, <1>3, LiveSteps

\* A tool takes no record away.
LEMMA ToolKeepsRecords ==
  ASSUME SoundTables, ToolsInv, NEW d \in Delegation, ToolStep(d) \/ ToolCrash(d),
         NEW key, NEW data, HoldsIn(key, data)
  PROVE  HoldsIn(key, data)'
<1>1. CASE RegisterRR(d)
  BY <1>1, ToolWrites, InsertKeepsRecords
<1>2. CASE RegisterRRSet(d)
  BY <1>2, NewSetHoldsNothing DEF RegisterRRSet
<1>3. CASE StartTool(d) \/ RefusedRRSet(d) \/ ToolCrash(d)
  BY <1>3 DEF StartTool, RefusedRRSet, ToolCrash, HoldsIn
<1>4. QED
  BY <1>1, <1>2, <1>3 DEF ToolStep

\* When an update that brings data is done, its set holds them.
Added(z) ==
  pc[z] = "answer" /\ request[z].action \in {"ADD", "REPLACE-ALL"} =>
    HoldsIn(request[z].key, request[z].data)

AddedInv == \A z \in Server : Added(z)

LEMMA StatementAdds ==
  ASSUME SoundTables, ServersInv, DeletionsInv, NEW y \in Server, ServerStep(y)
  PROVE  Added(y)'
<1>1. request' = request /\ DOMAIN pc = Server
  BY ServerStepPC DEF ServersInv
<1>2. request[y].action \in UpdateAction /\ rrsetId[y] \in Nat
  BY DEF ServersInv, UpdateRequest
<1>3. CASE LookupRRSet(y)
  <2>1. PICK id : pc' = [pc EXCEPT ![y] = IF id = 0 THEN Branch(request[y].action, 0, rrId[y]) ELSE "lookupRR"]
    BY <1>3 DEF LookupRRSet, GoTo
  <2>2. rrId[y] = 0
    BY <1>3 DEF LookupRRSet, ServersInv, ServerInv, RRLookedUp
  <2>3. Branch(request[y].action, 0, rrId[y]) = "answer" => request[y].action \in {"NONE", "REMOVE"}
    BY <1>2, <2>2, BranchLeads
  <2>4. QED
    BY <1>1, <2>1, <2>3 DEF Added
<1>4. CASE LookupRR(y)
  <2>1. PICK id \in LastId(SelectRR(rrsetIdOfRR[y], request[y].data)) :
          pc' = [pc EXCEPT ![y] = Branch(request[y].action, rrsetId[y], id)]
    BY <1>4 DEF LookupRR, GoTo
  <2>2. id \in Nat
    BY LastIdOf DEF SelectRR, SoundTables, IsRRTable, RRRow
  <2>3. Branch(request[y].action, rrsetId[y], id) = "answer" =>
          request[y].action \in {"NONE", "REMOVE"} \/ id # 0
    BY <1>2, <2>2, BranchLeads
  <2>4. IsIdOf(rrsetIdOfRR[y], request[y].key) /\ rrs' = rrs /\ rrsets' = rrsets
    BY <1>4 DEF LookupRR, ServersInv, ServerInv, Located
  <2>5. id # 0 => HoldsIn(request[y].key, request[y].data)
    BY <2>1, <2>4, LastIdOf DEF SelectRR, IsIdOf, HoldsIn
  <2>6. id # 0 => HoldsIn(request[y].key, request[y].data)'
    <3>1. PICK key, data : key = request[y].key /\ data = request[y].data
      OBVIOUS
    <3>2. id # 0 => HoldsIn(key, data)'
      BY <2>4, <2>5, <3>1 DEF HoldsIn
    <3>3. QED
      BY <1>1, <3>1, <3>2
  <2>7. pc'[y] = "answer" => request[y].action \in {"NONE", "REMOVE"} \/ id # 0
    BY <1>1, <2>1, <2>3
  <2>8. QED
    BY <1>1, <2>6, <2>7 DEF Added
<1>5. CASE InsertNewRR(y)
  <2>1. InsertRR(rrsetIdOfRR[y], request[y].data) /\ IsIdOf(rrsetIdOfRR[y], request[y].key)
    BY <1>5 DEF InsertNewRR, ServersInv, ServerInv, Located
  <2>2. HoldsIn(request[y].key, request[y].data)'
    <3>1. PICK key, data : key = request[y].key /\ data = request[y].data
      OBVIOUS
    <3>2. HoldsIn(key, data)'
      BY <2>1, <3>1, InsertHolds
    <3>3. QED
      BY <1>1, <3>1, <3>2
  <2>3. QED
    BY <2>2 DEF Added
<1>6. CASE RemoveRR(y)
  BY <1>1, <1>6 DEF RemoveRR, DeletionsInv, Added
<1>7. CASE InsertMissingRRSet(y) \/ RemoveRelatedRRs(y)
  BY <1>1, <1>7 DEF InsertMissingRRSet, RemoveRelatedRRs, GoTo, Added
<1>8. QED
  BY <1>3, <1>4, <1>5, <1>6, <1>7 DEF ServerStep

LEMMA InitAdded == LiveInit => AddedInv
BY DEF LiveInit, Init, ServerInit, AddedInv, Added

LEMMA NextAdded ==
  ASSUME ServersApart, LiveInv, LiveInv', MeaningInv, DeletionsInv, AddedInv, [LiveNext]_liveVars
  PROVE  AddedInv'
<1>1. ASSUME NEW y \in Server, ServerStep(y)
      PROVE  AddedInv'
  <2>1. Added(y)'
    BY <1>1, StatementAdds DEF LiveInv
  <2>2. ASSUME NEW z \in Server, z # y
        PROVE  Added(z)'
    <3>1. pc'[z] = pc[z] /\ request'[z] = request[z]
      BY <1>1, <2>2, OneServerMoves DEF LiveInv
    <3>2. RemovalInv(y)
      BY <2>2 DEF ServersApart, DeletionsInv, RemovalsInv
    <3>3. request[y] \in Request /\ request[z].key # request[y].key
      BY <2>2 DEF MeaningInv, LiveInv, ServersInv, ServerInv
    <3>4. PICK key, data : key = request[z].key /\ data = request[z].data
      OBVIOUS
    <3>5. HoldsIn(key, data) => HoldsIn(key, data)'
      BY <1>1, <3>2, <3>3, <3>4, ServerKeepsCertificates DEF LiveInv
    <3>6. HoldsIn(request[z].key, request[z].data) => HoldsIn(request[z].key, request[z].data)'
      BY <3>1, <3>4, <3>5
    <3>7. Added(z)
      BY DEF AddedInv
    <3>8. QED
      BY <3>1, <3>6, <3>7 DEF Added
  <2>3. QED
    BY <2>1, <2>2 DEF AddedInv
<1>2. ASSUME NEW d \in Delegation, ToolStep(d) \/ ToolCrash(d)
      PROVE  AddedInv'
  <2>1. pc' = pc /\ request' = request
    BY <1>2 DEF ToolStep, ToolCrash, serverVars
  <2>2. ASSUME NEW z \in Server
        PROVE  Added(z)'
    <3>1. PICK key, data : key = request[z].key /\ data = request[z].data
      OBVIOUS
    <3>2. HoldsIn(key, data) => HoldsIn(key, data)'
      BY <1>2, ToolKeepsRecords DEF LiveInv
    <3>3. HoldsIn(request[z].key, request[z].data) => HoldsIn(request[z].key, request[z].data)'
      BY <2>1, <3>1, <3>2
    <3>4. Added(z)
      BY DEF AddedInv
    <3>5. QED
      BY <2>1, <3>3, <3>4 DEF Added
  <2>3. QED
    BY <2>2 DEF AddedInv
<1>3. ASSUME UNCHANGED <<rrsets, rrs, toolVars>>,
             \A z \in Server : pc'[z] \in Executing =>
               pc'[z] = pc[z] /\ request'[z] = request[z]
      PROVE  AddedInv'
  <2>1. "answer" \in Executing
    BY DEF Executing
  <2>2. QED
    BY <1>3, <2>1 DEF AddedInv, Added, HoldsIn
<1>4. QED
  BY <1>1, <1>2, <1>3, LiveSteps

\* An acknowledged update has brought its data into the set the client meant,
\* whatever zone-delegate and the servers of other zones write meanwhile.
THEOREM AcknowledgedIsThere ==
  PlainNames /\ ServersApart /\ LiveSpec => []AddedWhereMeant
<1>1. CASE PlainNames /\ ServersApart
  <2>1. HeardKeysExist
    BY <1>1, PlainKeysExist
  <2>2. LiveInit => LiveInv /\ MeaningInv /\ DeletionsInv /\ AddedInv
    BY LiveInitInv, InitMeaning, InitDeletions, InitAdded
  <2>3. LiveInv /\ MeaningInv /\ DeletionsInv /\ AddedInv /\ [LiveNext]_liveVars =>
          (LiveInv /\ MeaningInv /\ DeletionsInv /\ AddedInv)'
    BY <1>1, <2>1, LiveNextInv, NextMeaning, NextDeletions, NextAdded
  <2>4. MeaningInv /\ AddedInv => AddedWhereMeant
    BY DEF MeaningInv, MeansIt, AddedInv, Added, AddedWhereMeant
  <2>5. QED
    BY <2>2, <2>3, <2>4, PTL DEF LiveSpec
<1>2. CASE ~(PlainNames /\ ServersApart)
  BY <1>2
<1>3. QED
  BY <1>1, <1>2

\* The next two hold for live servers as they do in SharedDatabase_proofs.
LEMMA NextLiveCertificates ==
  ASSUME DelegationsApart, NoRemovalOfDelegated, LiveInv, LiveInv', MeaningInv, DeletionsInv,
         CertificatesInv, [LiveNext]_liveVars
  PROVE  CertificatesInv'
<1>1. ASSUME NEW y \in Server, ServerStep(y)
      PROVE  CertificatesInv'
  BY <1>1, ServerStepCertificates DEF LiveInv, MeaningInv, DeletionsInv, RemovalsInv
<1>2. ASSUME NEW d \in Delegation, ToolStep(d) \/ ToolCrash(d)
      PROVE  CertificatesInv'
  BY <1>2, ToolStepCertificates, EndToolCertificates DEF LiveInv
<1>3. ASSUME UNCHANGED <<rrsets, rrs, toolVars>>
      PROVE  CertificatesInv'
  BY <1>3 DEF CertificatesInv, DelegatedWithCertificate, HoldsIn, toolVars
<1>4. QED
  BY <1>1, <1>2, <1>3, LiveSteps

\* A sub-zone that zone-delegate writes does not get a name server before its
\* certificate, also next to servers that answer queries and read the updates
\* from the names of Interests.
THEOREM LiveCertificateComesFirst ==
  PlainNames /\ NoRemovalOfDelegated /\ DelegationsApart /\ DelegatedInitially /\ LiveSpec
    => []DelegatedWithCertificate
<1>1. CASE PlainNames /\ NoRemovalOfDelegated /\ DelegationsApart /\ DelegatedInitially
  <2>1. HeardKeysExist
    BY <1>1, PlainKeysExist
  <2>2. LiveInit => LiveInv /\ MeaningInv /\ DeletionsInv /\ CertificatesInv
    BY <1>1, LiveInitInv, InitMeaning, InitDeletions, InitCertificates DEF LiveInit
  <2>3. LiveInv /\ MeaningInv /\ DeletionsInv /\ CertificatesInv /\ [LiveNext]_liveVars =>
          (LiveInv /\ MeaningInv /\ DeletionsInv /\ CertificatesInv)'
    BY <1>1, <2>1, LiveNextInv, NextMeaning, NextDeletions, NextLiveCertificates
  <2>4. CertificatesInv => DelegatedWithCertificate
    BY DEF CertificatesInv
  <2>5. QED
    BY <2>2, <2>3, <2>4, PTL DEF LiveSpec
<1>2. CASE ~(PlainNames /\ NoRemovalOfDelegated /\ DelegationsApart /\ DelegatedInitially)
  BY <1>2
<1>3. QED
  BY <1>1, <1>2

\* Query::fromInterest gives the label that Query::toInterest was called with,
\* while the query is executed, if the names are as the patterns expect them.
THEOREM LabelsAreReadBack == PlainNames /\ LiveSpec => []LabelIsReadBack
<1>1. CASE PlainNames
  <2>1. HeardKeysExist
    BY <1>1, PlainKeysExist
  <2>2. LiveInit => LiveInv /\ MeaningInv
    BY LiveInitInv, InitMeaning
  <2>3. LiveInv /\ MeaningInv /\ [LiveNext]_liveVars => (LiveInv /\ MeaningInv)'
    BY <1>1, <2>1, LiveNextInv, NextMeaning
  <2>4. MeaningInv => LabelIsReadBack
    BY DEF MeaningInv, MeansIt, LabelIsReadBack
  <2>5. QED
    BY <2>2, <2>3, <2>4, PTL DEF LiveSpec
<1>2. CASE ~PlainNames
  BY <1>2
<1>3. QED
  BY <1>1, <1>2

-----------------------------------------------------------------------------
(***************************************************************************)
(* A query among the statements of others.                                  *)
(***************************************************************************)
\* What is replied when nothing is found of the set itself.
MissAnswer(q) ==
  [rrs |-> << >>,
   type |-> IF q.type = "NS" /\ RRsBelow(q) # {} THEN "NDNS-Auth" ELSE "NDNS-Nack"]

AnyKey == [zone : Name, label : Name, type : RRType]

LEMMA NoRecordsNoRows ==
  ASSUME SoundTables, NEW id
  PROVE  Records(id) = << >> <=> RowsOf(id) = {}
<1>1. AreRows(RowsOf(id)) /\ Records(id) = InOrder(RowsOf(id))
  BY RowsOfSet
<1>2. ASSUME Records(id) = << >>
      PROVE  RowsOf(id) = {}
  <2>1. Cardinality(RowsOf(id)) = 0
    <3>1. Len(<< >>) = 0
      OBVIOUS
    <3>2. QED
      BY <1>1, <1>2, <3>1, InOrderOfRows
  <2>2. QED
    BY <1>1, <2>1, FS_EmptySet DEF AreRows
<1>3. QED
  BY <1>1, <1>2, InOrderOfNone

\* The record that a view shows for a set that others are looked up below of.
Shown(key) == CHOOSE found \in Findable(key) : found # << >> \/ Findable(key) = {<< >>}

LEMMA ShownIs ==
  ASSUME SoundTables, NEW key
  PROVE  Shown(key) # << >> <=> \E data : HoldsIn(key, data)
<1>1. \E found \in Findable(key) : found # << >> \/ Findable(key) = {<< >>}
  <2>1. Findable(key) # {}
    BY DEF Findable, LastId
  <2>2. QED
    BY <2>1
<1>2. Shown(key) \in Findable(key) /\ (Shown(key) # << >> \/ Findable(key) = {<< >>})
  BY <1>1 DEF Shown
<1>3. ASSUME NEW data, HoldsIn(key, data)
      PROVE  Shown(key) # << >>
  <2>1. PICK s \in rrsets, r \in rrs : s.key = key /\ r.rrset = s.id
    BY <1>3 DEF HoldsIn
  <2>2. s.id \in LastId(SelectRRSet(key)) /\ r \in RowsOf(s.id)
    BY <2>1 DEF LastId, SelectRRSet, RowsOf
  <2>3. Records(s.id) \in Findable(key) /\ Records(s.id) # << >>
    BY <2>2, NoRecordsNoRows DEF Findable
  <2>4. QED
    BY <1>2, <2>3
<1>4. ASSUME Shown(key) # << >>
      PROVE  \E data : HoldsIn(key, data)
  <2>1. PICK id \in LastId(SelectRRSet(key)) : Shown(key) = Records(id)
    BY <1>2 DEF Findable
  <2>2. PICK r \in RowsOf(id) : TRUE
    BY <1>4, <2>1, NoRecordsNoRows
  <2>3. id # 0
    BY <2>2, NoRowsWithoutSet
  <2>4. PICK s \in rrsets : s.key = key /\ s.id = id
    BY <2>1, <2>3, LastIdOf DEF SelectRRSet
  <2>5. QED
    BY <2>2, <2>4 DEF HoldsIn, RowsOf
<1>5. QED
  BY <1>3, <1>4

\* The rows hasAuth counts are the records of the sets below.
LEMMA BelowIs ==
  ASSUME SoundTables, NEW q \in AnyKey
  PROVE  RRsBelow(q) # {} <=>
           \E key \in RRSetKey : /\ key.zone = q.zone /\ key.type = q.type
                                 /\ IsStrictlyBelow(key.label, q.label)
                                 /\ \E data : HoldsIn(key, data)
BY DEF RRsBelow, HoldsIn, SoundTables, IsRRSetTable, RRSetRow

LEMMA AnswersAre ==
  ASSUME SoundTables, NEW q \in AnyKey, NEW found \in Findable(q)
  PROVE  /\ found # << >> => [rrs |-> found, type |-> "NDNS-Resp"] \in AnswersNow(q)
         /\ found = << >> => MissAnswer(q) \in AnswersNow(q)
<1> DEFINE view == [k \in RRSetKey |-> IF k = q THEN found ELSE Shown(k)]
<1>1. view \in Views(q)
  BY DEF Views, Shown
<1>2. Answer(view, q) \in AnswersNow(q)
  BY <1>1 DEF AnswersNow
<1>3. Lookup(view, q.zone, q.label, q.type) = found
  <2>1. q = [zone |-> q.zone, label |-> q.label, type |-> q.type]
    BY DEF AnyKey
  <2>2. CASE q \in RRSetKey
    BY <2>1, <2>2 DEF Lookup
  <2>3. CASE q \notin RRSetKey
    <3>1. SelectRRSet(q) = {}
      BY <2>3 DEF SelectRRSet, SoundTables, IsRRSetTable, RRSetRow
    <3>2. found = << >>
      BY <3>1, FindableOfNoSet
    <3>3. QED
      BY <2>1, <2>3, <3>2 DEF Lookup
  <2>4. QED
    BY <2>2, <2>3
<1>4. HasAuth(view, q.zone, q.label, q.type) <=> RRsBelow(q) # {}
  <2>1. ASSUME NEW key \in RRSetKey, IsStrictlyBelow(key.label, q.label)
        PROVE  view[key] # << >> <=> \E data : HoldsIn(key, data)
    <3>1. Len(q.label) \in Nat
      BY DEF AnyKey, Name
    <3>2. key # q
      BY <2>1, <3>1 DEF IsStrictlyBelow
    <3>3. view[key] = Shown(key)
      BY <3>2
    <3>4. QED
      BY <3>3, ShownIs
  <2> HIDE DEF view
  <2>2. QED
    BY <2>1, BelowIs DEF HasAuth
<1> HIDE DEF view
<1>5. Answer(view, q) =
        [rrs |-> found,
         type |-> CASE found # << >> -> "NDNS-Resp"
                    [] found = << >> /\ q.type = "NS" /\ HasAuth(view, q.zone, q.label, "NS")
                         -> "NDNS-Auth"
                    [] OTHER -> "NDNS-Nack"]
  BY <1>3 DEF Answer
<1>6. CASE found # << >>
  <2>1. Answer(view, q) = [rrs |-> found, type |-> "NDNS-Resp"]
    BY <1>5, <1>6
  <2>2. QED
    BY <1>2, <1>6, <2>1
<1>7. CASE found = << >>
  <2>1. Answer(view, q) =
          [rrs |-> << >>,
           type |-> IF q.type = "NS" /\ HasAuth(view, q.zone, q.label, "NS")
                    THEN "NDNS-Auth" ELSE "NDNS-Nack"]
    BY <1>5, <1>7
  <2>2. q.type = "NS" => (HasAuth(view, q.zone, q.label, "NS") <=> RRsBelow(q) # {})
    BY <1>4
  <2>3. QED
    BY <1>2, <1>7, <2>1, <2>2 DEF MissAnswer
<1>8. QED
  BY <1>6, <1>7

MissIsAnswered ==
  SoundTables => \A q \in AnyKey : << >> \in Findable(q) => MissAnswer(q) \in AnswersNow(q)

LEMMA AnswerOfMiss == MissIsAnswered /\ []MissIsAnswered
<1>1. MissIsAnswered
  BY AnswersAre DEF MissIsAnswered
<1>2. QED
  BY <1>1, PTL

-----------------------------------------------------------------------------
\* What zone-delegate writes.  If it writes NS records of a set and of one
\* below in one zone, a query between its select and its count may miss the
\* former and count the latter although the former came first.
Written == {d.cert : d \in Delegation} \cup {d.sub : d \in Delegation}

NoNestedDelegations ==
  \A upper, key \in Written :
    upper.zone = key.zone /\ upper.type = "NS" /\ key.type = "NS" =>
      ~IsStrictlyBelow(key.label, upper.label)

\* A query that has found nothing of its set is answered with what is below;
\* that was right at one moment already, and a set that only the server itself
\* writes still holds nothing.
Missing(z) ==
  /\ MissAnswer(question[z]) \in seen[z]
  /\ question[z] \notin Written => << >> \in Findable(question[z])

ReplyInv(z) ==
  /\ pc[z] \in Querying => /\ question[z].zone = z
                           /\ AnswersNow(asked[z]) \subseteq seen[z]
  /\ pc[z] = "selectRRs" => foundId[z] = 0 \/ IsIdOf(foundId[z], question[z])
  /\ (pc[z] = "selectRRs" /\ foundId[z] = 0) \/ pc[z] = "hasAuth" => Missing(z)
  /\ pc[z] = "hasAuth" => question[z].type = "NS"
  /\ pc[z] = "reply" => response[z] \in seen[z]

LEMMA WatchSees ==
  ASSUME Watch, NEW z \in Server, pc'[z] \in Querying
  PROVE  /\ AnswersNow(asked[z])' \subseteq seen'[z]
         /\ pc[z] # "idle" => seen[z] \subseteq seen'[z]
<1>1. seen'[z] = (CASE pc'[z] \notin Querying -> {}
                    [] pc'[z] = "lookupIds" /\ pc[z] = "idle" -> AnswersNow(asked[z])'
                    [] OTHER -> seen[z] \cup AnswersNow(asked[z])')
  BY DEF Watch
<1>2. CASE pc'[z] = "lookupIds" /\ pc[z] = "idle"
  BY <1>1, <1>2
<1>3. CASE ~(pc'[z] = "lookupIds" /\ pc[z] = "idle")
  BY <1>1, <1>3
<1>4. QED
  BY <1>2, <1>3

LEMMA QuestionType ==
  ASSUME LiveInv, NEW z \in Server
  PROVE  question[z] \in AnyKey
<1>1. NoQuestion \in AnyKey
  <2>1. << >> \in Name /\ "NS" \in RRType
    BY EmptySeq DEF Name, RRType
  <2>2. QED
    BY <2>1 DEF NoQuestion, AnyKey
<1>2. [zone : {z}, label : Name, type : RRType] \subseteq AnyKey
  BY DyndnsMgrAssumption DEF AnyKey
<1>3. QED
  BY <1>1, <1>2 DEF LiveInv, QueriesInv

LEMMA SameTables ==
  ASSUME UNCHANGED <<rrsets, rrs>>, NEW q
  PROVE  /\ Findable(q)' = Findable(q) /\ MissAnswer(q)' = MissAnswer(q)
         /\ AnswersNow(q)' = AnswersNow(q)
         /\ \A id : IsIdOf(id, q)' <=> IsIdOf(id, q)
<1>1. \A key : Findable(key)' = Findable(key)
  BY DEF Findable, SelectRRSet, LastId, Records
<1>2. MissAnswer(q)' = MissAnswer(q)
  BY DEF MissAnswer, RRsBelow
<1>3. AnswersNow(q)' = AnswersNow(q)
  BY <1>1 DEF AnswersNow, Views
<1>4. QED
  BY <1>1, <1>2, <1>3 DEF IsIdOf

LEMMA LookupIdsReplies ==
  ASSUME LiveInv, MeaningInv, NEW z \in Server, ReplyInv(z), LookupIds(z), Watch
  PROVE  ReplyInv(z)'
<1>1. PICK q \in AnyKey : q = question[z] /\ q = asked[z]
  BY QuestionType DEF LookupIds, MeaningInv, MeansIt, Querying, QueryStatement
<1>2. PICK id \in LastId(SelectRRSet(q)) : foundId' = [foundId EXCEPT ![z] = id]
  BY <1>1 DEF LookupIds
<1>3. /\ pc[z] = "lookupIds" /\ pc'[z] = "selectRRs" /\ foundId'[z] = id
      /\ UNCHANGED <<rrsets, rrs, question>>
  BY <1>2 DEF LookupIds, GoTo, LiveInv, QueriesInv
<1>4. {"lookupIds", "selectRRs"} \subseteq Querying
  BY DEF Querying, QueryStatement
<1>5. AnswersNow(q) \subseteq seen[z] /\ q.zone = z
  BY <1>1, <1>3, <1>4 DEF ReplyInv
<1>6. AnswersNow(asked[z])' \subseteq seen'[z] /\ seen[z] \subseteq seen'[z]
  BY <1>3, <1>4, WatchSees
<1>7. id # 0 => IsIdOf(id, q)
  BY LastIdOf DEF SelectRRSet, IsIdOf
<1>8. id = 0 => MissAnswer(q) \in AnswersNow(q) /\ << >> \in Findable(q)
  <2>1. id = 0 => SelectRRSet(q) = {}
    BY LastIdOf DEF SelectRRSet, LiveInv, SoundTables, IsRRSetTable, RRSetRow
  <2>2. id = 0 => << >> \in Findable(q)
    BY <2>1, FindableOfNoSet DEF LiveInv
  <2>3. QED
    BY <2>2, AnswersAre DEF LiveInv
<1>9. id = 0 => MissAnswer(q)' \in seen'[z] /\ << >> \in Findable(q)'
  BY <1>3, <1>5, <1>6, <1>8, SameTables
<1>10. id # 0 => IsIdOf(id, q)'
  BY <1>3, <1>7, SameTables
<1>11. id = 0 => Missing(z)'
  BY <1>1, <1>3, <1>9 DEF Missing
<1>12. id # 0 => IsIdOf(foundId[z], question[z])'
  BY <1>1, <1>3, <1>10
<1>13. QED
  BY <1>1, <1>3, <1>5, <1>6, <1>11, <1>12 DEF ReplyInv

LEMMA SelectRRsReplies ==
  ASSUME LiveInv, MeaningInv, NEW z \in Server, ReplyInv(z), SelectRRs(z), Watch
  PROVE  ReplyInv(z)'
<1>1. PICK q \in AnyKey : q = question[z] /\ q = asked[z]
  BY QuestionType DEF SelectRRs, MeaningInv, MeansIt, Querying, QueryStatement
<1>2. PICK records : records = Records(foundId[z])
  OBVIOUS
<1>3. pc[z] = "selectRRs" /\ UNCHANGED <<rrsets, rrs, question, foundId>>
  BY DEF SelectRRs
<1>4. \/ records # << >> /\ Respond(z, "NDNS-Resp", records)
      \/ records = << >> /\ q.type # "NS" /\ Respond(z, "NDNS-Nack", << >>)
      \/ records = << >> /\ q.type = "NS" /\ GoTo(z, "hasAuth")
  BY <1>1, <1>2 DEF SelectRRs
<1>5. /\ pc'[z] \in {"hasAuth", "reply"}
      /\ pc'[z] = "hasAuth" => records = << >> /\ q.type = "NS"
      /\ pc'[z] = "reply" /\ records # << >> =>
           response'[z] = [rrs |-> records, type |-> "NDNS-Resp"]
      /\ pc'[z] = "reply" /\ records = << >> =>
           q.type # "NS" /\ response'[z] = [rrs |-> << >>, type |-> "NDNS-Nack"]
  BY <1>4 DEF Respond, GoTo, LiveInv, QueriesInv
<1>6. {"selectRRs", "hasAuth", "reply"} \subseteq Querying
  BY DEF Querying, QueryStatement
<1>7. AnswersNow(q) \subseteq seen[z] /\ q.zone = z
  BY <1>1, <1>3, <1>6 DEF ReplyInv
<1>8. AnswersNow(asked[z])' \subseteq seen'[z] /\ seen[z] \subseteq seen'[z]
  BY <1>3, <1>5, <1>6, WatchSees
<1>9. foundId[z] # 0 => records \in Findable(q)
  <2>1. foundId[z] # 0 => foundId[z] \in LastId(SelectRRSet(q))
    BY <1>1, <1>3 DEF ReplyInv, IsIdOf, LastId, SelectRRSet
  <2>2. QED
    BY <1>2, <2>1 DEF Findable
<1>10. foundId[z] = 0 => records = << >>
  BY <1>2, NoRowsWithoutSet DEF LiveInv
<1>11. records = << >> => /\ MissAnswer(q) \in seen[z]
                          /\ q \notin Written => << >> \in Findable(q)
  <2>1. CASE foundId[z] = 0
    BY <1>1, <1>3, <2>1 DEF ReplyInv, Missing
  <2>2. CASE foundId[z] # 0
    BY <1>7, <1>9, <2>2, AnswersAre DEF LiveInv
  <2>3. QED
    BY <2>1, <2>2
<1>12. records = << >> => Missing(z)'
  <2>1. records = << >> => /\ MissAnswer(q)' \in seen'[z]
                           /\ q \notin Written => << >> \in Findable(q)'
    BY <1>3, <1>8, <1>11, SameTables
  <2>2. QED
    BY <1>1, <1>3, <2>1 DEF Missing, Written
<1>13. pc'[z] = "reply" => response'[z] \in seen'[z]
  <2>1. CASE records # << >>
    <3>1. [rrs |-> records, type |-> "NDNS-Resp"] \in AnswersNow(q)
      BY <1>9, <1>10, <2>1, AnswersAre DEF LiveInv
    <3>2. QED
      BY <1>5, <1>7, <1>8, <2>1, <3>1
  <2>2. CASE records = << >>
    <3>1. q.type # "NS" => MissAnswer(q) = [rrs |-> << >>, type |-> "NDNS-Nack"]
      BY DEF MissAnswer
    <3>2. QED
      BY <1>5, <1>8, <1>11, <2>2, <3>1
  <2>3. QED
    BY <2>1, <2>2
<1>14. pc'[z] = "hasAuth" => question'[z].type = "NS" /\ Missing(z)'
  BY <1>1, <1>3, <1>5, <1>12
<1>15. QED
  BY <1>1, <1>3, <1>5, <1>7, <1>8, <1>13, <1>14 DEF ReplyInv

LEMMA CountAuthReplies ==
  ASSUME LiveInv, MeaningInv, NEW z \in Server, ReplyInv(z), CountAuth(z), Watch
  PROVE  ReplyInv(z)'
<1>1. pc[z] = "hasAuth" /\ question' = question
  BY DEF CountAuth
<1>2. pc'[z] = "reply" /\ response'[z] = MissAnswer(question[z])
  <2>1. question[z].type = "NS"
    BY <1>1 DEF ReplyInv
  <2>2. QED
    BY <2>1 DEF CountAuth, Respond, GoTo, MissAnswer, LiveInv, QueriesInv
<1>3. {"hasAuth", "reply"} \subseteq Querying
  BY DEF Querying, QueryStatement
<1>4. AnswersNow(asked[z])' \subseteq seen'[z] /\ seen[z] \subseteq seen'[z]
  BY <1>1, <1>2, <1>3, WatchSees
<1>5. question'[z].zone = z /\ MissAnswer(question[z]) \in seen[z]
  BY <1>1, <1>3 DEF ReplyInv, Missing
<1>6. QED
  BY <1>2, <1>4, <1>5 DEF ReplyInv

-----------------------------------------------------------------------------
\* What a step of others may not do to the set q under a query's feet.
Undisturbed(q) ==
  /\ \A id : IsIdOf(id, q) => IsIdOf(id, q)'
  /\ q \notin Written /\ << >> \in Findable(q) => << >> \in Findable(q)'
  /\ RRsBelow(q) # {} => RRsBelow(q)' # {}
  /\ q.type = "NS" /\ RRsBelow(q) = {} /\ RRsBelow(q)' # {} => q \notin Written

LEMMA StaysReplies ==
  ASSUME LiveInv, LiveInv', MeaningInv, NEW z \in Server, ReplyInv(z), Watch,
         pc'[z] = pc[z], question'[z] = question[z], foundId'[z] = foundId[z],
         response'[z] = response[z], asked'[z] = asked[z],
         pc[z] \in Querying => \A q \in AnyKey : q = question[z] => Undisturbed(q)
  PROVE  ReplyInv(z)'
<1>1. CASE pc[z] \notin Querying
  <2>1. {"selectRRs", "hasAuth", "reply"} \subseteq Querying
    BY DEF Querying, QueryStatement
  <2>2. QED
    BY <1>1, <2>1 DEF ReplyInv
<1>2. CASE pc[z] \in Querying
  <2>1. PICK q \in AnyKey : q = question[z] /\ q = asked[z]
    BY <1>2, QuestionType DEF MeaningInv, MeansIt
  <2>2. Undisturbed(q)
    BY <1>2, <2>1
  <2>3. AnswersNow(asked[z])' \subseteq seen'[z] /\ seen[z] \subseteq seen'[z]
    <3>1. "idle" \notin Querying
      BY DEF Querying, QueryStatement
    <3>2. QED
      BY <1>2, <3>1, WatchSees
  <2>4. AnswersNow(q)' \subseteq seen'[z]
    BY <2>1, <2>3
  <2>5. ASSUME Missing(z)
        PROVE  Missing(z)'
    <3>1. MissAnswer(q) \in seen[z] /\ (q \notin Written => << >> \in Findable(q))
      BY <2>1, <2>5 DEF Missing
    <3>2. q \notin Written => << >> \in Findable(q)'
      BY <2>2, <3>1 DEF Undisturbed
    <3>3. MissAnswer(q)' \in seen'[z]
      <4>1. CASE q.type = "NS" => (RRsBelow(q)' # {} <=> RRsBelow(q) # {})
        <5>1. MissAnswer(q)' = MissAnswer(q)
          BY <4>1 DEF MissAnswer
        <5>2. QED
          BY <2>3, <3>1, <5>1
      <4>2. CASE q.type = "NS" /\ RRsBelow(q) = {} /\ RRsBelow(q)' # {}
        <5>1. << >> \in Findable(q)'
          BY <2>2, <3>2, <4>2 DEF Undisturbed
        <5>2. MissIsAnswered'
          BY AnswerOfMiss, PTL
        <5>3. SoundTables'
          BY DEF LiveInv
        <5>4. (\A k \in AnyKey : << >> \in Findable(k) => MissAnswer(k) \in AnswersNow(k))'
          BY <5>2, <5>3 DEF MissIsAnswered
        <5>5. (<< >> \in Findable(q) => MissAnswer(q) \in AnswersNow(q))'
          BY <5>4 DEF AnyKey
        <5>6. QED
          BY <2>4, <5>1, <5>5
      <4>3. QED
        BY <2>2, <4>1, <4>2 DEF Undisturbed
    <3>4. QED
      BY <2>1, <3>2, <3>3 DEF Missing, Written
  <2>6. IsIdOf(foundId[z], question[z]) => IsIdOf(foundId[z], question[z])'
    <3>1. PICK id : id = foundId[z]
      OBVIOUS
    <3>2. IsIdOf(id, q) => IsIdOf(id, q)'
      BY <2>2 DEF Undisturbed
    <3>3. QED
      BY <2>1, <3>1, <3>2
  <2>7. QED
    BY <1>2, <2>3, <2>5, <2>6 DEF ReplyInv
<1>3. QED
  BY <1>1, <1>2

LEMMA QuietIsUndisturbing ==
  ASSUME UNCHANGED <<rrsets, rrs>>, NEW q
  PROVE  Undisturbed(q)
<1>1. RRsBelow(q)' = RRsBelow(q)
  BY DEF RRsBelow
<1>2. QED
  BY <1>1, SameTables DEF Undisturbed

\* A server of another zone.
LEMMA ServerIsUndisturbing ==
  ASSUME SoundTables, SoundTables', ServersInv, NEW y \in Server, RemovalInv(y), ServerStep(y),
         NEW q, q.zone # y
  PROVE  Undisturbed(q)
<1>1. request[y].key.zone = y
  BY DEF ServersInv, ServerInv
<1>2. ASSUME NEW key, key.zone = q.zone
      PROVE  /\ SelectRRSet(key)' = SelectRRSet(key)
             /\ \A id : IsIdOf(id, key) => RowsOf(id)' = RowsOf(id)
             /\ Findable(key)' = Findable(key)
  <2>1. key # request[y].key
    BY <1>1, <1>2
  <2>2. QED
    BY <2>1, ServerKeepsOthers
<1>3. \A id : IsIdOf(id, q) => IsIdOf(id, q)'
  <2>1. SelectRRSet(q)' = SelectRRSet(q)
    BY <1>2
  <2>2. QED
    BY <2>1 DEF SelectRRSet, IsIdOf
<1>4. ASSUME NEW r \in RRsBelow(q)
      PROVE  r \in RRsBelow(q)'
  <2>1. PICK s \in rrsets : /\ s.id = r.rrset /\ s.key.zone = q.zone /\ s.key.type = q.type
                            /\ IsStrictlyBelow(s.key.label, q.label)
    BY <1>4 DEF RRsBelow
  <2>2. IsIdOf(s.id, s.key) /\ s \in SelectRRSet(s.key) /\ r \in RowsOf(s.id)
    BY <1>4, <2>1 DEF IsIdOf, SelectRRSet, RowsOf, RRsBelow
  <2>3. s \in SelectRRSet(s.key)' /\ r \in RowsOf(s.id)'
    BY <1>2, <2>1, <2>2
  <2>4. QED
    BY <2>1, <2>3 DEF SelectRRSet, RowsOf, RRsBelow
<1>5. ASSUME NEW r \in RRsBelow(q)'
      PROVE  r \in RRsBelow(q)
  <2>1. PICK s \in rrsets' : /\ s.id = r.rrset /\ s.key.zone = q.zone /\ s.key.type = q.type
                             /\ IsStrictlyBelow(s.key.label, q.label)
    BY <1>5 DEF RRsBelow
  <2>2. s \in SelectRRSet(s.key)' /\ r \in RowsOf(s.id)'
    BY <1>5, <2>1 DEF SelectRRSet, RowsOf, RRsBelow
  <2>3. s \in SelectRRSet(s.key)
    BY <1>2, <2>1, <2>2
  <2>4. IsIdOf(s.id, s.key)
    BY <2>3 DEF SelectRRSet, IsIdOf
  <2>5. r \in RowsOf(s.id)
    BY <1>2, <2>1, <2>2, <2>4
  <2>6. QED
    BY <2>1, <2>3, <2>5 DEF SelectRRSet, RowsOf, RRsBelow
<1>6. Findable(q)' = Findable(q)
  BY <1>2
<1>7. QED
  BY <1>3, <1>4, <1>5, <1>6 DEF Undisturbed

LEMMA ToolIsUndisturbing ==
  ASSUME NoNestedDelegations, SoundTables, SoundTables', ToolsInv,
         NEW d \in Delegation, ToolStep(d), NEW q \in AnyKey
  PROVE  Undisturbed(q)
<1>1. rrsets \subseteq rrsets'
  BY ToolStepInv DEF ToolStep
<1>2. d.cert \in Written /\ d.sub \in Written
  BY DEF Written
<1>3. q \notin Written => Findable(q)' = Findable(q)
  BY <1>2, ToolKeepsOthers
<1>4. ASSUME RRsBelow(q) # {}
      PROVE  RRsBelow(q)' # {}
  <2>1. PICK r \in rrs, s \in rrsets :
          /\ s.id = r.rrset /\ s.key.zone = q.zone /\ s.key.type = q.type
          /\ IsStrictlyBelow(s.key.label, q.label)
    BY <1>4 DEF RRsBelow
  <2>2. PICK key, data : key = s.key /\ data = r.data
    OBVIOUS
  <2>3. HoldsIn(key, data)'
    <3>1. HoldsIn(key, data)
      BY <2>1, <2>2 DEF HoldsIn
    <3>2. QED
      BY <3>1, ToolKeepsRecords
  <2>4. QED
    BY <2>1, <2>2, <2>3 DEF HoldsIn, RRsBelow
<1>5. ASSUME q.type = "NS", RRsBelow(q) = {}, RRsBelow(q)' # {}
      PROVE  q \notin Written
  <2>1. PICK r \in rrs', s \in rrsets' :
          /\ s.id = r.rrset /\ s.key.zone = q.zone /\ s.key.type = q.type
          /\ IsStrictlyBelow(s.key.label, q.label)
    BY <1>5 DEF RRsBelow
  <2>2. ASSUME s.key # d.cert, s.key # d.sub
        PROVE  r \in RRsBelow(q)
    <3>1. s \in SelectRRSet(s.key)' /\ r \in RowsOf(s.id)'
      BY <2>1 DEF SelectRRSet, RowsOf
    <3>2. s \in SelectRRSet(s.key)
      BY <2>2, <3>1, ToolKeepsOthers
    <3>3. IsIdOf(s.id, s.key)
      BY <3>2 DEF SelectRRSet, IsIdOf
    <3>4. r \in RowsOf(s.id)
      BY <2>2, <3>1, <3>3, ToolKeepsOthers
    <3>5. QED
      BY <2>1, <3>2, <3>4 DEF SelectRRSet, RowsOf, RRsBelow
  <2>3. s.key \in Written
    BY <1>2, <1>5, <2>2
  <2>4. QED
    BY <1>5, <2>1, <2>3 DEF NoNestedDelegations
<1>6. QED
  BY <1>1, <1>3, <1>4, <1>5 DEF Undisturbed, IsIdOf

-----------------------------------------------------------------------------
RepliesInv == \A z \in Server : ReplyInv(z)

LEMMA NoQueryNoReply ==
  ASSUME NEW z \in Server, pc'[z] \notin Querying
  PROVE  ReplyInv(z)'
<1>1. {"selectRRs", "hasAuth", "reply"} \subseteq Querying
  BY DEF Querying, QueryStatement
<1>2. QED
  BY <1>1 DEF ReplyInv

LEMMA InitReplies == LiveInit => RepliesInv
BY DEF LiveInit, Init, ServerInit, RepliesInv, ReplyInv, Querying, QueryStatement

\* The step of one server leaves the queries of the others where they are.
LEMMA OthersStay ==
  ASSUME LiveInv, LiveInv', MeaningInv, RepliesInv, Watch, NEW y \in Server,
         NEW next, pc' = [pc EXCEPT ![y] = next],
         \A z \in Server \ {y} :
           /\ question'[z] = question[z] /\ foundId'[z] = foundId[z]
           /\ response'[z] = response[z] /\ asked'[z] = asked[z]
           /\ pc[z] \in Querying => \A q \in AnyKey : q = question[z] => Undisturbed(q),
         ReplyInv(y)'
  PROVE  RepliesInv'
<1>1. ASSUME NEW z \in Server \ {y}
      PROVE  ReplyInv(z)'
  <2>1. pc'[z] = pc[z] /\ ReplyInv(z)
    BY DEF LiveInv, RepliesInv
  <2>2. QED
    BY <2>1, StaysReplies
<1>2. QED
  BY <1>1 DEF RepliesInv

\* The handler is left, or the server starts again.
LEMMA LeaveReplies ==
  ASSUME LiveInv, LiveInv', MeaningInv, RepliesInv, Watch, NEW y \in Server,
         NEW label \in {"idle", "down"}, Leave(y, label),
         \/ UNCHANGED queryVars
         \/ /\ question' = [question EXCEPT ![y] = NoQuestion]
            /\ foundId' = [foundId EXCEPT ![y] = 0]
            /\ response' = [response EXCEPT ![y] = InitialResponse],
         UNCHANGED asked \/ ForgetAsked(y)
  PROVE  RepliesInv'
<1>1. pc' = [pc EXCEPT ![y] = label] /\ UNCHANGED <<rrsets, rrs>>
  BY DEF Leave, GoTo
<1>2. ReplyInv(y)'
  <2>1. pc'[y] \notin Querying
    BY <1>1 DEF LiveInv, Querying, QueryStatement
  <2>2. QED
    BY <2>1, NoQueryNoReply
<1>3. ASSUME NEW z \in Server \ {y}
      PROVE  /\ question'[z] = question[z] /\ foundId'[z] = foundId[z]
             /\ response'[z] = response[z] /\ asked'[z] = asked[z]
  <2>1. /\ question'[z] = question[z] /\ foundId'[z] = foundId[z]
        /\ response'[z] = response[z]
    BY DEF queryVars, LiveInv, QueriesInv
  <2>2. asked'[z] = asked[z]
    BY DEF ForgetAsked, MeaningInv
  <2>3. QED
    BY <2>1, <2>2
<1>4. \A q \in AnyKey : Undisturbed(q)
  BY <1>1, QuietIsUndisturbing
<1>5. QED
  BY <1>1, <1>2, <1>3, <1>4, OthersStay

LEMMA HearReplies ==
  ASSUME LiveInv, LiveInv', MeaningInv, RepliesInv, Watch, NEW y \in Server, Hear(y)
  PROVE  RepliesInv'
<1>1. ASSUME UNCHANGED <<rrsets, rrs>>
      PROVE  \A q \in AnyKey : Undisturbed(q)
  BY <1>1, QuietIsUndisturbing
<1>2. ASSUME NEW q \in Question, HearQuery(y, q)
      PROVE  RepliesInv'
  <2>1. PICK key : ReceiveQuery(y, key)
    BY <1>2 DEF HearQuery
  <2>2. /\ pc' = [pc EXCEPT ![y] = "lookupIds"] /\ UNCHANGED <<rrsets, rrs, foundId, response>>
        /\ question' = [question EXCEPT ![y] = key] /\ key.zone = y
        /\ asked' = [asked EXCEPT ![y] = KeyFor(q.zone, q)]
    BY <1>2, <2>1 DEF HearQuery, ReceiveQuery, GoTo
  <2>3. ReplyInv(y)'
    <3>1. pc'[y] = "lookupIds" /\ question'[y].zone = y
      BY <2>2 DEF LiveInv, QueriesInv
    <3>2. "lookupIds" \in Querying
      BY DEF Querying, QueryStatement
    <3>3. AnswersNow(asked[y])' \subseteq seen'[y]
      BY <3>1, <3>2, WatchSees
    <3>4. QED
      BY <3>1, <3>3 DEF ReplyInv
  <2>4. \A z \in Server \ {y} :
           /\ question'[z] = question[z] /\ foundId'[z] = foundId[z]
           /\ response'[z] = response[z] /\ asked'[z] = asked[z]
    BY <2>2 DEF LiveInv, QueriesInv, MeaningInv
  <2>5. QED
    BY <1>1, <2>2, <2>3, <2>4, OthersStay
<1>3. ASSUME NEW r \in Request, HearUpdate(y, r), UNCHANGED queryVars
      PROVE  RepliesInv'
  <2>1. /\ pc' = [pc EXCEPT ![y] = "lookupRRSet"] /\ UNCHANGED <<rrsets, rrs>>
        /\ asked' = [asked EXCEPT ![y] = r.key]
    BY <1>3 DEF HearUpdate, ReceiveUpdate, Receive, GoTo
  <2>2. ReplyInv(y)'
    <3>1. pc'[y] \notin Querying
      BY <2>1 DEF LiveInv, Querying, QueryStatement
    <3>2. QED
      BY <3>1, NoQueryNoReply
  <2>3. \A z \in Server \ {y} :
           /\ question'[z] = question[z] /\ foundId'[z] = foundId[z]
           /\ response'[z] = response[z] /\ asked'[z] = asked[z]
    BY <1>3, <2>1 DEF queryVars, MeaningInv
  <2>4. QED
    BY <1>1, <2>1, <2>2, <2>3, OthersStay
<1>4. QED
  BY <1>2, <1>3 DEF Hear

LEMMA ExecuteQueryReplies ==
  ASSUME LiveInv, LiveInv', MeaningInv, RepliesInv, Watch, NEW y \in Server, ExecuteQuery(y)
  PROVE  RepliesInv'
<1>1. ForgetAsked(y)
  BY DEF ExecuteQuery
<1>2. CASE LookupIds(y) \/ SelectRRs(y) \/ CountAuth(y)
  <2>1. PICK next : pc' = [pc EXCEPT ![y] = next]
    BY <1>2 DEF LookupIds, SelectRRs, CountAuth, Respond, GoTo
  <2>2. ReplyInv(y) /\ UNCHANGED <<rrsets, rrs>>
    BY <1>2 DEF RepliesInv, LookupIds, SelectRRs, CountAuth
  <2>3. ReplyInv(y)'
    BY <1>2, <2>2, LookupIdsReplies, SelectRRsReplies, CountAuthReplies
  <2>4. \A z \in Server \ {y} :
           /\ question'[z] = question[z] /\ foundId'[z] = foundId[z]
           /\ response'[z] = response[z]
    BY <1>2 DEF LookupIds, SelectRRs, CountAuth, Respond, LiveInv, QueriesInv
  <2>5. \A z \in Server \ {y} : asked'[z] = asked[z]
    BY <1>1 DEF ForgetAsked, MeaningInv
  <2>6. \A q \in AnyKey : Undisturbed(q)
    BY <2>2, QuietIsUndisturbing
  <2>7. QED
    BY <2>1, <2>3, <2>4, <2>5, <2>6, OthersStay
<1>3. CASE Reply(y)
  BY <1>1, <1>3, LeaveReplies DEF Reply
<1>4. QED
  BY <1>2, <1>3 DEF ExecuteQuery

LEMMA ExecuteUpdateReplies ==
  ASSUME ServersApart, LiveInv, LiveInv', MeaningInv, DeletionsInv, RepliesInv, Watch,
         NEW y \in Server, ExecuteUpdate(y)
  PROVE  RepliesInv'
<1>1. ForgetAsked(y) /\ UNCHANGED queryVars
  BY DEF ExecuteUpdate
<1>2. CASE ServerStep(y)
  <2>1. PICK next \in PC : pc' = [pc EXCEPT ![y] = next]
    BY <1>2, ServerStepPC DEF LiveInv
  <2>2. ReplyInv(y)'
    <3>1. pc'[y] \notin Querying
      BY <2>1, QueryingIsApart DEF LiveInv
    <3>2. QED
      BY <3>1, NoQueryNoReply
  <2>3. \A z \in Server \ {y} :
           /\ question'[z] = question[z] /\ foundId'[z] = foundId[z]
           /\ response'[z] = response[z] /\ asked'[z] = asked[z]
    BY <1>1 DEF queryVars, ForgetAsked, MeaningInv
  <2>4. ASSUME NEW z \in Server \ {y}, pc[z] \in Querying, NEW q \in AnyKey, q = question[z]
        PROVE  Undisturbed(q)
    <3>1. RemovalInv(y)
      BY DEF ServersApart, DeletionsInv, RemovalsInv
    <3>2. q.zone # y
      BY <2>4 DEF RepliesInv, ReplyInv
    <3>3. QED
      BY <1>2, <3>1, <3>2, ServerIsUndisturbing DEF LiveInv
  <2>5. QED
    BY <2>1, <2>2, <2>3, <2>4, OthersStay
<1>3. CASE AnswerUpdate(y)
  BY <1>1, <1>3, LeaveReplies DEF AnswerUpdate, Answered
<1>4. QED
  BY <1>2, <1>3 DEF ExecuteUpdate

LEMMA NextReplies ==
  ASSUME NoNestedDelegations, ServersApart, LiveInv, LiveInv', MeaningInv, DeletionsInv,
         RepliesInv, [LiveNext]_liveVars
  PROVE  RepliesInv'
<1>1. CASE UNCHANGED liveVars
  <2>1. ASSUME NEW z \in Server
        PROVE  ReplyInv(z)'
    <3>1. PICK q, a : q = question[z] /\ a = asked[z]
      OBVIOUS
    <3>2. UNCHANGED <<rrsets, rrs, pc, question, foundId, response, asked, seen>>
      BY <1>1 DEF liveVars, vars, serverVars, queryVars
    <3>3. AnswersNow(a)' = AnswersNow(a) /\ MissAnswer(q)' = MissAnswer(q)
          /\ Findable(q)' = Findable(q) /\ \A id : IsIdOf(id, q)' <=> IsIdOf(id, q)
      BY <3>2, SameTables
    <3>4. AnswersNow(asked[z])' = AnswersNow(asked[z])
          /\ (IsIdOf(foundId[z], question[z])' <=> IsIdOf(foundId[z], question[z]))
          /\ (Missing(z)' <=> Missing(z))
      BY <3>1, <3>2, <3>3 DEF Missing, Written
    <3>5. QED
      BY <3>2, <3>4 DEF RepliesInv, ReplyInv
  <2>2. QED
    BY <2>1 DEF RepliesInv
<1>2. CASE LiveNext
  <2>1. Watch
    BY <1>2 DEF LiveNext
  <2>2. ASSUME NEW y \in Server, Hear(y) \/ ExecuteQuery(y) \/ ExecuteUpdate(y)
        PROVE  RepliesInv'
    BY <2>1, <2>2, HearReplies, ExecuteQueryReplies, ExecuteUpdateReplies
  <2>3. ASSUME NEW y \in Server, End(y)
        PROVE  RepliesInv'
    BY <2>1, <2>3, LeaveReplies DEF End, StatementFails, QueryFails, Crash, Dies
  <2>4. ASSUME NEW y \in Server, Restart(y), UNCHANGED <<queryVars, asked>>
        PROVE  RepliesInv'
    BY <2>1, <2>4, LeaveReplies DEF Restart
  <2>5. ASSUME NEW d \in Delegation, ToolStep(d) \/ ToolCrash(d), UNCHANGED <<queryVars, asked>>
        PROVE  RepliesInv'
    <3>1. UNCHANGED <<pc, question, foundId, response, asked>>
      BY <2>5 DEF ToolStep, ToolCrash, serverVars, queryVars
    <3>2. ASSUME NEW q \in AnyKey
          PROVE  Undisturbed(q)
      <4>1. CASE ToolStep(d)
        BY <4>1, ToolIsUndisturbing DEF LiveInv
      <4>2. CASE ToolCrash(d)
        BY <4>2, QuietIsUndisturbing DEF ToolCrash
      <4>3. QED
        BY <2>5, <4>1, <4>2
    <3>3. QED
      BY <2>1, <3>1, <3>2, StaysReplies DEF RepliesInv
  <2>6. QED
    BY <1>2, <2>2, <2>3, <2>4, <2>5 DEF LiveNext, Others
<1>3. QED
  BY <1>1, <1>2

\* What NameServer::onInterest replies to a query is what the database said, at
\* one moment while it was executed, of the set its client meant, for every
\* number of servers and delegations at work on the file: the three statements
\* may be taken for one.
THEOREM RepliesAreOfAMoment ==
  PlainNames /\ ServersApart /\ NoNestedDelegations /\ LiveSpec => []ReplyIsOfAMoment
<1>1. CASE PlainNames /\ ServersApart /\ NoNestedDelegations
  <2>1. HeardKeysExist
    BY <1>1, PlainKeysExist
  <2>2. LiveInit => LiveInv /\ MeaningInv /\ DeletionsInv /\ RepliesInv
    BY LiveInitInv, InitMeaning, InitDeletions, InitReplies
  <2>3. LiveInv /\ MeaningInv /\ DeletionsInv /\ RepliesInv /\ [LiveNext]_liveVars =>
          (LiveInv /\ MeaningInv /\ DeletionsInv /\ RepliesInv)'
    BY <1>1, <2>1, LiveNextInv, NextMeaning, NextDeletions, NextReplies
  <2>4. RepliesInv => ReplyIsOfAMoment
    BY DEF RepliesInv, ReplyInv, ReplyIsOfAMoment
  <2>5. QED
    BY <2>2, <2>3, <2>4, PTL DEF LiveSpec
<1>2. CASE ~(PlainNames /\ ServersApart /\ NoNestedDelegations)
  BY <1>2
<1>3. QED
  BY <1>1, <1>2

=============================================================================
