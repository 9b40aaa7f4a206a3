---------------------------- MODULE NameDig_proofs ----------------------------
(***************************************************************************)
(* Proofs about dig: what it prints is an answer to its own question, for   *)
(* every set of digs and questions, tries, stubs, databases and faults.     *)
(***************************************************************************)
EXTENDS NameDig, NameCachingResolver_proofs, NamePatterns_proofs

\* The names dig is called with and the resolver's: a component may end in a
\* marker, as OpenDNS does, but none is a marker, a type or the mark of a hint
\* itself.  Without it the Data for another question can extend an Interest:
\* /a/TXT/b of type TXT is an answer for /a, and /Open/DNS/sim is read as /sim.
DistinctiveNames ==
  /\ \A i \in DOMAIN ResolverName :
       Ending[ResolverName[i]] = "" /\ ResolverName[i] # HintMark
  /\ \A w \in DigQuestion : \A i \in DOMAIN w.label :
       /\ w.label[i] \notin Marker \cup AnyType \cup {HintMark}
       /\ \A j \in DOMAIN Stem[w.label[i]] : Stem[w.label[i]][j] \notin AnyType

-----------------------------------------------------------------------------
(***************************************************************************)
(* What the names of Interests and Data have in common.                     *)
(***************************************************************************)
\* Data extend an Interest: the same components, as far as it goes.
LEMMA ExtendsName ==
  ASSUME NEW name \in Name, NEW start \in Name, GetPrefix(name, Len(start)) = start
  PROVE  /\ Len(start) \in Nat /\ Len(name) \in Nat /\ Len(start) <= Len(name)
         /\ \A j \in 1 .. Len(start) : start[j] = name[j]
<1>1. PICK n \in Nat, k \in Nat : n = Len(name) /\ k = Len(start)
  BY LenProperties DEF Name
<1>2. PICK e \in Nat : e = AtMost(k, n) /\ e <= n /\ e <= k
  BY DEF AtMost
<1>3. /\ Len(SubSeq(name, 1, e)) = IF 1 <= e THEN e - 1 + 1 ELSE 0
      /\ \A j \in 1 .. e - 1 + 1 : SubSeq(name, 1, e)[j] = name[1 + j - 1]
  BY <1>1, <1>2, PieceOfName, 1 \in Nat \ {0}
<1>4. SubSeq(name, 1, e) = start
  BY <1>1, <1>2 DEF GetPrefix
<1>5. k = e
  BY <1>1, <1>2, <1>3, <1>4
<1>6. \A j \in 1 .. k : start[j] = name[j]
  <2> SUFFICES ASSUME NEW j \in 1 .. k PROVE start[j] = name[j]
    OBVIOUS
  <2>1. j \in 1 .. e - 1 + 1 /\ 1 + j - 1 = j
    BY <1>5
  <2>2. QED
    BY <1>3, <1>4, <2>1
<1>7. QED
  BY <1>1, <1>2, <1>5, <1>6

\* The fields dig writes into its Interest.
Fields0(w) == [hint |-> << >>, zone |-> ResolverName, queryType |-> "DNS-R",
               label |-> w.label, type |-> w.type]

MarkerPlace == Len(ResolverName) + 1

\* The Interest of a dig, component by component.
LEMMA InterestIs ==
  ASSUME NEW w \in DigQuestion
  PROVE  LET name == ToInterest(w)
             p == MarkerPlace
             n == Len(w.label) IN
         /\ Fields0(w) \in QueryFields
         /\ name \in Name /\ p \in Nat \ {0} /\ n \in Nat /\ Len(ResolverName) = p - 1
         /\ Len(name) = p + n + 1 /\ DOMAIN name = 1 .. p + n + 1
         /\ DOMAIN ResolverName = 1 .. p - 1 /\ DOMAIN w.label = 1 .. n
         /\ \A j \in 1 .. p - 1 : name[j] = ResolverName[j]
         /\ name[p] = "DNS-R"
         /\ \A j \in 1 .. n : name[p + j] = w.label[j]
         /\ name[p + n + 1] = w.type
         /\ w.type \in AnyType /\ w.label \in Name
<1> DEFINE q == Fields0(w)
           name == ToInterest(w)
           p == MarkerPlace
           n == Len(w.label)
<1>1. w.label \in Name /\ w.type \in AnyType /\ ResolverName \in Name
  BY NameDigAssumption
<1>2. << >> \in Name
  BY EmptySeq DEF Name
<1>3. q \in QueryFields
  BY <1>1, <1>2 DEF Fields0, QueryFields, Marker
<1>4. q.zone = ResolverName /\ q.label = w.label /\ q.type = w.type
      /\ q.queryType = "DNS-R" /\ q.hint = << >>
  BY DEF Fields0
<1> HIDE DEF q
<1>5. QueryName(q) \o << >> = name /\ name \in Name
  <2>1. QueryName(q) \in Name
    BY <1>3, QueryNameType
  <2>2. QueryName(q) \o << >> = QueryName(q)
    BY <2>1, ConcatEmptySeq DEF Name
  <2>3. QueryName(q) = name
    BY DEF ToInterest, Fields0, q
  <2>4. QED
    BY <2>1, <2>2, <2>3
<1>6. IsNameOf(name, q, << >>)
  BY <1>2, <1>3, <1>5, QueryNameIs
<1>7. Len(HintPart(q)) = 0
  BY <1>3, <1>4, HintPartIs
<1>8. Len(<< >>) = 0 /\ Len(ResolverName) \in Nat /\ n \in Nat
  BY <1>1, LenProperties DEF Name
<1> HIDE DEF name
<1>9. /\ MarkerAt(q) = p /\ TypeAt(q) = p + n + 1 /\ p = Len(ResolverName) + 1
  BY <1>4, <1>6, <1>7, <1>8 DEF IsNameOf, MarkerPlace
<1>10. /\ Len(name) = TypeAt(q) + Len(<< >>)
       /\ \A j \in 1 .. Len(q.zone) : name[Len(HintPart(q)) + j] = q.zone[j]
       /\ name[MarkerAt(q)] = q.queryType
       /\ \A j \in 1 .. Len(q.label) : name[MarkerAt(q) + j] = q.label[j]
       /\ name[TypeAt(q)] = q.type
  BY <1>6 DEF IsNameOf
<1>11. \A j \in 1 .. Len(ResolverName) : name[j] = ResolverName[j]
  BY <1>4, <1>7, <1>8, <1>10
<1>12. DOMAIN ResolverName = 1 .. Len(ResolverName) /\ DOMAIN w.label = 1 .. Len(w.label)
  BY <1>1, LenProperties DEF Name
<1>13. Len(ResolverName) = p - 1
  BY <1>8, <1>9
<1>14. DOMAIN name = 1 .. Len(name)
  BY <1>5, LenProperties DEF Name
<1>15. Len(name) = p + n + 1
  <2> HIDE DEF p, n
  <2>1. QED
    BY <1>8, <1>9, <1>10
<1>16. p \in Nat \ {0}
  BY <1>8, <1>9
<1>17. QED
  BY <1>1, <1>3, <1>4, <1>5, <1>8, <1>9, <1>10, <1>11, <1>12, <1>13, <1>14, <1>15, <1>16 DEF q, name

\* Where the resolver reads an Interest: at dig's marker or after it, and
\* never a hint.
LEMMA ReadPlaces ==
  ASSUME DistinctiveNames, NEW w \in DigQuestion, NEW i \in Nat, NEW t \in Nat, NEW start \in Nat,
         IsMatch(ToInterest(w), i, t, start)
  PROVE  /\ MarkerPlace <= i /\ i + 2 <= t /\ t <= MarkerPlace + Len(w.label) + 1
         /\ start = 0
         /\ i > MarkerPlace => i - MarkerPlace \in DOMAIN w.label
<1> PICK name : name = ToInterest(w)
  OBVIOUS
<1> PICK p \in Nat \ {0}, n \in Nat : p = MarkerPlace /\ n = Len(w.label)
  BY InterestIs
<1>1. /\ name \in Name
      /\ DOMAIN name = 1 .. p + n + 1
      /\ DOMAIN ResolverName = 1 .. p - 1 /\ DOMAIN w.label = 1 .. n
      /\ \A j \in 1 .. p - 1 : name[j] = ResolverName[j]
      /\ name[p] = "DNS-R"
      /\ \A j \in 1 .. n : name[p + j] = w.label[j]
  BY InterestIs
<1>2. /\ i \in 1 .. p + n + 1 /\ t \in 1 .. p + n + 1 /\ i + 2 <= t
      /\ Ending[name[i]] \in Marker
      /\ \A j \in 1 .. p + n + 1 : Ending[name[j]] \in Marker /\ j + 2 <= t => j <= i
      /\ start \in 0 .. i - 1 /\ (start # 0 => name[start] = HintMark)
  BY <1>1 DEF IsMatch
<1>3. Ending["DNS-R"] \in Marker /\ "" \notin Marker
  BY MarksAreComponents DEF Marker
<1>4. i >= p
  <2> SUFFICES ASSUME i < p PROVE FALSE
    OBVIOUS
  <2>1. i \in 1 .. p - 1
    BY <1>2
  <2>2. name[i] = ResolverName[i] /\ i \in DOMAIN ResolverName
    BY <1>1, <2>1
  <2>3. Ending[name[i]] = ""
    BY <2>2 DEF DistinctiveNames
  <2>4. QED
    BY <1>2, <1>3, <2>3
<1>5. i > p => i - p \in 1 .. n
  BY <1>2
<1>6. start = 0
  <2> SUFFICES ASSUME start # 0 PROVE FALSE
    OBVIOUS
  <2>1. name[start] = HintMark /\ start \in 1 .. p + n
    BY <1>2
  <2>2. CASE start < p
    <3>1. start \in 1 .. p - 1
      BY <2>1, <2>2
    <3>2. QED
      BY <1>1, <2>1, <3>1 DEF DistinctiveNames
  <2>3. CASE start = p
    BY <1>1, <2>1, <2>3, MarksAreComponents DEF Marker
  <2>4. CASE start > p
    <3>1. start - p \in 1 .. n /\ p + (start - p) = start
      BY <2>1, <2>4
    <3>2. w.label[start - p] = HintMark
      BY <1>1, <2>1, <3>1
    <3>3. QED
      BY <1>1, <3>1, <3>2 DEF DistinctiveNames
  <2>5. QED
    BY <2>1, <2>2, <2>3, <2>4
<1>7. QED
  BY <1>1, <1>2, <1>4, <1>5, <1>6

\* The name of the Data for what was read there.
IsAnswerName(answer, name, i, t, fields, stem, k) ==
  /\ fields \in QueryFields
  /\ answer \in Name /\ k \in Nat
  /\ Len(answer) = t + k + 1
  /\ \A j \in 1 .. i - 1 : answer[j] = name[j]
  /\ \A j \in 1 .. k : answer[i - 1 + j] = stem[j]
  /\ DOMAIN stem = 1 .. k
  /\ answer[i + k] \in Marker
  /\ \A j \in i + 1 .. t - 1 : answer[j + k] = name[j]
  /\ answer[t + k] = fields.type
  /\ answer[t + k + 1] = Version
  /\ fields.type \in RRType
  /\ fields.label = SubSeq(name, i + 1, t - 1)
  /\ stem = << >> => k = 0

LEMMA AnswerNameIs ==
  ASSUME NEW name \in Name, NEW i \in Nat, NEW t \in Nat, IsMatch(name, i, t, 0)
  PROVE  IsAnswerName(AnswerName(FieldsAt(name, i, t, 0)), name, i, t,
                      FieldsAt(name, i, t, 0), Stem[name[i]], Len(Stem[name[i]]))
<1> DEFINE zone == SubSeq(name, 1, i - 1) \o Stem[name[i]]
           label == SubSeq(name, i + 1, t - 1)
           q == [hint |-> << >>, zone |-> zone, queryType |-> Ending[name[i]],
                 label |-> label, type |-> Beginning[name[t]]]
           answer == QueryName(q) \o <<Version>>
<1>1. PICK len \in Nat : len = Len(name) /\ DOMAIN name = 1 .. len
  BY LenProperties DEF Name
<1>2. /\ i \in 1 .. len /\ t \in 1 .. len /\ i + 2 <= t
      /\ Ending[name[i]] \in Marker /\ Beginning[name[t]] \in RRType
  BY <1>1 DEF IsMatch
<1>3. Stem[name[i]] \in Name
  <2>1. name[i] \in Component
    BY <1>1, <1>2, ElementOfSeq DEF Name
  <2>2. QED
    BY <2>1, NamePatternsAssumption
<1>4. PICK k \in Nat : k = Len(Stem[name[i]]) /\ DOMAIN Stem[name[i]] = 1 .. k
  BY <1>3, LenProperties DEF Name
<1>5. /\ label \in Name /\ Len(label) = t - 1 - i
      /\ \A j \in 1 .. t - 1 - i : label[j] = name[i + j]
  <2>1. i + 1 \in Nat \ {0} /\ t - 1 \in Nat /\ t - 1 <= len
    BY <1>2
  <2>2. /\ label \in Name
        /\ Len(label) = IF i + 1 <= t - 1 THEN t - 1 - (i + 1) + 1 ELSE 0
        /\ \A j \in 1 .. t - 1 - (i + 1) + 1 : label[j] = name[i + 1 + j - 1]
    BY <1>1, <2>1, PieceOfName
  <2> HIDE DEF label
  <2>3. ASSUME NEW j \in 1 .. t - 1 - i PROVE label[j] = name[i + j]
    <3>1. j \in 1 .. t - 1 - (i + 1) + 1 /\ i + 1 + j - 1 = i + j
      BY <1>2
    <3>2. QED
      BY <2>2, <3>1
  <2>4. QED
    BY <1>2, <2>2, <2>3
<1>6. /\ zone \in Name /\ Len(zone) = i - 1 + k
      /\ \A j \in 1 .. i - 1 : zone[j] = name[j]
      /\ \A j \in 1 .. k : zone[i - 1 + j] = Stem[name[i]][j]
  <2> DEFINE before == SubSeq(name, 1, i - 1)
  <2>1. i - 1 \in Nat /\ i - 1 <= len /\ 1 \in Nat \ {0}
    BY <1>2
  <2>2. /\ before \in Name
        /\ Len(before) = IF 1 <= i - 1 THEN i - 1 - 1 + 1 ELSE 0
        /\ \A j \in 1 .. i - 1 - 1 + 1 : before[j] = name[1 + j - 1]
    BY <1>1, <2>1, PieceOfName
  <2> HIDE DEF before
  <2>3. Len(before) = i - 1
    BY <1>2, <2>2
  <2>4. ASSUME NEW j \in 1 .. i - 1 PROVE before[j] = name[j]
    <3>1. j \in 1 .. i - 1 - 1 + 1 /\ 1 + j - 1 = j
      BY <1>2
    <3>2. QED
      BY <2>2, <3>1
  <2>5. zone = before \o Stem[name[i]]
    BY DEF before
  <2> HIDE DEF zone
  <2>6. /\ zone \in Name /\ Len(zone) = Len(before) + Len(Stem[name[i]])
        /\ \A j \in 1 .. Len(before) : zone[j] = before[j]
        /\ \A j \in 1 .. Len(Stem[name[i]]) : zone[Len(before) + j] = Stem[name[i]][j]
    BY <1>3, <2>2, <2>5, Concatenated
  <2>7. \A j \in 1 .. i - 1 : zone[j] = name[j]
    BY <2>3, <2>4, <2>6
  <2>8. \A j \in 1 .. k : zone[i - 1 + j] = Stem[name[i]][j]
    BY <1>4, <2>3, <2>6
  <2>9. QED
    BY <1>4, <2>3, <2>6, <2>7, <2>8
<1>7. << >> \in Name /\ Beginning[name[t]] \in AnyType
  BY <1>2, EmptySeq DEF Name, AnyType
<1> HIDE DEF zone, label
<1>8. q \in QueryFields
  BY <1>2, <1>5, <1>6, <1>7 DEF QueryFields
<1>9. /\ q.hint = << >> /\ q.zone = zone /\ q.queryType = Ending[name[i]]
      /\ q.label = label /\ q.type = Beginning[name[t]]
  OBVIOUS
<1>10. AnswerName(FieldsAt(name, i, t, 0)) = answer
  <2>1. SubSeq(name, 0 + 1, i - 1) \o Stem[name[i]] = zone
    BY DEF zone
  <2> DEFINE hint == SubSeq(name, 1, 0 - 1)
             read == [hint |-> hint, zone |-> zone, queryType |-> Ending[name[i]],
                      label |-> label, type |-> Beginning[name[t]]]
  <2>2. [FieldsAt(name, i, t, 0) EXCEPT !.hint = << >>] = q
    <3>1. FieldsAt(name, i, t, 0) = read
      BY <2>1 DEF FieldsAt, label
    <3> HIDE DEF hint
    <3>2. [read EXCEPT !.hint = << >>] = q
      OBVIOUS
    <3>3. QED
      BY <3>1, <3>2
  <2> HIDE DEF q
  <2>3. DataName(q) = QueryName(q) \o <<Version>>
    <3>1. QueryName(q) \in Seq(Component)
      BY <1>8, QueryNameType DEF Name
    <3>2. QED
      BY <3>1, AppendIsConcat DEF DataName
  <2>4. QED
    BY <2>2, <2>3 DEF AnswerName
<1>11. FieldsAt(name, i, t, 0) \in QueryFields
  <2>1. SubSeq(name, 1, 0 - 1) = << >> /\ 0 + 1 = 1
    BY SubSeqEmpty
  <2>2. FieldsAt(name, i, t, 0) = q
    BY <2>1 DEF FieldsAt, zone, label
  <2>3. QED
    BY <1>8, <2>2
<1>12. FieldsAt(name, i, t, 0).type = Beginning[name[t]] /\ FieldsAt(name, i, t, 0).label = SubSeq(name, i + 1, t - 1)
  BY DEF FieldsAt
<1> HIDE DEF q
<1>13. <<Version>> \in Name /\ Len(<<Version>>) = 1 /\ <<Version>>[1] = Version
  BY VersionIsNoType
<1>14. IsNameOf(answer, q, <<Version>>)
  BY <1>8, <1>13, QueryNameIs
<1> DEFINE tail == <<Version>>
<1>15. Len(tail) = 1 /\ tail[1] = Version
  BY <1>13
<1> HIDE DEF answer, tail
<1>16. Len(HintPart(q)) = 0
  BY <1>8, <1>9, HintPartIs
<1>17. MarkerAt(q) = i + k /\ TypeAt(q) = t + k
  <2>1. /\ MarkerAt(q) = Len(HintPart(q)) + Len(q.zone) + 1
        /\ TypeAt(q) = MarkerAt(q) + Len(q.label) + 1
    BY <1>14 DEF IsNameOf
  <2>2. QED
    BY <1>2, <1>5, <1>6, <1>9, <1>16, <2>1
<1>18. /\ answer \in Name
       /\ Len(answer) = TypeAt(q) + Len(tail)
       /\ \A j \in 1 .. Len(q.zone) : answer[Len(HintPart(q)) + j] = q.zone[j]
       /\ answer[MarkerAt(q)] = q.queryType
       /\ \A j \in 1 .. Len(q.label) : answer[MarkerAt(q) + j] = q.label[j]
       /\ answer[TypeAt(q)] = q.type
       /\ \A j \in 1 .. Len(tail) : answer[TypeAt(q) + j] = tail[j]
  BY <1>14 DEF IsNameOf, tail
<1>19. \A j \in 1 .. i - 1 + k : answer[j] = zone[j]
  BY <1>2, <1>6, <1>9, <1>16, <1>18
<1>20. \A j \in 1 .. i - 1 : answer[j] = name[j]
  BY <1>2, <1>6, <1>19
<1>21. \A j \in 1 .. k : answer[i - 1 + j] = Stem[name[i]][j]
  <2> SUFFICES ASSUME NEW j \in 1 .. k PROVE answer[i - 1 + j] = Stem[name[i]][j]
    OBVIOUS
  <2>1. i - 1 + j \in 1 .. i - 1 + k
    BY <1>2
  <2>2. QED
    BY <1>6, <1>19, <2>1
<1>22. \A j \in i + 1 .. t - 1 : answer[j + k] = name[j]
  <2> SUFFICES ASSUME NEW j \in i + 1 .. t - 1 PROVE answer[j + k] = name[j]
    OBVIOUS
  <2>1. j - i \in 1 .. t - 1 - i /\ i + (j - i) = j /\ i + k + (j - i) = j + k
    BY <1>2
  <2>2. answer[i + k + (j - i)] = label[j - i]
    BY <1>5, <1>9, <1>17, <1>18, <2>1
  <2>3. QED
    BY <1>5, <2>1, <2>2
<1>23. Len(answer) = t + k + 1 /\ answer[t + k + 1] = Version
  BY <1>15, <1>17, <1>18
<1>24. answer[t + k] = Beginning[name[t]] /\ answer[i + k] = Ending[name[i]]
  BY <1>9, <1>17, <1>18
<1>25. Stem[name[i]] = << >> => k = 0
  BY <1>4
<1>26. QED
  BY <1>2, <1>4, <1>10, <1>11, <1>12, <1>18, <1>20, <1>21, <1>22, <1>23, <1>24, <1>25
     DEF IsAnswerName

\* The components dig writes after its marker: none is a marker, and only the
\* last is a type.
LEMMA AskedComponents ==
  ASSUME DistinctiveNames, NEW w \in DigQuestion, NEW n \in Nat, n = Len(w.label),
         NEW p \in Nat, p = MarkerPlace
  PROVE  /\ \A j \in p + 1 .. p + n + 1 : ToInterest(w)[j] \notin Marker
         /\ \A j \in p + 1 .. p + n : ToInterest(w)[j] \notin AnyType
         /\ ToInterest(w)[p + n + 1] \in AnyType \ {Version}
<1> PICK name : name = ToInterest(w)
  OBVIOUS
<1>1. /\ DOMAIN w.label = 1 .. n
      /\ \A j \in 1 .. n : name[p + j] = w.label[j]
      /\ name[p + n + 1] = w.type /\ w.type \in AnyType
  BY InterestIs
<1>2. AnyType \cap Marker = {} /\ Version \notin AnyType
  BY DEF AnyType, Marker, RRType, Version
<1>3. ASSUME NEW j \in p + 1 .. p + n PROVE name[j] \notin Marker /\ name[j] \notin AnyType
  <2>1. j - p \in 1 .. n /\ p + (j - p) = j
    OBVIOUS
  <2>2. name[j] = w.label[j - p] /\ j - p \in DOMAIN w.label
    BY <1>1, <2>1
  <2>3. QED
    BY <2>2 DEF DistinctiveNames
<1>4. \A j \in p + 1 .. p + n + 1 : j \in p + 1 .. p + n \/ j = p + n + 1
  OBVIOUS
<1>5. QED
  BY <1>1, <1>2, <1>3, <1>4

\* An Interest that was not understood gets no Data that dig takes.
LEMMA DefaultIsNoAnswer ==
  ASSUME NEW w \in DigQuestion,
         GetPrefix(AnswerName(DefaultFields), Len(ToInterest(w))) = ToInterest(w)
  PROVE  FALSE
<1> DEFINE answer == AnswerName(DefaultFields)
<1>1. /\ "DNS" \in Marker /\ "NS" \in AnyType
      /\ << >> \in Name /\ <<Version>> \in Name
  BY VersionIsNoType, EmptySeq DEF Marker, AnyType, RRType, Name
<1> PICK q : q = DefaultFields
  OBVIOUS
<1>2. /\ q \in QueryFields
      /\ q.hint = << >> /\ q.zone = << >> /\ q.label = << >>
      /\ q.queryType = "DNS" /\ q.type = "NS"
  BY <1>1 DEF DefaultFields, DefaultQuery, QueryFields
<1>3. answer \in Name /\ Len(answer) = 3
      /\ answer[1] = "DNS" /\ answer[2] = "NS" /\ answer[3] = Version
  <2> DEFINE tail == <<Version>>
  <2>1. answer = QueryName(q) \o tail
    <3>1. [q EXCEPT !.hint = << >>] = q
      BY DEF DefaultFields
    <3>2. QueryName(q) \in Seq(Component)
      BY <1>2, QueryNameType DEF Name
    <3>3. DataName(q) = QueryName(q) \o tail
      BY <3>2, AppendIsConcat DEF DataName
    <3>4. QED
      BY <3>1, <3>3 DEF AnswerName
  <2>2. Len(tail) = 1 /\ tail[1] = Version /\ tail \in Name
    BY <1>1
  <2> HIDE DEF answer, tail
  <2>3. IsNameOf(answer, q, tail)
    BY <1>2, <2>1, <2>2, QueryNameIs
  <2>4. Len(HintPart(q)) = 0 /\ Len(q.zone) = 0 /\ Len(q.label) = 0
    BY <1>2, HintPartIs
  <2>5. MarkerAt(q) = 1 /\ TypeAt(q) = 2
    BY <2>3, <2>4 DEF IsNameOf
  <2>6. /\ answer \in Name
        /\ Len(answer) = TypeAt(q) + Len(tail)
        /\ answer[MarkerAt(q)] = q.queryType
        /\ answer[TypeAt(q)] = q.type
        /\ \A j \in 1 .. Len(tail) : answer[TypeAt(q) + j] = tail[j]
    BY <2>3 DEF IsNameOf
  <2>7. answer[TypeAt(q) + 1] = tail[1]
    BY <2>2, <2>6
  <2>8. QED
    BY <1>2, <2>2, <2>5, <2>6, <2>7
<1> HIDE DEF answer
<1> PICK p \in Nat \ {0}, n \in Nat, name \in Name : p = MarkerPlace /\ n = Len(w.label) /\ name = ToInterest(w)
  BY InterestIs
<1>4. name \in Name /\ Len(name) = p + n + 1 /\ name[p] = "DNS-R"
  BY InterestIs
<1>5. GetPrefix(answer, Len(name)) = name
  BY DEF answer
<1>6. Len(name) <= Len(answer) /\ \A j \in 1 .. Len(name) : name[j] = answer[j]
  BY <1>3, <1>4, <1>5, ExtendsName
<1>7. p + n + 1 <= 3 /\ p \in 1 .. p + n + 1
  BY <1>3, <1>4, <1>6
<1>8. p \in 1 .. 3 /\ answer[p] = "DNS-R"
  BY <1>4, <1>6, <1>7
<1>9. p = 1 \/ p = 2 \/ p = 3
  BY <1>8
<1>10. QED
  BY <1>3, <1>8, <1>9 DEF Version

\* Data that dig takes are an answer to the question it was called with.
LEMMA OwnAnswer ==
  ASSUME DistinctiveNames, NEW w \in DigQuestion, NEW v \in DigQuestion,
         GetPrefix(AnswerName(Heard[v]), Len(ToInterest(w))) = ToInterest(w)
  PROVE  Heard[v].label = w.label /\ Heard[v].type = w.type
<1> PICK asked, heardAs : asked = ToInterest(w) /\ heardAs = ToInterest(v)
  OBVIOUS
<1> PICK p \in Nat \ {0}, n \in Nat, l \in Nat :
      p = MarkerPlace /\ n = Len(w.label) /\ l = Len(v.label)
  BY InterestIs
<1>1. /\ asked \in Name /\ Len(asked) = p + n + 1
      /\ \A j \in 1 .. n : asked[p + j] = w.label[j]
      /\ asked[p + n + 1] = w.type
      /\ w.label \in Name
  BY InterestIs
<1>2. /\ heardAs \in Name /\ Len(heardAs) = p + l + 1 /\ heardAs[p] = "DNS-R"
      /\ DOMAIN v.label = 1 .. l
      /\ \A j \in 1 .. l : heardAs[p + j] = v.label[j]
  BY InterestIs
<1>3. /\ \A j \in p + 1 .. p + n + 1 : asked[j] \notin Marker
      /\ asked[p + n + 1] \in AnyType \ {Version}
  BY AskedComponents
<1>4. \A j \in p + 1 .. p + l : heardAs[j] \notin AnyType
  BY AskedComponents
<1>5. CASE ~MatchQueryName(heardAs)
  <2>1. Heard[v] = DefaultFields
    BY <1>5 DEF Heard, Read
  <2>2. QED
    BY <2>1, DefaultIsNoAnswer
<1>6. CASE MatchQueryName(heardAs)
  <2>1. PICK i \in Nat, t \in Nat, start \in Nat :
          IsMatch(heardAs, i, t, start) /\ QueryFieldsOf(heardAs) = FieldsAt(heardAs, i, t, start)
    BY <1>2, <1>6, MatchIs
  <2>2. /\ p <= i /\ i + 2 <= t /\ t <= p + l + 1 /\ start = 0
        /\ i > p => i - p \in DOMAIN v.label
    BY <2>1, ReadPlaces
  <2>3. IsMatch(heardAs, i, t, 0)
    BY <2>1, <2>2
  <2> DEFINE fields == FieldsAt(heardAs, i, t, 0)
             answer == AnswerName(fields)
             stem == Stem[heardAs[i]]
             len == Len(stem)
  <2>4. Heard[v] = fields
    BY <1>6, <2>1, <2>2 DEF Heard, Read
  <2>5. IsAnswerName(answer, heardAs, i, t, fields, stem, len)
    BY <1>2, <2>3, AnswerNameIs
  <2>6. GetPrefix(answer, Len(asked)) = asked
    BY <2>4
  <2> HIDE DEF fields, answer, stem, len
  <2> PICK k \in Nat : k = len
    BY <2>5 DEF IsAnswerName
  <2>7. /\ answer \in Name
        /\ Len(answer) = t + k + 1
        /\ \A j \in 1 .. i - 1 : answer[j] = heardAs[j]
        /\ \A j \in 1 .. k : answer[i - 1 + j] = stem[j]
        /\ DOMAIN stem = 1 .. k
        /\ answer[i + k] \in Marker
        /\ \A j \in i + 1 .. t - 1 : answer[j + k] = heardAs[j]
        /\ answer[t + k] = fields.type
        /\ answer[t + k + 1] = Version
        /\ fields.label = SubSeq(heardAs, i + 1, t - 1)
        /\ stem = << >> => k = 0
    BY <2>5 DEF IsAnswerName
  <2>8. Len(asked) <= Len(answer) /\ \A j \in 1 .. Len(asked) : asked[j] = answer[j]
    BY <1>1, <2>7, <2>6, ExtendsName
  <2> PICK e \in Nat : e = p + n + 1
    OBVIOUS
  <2>9. e <= t + k + 1
    BY <1>1, <2>7, <2>8
  <2>10. \A j \in 1 .. e : asked[j] = answer[j]
    BY <1>1, <2>8
  <2>11. asked[e] = answer[e] /\ asked[e] \in AnyType \ {Version} /\ asked[e] = w.type
    BY <1>1, <1>3, <2>10
  <2>12. CASE i > p
    <3>1. i - p \in 1 .. l /\ heardAs[i] = v.label[i - p]
      <4>1. i - p \in 1 .. l
        BY <1>2, <2>2, <2>12
      <4>2. p + (i - p) = i
        OBVIOUS
      <4>3. QED
        BY <1>2, <4>1, <4>2
    <3>2. CASE i + k <= e
      <4>1. i + k \in p + 1 .. p + n + 1 /\ i + k \in 1 .. e
        BY <2>12, <3>2
      <4>2. asked[i + k] = answer[i + k] /\ asked[i + k] \notin Marker
        BY <1>3, <2>10, <4>1
      <4>3. QED
        BY <2>7, <4>2
    <3>3. CASE e <= i - 1
      <4>1. e \in p + 1 .. p + l /\ e \in 1 .. i - 1
        BY <3>1, <3>3
      <4>2. answer[e] = heardAs[e]
        BY <2>7, <4>1
      <4>3. QED
        BY <1>4, <2>11, <4>1, <4>2
    <3>4. CASE i - 1 < e /\ e < i + k
      <4>1. PICK j \in 1 .. k : i - 1 + j = e
        <5>1. e - (i - 1) \in 1 .. k /\ i - 1 + (e - (i - 1)) = e
          BY <3>4
        <5>2. QED
          BY <5>1
      <4>2. answer[i - 1 + j] = stem[j] /\ j \in DOMAIN stem
        BY <2>7
      <4>3. Stem[v.label[i - p]][j] \notin AnyType
        BY <1>2, <3>1, <4>2 DEF DistinctiveNames, stem
      <4>4. QED
        BY <2>11, <3>1, <4>1, <4>2, <4>3 DEF stem
    <3>5. QED
      BY <2>2, <3>2, <3>3, <3>4
  <2>13. CASE i = p
    <3>1. k = 0
      <4>1. stem = << >>
        BY <1>2, <2>13, MarksAreComponents DEF Marker, stem
      <4>2. QED
        BY <2>7, <4>1
    <3>2. e # t + 1
      <4>1. answer[t + 1] = Version
        BY <2>7, <3>1
      <4>2. QED
        BY <2>11, <4>1
    <3>3. ~(e < t)
      <4> SUFFICES ASSUME e < t PROVE FALSE
        OBVIOUS
      <4>1. e \in i + 1 .. t - 1 /\ e \in p + 1 .. p + l /\ e + k = e
        BY <2>2, <2>13, <3>1
      <4>2. answer[e + k] = heardAs[e]
        BY <2>7, <4>1
      <4>3. QED
        BY <1>4, <2>11, <4>1, <4>2
    <3>4. e = t
      BY <2>9, <3>1, <3>2, <3>3
    <3>5. w.type = fields.type
      <4>1. answer[t] = fields.type
        BY <2>7, <3>1
      <4>2. QED
        BY <2>11, <3>4, <4>1
    <3>6. ASSUME NEW j \in 1 .. n PROVE heardAs[p + j] = w.label[j]
      <4>1. p + j \in i + 1 .. t - 1 /\ p + j + k = p + j /\ p + j \in 1 .. e
        BY <2>13, <3>1, <3>4
      <4>2. answer[p + j + k] = heardAs[p + j]
        BY <2>7, <4>1
      <4>3. asked[p + j] = answer[p + j] /\ asked[p + j] = w.label[j]
        BY <1>1, <2>10, <4>1
      <4>4. QED
        BY <4>1, <4>2, <4>3
    <3>7. p + n <= Len(heardAs)
      BY <1>2, <2>2, <3>4
    <3>8. SubSeq(heardAs, p + 1, p + n) = w.label
      BY <1>1, <1>2, <3>6, <3>7, PieceIs
    <3>9. t - 1 = p + n
      BY <3>4
    <3>10. fields.label = SubSeq(heardAs, i + 1, t - 1)
      BY <2>7
    <3>11. QED
      BY <2>4, <2>13, <3>5, <3>8, <3>9, <3>10
  <2>14. QED
    BY <2>2, <2>12, <2>13
<1>7. QED
  BY <1>5, <1>6

-----------------------------------------------------------------------------
(***************************************************************************)
(* The resolver under its digs.                                             *)
(***************************************************************************)
\* What the resolver reads of an Interest is a question.
LEMMA HeardType ==
  /\ DefaultFields \in QueryFields /\ DefaultFields.type \in RRType
  /\ \A w \in DigQuestion : Heard[w] \in QueryFields /\ Heard[w].type \in RRType
<1>1. DefaultFields \in QueryFields /\ DefaultFields.type \in RRType
  <2>1. "DNS" \in Marker /\ "NS" \in AnyType /\ "NS" \in RRType /\ << >> \in Name
    BY EmptySeq DEF Marker, AnyType, RRType, Name
  <2>2. QED
    BY <2>1 DEF DefaultFields, DefaultQuery, QueryFields
<1>2. ASSUME NEW w \in DigQuestion
      PROVE  Heard[w] \in QueryFields /\ Heard[w].type \in RRType
  <2>1. PICK name : name = ToInterest(w) /\ name \in Name
    BY InterestIs
  <2>2. Heard[w] = IF MatchQueryName(name) THEN QueryFieldsOf(name) ELSE DefaultFields
    BY <2>1 DEF Heard, Read
  <2>3. QED
    BY <1>1, <2>1, <2>2, FieldsType
<1>3. QED
  BY <1>1, <1>2

\* doData never changes whose question an object is for.
LEMMA KeepsQuery ==
  ASSUME NEW q \in IQ, NEW re \in Response
  PROVE  StrategyDoData(q, re).query = q.query
<1>1. DOMAIN q = {"query", "step", "finishedLabelNum", "lastFinishedLabelNum", "rrLabelLen",
                  "lastResponse", "forwardingHint", "lastForwardingHint"}
  BY DEF IQ
<1>2. DoAuth(q).query = q.query /\ [q EXCEPT !.step = "Abort"].query = q.query
  BY <1>1 DEF DoAuth
<1>3. DoNack(q, re).query = q.query /\ DoNackFH(q, re).query = q.query
  BY <1>1 DEF DoNack, DoNackFH
<1>4. DoResp(q, re).query = q.query
  <2>1. PICK next : next = Advance(q)
    OBVIOUS
  <2>2. next.query = q.query /\ DOMAIN next = DOMAIN q
    BY <1>1, <2>1 DEF Advance
  <2>3. \A step : [next EXCEPT !.lastResponse = re, !.step = step].query = q.query
    BY <1>1, <2>2
  <2>4. \A step : [q EXCEPT !.step = step, !.lastResponse = re].query = q.query
    BY <1>1
  <2>5. QED
    BY <2>1, <2>3, <2>4 DEF DoResp
<1>5. DoRespFH(q, re).query = q.query
  <2>1. PICK next : next = Advance(q)
    OBVIOUS
  <2>2. next.query = q.query /\ DOMAIN next = DOMAIN q
    BY <1>1, <2>1 DEF Advance
  <2>3. \A step, last, hint :
          [next EXCEPT !.step = step, !.lastForwardingHint = last, !.forwardingHint = hint].query
            = q.query
    BY <1>1, <2>2
  <2>4. \A step : [q EXCEPT !.lastResponse = re, !.step = step].query = q.query
    BY <1>1
  <2>5. \A step : [q EXCEPT !.step = step, !.lastResponse = re].query = q.query
    BY <1>1
  <2>6. QED
    BY <2>1, <2>3, <2>4, <2>5 DEF DoRespFH
<1>6. QED
  BY <1>2, <1>3, <1>4, <1>5 DEF StrategyDoData, DoData, DoDataFH

\* The resolver is in an invariant state, and dig is in its types.
DigTyped == IInv /\ DigTypeOK

LEMMA InitDigTyped == DigInit => DigTyped
<1> SUFFICES ASSUME DigInit PROVE DigTyped
  OBVIOUS
<1>1. IInv
  BY InitInv DEF DigInit
<1>2. InitialResponse \in Response
  BY EmptySeq DEF InitialResponse, Response, ResponseType
<1>3. DigTypeOK
  BY <1>2, HeardType, NameDigAssumption DEF DigInit, DigTypeOK, DigState
<1>4. QED
  BY <1>1, <1>3 DEF DigTyped

\* An Interest of dig starts at most one query, the one it was read as.
LEMMA ExpressInterestTyped ==
  ASSUME DigTyped, NEW w \in DigQuestion, ExpressInterest(w)
  PROVE  IInv' /\ heard' \in [Stub -> QueryFields]
<1>1. CASE UNCHANGED <<vars, heard>>
  <2>1. UNCHANGED vars /\ heard' = heard
    BY <1>1
  <2>2. IInv'
    BY <2>1, OtherInv DEF DigTyped
  <2>3. QED
    BY <2>1, <2>2 DEF DigTyped, DigTypeOK
<1>2. ASSUME NEW s \in Stub,
             OnInterest(s, [rrLabel |-> Heard[w].label, rrType |-> Heard[w].type]),
             heard' = [heard EXCEPT ![s] = Heard[w]]
      PROVE  IInv' /\ heard' \in [Stub -> QueryFields]
  <2>1. Heard[w] \in QueryFields /\ Heard[w].type \in RRType
    BY HeardType
  <2>2. [rrLabel |-> Heard[w].label, rrType |-> Heard[w].type] \in Query
    BY <2>1 DEF Query, QueryFields
  <2>3. IInv'
    BY <1>2, <2>2, OnInterestInv DEF DigTyped
  <2>4. QED
    BY <1>2, <2>1, <2>3 DEF DigTyped, DigTypeOK
<1>3. QED
  BY <1>1, <1>2 DEF ExpressInterest

LEMMA ResolverStepNext ==
  ASSUME ResolverStep
  PROVE  Next /\ UNCHANGED <<heard, digOnly>>
BY DEF ResolverStep, Next

LEMMA StepDigTyped == DigTyped /\ [DigNext]_digVars => DigTyped'
<1> SUFFICES ASSUME DigTyped, [DigNext]_digVars PROVE DigTyped'
  OBVIOUS
<1>1. /\ IInv /\ heard \in [Stub -> QueryFields] /\ dig \in [Dig -> DigState]
      /\ wants \in [Dig -> DigQuestion] /\ interestTriedNum \in [Dig -> 0 .. InterestTriedMax]
      /\ got \in [Dig -> Response]
      /\ InterestTriedMax \in Nat \ {0}
  BY NameDigAssumption DEF DigTyped, DigTypeOK
<1>2. ASSUME UNCHANGED vars PROVE IInv'
  BY <1>1, <1>2, OtherInv
<1>3. ASSUME NEW d \in Dig, NEW w \in DigQuestion, StartDig(d, w) PROVE DigTyped'
  <2>1. IInv' /\ heard' \in [Stub -> QueryFields]
    BY <1>3, ExpressInterestTyped DEF StartDig
  <2>2. InitialResponse \in Response
    BY EmptySeq DEF InitialResponse, Response, ResponseType
  <2>3. /\ dig' = [dig EXCEPT ![d] = "waiting"] /\ wants' = [wants EXCEPT ![d] = w]
        /\ interestTriedNum' = [interestTriedNum EXCEPT ![d] = 1]
        /\ got' = [got EXCEPT ![d] = InitialResponse]
    BY <1>3 DEF StartDig
  <2>4. QED
    BY <1>1, <2>1, <2>2, <2>3 DEF DigTyped, DigTypeOK, DigState
<1>4. ASSUME NEW d \in Dig, OnDigData(d) PROVE DigTyped'
  <2>1. PICK s \in Stub : got' = [got EXCEPT ![d] = iq[s].lastResponse]
    BY <1>4 DEF OnDigData
  <2>2. iq[s] \in IQ
    BY <1>1 DEF IInv, TypeOK
  <2>3. iq[s].lastResponse \in Response
    BY <2>2 DEF IQ
  <2>4. got' \in [Dig -> Response]
    BY <1>1, <2>1, <2>3
  <2>5. /\ dig' = [dig EXCEPT ![d] = "success"] /\ UNCHANGED vars
        /\ UNCHANGED <<heard, wants, interestTriedNum>>
    BY <1>4 DEF OnDigData
  <2>6. QED
    BY <1>1, <1>2, <2>4, <2>5 DEF DigTyped, DigTypeOK, DigState
<1>5. ASSUME NEW d \in Dig, GiveUp(d) \/ FaceFails(d) PROVE DigTyped'
  <2>1. /\ dig' = [dig EXCEPT ![d] = "failed"] /\ UNCHANGED vars
        /\ UNCHANGED <<heard, wants, interestTriedNum, got>>
    BY <1>5 DEF GiveUp, FaceFails
  <2>2. QED
    BY <1>1, <1>2, <2>1 DEF DigTyped, DigTypeOK, DigState
<1>6. ASSUME NEW d \in Dig, TryAgain(d) PROVE DigTyped'
  <2>1. wants[d] \in DigQuestion
    BY <1>1
  <2>2. IInv' /\ heard' \in [Stub -> QueryFields]
    BY <1>6, <2>1, ExpressInterestTyped DEF TryAgain
  <2>3. /\ interestTriedNum[d] < InterestTriedMax
        /\ interestTriedNum' = [interestTriedNum EXCEPT ![d] = interestTriedNum[d] + 1]
        /\ UNCHANGED <<dig, wants, got>>
    BY <1>6 DEF TryAgain
  <2>4. interestTriedNum' \in [Dig -> 0 .. InterestTriedMax]
    BY <1>1, <2>3
  <2>5. QED
    BY <1>1, <2>2, <2>3, <2>4 DEF DigTyped, DigTypeOK
<1>7. CASE ResolverStep
  <2>1. IInv'
    BY <1>1, <1>7, ResolverStepNext, StepInv
  <2>2. UNCHANGED <<heard, dig, wants, interestTriedNum, got>>
    BY <1>7, ResolverStepNext DEF digOnly
  <2>3. QED
    BY <1>1, <2>1, <2>2 DEF DigTyped, DigTypeOK
<1>8. CASE UNCHANGED digVars
  <2>1. UNCHANGED vars /\ UNCHANGED <<heard, dig, wants, interestTriedNum, got>>
    BY <1>8 DEF digVars, digOnly
  <2>2. QED
    BY <1>1, <1>2, <2>1 DEF DigTyped, DigTypeOK
<1>9. QED
  BY <1>3, <1>4, <1>5, <1>6, <1>7, <1>8 DEF DigNext

LEMMA DigTypedAlways == DigSpec => []DigTyped
  BY InitDigTyped, StepDigTyped, PTL DEF DigSpec

(***************************************************************************)
(* Type correctness of dig, and no dig sends its Interest more often than    *)
(* m_interestTriedMax: however often it is started again, answered late or   *)
(* not at all.                                                              *)
(***************************************************************************)
THEOREM DigTypeCorrect == DigSpec => []DigTypeOK
<1>1. DigTyped => DigTypeOK
  BY DEF DigTyped
<1>2. QED
  BY <1>1, DigTypedAlways, PTL

-----------------------------------------------------------------------------
(***************************************************************************)
(* Whose answer dig gets.  The object of every stub asks what the resolver  *)
(* read of its Interest, and the Interest is one a dig sends, or none at    *)
(* all that could be read.                                                  *)
(***************************************************************************)
AsksWhatWasHeard(s) ==
  /\ heard[s] = DefaultFields \/ \E w \in DigQuestion : heard[s] = Heard[w]
  /\ iq[s].query = [rrLabel |-> heard[s].label, rrType |-> heard[s].type]

\* Data for label and type with this Response were published on the chain.
WasPublishedFor(label, type, response) ==
  LET asked == [query |-> [rrLabel |-> label, rrType |-> type], lastResponse |-> response] IN
  \E n \in 0 .. Len(label) :
    /\ \E data \in published : Answers(data, asked, n)
    /\ ReachedByDelegation(label, n)

DigInv ==
  /\ DigTyped
  /\ \A s \in Stub : AsksWhatWasHeard(s)
  /\ \A d \in Dig : dig[d] = "success" => WasPublishedFor(wants[d].label, wants[d].type, got[d])

\* What is published stays published.
LEMMA PublishedStays ==
  ASSUME published \subseteq published'
  PROVE  \A label, type, response :
           WasPublishedFor(label, type, response) => WasPublishedFor(label, type, response)'
<1>1. \A name, n : ReachedByDelegation(name, n) => ReachedByDelegation(name, n)'
  BY ChainStays
<1>2. QED
  BY <1>1 DEF WasPublishedFor, Answers

\* An answer has a label, so the zone that gave it is above the name's end.
LEMMA AnsweredIsPublished ==
  ASSUME DigTyped, NEW s \in Stub, status[s] = "answered"
  PROVE  WasPublishedFor(iq[s].query.rrLabel, iq[s].query.rrType, iq[s].lastResponse)
<1> PICK q : q = iq[s]
  OBVIOUS
<1>1. q \in IQ /\ AnsweredByAuthority(q) /\ PublishedByServers
  BY DEF DigTyped, IInv, TypeOK, StubInv
<1>2. PICK data \in published, n \in {q.finishedLabelNum, q.lastFinishedLabelNum} :
        Answers(data, q, n) /\ ReachedByDelegation(q.query.rrLabel, n)
  BY <1>1 DEF AnsweredByAuthority
<1> PICK label : label = q.query.rrLabel
  OBVIOUS
<1>3. n \in Nat /\ label \in Name /\ data.interest.label # << >>
  BY <1>1, <1>2 DEF IQ, Query, PublishedByServers, ServerData
<1> PICK len \in Nat : len = Len(label)
  BY <1>3, LenProperties DEF Name
<1>4. n \in 0 .. len
  <2> SUFFICES ASSUME n > len PROVE FALSE
    BY <1>3
  <2> PICK rest : rest = GetSuffix(label, n)
    OBVIOUS
  <2>1. rest = << >>
    BY <1>3, SubSeqEmpty DEF GetSuffix
  <2>2. \A k \in Nat : GetPrefix(<< >>, k) = << >>
    <3>1. \A k \in Nat : AtMost(k, Len(<< >>)) = 0
      BY DEF AtMost
    <3>2. SubSeq(<< >>, 1, 0) = << >>
      BY SubSeqEmpty
    <3>3. QED
      BY <3>1, <3>2 DEF GetPrefix
  <2>3. \/ data.interest.label = rest
        \/ data.interest.label = GetPrefix(rest, Len(data.interest.label))
    BY <1>2 DEF Answers
  <2>4. Len(data.interest.label) \in Nat
    <3>1. data.interest.label \in Name
      BY DEF DigTyped, IInv, TypeOK, Data, Interest
    <3>2. QED
      BY <3>1, LenProperties DEF Name
  <2>5. QED
    BY <1>3, <2>1, <2>2, <2>3, <2>4
<1> DEFINE asked == [query |-> [rrLabel |-> label, rrType |-> q.query.rrType],
                     lastResponse |-> q.lastResponse]
<1>5. /\ asked.query.rrLabel = q.query.rrLabel /\ asked.query.rrType = q.query.rrType
      /\ asked.lastResponse = q.lastResponse
  OBVIOUS
<1> HIDE DEF asked
<1>6. Answers(data, asked, n)
  BY <1>2, <1>5 DEF Answers
<1>7. QED
  BY <1>2, <1>4, <1>6 DEF WasPublishedFor, asked

LEMMA InitDigInv == DigInit => DigInv
<1> SUFFICES ASSUME DigInit PROVE DigInv
  OBVIOUS
<1>1. DigTyped
  BY InitDigTyped
<1>2. ASSUME NEW s \in Stub PROVE AsksWhatWasHeard(s)
  <2>1. heard[s] = DefaultFields /\ iq[s] = NewIQ(DefaultQuery)
    BY DEF DigInit, Init
  <2>2. NewIQ(DefaultQuery).query = DefaultQuery
    BY DEF NewIQ
  <2>3. DefaultQuery = [rrLabel |-> DefaultFields.label, rrType |-> DefaultFields.type]
    BY DEF DefaultQuery, DefaultFields
  <2>4. QED
    BY <2>1, <2>2, <2>3 DEF AsksWhatWasHeard
<1>3. \A d \in Dig : dig[d] = "idle"
  BY DEF DigInit
<1>4. QED
  BY <1>1, <1>2, <1>3 DEF DigInv

\* Every step but a new Interest leaves what the objects are for alone.
LEMMA NextKeepsQueries ==
  ASSUME DigTyped,
         \/ \E s \in Stub : \/ ServerOnInterest(s) \/ CacheReply(s) \/ ForeignReply(s)
                            \/ OnData(s) \/ OnTimeout(s)
         \/ Stop \/ Run \/ DynamicUpdate \/ UNCHANGED vars,
         NEW t \in Stub
  PROVE  iq'[t].query = iq[t].query /\ published \subseteq published'
<1>1. CASE iq' = iq /\ published \subseteq published'
  BY <1>1
<1>2. ASSUME NEW s \in Stub, OnData(s)
      PROVE  iq'[t].query = iq[t].query /\ published \subseteq published'
  <2>1. iq \in [Stub -> IQ] /\ reply \in [Stub -> Response]
    BY DEF DigTyped, IInv, TypeOK
  <2>2. PICK next : next = StrategyDoData(iq[s], reply[s])
    OBVIOUS
  <2>3. iq' = [iq EXCEPT ![s] = next] /\ published' = published
    BY <1>2, <2>2 DEF OnData
  <2>4. next.query = iq[s].query
    BY <2>1, <2>2, KeepsQuery
  <2>5. QED
    BY <2>1, <2>3, <2>4
<1>3. QED
  BY <1>1, <1>2 DEF ServerOnInterest, CacheReply, ForeignReply, OnTimeout, Stop, Run,
                    DynamicUpdate, Update, vars

LEMMA ExpressInterestHeard ==
  ASSUME DigInv, NEW w \in DigQuestion, ExpressInterest(w)
  PROVE  (\A t \in Stub : AsksWhatWasHeard(t)') /\ published' = published
<1>1. /\ iq \in [Stub -> IQ] /\ heard \in [Stub -> QueryFields]
      /\ \A t \in Stub : AsksWhatWasHeard(t)
  BY DEF DigInv, DigTyped, IInv, TypeOK, DigTypeOK
<1>2. CASE UNCHANGED <<vars, heard>>
  <2>1. iq' = iq /\ published' = published /\ heard' = heard
    BY <1>2 DEF vars
  <2>2. QED
    BY <1>1, <2>1 DEF AsksWhatWasHeard
<1>3. ASSUME NEW s \in Stub,
             OnInterest(s, [rrLabel |-> Heard[w].label, rrType |-> Heard[w].type]),
             heard' = [heard EXCEPT ![s] = Heard[w]]
      PROVE  (\A t \in Stub : AsksWhatWasHeard(t)') /\ published' = published
  <2> PICK fields : fields = Heard[w]
    OBVIOUS
  <2> PICK question : question = [rrLabel |-> fields.label, rrType |-> fields.type]
    OBVIOUS
  <2>1. iq' = [iq EXCEPT ![s] = StartIQ(question)] /\ published' = published
    BY <1>3 DEF OnInterest
  <2>2. question \in Query
    BY HeardType DEF Query, QueryFields
  <2>3. StartIQ(question).query = question
    BY <2>2, StartIQType
  <2>4. AsksWhatWasHeard(s)'
    <3>1. heard'[s] = fields /\ iq'[s].query = question
      BY <1>1, <1>3, <2>1, <2>3
    <3>2. QED
      BY <3>1 DEF AsksWhatWasHeard
  <2>5. ASSUME NEW t \in Stub, t # s PROVE AsksWhatWasHeard(t)'
    <3>1. heard'[t] = heard[t] /\ iq'[t] = iq[t]
      BY <1>1, <1>3, <2>1, <2>5
    <3>2. QED
      BY <1>1, <3>1 DEF AsksWhatWasHeard
  <2>6. QED
    BY <2>1, <2>4, <2>5
<1>4. QED
  BY <1>2, <1>3 DEF ExpressInterest

\* Data of an answered stub that dig takes are for dig's question.
LEMMA TakesItsOwn ==
  ASSUME DistinctiveNames, DigInv, NEW s \in Stub, NEW w \in DigQuestion,
         GetPrefix(AnswerName(heard[s]), Len(ToInterest(w))) = ToInterest(w)
  PROVE  iq[s].query.rrLabel = w.label /\ iq[s].query.rrType = w.type
<1>1. /\ heard[s] = DefaultFields \/ \E v \in DigQuestion : heard[s] = Heard[v]
      /\ iq[s].query = [rrLabel |-> heard[s].label, rrType |-> heard[s].type]
  BY DEF DigInv, AsksWhatWasHeard
<1>2. heard[s] # DefaultFields
  BY DefaultIsNoAnswer
<1>3. heard[s].label = w.label /\ heard[s].type = w.type
  BY <1>1, <1>2, OwnAnswer
<1>4. QED
  BY <1>1, <1>3

LEMMA StepDigInv ==
  ASSUME DistinctiveNames
  PROVE  DigInv /\ [DigNext]_digVars => DigInv'
<1> SUFFICES ASSUME DigInv, [DigNext]_digVars PROVE DigInv'
  OBVIOUS
<1>1. DigTyped'
  BY StepDigTyped DEF DigInv
<1>2. /\ DigTyped /\ heard \in [Stub -> QueryFields] /\ dig \in [Dig -> DigState]
      /\ wants \in [Dig -> DigQuestion] /\ got \in [Dig -> Response]
      /\ \A s \in Stub : AsksWhatWasHeard(s)
  BY DEF DigInv, DigTyped, DigTypeOK
<1> DEFINE Own(d) == dig[d] = "success" => WasPublishedFor(wants[d].label, wants[d].type, got[d])
<1>3. \A d \in Dig : Own(d)
  BY DEF DigInv
<1>4. ASSUME published \subseteq published', NEW d \in Dig,
             wants'[d] = wants[d], got'[d] = got[d], dig'[d] = dig[d]
      PROVE  Own(d)'
  <2> PICK label, type, response :
        label = wants[d].label /\ type = wants[d].type /\ response = got[d]
    OBVIOUS
  <2>1. dig[d] = "success" => WasPublishedFor(label, type, response)'
    BY <1>3, <1>4, PublishedStays
  <2>2. QED
    BY <1>4, <2>1
<1>5. ASSUME \A t \in Stub : iq'[t].query = iq[t].query, heard' = heard
      PROVE  \A t \in Stub : AsksWhatWasHeard(t)'
  BY <1>2, <1>5 DEF AsksWhatWasHeard
<1>6. ASSUME UNCHANGED vars PROVE published' = published /\ iq' = iq
  BY <1>6 DEF vars
<1>7. ASSUME NEW d \in Dig, NEW w \in DigQuestion, StartDig(d, w) PROVE DigInv'
  <2>1. (\A t \in Stub : AsksWhatWasHeard(t)') /\ published' = published
    BY <1>7, ExpressInterestHeard DEF StartDig
  <2>2. /\ dig' = [dig EXCEPT ![d] = "waiting"] /\ wants' = [wants EXCEPT ![d] = w]
        /\ got' = [got EXCEPT ![d] = InitialResponse]
    BY <1>7 DEF StartDig
  <2>3. \A c \in Dig : Own(c)'
    <3>1. dig'[d] # "success"
      BY <1>2, <2>2
    <3>2. \A c \in Dig : c # d => dig'[c] = dig[c] /\ wants'[c] = wants[c] /\ got'[c] = got[c]
      BY <1>2, <2>2
    <3>3. QED
      BY <1>4, <2>1, <3>1, <3>2
  <2>4. QED
    BY <1>1, <2>1, <2>3 DEF DigInv
<1>8. ASSUME NEW d \in Dig, OnDigData(d) PROVE DigInv'
  <2>1. PICK s \in Stub :
          /\ status[s] = "answered"
          /\ GetPrefix(AnswerName(heard[s]), Len(ToInterest(wants[d]))) = ToInterest(wants[d])
          /\ got' = [got EXCEPT ![d] = iq[s].lastResponse]
    BY <1>8 DEF OnDigData
  <2>2. /\ dig' = [dig EXCEPT ![d] = "success"] /\ UNCHANGED vars
        /\ heard' = heard /\ wants' = wants
    BY <1>8 DEF OnDigData
  <2>3. published' = published /\ iq' = iq
    BY <1>6, <2>2
  <2>4. Own(d)'
    <3> PICK w \in DigQuestion : w = wants[d]
      BY <1>2
    <3> PICK response : response = iq[s].lastResponse
      OBVIOUS
    <3>1. WasPublishedFor(w.label, w.type, response)
      <4>1. iq[s].query.rrLabel = w.label /\ iq[s].query.rrType = w.type
        BY <2>1, TakesItsOwn
      <4>2. QED
        BY <1>2, <2>1, <4>1, AnsweredIsPublished
    <3>2. WasPublishedFor(w.label, w.type, response)'
      BY <2>3, <3>1, PublishedStays
    <3>3. wants'[d] = w /\ got'[d] = response
      BY <1>2, <2>1, <2>2
    <3>4. QED
      BY <3>2, <3>3
  <2>5. \A c \in Dig : c # d => dig'[c] = dig[c] /\ wants'[c] = wants[c] /\ got'[c] = got[c]
    BY <1>2, <2>1, <2>2
  <2>6. \A c \in Dig : Own(c)'
    BY <1>4, <2>3, <2>4, <2>5
  <2>7. \A t \in Stub : AsksWhatWasHeard(t)'
    BY <1>5, <2>2, <2>3
  <2>8. QED
    BY <1>1, <2>6, <2>7 DEF DigInv
<1>9. ASSUME NEW d \in Dig, GiveUp(d) \/ FaceFails(d) PROVE DigInv'
  <2>1. /\ dig' = [dig EXCEPT ![d] = "failed"] /\ UNCHANGED vars
        /\ heard' = heard /\ wants' = wants /\ got' = got
    BY <1>9 DEF GiveUp, FaceFails
  <2>2. published' = published /\ iq' = iq
    BY <1>6, <2>1
  <2>3. \A c \in Dig : Own(c)'
    <3>1. dig'[d] # "success"
      BY <1>2, <2>1
    <3>2. \A c \in Dig : c # d => dig'[c] = dig[c]
      BY <1>2, <2>1
    <3>3. QED
      BY <1>4, <2>1, <2>2, <3>1, <3>2
  <2>4. \A t \in Stub : AsksWhatWasHeard(t)'
    BY <1>5, <2>1, <2>2
  <2>5. QED
    BY <1>1, <2>3, <2>4 DEF DigInv
<1>10. ASSUME NEW d \in Dig, TryAgain(d) PROVE DigInv'
  <2>1. wants[d] \in DigQuestion
    BY <1>2
  <2>2. (\A t \in Stub : AsksWhatWasHeard(t)') /\ published' = published
    BY <1>10, <2>1, ExpressInterestHeard DEF TryAgain
  <2>3. dig' = dig /\ wants' = wants /\ got' = got
    BY <1>10 DEF TryAgain
  <2>4. \A c \in Dig : Own(c)'
    BY <1>4, <2>2, <2>3
  <2>5. QED
    BY <1>1, <2>2, <2>4 DEF DigInv
<1>11. CASE ResolverStep \/ UNCHANGED digVars
  <2>1. heard' = heard /\ dig' = dig /\ wants' = wants /\ got' = got
    BY <1>11 DEF ResolverStep, digVars, digOnly
  <2>2. \A t \in Stub : iq'[t].query = iq[t].query /\ published \subseteq published'
    <3>1. \/ \E s \in Stub : \/ ServerOnInterest(s) \/ CacheReply(s) \/ ForeignReply(s)
                             \/ OnData(s) \/ OnTimeout(s)
          \/ Stop \/ Run \/ DynamicUpdate \/ UNCHANGED vars
      BY <1>11 DEF ResolverStep, digVars
    <3>2. QED
      BY <1>2, <3>1, NextKeepsQueries
  <2>3. published \subseteq published'
    BY <1>11 DEF ResolverStep, ServerOnInterest, CacheReply, ForeignReply, OnData, OnTimeout,
                 Stop, Run, DynamicUpdate, Update, digVars, vars
  <2>4. \A c \in Dig : Own(c)'
    BY <1>4, <2>1, <2>3
  <2>5. \A t \in Stub : AsksWhatWasHeard(t)'
    BY <1>5, <2>1, <2>2
  <2>6. QED
    BY <1>1, <2>4, <2>5 DEF DigInv
<1>12. QED
  BY <1>7, <1>8, <1>9, <1>10, <1>11 DEF DigNext

(***************************************************************************)
(* What dig prints was published for the name and type it was called with,  *)
(* whichever try, other dig or earlier run the Data was meant for and       *)
(* however the resolver read its Interest: the names of two different       *)
(* questions never extend one another, NameDig::toInterest and onData.      *)
(***************************************************************************)
THEOREM DigGotItsOwnHolds == DistinctiveNames /\ DigSpec => []DigGotItsOwn
<1>1. DigInv => DigGotItsOwn
  BY DEF DigInv, DigGotItsOwn, WasPublishedFor
<1>2. DistinctiveNames => (DigInv /\ [DigNext]_digVars => DigInv')
  BY StepDigInv
<1>3. CASE DistinctiveNames
  <2>1. DigInv /\ [DigNext]_digVars => DigInv'
    BY <1>2, <1>3
  <2>2. DigSpec => []DigGotItsOwn
    BY <1>1, <2>1, InitDigInv, PTL DEF DigSpec
  <2>3. QED
    BY <2>2
<1>4. CASE ~DistinctiveNames
  BY <1>4
<1>5. QED
  BY <1>3, <1>4

=============================================================================
