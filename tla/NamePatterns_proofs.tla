------------------------ MODULE NamePatterns_proofs ------------------------
(***************************************************************************)
(* Proofs about the names of queries and updates and what the expressions    *)
(* of ndns-label.hpp read out of them.                                      *)
(***************************************************************************)
EXTENDS NamePatterns, NameServer_proofs

-----------------------------------------------------------------------------
\* The parts of a query's name, and where its marker and its type stand.
HintPart(q) == IF q.hint = << >> THEN << >> ELSE Append(q.hint, HintMark)

MarkerAt(q) == Len(HintPart(q)) + Len(q.zone) + 1

TypeAt(q) == MarkerAt(q) + Len(q.label) + 1

LEMMA MarksAreComponents ==
  /\ \A m \in Marker : m \in Component /\ Ending[m] = m /\ Stem[m] = << >>
  /\ \A t \in AnyType : t \in Component /\ Ending[t] = ""
  /\ \A t \in RRType : t \in AnyType /\ Beginning[t] = t
  /\ {HintMark, Version, SignedUpdate} \subseteq Component
  /\ Beginning[Version] = "" /\ Beginning[SignedUpdate] = ""
  /\ \A m \in Marker : m # "" /\ m # HintMark
  /\ "" \notin RRType
BY NamePatternsAssumption DEF AnyType, Marker, RRType, HintMark, Version, SignedUpdate

\* This is the query's name with that tail, component by component.
IsNameOf(name, q, tail) ==
  /\ Len(HintPart(q)) \in Nat /\ MarkerAt(q) \in Nat /\ TypeAt(q) \in Nat
  /\ Len(q.zone) \in Nat /\ Len(q.label) \in Nat /\ Len(tail) \in Nat
  /\ HintPart(q) \in Name /\ name \in Name
  /\ MarkerAt(q) = Len(HintPart(q)) + Len(q.zone) + 1
  /\ TypeAt(q) = MarkerAt(q) + Len(q.label) + 1
  /\ Len(name) = TypeAt(q) + Len(tail)
  /\ \A j \in 1 .. Len(HintPart(q)) : name[j] = HintPart(q)[j]
  /\ \A j \in 1 .. Len(q.zone) : name[Len(HintPart(q)) + j] = q.zone[j]
  /\ name[MarkerAt(q)] = q.queryType
  /\ \A j \in 1 .. Len(q.label) : name[MarkerAt(q) + j] = q.label[j]
  /\ name[TypeAt(q)] = q.type
  /\ \A j \in 1 .. Len(tail) : name[TypeAt(q) + j] = tail[j]

LEMMA QueryNameIs ==
  ASSUME NEW q \in QueryFields, NEW tail \in Name
  PROVE  IsNameOf(QueryName(q) \o tail, q, tail)
<1>1. /\ q.hint \in Name /\ q.zone \in Name /\ q.label \in Name
      /\ q.queryType \in Component /\ q.type \in Component /\ HintMark \in Component
  BY MarksAreComponents DEF QueryFields
<1>2. HintPart(q) \in Name
  BY <1>1, EmptySeq, AppendProperties DEF HintPart, Name
<1>3. PICK h \in Nat, z \in Nat, n \in Nat, k \in Nat :
        h = Len(HintPart(q)) /\ z = Len(q.zone) /\ n = Len(q.label) /\ k = Len(tail)
  BY <1>1, <1>2, LenProperties DEF Name
<1> DEFINE a == HintPart(q) \o q.zone
           mark == <<q.queryType>>
           b == a \o mark
           c == b \o q.label
           type == <<q.type>>
           d == c \o type
           e == d \o tail
<1>4. /\ mark \in Name /\ Len(mark) = 1 /\ mark[1] = q.queryType
      /\ type \in Name /\ Len(type) = 1 /\ type[1] = q.type
  BY <1>1 DEF Name
<1>5. /\ a \in Name /\ Len(a) = h + z
      /\ \A j \in 1 .. h : a[j] = HintPart(q)[j]
      /\ \A j \in 1 .. z : a[h + j] = q.zone[j]
  BY <1>1, <1>2, <1>3, Concatenated
<1> PICK p \in Nat, i \in Nat, s \in Nat, t \in Nat : p = h + z /\ i = p + 1 /\ s = i + n /\ t = s + 1
  OBVIOUS
<1>6. /\ b \in Name /\ Len(b) = i
      /\ \A j \in 1 .. p : b[j] = a[j]
      /\ b[i] = q.queryType
  <2> HIDE DEF a, mark
  <2>1. /\ b \in Name /\ Len(b) = Len(a) + Len(mark)
        /\ \A j \in 1 .. Len(a) : b[j] = a[j]
        /\ \A j \in 1 .. Len(mark) : b[Len(a) + j] = mark[j]
    BY <1>4, <1>5, Concatenated
  <2>2. b[Len(a) + 1] = mark[1]
    BY <1>4, <2>1
  <2>3. Len(a) = p
    BY <1>5
  <2>4. QED
    BY <1>4, <1>5, <2>1, <2>2, <2>3
<1>7. /\ c \in Name /\ Len(c) = s
      /\ \A j \in 1 .. i : c[j] = b[j]
      /\ \A j \in 1 .. n : c[i + j] = q.label[j]
  <2> HIDE DEF b
  <2>1. /\ c \in Name /\ Len(c) = Len(b) + Len(q.label)
        /\ \A j \in 1 .. Len(b) : c[j] = b[j]
        /\ \A j \in 1 .. Len(q.label) : c[Len(b) + j] = q.label[j]
    BY <1>1, <1>6, Concatenated
  <2>2. QED
    BY <1>3, <1>6, <2>1
<1>8. /\ d \in Name /\ Len(d) = t
      /\ \A j \in 1 .. s : d[j] = c[j]
      /\ d[t] = q.type
  <2> HIDE DEF c, type
  <2>1. /\ d \in Name /\ Len(d) = Len(c) + Len(type)
        /\ \A j \in 1 .. Len(c) : d[j] = c[j]
        /\ \A j \in 1 .. Len(type) : d[Len(c) + j] = type[j]
    BY <1>4, <1>7, Concatenated
  <2>2. QED
    BY <1>4, <1>7, <2>1
<1>9. /\ e \in Name /\ Len(e) = t + k
      /\ \A j \in 1 .. t : e[j] = d[j]
      /\ \A j \in 1 .. k : e[t + j] = tail[j]
  <2> HIDE DEF d
  <2>1. /\ e \in Name /\ Len(e) = Len(d) + Len(tail)
        /\ \A j \in 1 .. Len(d) : e[j] = d[j]
        /\ \A j \in 1 .. Len(tail) : e[Len(d) + j] = tail[j]
    BY <1>8, Concatenated
  <2>2. QED
    BY <1>3, <1>8, <2>1
<1>10. QueryName(q) \o tail = e
  BY DEF QueryName, HintPart
<1> HIDE DEF a, b, c, d, e, mark, type
<1>11. MarkerAt(q) = i /\ TypeAt(q) = t
  BY <1>3 DEF MarkerAt, TypeAt
<1>12. \A j \in 1 .. h : e[j] = HintPart(q)[j]
  <2> SUFFICES ASSUME NEW j \in 1 .. h PROVE e[j] = HintPart(q)[j]
    OBVIOUS
  <2>1. j \in 1 .. p /\ j \in 1 .. i /\ j \in 1 .. s /\ j \in 1 .. t
    OBVIOUS
  <2>2. QED
    BY <1>5, <1>6, <1>7, <1>8, <1>9, <2>1
<1>13. \A j \in 1 .. z : e[h + j] = q.zone[j]
  <2> SUFFICES ASSUME NEW j \in 1 .. z PROVE e[h + j] = q.zone[j]
    OBVIOUS
  <2>1. h + j \in 1 .. p
    OBVIOUS
  <2>2. QED
    BY <1>5, <1>6, <1>7, <1>8, <1>9, <2>1
<1>14. e[i] = q.queryType
  <2>1. i \in 1 .. i /\ i \in 1 .. s /\ i \in 1 .. t
    OBVIOUS
  <2>2. QED
    BY <2>1, <1>6, <1>7, <1>8, <1>9
<1>15. \A j \in 1 .. n : e[i + j] = q.label[j]
  <2> SUFFICES ASSUME NEW j \in 1 .. n PROVE e[i + j] = q.label[j]
    OBVIOUS
  <2>1. i + j \in 1 .. s
    OBVIOUS
  <2>2. QED
    BY <1>7, <1>8, <1>9, <2>1
<1>16. e[t] = q.type
  <2>1. t \in 1 .. t
    OBVIOUS
  <2>2. QED
    BY <1>8, <1>9, <2>1
<1>17. QED
  <2>1. i = h + z + 1 /\ t = i + n + 1
    OBVIOUS
  <2>2. QED
    BY <1>2, <1>3, <1>9, <1>10, <1>11, <1>12, <1>13, <1>14, <1>15, <1>16, <2>1 DEF IsNameOf

\* The patterns are greedy: they take the last place that leaves a match.
LEMMA MaxIs ==
  ASSUME NEW S \in SUBSET Nat, NEW m \in S, \A x \in S : x <= m
  PROVE  Max(S) = m
<1>1. m \in Nat /\ \A x \in S : x \in Nat
  OBVIOUS
<1>2. \A y \in S : m >= y
  BY <1>1
<1>3. ASSUME NEW x \in S, \A y \in S : x >= y PROVE x = m
  <2>1. x \in Nat /\ x <= m /\ x >= m
    BY <1>1, <1>3
  <2>2. QED
    BY <1>1, <2>1
<1>4. QED
  BY <1>2, <1>3 DEF Max

\* The expression for these markers and types is the one for queries like q.
IsPatternFor(q, markers, types) ==
  /\ markers \subseteq Marker /\ q.queryType \in markers
  /\ "" \notin types /\ q.type \in types /\ Beginning[q.type] = q.type

NoTypeIn(tail) == \A j \in 1 .. Len(tail) : Beginning[tail[j]] = ""

\* What the expressions see in the name of a Plain query: its marker is the
\* last they can take, its type the last type after it.
LEMMA PlainCuts ==
  ASSUME NEW q \in QueryFields, Plain(q), NEW tail \in Name, NoTypeIn(tail),
         NEW markers, NEW types, IsPatternFor(q, markers, types)
  PROVE  LET name == QueryName(q) \o tail IN
         /\ Cuts(name, markers, types) \in SUBSET Nat
         /\ MarkerAt(q) \in Cuts(name, markers, types)
         /\ Max(Cuts(name, markers, types)) = MarkerAt(q)
         /\ Max(TypesAfter(name, types, MarkerAt(q))) = TypeAt(q)
<1> DEFINE name == QueryName(q) \o tail
           IsType(u) == Beginning[name[u]] \in types
           IsMark(j) == Ending[name[j]] \in markers
           After(j) == TypesAfter(name, types, j)
           C == Cuts(name, markers, types)
           i == MarkerAt(q)
           t == TypeAt(q)
           n == Len(q.label)
           k == Len(tail)
<1>1. /\ i \in Nat /\ t \in Nat /\ n \in Nat /\ k \in Nat
      /\ i = Len(HintPart(q)) + Len(q.zone) + 1 /\ t = i + n + 1
      /\ Len(HintPart(q)) \in Nat /\ Len(q.zone) \in Nat
      /\ name \in Name /\ Len(name) = t + k
      /\ name[i] = q.queryType
      /\ \A j \in 1 .. n : name[i + j] = q.label[j]
      /\ name[t] = q.type
      /\ \A j \in 1 .. k : name[t + j] = tail[j]
  <2> HIDE DEF name, i, t, n, k, C, After, IsType, IsMark
  <2>1. IsNameOf(name, q, tail)
    BY QueryNameIs DEF name
  <2>2. QED
    BY <2>1 DEF IsNameOf, i, t, n, k
<1> HIDE DEF name
<1>2. n >= 1 /\ i >= 1
  <2>1. q.label \in Seq(Component) /\ q.label # << >>
    BY DEF Plain, QueryFields, Name
  <2>2. n # 0
    BY <2>1, EmptySeq
  <2> HIDE DEF i, t, n, k
  <2>3. QED
    BY <1>1, <2>2
<1>3. IsType(t) /\ IsMark(i)
  BY <1>1, MarksAreComponents DEF IsPatternFor
<1>4. \A j \in 1 .. k : ~IsType(t + j)
  BY <1>1 DEF NoTypeIn, IsPatternFor
<1>5. \A j \in 1 .. n - 1 : ~IsMark(i + j)
  <2> SUFFICES ASSUME NEW j \in 1 .. n - 1 PROVE ~IsMark(i + j)
    OBVIOUS
  <2>1. j \in 1 .. n
    OBVIOUS
  <2>2. name[i + j] = q.label[j]
    BY <1>1, <2>1
  <2>3. Ending[q.label[j]] = ""
    BY DEF Plain
  <2>4. QED
    BY <2>2, <2>3, MarksAreComponents DEF IsPatternFor
<1>6. /\ \A j : After(j) = {u \in j + 2 .. t + k : IsType(u)}
      /\ C = {j \in 1 .. t + k : IsMark(j) /\ After(j) # {}}
  <2>1. DOMAIN name = 1 .. t + k
    BY <1>1, LenProperties DEF Name
  <2>2. QED
    BY <1>1, <2>1 DEF TypesAfter, Cuts
<1> HIDE DEF IsType, IsMark, After, C, i, t, n, k
<1> /\ i \in Nat /\ t \in Nat /\ n \in Nat /\ k \in Nat
    /\ i >= 1 /\ n >= 1 /\ t = i + n + 1
  BY <1>1, <1>2
<1>7. \A u \in Nat : u > t /\ u <= t + k => ~IsType(u)
  <2> SUFFICES ASSUME NEW u \in Nat, u > t, u <= t + k PROVE ~IsType(u)
    OBVIOUS
  <2>1. u - t \in 1 .. k /\ u = t + (u - t)
    OBVIOUS
  <2>2. QED
    BY <1>4, <2>1
<1>8. /\ After(i) \in SUBSET Nat /\ t \in After(i)
      /\ \A u \in After(i) : u <= t
  <2>1. After(i) = {u \in i + 2 .. t + k : IsType(u)}
    BY <1>6
  <2>2. t \in i + 2 .. t + k
    OBVIOUS
  <2>3. ASSUME NEW u \in After(i) PROVE u \in Nat /\ u <= t
    <3>1. u \in i + 2 .. t + k /\ IsType(u)
      BY <2>1
    <3>2. QED
      BY <1>7, <3>1
  <2>4. QED
    BY <1>3, <2>1, <2>2, <2>3
<1>9. C \in SUBSET Nat /\ i \in C
  <2>1. i \in 1 .. t + k /\ 1 .. t + k \subseteq Nat
    OBVIOUS
  <2>2. QED
    BY <1>3, <1>6, <1>8, <2>1
<1>10. ASSUME NEW j \in C PROVE j <= i
  <2>1. j \in Nat /\ IsMark(j)
    BY <1>6
  <2>2. PICK u \in Nat : u >= j + 2 /\ u <= t + k /\ IsType(u)
    <3>1. After(j) = {u \in j + 2 .. t + k : IsType(u)} /\ After(j) # {}
      BY <1>6
    <3>2. \A u \in j + 2 .. t + k : u \in Nat /\ u >= j + 2 /\ u <= t + k
      BY <2>1
    <3>3. QED
      BY <3>1, <3>2
  <2>3. u <= t
    BY <1>7, <2>2
  <2> SUFFICES ASSUME j > i PROVE FALSE
    BY <2>1
  <2>4. j - i \in 1 .. n - 1 /\ j = i + (j - i)
    BY <2>1, <2>2, <2>3
  <2>5. QED
    BY <1>5, <2>1, <2>4
<1>11. Max(C) = i /\ Max(After(i)) = t
  BY <1>8, <1>9, <1>10, MaxIs
<1>12. QED
  BY <1>9, <1>11 DEF C, After, i, t, name

\* Where the hint of a name ends: Fields looks for its last mark.
HintMarks(name, i) == {h \in 1 .. i - 1 : name[h] = HintMark} \cup {0}

LEMMA HintPartIs ==
  ASSUME NEW q \in QueryFields
  PROVE  /\ q.hint = << >> => HintPart(q) = << >> /\ Len(HintPart(q)) = 0
         /\ q.hint # << >> => /\ Len(HintPart(q)) = Len(q.hint) + 1
                              /\ HintPart(q)[Len(HintPart(q))] = HintMark
                              /\ \A j \in 1 .. Len(q.hint) : HintPart(q)[j] = q.hint[j]
         /\ Len(q.hint) \in Nat
<1>1. q.hint \in Seq(Component) /\ HintMark \in Component
  BY MarksAreComponents DEF QueryFields, Name
<1>2. Len(q.hint) \in Nat
  BY <1>1, LenProperties
<1>3. Len(<< >>) = 0
  OBVIOUS
<1>4. CASE q.hint = << >>
  BY <1>2, <1>3, <1>4 DEF HintPart
<1>5. CASE q.hint # << >>
  <2>1. HintPart(q) = Append(q.hint, HintMark)
    BY <1>5 DEF HintPart
  <2>2. /\ Len(Append(q.hint, HintMark)) = Len(q.hint) + 1
        /\ Append(q.hint, HintMark)[Len(q.hint) + 1] = HintMark
        /\ \A j \in 1 .. Len(q.hint) : Append(q.hint, HintMark)[j] = q.hint[j]
    BY <1>1, <1>2, AppendProperties
  <2>3. QED
    BY <1>2, <1>5, <2>1, <2>2
<1>6. QED
  BY <1>4, <1>5

LEMMA PlainHint ==
  ASSUME NEW q \in QueryFields, Plain(q), NEW tail \in Name
  PROVE  Max(HintMarks(QueryName(q) \o tail, MarkerAt(q))) = Len(HintPart(q))
<1> DEFINE name == QueryName(q) \o tail
           h == Len(HintPart(q))
           z == Len(q.zone)
           i == MarkerAt(q)
           S == HintMarks(name, i)
<1>1. /\ h \in Nat /\ z \in Nat /\ i \in Nat /\ i = h + z + 1
      /\ \A j \in 1 .. h : name[j] = HintPart(q)[j]
      /\ \A j \in 1 .. z : name[h + j] = q.zone[j]
  <2> HIDE DEF name, h, z, i, S
  <2>1. IsNameOf(name, q, tail)
    BY QueryNameIs DEF name
  <2>2. QED
    BY <2>1 DEF IsNameOf, h, z, i
<1>2. DOMAIN q.zone = 1 .. z
  BY LenProperties DEF QueryFields, Name
<1>3. h # 0 => HintPart(q)[h] = HintMark
  BY HintPartIs
<1> HIDE DEF name, h, z, i
<1>4. h \in S /\ S \in SUBSET Nat
  BY <1>1, <1>3 DEF HintMarks
<1>5. ASSUME NEW j \in S, j > h PROVE FALSE
  <2>1. j \in 1 .. i - 1 /\ name[j] = HintMark
    BY <1>1, <1>5 DEF HintMarks
  <2>2. j - h \in 1 .. z /\ j = h + (j - h)
    BY <1>1, <1>5, <2>1
  <2>3. q.zone[j - h] = HintMark
    BY <1>1, <2>1, <2>2
  <2>4. QED
    BY <1>2, <2>2, <2>3 DEF Plain
<1>6. \A j \in S : j <= h
  BY <1>1, <1>4, <1>5
<1>7. Max(S) = h
  BY <1>4, <1>6, MaxIs
<1>8. QED
  BY <1>7 DEF S, name, h, i

LEMMA PlainPieces ==
  ASSUME NEW q \in QueryFields, Plain(q), NEW tail \in Name
  PROVE  LET name == QueryName(q) \o tail
             h == Len(HintPart(q)) IN
         /\ SubSeq(name, 1, h - 1) = q.hint
         /\ SubSeq(name, h + 1, MarkerAt(q) - 1) = q.zone
         /\ SubSeq(name, MarkerAt(q) + 1, TypeAt(q) - 1) = q.label
         /\ name[MarkerAt(q)] = q.queryType
         /\ name[TypeAt(q)] = q.type
<1> DEFINE name == QueryName(q) \o tail
           h == Len(HintPart(q))
           z == Len(q.zone)
           i == MarkerAt(q)
           n == Len(q.label)
           t == TypeAt(q)
           k == Len(tail)
<1>1. /\ h \in Nat /\ z \in Nat /\ i \in Nat /\ n \in Nat /\ t \in Nat /\ k \in Nat
      /\ i = h + z + 1 /\ t = i + n + 1
      /\ name \in Name /\ Len(name) = t + k
      /\ \A j \in 1 .. h : name[j] = HintPart(q)[j]
      /\ \A j \in 1 .. z : name[h + j] = q.zone[j]
      /\ name[i] = q.queryType
      /\ \A j \in 1 .. n : name[i + j] = q.label[j]
      /\ name[t] = q.type
  <2> HIDE DEF name, h, z, i, n, t, k
  <2>1. IsNameOf(name, q, tail)
    BY QueryNameIs DEF name
  <2>2. QED
    BY <2>1 DEF IsNameOf, h, z, i, n, t, k
<1>2. q.hint \in Name /\ q.zone \in Name /\ q.label \in Name
  BY DEF QueryFields
<1>3. SubSeq(name, h + 1, h + z) = q.zone
  <2> HIDE DEF name, h, i, n, t, k
  <2>1. h + Len(q.zone) <= Len(name)
    <3> HIDE DEF z
    <3>1. h + z <= Len(name)
      BY <1>1
    <3>2. QED
      BY <3>1 DEF z
  <2>2. QED
    BY <1>1, <1>2, <2>1, PieceIs
<1>4. SubSeq(name, i + 1, i + n) = q.label
  <2> HIDE DEF name, h, i, z, t, k
  <2>1. i + n <= Len(name) /\ n = Len(q.label)
    <3> HIDE DEF n
    <3>1. i + n <= Len(name)
      BY <1>1
    <3>2. QED
      BY <3>1 DEF n
  <2>2. i \in Nat /\ name \in Name /\ \A j \in 1 .. Len(q.label) : name[i + j] = q.label[j]
    BY <1>1
  <2>3. QED
    BY <1>2, <2>1, <2>2, PieceIs
<1>5. SubSeq(name, 1, h - 1) = q.hint
  <2> HIDE DEF name, i, z, n, t, k
  <2>1. CASE q.hint = << >>
    <3>1. h - 1 < 1 /\ h - 1 \in Int /\ 1 \in Int
      BY <2>1, HintPartIs
    <3>2. QED
      BY <2>1, <3>1, SubSeqEmpty
  <2>2. CASE q.hint # << >>
    <3> DEFINE m == Len(q.hint)
    <3>1. m \in Nat /\ h = m + 1 /\ \A j \in 1 .. m : HintPart(q)[j] = q.hint[j]
      BY <2>2, HintPartIs
    <3> HIDE DEF h
    <3>2. \A j \in 1 .. m : name[0 + j] = q.hint[j]
      BY <1>1, <3>1
    <3>3. 0 + Len(q.hint) <= Len(name)
      BY <1>1, <3>1
    <3>4. SubSeq(name, 0 + 1, 0 + Len(q.hint)) = q.hint
      BY <1>1, <1>2, <3>2, <3>3, PieceIs
    <3>5. 0 + 1 = 1 /\ 0 + Len(q.hint) = h - 1
      BY <3>1
    <3>6. QED
      BY <3>4, <3>5
  <2>3. QED
    BY <2>1, <2>2
<1>6. h + z = i - 1 /\ i + n = t - 1
  <2> HIDE DEF h, z, i, n, t
  <2>1. QED
    BY <1>1
<1>7. QED
  BY <1>1, <1>3, <1>4, <1>5, <1>6

\* What a client writes into the name of a Plain query, or of an update, is
\* what the server reads out of it: Query::toInterest and fromInterest.
THEOREM ReadBack ==
  ASSUME NEW q \in QueryFields, Plain(q), NEW tail \in Name, NoTypeIn(tail),
         NEW markers, NEW types, IsPatternFor(q, markers, types)
  PROVE  /\ Cuts(QueryName(q) \o tail, markers, types) # {}
         /\ Fields(QueryName(q) \o tail, markers, types) = q
<1> DEFINE name == QueryName(q) \o tail
           i == MarkerAt(q)
           t == TypeAt(q)
           start == Len(HintPart(q))
<1>1. i \in Cuts(name, markers, types) /\ Max(Cuts(name, markers, types)) = i
      /\ Max(TypesAfter(name, types, i)) = t
  BY PlainCuts
<1>2. Max({h \in 1 .. i - 1 : name[h] = HintMark} \cup {0}) = start
  BY PlainHint DEF HintMarks
<1>3. /\ SubSeq(name, 1, start - 1) = q.hint
      /\ SubSeq(name, start + 1, i - 1) = q.zone
      /\ SubSeq(name, i + 1, t - 1) = q.label
      /\ name[i] = q.queryType /\ name[t] = q.type
  BY PlainPieces
<1>4. /\ Stem[q.queryType] = << >> /\ Ending[q.queryType] = q.queryType
      /\ Beginning[q.type] = q.type
  BY MarksAreComponents DEF QueryFields, IsPatternFor
<1>5. q.zone \o << >> = q.zone
  BY ConcatEmptySeq DEF QueryFields, Name
<1> HIDE DEF name, i, t, start
<1>6. Fields(name, markers, types) =
        [hint |-> SubSeq(name, 1, start - 1), zone |-> SubSeq(name, start + 1, i - 1) \o Stem[name[i]],
         queryType |-> Ending[name[i]], label |-> SubSeq(name, i + 1, t - 1), type |-> Beginning[name[t]]]
  BY <1>1, <1>2 DEF Fields
<1>7. Fields(name, markers, types) =
        [hint |-> q.hint, zone |-> q.zone, queryType |-> q.queryType, label |-> q.label, type |-> q.type]
  BY <1>3, <1>4, <1>5, <1>6
<1>8. q = [hint |-> q.hint, zone |-> q.zone, queryType |-> q.queryType, label |-> q.label, type |-> q.type]
  BY DEF QueryFields
<1>9. QED
  BY <1>1, <1>7, <1>8 DEF name

\* A match: its marker is the last with a type after it, its type the last of
\* all, and its hint ends at the last mark before the marker.
IsMatch(name, i, t, start) ==
  /\ i \in DOMAIN name /\ t \in DOMAIN name /\ i + 2 <= t
  /\ Ending[name[i]] \in Marker /\ Beginning[name[t]] \in RRType
  /\ \A j \in DOMAIN name : Ending[name[j]] \in Marker /\ j + 2 <= t => j <= i
  /\ start \in 0 .. i - 1 /\ (start # 0 => name[start] = HintMark)

FieldsAt(name, i, t, start) ==
  [ hint      |-> SubSeq(name, 1, start - 1),
    zone      |-> SubSeq(name, start + 1, i - 1) \o Stem[name[i]],
    queryType |-> Ending[name[i]],
    label     |-> SubSeq(name, i + 1, t - 1),
    type      |-> Beginning[name[t]] ]

LEMMA MatchIs ==
  ASSUME NEW name \in Name, MatchQueryName(name)
  PROVE  \E i, t, start \in Nat :
           IsMatch(name, i, t, start) /\ QueryFieldsOf(name) = FieldsAt(name, i, t, start)
<1>1. PICK len \in Nat : len = Len(name) /\ DOMAIN name = 1 .. len
  BY LenProperties DEF Name
<1> DEFINE C == Cuts(name, Marker, RRType)
           i == Max(C)
           A == TypesAfter(name, RRType, i)
           t == Max(A)
           H == {h \in 1 .. i - 1 : name[h] = HintMark} \cup {0}
           start == Max(H)
<1>2. C \in SUBSET (1 .. len) /\ C # {}
  BY <1>1 DEF Cuts, MatchQueryName
<1>3. IsFiniteSet(1 .. len)
  BY <1>1, FS_Interval
<1>4. C \in SUBSET Nat /\ IsFiniteSet(C)
  BY <1>2, <1>3, FS_Subset
<1>5. i \in C /\ \A j \in C : j <= i
  <2> HIDE DEF C
  <2>1. QED
    BY <1>2, <1>4, MaxOfFinite
<1>6. A # {} /\ Ending[name[i]] \in Marker
  BY <1>5 DEF Cuts
<1> HIDE DEF i
<1>7. i \in 1 .. len
  BY <1>2, <1>5
<1>8. A = {u \in i + 2 .. len : Beginning[name[u]] \in RRType}
  BY <1>1 DEF TypesAfter
<1>9. A \in SUBSET (1 .. len)
  BY <1>7, <1>8
<1>10. A \in SUBSET Nat /\ IsFiniteSet(A)
  BY <1>3, <1>9, FS_Subset
<1>11. t \in A
  <2> HIDE DEF A
  <2>1. QED
    BY <1>6, <1>10, MaxOfFinite
<1>12. H \in SUBSET (0 .. i - 1) /\ 0 \in H
  BY <1>7
<1>13. H \in SUBSET Nat /\ IsFiniteSet(H)
  <2>1. IsFiniteSet(0 .. i - 1) /\ 0 .. i - 1 \in SUBSET Nat
    BY <1>7, FS_Interval
  <2> HIDE DEF H
  <2>2. IsFiniteSet(H)
    BY <1>12, <2>1, FS_Subset
  <2>3. QED
    BY <1>12, <2>1, <2>2
<1>14. start \in H
  <2> HIDE DEF H
  <2>1. QED
    BY <1>12, <1>13, MaxOfFinite
<1>15. QueryFieldsOf(name) = FieldsAt(name, i, t, start)
  BY DEF QueryFieldsOf, Fields, FieldsAt, i, t, A
<1> HIDE DEF A, t, start
<1>16. t \in i + 2 .. len /\ Beginning[name[t]] \in RRType
  BY <1>8, <1>11
<1>17. start \in 0 .. i - 1 /\ (start # 0 => name[start] = HintMark)
  BY <1>7, <1>14
<1>18. ASSUME NEW j \in DOMAIN name, Ending[name[j]] \in Marker, j + 2 <= t
       PROVE  j <= i
  <2>1. t \in j + 2 .. Len(name)
    BY <1>1, <1>7, <1>16, <1>18
  <2>2. j \in C
    BY <1>16, <1>18, <2>1 DEF Cuts, TypesAfter
  <2>3. QED
    BY <1>5, <2>2
<1>19. i \in Nat /\ t \in Nat /\ start \in Nat /\ t \in 1 .. len /\ i + 2 <= t
  BY <1>7, <1>16, <1>17
<1>20. IsMatch(name, i, t, start)
  BY <1>1, <1>6, <1>7, <1>16, <1>17, <1>18, <1>19 DEF IsMatch
<1>21. QED
  BY <1>15, <1>19, <1>20

\* Whatever name the query pattern matches: fields of a query, and one of the
\* four types.
LEMMA FieldsType ==
  ASSUME NEW name \in Name, MatchQueryName(name)
  PROVE  /\ QueryFieldsOf(name) \in QueryFields
         /\ QueryFieldsOf(name).label \in Name /\ QueryFieldsOf(name).type \in RRType
<1>1. PICK i, t, start \in Nat :
        IsMatch(name, i, t, start) /\ QueryFieldsOf(name) = FieldsAt(name, i, t, start)
  BY MatchIs
<1>2. PICK len \in Nat : len = Len(name) /\ DOMAIN name = 1 .. len
  BY LenProperties DEF Name
<1>3. /\ i \in 1 .. len /\ t \in 1 .. len /\ i + 2 <= t /\ start \in 0 .. i - 1
      /\ Ending[name[i]] \in Marker /\ Beginning[name[t]] \in RRType
  BY <1>1, <1>2 DEF IsMatch
<1>4. SubSeq(name, i + 1, t - 1) \in Name
  <2>1. i + 1 \in Nat \ {0} /\ t - 1 \in Nat /\ t - 1 <= len
    BY <1>3
  <2>2. QED
    BY <1>2, <2>1, PieceOfName
<1>5. SubSeq(name, start + 1, i - 1) \o Stem[name[i]] \in Name
  <2>1. start + 1 \in Nat \ {0} /\ i - 1 \in Nat /\ i - 1 <= len
    BY <1>3
  <2>2. SubSeq(name, start + 1, i - 1) \in Name
    BY <1>2, <2>1, PieceOfName
  <2>3. name[i] \in Component
    BY <1>2, <1>3, ElementOfSeq DEF Name
  <2>4. Stem[name[i]] \in Name
    BY <2>3, NamePatternsAssumption
  <2>5. QED
    BY <2>2, <2>4, Concatenated
<1>6. SubSeq(name, 1, start - 1) \in Name
  <2>1. CASE start = 0
    <3>1. SubSeq(name, 1, start - 1) = << >>
      BY <2>1, SubSeqEmpty
    <3>2. QED
      BY <3>1, EmptySeq DEF Name
  <2>2. CASE start # 0
    <3>1. start - 1 \in Nat /\ start - 1 <= len /\ 1 \in Nat \ {0}
      BY <1>3, <2>2
    <3>2. QED
      BY <1>2, <3>1, PieceOfName
  <2>3. QED
    BY <2>1, <2>2
<1>7. Beginning[name[t]] \in AnyType
  BY <1>3 DEF AnyType
<1>8. FieldsAt(name, i, t, start) \in QueryFields
  BY <1>3, <1>4, <1>5, <1>6, <1>7 DEF FieldsAt, QueryFields
<1>9. /\ FieldsAt(name, i, t, start).label = SubSeq(name, i + 1, t - 1)
      /\ FieldsAt(name, i, t, start).type = Beginning[name[t]]
  BY DEF FieldsAt
<1>10. QED
  BY <1>1, <1>3, <1>4, <1>8, <1>9

LEMMA QueryNameType ==
  ASSUME NEW q \in QueryFields
  PROVE  QueryName(q) \in Name
<1>1. /\ q.hint \in Name /\ q.zone \in Name /\ q.label \in Name
      /\ q.queryType \in Component /\ q.type \in Component /\ HintMark \in Component
  BY MarksAreComponents DEF QueryFields
<1>2. HintPart(q) \in Name
  BY <1>1, EmptySeq, AppendProperties DEF HintPart, Name
<1>3. <<q.queryType>> \in Name /\ <<q.type>> \in Name
  BY <1>1 DEF Name
<1>4. HintPart(q) \o q.zone \o <<q.queryType>> \o q.label \o <<q.type>> \in Name
  BY <1>1, <1>2, <1>3, Concatenated
<1>5. QED
  BY <1>4 DEF QueryName, HintPart

LEMMA OneComponent ==
  ASSUME NEW c \in Component
  PROVE  <<c>> \in Name
BY DEF Name

LEMMA VersionIsNoType == <<Version>> \in Name /\ NoTypeIn(<<Version>>)
<1>1. <<Version>> \in Name
  BY MarksAreComponents, OneComponent
<1>2. Len(<<Version>>) = 1 /\ <<Version>>[1] = Version
  OBVIOUS
<1>3. \A j \in 1 .. 1 : j = 1
  OBVIOUS
<1> DEFINE tail == <<Version>>
<1> HIDE DEF tail
<1>4. \A j \in 1 .. Len(tail) : tail[j] = Version
  BY <1>2, <1>3 DEF tail
<1>5. NoTypeIn(tail)
  BY <1>4, MarksAreComponents DEF NoTypeIn
<1>6. QED
  BY <1>1, <1>5 DEF tail

=============================================================================
