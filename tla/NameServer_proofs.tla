------------------------- MODULE NameServer_proofs -------------------------
(***************************************************************************)
(* Facts about numbers, names and records that the proofs about the          *)
(* components rest on.                                                      *)
(***************************************************************************)
EXTENDS NameServer, FiniteSetsExt, FiniteSetTheorems, SequenceTheorems, TLAPS

-----------------------------------------------------------------------------
\* A finite set of numbers has a greatest one.
LEMMA MaxOfFinite ==
  ASSUME NEW S \in SUBSET Nat, IsFiniteSet(S), S # {}
  PROVE  Max(S) \in S /\ \A x \in S : x <= Max(S)
<1> DEFINE Above(x) == {y \in S : y > x}
           R == StrictSubsetOrdering(S)
           T == {U \in SUBSET S : \E x \in S : U = Above(x)}
<1>1. FiniteSubsetsOf(S) = SUBSET S
  BY FS_FiniteSubsetsOfFinite
<1>2. IsWellFoundedOn(R, SUBSET S)
  BY <1>1, FS_StrictSubsetOrderingWellFounded
<1>3. T \subseteq SUBSET S /\ T # {}
  <2>1. PICK x \in S : TRUE
    OBVIOUS
  <2>2. Above(x) \in T
    BY <2>1
  <2>3. QED
    BY <2>2
<1> HIDE DEF R
<1>4. PICK U \in T : \A V \in T : <<V, U>> \notin R
  <2> HIDE DEF T
  <2>1. QED
    BY <1>2, <1>3, WFMin
<1>5. PICK x \in S : U = Above(x)
  BY <1>4
<1>6. ASSUME NEW y \in S, y > x
      PROVE  FALSE
  <2>1. Above(y) \in T
    OBVIOUS
  <2>2. Above(y) \subseteq Above(x) /\ y \in Above(x) /\ y \notin Above(y)
    <3>1. \A z \in S : z > y => z > x
      BY <1>6
    <3>2. ~(y > y)
      BY <1>6
    <3>3. QED
      BY <1>6, <3>1, <3>2
  <2>3. <<Above(y), U>> \in R
    BY <1>4, <1>5, <2>2 DEF R, StrictSubsetOrdering
  <2>4. QED
    BY <1>4, <2>1, <2>3
<1>7. \A y \in S : x >= y
  BY <1>6
<1>8. QED
  BY <1>7 DEF Max

-----------------------------------------------------------------------------
\* A piece of a name between two of its positions.
LEMMA PieceOfName ==
  ASSUME NEW name \in Name, NEW a \in Nat \ {0}, NEW e \in Nat, e <= Len(name)
  PROVE  /\ SubSeq(name, a, e) \in Name
         /\ Len(SubSeq(name, a, e)) = IF a <= e THEN e - a + 1 ELSE 0
         /\ \A n \in 1 .. e - a + 1 : SubSeq(name, a, e)[n] = name[a + n - 1]
<1>1. Len(name) \in Nat /\ \A n \in 1 .. Len(name) : name[n] \in Component
  BY LenProperties, ElementOfSeq DEF Name
<1>2. \A n \in a .. e : name[n] \in Component
  BY <1>1
<1>3. QED
  BY <1>2, SubSeqProperties DEF Name

\* A clamped piece of a name is a name.
LEMMA PieceType ==
  ASSUME NEW name \in Name, NEW i \in Nat, NEW k \in Nat
  PROVE  /\ GetPrefix(name, k) \in Name
         /\ GetSubName(name, i, k) \in Name
         /\ GetSuffix(name, i) \in Name
<1>1. Len(name) \in Nat
  BY LenProperties DEF Name
<1>2. AtMost(k, Len(name)) \in Nat /\ AtMost(k, Len(name)) <= Len(name)
  BY <1>1 DEF AtMost
<1>3. AtMost(i + k, Len(name)) \in Nat /\ AtMost(i + k, Len(name)) <= Len(name)
  BY <1>1 DEF AtMost
<1>4. QED
  BY <1>1, <1>2, <1>3, PieceOfName, 1 \in Nat \ {0}, i + 1 \in Nat \ {0}
     DEF GetPrefix, GetSubName, GetSuffix

\* A sub-name is a leading part of the suffix that starts where it does.
LEMMA SubNameLeadsSuffix ==
  ASSUME NEW name \in Name, NEW i \in Nat, NEW k \in Nat
  PROVE  LET label == GetSubName(name, i, k) IN
         label = GetPrefix(GetSuffix(name, i), Len(label))
<1>1. PICK len \in Nat : len = Len(name)
  BY LenProperties DEF Name
<1>2. PICK e \in Nat : e = AtMost(i + k, len) /\ e <= len
  BY DEF AtMost
<1> DEFINE label == SubSeq(name, i + 1, e)
           rest == SubSeq(name, i + 1, len)
<1>3. /\ label \in Name
      /\ Len(label) = IF i + 1 <= e THEN e - (i + 1) + 1 ELSE 0
      /\ \A n \in 1 .. e - (i + 1) + 1 : label[n] = name[i + 1 + n - 1]
  BY <1>1, <1>2, PieceOfName, i + 1 \in Nat \ {0}
<1>4. /\ rest \in Name
      /\ Len(rest) = IF i + 1 <= len THEN len - (i + 1) + 1 ELSE 0
      /\ \A n \in 1 .. len - (i + 1) + 1 : rest[n] = name[i + 1 + n - 1]
  BY <1>1, PieceOfName, i + 1 \in Nat \ {0}
<1>5. GetSubName(name, i, k) = label /\ GetSuffix(name, i) = rest
  BY <1>1, <1>2 DEF GetSubName, GetSuffix
<1> HIDE DEF label, rest
<1>6. Len(label) \in Nat /\ Len(label) <= Len(rest) /\ Len(rest) \in Nat
  BY <1>2, <1>3, <1>4
<1>7. GetPrefix(rest, Len(label)) = SubSeq(rest, 1, Len(label))
  BY <1>6 DEF GetPrefix, AtMost
<1>8. PICK m \in Nat : m = Len(label)
  BY <1>6
<1>9. /\ SubSeq(rest, 1, m) \in Name
      /\ Len(SubSeq(rest, 1, m)) = IF 1 <= m THEN m - 1 + 1 ELSE 0
      /\ \A n \in 1 .. m - 1 + 1 : SubSeq(rest, 1, m)[n] = rest[1 + n - 1]
  BY <1>4, <1>6, <1>8, PieceOfName, 1 \in Nat \ {0}
<1>10. Len(SubSeq(rest, 1, m)) = m
  BY <1>9
<1>11. ASSUME NEW n \in 1 .. m
       PROVE  SubSeq(rest, 1, m)[n] = label[n]
  <2>1. SubSeq(rest, 1, m)[n] = rest[n]
    BY <1>9
  <2>2. n \in 1 .. e - (i + 1) + 1 /\ n \in 1 .. len - (i + 1) + 1
    BY <1>2, <1>3, <1>8
  <2>3. QED
    BY <1>3, <1>4, <2>1, <2>2
<1>12. SubSeq(rest, 1, m) = label
  BY <1>3, <1>8, <1>9, <1>10, <1>11, SeqEqual DEF Name
<1>13. QED
  BY <1>5, <1>7, <1>8, <1>12

\* Two parts of a name, component by component.
LEMMA Concatenated ==
  ASSUME NEW s \in Name, NEW t \in Name
  PROVE  /\ s \o t \in Name
         /\ Len(s) \in Nat /\ Len(t) \in Nat /\ Len(s \o t) = Len(s) + Len(t)
         /\ \A i \in 1 .. Len(s) : (s \o t)[i] = s[i]
         /\ \A i \in 1 .. Len(t) : (s \o t)[Len(s) + i] = t[i]
<1> PICK m \in Nat, n \in Nat : m = Len(s) /\ n = Len(t)
  BY LenProperties DEF Name
<1>1. /\ s \o t \in Name
      /\ Len(s \o t) = m + n
      /\ \A i \in 1 .. m + n : (s \o t)[i] = IF i <= m THEN s[i] ELSE t[i - m]
  BY ConcatProperties DEF Name
<1>2. \A i \in 1 .. m : i \in 1 .. m + n /\ i <= m
  OBVIOUS
<1>3. \A i \in 1 .. n : m + i \in 1 .. m + n /\ ~(m + i <= m) /\ (m + i) - m = i
  OBVIOUS
<1>4. QED
  BY <1>1, <1>2, <1>3

\* A piece of a name that is known component by component.
LEMMA PieceIs ==
  ASSUME NEW name \in Name, NEW s \in Name, NEW a \in Nat, a + Len(s) <= Len(name),
         \A j \in 1 .. Len(s) : name[a + j] = s[j]
  PROVE  SubSeq(name, a + 1, a + Len(s)) = s
<1>1. PICK n \in Nat : n = Len(s) /\ a + n <= Len(name)
  BY LenProperties DEF Name
<1> DEFINE piece == SubSeq(name, a + 1, a + n)
<1>2. /\ piece \in Name
      /\ Len(piece) = IF a + 1 <= a + n THEN (a + n) - (a + 1) + 1 ELSE 0
      /\ \A j \in 1 .. (a + n) - (a + 1) + 1 : piece[j] = name[(a + 1) + j - 1]
  <2>1. a + 1 \in Nat \ {0} /\ a + n \in Nat
    OBVIOUS
  <2>2. QED
    BY <1>1, <2>1, PieceOfName
<1> HIDE DEF piece
<1>3. Len(piece) = n
  BY <1>2
<1>4. ASSUME NEW j \in 1 .. n PROVE piece[j] = s[j]
  <2>1. j \in 1 .. (a + n) - (a + 1) + 1 /\ (a + 1) + j - 1 = a + j
    OBVIOUS
  <2>2. QED
    BY <1>1, <1>2, <2>1
<1>5. piece = s
  BY <1>1, <1>2, <1>3, <1>4, SeqEqual DEF Name
<1>6. QED
  BY <1>1, <1>5 DEF piece

-----------------------------------------------------------------------------
\* An update leaves a sequence of names.
LEMMA UpdatedType ==
  ASSUME NEW rrs \in Seq(Name), NEW action, NEW data \in Name
  PROVE  Updated(rrs, action, data) \in Seq(Name)
<1>1. Append(rrs, data) \in Seq(Name)
  BY AppendProperties
<1>2. <<data>> \in Seq(Name)
  OBVIOUS
<1>3. ASSUME NEW i \in DOMAIN rrs
      PROVE  Without(rrs, i) \in Seq(Name)
  <2>1. /\ Len(rrs) \in Nat
        /\ DOMAIN rrs = 1 .. Len(rrs)
        /\ \A j \in 1 .. Len(rrs) : rrs[j] \in Name
    BY LenProperties, ElementOfSeq
  <2>2. i \in 1 .. Len(rrs)
    BY <1>3, <2>1
  <2>3. SubSeq(rrs, 1, i - 1) \in Seq(Name)
    <3>1. \A j \in 1 .. i - 1 : rrs[j] \in Name
      BY <2>1, <2>2
    <3>2. 1 \in Int /\ i - 1 \in Int
      BY <2>2
    <3>3. QED
      BY <3>1, <3>2, SubSeqProperties
  <2>4. SubSeq(rrs, i + 1, Len(rrs)) \in Seq(Name)
    <3>1. \A j \in i + 1 .. Len(rrs) : rrs[j] \in Name
      BY <2>1, <2>2
    <3>2. i + 1 \in Int /\ Len(rrs) \in Int
      BY <2>1, <2>2
    <3>3. QED
      BY <3>1, <3>2, SubSeqProperties
  <2>5. QED
    BY <2>3, <2>4, ConcatProperties DEF Without
<1>4. ASSUME \E i \in DOMAIN rrs : rrs[i] = data
      PROVE  Without(rrs, CHOOSE i \in DOMAIN rrs : rrs[i] = data) \in Seq(Name)
  BY <1>3, <1>4
<1>5. QED
  BY <1>1, <1>2, <1>4 DEF Updated

\* Deleting one row leaves the others in their order.
LEMMA WithoutIs ==
  ASSUME NEW rrs \in Seq(Name), NEW i \in DOMAIN rrs
  PROVE  /\ Len(rrs) \in Nat /\ Without(rrs, i) \in Seq(Name)
         /\ Len(Without(rrs, i)) = Len(rrs) - 1
         /\ \A j \in 1 .. Len(rrs) - 1 :
              Without(rrs, i)[j] = IF j < i THEN rrs[j] ELSE rrs[j + 1]
<1>1. PICK n \in Nat : n = Len(rrs) /\ DOMAIN rrs = 1 .. n
  BY LenProperties
<1>2. \A j \in 1 .. n : rrs[j] \in Name
  BY <1>1, ElementOfSeq
<1>3. i \in 1 .. n
  BY <1>1
<1> DEFINE left == SubSeq(rrs, 1, i - 1)
           right == SubSeq(rrs, i + 1, n)
<1>4. /\ left \in Seq(Name) /\ Len(left) = i - 1
      /\ \A j \in 1 .. i - 1 : left[j] = rrs[j]
  <2>1. \A j \in 1 .. i - 1 : rrs[j] \in Name
    BY <1>2, <1>3
  <2>2. 1 \in Int /\ i - 1 \in Int
    BY <1>3
  <2>3. QED
    BY <1>3, <2>1, <2>2, SubSeqProperties
<1>5. /\ right \in Seq(Name) /\ Len(right) = n - i
      /\ \A j \in 1 .. n - i : right[j] = rrs[i + j]
  <2>1. \A j \in i + 1 .. n : rrs[j] \in Name
    BY <1>2, <1>3
  <2>2. i + 1 \in Int /\ n \in Int
    BY <1>3
  <2>3. QED
    BY <1>3, <2>1, <2>2, SubSeqProperties
<1> HIDE DEF left, right
<1>6. Without(rrs, i) = left \o right
  BY <1>1 DEF Without, left, right
<1>7. /\ left \o right \in Seq(Name)
      /\ Len(left \o right) = Len(left) + Len(right)
      /\ \A j \in 1 .. Len(left) + Len(right) :
           (left \o right)[j] = IF j <= Len(left) THEN left[j] ELSE right[j - Len(left)]
  BY <1>4, <1>5, ConcatProperties
<1>8. Len(left) + Len(right) = n - 1
  BY <1>3, <1>4, <1>5
<1>9. ASSUME NEW j \in 1 .. n - 1
      PROVE  (left \o right)[j] = IF j < i THEN rrs[j] ELSE rrs[j + 1]
  <2>1. CASE j < i
    BY <1>3, <1>4, <1>7, <1>8, <2>1
  <2>2. CASE ~(j < i)
    <3>1. j - (i - 1) \in 1 .. n - i /\ i + (j - (i - 1)) = j + 1 /\ ~(j <= i - 1)
      BY <1>3, <2>2
    <3>2. QED
      BY <1>3, <1>4, <1>5, <1>7, <1>8, <2>2, <3>1
  <2>3. QED
    BY <2>1, <2>2
<1>10. QED
  BY <1>1, <1>6, <1>7, <1>8, <1>9

\* No two rows of a set have the same data.
Distinct(rrs) == \A i, j \in DOMAIN rrs : rrs[i] = rrs[j] => i = j

\* Of data that are there once, REMOVE leaves nothing.
LEMMA RemovedIsGone ==
  ASSUME NEW rrs \in Seq(Name), Distinct(rrs), NEW i \in DOMAIN rrs
  PROVE  /\ Distinct(Without(rrs, i))
         /\ \A j \in DOMAIN Without(rrs, i) : Without(rrs, i)[j] # rrs[i]
<1> DEFINE without == Without(rrs, i)
<1>1. /\ Len(rrs) \in Nat /\ without \in Seq(Name)
      /\ Len(without) = Len(rrs) - 1
      /\ \A j \in 1 .. Len(rrs) - 1 : without[j] = IF j < i THEN rrs[j] ELSE rrs[j + 1]
  BY WithoutIs
<1>2. DOMAIN rrs = 1 .. Len(rrs) /\ DOMAIN without = 1 .. Len(without)
  BY <1>1, LenProperties
<1> HIDE DEF without
<1>3. DOMAIN without = 1 .. Len(rrs) - 1
  BY <1>1, <1>2
<1>4. \A j \in 1 .. Len(rrs) - 1 : j \in DOMAIN rrs /\ j + 1 \in DOMAIN rrs
  BY <1>1, <1>2
<1>5. i \in Nat
  BY <1>1, <1>2
<1> DEFINE from(j) == IF j < i THEN j ELSE j + 1
<1>6. \A j \in DOMAIN without :
        /\ without[j] = rrs[from(j)] /\ from(j) \in DOMAIN rrs /\ from(j) # i
        /\ \A k \in DOMAIN without : from(j) = from(k) => j = k
  BY <1>1, <1>3, <1>4, <1>5
<1> HIDE DEF from
<1>7. ASSUME NEW j \in DOMAIN without PROVE without[j] # rrs[i]
  BY <1>6, Zenon DEF Distinct
<1>8. ASSUME NEW j \in DOMAIN without, NEW k \in DOMAIN without, without[j] = without[k]
      PROVE  j = k
  <2>1. rrs[from(j)] = rrs[from(k)]
    BY <1>6, <1>8
  <2>2. from(j) = from(k)
    BY <1>6, <2>1 DEF Distinct
  <2>3. QED
    BY <1>6, <2>2
<1>9. QED
  BY <1>7, <1>8 DEF Distinct, without

\* An update that is executed again changes nothing: what it leaves has no
\* data twice, and is what it would leave of itself.
LEMMA UpdatedTwice ==
  ASSUME NEW rrs \in Seq(Name), Distinct(rrs), NEW action, NEW data \in Name
  PROVE  /\ Distinct(Updated(rrs, action, data))
         /\ Updated(Updated(rrs, action, data), action, data) = Updated(rrs, action, data)
<1> DEFINE once == Updated(rrs, action, data)
<1>0. Len(rrs) \in Nat /\ DOMAIN rrs = 1 .. Len(rrs)
  BY LenProperties
<1>1. CASE action = "ADD"
  <2>1. CASE \A i \in DOMAIN rrs : rrs[i] # data
    <3>1. once = Append(rrs, data)
      BY <1>1, <2>1 DEF Updated
    <3>2. /\ DOMAIN once = 1 .. Len(rrs) + 1
          /\ once[Len(rrs) + 1] = data
          /\ \A i \in 1 .. Len(rrs) : once[i] = rrs[i]
      BY <3>1, AppendProperties, LenProperties
    <3> HIDE DEF once
    <3>3. Len(rrs) + 1 \in DOMAIN once
      BY <1>0, <3>2
    <3>4. Updated(once, action, data) = once
      BY <1>1, <3>2, <3>3 DEF Updated
    <3>5. Distinct(once)
      BY <1>0, <2>1, <3>2 DEF Distinct
    <3>6. QED
      BY <3>4, <3>5 DEF once
  <2>2. CASE ~(\A i \in DOMAIN rrs : rrs[i] # data)
    <3>1. once = rrs
      BY <1>1, <2>2 DEF Updated
    <3>2. QED
      BY <3>1
  <2>3. QED
    BY <2>1, <2>2
<1>2. CASE action = "REMOVE"
  <2>1. CASE \E i \in DOMAIN rrs : rrs[i] = data
    <3>1. PICK i : i = CHOOSE j \in DOMAIN rrs : rrs[j] = data
      OBVIOUS
    <3>2. i \in DOMAIN rrs /\ rrs[i] = data
      BY <2>1, <3>1
    <3>3. once = Without(rrs, i)
      BY <1>2, <2>1, <3>1 DEF Updated
    <3>4. Distinct(once) /\ \A j \in DOMAIN once : once[j] # data
      BY <3>2, <3>3, RemovedIsGone
    <3> HIDE DEF once
    <3>5. Updated(once, action, data) = once
      BY <1>2, <3>4 DEF Updated
    <3>6. QED
      BY <3>4, <3>5 DEF once
  <2>2. CASE ~(\E i \in DOMAIN rrs : rrs[i] = data)
    <3>1. once = rrs
      BY <1>2, <2>2 DEF Updated
    <3>2. QED
      BY <3>1
  <2>3. QED
    BY <2>1, <2>2
<1>3. CASE action = "REPLACE-ALL"
  <2>1. once = <<data>> /\ Updated(once, action, data) = <<data>>
    BY <1>3 DEF Updated
  <2>2. Distinct(<<data>>)
    BY DEF Distinct
  <2>3. QED
    BY <2>1, <2>2
<1>4. CASE action \notin {"ADD", "REMOVE", "REPLACE-ALL"}
  <2>1. once = rrs
    BY <1>4 DEF Updated
  <2>2. QED
    BY <2>1
<1>5. QED
  BY <1>1, <1>2, <1>3, <1>4

=============================================================================
