------------------------ MODULE SharedDatabase_proofs ------------------------
(***************************************************************************)
(* Proofs about the database that name servers and zone-delegate share:      *)
(* first the tables and the statements of DyndnsMgr::update, then servers    *)
(* and tools next to each other.                                            *)
(***************************************************************************)
EXTENDS SharedDatabase, NameServer_proofs

-----------------------------------------------------------------------------
\* A new row has an id that is greater than any other.
LEMMA NewIdIsGreatest ==
  ASSUME NEW rows, IsFiniteSet(rows), \A r \in rows : r.id \in Nat
  PROVE  NewId(rows) \in Nat \ {0} /\ \A r \in rows : r.id < NewId(rows)
<1> DEFINE ids == {r.id : r \in rows}
           f == [r \in rows |-> r.id]
<1>1. f \in Surjection(rows, ids)
  BY DEF Surjection
<1>2. IsFiniteSet(ids)
  BY <1>1, FS_Surjection
<1>3. IsFiniteSet(ids \cup {0})
  BY <1>2, FS_AddElement
<1>4. ids \cup {0} \in SUBSET Nat
  OBVIOUS
<1>5. /\ \A r \in rows : r.id \in ids
      /\ NewId(rows) = Max(ids \cup {0}) + 1
  BY DEF NewId
<1> HIDE DEF ids
<1>6. PICK m : m = Max(ids \cup {0})
  OBVIOUS
<1>7. m \in Nat /\ \A x \in ids \cup {0} : x <= m
  <2>1. ids \cup {0} # {}
    OBVIOUS
  <2>2. QED
    BY <1>3, <1>4, <1>6, <2>1, MaxOfFinite
<1>8. QED
  BY <1>5, <1>6, <1>7

-----------------------------------------------------------------------------
\* SELECT ... ORDER BY id: rows with ids of their own, and the place of each.
AreRows(rows) ==
  /\ IsFiniteSet(rows)
  /\ \A r \in rows : r.id \in Nat /\ r.data \in Name
  /\ \A r, q \in rows : r.id = q.id => r = q

Rank(rows, r) == Cardinality({q \in rows : q.id < r.id})

LEMMA RankOfRow ==
  ASSUME NEW rows, AreRows(rows), NEW r \in rows
  PROVE  /\ Cardinality(rows) \in Nat
         /\ Rank(rows, r) \in 0 .. Cardinality(rows) - 1
         /\ \A q \in rows : q.id < r.id => Rank(rows, q) < Rank(rows, r)
<1> DEFINE Before(q) == {p \in rows : p.id < q.id}
<1>1. IsFiniteSet(rows) /\ \A q \in rows : q.id \in Nat
  BY DEF AreRows
<1>2. \A q : Before(q) \in SUBSET rows
  OBVIOUS
<1>3. /\ Cardinality(rows) \in Nat
      /\ \A q : IsFiniteSet(Before(q)) /\ Cardinality(Before(q)) \in Nat
  BY <1>1, <1>2, FS_Subset, FS_CardinalityType
<1>4. Cardinality(Before(r)) < Cardinality(rows)
  <2>1. r \notin Before(r) /\ r.id \in Nat
    BY <1>1
  <2>2. Before(r) # rows
    BY <2>1
  <2> HIDE DEF Before
  <2>3. /\ Cardinality(Before(r)) <= Cardinality(rows)
        /\ Cardinality(rows) # Cardinality(Before(r))
    BY <1>1, <1>2, <2>2, FS_Subset
  <2>4. QED
    BY <1>3, <2>3
<1>5. ASSUME NEW q \in rows, q.id < r.id
      PROVE  Cardinality(Before(q)) < Cardinality(Before(r))
  <2>1. Before(q) \subseteq Before(r)
    <3>1. \A p \in rows : p.id < q.id => p.id < r.id
      BY <1>1, <1>5
    <3>2. QED
      BY <3>1
  <2>2. q \in Before(r) /\ q \notin Before(q)
    BY <1>1, <1>5
  <2> HIDE DEF Before
  <2>3. Before(q) \in SUBSET Before(r) /\ Before(q) # Before(r)
    BY <2>1, <2>2
  <2>4. /\ Cardinality(Before(q)) <= Cardinality(Before(r))
        /\ Cardinality(Before(r)) # Cardinality(Before(q))
    BY <1>3, <2>3, FS_Subset
  <2>5. QED
    BY <1>3, <2>4
<1>6. \A q : Rank(rows, q) = Cardinality(Before(q))
  BY DEF Rank
<1> HIDE DEF Before
<1>7. QED
  BY <1>3, <1>4, <1>5, <1>6

\* Every place has its row.
LEMMA RankIsOnto ==
  ASSUME NEW rows, AreRows(rows), NEW i \in 0 .. Cardinality(rows) - 1
  PROVE  \E r \in rows : Rank(rows, r) = i
<1> DEFINE n == Cardinality(rows)
           f == [r \in rows |-> Rank(rows, r)]
<1>1. IsFiniteSet(rows) /\ n \in Nat
  BY FS_CardinalityType DEF AreRows
<1>2. f \in [rows -> 0 .. n - 1]
  BY RankOfRow
<1>3. ASSUME NEW r \in rows, NEW q \in rows, f[r] = f[q]
      PROVE  r = q
  <2>1. r.id \in Nat /\ q.id \in Nat
    BY DEF AreRows
  <2>2. CASE r.id = q.id
    BY <2>2 DEF AreRows
  <2>3. CASE r.id < q.id
    BY <1>1, <1>3, <2>3, RankOfRow
  <2>4. CASE q.id < r.id
    BY <1>1, <1>3, <2>4, RankOfRow
  <2>5. QED
    BY <2>1, <2>2, <2>3, <2>4
<1>4. f \in Injection(rows, 0 .. n - 1)
  <2> HIDE DEF f
  <2>1. QED
    BY <1>2, <1>3 DEF Injection, IsInjective
<1>5. IsFiniteSet(0 .. n - 1) /\ Cardinality(0 .. n - 1) = n
  BY <1>1, FS_Interval
<1>6. f \in Surjection(rows, 0 .. n - 1)
  BY <1>1, <1>4, <1>5, FS_Injection
<1>7. PICK r \in rows : f[r] = i
  BY <1>6 DEF Surjection
<1>8. QED
  BY <1>7

LEMMA InOrderOfRows ==
  ASSUME NEW rows, AreRows(rows)
  PROVE  /\ Cardinality(rows) \in Nat
         /\ InOrder(rows) \in Seq(Name)
         /\ Len(InOrder(rows)) = Cardinality(rows)
         /\ \A r \in rows : /\ Rank(rows, r) + 1 \in 1 .. Cardinality(rows)
                            /\ InOrder(rows)[Rank(rows, r) + 1] = r.data
         /\ \A i \in 1 .. Cardinality(rows) :
              \E r \in rows : Rank(rows, r) + 1 = i /\ InOrder(rows)[i] = r.data
<1> DEFINE At(i) == CHOOSE r \in rows : Rank(rows, r) = i - 1
<1>1. PICK n \in Nat : n = Cardinality(rows)
  BY FS_CardinalityType DEF AreRows
<1>2. InOrder(rows) = [i \in 1 .. n |-> At(i).data]
  BY <1>1 DEF InOrder, Rank
<1>3. \A i \in 1 .. n : At(i) \in rows /\ Rank(rows, At(i)) = i - 1
  BY <1>1, RankIsOnto
<1>4. ASSUME NEW r \in rows
      PROVE  Rank(rows, r) + 1 \in 1 .. n /\ At(Rank(rows, r) + 1) = r
  <2>1. PICK k : k = Rank(rows, r) /\ k \in 0 .. n - 1
    BY <1>1, RankOfRow
  <2>2. k + 1 \in 1 .. n /\ (k + 1) - 1 = k
    BY <2>1
  <2>3. PICK q : q = At(k + 1)
    OBVIOUS
  <2>4. q \in rows /\ Rank(rows, q) = k
    BY <1>3, <2>2, <2>3
  <2>5. r.id \in Nat /\ q.id \in Nat
    BY <2>4 DEF AreRows
  <2>6. ~(r.id < q.id) /\ ~(q.id < r.id)
    BY <1>1, <2>1, <2>4, RankOfRow
  <2>7. r = q
    BY <2>4, <2>5, <2>6 DEF AreRows
  <2>8. QED
    BY <2>1, <2>2, <2>3, <2>7
<1> HIDE DEF At
<1>5. \A i \in 1 .. n : At(i).data \in Name
  BY <1>3 DEF AreRows
<1>6. /\ InOrder(rows) \in [1 .. n -> Name]
      /\ \A i \in 1 .. n : InOrder(rows)[i] = At(i).data
  BY <1>2, <1>5
<1>7. InOrder(rows) \in Seq(Name) /\ Len(InOrder(rows)) = n
  BY <1>6
<1>8. \A i \in 1 .. n : (i - 1) + 1 = i
  OBVIOUS
<1>9. QED
  BY <1>1, <1>3, <1>4, <1>6, <1>7, <1>8

\* The rows of no set, and the data of a row.
LEMMA InOrderOfNone == InOrder({}) = << >>
<1>1. AreRows({}) /\ Cardinality({}) = 0
  BY FS_EmptySet DEF AreRows
<1>2. InOrder({}) \in Seq(Name) /\ Len(InOrder({})) = 0
  BY <1>1, InOrderOfRows
<1>3. QED
  BY <1>2

LEMMA InOrderHasData ==
  ASSUME NEW rows, AreRows(rows), NEW data
  PROVE  (\E i \in DOMAIN InOrder(rows) : InOrder(rows)[i] = data)
           <=> (\E r \in rows : r.data = data)
<1>1. DOMAIN InOrder(rows) = 1 .. Cardinality(rows)
  BY InOrderOfRows, LenProperties
<1>2. QED
  BY <1>1, InOrderOfRows

\* A sequence with this element at each of these places.
LEMMA SameSequence ==
  ASSUME NEW s \in Seq(Name), NEW t \in Seq(Name), Len(s) = Len(t),
         \A i \in 1 .. Len(t) : s[i] = t[i]
  PROVE  s = t
BY LenProperties

\* A row with the greatest id comes last.
LEMMA InOrderAppends ==
  ASSUME NEW rows, AreRows(rows), NEW row, row.id \in Nat, row.data \in Name,
         \A r \in rows : r.id < row.id
  PROVE  /\ AreRows(rows \cup {row})
         /\ InOrder(rows \cup {row}) = Append(InOrder(rows), row.data)
<1> DEFINE all == rows \cup {row}
           old == InOrder(rows)
           new == InOrder(all)
<1>1. row \notin rows /\ \A r \in rows : r.id \in Nat /\ r.id # row.id
  <2>1. \A r \in rows : r.id \in Nat /\ r.id < row.id
    BY DEF AreRows
  <2>2. \A n, m \in Nat : n < m => n # m
    OBVIOUS
  <2>3. QED
    BY <2>1, <2>2
<1>2. AreRows(all)
  BY <1>1, FS_AddElement DEF AreRows
<1>3. PICK n \in Nat : n = Cardinality(rows) /\ n + 1 = Cardinality(all)
  BY <1>1, FS_AddElement, FS_CardinalityType DEF AreRows
<1>4. ASSUME NEW r \in rows
      PROVE  Rank(all, r) = Rank(rows, r)
  <2>1. ~(row.id < r.id)
    BY <1>1
  <2>2. {q \in all : q.id < r.id} = {q \in rows : q.id < r.id}
    BY <2>1
  <2>3. QED
    BY <2>2 DEF Rank
<1>5. Rank(all, row) = n
  <2>1. ~(row.id < row.id)
    OBVIOUS
  <2>2. {q \in all : q.id < row.id} = rows
    BY <2>1
  <2>3. QED
    BY <1>3, <2>2 DEF Rank
<1>6. row \in all /\ \A r \in rows : r \in all
  OBVIOUS
<1> HIDE DEF all
<1>7. old \in Seq(Name) /\ Len(old) = n /\ new \in Seq(Name) /\ Len(new) = n + 1
  BY <1>2, <1>3, InOrderOfRows
<1>8. new[n + 1] = row.data
  BY <1>2, <1>5, <1>6, InOrderOfRows
<1>9. ASSUME NEW i \in 1 .. n
      PROVE  new[i] = old[i]
  <2>1. PICK r \in rows : Rank(rows, r) + 1 = i /\ old[i] = r.data
    BY <1>3, InOrderOfRows
  <2>2. new[Rank(all, r) + 1] = r.data
    BY <1>2, <1>6, InOrderOfRows
  <2>3. QED
    BY <1>4, <2>1, <2>2
<1> HIDE DEF old, new
<1>10. /\ Append(old, row.data) \in Seq(Name)
       /\ Len(Append(old, row.data)) = n + 1
       /\ \A i \in 1 .. n : Append(old, row.data)[i] = old[i]
       /\ Append(old, row.data)[n + 1] = row.data
  BY <1>7, AppendProperties
<1>11. \A i \in 1 .. n + 1 : new[i] = Append(old, row.data)[i]
  <2>1. \A i \in 1 .. n + 1 : i \in 1 .. n \/ i = n + 1
    OBVIOUS
  <2>2. QED
    BY <1>8, <1>9, <1>10, <2>1
<1>12. new = Append(old, row.data)
  BY <1>7, <1>10, <1>11, SameSequence
<1>13. QED
  BY <1>2, <1>12 DEF all, old, new

\* Deleting a row takes its data out of the sequence.
LEMMA InOrderRemoves ==
  ASSUME NEW rows, AreRows(rows), NEW row \in rows
  PROVE  /\ AreRows(rows \ {row})
         /\ InOrder(rows \ {row}) = Without(InOrder(rows), Rank(rows, row) + 1)
<1> DEFINE rest == rows \ {row}
           old == InOrder(rows)
           new == InOrder(rest)
<1>1. AreRows(rest)
  BY FS_RemoveElement DEF AreRows
<1>2. PICK n \in Nat : n = Cardinality(rows) /\ n - 1 = Cardinality(rest)
  BY FS_RemoveElement, FS_CardinalityType DEF AreRows
<1>3. PICK k \in 1 .. n : k = Rank(rows, row) + 1
  BY <1>2, InOrderOfRows
<1>4. ASSUME NEW r \in rest
      PROVE  Rank(rows, r) = IF r.id < row.id THEN Rank(rest, r) ELSE Rank(rest, r) + 1
  <2> DEFINE lower == {q \in rows : q.id < r.id}
             left == {q \in rest : q.id < r.id}
  <2>1. r.id \in Nat /\ row.id \in Nat /\ r.id # row.id
    BY DEF AreRows
  <2>2. CASE r.id < row.id
    <3>1. left = lower
      BY <2>1, <2>2
    <3>2. QED
      BY <2>2, <3>1 DEF Rank
  <2>3. CASE ~(r.id < row.id)
    <3>1. row.id < r.id
      BY <2>1, <2>3
    <3>2. row \in lower /\ left = lower \ {row}
      BY <3>1
    <3>3. lower \in SUBSET rows
      OBVIOUS
    <3> HIDE DEF lower, left
    <3>4. IsFiniteSet(lower)
      BY <3>3, FS_Subset DEF AreRows
    <3>5. Cardinality(left) = Cardinality(lower) - 1 /\ Cardinality(lower) \in Nat
      BY <3>2, <3>4, FS_RemoveElement, FS_CardinalityType
    <3>6. Cardinality(lower) = Cardinality(left) + 1
      BY <3>5
    <3>7. QED
      BY <2>3, <3>6 DEF Rank, lower, left
  <2>4. QED
    BY <2>2, <2>3
<1>5. \A r \in rest : r \in rows
  OBVIOUS
<1> HIDE DEF rest
<1>6. old \in Seq(Name) /\ Len(old) = n /\ new \in Seq(Name) /\ Len(new) = n - 1
  BY <1>1, <1>2, InOrderOfRows
<1>7. /\ Without(old, k) \in Seq(Name) /\ Len(Without(old, k)) = n - 1
      /\ \A i \in 1 .. n - 1 : Without(old, k)[i] = IF i < k THEN old[i] ELSE old[i + 1]
  <2>1. k \in DOMAIN old
    BY <1>3, <1>6, LenProperties
  <2>2. QED
    BY <1>6, <2>1, WithoutIs
<1>8. ASSUME NEW i \in 1 .. n - 1
      PROVE  new[i] = Without(old, k)[i]
  <2>1. PICK r \in rest : Rank(rest, r) + 1 = i /\ new[i] = r.data
    BY <1>1, <1>2, InOrderOfRows
  <2>2. PICK m \in 1 .. n : m = Rank(rows, r) + 1 /\ old[m] = r.data
    BY <1>2, <1>5, InOrderOfRows
  <2>3. Rank(rest, r) \in 0 .. n - 2
    BY <1>1, <1>2, <2>1, RankOfRow
  <2>4. CASE r.id < row.id
    <3>1. m = i
      BY <1>4, <2>1, <2>2, <2>4
    <3>2. Rank(rows, r) < Rank(rows, row)
      BY <1>5, <2>4, RankOfRow
    <3>3. Rank(rows, r) \in Int /\ Rank(rows, row) \in Int
      BY <1>5, <1>2, RankOfRow
    <3>4. m < k
      BY <1>3, <2>2, <3>2, <3>3
    <3>5. QED
      BY <1>7, <2>1, <2>2, <3>1, <3>4
  <2>5. CASE ~(r.id < row.id)
    <3>1. m = i + 1
      BY <1>4, <2>1, <2>2, <2>3, <2>5
    <3>2. row.id < r.id
      BY <1>5, <2>1, <2>5 DEF AreRows, rest
    <3>3. Rank(rows, row) < Rank(rows, r)
      BY <1>5, <3>2, RankOfRow
    <3>4. Rank(rows, r) \in Int /\ Rank(rows, row) \in Int
      BY <1>5, <1>2, RankOfRow
    <3>5. ~(i < k)
      BY <1>3, <2>2, <3>1, <3>3, <3>4
    <3>6. QED
      BY <1>7, <2>1, <2>2, <3>1, <3>5
  <2>6. QED
    BY <2>4, <2>5
<1> HIDE DEF old, new
<1>9. new = Without(old, k)
  BY <1>6, <1>7, <1>8, SameSequence
<1>10. QED
  BY <1>1, <1>3, <1>9 DEF rest, old, new

\* What Updated makes of the rows of a set.
LEMMA UpdatedOfRows ==
  ASSUME NEW rows, AreRows(rows), NEW data \in Name
  PROVE  LET old == InOrder(rows) IN
         /\ Updated(old, "NONE", data) = old
         /\ Updated(old, "REPLACE-ALL", data) = <<data>>
         /\ (\E r \in rows : r.data = data) => Updated(old, "ADD", data) = old
         /\ ~(\E r \in rows : r.data = data) =>
              /\ Updated(old, "ADD", data) = Append(old, data)
              /\ Updated(old, "REMOVE", data) = old
BY InOrderHasData DEF Updated

LEMMA UpdatedRemoves ==
  ASSUME NEW rows, AreRows(rows), NEW row \in rows,
         \A r \in rows : r.data = row.data => r = row
  PROVE  Updated(InOrder(rows), "REMOVE", row.data) = InOrder(rows \ {row})
<1> DEFINE old == InOrder(rows)
           i == CHOOSE i \in DOMAIN old : old[i] = row.data
<1>1. DOMAIN old = 1 .. Cardinality(rows)
  BY InOrderOfRows, LenProperties
<1>2. \E j \in DOMAIN old : old[j] = row.data
  BY InOrderHasData
<1>3. i \in DOMAIN old /\ old[i] = row.data
  BY <1>2
<1>4. Updated(old, "REMOVE", row.data) = Without(old, i)
  BY <1>2 DEF Updated
<1>5. i = Rank(rows, row) + 1
  <2> HIDE DEF i
  <2>1. PICK r \in rows : Rank(rows, r) + 1 = i /\ old[i] = r.data
    BY <1>1, <1>3, InOrderOfRows
  <2>2. r = row
    BY <1>3, <2>1
  <2>3. QED
    BY <2>1, <2>2
<1>6. QED
  BY <1>4, <1>5, InOrderRemoves

-----------------------------------------------------------------------------
\* Both tables are as their schema wants them.
SoundTables == IsRRSetTable(rrsets) /\ IsRRTable(rrs, rrsets)

\* A row of rrsets with this id and key.
IsIdOf(id, key) == \E s \in rrsets : s.id = id /\ s.key = key

LEMMA SoundTablesType ==
  ASSUME SoundTables
  PROVE  TablesTypeOK /\ NoDuplicateRR /\ EveryRRHasItsSet
BY DEF SoundTables, IsRRSetTable, IsRRTable, TablesTypeOK, NoDuplicateRR, EveryRRHasItsSet

\* The row of a new set has an id that no other row has and no RR refers to.
LEMMA NewRRSetId ==
  ASSUME SoundTables
  PROVE  /\ NewId(rrsets) \in Nat \ {0}
         /\ \A s \in rrsets : s.id < NewId(rrsets)
         /\ \A r \in rrs : r.rrset < NewId(rrsets)
<1>1. IsFiniteSet(rrsets) /\ \A r \in rrsets : r.id \in Nat
  BY DEF SoundTables, IsRRSetTable, RRSetRow
<1>2. NewId(rrsets) \in Nat \ {0} /\ \A s \in rrsets : s.id < NewId(rrsets)
  BY <1>1, NewIdIsGreatest
<1>3. QED
  BY <1>2 DEF SoundTables, IsRRTable

LEMMA InsertRRSetSound ==
  ASSUME SoundTables, NEW key \in RRSetKey, NEW class \in Class, InsertRRSet(key, class)
  PROVE  /\ SoundTables'
         /\ rrsets \subseteq rrsets'
         /\ \A id : id = NewId(rrsets) => IsIdOf(id, key)'
<1> DEFINE row == [id |-> NewId(rrsets), key |-> key, class |-> class]
<1>1. row \in RRSetRow /\ \A s \in rrsets : s.id # row.id
  BY NewRRSetId DEF RRSetRow, SoundTables, IsRRSetTable
<1>2. rrsets' = rrsets \cup {row} /\ rrs' = rrs
  BY DEF InsertRRSet
<1>3. \A s \in rrsets : ~(s.key = row.key /\ s.class = row.class)
  BY DEF InsertRRSet, HasRRSet
<1>4. row.id = NewId(rrsets) /\ row.key = key
  OBVIOUS
<1> HIDE DEF row
<1>5. IsFiniteSet(rrsets')
  BY <1>2, FS_AddElement DEF SoundTables, IsRRSetTable
<1>6. IsRRSetTable(rrsets')
  BY <1>1, <1>2, <1>3, <1>5 DEF SoundTables, IsRRSetTable
<1>7. IsRRTable(rrs', rrsets')
  BY <1>2 DEF SoundTables, IsRRTable
<1>8. QED
  BY <1>2, <1>4, <1>6, <1>7 DEF SoundTables, IsIdOf

\* The row that InsertRR adds, and what it leaves.
LEMMA InsertRREffect ==
  ASSUME SoundTables, NEW rrset \in Nat, NEW data \in Name, InsertRR(rrset, data)
  PROVE  LET others == rrs \ SelectRR(rrset, data) IN
         /\ rrsets' = rrsets
         /\ NewId(others) \in Nat \ {0}
         /\ \A r \in others : r.id < NewId(others)
         /\ rrs' = others \cup {[id |-> NewId(others), rrset |-> rrset, data |-> data]}
<1> DEFINE others == rrs \ SelectRR(rrset, data)
<1>1. others \in SUBSET rrs
  OBVIOUS
<1>2. IsFiniteSet(others) /\ \A r \in others : r.id \in Nat
  BY <1>1, FS_Subset DEF SoundTables, IsRRTable, RRRow
<1>3. NewId(others) \in Nat \ {0} /\ \A r \in others : r.id < NewId(others)
  BY <1>2, NewIdIsGreatest
<1>4. QED
  BY <1>3 DEF InsertRR

LEMMA InsertRRSound ==
  ASSUME SoundTables, NEW rrset \in Nat, NEW data \in Name, InsertRR(rrset, data),
         \E s \in rrsets : s.id = rrset
  PROVE  SoundTables'
<1> DEFINE others == rrs \ SelectRR(rrset, data)
           row == [id |-> NewId(others), rrset |-> rrset, data |-> data]
<1>1. /\ rrsets' = rrsets
      /\ NewId(others) \in Nat \ {0}
      /\ \A r \in others : r.id < NewId(others)
      /\ rrs' = others \cup {row}
  BY InsertRREffect
<1>2. \A r \in others : ~(r.rrset = rrset /\ r.data = data)
  BY DEF SelectRR
<1>3. others \in SUBSET rrs
  OBVIOUS
<1>4. IsFiniteSet(others)
  BY <1>3, FS_Subset DEF SoundTables, IsRRTable
<1>5. /\ row \in RRRow /\ row.rrset = rrset /\ row.data = data
      /\ \A r \in others : r.id # row.id
  <2>1. row.id = NewId(others) /\ row \in RRRow
    BY <1>1 DEF RRRow
  <2>2. \A r \in others : r.id \in Nat /\ r.id < NewId(others)
    BY <1>1, <1>3 DEF RRRow, SoundTables, IsRRTable
  <2>3. \A n, m \in Nat : n < m => n # m
    OBVIOUS
  <2> HIDE DEF others
  <2>4. QED
    BY <1>1, <2>1, <2>2, <2>3
<1> HIDE DEF others, row
<1>6. IsFiniteSet(rrs')
  BY <1>1, <1>4, FS_AddElement
<1>7. IsRRTable(rrs', rrsets')
  BY <1>1, <1>2, <1>3, <1>5, <1>6 DEF SoundTables, IsRRTable
<1>8. QED
  BY <1>1, <1>7 DEF SoundTables

\* A statement that only deletes rows of rrs.
LEMMA DeleteSound ==
  ASSUME SoundTables, rrs' \subseteq rrs, rrsets' = rrsets
  PROVE  SoundTables'
<1>1. IsFiniteSet(rrs')
  BY FS_Subset DEF SoundTables, IsRRTable
<1>2. QED
  BY <1>1 DEF SoundTables, IsRRTable

-----------------------------------------------------------------------------
\* The rows of a set, and what a look-up of its key finds.
RowsOf(id) == {r \in rrs : r.rrset = id}

LEMMA RowsOfSet ==
  ASSUME SoundTables, NEW id
  PROVE  /\ AreRows(RowsOf(id))
         /\ Records(id) = InOrder(RowsOf(id))
         /\ \A r, q \in RowsOf(id) : r.data = q.data => r = q
<1>1. RowsOf(id) \in SUBSET rrs
  BY DEF RowsOf
<1>2. IsFiniteSet(RowsOf(id))
  BY <1>1, FS_Subset DEF SoundTables, IsRRTable
<1>3. \A r \in rrs : r.id \in Nat /\ r.data \in Name
  BY DEF SoundTables, IsRRTable, RRRow
<1>4. QED
  BY <1>2, <1>3 DEF RowsOf, AreRows, Records, SoundTables, IsRRTable

LEMMA NoRowsWithoutSet ==
  ASSUME SoundTables
  PROVE  RowsOf(0) = {} /\ Records(0) = << >>
<1>1. RowsOf(0) = {}
  BY DEF RowsOf, SoundTables, IsRRSetTable, IsRRTable, RRSetRow
<1>2. QED
  BY <1>1, InOrderOfNone, RowsOfSet

LEMMA FindableOfNoSet ==
  ASSUME SoundTables, NEW key, SelectRRSet(key) = {}
  PROVE  Findable(key) = {<< >>}
BY NoRowsWithoutSet DEF Findable, LastId

LEMMA FindableOfSet ==
  ASSUME NEW key, NEW id, IsIdOf(id, key),
         \A s, q \in SelectRRSet(key) : s = q
  PROVE  LastId(SelectRRSet(key)) = {id} /\ Findable(key) = {Records(id)}
<1>1. PICK s \in SelectRRSet(key) : s.id = id
  BY DEF IsIdOf, SelectRRSet
<1>2. SelectRRSet(key) = {s}
  BY <1>1
<1>3. LastId(SelectRRSet(key)) = {id}
  BY <1>1, <1>2 DEF LastId
<1>4. QED
  BY <1>3 DEF Findable

\* What a look-up leaves: no row and 0, or the id of one of the rows.
LEMMA LastIdOf ==
  ASSUME NEW rows, NEW id \in LastId(rows)
  PROVE  \/ rows = {} /\ id = 0
         \/ \E r \in rows : r.id = id
BY DEF LastId

\* A look-up finds what it found before when the rows of the set and of its
\* records are the same.
LEMMA FindableStays ==
  ASSUME SoundTables, SoundTables', NEW key,
         SelectRRSet(key)' = SelectRRSet(key),
         \A id : IsIdOf(id, key) => RowsOf(id)' = RowsOf(id)
  PROVE  Findable(key)' = Findable(key)
<1> DEFINE ids == LastId(SelectRRSet(key))
<1>1. ids' = ids
  BY DEF LastId
<1>2. ASSUME NEW id \in ids
      PROVE  Records(id)' = Records(id)
  <2>1. CASE id = 0
    <3>1. RowsOf(0) = {} /\ RowsOf(0)' = {}
      BY DEF RowsOf, SoundTables, IsRRSetTable, IsRRTable, RRSetRow
    <3>2. QED
      BY <2>1, <3>1 DEF Records, RowsOf
  <2>2. CASE IsIdOf(id, key)
    <3>1. RowsOf(id)' = RowsOf(id)
      BY <2>2
    <3>2. QED
      BY <3>1 DEF Records, RowsOf
  <2>3. QED
    BY <2>1, <2>2, LastIdOf DEF SelectRRSet, IsIdOf
<1>3. QED
  BY <1>1, <1>2 DEF Findable

-----------------------------------------------------------------------------
\* The name servers: locals of the right type, and a server that is past its
\* look-up holds the id of a row of its set.
Located == {"lookupRR", "insertRR", "removeRR", "removeRelatedRRs"}
RRLookedUp == {"insertRR", "removeRR", "removeRelatedRRs", "answer", "down"}

ServerInv(z) ==
  /\ request[z].key.zone = z
  /\ rrId[z] = 0 \/ pc[z] \in RRLookedUp
  /\ pc[z] \in Located => /\ rrsetId[z] = rrsetIdOfRR[z]
                          /\ IsIdOf(rrsetIdOfRR[z], request[z].key)

ServersInv ==
  /\ DOMAIN pc = Server
  /\ request \in [Server -> UpdateRequest]
  /\ rrsetId \in [Server -> Nat]
  /\ rrsetIdOfRR \in [Server -> Nat]
  /\ rrId \in [Server -> Nat]
  /\ \A z \in Server : ServerInv(z)

LEMMA SomeRequestType ==
  ASSUME NEW z \in Server
  PROVE  SomeRequest(z) \in Request /\ SomeRequest(z) \in UpdateRequest /\ SomeRequest(z).key.zone = z
BY DyndnsMgrAssumption DEF SomeRequest

\* Where the branch on the action leads.
LEMMA BranchLeads ==
  ASSUME NEW action \in UpdateAction, NEW set \in Nat, NEW rr \in Nat
  PROVE  LET next == Branch(action, set, rr) IN
         \/ next = "answer" /\ \/ action = "NONE"
                               \/ action = "ADD" /\ rr # 0
                               \/ action = "REMOVE" /\ rr = 0
         \/ next = "insertRRSet" /\ set = 0 /\ \/ action = "ADD" /\ rr = 0
                                               \/ action = "REPLACE-ALL"
         \/ next = "insertRR" /\ set # 0 /\ action = "ADD" /\ rr = 0
         \/ next = "removeRR" /\ action = "REMOVE" /\ rr # 0
         \/ next = "removeRelatedRRs" /\ action = "REPLACE-ALL" /\ set # 0
         \/ next = "down"
<1>1. CASE action \in {"NONE", "REPLACE", "UNKNOWN"}
  BY <1>1 DEF Branch
<1>2. CASE action = "ADD"
  BY <1>2 DEF Branch
<1>3. CASE action = "REMOVE"
  BY <1>3 DEF Branch
<1>4. CASE action = "REPLACE-ALL"
  BY <1>4 DEF Branch
<1>5. QED
  BY <1>1, <1>2, <1>3, <1>4 DEF UpdateAction

\* Rows of rrsets are never deleted, so a server that does nothing keeps its
\* invariant whatever others do.
LEMMA IdsStay ==
  ASSUME rrsets \subseteq rrsets', NEW id, NEW key, IsIdOf(id, key)
  PROVE  IsIdOf(id, key)'
BY DEF IsIdOf

LEMMA ServersIdle ==
  ASSUME ServersInv, rrsets \subseteq rrsets', UNCHANGED serverVars
  PROVE  ServersInv'
BY DEF ServersInv, ServerInv, serverVars, IsIdOf

LEMMA ReceiveInv ==
  ASSUME ServersInv, NEW z \in Server, NEW r \in UpdateRequest, Receive(z, r)
  PROVE  ServersInv' /\ rrsets' = rrsets /\ rrs' = rrs
BY DEF ServersInv, ServerInv, Receive, GoTo, Located, RRLookedUp, IsIdOf

LEMMA LeaveInv ==
  ASSUME ServersInv, NEW z \in Server, NEW label \in {"idle", "down"}, Leave(z, label)
  PROVE  ServersInv' /\ rrsets' = rrsets /\ rrs' = rrs
BY SomeRequestType DEF ServersInv, ServerInv, Leave, GoTo, Located, RRLookedUp, IsIdOf

\* Each statement of update().
LEMMA LookupRRSetInv ==
  ASSUME SoundTables, ServersInv, NEW z \in Server, LookupRRSet(z)
  PROVE  ServersInv' /\ rrsets' = rrsets /\ rrs' = rrs
<1>1. PICK id \in LastId(SelectRRSet(request[z].key)) :
        /\ rrsetId' = [rrsetId EXCEPT ![z] = id]
        /\ rrsetIdOfRR' = [rrsetIdOfRR EXCEPT ![z] = id]
        /\ GoTo(z, IF id = 0 THEN Branch(request[z].action, 0, rrId[z]) ELSE "lookupRR")
  BY DEF LookupRRSet
<1>2. id = 0 \/ IsIdOf(id, request[z].key)
  BY LastIdOf DEF SelectRRSet, IsIdOf
<1>3. id \in Nat
  BY <1>2 DEF IsIdOf, SoundTables, IsRRSetTable, RRSetRow
<1>4. /\ request' = request /\ rrId' = rrId /\ rrsets' = rrsets /\ rrs' = rrs
      /\ pc[z] = "lookupRRSet" /\ rrId[z] = 0 /\ request[z] \in UpdateRequest
  BY DEF LookupRRSet, ServersInv, ServerInv, RRLookedUp
<1>5. \/ id = 0 /\ pc' = [pc EXCEPT ![z] = Branch(request[z].action, 0, 0)]
      \/ id # 0 /\ pc' = [pc EXCEPT ![z] = "lookupRR"]
  BY <1>1, <1>4 DEF GoTo
<1>6. Branch(request[z].action, 0, 0) \in {"answer", "insertRRSet", "down"}
  BY <1>4, BranchLeads DEF UpdateRequest
<1>7. ServerInv(z)'
  BY <1>1, <1>2, <1>3, <1>4, <1>5, <1>6 DEF ServersInv, ServerInv, Located, RRLookedUp, IsIdOf
<1>8. \A y \in Server \ {z} : ServerInv(y)'
  BY <1>1, <1>4, <1>5 DEF ServersInv, ServerInv, IsIdOf
<1>9. QED
  BY <1>1, <1>3, <1>4, <1>5, <1>7, <1>8 DEF ServersInv

LEMMA LookupRRInv ==
  ASSUME SoundTables, ServersInv, NEW z \in Server, LookupRR(z)
  PROVE  ServersInv' /\ rrsets' = rrsets /\ rrs' = rrs
<1>1. PICK id \in LastId(SelectRR(rrsetIdOfRR[z], request[z].data)) :
        /\ rrId' = [rrId EXCEPT ![z] = id]
        /\ GoTo(z, Branch(request[z].action, rrsetId[z], id))
  BY DEF LookupRR
<1>2. id \in Nat
  BY LastIdOf DEF SelectRR, SoundTables, IsRRTable, RRRow
<1>3. /\ request' = request /\ rrsetId' = rrsetId /\ rrsetIdOfRR' = rrsetIdOfRR
      /\ rrsets' = rrsets /\ rrs' = rrs
      /\ rrsetId[z] = rrsetIdOfRR[z] /\ IsIdOf(rrsetIdOfRR[z], request[z].key)
      /\ request[z] \in UpdateRequest /\ rrsetId[z] \in Nat
  BY DEF LookupRR, ServersInv, ServerInv, Located
<1>4. PICK next : next = Branch(request[z].action, rrsetId[z], id)
  OBVIOUS
<1>5. rrsetId[z] # 0
  BY <1>3 DEF IsIdOf, SoundTables, IsRRSetTable, RRSetRow
<1>6. next \in {"answer", "insertRR", "removeRR", "removeRelatedRRs", "down"}
  BY <1>2, <1>3, <1>4, <1>5, BranchLeads DEF UpdateRequest
<1>7. pc' = [pc EXCEPT ![z] = next]
  BY <1>1, <1>4 DEF GoTo
<1>8. ServerInv(z)'
  BY <1>1, <1>3, <1>6, <1>7 DEF ServersInv, ServerInv, Located, RRLookedUp, IsIdOf
<1>9. \A y \in Server \ {z} : ServerInv(y)'
  BY <1>1, <1>3, <1>7 DEF ServersInv, ServerInv, IsIdOf
<1>10. QED
  BY <1>1, <1>2, <1>3, <1>7, <1>8, <1>9 DEF ServersInv

LEMMA InsertMissingRRSetInv ==
  ASSUME SoundTables, ServersInv, NEW z \in Server, InsertMissingRRSet(z)
  PROVE  SoundTables' /\ ServersInv' /\ rrsets \subseteq rrsets' /\ rrs' = rrs
<1>1. PICK id : id = NewId(rrsets)
  OBVIOUS
<1>2. request[z].key \in RRSetKey /\ "" \in Class
  BY DEF ServersInv, UpdateRequest, Class
<1>3. SoundTables' /\ rrsets \subseteq rrsets' /\ IsIdOf(id, request[z].key)'
  BY <1>1, <1>2, InsertRRSetSound DEF InsertMissingRRSet
<1>4. id \in Nat
  BY <1>1, NewRRSetId
<1>5. /\ rrs' = rrs /\ request' = request /\ rrId' = rrId
      /\ rrsetId' = [rrsetId EXCEPT ![z] = id]
      /\ rrsetIdOfRR' = [rrsetIdOfRR EXCEPT ![z] = id]
      /\ pc' = [pc EXCEPT ![z] = "insertRR"]
  BY <1>1 DEF InsertMissingRRSet, InsertRRSet, GoTo
<1>6. ServerInv(z)'
  BY <1>3, <1>5 DEF ServersInv, ServerInv, RRLookedUp
<1>7. \A y \in Server \ {z} : ServerInv(y)'
  BY <1>3, <1>5 DEF ServersInv, ServerInv, IsIdOf
<1>8. QED
  BY <1>3, <1>4, <1>5, <1>6, <1>7 DEF ServersInv

LEMMA InsertNewRRInv ==
  ASSUME SoundTables, ServersInv, NEW z \in Server, InsertNewRR(z)
  PROVE  SoundTables' /\ ServersInv' /\ rrsets' = rrsets
<1> DEFINE set == rrsetIdOfRR[z]
           data == request[z].data
<1>1. PICK id : id = NewId(rrs \ SelectRR(set, data))
  OBVIOUS
<1>2. set \in Nat /\ data \in Name /\ \E s \in rrsets : s.id = set
  BY DEF InsertNewRR, ServersInv, ServerInv, Located, IsIdOf, UpdateRequest
<1>3. InsertRR(set, data)
  BY DEF InsertNewRR
<1> HIDE DEF set, data
<1>4. SoundTables' /\ rrsets' = rrsets /\ id \in Nat
  BY <1>1, <1>2, <1>3, InsertRRSound, InsertRREffect
<1>5. /\ request' = request /\ rrsetId' = rrsetId /\ rrsetIdOfRR' = rrsetIdOfRR
      /\ rrId' = [rrId EXCEPT ![z] = id]
      /\ pc' = [pc EXCEPT ![z] = "answer"]
  BY <1>1 DEF InsertNewRR, GoTo, set, data
<1>6. QED
  BY <1>4, <1>5 DEF ServersInv, ServerInv, Located, RRLookedUp, IsIdOf

LEMMA RemoveInv ==
  ASSUME SoundTables, ServersInv, NEW z \in Server, RemoveRR(z) \/ RemoveRelatedRRs(z)
  PROVE  SoundTables' /\ ServersInv' /\ rrsets' = rrsets
<1>1. rrs' \subseteq rrs /\ rrsets' = rrsets
  BY DEF RemoveRR, RemoveRelatedRRs, DeleteRR, DeleteRRsOf
<1>2. SoundTables'
  BY <1>1, DeleteSound
<1>3. ServersInv'
  BY <1>1 DEF ServersInv, ServerInv, RemoveRR, RemoveRelatedRRs, GoTo, Located, RRLookedUp, IsIdOf
<1>4. QED
  BY <1>1, <1>2, <1>3

-----------------------------------------------------------------------------
\* A server that is about to delete a row by its id has found the record its
\* client named under that id, and it is there still.
RemovalInv(z) ==
  pc[z] = "removeRR" =>
    /\ request[z].action = "REMOVE"
    /\ \E r \in RowsOf(rrsetIdOfRR[z]) : r.id = rrId[z] /\ r.data = request[z].data

\* So its statements change the records of its own set alone.
LEMMA StatementKeepsRows ==
  ASSUME SoundTables, ServersInv, NEW z \in Server, RemovalInv(z),
         InsertNewRR(z) \/ RemoveRR(z) \/ RemoveRelatedRRs(z),
         NEW id, id # rrsetIdOfRR[z]
  PROVE  RowsOf(id)' = RowsOf(id)
<1>1. CASE InsertNewRR(z)
  BY <1>1 DEF InsertNewRR, InsertRR, SelectRR, RowsOf
<1>2. CASE RemoveRR(z)
  <2>1. \A r \in rrs : r.id = rrId[z] => r.rrset = rrsetIdOfRR[z]
    BY <1>2 DEF RemovalInv, RemoveRR, RowsOf, SoundTables, IsRRTable
  <2>2. rrs' = {r \in rrs : r.id # rrId[z]}
    BY <1>2 DEF RemoveRR, DeleteRR
  <2>3. QED
    BY <2>1, <2>2 DEF RowsOf
<1>3. CASE RemoveRelatedRRs(z)
  BY <1>3 DEF RemoveRelatedRRs, DeleteRRsOf, RowsOf, ServersInv, ServerInv, Located
<1>4. QED
  BY <1>1, <1>2, <1>3

\* The second look-up is where that begins.
LEMMA LookupRRFindsRow ==
  ASSUME SoundTables, ServersInv, NEW z \in Server, LookupRR(z)
  PROVE  RemovalInv(z)'
<1>1. PICK id \in LastId(SelectRR(rrsetIdOfRR[z], request[z].data)) :
        /\ rrId' = [rrId EXCEPT ![z] = id]
        /\ GoTo(z, Branch(request[z].action, rrsetId[z], id))
  BY DEF LookupRR
<1>2. rrs' = rrs /\ request' = request /\ rrsetIdOfRR' = rrsetIdOfRR
  BY DEF LookupRR
<1>3. id \in Nat
  BY LastIdOf DEF SelectRR, SoundTables, IsRRTable, RRRow
<1>4. request[z].action \in UpdateAction /\ rrsetId[z] \in Nat
  BY DEF ServersInv, UpdateRequest
<1>5. PICK next : next = Branch(request[z].action, rrsetId[z], id)
  OBVIOUS
<1>6. next = "removeRR" => request[z].action = "REMOVE" /\ id # 0
  BY <1>3, <1>4, <1>5, BranchLeads
<1>7. id # 0 => \E r \in rrs : r.id = id /\ r.rrset = rrsetIdOfRR[z] /\ r.data = request[z].data
  BY LastIdOf DEF SelectRR
<1>8. pc'[z] = next /\ rrId'[z] = id
  BY <1>1, <1>5 DEF GoTo, ServersInv
<1>9. QED
  BY <1>2, <1>6, <1>7, <1>8 DEF RemovalInv, RowsOf

-----------------------------------------------------------------------------

LEMMA ServerStepInv ==
  ASSUME SoundTables, ServersInv, NEW z \in Server, ServerStep(z)
  PROVE  SoundTables' /\ ServersInv' /\ rrsets \subseteq rrsets'
<1>1. CASE LookupRRSet(z)
  BY <1>1, LookupRRSetInv DEF SoundTables
<1>2. CASE LookupRR(z)
  BY <1>2, LookupRRInv DEF SoundTables
<1>3. CASE InsertMissingRRSet(z)
  BY <1>3, InsertMissingRRSetInv
<1>4. CASE InsertNewRR(z)
  BY <1>4, InsertNewRRInv
<1>5. CASE RemoveRR(z) \/ RemoveRelatedRRs(z)
  BY <1>5, RemoveInv
<1>6. QED
  BY <1>1, <1>2, <1>3, <1>4, <1>5 DEF ServerStep

-----------------------------------------------------------------------------
\* zone-delegate: it is at one of its statements and holds the ids of the rows
\* it has inserted.
ToolInv(d) ==
  /\ at[d] <= Statements(d)
  /\ at[d] # 0 => Len(insertedIds[d]) = AtMost(at[d] - 1, 2)
  /\ \A i \in DOMAIN insertedIds[d] : i \in 1 .. 2 /\ IsIdOf(insertedIds[d][i], RRSetsOf(d)[i])

ToolsInv ==
  /\ at \in [Delegation -> Nat]
  /\ insertedIds \in [Delegation -> Seq(Nat \ {0})]
  /\ \A d \in Delegation : ToolInv(d)

\* The records it inserts, each with the set it goes to.
LEMMA RRsOfIs ==
  ASSUME NEW d \in Delegation
  PROVE  /\ Len(d.nsDatas) \in Nat
         /\ DOMAIN RRsOf(d) = 1 .. 1 + Len(d.nsDatas)
         /\ Len(RRsOf(d)) = 1 + Len(d.nsDatas)
         /\ RRsOf(d)[1] = [set |-> 1, data |-> d.certData]
         /\ \A i \in 1 .. Len(d.nsDatas) :
              RRsOf(d)[i + 1] = [set |-> 2, data |-> d.nsDatas[i]]
         /\ \A i \in 1 .. 1 + Len(d.nsDatas) :
              RRsOf(d)[i].set \in 1 .. 2 /\ RRsOf(d)[i].data \in Name
<1> DEFINE T == [set : 1 .. 2, data : Name]
           first == <<[set |-> 1, data |-> d.certData]>>
           rest == [i \in DOMAIN d.nsDatas |-> [set |-> 2, data |-> d.nsDatas[i]]]
<1>1. d.nsDatas \in Seq(Name) /\ d.certData \in Name
  BY ZoneRegisterAssumption
<1>2. PICK n \in Nat : n = Len(d.nsDatas) /\ DOMAIN d.nsDatas = 1 .. n
  BY <1>1, LenProperties
<1>3. \A i \in 1 .. n : d.nsDatas[i] \in Name
  BY <1>1, <1>2, ElementOfSeq
<1>4. first \in Seq(T) /\ Len(first) = 1 /\ first[1] = [set |-> 1, data |-> d.certData]
  BY <1>1
<1>5. rest \in [1 .. n -> T] /\ \A i \in 1 .. n : rest[i] = [set |-> 2, data |-> d.nsDatas[i]]
  BY <1>2, <1>3
<1>6. RRsOf(d) = first \o rest
  BY DEF RRsOf
<1> HIDE DEF first, rest, T
<1>7. rest \in Seq(T) /\ Len(rest) = n
  BY <1>5
<1>8. /\ RRsOf(d) \in Seq(T)
      /\ Len(RRsOf(d)) = 1 + n
      /\ RRsOf(d)[1] = first[1]
      /\ \A i \in 1 .. n : RRsOf(d)[i + 1] = rest[i]
  <2>1. /\ first \o rest \in Seq(T)
        /\ Len(first \o rest) = 1 + n
        /\ \A i \in 1 .. 1 + n :
             (first \o rest)[i] = IF i <= 1 THEN first[i] ELSE rest[i - 1]
    <3>1. /\ first \o rest \in Seq(T)
          /\ Len(first \o rest) = Len(first) + Len(rest)
          /\ \A i \in 1 .. Len(first) + Len(rest) :
               (first \o rest)[i] = IF i <= Len(first) THEN first[i] ELSE rest[i - Len(first)]
      BY <1>4, <1>7, ConcatProperties
    <3>2. Len(first) = 1 /\ Len(rest) = n
      BY <1>4, <1>7
    <3>3. QED
      BY <3>1, <3>2
  <2>2. \A i \in 1 .. n : i + 1 \in 1 .. 1 + n /\ ~(i + 1 <= 1) /\ (i + 1) - 1 = i
    OBVIOUS
  <2>3. QED
    BY <1>6, <2>1, <2>2
<1>9. /\ DOMAIN RRsOf(d) = 1 .. 1 + n
      /\ \A i \in 1 .. 1 + n : RRsOf(d)[i] \in T
  BY <1>8, LenProperties, ElementOfSeq
<1>10. QED
  BY <1>2, <1>4, <1>5, <1>8, <1>9 DEF T

LEMMA RRSetsOfIs ==
  ASSUME NEW d \in Delegation
  PROVE  /\ DOMAIN RRSetsOf(d) = 1 .. 2 /\ Len(RRSetsOf(d)) = 2
         /\ RRSetsOf(d)[1] = d.cert /\ RRSetsOf(d)[2] = d.sub
         /\ d.cert \in RRSetKey /\ d.sub \in RRSetKey
         /\ Statements(d) = 3 + Len(d.nsDatas)
<1>1. d.cert \in RRSetKey /\ d.sub \in RRSetKey
  BY ZoneRegisterAssumption
<1>2. RRSetsOf(d) = <<d.cert, d.sub>>
  BY DEF RRSetsOf
<1>3. /\ DOMAIN RRSetsOf(d) = 1 .. 2 /\ Len(RRSetsOf(d)) = 2
      /\ RRSetsOf(d)[1] = d.cert /\ RRSetsOf(d)[2] = d.sub
  <2>1. \A a, b : /\ DOMAIN <<a, b>> = 1 .. 2 /\ Len(<<a, b>>) = 2
                  /\ <<a, b>>[1] = a /\ <<a, b>>[2] = b
    OBVIOUS
  <2>2. QED
    BY <1>2, <2>1
<1>4. Statements(d) = 3 + Len(d.nsDatas)
  <2>1. Len(RRsOf(d)) = 1 + Len(d.nsDatas) /\ Len(d.nsDatas) \in Nat
    BY RRsOfIs
  <2>2. Statements(d) = 2 + Len(RRsOf(d))
    BY <1>3 DEF Statements
  <2>3. QED
    BY <2>1, <2>2
<1>5. QED
  BY <1>1, <1>2, <1>3, <1>4

LEMMA ToolsIdle ==
  ASSUME ToolsInv, rrsets \subseteq rrsets', UNCHANGED toolVars
  PROVE  ToolsInv'
BY DEF ToolsInv, ToolInv, toolVars, IsIdOf

LEMMA StartToolInv ==
  ASSUME ToolsInv, NEW d \in Delegation, StartTool(d)
  PROVE  ToolsInv' /\ rrsets' = rrsets /\ rrs' = rrs
<1>1. Statements(d) >= 1
  BY RRSetsOfIs, RRsOfIs
<1>2. QED
  BY <1>1 DEF ToolsInv, ToolInv, StartTool, IsIdOf, AtMost

LEMMA EndToolInv ==
  ASSUME ToolsInv, NEW d \in Delegation, at' = [at EXCEPT ![d] = 0],
         UNCHANGED <<rrsets, rrs, insertedIds>>
  PROVE  ToolsInv'
<1>1. Statements(d) >= 0
  BY RRSetsOfIs, RRsOfIs
<1>2. QED
  BY <1>1 DEF ToolsInv, ToolInv, IsIdOf

LEMMA RegisterRRSetInv ==
  ASSUME SoundTables, ToolsInv, NEW d \in Delegation, RegisterRRSet(d)
  PROVE  SoundTables' /\ ToolsInv' /\ rrsets \subseteq rrsets' /\ rrs' = rrs
<1>1. PICK i : i = at[d] /\ i \in 1 .. 2
  BY RRSetsOfIs DEF RegisterRRSet
<1>2. PICK id : id = NewId(rrsets)
  OBVIOUS
<1>3. PICK key : key = RRSetsOf(d)[i] /\ key \in RRSetKey
  BY <1>1, RRSetsOfIs
<1>4. InsertRRSet(key, "NULL")
  BY <1>1, <1>3 DEF RegisterRRSet
<1>5. SoundTables' /\ rrsets \subseteq rrsets' /\ rrs' = rrs /\ IsIdOf(id, key)'
  BY <1>2, <1>3, <1>4, InsertRRSetSound DEF InsertRRSet, Class
<1>6. id \in Nat \ {0}
  BY <1>2, NewRRSetId
<1>7. /\ insertedIds' = [insertedIds EXCEPT ![d] = Append(@, id)]
      /\ at' = [at EXCEPT ![d] = i + 1]
  BY <1>1, <1>2 DEF RegisterRRSet
<1>8. PICK ids \in Seq(Nat \ {0}) : ids = insertedIds[d] /\ Len(ids) = i - 1
  BY <1>1 DEF ToolsInv, ToolInv, AtMost
<1>9. /\ Append(ids, id) \in Seq(Nat \ {0})
      /\ Len(Append(ids, id)) = i
      /\ DOMAIN Append(ids, id) = 1 .. i
      /\ \A j \in 1 .. i - 1 : Append(ids, id)[j] = ids[j]
      /\ Append(ids, id)[i] = id
  <2>1. /\ Append(ids, id) \in Seq(Nat \ {0})
        /\ Len(Append(ids, id)) = Len(ids) + 1
        /\ \A j \in 1 .. Len(ids) : Append(ids, id)[j] = ids[j]
        /\ Append(ids, id)[Len(ids) + 1] = id
    BY <1>6, <1>8, AppendProperties
  <2>2. DOMAIN Append(ids, id) = 1 .. Len(Append(ids, id))
    BY <2>1, LenProperties
  <2>3. Len(ids) = i - 1 /\ Len(ids) + 1 = i
    BY <1>1, <1>8
  <2>4. QED
    BY <2>1, <2>2, <2>3
<1>10. \A j \in 1 .. i - 1 : j \in 1 .. 2 /\ IsIdOf(ids[j], RRSetsOf(d)[j])'
  <2>1. DOMAIN ids = 1 .. i - 1
    BY <1>8, LenProperties
  <2>2. QED
    BY <1>5, <1>8, <2>1 DEF ToolsInv, ToolInv, IsIdOf
<1>11. Statements(d) >= i + 1
  BY <1>1, RRSetsOfIs, RRsOfIs
<1>12. insertedIds'[d] = Append(ids, id) /\ at'[d] = i + 1
  BY <1>7, <1>8 DEF ToolsInv
<1>13. \A j \in DOMAIN Append(ids, id) :
         j \in 1 .. 2 /\ IsIdOf(Append(ids, id)[j], RRSetsOf(d)[j])'
  BY <1>1, <1>3, <1>5, <1>9, <1>10
<1>14. ToolInv(d)'
  BY <1>1, <1>9, <1>11, <1>12, <1>13 DEF ToolInv, AtMost
<1>15. \A e \in Delegation \ {d} : ToolInv(e)'
  BY <1>5, <1>7 DEF ToolsInv, ToolInv, IsIdOf
<1>16. at' \in [Delegation -> Nat] /\ insertedIds' \in [Delegation -> Seq(Nat \ {0})]
  BY <1>1, <1>7, <1>8, <1>9 DEF ToolsInv
<1>17. QED
  BY <1>5, <1>14, <1>15, <1>16 DEF ToolsInv

\* The set that the next record goes to, and the record.
LEMMA NextRR ==
  ASSUME ToolsInv, NEW d \in Delegation, RegisterRR(d)
  PROVE  \E i \in 1 .. 1 + Len(d.nsDatas) : \E id \in Nat \ {0} :
           /\ at[d] = i + 2
           /\ id = insertedIds[d][RRsOf(d)[i].set]
           /\ IsIdOf(id, RRSetsOf(d)[RRsOf(d)[i].set])
           /\ InsertRR(id, RRsOf(d)[i].data)
           /\ at' = [at EXCEPT ![d] = IF @ = Statements(d) THEN 0 ELSE @ + 1]
           /\ insertedIds' = insertedIds
<1>1. PICK i : i = at[d] - 2 /\ i \in 1 .. 1 + Len(d.nsDatas)
  BY RRsOfIs, RRSetsOfIs DEF RegisterRR
<1>2. at[d] = i + 2 /\ at[d] # 0
  BY <1>1, RRsOfIs DEF ToolsInv
<1>3. PICK ids \in Seq(Nat \ {0}) : ids = insertedIds[d] /\ Len(ids) = 2
  <2>1. insertedIds[d] \in Seq(Nat \ {0}) /\ Len(insertedIds[d]) = AtMost(at[d] - 1, 2)
    BY <1>2 DEF ToolsInv, ToolInv
  <2>2. Len(d.nsDatas) \in Nat
    BY RRsOfIs
  <2>3. AtMost(at[d] - 1, 2) = 2
    BY <1>1, <1>2, <2>2 DEF AtMost
  <2>4. QED
    BY <2>1, <2>3
<1>4. PICK k : k = RRsOf(d)[i].set /\ k \in 1 .. 2
  BY <1>1, RRsOfIs
<1>5. ids[k] \in Nat \ {0} /\ IsIdOf(ids[k], RRSetsOf(d)[k])
  <2>1. DOMAIN ids = 1 .. 2 /\ ids[k] \in Nat \ {0}
    BY <1>3, <1>4, LenProperties, ElementOfSeq
  <2>2. QED
    BY <1>3, <1>4, <2>1 DEF ToolsInv, ToolInv
<1>6. InsertRR(ids[k], RRsOf(d)[i].data)
  BY <1>1, <1>3, <1>4, RRSetsOfIs DEF RegisterRR
<1>7. QED
  BY <1>1, <1>2, <1>3, <1>4, <1>5, <1>6 DEF RegisterRR

LEMMA RegisterRRInv ==
  ASSUME SoundTables, ToolsInv, NEW d \in Delegation, RegisterRR(d)
  PROVE  SoundTables' /\ ToolsInv' /\ rrsets' = rrsets
<1>1. PICK i \in 1 .. 1 + Len(d.nsDatas), id \in Nat \ {0} :
        /\ at[d] = i + 2
        /\ IsIdOf(id, RRSetsOf(d)[RRsOf(d)[i].set])
        /\ InsertRR(id, RRsOf(d)[i].data)
        /\ at' = [at EXCEPT ![d] = IF @ = Statements(d) THEN 0 ELSE @ + 1]
        /\ insertedIds' = insertedIds
  BY NextRR
<1>2. RRsOf(d)[i].data \in Name /\ \E s \in rrsets : s.id = id
  BY <1>1, RRsOfIs DEF IsIdOf
<1>3. SoundTables'
  BY <1>1, <1>2, InsertRRSound
<1>4. rrsets' = rrsets
  BY <1>1 DEF InsertRR
<1>5. PICK n \in Nat : n = Len(d.nsDatas) /\ Statements(d) = 3 + n
  BY RRsOfIs, RRSetsOfIs
<1>6. ToolInv(d)'
  <2>1. at'[d] = IF at[d] = Statements(d) THEN 0 ELSE at[d] + 1
    BY <1>1 DEF ToolsInv
  <2>2. at[d] + 1 = i + 3
    BY <1>1
  <2>3. at'[d] = IF i + 2 = 3 + n THEN 0 ELSE i + 3
    BY <1>1, <1>5, <2>1, <2>2
  <2>4. i \in 1 .. 1 + n /\ i + 3 >= 4
    BY <1>1, <1>5
  <2>5. at'[d] <= Statements(d) /\ (at'[d] # 0 => at'[d] - 1 >= 3)
    BY <1>5, <2>3, <2>4
  <2>6. Len(insertedIds[d]) = 2
    <3>1. Len(insertedIds[d]) = AtMost(at[d] - 1, 2)
      BY <1>1, <2>4 DEF ToolsInv, ToolInv
    <3>2. QED
      BY <1>1, <2>4, <3>1 DEF AtMost
  <2>7. at'[d] # 0 => AtMost(at'[d] - 1, 2) = 2
    BY <2>3, <2>4 DEF AtMost
  <2>8. QED
    BY <1>1, <1>4, <2>5, <2>6, <2>7 DEF ToolsInv, ToolInv, IsIdOf
<1>7. \A e \in Delegation \ {d} : ToolInv(e)'
  BY <1>1, <1>4 DEF ToolsInv, ToolInv, IsIdOf
<1>8. QED
  BY <1>1, <1>3, <1>4, <1>5, <1>6, <1>7 DEF ToolsInv

LEMMA ToolStepInv ==
  ASSUME SoundTables, ToolsInv, NEW d \in Delegation,
         StartTool(d) \/ RegisterRRSet(d) \/ RegisterRR(d) \/ RefusedRRSet(d)
  PROVE  SoundTables' /\ ToolsInv' /\ rrsets \subseteq rrsets'
<1>1. CASE StartTool(d)
  BY <1>1, StartToolInv DEF SoundTables
<1>2. CASE RegisterRRSet(d)
  BY <1>2, RegisterRRSetInv
<1>3. CASE RegisterRR(d)
  BY <1>3, RegisterRRInv
<1>4. CASE RefusedRRSet(d)
  BY <1>4, EndToolInv DEF RefusedRRSet, SoundTables
<1>5. QED
  BY <1>1, <1>2, <1>3, <1>4


-----------------------------------------------------------------------------
\* The inductive invariant: the tables are sound, every process refers to rows
\* that are there, and a server is at a statement of an update clients send.
IInv ==
  /\ SoundTables
  /\ ServersInv
  /\ ToolsInv
  /\ pc \in [Server -> PC]
  /\ request \in [Server -> Request]

LEMMA InitIInv == Init => IInv
<1> SUFFICES ASSUME Init PROVE IInv
  OBVIOUS
<1>1. SoundTables
  BY SharedDatabaseAssumption DEF Init, SoundTables
<1>2. ServersInv
  BY SomeRequestType DEF Init, ServerInit, ServersInv, ServerInv, Located
<1>3. ToolsInv
  <2>1. << >> \in Seq(Nat \ {0}) /\ DOMAIN << >> = {}
    OBVIOUS
  <2>2. \A d \in Delegation : Statements(d) \in Nat
    BY RRSetsOfIs, RRsOfIs
  <2>3. QED
    BY <2>1, <2>2 DEF Init, ToolInit, ToolsInv, ToolInv
<1>4. pc \in [Server -> PC] /\ request \in [Server -> Request]
  BY SomeRequestType DEF Init, ServerInit, PC
<1>5. QED
  BY <1>1, <1>2, <1>3, <1>4 DEF IInv

\* Each statement of a server leads to a statement, or to the end of them.
LEMMA ServerStepPC ==
  ASSUME SoundTables, ServersInv, NEW z \in Server, ServerStep(z)
  PROVE  request' = request /\ \E next \in PC \ {"idle"} : pc' = [pc EXCEPT ![z] = next]
<1>1. request[z] \in UpdateRequest /\ rrId[z] \in Nat /\ rrsetId[z] \in Nat
  BY DEF ServersInv
<1>2. request[z].action \in UpdateAction
  BY <1>1 DEF UpdateRequest
<1>3. \A set, rr \in Nat : Branch(request[z].action, set, rr) \in PC \ {"idle"}
  BY <1>2, BranchLeads DEF PC, Writing
<1>4. CASE LookupRRSet(z)
  <2>1. PICK id : GoTo(z, IF id = 0 THEN Branch(request[z].action, 0, rrId[z]) ELSE "lookupRR")
    BY <1>4 DEF LookupRRSet
  <2>2. Branch(request[z].action, 0, rrId[z]) \in PC \ {"idle"} /\ "lookupRR" \in PC
    BY <1>1, <1>3 DEF PC, Reading
  <2>3. QED
    BY <1>4, <2>1, <2>2 DEF LookupRRSet, GoTo
<1>5. CASE LookupRR(z)
  <2>1. PICK id \in LastId(SelectRR(rrsetIdOfRR[z], request[z].data)) :
          GoTo(z, Branch(request[z].action, rrsetId[z], id))
    BY <1>5 DEF LookupRR
  <2>2. id \in Nat
    BY LastIdOf DEF SelectRR, SoundTables, IsRRTable, RRRow
  <2>3. Branch(request[z].action, rrsetId[z], id) \in PC \ {"idle"}
    BY <1>1, <1>3, <2>2
  <2>4. QED
    BY <1>5, <2>1, <2>3 DEF LookupRR, GoTo
<1>6. CASE \/ InsertMissingRRSet(z)
           \/ InsertNewRR(z)
           \/ RemoveRR(z)
           \/ RemoveRelatedRRs(z)
  <2>1. "insertRR" \in PC /\ "answer" \in PC
    BY DEF PC, Writing
  <2>2. QED
    BY <1>6, <2>1 DEF InsertMissingRRSet, InsertNewRR, RemoveRR, RemoveRelatedRRs, GoTo
<1>7. QED
  BY <1>4, <1>5, <1>6 DEF ServerStep

LEMMA NextIInv == IInv /\ [Next]_vars => IInv'
<1> SUFFICES ASSUME IInv, [Next]_vars PROVE IInv'
  OBVIOUS
<1> USE DEF IInv
<1>1. ASSUME NEW z \in Server, NEW r \in Request, ReceiveUpdate(z, r)
      PROVE  IInv'
  <2>1. r \in UpdateRequest /\ Receive(z, r) /\ UNCHANGED toolVars
    BY <1>1, DyndnsMgrAssumption DEF ReceiveUpdate
  <2>2. ServersInv' /\ rrsets' = rrsets /\ rrs' = rrs
    BY <2>1, ReceiveInv
  <2>3. pc' \in [Server -> PC] /\ request' \in [Server -> Request]
    BY <2>1 DEF Receive, GoTo, PC, Reading
  <2>4. QED
    BY <2>1, <2>2, <2>3, ToolsIdle DEF SoundTables
<1>2. ASSUME NEW z \in Server, ServerStep(z)
      PROVE  IInv'
  <2>1. SoundTables' /\ ServersInv' /\ rrsets \subseteq rrsets'
    BY <1>2, ServerStepInv
  <2>2. ToolsInv'
    BY <1>2, <2>1, ToolsIdle DEF ServerStep
  <2>3. pc' \in [Server -> PC] /\ request' = request
    BY <1>2, ServerStepPC
  <2>4. QED
    BY <2>1, <2>2, <2>3
<1>3. ASSUME NEW z \in Server, NEW label \in {"idle", "down"}, Leave(z, label), UNCHANGED toolVars
      PROVE  IInv'
  <2>1. ServersInv' /\ rrsets' = rrsets /\ rrs' = rrs
    BY <1>3, LeaveInv
  <2>2. pc' \in [Server -> PC] /\ request' \in [Server -> Request]
    BY <1>3, SomeRequestType DEF Leave, GoTo, PC
  <2>3. QED
    BY <1>3, <2>1, <2>2, ToolsIdle DEF SoundTables
<1>4. ASSUME NEW z \in Server,
             AnswerUpdate(z) \/ StatementFails(z) \/ Crash(z) \/ Restart(z)
      PROVE  IInv'
  BY <1>3, <1>4 DEF AnswerUpdate, Answered, StatementFails, Crash, Dies, Restart
<1>5. ASSUME NEW d \in Delegation, ToolStep(d)
      PROVE  IInv'
  <2>1. SoundTables' /\ ToolsInv' /\ rrsets \subseteq rrsets'
    BY <1>5, ToolStepInv DEF ToolStep
  <2>2. ServersInv'
    BY <1>5, <2>1, ServersIdle DEF ToolStep
  <2>3. QED
    BY <1>5, <2>1, <2>2 DEF ToolStep, serverVars
<1>6. ASSUME NEW d \in Delegation, ToolCrash(d)
      PROVE  IInv'
  <2>1. ToolsInv'
    BY <1>6, EndToolInv DEF ToolCrash
  <2>2. rrsets' = rrsets /\ rrs' = rrs /\ UNCHANGED serverVars
    BY <1>6 DEF ToolCrash
  <2>3. QED
    BY <2>1, <2>2, ServersIdle DEF SoundTables, serverVars
<1>7. CASE UNCHANGED vars
  BY <1>7, ToolsIdle, ServersIdle DEF vars, serverVars, toolVars, SoundTables
<1>8. QED
  BY <1>1, <1>2, <1>4, <1>5, <1>6, <1>7 DEF Next

THEOREM SpecIInv == Spec => []IInv
BY InitIInv, NextIInv, PTL DEF Spec

\* Type correctness, for every number of servers, requests and delegations:
\* DyndnsMgr::update and ZoneRegister::doRegisterZone hold ids of the tables.
THEOREM TypeCorrect == Spec => []TypeOK
<1>1. IInv => TypeOK
  BY SoundTablesType DEF IInv, ServersInv, ToolsInv, TypeOK
<1>2. QED
  BY <1>1, SpecIInv, PTL

\* The trigger rrs_update keeps two rows with the same set and data out of rrs
\* however the statements of servers and tools interleave and wherever they die.
THEOREM NoDuplicates == Spec => []NoDuplicateRR
<1>1. IInv => NoDuplicateRR
  BY SoundTablesType DEF IInv
<1>2. QED
  BY <1>1, SpecIInv, PTL

\* Although SQLite does not enforce the FOREIGN KEY of rrs, no statement of
\* DyndnsMgr::update or doRegisterZone writes a record without its set.
THEOREM RecordsHaveSets == Spec => []EveryRRHasItsSet
<1>1. IInv => EveryRRHasItsSet
  BY SoundTablesType DEF IInv
<1>2. QED
  BY <1>1, SpecIInv, PTL

-----------------------------------------------------------------------------
(***************************************************************************)
(* Two zones on one file.  A server deletes a record by the id it has read   *)
(* one statement before.  If zone-delegate inserts that record again in      *)
(* between, the record gets another id and the old one is free for a record *)
(* of any zone; so what follows is for clients that do not remove what       *)
(* zone-delegate writes.                                                     *)
(***************************************************************************)
NoRemovalOfDelegated ==
  \A r \in Request, d \in Delegation : r.action = "REMOVE" =>
    /\ ~(r.key = d.cert /\ r.data = d.certData)
    /\ ~(r.key = d.sub /\ r.data \in Range(d.nsDatas))

RemovalsInv == \A z \in Server : RemovalInv(z)

LEMMA OnlyOneSetPerId ==
  ASSUME SoundTables, NEW id, NEW key, NEW other, IsIdOf(id, key), IsIdOf(id, other)
  PROVE  key = other
BY DEF SoundTables, IsRRSetTable, IsIdOf

LEMMA ServerKeepsOthers ==
  ASSUME SoundTables, SoundTables', ServersInv, NEW z \in Server, RemovalInv(z), ServerStep(z),
         NEW key, key # request[z].key
  PROVE  /\ SelectRRSet(key)' = SelectRRSet(key)
         /\ \A id : IsIdOf(id, key) => RowsOf(id)' = RowsOf(id)
         /\ Findable(key)' = Findable(key)
<1>1. CASE InsertNewRR(z) \/ RemoveRR(z) \/ RemoveRelatedRRs(z)
  <2>1. rrsets' = rrsets
    BY <1>1 DEF InsertNewRR, InsertRR, RemoveRR, DeleteRR, RemoveRelatedRRs, DeleteRRsOf
  <2>2. IsIdOf(rrsetIdOfRR[z], request[z].key)
    BY <1>1 DEF ServersInv, ServerInv, Located, InsertNewRR, RemoveRR, RemoveRelatedRRs
  <2>3. \A id : IsIdOf(id, key) => RowsOf(id)' = RowsOf(id)
    BY <1>1, <2>2, OnlyOneSetPerId, StatementKeepsRows
  <2>4. SelectRRSet(key)' = SelectRRSet(key)
    BY <2>1 DEF SelectRRSet
  <2>5. QED
    BY <2>3, <2>4, FindableStays
<1>2. CASE LookupRRSet(z) \/ LookupRR(z) \/ InsertMissingRRSet(z)
  <2>1. rrs' = rrs
    BY <1>2 DEF LookupRRSet, LookupRR, InsertMissingRRSet, InsertRRSet
  <2>2. \A id : RowsOf(id)' = RowsOf(id)
    BY <2>1 DEF RowsOf
  <2>3. SelectRRSet(key)' = SelectRRSet(key)
    <3>1. CASE LookupRRSet(z) \/ LookupRR(z)
      BY <3>1 DEF LookupRRSet, LookupRR, SelectRRSet
    <3>2. CASE InsertMissingRRSet(z)
      <4> DEFINE new == [id |-> NewId(rrsets), key |-> request[z].key, class |-> ""]
      <4>1. rrsets' = rrsets \cup {new} /\ new.key = request[z].key
        BY <3>2 DEF InsertMissingRRSet, InsertRRSet
      <4> HIDE DEF new
      <4>2. QED
        BY <4>1 DEF SelectRRSet
    <3>3. QED
      BY <1>2, <3>1, <3>2
  <2>4. QED
    BY <2>2, <2>3, FindableStays
<1>3. QED
  BY <1>1, <1>2 DEF ServerStep

\* A server's step moves no other server.
LEMMA OneServerMoves ==
  ASSUME ServersInv, NEW y \in Server,
         \/ ServerStep(y)
         \/ \E r \in Request : ReceiveUpdate(y, r)
         \/ AnswerUpdate(y) \/ StatementFails(y) \/ Crash(y) \/ Restart(y)
  PROVE  \A z \in Server \ {y} :
           /\ pc'[z] = pc[z] /\ request'[z] = request[z] /\ rrsetId'[z] = rrsetId[z]
           /\ rrsetIdOfRR'[z] = rrsetIdOfRR[z] /\ rrId'[z] = rrId[z]
<1>1. CASE ServerStep(y)
  BY <1>1 DEF ServerStep, LookupRRSet, LookupRR, InsertMissingRRSet, InsertNewRR, RemoveRR,
     RemoveRelatedRRs, GoTo, ServersInv
<1>2. CASE \E r \in Request : ReceiveUpdate(y, r)
  BY <1>2 DEF ReceiveUpdate, Receive, GoTo, ServersInv
<1>3. CASE AnswerUpdate(y) \/ StatementFails(y) \/ Crash(y) \/ Restart(y)
  BY <1>3 DEF AnswerUpdate, Answered, StatementFails, Crash, Dies, Restart, Leave, GoTo, ServersInv
<1>4. QED
  BY <1>1, <1>2, <1>3

\* What zone-delegate inserts a record into.
LEMMA ToolWrites ==
  ASSUME ToolsInv, NEW d \in Delegation, RegisterRR(d)
  PROVE  \E id \in Nat \ {0}, data \in Name, key \in {d.cert, d.sub} :
           /\ InsertRR(id, data) /\ IsIdOf(id, key)
           /\ \/ key = d.cert /\ data = d.certData
              \/ key = d.sub /\ data \in Range(d.nsDatas)
<1>1. PICK i \in 1 .. 1 + Len(d.nsDatas), id \in Nat \ {0} :
        /\ IsIdOf(id, RRSetsOf(d)[RRsOf(d)[i].set])
        /\ InsertRR(id, RRsOf(d)[i].data)
  BY NextRR
<1>2. CASE i = 1
  <2>1. RRsOf(d)[i].set = 1 /\ RRsOf(d)[i].data = d.certData /\ d.certData \in Name
    <3>1. d.certData \in Name
      BY ZoneRegisterAssumption
    <3>2. RRsOf(d)[1] = [set |-> 1, data |-> d.certData]
      BY RRsOfIs
    <3>3. QED
      BY <1>2, <3>1, <3>2
  <2>2. RRSetsOf(d)[1] = d.cert
    BY RRSetsOfIs
  <2>3. QED
    BY <1>1, <2>1, <2>2
<1>3. CASE i # 1
  <2>1. PICK j \in 1 .. Len(d.nsDatas) : i = j + 1
    <3>1. i - 1 \in 1 .. Len(d.nsDatas) /\ i = (i - 1) + 1
      BY <1>3, RRsOfIs
    <3>2. QED
      BY <3>1
  <2>2. RRsOf(d)[i].set = 2 /\ RRsOf(d)[i].data = d.nsDatas[j]
    <3>1. RRsOf(d)[j + 1] = [set |-> 2, data |-> d.nsDatas[j]]
      BY RRsOfIs
    <3>2. QED
      BY <2>1, <3>1
  <2>3. d.nsDatas[j] \in Name /\ d.nsDatas[j] \in Range(d.nsDatas)
    <3>1. d.nsDatas \in Seq(Name)
      BY ZoneRegisterAssumption
    <3>2. DOMAIN d.nsDatas = 1 .. Len(d.nsDatas)
      BY <3>1, LenProperties
    <3>3. QED
      BY <3>1, <3>2, ElementOfSeq DEF Range
  <2>4. QED
    BY <1>1, <2>2, <2>3, RRSetsOfIs
<1>4. QED
  BY <1>2, <1>3

LEMMA InitRemovals == Init => RemovalsInv
BY DEF Init, ServerInit, RemovalsInv, RemovalInv

\* Whoever else writes leaves the row that a server is about to delete.
LEMMA ServerKeepsRemovals ==
  ASSUME SoundTables, SoundTables', ServersInv, RemovalsInv,
         NEW y \in Server, ServerStep(y)
  PROVE  RemovalsInv'
<1>1. RemovalInv(y)'
  <2>1. CASE LookupRR(y)
    BY <2>1, LookupRRFindsRow
  <2>2. CASE LookupRRSet(y)
    <3>1. PICK id : GoTo(y, IF id = 0 THEN Branch(request[y].action, 0, rrId[y]) ELSE "lookupRR")
      BY <2>2 DEF LookupRRSet
    <3>2. rrId[y] = 0 /\ request[y].action \in UpdateAction
      BY <2>2 DEF LookupRRSet, ServersInv, ServerInv, RRLookedUp, UpdateRequest
    <3>3. Branch(request[y].action, 0, rrId[y]) # "removeRR"
      BY <3>2, BranchLeads
    <3>4. pc'[y] # "removeRR"
      BY <3>1, <3>3 DEF GoTo, ServersInv
    <3>5. QED
      BY <3>4 DEF RemovalInv
  <2>3. CASE InsertMissingRRSet(y) \/ InsertNewRR(y) \/ RemoveRR(y) \/ RemoveRelatedRRs(y)
    BY <2>3 DEF RemovalInv, InsertMissingRRSet, InsertNewRR, RemoveRR, RemoveRelatedRRs, GoTo,
       ServersInv
  <2>4. QED
    BY <2>1, <2>2, <2>3 DEF ServerStep
<1>2. ASSUME NEW z \in Server \ {y}, pc[z] = "removeRR"
      PROVE  RowsOf(rrsetIdOfRR[z])' = RowsOf(rrsetIdOfRR[z])
  <2>1. request[z].key # request[y].key /\ IsIdOf(rrsetIdOfRR[z], request[z].key)
    BY <1>2 DEF ServersInv, ServerInv, Located
  <2>2. \A id : IsIdOf(id, request[z].key) => RowsOf(id)' = RowsOf(id)
    BY <2>1, ServerKeepsOthers DEF RemovalsInv
  <2>3. rrsetIdOfRR'[z] = rrsetIdOfRR[z]
    BY OneServerMoves
  <2>4. QED
    BY <2>1, <2>2, <2>3 DEF RowsOf
<1>3. \A z \in Server \ {y} : RemovalInv(z)'
  BY <1>2, OneServerMoves DEF RemovalsInv, RemovalInv
<1>4. QED
  BY <1>1, <1>3 DEF RemovalsInv

LEMMA ToolKeepsRemovals ==
  ASSUME NoRemovalOfDelegated, SoundTables, ServersInv, ToolsInv, request \in [Server -> Request],
         RemovalsInv, NEW d \in Delegation, ToolStep(d)
  PROVE  RemovalsInv'
<1>1. UNCHANGED serverVars
  BY DEF ToolStep
<1>2. CASE RegisterRR(d)
  <2>1. PICK id \in Nat \ {0}, data \in Name, key \in {d.cert, d.sub} :
           /\ InsertRR(id, data) /\ IsIdOf(id, key)
           /\ \/ key = d.cert /\ data = d.certData
              \/ key = d.sub /\ data \in Range(d.nsDatas)
    BY <1>2, ToolWrites
  <2>2. ASSUME NEW z \in Server, pc[z] = "removeRR", NEW r \in RowsOf(rrsetIdOfRR[z]),
               r.data = request[z].data, request[z].action = "REMOVE"
        PROVE  r \in RowsOf(rrsetIdOfRR[z])'
    <3>1. IsIdOf(rrsetIdOfRR[z], request[z].key) /\ request[z] \in Request
      BY <2>2 DEF ServersInv, ServerInv, Located
    <3>2. ~(request[z].key = key /\ request[z].data = data)
      BY <2>1, <2>2, <3>1 DEF NoRemovalOfDelegated
    <3>3. rrsetIdOfRR[z] = id => request[z].key = key
      BY <2>1, <3>1, OnlyOneSetPerId
    <3>4. r \in rrs /\ ~(r.rrset = id /\ r.data = data)
      BY <2>2, <3>2, <3>3 DEF RowsOf
    <3>5. r \in rrs'
      BY <2>1, <3>4 DEF InsertRR, SelectRR
    <3>6. QED
      BY <1>1, <2>2, <3>5 DEF RowsOf, serverVars
  <2>3. QED
    BY <1>1, <2>2 DEF RemovalsInv, RemovalInv, serverVars
<1>3. CASE StartTool(d) \/ RegisterRRSet(d) \/ RefusedRRSet(d)
  <2>1. rrs' = rrs
    BY <1>3 DEF StartTool, RegisterRRSet, InsertRRSet, RefusedRRSet
  <2>2. QED
    BY <1>1, <2>1 DEF RemovalsInv, RemovalInv, RowsOf, serverVars
<1>4. QED
  BY <1>2, <1>3 DEF ToolStep

\* What is left of a step: no server gets to the deletion of a row, and the
\* records stay.
LEMMA OtherStepKeepsTables ==
  ASSUME ServersInv, NEW y \in Server,
         \/ \E r \in Request : ReceiveUpdate(y, r)
         \/ AnswerUpdate(y) \/ StatementFails(y) \/ Crash(y) \/ Restart(y)
  PROVE  /\ rrsets' = rrsets /\ rrs' = rrs /\ UNCHANGED toolVars
         /\ pc'[y] \in {"lookupRRSet", "idle", "down"}
<1>1. CASE \E r \in Request : ReceiveUpdate(y, r)
  BY <1>1 DEF ReceiveUpdate, Receive, GoTo, ServersInv
<1>2. CASE AnswerUpdate(y) \/ StatementFails(y) \/ Crash(y) \/ Restart(y)
  BY <1>2 DEF AnswerUpdate, Answered, StatementFails, Crash, Dies, Restart, Leave, GoTo, ServersInv
<1>3. QED
  BY <1>1, <1>2

LEMMA NextRemovals ==
  ASSUME NoRemovalOfDelegated, IInv, IInv', RemovalsInv, [Next]_vars
  PROVE  RemovalsInv'
<1>1. ASSUME NEW y \in Server, ServerStep(y)
      PROVE  RemovalsInv'
  BY <1>1, ServerKeepsRemovals DEF IInv
<1>2. ASSUME NEW y \in Server,
             \/ \E r \in Request : ReceiveUpdate(y, r)
             \/ AnswerUpdate(y) \/ StatementFails(y) \/ Crash(y) \/ Restart(y)
      PROVE  RemovalsInv'
  <2>1. rrs' = rrs /\ RemovalInv(y)'
    BY <1>2, OtherStepKeepsTables DEF IInv, RemovalInv
  <2>2. \A z \in Server \ {y} : RemovalInv(z)'
    BY <1>2, <2>1, OneServerMoves DEF IInv, RemovalsInv, RemovalInv, RowsOf
  <2>3. QED
    BY <2>1, <2>2 DEF RemovalsInv
<1>3. ASSUME NEW d \in Delegation, ToolStep(d)
      PROVE  RemovalsInv'
  BY <1>3, ToolKeepsRemovals DEF IInv
<1>4. ASSUME UNCHANGED <<rrsets, rrs, serverVars>>
      PROVE  RemovalsInv'
  BY <1>4 DEF RemovalsInv, RemovalInv, RowsOf, serverVars
<1>5. QED
  BY <1>1, <1>2, <1>3, <1>4 DEF Next, vars, ToolCrash

\* A step that moves the server of a zone changes nothing that is found under
\* a key of another zone.
LEMMA StepIsIsolated ==
  ASSUME IInv, IInv', RemovalsInv, [Next]_vars,
         NEW z \in Server, pc'[z] # pc[z], NEW key \in RRSetKey, key.zone # z
  PROVE  Findable(key)' = Findable(key)
<1>1. ASSUME UNCHANGED <<rrsets, rrs>>
      PROVE  Findable(key)' = Findable(key)
  BY <1>1 DEF Findable, SelectRRSet, LastId, Records
<1>2. CASE ServerStep(z)
  <2>1. key # request[z].key
    BY DEF IInv, ServersInv, ServerInv
  <2>2. QED
    BY <1>2, <2>1, ServerKeepsOthers DEF IInv, RemovalsInv
<1>3. CASE \/ \E r \in Request : ReceiveUpdate(z, r)
           \/ AnswerUpdate(z) \/ StatementFails(z) \/ Crash(z) \/ Restart(z)
  BY <1>1, <1>3, OtherStepKeepsTables DEF IInv
<1>4. ASSUME NEW y \in Server \ {z},
             \/ ServerStep(y)
             \/ \E r \in Request : ReceiveUpdate(y, r)
             \/ AnswerUpdate(y) \/ StatementFails(y) \/ Crash(y) \/ Restart(y)
      PROVE  FALSE
  BY <1>4, OneServerMoves DEF IInv
<1>5. ASSUME NEW d \in Delegation, ToolStep(d) \/ ToolCrash(d)
      PROVE  FALSE
  BY <1>5 DEF ToolStep, ToolCrash, serverVars
<1>6. ~UNCHANGED vars
  BY DEF vars, serverVars
<1>7. QED
  BY <1>2, <1>3, <1>4, <1>5, <1>6 DEF Next

\* The server of a zone writes to its zone alone, for every number of zones,
\* servers and runs of zone-delegate next to them.
THEOREM ServersAreIsolated == NoRemovalOfDelegated /\ Spec => ZonesAreIsolated
<1>1. ASSUME NoRemovalOfDelegated
      PROVE  IInv /\ IInv' /\ RemovalsInv /\ [Next]_vars => RemovalsInv'
  BY <1>1, NextRemovals
<1>2. IInv /\ IInv' /\ RemovalsInv /\ [Next]_vars =>
        [\A z \in Server : pc'[z] # pc[z] =>
           \A key \in RRSetKey : key.zone # z => Findable(key)' = Findable(key)]_vars
  BY StepIsIsolated
<1>3. CASE NoRemovalOfDelegated
  <2>1. IInv /\ IInv' /\ RemovalsInv /\ [Next]_vars => RemovalsInv'
    BY <1>1, <1>3
  <2>2. QED
    BY <1>2, <2>1, SpecIInv, InitRemovals, PTL DEF Spec, ZonesAreIsolated
<1>4. QED
  BY <1>3

-----------------------------------------------------------------------------
(***************************************************************************)
(* What an acknowledgement says.  Clients update sets that zone-delegate     *)
(* does not write, and no set they update has two rows to begin with: a      *)
(* server then is the only writer of the sets of its zone.                   *)
(***************************************************************************)
UpdatesApart == \A r \in Request, d \in Delegation : r.key # d.cert /\ r.key # d.sub

OneRowInitially ==
  \A t \in InitialTables, r \in Request :
    \A s, q \in t.rrsets : s.key = r.key /\ q.key = r.key => s = q

OneRow == \A r \in Request : \A s, q \in SelectRRSet(r.key) : s = q

\* What the server of z has made so far of the records it began with.
UpdateInv(z) ==
  LET key == request[z].key
      rows == RowsOf(rrsetIdOfRR[z])
      Replacing == request[z].action = "REPLACE-ALL" /\ \E b \in before[z] : before[z] = {b} IN
  /\ pc[z] \in {"lookupRRSet", "lookupRR", "removeRR"} => before[z] = Findable(key)
  /\ pc[z] = "insertRRSet" => /\ SelectRRSet(key) = {} /\ before[z] = {<< >>}
                              /\ request[z].action \in {"ADD", "REPLACE-ALL"}
  /\ pc[z] = "insertRR" =>
       \/ /\ request[z].action = "ADD" /\ before[z] = Findable(key)
          /\ ~\E r \in rows : r.data = request[z].data
       \/ Replacing /\ rows = {}
  /\ pc[z] = "removeRelatedRRs" => Replacing
  /\ pc[z] = "answer" =>
       Findable(key) = {Updated(b, request[z].action, request[z].data) : b \in before[z]}

UpdatesInv ==
  /\ DOMAIN before = Server
  /\ OneRow
  /\ \A z \in Server : UpdateInv(z)

LEMMA ApartSaysNoRemoval == UpdatesApart => NoRemovalOfDelegated
BY DEF UpdatesApart, NoRemovalOfDelegated

LEMMA InitUpdates == OneRowInitially /\ Init => UpdatesInv
BY DEF OneRowInitially, Init, ServerInit, UpdatesInv, OneRow, SelectRRSet, UpdateInv

\* The server does nothing and others leave its set alone.
LEMMA UpdateInvStays ==
  ASSUME NEW z \in Server, ServerInv(z), UpdateInv(z),
         pc'[z] = pc[z], request'[z] = request[z], rrsetIdOfRR'[z] = rrsetIdOfRR[z],
         before'[z] = before[z],
         SelectRRSet(request[z].key)' = SelectRRSet(request[z].key),
         Findable(request[z].key)' = Findable(request[z].key),
         \A id : IsIdOf(id, request[z].key) => RowsOf(id)' = RowsOf(id)
  PROVE  UpdateInv(z)'
<1> DEFINE key == request[z].key
           id == rrsetIdOfRR[z]
<1>1. Findable(request[z].key)' = Findable(key) /\ SelectRRSet(request[z].key)' = SelectRRSet(key)
  OBVIOUS
<1>2. pc[z] = "insertRR" => RowsOf(rrsetIdOfRR[z])' = RowsOf(id)
  <2>1. pc[z] = "insertRR" => RowsOf(id)' = RowsOf(id)
    BY DEF ServerInv, Located
  <2>2. QED
    BY <2>1 DEF RowsOf
<1>3. QED
  BY <1>1, <1>2 DEF UpdateInv

LEMMA FirstLookupUpdates ==
  ASSUME IInv, UpdatesInv, NEW z \in Server, LookupRRSet(z), before' = before
  PROVE  UpdateInv(z)'
<1> DEFINE key == request[z].key
           action == request[z].action
           data == request[z].data
<1>1. PICK id \in LastId(SelectRRSet(key)) :
        GoTo(z, IF id = 0 THEN Branch(action, 0, rrId[z]) ELSE "lookupRR")
  BY DEF LookupRRSet
<1>2. /\ rrId[z] = 0 /\ action \in UpdateAction /\ data \in Name /\ before[z] = Findable(key)
      /\ request' = request
  BY DEF LookupRRSet, IInv, ServersInv, ServerInv, RRLookedUp, UpdateRequest, UpdatesInv, UpdateInv
<1>3. Findable(request[z].key)' = Findable(key) /\ SelectRRSet(request[z].key)' = SelectRRSet(key)
  BY DEF LookupRRSet, Findable, SelectRRSet, Records
<1>4. CASE id # 0
  <2>1. pc'[z] = "lookupRR"
    BY <1>1, <1>4 DEF GoTo, IInv
  <2>2. QED
    BY <1>2, <1>3, <2>1 DEF UpdateInv
<1>5. CASE id = 0
  <2>1. SelectRRSet(key) = {}
    BY <1>5, LastIdOf DEF SelectRRSet, IInv, SoundTables, IsRRSetTable, RRSetRow
  <2>2. Findable(key) = {<< >>}
    BY <2>1, FindableOfNoSet DEF IInv
  <2>3. /\ Updated(<< >>, "NONE", data) = << >>
        /\ Updated(<< >>, "REMOVE", data) = << >>
    <3>1. AreRows({})
      BY FS_EmptySet DEF AreRows
    <3>2. QED
      BY <1>2, <3>1, UpdatedOfRows, InOrderOfNone
  <2>4. PICK next : next = Branch(action, 0, 0)
    OBVIOUS
  <2>5. pc'[z] = next
    BY <1>1, <1>2, <1>5, <2>4 DEF GoTo, IInv
  <2>6. \/ next = "answer" /\ action \in {"NONE", "REMOVE"}
        \/ next = "insertRRSet" /\ action \in {"ADD", "REPLACE-ALL"}
        \/ next = "down"
    BY <1>2, <2>4, BranchLeads
  <2>7. CASE next = "answer"
    <3>1. {Updated(b, action, data) : b \in {<< >>}} = {<< >>}
      BY <2>3, <2>6, <2>7
    <3>2. QED
      BY <1>2, <1>3, <2>2, <2>5, <2>7, <3>1 DEF UpdateInv
  <2>8. CASE next = "insertRRSet"
    BY <1>2, <1>3, <2>1, <2>2, <2>5, <2>6, <2>8 DEF UpdateInv
  <2>9. CASE next = "down"
    BY <2>5, <2>9 DEF UpdateInv
  <2>10. QED
    BY <2>6, <2>7, <2>8, <2>9
<1>6. QED
  BY <1>4, <1>5

LEMMA FoundOfServer ==
  ASSUME IInv, OneRow, NEW z \in Server, pc[z] \in Located
  PROVE  /\ IsIdOf(rrsetIdOfRR[z], request[z].key)
         /\ Findable(request[z].key) = {InOrder(RowsOf(rrsetIdOfRR[z]))}
         /\ AreRows(RowsOf(rrsetIdOfRR[z]))
<1>1. IsIdOf(rrsetIdOfRR[z], request[z].key) /\ request[z] \in Request
  BY DEF IInv, ServersInv, ServerInv
<1>2. Findable(request[z].key) = {Records(rrsetIdOfRR[z])}
  BY <1>1, FindableOfSet DEF OneRow
<1>3. QED
  BY <1>1, <1>2, RowsOfSet DEF IInv

LEMMA SecondLookupUpdates ==
  ASSUME IInv, UpdatesInv, NEW z \in Server, LookupRR(z), before' = before
  PROVE  UpdateInv(z)'
<1> DEFINE key == request[z].key
           action == request[z].action
           data == request[z].data
           set == rrsetIdOfRR[z]
           rows == RowsOf(set)
<1>1. PICK id \in LastId(SelectRR(set, data)) : GoTo(z, Branch(action, rrsetId[z], id))
  BY DEF LookupRR
<1>2. /\ action \in UpdateAction /\ data \in Name /\ before[z] = Findable(key)
      /\ request' = request /\ rrsetIdOfRR' = rrsetIdOfRR /\ rrs' = rrs
      /\ pc[z] \in Located
  BY DEF LookupRR, IInv, ServersInv, UpdateRequest, UpdatesInv, UpdateInv, Located
<1>3. Findable(request[z].key)' = Findable(key) /\ RowsOf(rrsetIdOfRR[z])' = rows
  BY DEF LookupRR, Findable, SelectRRSet, Records, RowsOf
<1>4. Findable(key) = {InOrder(rows)} /\ AreRows(rows)
  BY <1>2, FoundOfServer DEF UpdatesInv
<1>5. id \in Nat /\ (id # 0 <=> \E r \in rows : r.data = data)
  BY LastIdOf DEF SelectRR, RowsOf, IInv, SoundTables, IsRRTable, RRRow
<1>6. PICK next : next = Branch(action, rrsetId[z], id)
  OBVIOUS
<1>7. pc'[z] = next
  BY <1>1, <1>6 DEF GoTo, IInv
<1>8. rrsetId[z] \in Nat /\ rrsetId[z] # 0
  BY <1>2 DEF IInv, ServersInv, ServerInv, IsIdOf, SoundTables, IsRRSetTable, RRSetRow
<1>9. \/ next = "answer" /\ \/ action = "NONE"
                            \/ action = "ADD" /\ id # 0
                            \/ action = "REMOVE" /\ id = 0
      \/ next = "insertRR" /\ action = "ADD" /\ id = 0
      \/ next = "removeRR"
      \/ next = "removeRelatedRRs" /\ action = "REPLACE-ALL"
      \/ next = "down"
  BY <1>2, <1>5, <1>6, <1>8, BranchLeads
<1>10. CASE next = "answer"
  <2>1. Updated(InOrder(rows), action, data) = InOrder(rows)
    BY <1>2, <1>4, <1>5, <1>9, <1>10, UpdatedOfRows
  <2>2. {Updated(b, action, data) : b \in {InOrder(rows)}} = {InOrder(rows)}
    BY <2>1
  <2>3. QED
    BY <1>2, <1>3, <1>4, <1>7, <1>10, <2>2 DEF UpdateInv
<1>11. CASE next # "answer"
  BY <1>2, <1>3, <1>4, <1>5, <1>7, <1>9, <1>11 DEF UpdateInv
<1>12. QED
  BY <1>10, <1>11

LEMMA NewSetIsEmpty ==
  ASSUME IInv, UpdatesInv, NEW z \in Server, InsertMissingRRSet(z)
  PROVE  /\ Findable(request[z].key)' = {<< >>}
         /\ RowsOf(rrsetIdOfRR[z])' = {}
<1> DEFINE key == request[z].key
           new == [id |-> NewId(rrsets), key |-> key, class |-> ""]
<1>1. PICK id : id = NewId(rrsets)
  OBVIOUS
<1>2. new.id = id /\ new.key = key
  BY <1>1
<1>3. /\ rrsets' = rrsets \cup {new} /\ rrs' = rrs /\ request' = request
      /\ pc'[z] = "insertRR" /\ rrsetIdOfRR'[z] = id
  BY <1>1 DEF InsertMissingRRSet, InsertRRSet, GoTo, IInv, ServersInv
<1> HIDE DEF new
<1>4. /\ SelectRRSet(key) = {} /\ before[z] = {<< >>}
      /\ request[z].action \in {"ADD", "REPLACE-ALL"}
  BY DEF InsertMissingRRSet, UpdatesInv, UpdateInv
<1>5. SelectRRSet(key)' = {new}
  BY <1>2, <1>3, <1>4 DEF SelectRRSet
<1>6. RowsOf(id)' = {}
  <2>1. \A r \in rrs : r.rrset \in Nat /\ r.rrset < id
    BY <1>1, NewRRSetId DEF IInv, SoundTables, IsRRTable, RRRow
  <2>2. \A r \in rrs : r.rrset # id
    BY <2>1
  <2>3. QED
    BY <1>3, <2>2 DEF RowsOf
<1>7. Findable(request[z].key)' = {<< >>}
  <2>1. LastId(SelectRRSet(key))' = {id}
    BY <1>2, <1>5 DEF LastId
  <2>2. Records(id)' = << >>
    BY <1>6, InOrderOfNone DEF Records, RowsOf
  <2>3. Findable(key)' = {<< >>}
    BY <2>1, <2>2 DEF Findable
  <2>4. QED
    BY <1>3, <2>3
<1>8. RowsOf(rrsetIdOfRR[z])' = {}
  BY <1>3, <1>6 DEF RowsOf
<1>9. QED
  BY <1>7, <1>8

LEMMA NewSetUpdates ==
  ASSUME IInv, UpdatesInv, NEW z \in Server, InsertMissingRRSet(z), before' = before
  PROVE  UpdateInv(z)'
<1>1. /\ request' = request /\ pc'[z] = "insertRR"
      /\ before[z] = {<< >>} /\ request[z].action \in {"ADD", "REPLACE-ALL"}
  BY DEF InsertMissingRRSet, GoTo, IInv, UpdatesInv, UpdateInv
<1>2. QED
  BY <1>1, NewSetIsEmpty DEF UpdateInv

\* After a statement on the records of its set the server finds the rows left.
LEMMA FoundAfterwards ==
  ASSUME IInv, OneRow, NEW z \in Server, pc[z] \in Located,
         rrsets' = rrsets, request' = request, rrsetIdOfRR' = rrsetIdOfRR
  PROVE  Findable(request[z].key)' = {InOrder(RowsOf(rrsetIdOfRR[z])')}
<1> DEFINE key == request[z].key
<1>1. PICK id : id = rrsetIdOfRR[z]
  OBVIOUS
<1>2. IsIdOf(id, key) /\ request[z] \in Request
  BY <1>1, FoundOfServer DEF IInv
<1>3. LastId(SelectRRSet(key)) = {id}
  BY <1>2, FindableOfSet DEF OneRow
<1>4. LastId(SelectRRSet(key))' = {id}
  BY <1>3 DEF SelectRRSet, LastId
<1>5. Findable(key)' = {Records(id)'}
  BY <1>4 DEF Findable
<1>6. Records(id)' = InOrder(RowsOf(id)')
  BY DEF Records, RowsOf
<1>7. RowsOf(rrsetIdOfRR[z])' = RowsOf(id)'
  BY <1>1 DEF RowsOf
<1>8. QED
  BY <1>5, <1>6, <1>7

LEMMA InsertionUpdates ==
  ASSUME IInv, UpdatesInv, NEW z \in Server, InsertNewRR(z), before' = before
  PROVE  UpdateInv(z)'
<1> DEFINE key == request[z].key
           action == request[z].action
           set == rrsetIdOfRR[z]
           rows == RowsOf(set)
           others == rrs \ SelectRR(set, request[z].data)
<1>1. PICK data \in Name : data = request[z].data
  BY DEF IInv, ServersInv, UpdateRequest
<1>2. PICK id : id = NewId(others)
  OBVIOUS
<1>3. PICK row : row = [id |-> id, rrset |-> set, data |-> data]
  OBVIOUS
<1>4. /\ request' = request /\ rrsetIdOfRR' = rrsetIdOfRR /\ pc[z] = "insertRR"
      /\ pc'[z] = "answer" /\ InsertRR(set, data)
  BY <1>1 DEF InsertNewRR, GoTo, IInv, ServersInv
<1>5. set \in Nat
  BY DEF IInv, ServersInv
<1>6. /\ rrsets' = rrsets /\ id \in Nat /\ rrs' = others \cup {row}
      /\ \A r \in others : r.id < id
  BY <1>1, <1>2, <1>3, <1>4, <1>5, InsertRREffect DEF IInv
<1>7. row.id = id /\ row.rrset = set /\ row.data = data
  BY <1>3
<1>8. AreRows(rows) /\ Findable(key) = {InOrder(rows)}
  BY <1>4, FoundOfServer DEF UpdatesInv, Located
<1>9. \/ action = "ADD" /\ before[z] = Findable(key) /\ ~\E r \in rows : r.data = data
      \/ action = "REPLACE-ALL" /\ rows = {} /\ \E b \in before[z] : before[z] = {b}
  BY <1>1, <1>4 DEF UpdatesInv, UpdateInv
<1>10. rows \subseteq others
  BY <1>1, <1>9 DEF RowsOf, SelectRR
<1>11. RowsOf(rrsetIdOfRR[z])' = rows \cup {row}
  <2>1. RowsOf(rrsetIdOfRR[z])' = {r \in others \cup {row} : r.rrset = set}
    BY <1>4, <1>6 DEF RowsOf
  <2>2. \A r \in others : r \in rrs
    OBVIOUS
  <2> HIDE DEF others
  <2>3. QED
    BY <1>7, <1>10, <2>1, <2>2 DEF RowsOf
<1>12. InOrder(rows \cup {row}) = Append(InOrder(rows), data)
  <2>1. \A r \in rows : r.id < row.id
    BY <1>6, <1>7, <1>10
  <2> HIDE DEF rows
  <2>2. QED
    BY <1>6, <1>7, <1>8, <2>1, InOrderAppends
<1>13. Findable(request[z].key)' = {Append(InOrder(rows), data)}
  BY <1>4, <1>6, <1>11, <1>12, FoundAfterwards DEF UpdatesInv, Located
<1>14. {Updated(b, action, data) : b \in before[z]} = {Append(InOrder(rows), data)}
  <2>1. CASE action = "ADD" /\ before[z] = Findable(key) /\ ~\E r \in rows : r.data = data
    <3>1. before[z] = {InOrder(rows)}
      BY <1>8, <2>1
    <3>2. Updated(InOrder(rows), "ADD", data) = Append(InOrder(rows), data)
      BY <1>8, <2>1, UpdatedOfRows
    <3>3. action = "ADD"
      BY <2>1
    <3> HIDE DEF rows, action
    <3>4. \A b \in before[z] : Updated(b, action, data) = Append(InOrder(rows), data)
      BY <3>1, <3>2, <3>3
    <3>5. QED
      BY <3>1, <3>4
  <2>2. CASE action = "REPLACE-ALL" /\ rows = {} /\ \E b \in before[z] : before[z] = {b}
    <3>1. Append(InOrder(rows), data) = <<data>>
      <4>1. \A d : Append(<< >>, d) = <<d>>
        OBVIOUS
      <4>2. InOrder(rows) = << >>
        BY <2>2, InOrderOfNone
      <4>3. QED
        BY <4>1, <4>2
    <3>2. \A b : Updated(b, "REPLACE-ALL", data) = <<data>>
      BY DEF Updated
    <3> HIDE DEF rows
    <3>3. QED
      BY <2>2, <3>1, <3>2
  <2>3. QED
    BY <1>9, <2>1, <2>2
<1>15. QED
  BY <1>1, <1>4, <1>13, <1>14 DEF UpdateInv

LEMMA RemovalUpdates ==
  ASSUME IInv, UpdatesInv, NEW z \in Server, RemovalInv(z), RemoveRR(z), before' = before
  PROVE  UpdateInv(z)'
<1> DEFINE key == request[z].key
           set == rrsetIdOfRR[z]
           rows == RowsOf(set)
<1>1. PICK row \in rows : row.id = rrId[z] /\ row.data = request[z].data
  BY DEF RemoveRR, RemovalInv
<1>2. /\ request' = request /\ rrsetIdOfRR' = rrsetIdOfRR /\ rrsets' = rrsets
      /\ pc[z] = "removeRR" /\ pc'[z] = "answer"
      /\ rrs' = {r \in rrs : r.id # row.id}
      /\ request[z].action = "REMOVE"
  BY <1>1 DEF RemoveRR, DeleteRR, GoTo, IInv, ServersInv, RemovalInv
<1>3. /\ AreRows(rows) /\ Findable(key) = {InOrder(rows)}
      /\ \A r \in rows : r.data = row.data => r = row
  BY <1>2, FoundOfServer, RowsOfSet DEF IInv, UpdatesInv, Located
<1>4. RowsOf(rrsetIdOfRR[z])' = rows \ {row}
  <2>1. \A r \in rrs : r.id = row.id <=> r = row
    BY <1>1 DEF IInv, SoundTables, IsRRTable, RowsOf
  <2>2. QED
    BY <1>2, <2>1 DEF RowsOf
<1>5. Findable(request[z].key)' = {InOrder(rows \ {row})}
  BY <1>2, <1>4, FoundAfterwards DEF UpdatesInv, Located
<1>6. Updated(InOrder(rows), "REMOVE", request[z].data) = InOrder(rows \ {row})
  <2> HIDE DEF rows
  <2>1. QED
    BY <1>1, <1>3, UpdatedRemoves
<1>7. before[z] = {InOrder(rows)}
  BY <1>2, <1>3 DEF UpdatesInv, UpdateInv
<1> HIDE DEF rows
<1>8. {Updated(b, "REMOVE", request[z].data) : b \in before[z]} = {InOrder(rows \ {row})}
  BY <1>6, <1>7
<1>9. QED
  BY <1>2, <1>5, <1>8 DEF UpdateInv

LEMMA EmptyingUpdates ==
  ASSUME IInv, UpdatesInv, NEW z \in Server, RemoveRelatedRRs(z), before' = before
  PROVE  UpdateInv(z)'
<1>1. /\ request' = request /\ rrsetIdOfRR' = rrsetIdOfRR
      /\ pc[z] = "removeRelatedRRs" /\ pc'[z] = "insertRR"
      /\ rrs' = {r \in rrs : r.rrset # rrsetId[z]}
      /\ rrsetId[z] = rrsetIdOfRR[z]
  BY DEF RemoveRelatedRRs, DeleteRRsOf, GoTo, IInv, ServersInv, ServerInv, Located
<1>2. RowsOf(rrsetIdOfRR[z])' = {}
  BY <1>1 DEF RowsOf
<1>3. request[z].action = "REPLACE-ALL" /\ \E b \in before[z] : before[z] = {b}
  BY <1>1 DEF UpdatesInv, UpdateInv
<1>4. QED
  BY <1>1, <1>2, <1>3 DEF UpdateInv

\* zone-delegate changes no set but the two it writes, so it leaves those alone
\* that clients update.
LEMMA ToolKeepsOthers ==
  ASSUME SoundTables, SoundTables', ToolsInv, NEW d \in Delegation, ToolStep(d),
         NEW key, key # d.cert, key # d.sub
  PROVE  /\ SelectRRSet(key)' = SelectRRSet(key)
         /\ \A id : IsIdOf(id, key) => RowsOf(id)' = RowsOf(id)
         /\ Findable(key)' = Findable(key)
<1>2. SelectRRSet(key)' = SelectRRSet(key)
  <2>1. CASE RegisterRRSet(d)
    <3>1. PICK i \in 1 .. 2 : i = at[d]
      BY <2>1, RRSetsOfIs DEF RegisterRRSet
    <3>2. PICK other : other = RRSetsOf(d)[i] /\ other # key
      BY RRSetsOfIs
    <3> DEFINE new == [id |-> NewId(rrsets), key |-> other, class |-> "NULL"]
    <3>3. rrsets' = rrsets \cup {new} /\ new.key = other
      BY <2>1, <3>1, <3>2 DEF RegisterRRSet, InsertRRSet
    <3> HIDE DEF new
    <3>4. QED
      BY <3>2, <3>3 DEF SelectRRSet
  <2>2. CASE StartTool(d) \/ RegisterRR(d) \/ RefusedRRSet(d)
    BY <2>2 DEF StartTool, RegisterRR, InsertRR, RefusedRRSet, SelectRRSet
  <2>3. QED
    BY <2>1, <2>2 DEF ToolStep
<1>3. ASSUME NEW id, IsIdOf(id, key)
      PROVE  RowsOf(id)' = RowsOf(id)
  <2>1. CASE RegisterRR(d)
    <3>1. PICK set \in Nat \ {0}, data \in Name, other \in {d.cert, d.sub} :
            InsertRR(set, data) /\ IsIdOf(set, other)
      BY <2>1, ToolWrites
    <3>2. set # id
      BY <1>3, <3>1, OnlyOneSetPerId
    <3>3. QED
      BY <3>1, <3>2 DEF InsertRR, SelectRR, RowsOf
  <2>2. CASE StartTool(d) \/ RegisterRRSet(d) \/ RefusedRRSet(d)
    BY <2>2 DEF StartTool, RegisterRRSet, InsertRRSet, RefusedRRSet, RowsOf
  <2>3. QED
    BY <2>1, <2>2 DEF ToolStep
<1>4. Findable(key)' = Findable(key)
  BY <1>2, <1>3, FindableStays
<1>5. QED
  BY <1>2, <1>3, <1>4

LEMMA ToolKeepsRequested ==
  ASSUME UpdatesApart, IInv, IInv', NEW d \in Delegation, ToolStep(d), NEW r \in Request
  PROVE  /\ SelectRRSet(r.key)' = SelectRRSet(r.key)
         /\ \A id : IsIdOf(id, r.key) => RowsOf(id)' = RowsOf(id)
         /\ Findable(r.key)' = Findable(r.key)
BY ToolKeepsOthers DEF UpdatesApart, IInv

\* A set gets its row from the server of its zone, and only one.
LEMMA ServerKeepsOneRow ==
  ASSUME IInv, IInv', RemovalsInv, UpdatesInv, NEW y \in Server, ServerStep(y)
  PROVE  OneRow'
<1> SUFFICES ASSUME NEW r \in Request
             PROVE  \A s, q \in SelectRRSet(r.key)' : s = q
  BY DEF OneRow
<1>1. \A s, q \in SelectRRSet(r.key) : s = q
  BY DEF UpdatesInv, OneRow
<1>2. CASE r.key # request[y].key
  BY <1>1, <1>2, ServerKeepsOthers DEF IInv, RemovalsInv
<1>3. CASE r.key = request[y].key /\ InsertMissingRRSet(y)
  <2> DEFINE new == [id |-> NewId(rrsets), key |-> request[y].key, class |-> ""]
  <2>1. rrsets' = rrsets \cup {new}
    BY <1>3 DEF InsertMissingRRSet, InsertRRSet
  <2> HIDE DEF new
  <2>2. SelectRRSet(r.key) = {}
    BY <1>3 DEF InsertMissingRRSet, UpdatesInv, UpdateInv
  <2>3. QED
    BY <2>1, <2>2 DEF SelectRRSet
<1>4. CASE ~InsertMissingRRSet(y)
  <2>1. rrsets' = rrsets
    BY <1>4 DEF ServerStep, LookupRRSet, LookupRR, InsertNewRR, InsertRR, RemoveRR, DeleteRR,
       RemoveRelatedRRs, DeleteRRsOf
  <2>2. QED
    BY <1>1, <2>1 DEF SelectRRSet
<1>5. QED
  BY <1>2, <1>3, <1>4

LEMMA ServerStepUpdates ==
  ASSUME IInv, IInv', RemovalsInv, UpdatesInv, NEW y \in Server, ServerStep(y)
  PROVE  UpdatesInv'
<1>1. before' = before
  BY DEF ServerStep
<1>2. UpdateInv(y)'
  BY <1>1, FirstLookupUpdates, SecondLookupUpdates, NewSetUpdates, InsertionUpdates,
     RemovalUpdates, EmptyingUpdates DEF ServerStep, RemovalsInv
<1>3. ASSUME NEW z \in Server \ {y}
      PROVE  UpdateInv(z)'
  <2>1. request[z].key # request[y].key
    BY DEF IInv, ServersInv, ServerInv
  <2>2. ServerInv(z) /\ UpdateInv(z)
    BY DEF IInv, ServersInv, UpdatesInv
  <2>3. QED
    BY <1>1, <2>1, <2>2, ServerKeepsOthers, OneServerMoves, UpdateInvStays DEF IInv, RemovalsInv
<1>4. QED
  BY <1>1, <1>2, <1>3, ServerKeepsOneRow DEF UpdatesInv

LEMMA OtherStepUpdates ==
  ASSUME IInv, UpdatesInv, NEW y \in Server,
         \/ \E r \in Request : ReceiveUpdate(y, r)
         \/ AnswerUpdate(y) \/ StatementFails(y) \/ Crash(y) \/ Restart(y)
  PROVE  UpdatesInv'
<1>1. rrsets' = rrsets /\ rrs' = rrs /\ pc'[y] \in {"lookupRRSet", "idle", "down"}
  BY OtherStepKeepsTables DEF IInv
<1>2. /\ \A key : Findable(key)' = Findable(key) /\ SelectRRSet(key)' = SelectRRSet(key)
      /\ \A id : RowsOf(id)' = RowsOf(id)
  BY <1>1 DEF Findable, LastId, SelectRRSet, Records, RowsOf
<1>3. /\ DOMAIN before' = Server
      /\ \A z \in Server \ {y} : before'[z] = before[z]
  BY DEF UpdatesInv, ReceiveUpdate, AnswerUpdate, StatementFails, Crash, Dies, Restart
<1>4. UpdateInv(y)'
  <2>1. CASE \E r \in Request : ReceiveUpdate(y, r)
    <3>1. PICK r \in Request : ReceiveUpdate(y, r)
      BY <2>1
    <3>2. request'[y] = r /\ before'[y] = Findable(r.key) /\ pc'[y] = "lookupRRSet"
      BY <3>1 DEF ReceiveUpdate, Receive, GoTo, IInv, ServersInv, UpdatesInv
    <3>3. Findable(request[y].key)' = Findable(r.key)
      <4>1. Findable(request[y].key)' = Findable(r.key)'
        BY <3>2 DEF Findable, SelectRRSet
      <4>2. QED
        BY <1>2, <4>1
    <3>4. QED
      BY <3>2, <3>3 DEF UpdateInv
  <2>2. CASE AnswerUpdate(y) \/ StatementFails(y) \/ Crash(y) \/ Restart(y)
    <3>1. pc'[y] \in {"idle", "down"}
      BY <2>2 DEF AnswerUpdate, Answered, StatementFails, Crash, Dies, Restart, Leave, GoTo, IInv
    <3>2. QED
      BY <3>1 DEF UpdateInv
  <2>3. QED
    BY <2>1, <2>2
<1>5. ASSUME NEW z \in Server \ {y}
      PROVE  UpdateInv(z)'
  <2>1. ServerInv(z) /\ UpdateInv(z)
    BY DEF IInv, ServersInv, UpdatesInv
  <2>2. QED
    BY <1>2, <1>3, <2>1, OneServerMoves, UpdateInvStays DEF IInv
<1>6. OneRow'
  BY <1>1 DEF UpdatesInv, OneRow, SelectRRSet
<1>7. QED
  BY <1>3, <1>4, <1>5, <1>6 DEF UpdatesInv

LEMMA ToolStepUpdates ==
  ASSUME UpdatesApart, IInv, IInv', UpdatesInv, NEW d \in Delegation, ToolStep(d)
  PROVE  UpdatesInv'
<1>1. UNCHANGED serverVars /\ before' = before
  BY DEF ToolStep
<1>2. ASSUME NEW z \in Server
      PROVE  UpdateInv(z)'
  <2>1. request[z] \in Request /\ ServerInv(z) /\ UpdateInv(z)
    BY DEF IInv, ServersInv, UpdatesInv
  <2>2. QED
    BY <1>1, <2>1, ToolKeepsRequested, UpdateInvStays DEF serverVars
<1>3. OneRow'
  BY ToolKeepsRequested DEF UpdatesInv, OneRow
<1>4. QED
  BY <1>1, <1>2, <1>3 DEF UpdatesInv

LEMMA NextUpdates ==
  ASSUME UpdatesApart, IInv, IInv', RemovalsInv, UpdatesInv, [Next]_vars
  PROVE  UpdatesInv'
<1>1. ASSUME NEW y \in Server, ServerStep(y)
      PROVE  UpdatesInv'
  BY <1>1, ServerStepUpdates
<1>2. ASSUME NEW y \in Server,
             \/ \E r \in Request : ReceiveUpdate(y, r)
             \/ AnswerUpdate(y) \/ StatementFails(y) \/ Crash(y) \/ Restart(y)
      PROVE  UpdatesInv'
  BY <1>2, OtherStepUpdates
<1>3. ASSUME NEW d \in Delegation, ToolStep(d)
      PROVE  UpdatesInv'
  BY <1>3, ToolStepUpdates
<1>4. ASSUME UNCHANGED <<rrsets, rrs, serverVars, before>>
      PROVE  UpdatesInv'
  <2>1. /\ \A key : Findable(key)' = Findable(key) /\ SelectRRSet(key)' = SelectRRSet(key)
        /\ \A id : RowsOf(id)' = RowsOf(id)
    BY <1>4 DEF Findable, LastId, SelectRRSet, Records, RowsOf
  <2>2. \A z \in Server : UpdateInv(z)'
    BY <1>4, <2>1, UpdateInvStays DEF IInv, ServersInv, UpdatesInv, serverVars
  <2>3. QED
    BY <1>4, <2>2 DEF UpdatesInv, OneRow, SelectRRSet
<1>5. QED
  BY <1>1, <1>2, <1>3, <1>4 DEF Next, vars, ToolCrash

LEMMA SpecUpdates ==
  UpdatesApart /\ OneRowInitially /\ Spec => [](IInv /\ RemovalsInv /\ UpdatesInv)
<1>1. ASSUME UpdatesApart
      PROVE  /\ IInv /\ IInv' /\ RemovalsInv /\ [Next]_vars => RemovalsInv'
             /\ IInv /\ IInv' /\ RemovalsInv /\ UpdatesInv /\ [Next]_vars => UpdatesInv'
  BY <1>1, ApartSaysNoRemoval, NextRemovals, NextUpdates
<1>2. CASE UpdatesApart /\ OneRowInitially
  <2>1. Init => UpdatesInv
    BY <1>2, InitUpdates
  <2>2. /\ IInv /\ IInv' /\ RemovalsInv /\ [Next]_vars => RemovalsInv'
        /\ IInv /\ IInv' /\ RemovalsInv /\ UpdatesInv /\ [Next]_vars => UpdatesInv'
    BY <1>1, <1>2
  <2>3. QED
    BY <2>1, <2>2, SpecIInv, InitRemovals, PTL DEF Spec
<1>3. QED
  BY <1>2

\* When DyndnsMgr::update has executed an update and onInterest answers it, the
\* set holds what Updated makes of its records at the time the update came: in
\* order, none lost, none added, whatever other servers and tools write.
THEOREM UpdatesAreExecuted ==
  UpdatesApart /\ OneRowInitially /\ Spec => []AcknowledgedUpdate
<1>1. UpdatesInv => AcknowledgedUpdate
  BY DEF UpdatesInv, UpdateInv, AcknowledgedUpdate
<1>2. QED
  BY <1>1, SpecUpdates, PTL

-----------------------------------------------------------------------------
(***************************************************************************)
(* Servers alone on their file implement RecordStore: the statements of an   *)
(* update that others see are the steps of the abstract store.               *)
(***************************************************************************)
DbNow == [key \in RRSetKey |-> RecordsOf(key)]

Replaces(z) == pc[z] = "insertRR" /\ request[z].action = "REPLACE-ALL"

ReplacingNow ==
  {<<request[z].key, request[z].data>> :
     z \in {z \in Server : pc[z] = "insertRR" /\ request[z].action = "REPLACE-ALL"}}

\* The steps of the store as the servers show it.
LEMMA StoreSteps ==
  ASSUME NEW key \in RRSetKey, NEW r \in Request
  PROVE  /\ \A action \in {"ADD", "REMOVE"} :
              /\ DbNow' = [DbNow EXCEPT ![key] = Updated(@, action, r.data)]
              /\ ReplacingNow' = ReplacingNow
              => Store!StoreNext
         /\ /\ DbNow' = [DbNow EXCEPT ![key] = << >>]
            /\ ReplacingNow' = ReplacingNow \cup {<<key, r.data>>}
            => Store!StoreNext
         /\ /\ <<key, r.data>> \in ReplacingNow
            /\ DbNow[key] = << >>
            /\ DbNow' = [DbNow EXCEPT ![key] = <<r.data>>]
            /\ ReplacingNow' = ReplacingNow \ {<<key, r.data>>}
            => Store!StoreNext
         /\ /\ <<key, r.data>> \in ReplacingNow
            /\ DbNow' = DbNow
            /\ ReplacingNow' = ReplacingNow \ {<<key, r.data>>}
            => Store!StoreNext
<1>1. \A rs, action, data : Store!Updated(rs, action, data) = Updated(rs, action, data)
  BY DEF Store!Updated, Updated, Store!Without, Without
<1>2. \A rs : Updated(rs, "REPLACE-ALL", r.data) = <<r.data>>
  BY DEF Updated
<1> DEFINE data == r.data
<1>3. data \in {q.data : q \in Request}
               \cup UNION {{d.certData} \cup Range(d.nsDatas) : d \in Delegation}
  OBVIOUS
<1>4. \/ \E action \in {"ADD", "REMOVE"} : Store!AddOrRemove(key, action, data)
      \/ Store!BeginReplace(key, data)
      \/ Store!EndReplace(key, data)
      \/ Store!AbandonReplace(key, data)
      => Store!StoreNext
  BY <1>3 DEF Store!StoreNext
<1>5. \A action \in {"ADD", "REMOVE"} :
        /\ DbNow' = [DbNow EXCEPT ![key] = Updated(@, action, data)]
        /\ ReplacingNow' = ReplacingNow
        => Store!AddOrRemove(key, action, data)
  BY <1>1 DEF Store!AddOrRemove, DbNow, ReplacingNow, Replaces
<1>6. /\ DbNow' = [DbNow EXCEPT ![key] = << >>]
      /\ ReplacingNow' = ReplacingNow \cup {<<key, data>>}
      => Store!BeginReplace(key, data)
  BY DEF Store!BeginReplace, DbNow, ReplacingNow, Replaces
<1>7. /\ <<key, data>> \in ReplacingNow
      /\ DbNow[key] = << >>
      /\ DbNow' = [DbNow EXCEPT ![key] = <<data>>]
      /\ ReplacingNow' = ReplacingNow \ {<<key, data>>}
      => Store!EndReplace(key, data)
  BY <1>1, <1>2 DEF Store!EndReplace, DbNow, ReplacingNow, Replaces
<1>8. /\ <<key, data>> \in ReplacingNow
      /\ DbNow' = DbNow
      /\ ReplacingNow' = ReplacingNow \ {<<key, data>>}
      => Store!AbandonReplace(key, data)
  BY DEF Store!AbandonReplace, DbNow, ReplacingNow, Replaces
<1>9. QED
  BY <1>4, <1>5, <1>6, <1>7, <1>8

\* How a step of the server of y changes what is being replaced.
LEMMA ReplacingSteps ==
  ASSUME ServersInv, ServersInv', NEW y \in Server,
         \A z \in Server \ {y} : pc'[z] = pc[z] /\ request'[z] = request[z]
  PROVE  LET pair == <<request[y].key, request[y].data>> IN
         /\ ~Replaces(y) /\ ~Replaces(y)' => ReplacingNow' = ReplacingNow
         /\ Replaces(y) /\ ~Replaces(y)' =>
              pair \in ReplacingNow /\ ReplacingNow' = ReplacingNow \ {pair}
         /\ ~Replaces(y) /\ Replaces(y)' /\ request'[y] = request[y] =>
              ReplacingNow' = ReplacingNow \cup {pair}
<1> DEFINE Pair(z) == <<request[z].key, request[z].data>>
<1>1. \A z \in Server \ {y} : (Replaces(z)' <=> Replaces(z)) /\ Pair(z)' = Pair(z)
  BY DEF Replaces
<1>2. \A z \in Server \ {y} : Pair(z) # Pair(y)
  BY DEF ServersInv, ServerInv
<1>3. /\ ReplacingNow = {Pair(z) : z \in {z \in Server : Replaces(z)}}
      /\ ReplacingNow' = {Pair(z)' : z \in {z \in Server : Replaces(z)'}}
  BY DEF ReplacingNow, Replaces
<1>4. request'[y] = request[y] => Pair(y)' = Pair(y)
  OBVIOUS
<1> HIDE DEF Pair
<1>5. ~Replaces(y) /\ ~Replaces(y)' => ReplacingNow' = ReplacingNow
  BY <1>1, <1>3
<1>6. Replaces(y) /\ ~Replaces(y)' =>
        Pair(y) \in ReplacingNow /\ ReplacingNow' = ReplacingNow \ {Pair(y)}
  BY <1>1, <1>2, <1>3
<1>7. ~Replaces(y) /\ Replaces(y)' /\ request'[y] = request[y] =>
        ReplacingNow' = ReplacingNow \cup {Pair(y)}
  BY <1>1, <1>3, <1>4
<1>8. QED
  BY <1>5, <1>6, <1>7 DEF Pair

\* How it changes what the store holds.
LEMMA RecordsOfOne ==
  ASSUME NEW key, NEW records, Findable(key) = {records}
  PROVE  RecordsOf(key) = records
BY DEF RecordsOf

LEMMA DbStays ==
  ASSUME \A key \in RRSetKey : Findable(key)' = Findable(key)
  PROVE  DbNow' = DbNow
<1>1. \A key \in RRSetKey : RecordsOf(key)' = RecordsOf(key)
  BY DEF RecordsOf
<1>2. QED
  BY <1>1 DEF DbNow

LEMMA DbChanges ==
  ASSUME IInv, IInv', RemovalsInv, NEW y \in Server, ServerStep(y),
         NEW records, Findable(request[y].key)' = {records}, request' = request
  PROVE  DbNow' = [DbNow EXCEPT ![request[y].key] = records]
<1>1. PICK k \in RRSetKey : k = request[y].key
  BY DEF IInv, ServersInv, UpdateRequest
<1>2. ASSUME NEW key \in RRSetKey, key # k
      PROVE  RecordsOf(key)' = RecordsOf(key)
  <2>1. Findable(key)' = Findable(key)
    BY <1>1, <1>2, ServerKeepsOthers DEF IInv, RemovalsInv
  <2>2. QED
    BY <2>1 DEF RecordsOf
<1>3. RecordsOf(k)' = records
  <2>1. Findable(k)' = {records}
    BY <1>1 DEF Findable, SelectRRSet
  <2>2. QED
    BY <2>1 DEF RecordsOf
<1>4. DbNow' = [key \in RRSetKey |-> RecordsOf(key)']
  BY DEF DbNow
<1>5. QED
  BY <1>1, <1>2, <1>3, <1>4 DEF DbNow

LEMMA StatementImplements ==
  ASSUME IInv, IInv', RemovalsInv, UpdatesInv, UpdatesInv', NEW y \in Server, ServerStep(y)
  PROVE  Store!StoreNext \/ UNCHANGED <<DbNow, ReplacingNow>>
<1> DEFINE action == request[y].action
<1>1. PICK key \in RRSetKey : key = request[y].key
  BY DEF IInv, ServersInv, UpdateRequest
<1>2. PICK data : data = request[y].data
  OBVIOUS
<1>3. request[y] \in Request /\ request' = request
  BY DEF IInv, ServerStep, LookupRRSet, LookupRR, InsertMissingRRSet, InsertNewRR, RemoveRR,
     RemoveRelatedRRs
<1>4. \A z \in Server \ {y} : pc'[z] = pc[z] /\ request'[z] = request[z]
  BY OneServerMoves DEF IInv
<1>5. /\ ~Replaces(y) /\ ~Replaces(y)' => ReplacingNow' = ReplacingNow
      /\ Replaces(y) /\ ~Replaces(y)' =>
           <<key, data>> \in ReplacingNow /\ ReplacingNow' = ReplacingNow \ {<<key, data>>}
      /\ ~Replaces(y) /\ Replaces(y)' => ReplacingNow' = ReplacingNow \cup {<<key, data>>}
  BY <1>1, <1>2, <1>3, <1>4, ReplacingSteps DEF IInv
<1>6. \A records : Findable(request[y].key)' = {records} =>
        DbNow' = [DbNow EXCEPT ![key] = records]
  BY <1>1, <1>3, DbChanges
<1>7. \A records : Findable(key) = {records} => DbNow[key] = records
  BY RecordsOfOne DEF DbNow
<1>8. UpdateInv(y) /\ UpdateInv(y)'
  BY DEF UpdatesInv
<1>9. pc[y] \in Located => \E records : Findable(key) = {records}
  BY <1>1, FoundOfServer DEF UpdatesInv
<1>10. \A a \in {"ADD", "REMOVE"} :
         /\ DbNow' = [DbNow EXCEPT ![key] = Updated(@, a, data)]
         /\ ReplacingNow' = ReplacingNow
         => Store!StoreNext
  BY <1>2, <1>3, StoreSteps
<1>11. /\ DbNow' = [DbNow EXCEPT ![key] = << >>]
       /\ ReplacingNow' = ReplacingNow \cup {<<key, data>>}
       => Store!StoreNext
  BY <1>2, <1>3, StoreSteps
<1>12. /\ <<key, data>> \in ReplacingNow
       /\ DbNow[key] = << >>
       /\ DbNow' = [DbNow EXCEPT ![key] = <<data>>]
       /\ ReplacingNow' = ReplacingNow \ {<<key, data>>}
       => Store!StoreNext
  BY <1>2, <1>3, StoreSteps
<1>13. DbNow[key] = RecordsOf(key) /\ DbNow = [k \in RRSetKey |-> RecordsOf(k)]
  BY DEF DbNow
<1>14. CASE LookupRRSet(y) \/ LookupRR(y)
  <2>1. rrsets' = rrsets /\ rrs' = rrs
    BY <1>14 DEF LookupRRSet, LookupRR
  <2>2. DbNow' = DbNow
    BY <2>1, DbStays DEF Findable, LastId, SelectRRSet, Records
  <2>3. ~Replaces(y) /\ ~Replaces(y)'
    <3>1. pc[y] # "insertRR"
      BY <1>14 DEF LookupRRSet, LookupRR
    <3>2. /\ action \in UpdateAction /\ rrsetId[y] \in Nat /\ rrId[y] \in Nat
          /\ \A id \in LastId(SelectRR(rrsetIdOfRR[y], request[y].data)) : id \in Nat
      BY LastIdOf DEF IInv, ServersInv, UpdateRequest, SelectRR, SoundTables, IsRRTable, RRRow
    <3>3. \A set, rr \in Nat : action = "REPLACE-ALL" => Branch(action, set, rr) # "insertRR"
      BY <3>2, BranchLeads
    <3>4. \/ pc'[y] = "lookupRR"
          \/ \E set, rr \in Nat : pc'[y] = Branch(action, set, rr)
      BY <1>14, <3>2 DEF LookupRRSet, LookupRR, GoTo, IInv
    <3>5. QED
      BY <1>3, <3>1, <3>3, <3>4 DEF Replaces
  <2>4. QED
    BY <1>5, <2>2, <2>3
<1>15. CASE InsertMissingRRSet(y)
  <2>1. /\ pc[y] = "insertRRSet" /\ pc'[y] = "insertRR"
        /\ SelectRRSet(key) = {} /\ action \in {"ADD", "REPLACE-ALL"}
    BY <1>1, <1>8, <1>15 DEF InsertMissingRRSet, GoTo, IInv, UpdateInv
  <2>2. DbNow[key] = << >>
    BY <1>7, <2>1, FindableOfNoSet DEF IInv
  <2>3. DbNow' = [DbNow EXCEPT ![key] = << >>]
    BY <1>6, <1>15, NewSetIsEmpty
  <2>4. DbNow' = DbNow
    BY <1>13, <2>2, <2>3
  <2>5. CASE action = "REPLACE-ALL"
    <3>1. ~Replaces(y) /\ Replaces(y)'
      BY <1>3, <2>1, <2>5 DEF Replaces
    <3>2. QED
      BY <1>5, <1>11, <2>3, <3>1
  <2>6. CASE action = "ADD"
    <3>1. ~Replaces(y) /\ ~Replaces(y)'
      BY <1>3, <2>1, <2>6 DEF Replaces
    <3>2. QED
      BY <1>5, <2>4, <3>1
  <2>7. QED
    BY <2>1, <2>5, <2>6
<1>16. CASE InsertNewRR(y)
  <2>1. pc[y] = "insertRR" /\ pc'[y] = "answer" /\ before' = before
    BY <1>16 DEF InsertNewRR, GoTo, IInv, ServerStep
  <2>2. Findable(request[y].key)' = {Updated(b, action, data) : b \in before[y]}
    BY <1>2, <1>3, <1>8, <2>1 DEF UpdateInv
  <2>3. CASE action = "ADD" /\ before[y] = Findable(key)
    <3>1. PICK records : Findable(key) = {records} /\ DbNow[key] = records
      BY <1>7, <1>9, <2>1 DEF Located
    <3>2. Findable(request[y].key)' = {Updated(records, "ADD", data)}
      BY <2>2, <2>3, <3>1
    <3>3. ~Replaces(y) /\ ~Replaces(y)'
      BY <1>3, <2>3 DEF Replaces
    <3>4. QED
      BY <1>5, <1>6, <1>10, <3>1, <3>2, <3>3
  <2>4. CASE action = "REPLACE-ALL" /\ RowsOf(rrsetIdOfRR[y]) = {} /\ \E b \in before[y] : before[y] = {b}
    <3>1. DbNow[key] = << >>
      BY <1>1, <1>7, <2>1, <2>4, FoundOfServer, InOrderOfNone DEF UpdatesInv, Located
    <3>2. \A b : Updated(b, "REPLACE-ALL", data) = <<data>>
      BY DEF Updated
    <3>3. Findable(request[y].key)' = {<<data>>}
      BY <2>2, <2>4, <3>2
    <3>4. Replaces(y) /\ ~Replaces(y)'
      BY <2>1, <2>4 DEF Replaces
    <3>5. QED
      BY <1>5, <1>6, <1>12, <3>1, <3>3, <3>4
  <2>5. QED
    BY <1>1, <1>8, <2>1, <2>3, <2>4 DEF UpdateInv
<1>17. CASE RemoveRR(y)
  <2>1. pc[y] = "removeRR" /\ pc'[y] = "answer" /\ before' = before /\ action = "REMOVE"
    BY <1>17 DEF RemoveRR, GoTo, IInv, ServerStep, RemovalsInv, RemovalInv
  <2>2. PICK records : before[y] = {records} /\ DbNow[key] = records
    BY <1>1, <1>7, <1>8, <1>9, <2>1 DEF UpdateInv, Located
  <2>3. Findable(request[y].key)' = {Updated(records, "REMOVE", data)}
    BY <1>2, <1>3, <1>8, <2>1, <2>2 DEF UpdateInv
  <2>4. ~Replaces(y) /\ ~Replaces(y)'
    BY <2>1 DEF Replaces
  <2>5. QED
    BY <1>5, <1>6, <1>10, <2>2, <2>3, <2>4
<1>18. CASE RemoveRelatedRRs(y)
  <2>1. /\ pc[y] = "removeRelatedRRs" /\ pc'[y] = "insertRR"
        /\ rrs' = {r \in rrs : r.rrset # rrsetIdOfRR[y]}
        /\ rrsets' = rrsets /\ rrsetIdOfRR' = rrsetIdOfRR
    BY <1>18 DEF RemoveRelatedRRs, DeleteRRsOf, GoTo, IInv, ServersInv, ServerInv, Located
  <2>2. RowsOf(rrsetIdOfRR[y])' = {}
    BY <2>1 DEF RowsOf
  <2>3. Findable(request[y].key)' = {<< >>}
    BY <1>3, <2>1, <2>2, FoundAfterwards, InOrderOfNone DEF UpdatesInv, Located
  <2>4. ~Replaces(y) /\ Replaces(y)'
    BY <1>3, <1>8, <2>1 DEF Replaces, UpdateInv
  <2>5. QED
    BY <1>5, <1>6, <1>11, <2>3, <2>4
<1>19. QED
  BY <1>14, <1>15, <1>16, <1>17, <1>18 DEF ServerStep

LEMMA OtherStepImplements ==
  ASSUME IInv, IInv', NEW y \in Server,
         \/ \E r \in Request : ReceiveUpdate(y, r)
         \/ AnswerUpdate(y) \/ StatementFails(y) \/ Crash(y) \/ Restart(y)
  PROVE  Store!StoreNext \/ UNCHANGED <<DbNow, ReplacingNow>>
<1>1. rrsets' = rrsets /\ rrs' = rrs /\ pc'[y] \in {"lookupRRSet", "idle", "down"}
  BY OtherStepKeepsTables DEF IInv
<1>2. DbNow' = DbNow
  BY <1>1, DbStays DEF Findable, LastId, SelectRRSet, Records
<1>3. ~Replaces(y)'
  BY <1>1 DEF Replaces
<1>4. \A z \in Server \ {y} : pc'[z] = pc[z] /\ request'[z] = request[z]
  BY OneServerMoves DEF IInv
<1>5. request[y] \in Request /\ request[y].key \in RRSetKey
  BY DEF IInv, ServersInv, UpdateRequest
<1>6. QED
  BY <1>2, <1>3, <1>4, <1>5, ReplacingSteps, StoreSteps DEF IInv

\* With no tool on the file, clients of the servers cannot tell them from the
\* abstract store: every statement of every server is one of its steps or none.
THEOREM ServersImplementStore ==
  Delegation = {} /\ OneRowInitially /\ Spec => StoreRefinement
<1> DEFINE Inv == IInv /\ RemovalsInv /\ UpdatesInv
<1>1. Delegation = {} => UpdatesApart
  BY DEF UpdatesApart
<1>2. Inv /\ Init => Store!StoreInit
  <2> SUFFICES ASSUME Inv, Init PROVE Store!StoreInit
    OBVIOUS
  <2>1. \A key \in RRSetKey : \E id : Records(id) \in Findable(key)
    BY DEF Findable, LastId
  <2>2. \A id : Records(id) \in Seq(Name)
    BY RowsOfSet, InOrderOfRows DEF IInv
  <2>3. \A key \in RRSetKey : Findable(key) \subseteq Seq(Name) /\ Findable(key) # {}
    BY <2>1, <2>2 DEF Findable
  <2>4. DbNow \in Database
    BY <2>3 DEF DbNow, RecordsOf, Database
  <2>5. ReplacingNow = {}
    BY DEF Init, ServerInit, Replaces, ReplacingNow
  <2>6. QED
    BY <2>4, <2>5 DEF Store!StoreInit, Store!Database, Store!Name, Database, Name, DbNow,
      ReplacingNow
<1>3. Delegation = {} /\ Inv /\ Inv' /\ [Next]_vars =>
        [Store!StoreNext]_<<DbNow, ReplacingNow>>
  <2> SUFFICES ASSUME Delegation = {}, Inv, Inv', [Next]_vars
               PROVE  [Store!StoreNext]_<<DbNow, ReplacingNow>>
    OBVIOUS
  <2>1. CASE Next
    BY <2>1, StatementImplements, OtherStepImplements DEF Next
  <2>2. CASE UNCHANGED vars
    <3>1. DbNow' = DbNow
      BY <2>2, DbStays DEF vars, Findable, LastId, SelectRRSet, Records
    <3>2. ReplacingNow' = ReplacingNow
      BY <2>2 DEF vars, serverVars, ReplacingNow, Replaces
    <3>3. QED
      BY <3>1, <3>2
  <2>3. QED
    BY <2>1, <2>2
<1>4. CASE Delegation = {}
  <2>1. Inv /\ Inv' /\ [Next]_vars => [Store!StoreNext]_<<DbNow, ReplacingNow>>
    BY <1>3, <1>4
  <2>2. UpdatesApart
    BY <1>1, <1>4
  <2> HIDE DEF Inv
  <2>3. OneRowInitially /\ Spec => []Inv
    BY <2>2, SpecUpdates DEF Inv
  <2>4. OneRowInitially /\ Spec => Store!StoreInit /\ [][Store!StoreNext]_<<DbNow, ReplacingNow>>
    BY <1>2, <2>1, <2>3, PTL DEF Spec
  <2>5. QED
    BY <2>4, PTL DEF StoreRefinement, Store!StoreSpec, DbNow, ReplacingNow
<1>5. QED
  BY <1>4

-----------------------------------------------------------------------------
(***************************************************************************)
(* The certificate of a sub-zone, for runs of zone-delegate that are not     *)
(* given the same name servers for one sub-zone under two certificates, and *)
(* clients that leave certificates alone.                                   *)
(***************************************************************************)
DelegationsApart ==
  /\ \A r \in Request, d \in Delegation : r.key # d.cert
  /\ \A d, e \in Delegation : d.sub # e.cert
  /\ \A d, e \in Delegation :
       d.sub = e.sub /\ Range(d.nsDatas) \cap Range(e.nsDatas) # {} =>
         d.cert = e.cert /\ d.certData = e.certData

DelegatedInitially ==
  \A t \in InitialTables, d \in Delegation : \A data \in Range(d.nsDatas) :
    (\E s \in t.rrsets, r \in t.rrs : s.key = d.sub /\ r.rrset = s.id /\ r.data = data) =>
      \E s \in t.rrsets, r \in t.rrs : s.key = d.cert /\ r.rrset = s.id /\ r.data = d.certData

\* Once the tool has got to the name servers the certificate is there.
CertificatesInv ==
  /\ DelegatedWithCertificate
  /\ \A d \in Delegation : at[d] > 3 => HoldsIn(d.cert, d.certData)

LEMMA InitCertificates == DelegatedInitially /\ Init => CertificatesInv
BY DEF DelegatedInitially, Init, ToolInit, CertificatesInv, DelegatedWithCertificate, HoldsIn

\* A record that is there stays unless its own row is deleted.
LEMMA InsertKeepsRecords ==
  ASSUME SoundTables, NEW set \in Nat, NEW data \in Name, InsertRR(set, data),
         NEW key, NEW other, HoldsIn(key, other)
  PROVE  HoldsIn(key, other)'
<1> DEFINE others == rrs \ SelectRR(set, data)
<1>1. PICK row : row.rrset = set /\ row.data = data /\ rrs' = others \cup {row}
  <2> DEFINE new == [id |-> NewId(others), rrset |-> set, data |-> data]
  <2>1. rrs' = others \cup {new}
    BY DEF InsertRR
  <2>2. new.rrset = set /\ new.data = data
    OBVIOUS
  <2> HIDE DEF new
  <2>3. QED
    BY <2>1, <2>2
<1>2. rrsets' = rrsets
  BY DEF InsertRR
<1>3. PICK s \in rrsets, r \in rrs : s.key = key /\ r.rrset = s.id /\ r.data = other
  BY DEF HoldsIn
<1>4. \E q \in rrs' : q.rrset = s.id /\ q.data = other
  <2>1. CASE r \in others
    BY <1>1, <1>3, <2>1
  <2>2. CASE r \notin others
    BY <1>1, <1>3, <2>2 DEF SelectRR
  <2>3. QED
    BY <2>1, <2>2
<1>5. QED
  BY <1>2, <1>3, <1>4 DEF HoldsIn

\* Only the record that is inserted is new.
LEMMA InsertAddsRecord ==
  ASSUME SoundTables, NEW set \in Nat, NEW data \in Name, InsertRR(set, data),
         NEW set_key, IsIdOf(set, set_key),
         NEW key, NEW other, HoldsIn(key, other)'
  PROVE  HoldsIn(key, other) \/ (key = set_key /\ other = data)
<1> DEFINE others == rrs \ SelectRR(set, data)
           new == [id |-> NewId(others), rrset |-> set, data |-> data]
<1>1. rrsets' = rrsets /\ rrs' = others \cup {new} /\ new.rrset = set /\ new.data = data
  BY DEF InsertRR
<1> HIDE DEF new
<1>2. PICK s \in rrsets, r \in rrs' : s.key = key /\ r.rrset = s.id /\ r.data = other
  BY <1>1 DEF HoldsIn
<1>3. CASE r \in others
  BY <1>2, <1>3 DEF HoldsIn
<1>4. CASE r = new
  <2>1. IsIdOf(set, key) /\ other = data
    BY <1>1, <1>2, <1>4 DEF IsIdOf
  <2>2. QED
    BY <2>1, OnlyOneSetPerId
<1>5. QED
  BY <1>1, <1>2, <1>3, <1>4

\* A row that is inserted into rrs is there afterwards.
LEMMA InsertHolds ==
  ASSUME NEW set, NEW data, InsertRR(set, data), NEW key, IsIdOf(set, key)
  PROVE  HoldsIn(key, data)'
<1> DEFINE others == rrs \ SelectRR(set, data)
           new == [id |-> NewId(others), rrset |-> set, data |-> data]
<1>1. rrsets' = rrsets /\ new \in rrs' /\ new.rrset = set /\ new.data = data
  BY DEF InsertRR
<1> HIDE DEF new
<1>2. PICK s \in rrsets : s.id = set /\ s.key = key
  BY DEF IsIdOf
<1>3. QED
  BY <1>1, <1>2 DEF HoldsIn

\* A new set holds nothing: its id is in no row of rrs.
LEMMA NewSetHoldsNothing ==
  ASSUME SoundTables, NEW key, NEW class, InsertRRSet(key, class)
  PROVE  \A k, x : HoldsIn(k, x)' <=> HoldsIn(k, x)
<1>1. PICK id : id = NewId(rrsets)
  OBVIOUS
<1> DEFINE new == [id |-> NewId(rrsets), key |-> key, class |-> class]
<1>2. rrsets' = rrsets \cup {new} /\ new.id = id /\ rrs' = rrs
  BY <1>1 DEF InsertRRSet
<1>3. \A r \in rrs : r.rrset \in Nat /\ r.rrset < id
  BY <1>1, NewRRSetId DEF SoundTables, IsRRTable, RRRow
<1>4. \A r \in rrs : r.rrset # id
  BY <1>3
<1> HIDE DEF new
<1>5. QED
  BY <1>2, <1>4 DEF HoldsIn

\* A server's statement deletes no certificate and adds data of a client only.
LEMMA ServerKeepsCertificates ==
  ASSUME SoundTables, SoundTables', ServersInv, NEW y \in Server, RemovalInv(y), ServerStep(y),
         request[y] \in Request, NEW key, NEW data
  PROVE  /\ key # request[y].key /\ HoldsIn(key, data) => HoldsIn(key, data)'
         /\ HoldsIn(key, data)' => HoldsIn(key, data) \/ data \in {r.data : r \in Request}
<1>1. ASSUME key # request[y].key, HoldsIn(key, data)
      PROVE  HoldsIn(key, data)'
  <2>1. PICK s \in rrsets, r \in rrs : s.key = key /\ r.rrset = s.id /\ r.data = data
    BY <1>1 DEF HoldsIn
  <2>2. IsIdOf(s.id, key) /\ r \in RowsOf(s.id) /\ s \in SelectRRSet(key)
    BY <2>1 DEF IsIdOf, RowsOf, SelectRRSet
  <2>3. r \in RowsOf(s.id)' /\ s \in SelectRRSet(key)'
    BY <1>1, <2>2, ServerKeepsOthers
  <2>4. r \in rrs' /\ s \in rrsets'
    BY <2>3 DEF RowsOf, SelectRRSet
  <2>5. QED
    BY <2>1, <2>4 DEF HoldsIn
<1>2. ASSUME HoldsIn(key, data)'
      PROVE  HoldsIn(key, data) \/ data \in {r.data : r \in Request}
  <2>1. CASE InsertNewRR(y)
    <3>1. /\ InsertRR(rrsetIdOfRR[y], request[y].data)
          /\ rrsetIdOfRR[y] \in Nat /\ request[y].data \in Name
          /\ IsIdOf(rrsetIdOfRR[y], request[y].key)
      BY <2>1 DEF InsertNewRR, ServersInv, ServerInv, Located, UpdateRequest
    <3>2. HoldsIn(key, data) \/ data = request[y].data
      BY <1>2, <3>1, InsertAddsRecord
    <3>3. QED
      BY <3>2
  <2>2. CASE \/ LookupRRSet(y) \/ LookupRR(y)
             \/ RemoveRR(y) \/ RemoveRelatedRRs(y)
    <3>1. rrsets' = rrsets /\ rrs' \subseteq rrs
      BY <2>2 DEF LookupRRSet, LookupRR, RemoveRR, DeleteRR, RemoveRelatedRRs, DeleteRRsOf
    <3>2. QED
      BY <1>2, <3>1 DEF HoldsIn
  <2>3. CASE InsertMissingRRSet(y)
    <3> DEFINE new == [id |-> NewId(rrsets), key |-> request[y].key, class |-> ""]
    <3>1. PICK id : id = NewId(rrsets)
      OBVIOUS
    <3>2. rrsets' = rrsets \cup {new} /\ rrs' = rrs /\ new.id = id
      BY <2>3, <3>1 DEF InsertMissingRRSet, InsertRRSet
    <3>3. \A r \in rrs : r.rrset \in Nat /\ r.rrset < id
      BY <3>1, NewRRSetId DEF SoundTables, IsRRTable, RRRow
    <3>4. \A r \in rrs : r.rrset # id
      BY <3>3
    <3> HIDE DEF new
    <3>5. QED
      BY <1>2, <3>2, <3>4 DEF HoldsIn
  <2>4. QED
    BY <2>1, <2>2, <2>3 DEF ServerStep
<1>3. QED
  BY <1>1, <1>2

LEMMA ServerStepCertificates ==
  ASSUME DelegationsApart, SoundTables, SoundTables', ServersInv, CertificatesInv,
         NEW y \in Server, RemovalInv(y), ServerStep(y), request[y] \in Request
  PROVE  CertificatesInv'
<1>1. at' = at /\ \A d \in Delegation : d.cert # request[y].key
  BY DEF ServerStep, toolVars, DelegationsApart
<1>2. \A d \in Delegation : HoldsIn(d.cert, d.certData) => HoldsIn(d.cert, d.certData)'
  BY <1>1, ServerKeepsCertificates
<1>3. \A d \in Delegation : \A data \in Range(d.nsDatas) \ {r.data : r \in Request} :
        HoldsIn(d.sub, data)' => HoldsIn(d.sub, data)
  BY ServerKeepsCertificates
<1>4. QED
  BY <1>1, <1>2, <1>3 DEF CertificatesInv, DelegatedWithCertificate

LEMMA ToolStepCertificates ==
  ASSUME DelegationsApart, SoundTables, ToolsInv, CertificatesInv,
         NEW d \in Delegation, ToolStep(d)
  PROVE  CertificatesInv'
<1> DEFINE Clients == {r.data : r \in Request}
<1>1. CASE RegisterRR(d)
  <2>1. PICK i \in 1 .. 1 + Len(d.nsDatas), id \in Nat \ {0} :
          /\ at[d] = i + 2
          /\ IsIdOf(id, RRSetsOf(d)[RRsOf(d)[i].set])
          /\ InsertRR(id, RRsOf(d)[i].data)
          /\ at' = [at EXCEPT ![d] = IF @ = Statements(d) THEN 0 ELSE @ + 1]
    BY <1>1, NextRR
  <2>2. PICK data, key : data \in Name /\ data = RRsOf(d)[i].data /\ key = RRSetsOf(d)[RRsOf(d)[i].set]
    BY RRsOfIs
  <2>3. \/ i = 1 /\ key = d.cert /\ data = d.certData
        \/ at[d] > 3 /\ key = d.sub /\ data \in Range(d.nsDatas)
    <3>1. CASE i = 1
      <4>1. RRsOf(d)[1] = [set |-> 1, data |-> d.certData]
        BY RRsOfIs
      <4>2. QED
        BY <2>2, <3>1, <4>1, RRSetsOfIs
    <3>2. CASE i # 1
      <4>1. PICK j \in 1 .. Len(d.nsDatas) : i = j + 1
        <5>1. i - 1 \in 1 .. Len(d.nsDatas) /\ i = (i - 1) + 1
          BY <3>2, RRsOfIs
        <5>2. QED
          BY <5>1
      <4>2. RRsOf(d)[j + 1] = [set |-> 2, data |-> d.nsDatas[j]]
        BY RRsOfIs
      <4>3. key = d.sub /\ data = d.nsDatas[j]
        BY <2>2, <4>1, <4>2, RRSetsOfIs
      <4>4. d.nsDatas \in Seq(Name)
        BY ZoneRegisterAssumption
      <4>5. j \in DOMAIN d.nsDatas
        BY <4>4, LenProperties
      <4>6. at[d] > 3
        BY <2>1, <4>1
      <4>7. QED
        BY <4>3, <4>5, <4>6 DEF Range
    <3>3. QED
      BY <3>1, <3>2
  <2>4. \A k, x : HoldsIn(k, x) => HoldsIn(k, x)'
    BY <2>1, <2>2, InsertKeepsRecords
  <2>5. \A k, x : HoldsIn(k, x)' => HoldsIn(k, x) \/ (k = key /\ x = data)
    BY <2>1, <2>2, InsertAddsRecord
  <2>6. HoldsIn(key, data)'
    BY <2>1, <2>2, InsertHolds
  <2>7. HoldsIn(d.cert, d.certData)'
    BY <2>3, <2>4, <2>6 DEF CertificatesInv
  <2>8. ASSUME NEW e \in Delegation, at'[e] > 3
        PROVE  HoldsIn(e.cert, e.certData)'
    <3>1. e # d => at'[e] = at[e]
      BY <2>1 DEF ToolsInv
    <3>2. QED
      BY <2>4, <2>7, <2>8, <3>1 DEF CertificatesInv
  <2>9. ASSUME NEW e \in Delegation, NEW x \in Range(e.nsDatas) \ Clients, HoldsIn(e.sub, x)'
        PROVE  HoldsIn(e.cert, e.certData)'
    <3>1. CASE HoldsIn(e.sub, x)
      BY <2>4, <3>1 DEF CertificatesInv, DelegatedWithCertificate
    <3>2. CASE ~HoldsIn(e.sub, x)
      <4>1. key = e.sub /\ data = x
        BY <2>5, <2>9, <3>2
      <4>2. key = d.sub /\ data \in Range(d.nsDatas)
        BY <2>3, <4>1 DEF DelegationsApart
      <4>3. e.cert = d.cert /\ e.certData = d.certData
        BY <4>1, <4>2 DEF DelegationsApart
      <4>4. QED
        BY <2>7, <4>3
    <3>3. QED
      BY <3>1, <3>2
  <2>10. QED
    BY <2>8, <2>9 DEF CertificatesInv, DelegatedWithCertificate
<1>2. CASE StartTool(d) \/ RegisterRRSet(d) \/ RefusedRRSet(d)
  <2>1. \A k, x : HoldsIn(k, x)' <=> HoldsIn(k, x)
    <3>1. CASE RegisterRRSet(d)
      BY <3>1, NewSetHoldsNothing DEF RegisterRRSet
    <3>2. CASE StartTool(d) \/ RefusedRRSet(d)
      BY <3>2 DEF StartTool, RefusedRRSet, HoldsIn
    <3>3. QED
      BY <1>2, <3>1, <3>2
  <2>2. \A e \in Delegation : at'[e] > 3 => at[e] > 3
    <3>1. /\ at \in [Delegation -> Nat]
          /\ \/ at' = [at EXCEPT ![d] = 1]
             \/ at' = [at EXCEPT ![d] = 0]
             \/ at[d] \in 1 .. 2 /\ at' = [at EXCEPT ![d] = at[d] + 1]
      BY <1>2, RRSetsOfIs DEF StartTool, RegisterRRSet, RefusedRRSet, ToolsInv
    <3>2. QED
      BY <3>1
  <2>3. QED
    BY <2>1, <2>2 DEF CertificatesInv, DelegatedWithCertificate
<1>3. QED
  BY <1>1, <1>2 DEF ToolStep

LEMMA EndToolCertificates ==
  ASSUME ToolsInv, CertificatesInv, NEW d \in Delegation, ToolCrash(d)
  PROVE  CertificatesInv'
<1>1. \A e \in Delegation : at'[e] > 3 => at[e] > 3
  BY DEF ToolsInv, ToolCrash
<1>2. \A key, data : HoldsIn(key, data)' <=> HoldsIn(key, data)
  BY DEF HoldsIn, ToolCrash
<1>3. QED
  BY <1>1, <1>2 DEF CertificatesInv, DelegatedWithCertificate

LEMMA NextCertificates ==
  ASSUME DelegationsApart, IInv, IInv', RemovalsInv, CertificatesInv, [Next]_vars
  PROVE  CertificatesInv'
<1>1. ASSUME NEW y \in Server, ServerStep(y)
      PROVE  CertificatesInv'
  BY <1>1, ServerStepCertificates DEF IInv, RemovalsInv
<1>2. ASSUME UNCHANGED <<rrsets, rrs, at>>
      PROVE  CertificatesInv'
  BY <1>2 DEF CertificatesInv, DelegatedWithCertificate, HoldsIn
<1>3. ASSUME NEW y \in Server,
             \/ \E r \in Request : ReceiveUpdate(y, r)
             \/ AnswerUpdate(y) \/ StatementFails(y) \/ Crash(y) \/ Restart(y)
      PROVE  CertificatesInv'
  BY <1>2, <1>3, OtherStepKeepsTables DEF IInv, toolVars
<1>4. ASSUME NEW d \in Delegation, ToolStep(d) \/ ToolCrash(d)
      PROVE  CertificatesInv'
  BY <1>4, ToolStepCertificates, EndToolCertificates DEF IInv
<1>5. QED
  BY <1>1, <1>2, <1>3, <1>4 DEF Next, vars, toolVars

\* Wherever zone-delegate is cut off, and whatever the servers write next to it,
\* a sub-zone does not get a name server before its certificate.
THEOREM CertificateComesFirst ==
  NoRemovalOfDelegated /\ DelegationsApart /\ DelegatedInitially /\ Spec
    => []DelegatedWithCertificate
<1>1. ASSUME NoRemovalOfDelegated, DelegationsApart
      PROVE  /\ IInv /\ IInv' /\ RemovalsInv /\ [Next]_vars => RemovalsInv'
             /\ IInv /\ IInv' /\ RemovalsInv /\ CertificatesInv /\ [Next]_vars => CertificatesInv'
  BY <1>1, NextRemovals, NextCertificates
<1>2. CASE NoRemovalOfDelegated /\ DelegationsApart /\ DelegatedInitially
  <2>1. /\ IInv /\ IInv' /\ RemovalsInv /\ [Next]_vars => RemovalsInv'
        /\ IInv /\ IInv' /\ RemovalsInv /\ CertificatesInv /\ [Next]_vars => CertificatesInv'
    BY <1>1, <1>2
  <2>2. Init => CertificatesInv
    BY <1>2, InitCertificates
  <2>3. CertificatesInv => DelegatedWithCertificate
    BY DEF CertificatesInv
  <2>4. QED
    BY <2>1, <2>2, <2>3, SpecIInv, InitRemovals, PTL DEF Spec
<1>3. QED
  BY <1>2

=============================================================================
