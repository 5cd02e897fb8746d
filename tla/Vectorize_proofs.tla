-------------------------- MODULE Vectorize_proofs --------------------------
EXTENDS Vectorize, SequenceTheorems, FiniteSetTheorems, WellFoundedInduction, TLAPS

\* The switch of the serving path repeats the table.
LEMMA OneTableOfRisks ==
  ASSUME NEW mcc
  PROVE  mccRiskFast(mcc) = mccRisk(mcc)
<1> DEFINE entry == {e \in mcc_risk : e[1] = mcc}
<1>1. CASE \E e \in mcc_risk : e[1] = mcc
  <2>1. PICK e \in mcc_risk : e[1] = mcc
    BY <1>1
  <2>2. entry = {e}
    BY <2>1 DEF mcc_risk
  <2>3. mccRisk(mcc) = <<e[2], 100>>
    BY <2>2 DEF mccRisk
  <2>4. mccRiskFast(mcc) = <<e[2], 100>>
    BY <2>1 DEF mcc_risk, mccRiskFast, defaultMCCRisk
  <2> QED
    BY <2>3, <2>4
<1>2. CASE ~\E e \in mcc_risk : e[1] = mcc
  <2>1. entry = {}
    BY <1>2
  <2>2. mccRisk(mcc) = <<defaultMCCRisk, 100>>
    BY <2>1 DEF mccRisk
  <2>3. mccRiskFast(mcc) = <<defaultMCCRisk, 100>>
    BY <1>2 DEF mccRiskFast, mcc_risk
  <2> QED
    BY <2>2, <2>3
<1> QED
  BY <1>1, <1>2

\* A nonempty set of numbers has a first one.
LEMMA FirstIs ==
  ASSUME NEW S \in SUBSET Nat, S # {}
  PROVE  First(S) \in S /\ \A i \in S : First(S) <= i
<1>1. \E m \in S : \A k \in S : ~(<<k, m>> \in OpToRel(<, Nat))
  BY NatLessThanWellFounded, WFMin, Zenon
<1>2. \E m \in S : \A k \in S : m <= k
  <2>1. PICK m \in S : \A k \in S : ~(<<k, m>> \in OpToRel(<, Nat))
    BY <1>1
  <2>2. \A k \in S : ~(k < m)
    BY <2>1 DEF OpToRel
  <2>3. \A k \in S : m <= k
    BY <2>2
  <2> QED
    BY <2>3
<1> QED
  BY <1>2 DEF First

LEMMA FirstIsThe ==
  ASSUME NEW S \in SUBSET Nat, NEW m \in S, \A i \in S : m <= i
  PROVE  First(S) = m
<1>1. First(S) \in S /\ First(S) <= m
  BY FirstIs
<1>2. First(S) \in Nat /\ m \in Nat /\ m <= First(S)
  BY <1>1
<1> QED
  BY <1>1, <1>2

\* The brackets are six different tokens, and no string is one of them.
LEMMA Brackets ==
  /\ OpenBrace # CloseBrace /\ OpenBracket # CloseBracket /\ OpenBrace # OpenBracket
  /\ Comma \notin {OpenBrace, CloseBrace, OpenBracket, CloseBracket, Colon}
  /\ Colon \notin {OpenBrace, CloseBrace, OpenBracket, CloseBracket}
  /\ CloseBrace # OpenBracket
  BY DEF OpenBrace, CloseBrace, OpenBracket, CloseBracket, Comma, Colon, Punct

LEMMA Kinds ==
  /\ \A t \in {OpenBrace, CloseBrace, OpenBracket, CloseBracket, Comma, Colon} : t.kind = "punct"
  /\ \A s : Str(s).kind = "string" /\ Lit(s).kind = "literal" /\ Str(s).s = s /\ Lit(s).s = s
  /\ \A n : Num(n).kind = "number" /\ Time(n).kind = "string" /\ Num(n).n = n /\ Time(n).n = n
            /\ Time(n).s = "RFC3339"
  /\ \A v \in BOOLEAN : /\ Bool(v).kind = "literal" /\ Bool(v).s \in {"true", "false"}
                        /\ Bool(v).s = "true" <=> v
<1>1. \A t \in {OpenBrace, CloseBrace, OpenBracket, CloseBracket, Comma, Colon} : t.kind = "punct"
  <2>1. \A s : Punct(s).kind = "punct"
    BY DEF Punct
  <2> QED
    BY <2>1 DEF OpenBrace, CloseBrace, OpenBracket, CloseBracket, Comma, Colon
<1>2. \A s : Str(s).kind = "string" /\ Lit(s).kind = "literal" /\ Str(s).s = s /\ Lit(s).s = s
  BY DEF Str, Lit
<1>3. \A n : Num(n).kind = "number" /\ Time(n).kind = "string" /\ Num(n).n = n /\ Time(n).n = n
             /\ Time(n).s = "RFC3339"
  BY DEF Num, Time
<1>4. \A v \in BOOLEAN : /\ Bool(v).kind = "literal" /\ Bool(v).s \in {"true", "false"}
                         /\ Bool(v).s = "true" <=> v
  BY DEF Bool, Lit
<1> QED
  BY <1>1, <1>2, <1>3, <1>4

\* A value that opens with a bracket and has no other one of its kind before
\* the first that closes ends there.
LEMMA BalancedIs ==
  ASSUME NEW T, NEW v \in Seq(T), NEW open, NEW close, open # close,
         NEW j \in 1..Len(v), v[1] = open, v[j] = close,
         \A k \in 2..(j - 1) : v[k] # open /\ v[k] # close
  PROVE  Balanced(v, open, close) = Found(SubSeq(v, 1, j))
<1> DEFINE ends == {k \in 1..Len(v) : v[k] = close /\ Depth(v, open, close, k) = 0}
<1>1. {i \in 1..j : v[i] = open} = {1}
  OBVIOUS
<1>2. {i \in 1..j : v[i] = close} = {j}
  OBVIOUS
<1>3. Cardinality({1}) = 1 /\ Cardinality({j}) = 1
  BY FS_Singleton
<1>4. Depth(v, open, close, j) = 0
  <2>1. Depth(v, open, close, j) = Cardinality({1}) - Cardinality({j})
    BY <1>1, <1>2, Zenon DEF Depth
  <2> QED
    BY <1>3, <2>1
<1>5. j \in ends
  BY <1>4
<1>6. \A k \in ends : j <= k
  OBVIOUS
<1>7. ends \in SUBSET Nat
  OBVIOUS
<1>8. First(ends) = j
  <2> HIDE DEF ends
  <2> QED
    BY <1>5, <1>6, <1>7, FirstIsThe
<1> QED
  BY <1>5, <1>8 DEF Balanced

LEMMA BalancedIsNot ==
  ASSUME NEW T, NEW v \in Seq(T), NEW open, NEW close, \A k \in 1..Len(v) : v[k] # close
  PROVE  Balanced(v, open, close) = NotFound
  BY DEF Balanced

\* Where the key is followed by its colon, the scanner looks at what comes next.
LEMMA FieldAt ==
  ASSUME NEW T, NEW b \in Seq(T), NEW key, Names(b, key) # {},
         \A i \in Names(b, key) : i + 1 <= Len(b) => b[i + 1] = Colon
  PROVE  \E i \in Names(b, key) :
           /\ i + 2 > Len(b) => rawField(b, key) = NotFound
           /\ i + 2 <= Len(b) => rawField(b, key) = valueFrom(SubSeq(b, i + 2, Len(b)))
<1> DEFINE keys == {i \in 1..Len(b) : b[i] = Str(key)}
           i0 == First(keys)
           colons == {i \in 1..Len(b) : b[i] = Colon /\ i > i0}
           value == SubSeq(b, First(colons) + 1, Len(b))
<1>1. keys = Names(b, key)
  BY DEF Names
<1>2. keys \in SUBSET Nat /\ keys # {} /\ colons \in SUBSET Nat /\ Len(b) \in Nat
  <2>1. \A S : {i \in 1..Len(b) : i \in S} \in SUBSET Nat
    OBVIOUS
  <2> QED
    BY <1>1
<1>3. i0 \in Names(b, key) /\ i0 \in 1..Len(b)
  <2>1. First(keys) \in keys
    <3> HIDE DEF keys
    <3> QED
      BY <1>2, FirstIs
  <2> QED
    BY <1>1, <2>1
<1>4. rawField(b, key) = IF keys = {} \/ colons = {} \/ value = <<>> THEN NotFound
                         ELSE valueFrom(value)
  BY Zenon DEF rawField
<1>5. CASE i0 + 1 > Len(b)
  <2>1. colons = {}
    <3> HIDE DEF i0
    <3> QED
      BY <1>2, <1>3, <1>5
  <2> HIDE DEF i0, colons, keys, value
  <2>2. rawField(b, key) = NotFound /\ i0 + 2 > Len(b)
    BY <1>2, <1>3, <1>4, <1>5, <2>1
  <2> QED
    BY <1>2, <1>3, <2>2
<1>6. CASE i0 + 1 <= Len(b)
  <2>1. b[i0 + 1] = Colon
    BY <1>3, <1>6
  <2>2. i0 + 1 \in colons /\ \A i \in colons : i0 + 1 <= i
    <3> HIDE DEF keys
    <3> QED
      BY <1>2, <1>3, <1>6, <2>1
  <2>3. First(colons) = i0 + 1
    <3> HIDE DEF colons, i0
    <3> QED
      BY <1>2, <2>2, FirstIsThe
  <2>4. value = SubSeq(b, i0 + 2, Len(b))
    <3>1. i0 + 1 + 1 = i0 + 2
      BY <1>3
    <3> QED
      BY <2>3, <3>1
  <2>5. CASE i0 + 2 > Len(b)
    <3>1. value = <<>>
      <4> HIDE DEF i0, colons, value
      <4>1. i0 + 2 \in Int /\ Len(b) \in Int /\ Len(b) < i0 + 2
        BY <1>2, <1>3, <2>5
      <4>2. SubSeq(b, i0 + 2, Len(b)) = <<>>
        BY <4>1, SubSeqEmpty
      <4> QED
        BY <2>4, <4>2
    <3> HIDE DEF i0, colons, keys, value
    <3>2. rawField(b, key) = NotFound
      BY <1>4, <3>1
    <3> QED
      BY <1>2, <1>3, <2>5, <3>2
  <2>6. CASE i0 + 2 <= Len(b)
    <3>1. \A i \in (i0 + 2)..Len(b) : b[i] \in T
      <4> HIDE DEF i0
      <4> QED
        BY <1>3
    <3>2. Len(value) = Len(b) - (i0 + 2) + 1
      <4> HIDE DEF i0, value
      <4> QED
        BY <1>2, <1>3, <2>4, <2>6, <3>1, SubSeqProperties
    <3>3. value # <<>>
      <4>1. Len(<<>>) = 0
        OBVIOUS
      <4> HIDE DEF i0, value
      <4> QED
        BY <1>2, <1>3, <2>6, <3>2, <4>1
    <3> HIDE DEF i0, colons, keys, value
    <3>4. colons # {}
      BY <2>2
    <3>5. rawField(b, key) = valueFrom(SubSeq(b, i0 + 2, Len(b)))
      BY <1>2, <1>4, <2>4, <3>3, <3>4
    <3> QED
      BY <1>2, <1>3, <2>6, <3>5
  <2> QED
    <3> HIDE DEF i0, colons, keys, value
    <3> QED
      BY <1>2, <1>3, <2>5, <2>6
<1> QED
  <2> HIDE DEF i0, colons, keys, value
  <2> QED
    BY <1>2, <1>3, <1>5, <1>6

\* A part of a sequence, element by element.
LEMMA PartIs ==
  ASSUME NEW T, NEW b \in Seq(T), NEW i \in 1..Len(b), NEW n \in i..Len(b)
  PROVE  /\ SubSeq(b, i, n) \in Seq(T)
         /\ Len(SubSeq(b, i, n)) = n - i + 1
         /\ \A k \in 1..(n - i + 1) : SubSeq(b, i, n)[k] = b[i + k - 1]
<1>1. \A k \in i..n : b[k] \in T
  OBVIOUS
<1>2. i \in Int /\ n \in Int /\ i <= n
  OBVIOUS
<1>3. /\ SubSeq(b, i, n) \in Seq(T)
      /\ Len(SubSeq(b, i, n)) = IF i <= n THEN n - i + 1 ELSE 0
      /\ \A k \in 1..(n - i + 1) : SubSeq(b, i, n)[k] = b[i + k - 1]
  <2>1. \A k \in 1..(n - i + 1) : SubSeq(b, i, n)[k] = b[i + k - 1]
    BY <1>1, <1>2, SubSeqProperties
  <2> QED
    BY <1>1, <1>2, <2>1, SubSeqProperties
<1> QED
  BY <1>2, <1>3

LEMMA PartOfPart ==
  ASSUME NEW T, NEW b \in Seq(T), NEW i \in 1..Len(b), NEW n \in i..Len(b), NEW j \in i..n
  PROVE  SubSeq(SubSeq(b, i, n), 1, j - i + 1) = SubSeq(b, i, j)
<1>1. /\ n \in 1..Len(b) /\ 1 \in 1..(n - i + 1) /\ j - i + 1 \in 1..(n - i + 1)
      /\ i + 1 - 1 = i /\ i + (j - i + 1) - 1 = j
  OBVIOUS
<1>2. SubSeq(SubSeq(b, i, n), 1, j - i + 1) = SubSeq(b, i + 1 - 1, i + (j - i + 1) - 1)
  BY <1>1, SubSeqOfSubSeq
<1> QED
  BY <1>1, <1>2

\* The value that opens at i is the object, whether or not the body ends there.
LEMMA ObjectFrom ==
  ASSUME NEW T, NEW b \in Seq(T), NEW i \in 1..Len(b), NEW n \in i..Len(b), NEW j \in i..n,
         IsObject(b, i, j)
  PROVE  objectFromValue(SubSeq(b, i, n)) = Found(SubSeq(b, i, j))
<1> DEFINE v == SubSeq(b, i, n)
           m == j - i + 1
<1>1. /\ v \in Seq(T) /\ Len(v) = n - i + 1
      /\ \A k \in 1..(n - i + 1) : v[k] = b[i + k - 1]
  BY PartIs
<1>2. SubSeq(v, 1, m) = SubSeq(b, i, j)
  BY PartOfPart
<1>3. m \in 1..Len(v) /\ 1 \in 1..Len(v)
  BY <1>1
<1>4. v[1] = OpenBrace
  <2>1. v[1] = b[i + 1 - 1] /\ i + 1 - 1 = i
    BY <1>1, <1>3
  <2> QED
    BY <2>1 DEF IsObject
<1>5. v[m] = CloseBrace
  <2>1. v[m] = b[i + m - 1] /\ i + m - 1 = j
    BY <1>1, <1>3
  <2> QED
    BY <2>1 DEF IsObject
<1>6. \A k \in 2..(m - 1) : v[k] # OpenBrace /\ v[k] # CloseBrace
  <2> TAKE k \in 2..(m - 1)
  <2>1. k \in 1..(n - i + 1) /\ i + k - 1 \in (i + 1)..(j - 1)
    OBVIOUS
  <2>2. v[k] = b[i + k - 1]
    BY <1>1, <2>1
  <2> QED
    BY <2>1, <2>2 DEF IsObject
<1>7. v # <<>>
  <2>1. Len(<<>>) = 0
    OBVIOUS
  <2> HIDE DEF v
  <2> QED
    BY <1>1, <1>3, <2>1
<1> HIDE DEF v, m
<1>8. Balanced(v, OpenBrace, CloseBrace) = Found(SubSeq(v, 1, m))
  <2>1. OpenBrace # CloseBrace
    BY Brackets
  <2>2. v \in Seq(T) /\ m \in 1..Len(v)
    BY <1>1, <1>3
  <2> QED
    BY <1>4, <1>5, <1>6, <2>1, <2>2, BalancedIs
<1>9. objectFromValue(v) = Found(SubSeq(b, i, j))
  BY <1>2, <1>4, <1>7, <1>8 DEF objectFromValue
<1> QED
  BY <1>9 DEF v

LEMMA OpensAnObject ==
  ASSUME NEW v, v[1] = OpenBrace
  PROVE  valueFrom(v) = objectFromValue(v)
<1>1. v[1].kind # "string"
  BY Kinds
<1>2. v[1] # OpenBracket
  BY Brackets
<1> QED
  BY <1>1, <1>2 DEF valueFrom

\* What the scanner takes for the object of that name is what the client wrote
\* there, and it takes nothing only where the object is not all there.
LEMMA ObjectIs ==
  ASSUME NEW T, NEW b \in Seq(T), NEW name, WritesObject(b, name)
  PROVE  \/ /\ rawField(b, name) = NotFound /\ objectField(b, name) = NotFound
            /\ \A keys : ~Has(b, name, keys)
         \/ \E i \in Names(b, name), j \in 1..Len(b) :
              /\ i + 2 \in 1..j /\ IsObject(b, i + 2, j)
              /\ rawField(b, name) = Found(SubSeq(b, i + 2, j))
              /\ objectFromValue(SubSeq(b, i + 2, j)) = Found(SubSeq(b, i + 2, j))
              /\ objectField(b, name) = Found(SubSeq(b, i + 2, j))
<1>1. CASE Names(b, name) = {}
  <2>1. {i \in 1..Len(b) : b[i] = Str(name)} = {}
    BY <1>1 DEF Names
  <2>2. rawField(b, name) = NotFound
    BY <2>1 DEF rawField
  <2> QED
    BY <1>1, <2>2 DEF objectField, NotFound, Has
<1>2. CASE Names(b, name) # {}
  <2>1. PICK i \in Names(b, name) :
          /\ i + 2 > Len(b) => rawField(b, name) = NotFound
          /\ i + 2 <= Len(b) => rawField(b, name) = valueFrom(SubSeq(b, i + 2, Len(b)))
    BY <1>2, FieldAt DEF WritesObject, ThenComes
  <2>2. i \in 1..Len(b) /\ b[i] = Str(name)
    BY DEF Names
  <2>3. CASE \A j \in (i + 3)..Len(b) : b[j] # CloseBrace
    <3>1. \A keys : ~Has(b, name, keys)
      <4> SUFFICES ASSUME NEW keys, Has(b, name, keys)
                   PROVE  FALSE
        OBVIOUS
      <4>1. PICK j \in 1..Len(b) : IsObject(b, i + 2, j)
        BY DEF Has
      <4>2. i + 2 < j /\ b[j] = CloseBrace
        BY <4>1 DEF IsObject
      <4> QED
        BY <2>2, <2>3, <4>2
    <3>2. rawField(b, name) = NotFound
      <4>1. CASE i + 2 > Len(b)
        BY <2>1, <4>1
      <4>2. CASE i + 2 <= Len(b)
        <5> DEFINE v == SubSeq(b, i + 2, Len(b))
        <5>1. i + 2 \in 1..Len(b) /\ Len(b) \in (i + 2)..Len(b)
          BY <2>2, <4>2
        <5>2. /\ v \in Seq(T) /\ Len(v) = Len(b) - (i + 2) + 1
              /\ \A k \in 1..(Len(b) - (i + 2) + 1) : v[k] = b[(i + 2) + k - 1]
          BY <5>1, PartIs
        <5>3. 1 \in 1..Len(v) /\ v[1] = b[i + 2]
          <6>1. 1 \in 1..(Len(b) - (i + 2) + 1) /\ (i + 2) + 1 - 1 = i + 2
            BY <5>1
          <6> QED
            BY <5>2, <6>1
        <5>4. v[1] = OpenBrace
          BY <2>2, <4>2, <5>3 DEF WritesObject, ThenComes
        <5>5. \A k \in 1..Len(v) : v[k] # CloseBrace
          <6> TAKE k \in 1..Len(v)
          <6>1. CASE k = 1
            BY <5>4, <6>1, Brackets
          <6>2. CASE k # 1
            <7>1. k \in 1..(Len(b) - (i + 2) + 1)
              BY <5>2
            <7>2. (i + 2) + k - 1 \in (i + 3)..Len(b)
              BY <2>2, <6>2, <7>1
            <7> QED
              BY <2>3, <5>2, <7>1, <7>2
          <6> QED
            BY <6>1, <6>2
        <5> HIDE DEF v
        <5>6. valueFrom(v) = objectFromValue(v)
          BY <5>4, OpensAnObject
        <5>7. objectFromValue(v) = NotFound
          <6>1. Balanced(v, OpenBrace, CloseBrace) = NotFound
            BY <5>2, <5>5, BalancedIsNot
          <6> QED
            BY <6>1 DEF objectFromValue
        <5> QED
          BY <2>1, <4>2, <5>6, <5>7 DEF v
      <4> QED
        BY <2>2, <4>1, <4>2
    <3> QED
      BY <3>1, <3>2 DEF objectField, NotFound
  <2>4. CASE ~\A j \in (i + 3)..Len(b) : b[j] # CloseBrace
    <3> DEFINE S == {j \in (i + 3)..Len(b) : b[j] = CloseBrace}
               j == First(S)
    <3>1. S \in SUBSET Nat /\ S # {}
      BY <2>2, <2>4
    <3>2. j \in S /\ \A k \in S : j <= k
      <4> HIDE DEF S
      <4> QED
        BY <3>1, FirstIs
    <3>3. j \in (i + 3)..Len(b) /\ b[j] = CloseBrace
      <4> HIDE DEF j
      <4> QED
        BY <3>2
    <3>4. \A k \in (i + 3)..(j - 1) : b[k] # CloseBrace
      <4> TAKE k \in (i + 3)..(j - 1)
      <4> HIDE DEF j
      <4>1. ~(j <= k) /\ k \in (i + 3)..Len(b)
        BY <2>2, <3>3
      <4> QED
        BY <3>2, <4>1
    <3> HIDE DEF j, S
    <3>5. \A k \in (i + 3)..(j - 1) : b[k] # OpenBrace
      <4> SUFFICES ASSUME NEW k \in (i + 3)..(j - 1), b[k] = OpenBrace
                   PROVE  FALSE
        OBVIOUS
      <4>1. k \in (i + 3)..Len(b)
        BY <2>2, <3>3
      <4>2. PICK l \in (i + 3)..(k - 1) : b[l] = CloseBrace
        BY <4>1 DEF WritesObject
      <4>3. l \in (i + 3)..(j - 1)
        BY <2>2, <3>3, <4>1
      <4> QED
        BY <3>4, <4>2, <4>3
    <3>6. i + 2 \in 1..Len(b) /\ i + 2 <= Len(b) /\ i + 2 \in 1..j /\ j \in 1..Len(b)
          /\ i + 2 < j /\ j \in (i + 2)..Len(b) /\ Len(b) \in (i + 2)..Len(b) /\ j \in (i + 2)..j
      BY <2>2, <3>3
    <3>7. b[i + 2] = OpenBrace
      BY <2>2, <3>6 DEF WritesObject, ThenComes
    <3>8. IsObject(b, i + 2, j)
      <4>1. i + 2 + 1 = i + 3
        BY <2>2
      <4> QED
        BY <3>3, <3>4, <3>5, <3>6, <3>7, <4>1 DEF IsObject
    <3>9. objectFromValue(SubSeq(b, i + 2, Len(b))) = Found(SubSeq(b, i + 2, j))
      BY <3>6, <3>8, ObjectFrom
    <3>10. objectFromValue(SubSeq(b, i + 2, j)) = Found(SubSeq(b, i + 2, j))
      BY <3>6, <3>8, ObjectFrom
    <3>11. valueFrom(SubSeq(b, i + 2, Len(b))) = objectFromValue(SubSeq(b, i + 2, Len(b)))
      <4>1. SubSeq(b, i + 2, Len(b))[1] = b[i + 2]
        <5>1. 1 \in 1..(Len(b) - (i + 2) + 1) /\ (i + 2) + 1 - 1 = i + 2
          BY <3>6
        <5>2. SubSeq(b, i + 2, Len(b))[1] = b[(i + 2) + 1 - 1]
          BY <3>6, <5>1, PartIs
        <5> QED
          BY <5>1, <5>2
      <4> QED
        BY <3>7, <4>1, OpensAnObject
    <3>12. rawField(b, name) = Found(SubSeq(b, i + 2, j))
      BY <2>1, <3>6, <3>9, <3>11
    <3>13. objectField(b, name) = Found(SubSeq(b, i + 2, j))
      BY <3>10, <3>12 DEF objectField, Found
    <3> QED
      BY <3>6, <3>8, <3>10, <3>12, <3>13
  <2> QED
    BY <2>3, <2>4
<1> QED
  BY <1>1, <1>2

\* A value of one token, with a comma or a brace behind it.
LEMMA OneToken ==
  ASSUME NEW T, NEW v \in Seq(T), Len(v) >= 2, v[1].kind # "punct", v[2] \in {Comma, CloseBrace}
  PROVE  valueFrom(v) = Found(<<v[1]>>)
<1>1. v[1] \notin {OpenBrace, OpenBracket, Comma, CloseBrace, CloseBracket}
  BY Kinds
<1>2. CASE v[1].kind = "string"
  BY <1>1, <1>2 DEF valueFrom
<1>3. CASE v[1].kind # "string"
  <2> DEFINE stops == {k \in 1..Len(v) : v[k] \in {Comma, CloseBrace, CloseBracket}}
  <2>1. valueFrom(v) = scalarFromValue(v)
    BY <1>1, <1>3 DEF valueFrom
  <2>2. stops \in SUBSET Nat /\ 2 \in stops
    OBVIOUS
  <2>3. \A k \in stops : 2 <= k
    <3> TAKE k \in stops
    <3>1. k \in 1..Len(v) /\ k # 1
      BY <1>1
    <3> QED
      BY <3>1
  <2> HIDE DEF stops
  <2>4. First(stops) = 2 /\ stops # {}
    BY <2>2, <2>3, FirstIsThe
  <2>5. scalarFromValue(v) = Found(SubSeq(v, 1, First(stops) - 1))
    BY <2>4 DEF scalarFromValue, stops
  <2>6. SubSeq(v, 1, First(stops) - 1) = SubSeq(v, 1, 1)
    BY <2>4
  <2>7. SubSeq(v, 1, 1) = <<v[1]>>
    <3> DEFINE w == SubSeq(v, 1, 1)
               u == <<v[1]>>
    <3>1. 1 \in 1..Len(v) /\ v[1] \in T
      OBVIOUS
    <3>2. w \in Seq(T) /\ Len(w) = 1 - 1 + 1 /\ \A k \in 1..(1 - 1 + 1) : w[k] = v[1 + k - 1]
      BY <3>1, PartIs
    <3>3. u \in Seq(T) /\ Len(u) = 1 /\ u[1] = v[1]
      BY <3>1
    <3>4. Len(w) = 1 /\ w[1] = v[1]
      BY <3>2
    <3>5. \A k \in 1..1 : w[k] = u[k]
      BY <3>3, <3>4
    <3> HIDE DEF w, u
    <3>6. w = u
      BY <3>2, <3>3, <3>4, <3>5, SeqEqual
    <3> QED
      BY <3>6 DEF w, u
  <2> QED
    BY <2>1, <2>5, <2>6, <2>7
<1> QED
  BY <1>2, <1>3

\* Where the tokens of the object stand in the body; a key in it is a name
\* behind its brace.
LEMMA InTheObject ==
  ASSUME NEW T, NEW b \in Seq(T), NEW s \in 1..Len(b), NEW j \in s..Len(b), IsObject(b, s, j),
         NEW key
  PROVE  LET o == SubSeq(b, s, j)
         IN  /\ o \in Seq(T) /\ Len(o) = j - s + 1
             /\ \A k \in 1..Len(o) : o[k] = b[s + k - 1]
             /\ \A k \in Names(o, key) :
                  k \in 1..Len(o) /\ s + k - 1 \in (s + 1)..(j - 1) /\ b[s + k - 1] = Str(key)
             /\ \A k \in (s + 1)..j : b[k] = Str(key) => k - s + 1 \in Names(o, key)
<1> DEFINE o == SubSeq(b, s, j)
<1>1. o \in Seq(T) /\ Len(o) = j - s + 1 /\ \A k \in 1..(j - s + 1) : o[k] = b[s + k - 1]
  BY PartIs
<1>2. \A k \in 1..Len(o) : o[k] = b[s + k - 1]
  BY <1>1
<1>3. ASSUME NEW k \in Names(o, key)
      PROVE  k \in 1..Len(o) /\ s + k - 1 \in (s + 1)..(j - 1) /\ b[s + k - 1] = Str(key)
  <2>1. k \in 1..Len(o) /\ o[k] = Str(key)
    BY DEF Names
  <2> HIDE DEF o
  <2>2. b[s + k - 1] = Str(key)
    BY <1>2, <2>1
  <2>3. s + k - 1 \in s..j
    BY <1>1, <2>1
  <2>4. b[s] # Str(key) /\ b[j] # Str(key)
    BY Kinds DEF IsObject
  <2>5. s + k - 1 # s /\ s + k - 1 # j
    BY <2>2, <2>4
  <2> QED
    BY <2>1, <2>2, <2>3, <2>5
<1>4. ASSUME NEW k \in (s + 1)..j, b[k] = Str(key)
      PROVE  k - s + 1 \in Names(o, key)
  <2> DEFINE m == k - s + 1
  <2>1. m \in 1..Len(o) /\ s + m - 1 = k
    BY <1>1
  <2>2. o[m] = b[s + m - 1]
    BY <1>2, <2>1
  <2> HIDE DEF m, o
  <2>3. m \in Names(o, key)
    BY <1>4, <2>1, <2>2 DEF Names
  <2> QED
    BY <2>3 DEF m
<1> QED
  BY <1>1, <1>2, <1>3, <1>4

\* In an object the scanner finds what stands behind the key and its colon, or
\* that the key is missing.
LEMMA KeyInObject ==
  ASSUME NEW T, NEW b \in Seq(T), NEW s \in 1..Len(b), NEW j \in s..Len(b), IsObject(b, s, j),
         NEW key,
         \A k \in (s + 1)..j : b[k] = Str(key) => b[k + 1] = Colon /\ b[k + 2] # CloseBrace
  PROVE  \/ rawField(SubSeq(b, s, j), key) = NotFound /\ \A k \in (s + 1)..j : b[k] # Str(key)
         \/ \E k \in (s + 1)..(j - 3) :
              b[k] = Str(key) /\ rawField(SubSeq(b, s, j), key) = valueFrom(SubSeq(b, k + 2, j))
<1> DEFINE o == SubSeq(b, s, j)
<1>1. o \in Seq(T)
  BY InTheObject
<1>2. Len(o) = j - s + 1
  BY InTheObject
<1>3. \A k \in 1..Len(o) : o[k] = b[s + k - 1]
  BY InTheObject
<1>4. \A k \in Names(o, key) :
        k \in 1..Len(o) /\ s + k - 1 \in (s + 1)..(j - 1) /\ b[s + k - 1] = Str(key)
  BY InTheObject
<1>5. \A k \in (s + 1)..j : b[k] = Str(key) => k - s + 1 \in Names(o, key)
  BY InTheObject
<1>6. CASE Names(o, key) = {}
  <2>1. \A k \in (s + 1)..j : b[k] # Str(key)
    BY <1>5, <1>6
  <2>2. {k \in 1..Len(o) : o[k] = Str(key)} = {}
    BY <1>6 DEF Names
  <2>3. rawField(o, key) = NotFound
    BY <2>2 DEF rawField
  <2> QED
    BY <2>1, <2>3
<1>7. CASE Names(o, key) # {}
  <2> HIDE DEF o
  <2>1. ASSUME NEW n \in Names(o, key)
        PROVE  n \in 1..Len(o) /\ n + 3 <= Len(o) /\ o[n + 1] = Colon
               /\ s + n - 1 \in (s + 1)..(j - 3) /\ b[s + n - 1] = Str(key)
    <3> DEFINE k == s + n - 1
    <3>1. n \in 1..Len(o) /\ k \in (s + 1)..(j - 1) /\ b[k] = Str(key)
      BY <1>4
    <3>2. k \in (s + 1)..j
      BY <3>1
    <3>3. b[k + 1] = Colon /\ b[k + 2] # CloseBrace
      BY <3>1, <3>2
    <3>4. b[j] = CloseBrace
      BY DEF IsObject
    <3>5. k + 1 # j /\ k + 2 # j
      BY <3>3, <3>4, Brackets
    <3>6. k \in (s + 1)..(j - 3)
      <4> HIDE DEF k
      <4> QED
        BY <3>1, <3>5
    <3>7. n + 3 <= Len(o) /\ n + 1 \in 1..Len(o) /\ s + (n + 1) - 1 = k + 1
      BY <1>2, <3>1, <3>6
    <3>8. o[n + 1] = b[s + (n + 1) - 1]
      BY <1>3, <3>7
    <3>9. o[n + 1] = Colon
      <4> HIDE DEF k
      <4> QED
        BY <3>3, <3>7, <3>8
    <3> QED
      BY <3>1, <3>6, <3>7, <3>9
  <2>2. \A n \in Names(o, key) : n + 1 <= Len(o) => o[n + 1] = Colon
    BY <2>1
  <2>3. PICK n \in Names(o, key) :
          /\ n + 2 > Len(o) => rawField(o, key) = NotFound
          /\ n + 2 <= Len(o) => rawField(o, key) = valueFrom(SubSeq(o, n + 2, Len(o)))
    BY <1>1, <1>7, <2>2, FieldAt
  <2> DEFINE k == s + n - 1
  <2>4. n \in 1..Len(o) /\ n + 3 <= Len(o) /\ k \in (s + 1)..(j - 3) /\ b[k] = Str(key)
    BY <2>1
  <2>5. /\ n + 2 \in 1..(j - s + 1) /\ Len(o) \in 1..(j - s + 1) /\ j \in 1..Len(b)
        /\ s + (n + 2) - 1 = k + 2 /\ s + Len(o) - 1 = j /\ n + 2 <= Len(o)
    BY <1>2, <2>4
  <2>6. SubSeq(SubSeq(b, s, j), n + 2, Len(o)) = SubSeq(b, s + (n + 2) - 1, s + Len(o) - 1)
    <3>1. \A m, l \in 1..(j - s + 1) :
            SubSeq(SubSeq(b, s, j), m, l) = SubSeq(b, s + m - 1, s + l - 1)
      BY <2>5, SubSeqOfSubSeq
    <3> QED
      BY <2>5, <3>1
  <2>7. rawField(o, key) = valueFrom(SubSeq(b, k + 2, j))
    <3> HIDE DEF k
    <3> QED
      BY <2>3, <2>5, <2>6 DEF o
  <2> HIDE DEF k
  <2> QED
    BY <2>4, <2>7 DEF o
<1> QED
  BY <1>6, <1>7

\* A member of one token is found as the client wrote it.
LEMMA MemberIs ==
  ASSUME NEW T, NEW b \in Seq(T), NEW name, NEW key, NEW token, token.kind # "punct",
         WritesMember(b, name, key, token),
         NEW i \in Names(b, name), NEW j \in 1..Len(b), i + 2 \in 1..j, IsObject(b, i + 2, j)
  PROVE  \/ /\ rawField(SubSeq(b, i + 2, j), key) = NotFound
            /\ \A k \in (i + 3)..j : b[k] # Str(key)
         \/ rawField(SubSeq(b, i + 2, j), key) = Found(<<token>>)
<1> DEFINE s == i + 2
<1>1. i \in 1..Len(b) /\ s \in 1..Len(b) /\ j \in s..Len(b) /\ (s + 1)..j = (i + 3)..j
  BY DEF Names
<1>2. IsObject(b, s, j)
  OBVIOUS
<1>3. \A k \in (i + 3)..j : b[k] = Str(key) =>
        b[k + 1] = Colon /\ b[k + 2] = token /\ b[k + 3] \in {Comma, CloseBrace}
  BY Zenon DEF WritesMember
<1>4. token # CloseBrace
  BY Kinds
<1> HIDE DEF s
<1>5. \/ rawField(SubSeq(b, s, j), key) = NotFound /\ \A k \in (s + 1)..j : b[k] # Str(key)
      \/ \E k \in (s + 1)..(j - 3) :
           b[k] = Str(key) /\ rawField(SubSeq(b, s, j), key) = valueFrom(SubSeq(b, k + 2, j))
  <2>1. \A k \in (s + 1)..j : b[k] = Str(key) => b[k + 1] = Colon /\ b[k + 2] # CloseBrace
    BY <1>1, <1>3, <1>4
  <2> QED
    BY <1>1, <1>2, <2>1, KeyInObject
<1>6. ASSUME NEW k \in (s + 1)..(j - 3), b[k] = Str(key)
      PROVE  valueFrom(SubSeq(b, k + 2, j)) = Found(<<token>>)
  <2> DEFINE v == SubSeq(b, k + 2, j)
  <2>1. k \in (s + 1)..j
    BY <1>1
  <2>2. b[k + 2] = token /\ b[k + 3] \in {Comma, CloseBrace}
    BY <1>1, <1>3, <1>6, <2>1
  <2>3. k + 2 \in 1..Len(b) /\ j \in (k + 2)..Len(b) /\ j - (k + 2) + 1 >= 2
    BY <1>1
  <2>4. v \in Seq(T) /\ Len(v) = j - (k + 2) + 1
    BY <2>3, PartIs
  <2>5. \A l \in 1..(j - (k + 2) + 1) : v[l] = b[(k + 2) + l - 1]
    BY <2>3, PartIs
  <2>6. 1 \in 1..(j - (k + 2) + 1) /\ 2 \in 1..(j - (k + 2) + 1)
        /\ (k + 2) + 1 - 1 = k + 2 /\ (k + 2) + 2 - 1 = k + 3
    BY <1>1
  <2> HIDE DEF v
  <2>7. v[1] = token /\ v[2] \in {Comma, CloseBrace}
    <3>1. v[1] = b[(k + 2) + 1 - 1] /\ v[2] = b[(k + 2) + 2 - 1]
      BY <2>5, <2>6
    <3> QED
      BY <2>2, <2>6, <3>1
  <2>8. valueFrom(v) = Found(<<token>>)
    BY <2>3, <2>4, <2>7, OneToken
  <2> QED
    BY <2>8 DEF v
<1> QED
  BY <1>1, <1>5, <1>6 DEF s

\* The array of known merchants is found to its end, and with nobody else in it.
LEMMA MerchantsIs ==
  ASSUME NEW T, NEW b \in Seq(T), NEW merchants, WritesMerchants(b, merchants),
         NEW i \in Names(b, "customer"), NEW j \in 1..Len(b), i + 2 \in 1..j,
         IsObject(b, i + 2, j)
  PROVE  \/ /\ rawField(SubSeq(b, i + 2, j), "known_merchants") = NotFound
            /\ \A k \in (i + 3)..j : b[k] # Str("known_merchants")
         \/ \E raw :
              /\ rawField(SubSeq(b, i + 2, j), "known_merchants") = Found(raw)
              /\ \A id : containsQuoted(raw, Str(id)) <=>
                          \E n \in DOMAIN merchants : merchants[n] = id
<1> DEFINE s == i + 2
           key == "known_merchants"
           Array(k, m) ==
             /\ b[m] = CloseBracket
             /\ \A l \in (k + 3)..(m - 1) :
                  b[l] = Comma \/ \E n \in DOMAIN merchants : b[l] = Str(merchants[n])
             /\ \A n \in DOMAIN merchants : \E l \in (k + 3)..(m - 1) : b[l] = Str(merchants[n])
<1>1. i \in 1..Len(b) /\ s \in 1..Len(b) /\ j \in s..Len(b) /\ (s + 1)..j = (i + 3)..j
  BY DEF Names
<1>2. IsObject(b, s, j)
  OBVIOUS
<1>3. \A k \in (i + 3)..j : b[k] = Str(key) =>
        b[k + 1] = Colon /\ b[k + 2] = OpenBracket /\ \E m \in (k + 3)..(j - 1) : Array(k, m)
  BY Zenon DEF WritesMerchants
<1> HIDE DEF s, Array, key
<1>4. \/ rawField(SubSeq(b, s, j), key) = NotFound /\ \A k \in (s + 1)..j : b[k] # Str(key)
      \/ \E k \in (s + 1)..(j - 3) :
           b[k] = Str(key) /\ rawField(SubSeq(b, s, j), key) = valueFrom(SubSeq(b, k + 2, j))
  <2>1. \A k \in (s + 1)..j : b[k] = Str(key) => b[k + 1] = Colon /\ b[k + 2] # CloseBrace
    BY <1>1, <1>3, Brackets
  <2> QED
    BY <1>1, <1>2, <2>1, KeyInObject
<1>5. ASSUME NEW k \in (s + 1)..(j - 3), b[k] = Str(key)
      PROVE  \E raw :
               /\ valueFrom(SubSeq(b, k + 2, j)) = Found(raw)
               /\ \A id : containsQuoted(raw, Str(id)) <=>
                          \E n \in DOMAIN merchants : merchants[n] = id
  <2> DEFINE r == k + 2
             v == SubSeq(b, r, j)
  <2>1. k \in (s + 1)..j /\ k \in Int /\ j \in Int
    BY <1>1
  <2>2. b[r] = OpenBracket /\ \E m \in (k + 3)..(j - 1) : Array(k, m)
    BY <1>1, <1>3, <1>5, <2>1
  <2>3. PICK m \in (k + 3)..(j - 1) : Array(k, m)
    BY <2>2
  <2>4. b[m] = CloseBracket
    BY <2>3 DEF Array
  <2>5. r \in 1..Len(b) /\ m \in r..j /\ j \in r..Len(b) /\ r < m /\ r + 1 = k + 3
    BY <1>1
  <2> DEFINE raw == SubSeq(b, r, m)
             c == m - r + 1
  <2>6. v \in Seq(T) /\ Len(v) = j - r + 1
    BY <2>5, PartIs
  <2>7. \A l \in 1..(j - r + 1) : v[l] = b[r + l - 1]
    BY <2>5, PartIs
  <2>8. raw = SubSeq(v, 1, c)
    BY <2>5, PartOfPart
  <2>9. m \in r..Len(b) /\ m \in Int /\ r \in Int
    BY <2>5
  <2>10. Len(raw) = c
    BY <2>5, <2>9, PartIs
  <2>11. \A l \in 1..c : raw[l] = b[r + l - 1]
    BY <2>5, <2>9, PartIs
  <2>12. c \in 1..(j - r + 1) /\ 1 \in 1..(j - r + 1) /\ r + c - 1 = m /\ r + 1 - 1 = r /\ c > 1
    BY <2>5, <2>9
  <2>13. \A l \in (r + 1)..(m - 1) :
           b[l] = Comma \/ \E n \in DOMAIN merchants : b[l] = Str(merchants[n])
    BY <2>3, <2>5 DEF Array
  <2>14. \A n \in DOMAIN merchants : \E l \in (r + 1)..(m - 1) : b[l] = Str(merchants[n])
    BY <2>3, <2>5 DEF Array
  <2>15. \A l \in (r + 1)..(m - 1) : b[l] # OpenBracket /\ b[l] # CloseBracket
    BY <2>13, Brackets, Kinds
  <2> HIDE DEF r, v, c, raw
  <2>16. valueFrom(v) = Found(raw)
    <3>1. v[1] = OpenBracket /\ v[c] = CloseBracket
      <4>1. v[1] = b[r + 1 - 1] /\ v[c] = b[r + c - 1]
        BY <2>7, <2>12
      <4> QED
        BY <2>2, <2>4, <2>12, <4>1
    <3>2. \A l \in 2..(c - 1) : v[l] # OpenBracket /\ v[l] # CloseBracket
      <4> TAKE l \in 2..(c - 1)
      <4>1. l \in 1..(j - r + 1) /\ r + l - 1 \in (r + 1)..(m - 1)
        BY <2>9, <2>12
      <4> QED
        BY <2>7, <2>15, <4>1
    <3>3. OpenBracket # CloseBracket /\ c \in 1..Len(v) /\ v \in Seq(T)
      BY <2>6, <2>12, Brackets
    <3>4. Balanced(v, OpenBracket, CloseBracket) = Found(raw)
      BY <2>8, <3>1, <3>2, <3>3, BalancedIs
    <3>5. v[1].kind # "string" /\ v[1] # OpenBrace
      BY <3>1, Kinds, Brackets
    <3> QED
      BY <3>1, <3>4, <3>5 DEF valueFrom, arrayFromValue
  <2>17. ASSUME NEW id
         PROVE  containsQuoted(raw, Str(id)) <=> \E n \in DOMAIN merchants : merchants[n] = id
    <3>1. containsQuoted(raw, Str(id)) <=> \E l \in (r + 1)..(m - 1) : b[l] = Str(id)
      <4>1. ASSUME NEW l \in 1..c, raw[l] = Str(id)
            PROVE  \E n \in (r + 1)..(m - 1) : b[n] = Str(id)
        <5>1. b[r + l - 1] = Str(id)
          BY <2>11, <4>1
        <5>2. r + l - 1 # r /\ r + l - 1 # m
          BY <2>2, <2>4, <5>1, Kinds
        <5>3. r + l - 1 \in (r + 1)..(m - 1)
          BY <2>9, <2>12, <5>2
        <5> QED
          BY <5>1, <5>3
      <4>2. ASSUME NEW n \in (r + 1)..(m - 1), b[n] = Str(id)
            PROVE  \E l \in 1..c : raw[l] = Str(id)
        <5>1. n - r + 1 \in 1..c /\ r + (n - r + 1) - 1 = n
          BY <2>9, <2>12
        <5>2. raw[n - r + 1] = b[r + (n - r + 1) - 1]
          BY <2>11, <5>1
        <5> QED
          BY <4>2, <5>1, <5>2
      <4>3. containsQuoted(raw, Str(id)) <=> \E l \in 1..c : raw[l] = Str(id)
        BY <2>10 DEF containsQuoted
      <4> QED
        BY <4>1, <4>2, <4>3
    <3>2. (\E l \in (r + 1)..(m - 1) : b[l] = Str(id))
             <=> \E n \in DOMAIN merchants : merchants[n] = id
      <4>1. \A x, y : Str(x) = Str(y) => x = y
        BY Kinds
      <4>2. Comma # Str(id)
        BY Kinds
      <4> QED
        BY <2>13, <2>14, <4>1, <4>2
    <3> QED
      BY <3>1, <3>2
  <2> QED
    BY <2>16, <2>17 DEF v, r
<1> QED
  BY <1>1, <1>4, <1>5 DEF s, key

\* Where an object begins it has one end, so what is all there is in it.
LEMMA HasIs ==
  ASSUME NEW T, NEW b \in Seq(T), NEW name, NEW keys, NEW key \in keys, Has(b, name, keys),
         NEW i \in Names(b, name), NEW j \in 1..Len(b), i + 2 \in 1..j, IsObject(b, i + 2, j)
  PROVE  \E k \in (i + 3)..j : b[k] = Str(key)
<1>1. PICK n \in 1..Len(b) :
        IsObject(b, i + 2, n) /\ \A x \in keys : \E k \in (i + 3)..n : b[k] = Str(x)
  BY Zenon DEF Has
<1>2. i \in 1..Len(b) /\ i + 2 < j /\ i + 2 < n
  BY <1>1 DEF Names, IsObject
<1>3. ~(j < n)
  <2> SUFFICES ASSUME j < n
               PROVE  FALSE
    OBVIOUS
  <2>1. j \in (i + 2 + 1)..(n - 1)
    BY <1>2
  <2> QED
    BY <1>1, <2>1 DEF IsObject
<1>4. ~(n < j)
  <2> SUFFICES ASSUME n < j
               PROVE  FALSE
    OBVIOUS
  <2>1. n \in (i + 2 + 1)..(j - 1)
    BY <1>2
  <2> QED
    BY <1>1, <2>1 DEF IsObject
<1>5. n = j
  BY <1>3, <1>4
<1> QED
  BY <1>1, <1>5

LEMMA InObjectIs ==
  ASSUME NEW b, NEW name, NEW key, NEW o
  PROVE  objectField(b, name) = Found(o) => InObject(b, name, key) = rawField(o, key)
  BY DEF InObject, Found

\* A member of an object of the body is found as the client wrote it or not at
\* all; an object that is all there has it.
LEMMA FieldIs ==
  ASSUME NEW T, NEW b \in Seq(T), NEW name, NEW key, NEW token, token.kind # "punct",
         WritesObject(b, name), WritesMember(b, name, key, token)
  PROVE  /\ InObject(b, name, key) \in {NotFound, Found(<<token>>)}
         /\ \A keys : key \in keys /\ Has(b, name, keys) =>
              InObject(b, name, key) = Found(<<token>>)
<1>1. CASE objectField(b, name) = NotFound /\ \A keys : ~Has(b, name, keys)
  BY <1>1 DEF InObject, NotFound
<1>2. CASE \E i \in Names(b, name), j \in 1..Len(b) :
             /\ i + 2 \in 1..j /\ IsObject(b, i + 2, j)
             /\ objectField(b, name) = Found(SubSeq(b, i + 2, j))
  <2>1. PICK i \in Names(b, name), j \in 1..Len(b) :
          /\ i + 2 \in 1..j /\ IsObject(b, i + 2, j)
          /\ objectField(b, name) = Found(SubSeq(b, i + 2, j))
    BY <1>2
  <2> DEFINE o == SubSeq(b, i + 2, j)
  <2>2. InObject(b, name, key) = rawField(o, key)
    BY <2>1, InObjectIs
  <2>3. \/ rawField(o, key) = NotFound /\ \A k \in (i + 3)..j : b[k] # Str(key)
        \/ rawField(o, key) = Found(<<token>>)
    BY <2>1, MemberIs
  <2>4. ASSUME NEW keys, key \in keys, Has(b, name, keys)
        PROVE  \E k \in (i + 3)..j : b[k] = Str(key)
    BY <2>1, <2>4, HasIs
  <2> HIDE DEF o
  <2> QED
    BY <2>2, <2>3, <2>4
<1> QED
  BY <1>1, <1>2, ObjectIs

\* The same for the merchants.
LEMMA MerchantsFieldIs ==
  ASSUME NEW T, NEW b \in Seq(T), NEW merchants,
         WritesObject(b, "customer"), WritesMerchants(b, merchants)
  PROVE  LET known == InObject(b, "customer", "known_merchants")
         IN  /\ \/ known = NotFound
                \/ \E raw : /\ known = Found(raw)
                            /\ \A id : containsQuoted(raw, Str(id)) <=>
                                 \E n \in DOMAIN merchants : merchants[n] = id
             /\ \A keys : "known_merchants" \in keys /\ Has(b, "customer", keys) => known # NotFound
<1> DEFINE Ok(raw) == \A id : containsQuoted(raw, Str(id)) <=>
                               \E n \in DOMAIN merchants : merchants[n] = id
<1>1. CASE objectField(b, "customer") = NotFound /\ \A keys : ~Has(b, "customer", keys)
  BY <1>1 DEF InObject, NotFound
<1>2. CASE \E i \in Names(b, "customer"), j \in 1..Len(b) :
             /\ i + 2 \in 1..j /\ IsObject(b, i + 2, j)
             /\ objectField(b, "customer") = Found(SubSeq(b, i + 2, j))
  <2>1. PICK i \in Names(b, "customer"), j \in 1..Len(b) :
          /\ i + 2 \in 1..j /\ IsObject(b, i + 2, j)
          /\ objectField(b, "customer") = Found(SubSeq(b, i + 2, j))
    BY <1>2
  <2> DEFINE o == SubSeq(b, i + 2, j)
  <2>2. InObject(b, "customer", "known_merchants") = rawField(o, "known_merchants")
    BY <2>1, InObjectIs
  <2>3. \/ /\ rawField(o, "known_merchants") = NotFound
           /\ \A k \in (i + 3)..j : b[k] # Str("known_merchants")
        \/ \E raw : rawField(o, "known_merchants") = Found(raw) /\ Ok(raw)
    BY <2>1, MerchantsIs
  <2>4. ASSUME NEW keys, "known_merchants" \in keys, Has(b, "customer", keys)
        PROVE  \E k \in (i + 3)..j : b[k] = Str("known_merchants")
    BY <2>1, <2>4, HasIs
  <2>5. \A raw : Found(raw) # NotFound
    BY DEF Found, NotFound
  <2> HIDE DEF o, Ok
  <2> DEFINE known == InObject(b, "customer", "known_merchants")
  <2>6. known = NotFound \/ \E raw : known = Found(raw) /\ Ok(raw)
    BY <2>2, <2>3
  <2>7. \A keys : "known_merchants" \in keys /\ Has(b, "customer", keys) => known # NotFound
    BY <2>2, <2>3, <2>4, <2>5
  <2> QED
    BY <2>6, <2>7 DEF Ok
<1> QED
  BY <1>1, <1>2, ObjectIs

\* A last transaction that is null is found to be null, or not found.
LEMMA NullIs ==
  ASSUME NEW T, NEW b \in Seq(T), NEW name, NEW token, token.kind = "literal",
         ThenComes(b, name, token)
  PROVE  LET last == rawField(b, name)
         IN  /\ last = NotFound \/ (last.ok /\ last.raw # <<>> /\ last.raw[1] = token)
             /\ Names(b, name) # {} /\ (\A i \in Names(b, name) : i + 2 <= Len(b)) => last.ok
<1>1. CASE Names(b, name) = {}
  <2>1. {i \in 1..Len(b) : b[i] = Str(name)} = {}
    BY <1>1 DEF Names
  <2>2. rawField(b, name) = NotFound
    BY <2>1 DEF rawField
  <2> QED
    BY <1>1, <2>2
<1>2. CASE Names(b, name) # {}
  <2>1. PICK i \in Names(b, name) :
          /\ i + 2 > Len(b) => rawField(b, name) = NotFound
          /\ i + 2 <= Len(b) => rawField(b, name) = valueFrom(SubSeq(b, i + 2, Len(b)))
    BY <1>2, FieldAt DEF ThenComes
  <2>2. i \in 1..Len(b) /\ Len(b) \in Nat
    BY DEF Names
  <2>3. CASE i + 2 > Len(b)
    <3>1. ~(i + 2 <= Len(b))
      BY <2>2, <2>3
    <3> QED
      BY <2>1, <2>3, <3>1
  <2>4. CASE i + 2 <= Len(b)
    <3> DEFINE v == SubSeq(b, i + 2, Len(b))
               stops == {k \in 1..Len(v) : v[k] \in {Comma, CloseBrace, CloseBracket}}
               raw == IF stops = {} THEN v ELSE SubSeq(v, 1, First(stops) - 1)
    <3>1. i + 2 \in 1..Len(b) /\ Len(b) \in (i + 2)..Len(b)
      BY <2>2, <2>4
    <3>2. v \in Seq(T) /\ Len(v) = Len(b) - (i + 2) + 1
      BY <3>1, PartIs
    <3>3. v[1] = token
      <4>1. 1 \in 1..(Len(b) - (i + 2) + 1) /\ (i + 2) + 1 - 1 = i + 2
        BY <3>1
      <4>2. v[1] = b[(i + 2) + 1 - 1]
        BY <3>1, <4>1, PartIs
      <4>3. b[i + 2] = token
        BY <2>4 DEF ThenComes
      <4> QED
        BY <4>1, <4>2, <4>3
    <3>4. v[1] \notin {OpenBrace, OpenBracket, Comma, CloseBrace, CloseBracket}
      BY <3>3, Kinds
    <3>5. valueFrom(v) = scalarFromValue(v)
      <4>1. v[1].kind # "string"
        BY <3>3
      <4> HIDE DEF v
      <4> QED
        BY <3>4, <4>1 DEF valueFrom
    <3>6. scalarFromValue(v) = Found(raw)
      BY Zenon DEF scalarFromValue
    <3>7. raw # <<>> /\ raw[1] = token
      <4>1. Len(v) >= 1 /\ Len(v) \in Nat
        BY <3>1, <3>2
      <4> HIDE DEF v
      <4>2. CASE stops = {}
        <5>1. Len(<<>>) = 0
          OBVIOUS
        <5> QED
          BY <3>3, <4>1, <4>2, <5>1
      <4>3. CASE stops # {}
        <5> DEFINE m == First(stops) - 1
        <5>1. stops \in SUBSET Nat
          OBVIOUS
        <5>2. First(stops) \in stops
          <6> HIDE DEF stops
          <6> QED
            BY <4>3, <5>1, FirstIs
        <5>3. First(stops) \in 1..Len(v) /\ First(stops) # 1
          <6>1. \A k \in stops : k \in 1..Len(v) /\ k # 1
            BY <3>4
          <6> QED
            BY <5>2, <6>1
        <5>4. 1 \in 1..Len(v) /\ m \in 1..Len(v)
          <6> HIDE DEF stops
          <6> QED
            BY <4>1, <5>3
        <5> HIDE DEF m, stops
        <5>5. Len(SubSeq(v, 1, m)) = m - 1 + 1 /\ 1 \in 1..(m - 1 + 1) /\ 1 + 1 - 1 = 1
          BY <3>2, <5>4, PartIs
        <5>6. SubSeq(v, 1, m)[1] = v[1 + 1 - 1]
          BY <3>2, <5>4, <5>5, PartIs
        <5>7. SubSeq(v, 1, m) # <<>>
          <6>1. Len(<<>>) = 0
            OBVIOUS
          <6> QED
            BY <5>4, <5>5, <6>1
        <5>8. raw = SubSeq(v, 1, m)
          BY <4>3 DEF m
        <5>9. SubSeq(v, 1, m)[1] = token
          BY <3>3, <5>5, <5>6
        <5> HIDE DEF raw
        <5> QED
          BY <5>7, <5>8, <5>9
      <4> QED
        BY <4>2, <4>3
    <3> HIDE DEF raw, v
    <3>8. rawField(b, name) = Found(raw)
      BY <2>1, <2>4, <3>5, <3>6 DEF v
    <3> QED
      BY <3>7, <3>8 DEF Found
  <2> QED
    BY <2>2, <2>3, <2>4
<1> QED
  BY <1>1, <1>2

\* A last transaction that is an object is found to its closing brace, and its
\* members are found as the client wrote them.
LEMMA LastObjectIs ==
  ASSUME NEW T, NEW b \in Seq(T), NEW name, NEW key, NEW token, token.kind # "punct",
         WritesObject(b, name), WritesMember(b, name, key, token)
  PROVE  LET last == rawField(b, name)
             lastObj == objectFromValue(last.raw)
             field == rawField(lastObj.raw, key)
         IN  \/ last = NotFound /\ \A keys : ~Has(b, name, keys)
             \/ /\ last.ok /\ last.raw[1] = OpenBrace /\ lastObj.ok
                /\ field \in {NotFound, Found(<<token>>)}
                /\ \A keys : key \in keys /\ Has(b, name, keys) => field = Found(<<token>>)
<1>1. CASE rawField(b, name) = NotFound /\ \A keys : ~Has(b, name, keys)
  BY <1>1
<1>2. CASE \E i \in Names(b, name), j \in 1..Len(b) :
             /\ i + 2 \in 1..j /\ IsObject(b, i + 2, j)
             /\ rawField(b, name) = Found(SubSeq(b, i + 2, j))
             /\ objectFromValue(SubSeq(b, i + 2, j)) = Found(SubSeq(b, i + 2, j))
  <2>1. PICK i \in Names(b, name), j \in 1..Len(b) :
          /\ i + 2 \in 1..j /\ IsObject(b, i + 2, j)
          /\ rawField(b, name) = Found(SubSeq(b, i + 2, j))
          /\ objectFromValue(SubSeq(b, i + 2, j)) = Found(SubSeq(b, i + 2, j))
    BY <1>2
  <2> DEFINE o == SubSeq(b, i + 2, j)
  <2>2. o[1] = OpenBrace
    <3>1. i + 2 \in 1..Len(b) /\ j \in (i + 2)..Len(b) /\ 1 \in 1..(j - (i + 2) + 1)
          /\ (i + 2) + 1 - 1 = i + 2
      BY <2>1 DEF Names
    <3>2. o[1] = b[(i + 2) + 1 - 1]
      BY <3>1, PartIs
    <3> QED
      BY <2>1, <3>1, <3>2 DEF IsObject
  <2>3. \/ rawField(o, key) = NotFound /\ \A k \in (i + 3)..j : b[k] # Str(key)
        \/ rawField(o, key) = Found(<<token>>)
    BY <2>1, MemberIs
  <2>4. ASSUME NEW keys, key \in keys, Has(b, name, keys)
        PROVE  \E k \in (i + 3)..j : b[k] = Str(key)
    BY <2>1, <2>4, HasIs
  <2>5. rawField(b, name) = Found(o) /\ objectFromValue(o) = Found(o)
    BY <2>1
  <2>6. Found(o).ok /\ Found(o).raw = o
    BY DEF Found
  <2> HIDE DEF o
  <2>7. /\ rawField(b, name).ok /\ rawField(b, name).raw = o /\ o[1] = OpenBrace
        /\ objectFromValue(o).ok /\ objectFromValue(o).raw = o
    BY <2>2, <2>5, <2>6
  <2>8. /\ rawField(o, key) \in {NotFound, Found(<<token>>)}
        /\ \A keys : key \in keys /\ Has(b, name, keys) => rawField(o, key) = Found(<<token>>)
    BY <2>3, <2>4
  <2> QED
    BY <2>7, <2>8
<1> QED
  BY <1>1, <1>2, ObjectIs

\* A field of one token is read where its kind is asked for; a number, a string,
\* a time and a bool are what their token says.
LEMMA FieldKinds ==
  /\ ~IsNumber(NotFound) /\ ~IsString(NotFound) /\ ~IsBool(NotFound) /\ ~IsTime(NotFound)
  /\ \A n : IsNumber(Found(<<Num(n)>>)) /\ Found(<<Num(n)>>).raw[1].n = n
  /\ \A n : IsTime(Found(<<Time(n)>>)) /\ Found(<<Time(n)>>).raw[1].n = n
  /\ \A s : /\ IsString(Found(<<Str(s)>>))
            /\ Found(<<Str(s)>>).raw[1] = Str(s) /\ Found(<<Str(s)>>).raw[1].s = s
  /\ \A v \in BOOLEAN : /\ IsBool(Found(<<Bool(v)>>))
                        /\ (Found(<<Bool(v)>>).raw[1].s = "true") <=> v
<1>1. ~NotFound.ok
  BY DEF NotFound
<1>2. \A t : Found(<<t>>).ok /\ Len(Found(<<t>>).raw) = 1 /\ Found(<<t>>).raw[1] = t
  BY DEF Found
<1>3. \A t, kind : t.kind = kind => IsA(Found(<<t>>), kind)
  BY <1>2 DEF IsA
<1>4. ~IsNumber(NotFound) /\ ~IsString(NotFound) /\ ~IsBool(NotFound) /\ ~IsTime(NotFound)
  BY <1>1 DEF IsNumber, IsString, IsBool, IsTime, IsA
<1>5. \A n : IsNumber(Found(<<Num(n)>>)) /\ Found(<<Num(n)>>).raw[1].n = n
  BY <1>2, <1>3, Kinds DEF IsNumber
<1>6. \A s : /\ IsString(Found(<<Str(s)>>))
             /\ Found(<<Str(s)>>).raw[1] = Str(s) /\ Found(<<Str(s)>>).raw[1].s = s
  BY <1>2, <1>3, Kinds DEF IsString
<1>7. \A n : IsTime(Found(<<Time(n)>>)) /\ Found(<<Time(n)>>).raw[1].n = n
  BY <1>2, <1>3, Kinds DEF IsTime, IsString
<1>8. \A v \in BOOLEAN : /\ IsBool(Found(<<Bool(v)>>))
                         /\ (Found(<<Bool(v)>>).raw[1].s = "true") <=> v
  <2> TAKE v \in BOOLEAN
  <2>1. Bool(v).kind = "literal" /\ Bool(v).s \in {"true", "false"} /\ (Bool(v).s = "true" <=> v)
    BY Kinds
  <2>2. IsA(Found(<<Bool(v)>>), "literal") /\ Found(<<Bool(v)>>).raw[1] = Bool(v)
    BY <1>2, <1>3, <2>1
  <2>3. IsBool(Found(<<Bool(v)>>))
    BY <2>1, <2>2 DEF IsBool
  <2> QED
    BY <2>1, <2>2, <2>3
<1> QED
  BY <1>4, <1>5, <1>6, <1>7, <1>8

\* What the scanner makes of each field of a request, and that it finds all of
\* them in one that is whole.
LEMMA Fields ==
  ASSUME NEW r \in Requests
  PROVE  LET b == r.body
             p == r.payload
             Is(obj, key, token) ==
               /\ InObject(b, obj, key) \in {NotFound, Found(<<token>>)}
               /\ r.whole => InObject(b, obj, key) = Found(<<token>>)
         IN  /\ Is("transaction", "amount", Num(p.amount))
             /\ Is("transaction", "installments", Num(p.installments))
             /\ Is("transaction", "requested_at", Time(p.requested_at))
             /\ Is("customer", "avg_amount", Num(p.avg_amount))
             /\ Is("customer", "tx_count_24h", Num(p.tx_count_24h))
             /\ Is("merchant", "id", Str(p.id))
             /\ Is("merchant", "mcc", Str(p.mcc))
             /\ Is("merchant", "avg_amount", Num(p.merchant_avg))
             /\ Is("terminal", "is_online", Bool(p.is_online))
             /\ Is("terminal", "card_present", Bool(p.card_present))
             /\ Is("terminal", "km_from_home", Num(p.km_from_home))
<1> DEFINE b == r.body
           p == r.payload
           Is(obj, key, token) ==
             /\ InObject(b, obj, key) \in {NotFound, Found(<<token>>)}
             /\ r.whole => InObject(b, obj, key) = Found(<<token>>)
<1>1. IsPayload(p) /\ b \in Seq(Tokens) /\ Writes(b, p) /\ (r.whole => Complete(b, p))
  BY RequestsAssumption
<1> HIDE DEF b, p
<1>2. ASSUME NEW name, NEW key, NEW token, token.kind # "punct",
             WritesObject(b, name), WritesMember(b, name, key, token),
             NEW keys, key \in keys, r.whole => Has(b, name, keys)
      PROVE  Is(name, key, token)
  <2>1. b \in Seq(Tokens)
    BY <1>1
  <2>2. InObject(b, name, key) \in {NotFound, Found(<<token>>)}
    BY <1>2, <2>1, FieldIs
  <2>3. Has(b, name, keys) => InObject(b, name, key) = Found(<<token>>)
    BY <1>2, <2>1, FieldIs
  <2> QED
    BY <1>2, <2>2, <2>3
<1>3. /\ WritesObject(b, "transaction") /\ WritesObject(b, "customer")
      /\ WritesObject(b, "merchant") /\ WritesObject(b, "terminal")
  BY <1>1 DEF Writes
<1>4. \A n, s : Num(n).kind # "punct" /\ Time(n).kind # "punct" /\ Str(s).kind # "punct"
  BY Kinds
<1>5. \A v \in BOOLEAN : Bool(v).kind # "punct"
  BY Kinds
<1>6. p.is_online \in BOOLEAN /\ p.card_present \in BOOLEAN
  BY <1>1 DEF IsPayload
<1> HIDE DEF Is
<1>7. /\ Is("transaction", "amount", Num(p.amount))
      /\ Is("transaction", "installments", Num(p.installments))
      /\ Is("transaction", "requested_at", Time(p.requested_at))
  <2> DEFINE keys == {"amount", "installments", "requested_at"}
  <2>1. r.whole => Has(b, "transaction", keys)
    BY <1>1 DEF Complete
  <2>2. /\ WritesMember(b, "transaction", "amount", Num(p.amount))
        /\ WritesMember(b, "transaction", "installments", Num(p.installments))
        /\ WritesMember(b, "transaction", "requested_at", Time(p.requested_at))
    BY <1>1 DEF Writes
  <2>3. "amount" \in keys /\ "installments" \in keys /\ "requested_at" \in keys
    OBVIOUS
  <2> HIDE DEF keys
  <2> QED
    BY <1>2, <1>3, <1>4, <2>1, <2>2, <2>3
<1>8. /\ Is("customer", "avg_amount", Num(p.avg_amount))
      /\ Is("customer", "tx_count_24h", Num(p.tx_count_24h))
  <2> DEFINE keys == {"avg_amount", "tx_count_24h", "known_merchants"}
  <2>1. r.whole => Has(b, "customer", keys)
    BY <1>1 DEF Complete
  <2>2. /\ WritesMember(b, "customer", "avg_amount", Num(p.avg_amount))
        /\ WritesMember(b, "customer", "tx_count_24h", Num(p.tx_count_24h))
    BY <1>1 DEF Writes
  <2>3. "avg_amount" \in keys /\ "tx_count_24h" \in keys
    OBVIOUS
  <2> HIDE DEF keys
  <2> QED
    BY <1>2, <1>3, <1>4, <2>1, <2>2, <2>3
<1>9. /\ Is("merchant", "id", Str(p.id))
      /\ Is("merchant", "mcc", Str(p.mcc))
      /\ Is("merchant", "avg_amount", Num(p.merchant_avg))
  <2> DEFINE keys == {"id", "mcc", "avg_amount"}
  <2>1. r.whole => Has(b, "merchant", keys)
    BY <1>1 DEF Complete
  <2>2. /\ WritesMember(b, "merchant", "id", Str(p.id))
        /\ WritesMember(b, "merchant", "mcc", Str(p.mcc))
        /\ WritesMember(b, "merchant", "avg_amount", Num(p.merchant_avg))
    BY <1>1 DEF Writes
  <2>3. "id" \in keys /\ "mcc" \in keys /\ "avg_amount" \in keys
    OBVIOUS
  <2> HIDE DEF keys
  <2> QED
    BY <1>2, <1>3, <1>4, <2>1, <2>2, <2>3
<1>10. /\ Is("terminal", "is_online", Bool(p.is_online))
       /\ Is("terminal", "card_present", Bool(p.card_present))
       /\ Is("terminal", "km_from_home", Num(p.km_from_home))
  <2> DEFINE keys == {"is_online", "card_present", "km_from_home"}
  <2>1. r.whole => Has(b, "terminal", keys)
    BY <1>1 DEF Complete
  <2>2. /\ WritesMember(b, "terminal", "is_online", Bool(p.is_online))
        /\ WritesMember(b, "terminal", "card_present", Bool(p.card_present))
        /\ WritesMember(b, "terminal", "km_from_home", Num(p.km_from_home))
    BY <1>1 DEF Writes
  <2>3. "is_online" \in keys /\ "card_present" \in keys /\ "km_from_home" \in keys
    OBVIOUS
  <2> HIDE DEF keys
  <2> QED
    BY <1>2, <1>3, <1>4, <1>5, <1>6, <2>1, <2>2, <2>3
<1> QED
  BY <1>7, <1>8, <1>9, <1>10, Zenon DEF Is, b, p

\* And of the known merchants.
LEMMA MerchantsField ==
  ASSUME NEW r \in Requests
  PROVE  LET known == InObject(r.body, "customer", "known_merchants")
         IN  /\ known.ok => (containsQuoted(known.raw, Str(r.payload.id)) <=>
                               \E n \in DOMAIN r.payload.known_merchants :
                                 r.payload.known_merchants[n] = r.payload.id)
             /\ r.whole => known.ok
<1> DEFINE b == r.body
           p == r.payload
           known == InObject(b, "customer", "known_merchants")
           keys == {"avg_amount", "tx_count_24h", "known_merchants"}
           Ok(raw) == \A id : containsQuoted(raw, Str(id)) <=>
                               \E n \in DOMAIN p.known_merchants : p.known_merchants[n] = id
<1>1. b \in Seq(Tokens) /\ Writes(b, p) /\ (r.whole => Complete(b, p))
  BY RequestsAssumption
<1>2. WritesObject(b, "customer") /\ WritesMerchants(b, p.known_merchants)
  BY <1>1 DEF Writes
<1>3. r.whole => Has(b, "customer", keys)
  BY <1>1 DEF Complete
<1>4. "known_merchants" \in keys
  OBVIOUS
<1> HIDE DEF keys
<1>5. /\ known = NotFound \/ \E raw : known = Found(raw) /\ Ok(raw)
      /\ Has(b, "customer", keys) => known # NotFound
  <2> HIDE DEF b, p
  <2>1. b \in Seq(Tokens)
    BY <1>1
  <2>2. /\ known = NotFound \/ \E raw : known = Found(raw) /\ Ok(raw)
        /\ \A x : "known_merchants" \in x /\ Has(b, "customer", x) => known # NotFound
    BY <1>2, <2>1, MerchantsFieldIs, Zenon
  <2> QED
    BY <1>4, <2>2
<1>6. ~NotFound.ok /\ \A raw : Found(raw).ok /\ Found(raw).raw = raw
  BY DEF NotFound, Found
<1> HIDE DEF known, Ok
<1>7. (known.ok => Ok(known.raw)) /\ (r.whole => known.ok)
  BY <1>3, <1>5, <1>6
<1> QED
  BY <1>7 DEF known, Ok

\* And of the last transaction.
LEMMA LastField ==
  ASSUME NEW r \in Requests
  PROVE  LET p == r.payload
             last == rawField(r.body, "last_transaction")
             null == last.raw # <<>> /\ last.raw[1] = Lit("null")
             lastObj == objectFromValue(last.raw)
             timestamp == rawField(lastObj.raw, "timestamp")
             km == rawField(lastObj.raw, "km_from_current")
         IN  /\ r.whole => last.ok
             /\ last.ok => (null <=> p.last = <<>>)
             /\ last.ok /\ ~null =>
                  /\ lastObj.ok
                  /\ timestamp \in {NotFound, Found(<<Time(p.last[1])>>)}
                  /\ km \in {NotFound, Found(<<Num(p.last[2])>>)}
                  /\ r.whole => /\ timestamp = Found(<<Time(p.last[1])>>)
                                /\ km = Found(<<Num(p.last[2])>>)
<1> DEFINE b == r.body
           p == r.payload
           last == rawField(b, "last_transaction")
           null == last.raw # <<>> /\ last.raw[1] = Lit("null")
           lastObj == objectFromValue(last.raw)
           timestamp == rawField(lastObj.raw, "timestamp")
           km == rawField(lastObj.raw, "km_from_current")
           keys == {"timestamp", "km_from_current"}
<1>1. b \in Seq(Tokens) /\ Writes(b, p) /\ (r.whole => Complete(b, p))
  BY RequestsAssumption
<1>2. ~NotFound.ok
  BY DEF NotFound
<1>3. CASE p.last = <<>>
  <2>1. ThenComes(b, "last_transaction", Lit("null"))
    BY <1>1, <1>3 DEF Writes
  <2>2. r.whole => /\ Names(b, "last_transaction") # {}
                   /\ \A i \in Names(b, "last_transaction") : i + 2 <= Len(b)
    BY <1>1, <1>3 DEF Complete
  <2>3. Lit("null").kind = "literal"
    BY Kinds
  <2>4. /\ last = NotFound \/ (last.ok /\ last.raw # <<>> /\ last.raw[1] = Lit("null"))
        /\ /\ Names(b, "last_transaction") # {}
           /\ \A i \in Names(b, "last_transaction") : i + 2 <= Len(b)
           => last.ok
    BY <1>1, <2>1, <2>3, NullIs
  <2>5. (last.ok => null) /\ (r.whole => last.ok)
    BY <1>2, <2>2, <2>4
  <2> HIDE DEF last, lastObj, timestamp, km, null
  <2> QED
    BY <1>3, <2>5 DEF last, lastObj, timestamp, km, null
<1>4. CASE p.last # <<>>
  <2>1. WritesObject(b, "last_transaction")
    BY <1>1, <1>4 DEF Writes
  <2>2. /\ WritesMember(b, "last_transaction", "timestamp", Time(p.last[1]))
        /\ WritesMember(b, "last_transaction", "km_from_current", Num(p.last[2]))
    BY <1>1, <1>4 DEF Writes
  <2>3. r.whole => Has(b, "last_transaction", keys)
    BY <1>1, <1>4 DEF Complete
  <2>4. "timestamp" \in keys /\ "km_from_current" \in keys
    OBVIOUS
  <2>5. Time(p.last[1]).kind # "punct" /\ Num(p.last[2]).kind # "punct"
    BY Kinds
  <2> HIDE DEF keys
  <2>6. \/ last = NotFound /\ ~Has(b, "last_transaction", keys)
        \/ /\ last.ok /\ last.raw[1] = OpenBrace /\ lastObj.ok
           /\ timestamp \in {NotFound, Found(<<Time(p.last[1])>>)}
           /\ Has(b, "last_transaction", keys) => timestamp = Found(<<Time(p.last[1])>>)
    BY <1>1, <2>1, <2>2, <2>4, <2>5, LastObjectIs
  <2>7. \/ last = NotFound /\ ~Has(b, "last_transaction", keys)
        \/ /\ last.ok /\ last.raw[1] = OpenBrace /\ lastObj.ok
           /\ km \in {NotFound, Found(<<Num(p.last[2])>>)}
           /\ Has(b, "last_transaction", keys) => km = Found(<<Num(p.last[2])>>)
    BY <1>1, <2>1, <2>2, <2>4, <2>5, LastObjectIs
  <2>8. OpenBrace # Lit("null")
    BY Kinds
  <2>9. last.ok => ~null
    BY <1>2, <2>6, <2>8
  <2> HIDE DEF last, lastObj, timestamp, km, null
  <2>10. /\ r.whole => last.ok
         /\ last.ok => ~null
         /\ last.ok /\ ~null =>
              /\ lastObj.ok
              /\ timestamp \in {NotFound, Found(<<Time(p.last[1])>>)}
              /\ km \in {NotFound, Found(<<Num(p.last[2])>>)}
              /\ r.whole => /\ timestamp = Found(<<Time(p.last[1])>>)
                            /\ km = Found(<<Num(p.last[2])>>)
    BY <1>2, <2>3, <2>6, <2>7, <2>9
  <2> QED
    BY <1>4, <2>10 DEF last, lastObj, timestamp, km, null
<1> QED
  BY <1>3, <1>4

\* VectorizeJSON, as far as its fields go, returns what Vectorize computes, and
\* refuses no whole request.
LEMMA ReadsWhatIsMeant ==
  ASSUME NEW r \in Requests
  PROVE  /\ VectorizeJSON(r.body).ok => VectorizeJSON(r.body).out = Vectorize(r.payload)
         /\ r.whole => VectorizeJSON(r.body).ok
<1> DEFINE b == r.body
           p == r.payload
           amount == InObject(b, "transaction", "amount")
           installments == InObject(b, "transaction", "installments")
           requestedAt == InObject(b, "transaction", "requested_at")
           avgAmount == InObject(b, "customer", "avg_amount")
           txCount24h == InObject(b, "customer", "tx_count_24h")
           knownMerchants == InObject(b, "customer", "known_merchants")
           merchantID == InObject(b, "merchant", "id")
           mcc == InObject(b, "merchant", "mcc")
           merchantAvg == InObject(b, "merchant", "avg_amount")
           isOnline == InObject(b, "terminal", "is_online")
           cardPresent == InObject(b, "terminal", "card_present")
           kmFromHome == InObject(b, "terminal", "km_from_home")
           last == rawField(b, "last_transaction")
           null == last.raw # <<>> /\ last.raw[1] = Lit("null")
           lastObj == objectFromValue(last.raw)
           timestamp == rawField(lastObj.raw, "timestamp")
           km == rawField(lastObj.raw, "km_from_current")
           val(field) == field.raw[1].n
           yes(field) == field.raw[1].s = "true"
           Is(field, token) == /\ field \in {NotFound, Found(<<token>>)}
                               /\ r.whole => field = Found(<<token>>)
           Read == /\ \A f \in {amount, installments, avgAmount, txCount24h, merchantAvg, kmFromHome} :
                        IsNumber(f)
                   /\ IsTime(requestedAt) /\ IsString(merchantID) /\ IsString(mcc)
                   /\ IsBool(isOnline) /\ IsBool(cardPresent) /\ knownMerchants.ok
                   /\ last.ok /\ (null \/ (lastObj.ok /\ IsTime(timestamp) /\ IsNumber(km)))
           out == Vector(<<
             clamp(<<val(amount), norm.max_amount>>),
             clamp(<<val(installments), norm.max_installments>>),
             clamp(<<val(amount), val(avgAmount) * norm.amount_vs_avg_ratio>>),
             <<Hour(val(requestedAt)), 23>>,
             <<weekdayMonZero(val(requestedAt)), 6>>,
             IF null THEN Minus
             ELSE clamp(<<val(requestedAt) - val(timestamp), norm.max_minutes>>),
             IF null THEN Minus ELSE clamp(<<val(km), norm.max_km>>),
             clamp(<<val(kmFromHome), norm.max_km>>),
             clamp(<<val(txCount24h), norm.max_tx_count_24h>>),
             boolToFloat(yes(isOnline)),
             boolToFloat(yes(cardPresent)),
             boolToFloat(~containsQuoted(knownMerchants.raw, merchantID.raw[1])),
             mccRiskFast(mcc.raw[1].s),
             clamp(<<val(merchantAvg), norm.max_merchant_avg_amount>>)>>)
<1>1. VectorizeJSON(b) = IF Read THEN [ok |-> TRUE, out |-> out] ELSE BadPayload
  BY Zenon DEF VectorizeJSON
<1>2. /\ Is(amount, Num(p.amount))
      /\ Is(installments, Num(p.installments))
      /\ Is(requestedAt, Time(p.requested_at))
      /\ Is(avgAmount, Num(p.avg_amount))
      /\ Is(txCount24h, Num(p.tx_count_24h))
      /\ Is(merchantID, Str(p.id))
      /\ Is(mcc, Str(p.mcc))
      /\ Is(merchantAvg, Num(p.merchant_avg))
      /\ Is(isOnline, Bool(p.is_online))
      /\ Is(cardPresent, Bool(p.card_present))
      /\ Is(kmFromHome, Num(p.km_from_home))
  BY Fields, Zenon
<1>3. /\ knownMerchants.ok => (containsQuoted(knownMerchants.raw, Str(p.id)) <=>
                                 \E n \in DOMAIN p.known_merchants : p.known_merchants[n] = p.id)
      /\ r.whole => knownMerchants.ok
  BY MerchantsField, Zenon
<1>4. /\ r.whole => last.ok
      /\ last.ok => (null <=> p.last = <<>>)
      /\ last.ok /\ ~null =>
           /\ lastObj.ok
           /\ timestamp \in {NotFound, Found(<<Time(p.last[1])>>)}
           /\ km \in {NotFound, Found(<<Num(p.last[2])>>)}
           /\ r.whole => /\ timestamp = Found(<<Time(p.last[1])>>)
                         /\ km = Found(<<Num(p.last[2])>>)
  BY LastField, Zenon
<1>5. p.is_online \in BOOLEAN /\ p.card_present \in BOOLEAN
  BY RequestsAssumption DEF IsPayload
<1> HIDE DEF b, p, amount, installments, requestedAt, avgAmount, txCount24h, knownMerchants,
             merchantID, mcc, merchantAvg, isOnline, cardPresent, kmFromHome, last, null, lastObj,
             timestamp, km
<1>6. \A f, n : Is(f, Num(n)) => (IsNumber(f) => val(f) = n) /\ (r.whole => IsNumber(f))
  BY FieldKinds
<1>7. \A f, n : Is(f, Time(n)) => (IsTime(f) => val(f) = n) /\ (r.whole => IsTime(f))
  BY FieldKinds
<1>8. \A f, s : Is(f, Str(s)) => /\ IsString(f) => f.raw[1] = Str(s) /\ f.raw[1].s = s
                                 /\ r.whole => IsString(f)
  BY FieldKinds
<1>9. \A f : \A v \in BOOLEAN :
        Is(f, Bool(v)) => (IsBool(f) => (yes(f) <=> v)) /\ (r.whole => IsBool(f))
  BY FieldKinds
<1>10. last.ok /\ ~null => /\ IsTime(timestamp) => val(timestamp) = p.last[1]
                           /\ IsNumber(km) => val(km) = p.last[2]
                           /\ r.whole => IsTime(timestamp) /\ IsNumber(km)
  BY <1>4, FieldKinds
<1> HIDE DEF val, yes, Is, out
<1>11. ASSUME r.whole
       PROVE  Read
  BY <1>2, <1>3, <1>4, <1>5, <1>6, <1>7, <1>8, <1>9, <1>10, <1>11
<1>12. ASSUME Read
       PROVE  out = Vectorize(p)
  <2>1. /\ val(amount) = p.amount /\ val(installments) = p.installments
        /\ val(avgAmount) = p.avg_amount /\ val(txCount24h) = p.tx_count_24h
        /\ val(merchantAvg) = p.merchant_avg /\ val(kmFromHome) = p.km_from_home
    BY <1>2, <1>6, <1>12
  <2>2. val(requestedAt) = p.requested_at
    BY <1>2, <1>7, <1>12
  <2>3. merchantID.raw[1] = Str(p.id) /\ mcc.raw[1].s = p.mcc
    BY <1>2, <1>8, <1>12
  <2>4. (yes(isOnline) <=> p.is_online) /\ (yes(cardPresent) <=> p.card_present)
    BY <1>2, <1>5, <1>9, <1>12
  <2>5. null <=> p.last = <<>>
    BY <1>4, <1>12
  <2>6. ~null => val(timestamp) = p.last[1] /\ val(km) = p.last[2]
    BY <1>10, <1>12
  <2>7. mccRiskFast(mcc.raw[1].s) = mccRisk(p.mcc)
    BY <2>3, OneTableOfRisks
  <2>8. boolToFloat(~containsQuoted(knownMerchants.raw, merchantID.raw[1]))
        = boolToFloat(\A i \in DOMAIN p.known_merchants : p.known_merchants[i] # p.id)
    <3>1. ~containsQuoted(knownMerchants.raw, merchantID.raw[1])
          <=> \A i \in DOMAIN p.known_merchants : p.known_merchants[i] # p.id
      BY <1>3, <1>12, <2>3
    <3> QED
      BY <3>1 DEF boolToFloat
  <2>9. /\ boolToFloat(yes(isOnline)) = boolToFloat(p.is_online)
        /\ boolToFloat(yes(cardPresent)) = boolToFloat(p.card_present)
    BY <2>4 DEF boolToFloat
  <2>10. (IF null THEN Minus ELSE clamp(<<val(requestedAt) - val(timestamp), norm.max_minutes>>))
         = IF p.last # <<>> THEN clamp(<<p.requested_at - p.last[1], norm.max_minutes>>) ELSE Minus
    BY <2>2, <2>5, <2>6
  <2>11. (IF null THEN Minus ELSE clamp(<<val(km), norm.max_km>>))
         = IF p.last # <<>> THEN clamp(<<p.last[2], norm.max_km>>) ELSE Minus
    BY <2>5, <2>6
  <2>12. /\ clamp(<<val(amount), norm.max_amount>>) = clamp(<<p.amount, norm.max_amount>>)
         /\ clamp(<<val(installments), norm.max_installments>>)
            = clamp(<<p.installments, norm.max_installments>>)
         /\ clamp(<<val(amount), val(avgAmount) * norm.amount_vs_avg_ratio>>)
            = clamp(<<p.amount, p.avg_amount * norm.amount_vs_avg_ratio>>)
         /\ clamp(<<val(kmFromHome), norm.max_km>>) = clamp(<<p.km_from_home, norm.max_km>>)
         /\ clamp(<<val(txCount24h), norm.max_tx_count_24h>>)
            = clamp(<<p.tx_count_24h, norm.max_tx_count_24h>>)
         /\ clamp(<<val(merchantAvg), norm.max_merchant_avg_amount>>)
            = clamp(<<p.merchant_avg, norm.max_merchant_avg_amount>>)
    BY <2>1
  <2>13. /\ <<Hour(val(requestedAt)), 23>> = <<Hour(p.requested_at), 23>>
         /\ <<weekdayMonZero(val(requestedAt)), 6>> = <<weekdayMonZero(p.requested_at), 6>>
    BY <2>2
  <2> QED
    BY <2>7, <2>8, <2>9, <2>10, <2>11, <2>12, <2>13, ZenonT(60) DEF out, Vectorize
<1> HIDE DEF Read
<1>13. /\ Read => VectorizeJSON(b).ok /\ VectorizeJSON(b).out = out
       /\ ~Read => ~VectorizeJSON(b).ok
  BY <1>1 DEF BadPayload
<1> QED
  BY <1>11, <1>12, <1>13 DEF b, p

\* A quotient that is not 0/0 is clamped into [0, 1].
LEMMA Clamped ==
  ASSUME NEW n \in Int, NEW d \in Nat
  PROVE  /\ d > 0 => InRange(clamp(<<n, d>>))
         /\ n > 0 => InRange(clamp(<<n, d>>))
  BY DEF clamp, InRange, Zero, Unit

LEMMA RisksInRange ==
  ASSUME NEW mcc
  PROVE  InRange(mccRisk(mcc))
<1> DEFINE entry == {e \in mcc_risk : e[1] = mcc}
           risk == IF entry = {} THEN defaultMCCRisk ELSE (CHOOSE e \in entry : TRUE)[2]
<1>1. \A e \in mcc_risk : e[2] \in 0..100
  BY DEF mcc_risk
<1>2. risk \in 0..100
  <2>1. CASE entry = {}
    BY <2>1 DEF defaultMCCRisk
  <2>2. CASE entry # {}
    <3>1. (CHOOSE e \in entry : TRUE) \in entry
      BY <2>2
    <3> QED
      BY <1>1, <2>2, <3>1
  <2> QED
    BY <2>1, <2>2
<1>3. mccRisk(mcc) = <<risk, 100>>
  BY Zenon DEF mccRisk
<1> HIDE DEF risk
<1> QED
  BY <1>2, <1>3 DEF InRange

LEMMA Components ==
  ASSUME NEW seq, NEW i \in 0..13
  PROVE  Vector(seq)[i] = seq[i + 1]
  BY DEF Vector

\* Where the components of a payload lie.
LEMMA Ranges ==
  ASSUME NEW p, IsPayload(p), NEW i \in 0..13
  PROVE  \/ InRange(Vectorize(p)[i]) /\ ~(i \in {5, 6} /\ p.last = <<>>)
         \/ i \in {5, 6} /\ p.last = <<>> /\ Vectorize(p)[i] = Minus
         \/ i = 2 /\ p.amount = 0 /\ p.avg_amount = 0
<1> DEFINE v == Vectorize(p)
           since == IF p.last # <<>> THEN clamp(<<p.requested_at - p.last[1], norm.max_minutes>>)
                    ELSE Minus
           far == IF p.last # <<>> THEN clamp(<<p.last[2], norm.max_km>>) ELSE Minus
           unknown == boolToFloat(\A k \in DOMAIN p.known_merchants : p.known_merchants[k] # p.id)
<1>1. /\ v[0] = clamp(<<p.amount, norm.max_amount>>)
      /\ v[1] = clamp(<<p.installments, norm.max_installments>>)
      /\ v[2] = clamp(<<p.amount, p.avg_amount * norm.amount_vs_avg_ratio>>)
      /\ v[3] = <<Hour(p.requested_at), 23>>
      /\ v[4] = <<weekdayMonZero(p.requested_at), 6>>
      /\ v[5] = since /\ v[6] = far
      /\ v[7] = clamp(<<p.km_from_home, norm.max_km>>)
      /\ v[8] = clamp(<<p.tx_count_24h, norm.max_tx_count_24h>>)
      /\ v[9] = boolToFloat(p.is_online)
      /\ v[10] = boolToFloat(p.card_present)
      /\ v[11] = unknown
      /\ v[12] = mccRisk(p.mcc)
      /\ v[13] = clamp(<<p.merchant_avg, norm.max_merchant_avg_amount>>)
  <2> DEFINE seq == <<
        clamp(<<p.amount, norm.max_amount>>),
        clamp(<<p.installments, norm.max_installments>>),
        clamp(<<p.amount, p.avg_amount * norm.amount_vs_avg_ratio>>),
        <<Hour(p.requested_at), 23>>,
        <<weekdayMonZero(p.requested_at), 6>>,
        since,
        far,
        clamp(<<p.km_from_home, norm.max_km>>),
        clamp(<<p.tx_count_24h, norm.max_tx_count_24h>>),
        boolToFloat(p.is_online),
        boolToFloat(p.card_present),
        unknown,
        mccRisk(p.mcc),
        clamp(<<p.merchant_avg, norm.max_merchant_avg_amount>>)>>
  <2>1. v = Vector(seq)
    BY Zenon DEF Vectorize
  <2> HIDE DEF v, since, far, unknown
  <2>2. \A s : /\ Vector(s)[0] = s[1] /\ Vector(s)[1] = s[2] /\ Vector(s)[2] = s[3]
               /\ Vector(s)[3] = s[4] /\ Vector(s)[4] = s[5] /\ Vector(s)[5] = s[6]
               /\ Vector(s)[6] = s[7] /\ Vector(s)[7] = s[8] /\ Vector(s)[8] = s[9]
               /\ Vector(s)[9] = s[10] /\ Vector(s)[10] = s[11] /\ Vector(s)[11] = s[12]
               /\ Vector(s)[12] = s[13] /\ Vector(s)[13] = s[14]
    BY Components
  <2> QED
    BY <2>1, <2>2
<1>2. /\ norm.max_amount = 10000 /\ norm.max_installments = 12 /\ norm.amount_vs_avg_ratio = 10
      /\ norm.max_minutes = 1440 /\ norm.max_km = 1000 /\ norm.max_tx_count_24h = 20
      /\ norm.max_merchant_avg_amount = 10000
  BY DEF norm
<1>3. /\ p.amount \in Nat /\ p.installments \in Nat /\ p.requested_at \in Nat
      /\ p.avg_amount \in Nat /\ p.tx_count_24h \in Nat /\ p.merchant_avg \in Nat
      /\ p.km_from_home \in Nat
  BY DEF IsPayload
<1>4. p.last # <<>> => p.last[1] \in Nat /\ p.last[2] \in Nat
  BY DEF IsPayload
<1>5. \A n \in Int, d \in Nat : (d > 0 \/ n > 0) => InRange(clamp(<<n, d>>))
  BY Clamped
<1>6. InRange(v[0]) /\ InRange(v[1]) /\ InRange(v[7]) /\ InRange(v[8]) /\ InRange(v[13])
  <2> HIDE DEF v, since, far, unknown
  <2> QED
    BY <1>1, <1>2, <1>3, <1>5
<1>7. InRange(v[2]) \/ (p.amount = 0 /\ p.avg_amount = 0)
  <2> HIDE DEF v, since, far, unknown
  <2>1. v[2] = clamp(<<p.amount, p.avg_amount * 10>>)
    BY <1>1, <1>2
  <2>2. p.avg_amount * 10 \in Nat /\ (p.avg_amount # 0 => p.avg_amount * 10 > 0)
        /\ (p.amount # 0 => p.amount > 0)
    BY <1>3
  <2> QED
    BY <1>3, <1>5, <2>1, <2>2
<1>8. InRange(v[3]) /\ InRange(v[4])
  <2>1. \A t \in Nat : Hour(t) \in 0..23 /\ weekdayMonZero(t) \in 0..6
    BY DEF Hour, Weekday, weekdayMonZero
  <2>2. (\A x \in 0..23 : InRange(<<x, 23>>)) /\ (\A x \in 0..6 : InRange(<<x, 6>>))
    BY DEF InRange
  <2> HIDE DEF v, since, far, unknown
  <2> QED
    BY <1>1, <1>3, <2>1, <2>2
<1>9. /\ p.last = <<>> => v[5] = Minus /\ v[6] = Minus
      /\ p.last # <<>> => InRange(v[5]) /\ InRange(v[6])
  <2>1. p.last # <<>> => /\ InRange(clamp(<<p.requested_at - p.last[1], 1440>>))
                         /\ InRange(clamp(<<p.last[2], 1000>>))
    BY <1>3, <1>4, <1>5
  <2> HIDE DEF v
  <2> QED
    BY <1>1, <1>2, <2>1
<1>10. InRange(v[9]) /\ InRange(v[10]) /\ InRange(v[11])
  <2>1. \A x \in BOOLEAN : InRange(boolToFloat(x))
    BY DEF boolToFloat, InRange, Zero, Unit
  <2>2. p.is_online \in BOOLEAN /\ p.card_present \in BOOLEAN
    BY DEF IsPayload
  <2>3. InRange(unknown)
    BY DEF boolToFloat, InRange, Zero, Unit
  <2> HIDE DEF v, unknown
  <2> QED
    BY <1>1, <2>1, <2>2, <2>3
<1>11. InRange(v[12])
  <2> HIDE DEF v, since, far, unknown
  <2> QED
    BY <1>1, RisksInRange
<1> HIDE DEF v
<1>12. \A k \in 0..13 : k \in {0, 1, 2, 3, 4, 5, 6, 7, 8, 9, 10, 11, 12, 13}
  OBVIOUS
<1>13. \/ InRange(v[i]) /\ ~(i \in {5, 6} /\ p.last = <<>>)
       \/ i \in {5, 6} /\ p.last = <<>> /\ v[i] = Minus
       \/ i = 2 /\ p.amount = 0 /\ p.avg_amount = 0
  BY <1>6, <1>7, <1>8, <1>9, <1>10, <1>11, <1>12
<1> QED
  BY <1>13 DEF v

-----------------------------------------------------------------------------
\* The request is not written, and the answer is missing or VectorizeJSON's.
AnswerInv ==
  /\ request \in Requests
  /\ answer \in {Waiting, VectorizeJSON(request.body)}

LEMMA AnswerInvHolds == Spec => []AnswerInv
<1>1. Init => AnswerInv
  BY DEF Init, AnswerInv
<1>2. AnswerInv /\ [Parse]_vars => AnswerInv'
  BY DEF AnswerInv, Parse, vars
<1> QED
  BY <1>1, <1>2, PTL DEF Spec

\* Of whatever bodies the clients write, none is misread: VectorizeJSON's vector
\* is Vectorize's of the payload meant, with members in any order, cut anywhere
\* or incomplete (fast.go:12-133).
THEOREM NoneIsMisread == Spec => []NeverMisread
<1>1. AnswerInv => NeverMisread
  <2> SUFFICES ASSUME AnswerInv, answer.ok
               PROVE  answer.out = Vectorize(request.payload)
    BY DEF NeverMisread
  <2>1. answer # Waiting
    BY DEF Waiting
  <2>2. request \in Requests /\ answer = VectorizeJSON(request.body)
    BY <2>1 DEF AnswerInv
  <2> QED
    BY <2>2, ReadsWhatIsMeant
<1> QED
  BY <1>1, AnswerInvHolds, PTL

\* No whole request is refused, and so answered without a search
\* (main.go:204, errBadPayload).
THEOREM WholeIsRead == Spec => []RefusesOnlyTheIncomplete
<1>1. AnswerInv => RefusesOnlyTheIncomplete
  <2> SUFFICES ASSUME AnswerInv, answer # Waiting, ~answer.ok
               PROVE  ~request.whole
    BY DEF RefusesOnlyTheIncomplete
  <2>1. request \in Requests /\ answer = VectorizeJSON(request.body)
    BY DEF AnswerInv
  <2> QED
    BY <2>1, ReadsWhatIsMeant
<1> QED
  BY <1>1, AnswerInvHolds, PTL

\* The sentinels come together and for a null last transaction only, and of the
\* other components none leaves [0, 1] but the ratio of two zero amounts
\* (vectorize.go:63-91).
THEOREM OnlyZeroOverZero == Spec => []OnlyZeroOverZeroEscapesTheClamp
<1>1. AnswerInv => OnlyZeroOverZeroEscapesTheClamp
  <2> SUFFICES ASSUME AnswerInv, answer.ok
               PROVE  \A i \in 0..13 :
                        \/ InRange(answer.out[i]) /\ ~(i \in {5, 6} /\ request.payload.last = <<>>)
                        \/ i \in {5, 6} /\ request.payload.last = <<>> /\ answer.out[i] = Minus
                        \/ i = 2 /\ request.payload.amount = 0 /\ request.payload.avg_amount = 0
    BY DEF OnlyZeroOverZeroEscapesTheClamp
  <2>1. answer # Waiting
    BY DEF Waiting
  <2>2. request \in Requests /\ answer = VectorizeJSON(request.body)
    BY <2>1 DEF AnswerInv
  <2>3. answer.out = Vectorize(request.payload)
    BY <2>2, ReadsWhatIsMeant
  <2>4. IsPayload(request.payload)
    BY <2>2, RequestsAssumption
  <2> QED
    BY <2>3, <2>4, Ranges
<1> QED
  BY <1>1, AnswerInvHolds, PTL
=============================================================================
