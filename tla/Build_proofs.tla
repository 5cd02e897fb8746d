---------------------------- MODULE Build_proofs ----------------------------
(***************************************************************************)
(* The index, for every size.  Its data: the integer distance stays in its *)
(* int32, the penalty of a bucket is a lower bound, reading undoes the     *)
(* transposition, and a scan covers its rows.  Its builder, for every      *)
(* dataset, number of cells, sample and number of goroutines: the rows are *)
(* divided among the goroutines without overlap or gap, both counting      *)
(* sorts are stable permutations, every row lies in a cell of its own      *)
(* bucket whose centroid none beats, and the finished index reads back     *)
(* what was stored.                                                        *)
(***************************************************************************)
EXTENDS Build, FiniteSetTheorems, SequenceTheorems, WellFoundedInduction, TLAPS

-----------------------------------------------------------------------------
\* The distances.

\* The scale of the grid is a positive number.
LEMMA ScaleNat == Scale \in Nat /\ Scale > 0 /\ G \in Nat /\ Sub \in Nat /\ G > 0 /\ Sub > 0
<1>1. G \in Nat /\ Sub \in Nat /\ G > 0 /\ Sub > 0
  BY GridAssumption
<1>2. \A x, y \in Nat : x > 0 /\ y > 0 => x * y \in Nat /\ x * y > 0
  BY SMT
<1> QED
  BY <1>1, <1>2 DEF Scale

\* A square on the grid is at most that of the largest code.
LEMMA SqBounded ==
  ASSUME NEW m \in Nat, NEW a \in 0..m, NEW b \in 0..m
  PROVE  Sq(a - b) \in 0..(m * m)
<1>1. PICK x \in 0..m : Sq(a - b) = x * x
  <2>1. CASE a >= b
    <3>1. a - b \in 0..m
      BY <2>1
    <3> QED
      BY <3>1 DEF Sq
  <2>2. CASE a < b
    <3>1. b - a \in 0..m /\ (a - b) * (a - b) = (b - a) * (b - a)
      BY <2>2
    <3> QED
      BY <3>1 DEF Sq
  <2> QED
    BY <2>1, <2>2
<1>2. x * x >= 0 /\ x * x <= m * x /\ m * x <= m * m
  OBVIOUS
<1>3. x * x \in Int /\ m * m \in Int
  OBVIOUS
<1> QED
  BY <1>1, <1>2, <1>3

\* quantize stays on the grid: what the kernel reads is a code.
LEMMA QuantizeIsCode ==
  ASSUME NEW v \in Value
  PROVE  quantize(v) \in Code
<1>1. CASE v < 0
  BY <1>1, ScaleNat DEF quantize, Code, MaxCode
<1>2. CASE ~(v < 0)
  <2>1. v \in 0..Scale
    BY <1>2, ScaleNat DEF Value, Null
  <2>2. Round(v) \in 0..G
    <3> DEFINE n == 2 * v + Sub
               d == 2 * Sub
               r == n \div d
    <3>1. n \in Nat /\ d \in Nat /\ d > 0 /\ Sub \in Nat /\ G \in Nat
      BY <2>1, ScaleNat
    <3>2. r \in Nat /\ d * r <= n
      <4> HIDE DEF n, d
      <4> QED
        BY <3>1
    <3>3. n <= d * G + Sub
      BY <2>1, ScaleNat DEF Scale
    <3>4. ASSUME r >= G + 1
          PROVE  FALSE
      <4>1. d * r >= d * (G + 1)
        <5> HIDE DEF n, d, r
        <5> QED
          BY <3>1, <3>2, <3>4
      <4>2. d * (G + 1) = d * G + d
        <5> HIDE DEF n, d, r
        <5> QED
          BY <3>1
      <4>3. d > Sub /\ d * G \in Nat /\ d * r \in Nat
        <5>1. d > Sub
          BY ScaleNat
        <5> HIDE DEF n, d, r
        <5> QED
          BY <5>1, <3>1, <3>2
      <4> HIDE DEF n, d, r
      <4> QED
        BY <4>1, <4>2, <4>3, <3>1, <3>2, <3>3
    <3>5. r <= G
      <4> HIDE DEF r
      <4> QED
        BY <3>2, <3>4, <3>1
    <3> QED
      BY <3>2, <3>5, <3>1 DEF Round
  <2> QED
    BY <1>2, <2>1, <2>2, ScaleNat DEF quantize, Code, MaxCode
<1> QED
  BY <1>1, <1>2, ScaleNat DEF Value, Null

\* Fourteen terms of at most m add up to at most fourteen times m.
LEMMA Sum14Bounded ==
  ASSUME NEW m \in Nat, NEW t, \A i \in Dim : t[i] \in 0..m
  PROVE  Sum14(t) \in 0..(14 * m)
<1>1. \A i \in 0..13 : t[i] \in 0..m
  BY DEF Dim
<1>2. /\ t[0] \in 0..m /\ t[1] \in 0..m /\ t[2] \in 0..m /\ t[3] \in 0..m
      /\ t[4] \in 0..m /\ t[5] \in 0..m /\ t[6] \in 0..m
  BY <1>1
<1>3. /\ t[7] \in 0..m /\ t[8] \in 0..m /\ t[9] \in 0..m /\ t[10] \in 0..m
      /\ t[11] \in 0..m /\ t[12] \in 0..m /\ t[13] \in 0..m
  BY <1>1
<1>4. \A a, b, c, d, e, f, g \in 0..m : a + b + c + d + e + f + g \in 0..(7 * m)
  OBVIOUS
<1>5. t[0] + t[1] + t[2] + t[3] + t[4] + t[5] + t[6] \in 0..(7 * m)
  BY <1>2, <1>4, ZenonT(60)
<1>6. t[7] + t[8] + t[9] + t[10] + t[11] + t[12] + t[13] \in 0..(7 * m)
  BY <1>3, <1>4, ZenonT(60)
<1>7. PICK x \in 0..(7 * m) : x = t[0] + t[1] + t[2] + t[3] + t[4] + t[5] + t[6]
  BY <1>5
<1>8. PICK y \in 0..(7 * m) : y = t[7] + t[8] + t[9] + t[10] + t[11] + t[12] + t[13]
  BY <1>6
<1>9. Sum14(t) = x + y
  <2>1. \A i \in 0..13 : t[i] \in Int
    BY <1>1
  <2> QED
    BY <1>7, <1>8, <2>1 DEF Sum14
<1> QED
  BY <1>9

\* The fourteen squares of intDist add up to at most fourteen times the largest.
LEMMA IntDistBounded ==
  ASSUME NEW qcode \in [Dim -> Code], NEW code \in [Dim -> Code]
  PROVE  intDist(qcode, code) \in 0..(14 * (MaxCode * MaxCode))
<1> DEFINE t == [i \in Dim |-> Sq(qcode[i] - code[i])]
           m == MaxCode * MaxCode
<1>1. MaxCode \in Nat
  BY ScaleNat DEF MaxCode
<1>2. m \in Nat
  BY <1>1
<1>3. ASSUME NEW i \in Dim
      PROVE  t[i] \in 0..m
  <2>1. qcode[i] \in 0..MaxCode /\ code[i] \in 0..MaxCode
    BY DEF Code
  <2>2. Sq(qcode[i] - code[i]) \in 0..m
    BY <1>1, <2>1, SqBounded
  <2> QED
    BY <2>2
<1>4. intDist(qcode, code) = Sum14(t)
  BY DEF intDist
<1> HIDE DEF t, m
<1>5. Sum14(t) \in 0..(14 * m)
  BY <1>2, <1>3, Sum14Bounded
<1> QED
  BY <1>4, <1>5 DEF m

\* So do those of the exact distance, no two values being more than 2.0 apart.
LEMMA Dist2Bounded ==
  ASSUME NEW v \in [Dim -> Value], NEW code \in [Dim -> Code]
  PROVE  dist2(v, code) \in 0..(14 * Sq(2 * Scale))
<1> DEFINE t == [i \in Dim |-> Sq(v[i] - dequant(code[i]))]
           m == Sq(2 * Scale)
<1>1. Scale \in Nat /\ 2 * Scale \in Nat /\ Sub \in Nat /\ G \in Nat /\ Scale = G * Sub
  BY ScaleNat DEF Scale
<1>2. m \in Nat /\ m = (2 * Scale) * (2 * Scale)
  BY <1>1 DEF Sq
<1>3. \A u \in Code : dequant(u) + Scale \in 0..(2 * Scale) /\ dequant(u) \in Int
  <2> SUFFICES ASSUME NEW u \in Code
               PROVE  dequant(u) + Scale \in 0..(2 * Scale) /\ dequant(u) \in Int
    OBVIOUS
  <2>1. CASE u = 0
    BY <1>1, <2>1 DEF dequant, Null
  <2>2. CASE u # 0
    <3>1. u - 1 \in 0..G
      BY <1>1, <2>2 DEF Code, MaxCode
    <3>2. \A k \in 0..G : k * Sub \in Nat /\ k * Sub <= G * Sub
      BY <1>1
    <3> QED
      BY <1>1, <2>2, <3>1, <3>2 DEF dequant
  <2> QED
    BY <2>1, <2>2
<1>4. ASSUME NEW i \in Dim
      PROVE  t[i] \in 0..m
  <2>1. v[i] + Scale \in 0..(2 * Scale) /\ v[i] \in Int
    <3>1. v[i] \in Value
      OBVIOUS
    <3> QED
      BY <1>1, <3>1 DEF Value, Null
  <2>2. dequant(code[i]) + Scale \in 0..(2 * Scale) /\ dequant(code[i]) \in Int
    BY <1>3
  <2>3. Sq((v[i] + Scale) - (dequant(code[i]) + Scale)) \in 0..((2 * Scale) * (2 * Scale))
    BY <1>1, <2>1, <2>2, SqBounded
  <2>4. (v[i] + Scale) - (dequant(code[i]) + Scale) = v[i] - dequant(code[i])
    BY <1>1, <2>1, <2>2
  <2>5. t[i] = Sq(v[i] - dequant(code[i]))
    OBVIOUS
  <2> QED
    BY <1>2, <2>3, <2>4, <2>5
<1>5. dist2(v, code) = Sum14(t)
  BY DEF dist2
<1> HIDE DEF t, m
<1>6. Sum14(t) \in 0..(14 * m)
  BY <1>2, <1>4, Sum14Bounded
<1> QED
  BY <1>5, <1>6 DEF m

\* intDist adds up fourteen squares in an int32.  With the codes of four
\* decimals the sum of all of them fits, so no pair of rows overflows.
THEOREM IntDistFitsInt32 ==
  ASSUME NEW qcode \in [Dim -> Code], NEW code \in [Dim -> Code], G <= 10000
  PROVE  intDist(qcode, code) \in Nat /\ intDist(qcode, code) <= 2147483647
<1>1. MaxCode \in Nat /\ MaxCode <= 10001
  BY ScaleNat, SMT DEF MaxCode
<1>2. MaxCode * MaxCode \in Nat /\ MaxCode * MaxCode <= 100020001
  <2>1. MaxCode * MaxCode <= 10001 * MaxCode
    BY <1>1, SMT
  <2> QED
    BY <1>1, <2>1, SMT
<1>3. 14 * (MaxCode * MaxCode) <= 2147483647
  BY <1>2, SMT
<1>4. intDist(qcode, code) \in 0..(14 * (MaxCode * MaxCode))
  BY IntDistBounded
<1>5. intDist(qcode, code) \in Nat /\ intDist(qcode, code) <= 14 * (MaxCode * MaxCode)
  BY <1>2, <1>4
<1>6. 14 * (MaxCode * MaxCode) \in Nat
  BY <1>2, SMT
<1> QED
  BY <1>3, <1>5, <1>6, SMT

-----------------------------------------------------------------------------
\* The penalty of a bucket.

\* What Vectorize returns, and the references hold: three flags that are 0.0 or
\* 1.0, and sentinels that come in a pair.
Flagged(v) ==
  /\ v \in [Dim -> Int]
  /\ v[9] \in {0, Scale} /\ v[10] \in {0, Scale} /\ v[11] \in {0, Scale}
  /\ \/ v[5] = Null /\ v[6] = Null
     \/ v[5] \in Nat /\ v[6] \in Nat

\* The four bits of a bucket number.
LEMMA BucketBits ==
  ASSUME NEW v
  PROVE  LET b == bucketOf(v)
         IN  /\ Online(b) = Bit(AtLeastHalf(v[9]))
             /\ CardPresent(b) = Bit(AtLeastHalf(v[10]))
             /\ UnknownMerchant(b) = Bit(AtLeastHalf(v[11]))
             /\ NullFlag(b) = Bit(IsNull(v))
<1>1. \A c : Bit(c) \in 0..1
  BY DEF Bit
<1>2. \A w, x, y, z \in 0..1 :
        /\ (8 * w + 4 * x + 2 * y + z) \div 8 = w
        /\ ((8 * w + 4 * x + 2 * y + z) \div 4) % 2 = x
        /\ ((8 * w + 4 * x + 2 * y + z) \div 2) % 2 = y
        /\ (8 * w + 4 * x + 2 * y + z) % 2 = z
  OBVIOUS
<1> QED
  BY <1>1, <1>2 DEF bucketOf, Online, CardPresent, UnknownMerchant, NullFlag

\* The square of a difference is not negative.
LEMMA Squares ==
  ASSUME NEW a \in Int, NEW b \in Int
  PROVE  Sq(a - b) \in Nat
<1>1. \A x \in Int : x * x \in Int /\ x * x >= 0
  OBVIOUS
<1> QED
  BY <1>1 DEF Sq

\* Two flags that differ are exactly 1.0 apart.
LEMMA FlagPenalty ==
  ASSUME NEW x \in {0, Scale}, NEW y \in {0, Scale}
  PROVE  One * Bit(Bit(AtLeastHalf(x)) # Bit(AtLeastHalf(y))) = Sq(x - y)
<1>1. Scale \in Nat /\ Scale > 0
  BY ScaleNat
<1>2. ~AtLeastHalf(0) /\ AtLeastHalf(Scale)
  BY <1>1 DEF AtLeastHalf
<1>3. One \in Int
  BY <1>1 DEF One, Sq
<1>4. CASE x = y
  <2>1. Bit(Bit(AtLeastHalf(x)) # Bit(AtLeastHalf(y))) = 0 /\ x - y = 0
    BY <1>1, <1>4 DEF Bit
  <2> QED
    BY <2>1, <1>3 DEF Sq
<1>5. CASE x # y
  <2>1. Bit(Bit(AtLeastHalf(x)) # Bit(AtLeastHalf(y))) = 1
    BY <1>2, <1>5 DEF Bit
  <2>2. Sq(x - y) = One
    <3>1. x - y = Scale \/ x - y = -Scale
      BY <1>1, <1>5
    <3>2. (-Scale) * (-Scale) = Scale * Scale
      BY <1>1
    <3> QED
      BY <3>1, <3>2 DEF Sq, One
  <2> QED
    BY <2>1, <2>2, <1>3
<1> QED
  BY <1>4, <1>5

\* Between a null and a value the two sentinel dimensions differ by 1.0 or more
\* each, and by exactly the query's own values plus 1.0 when the row is null.
LEMMA NullPenalty ==
  ASSUME NEW q, NEW v, Flagged(q), Flagged(v)
  PROVE  (IF Bit(IsNull(q)) = Bit(IsNull(v)) THEN 0
          ELSE IF IsNull(q) THEN 2 * One
          ELSE Sq(q[5] + Scale) + Sq(q[6] + Scale))
         <= Sq(q[5] - v[5]) + Sq(q[6] - v[6])
<1> DEFINE t5 == Sq(q[5] - v[5])
           t6 == Sq(q[6] - v[6])
<1>1. Scale \in Nat /\ Scale > 0 /\ 5 \in Dim /\ 6 \in Dim
  BY ScaleNat DEF Dim
<1>2. t5 \in Nat /\ t6 \in Nat
  BY <1>1, Squares DEF Flagged
<1>3. CASE Bit(IsNull(q)) = Bit(IsNull(v))
  BY <1>2, <1>3
<1>4. CASE IsNull(q) /\ ~IsNull(v)
  <2>1. q[5] = -Scale /\ q[6] = -Scale /\ v[5] \in Nat /\ v[6] \in Nat
    BY <1>1, <1>4 DEF Flagged, IsNull, Null
  <2>2. \A x \in Nat : Sq((-Scale) - x) >= One
    <3>1. \A x, s \in Nat : ((-s) - x) * ((-s) - x) = s * s + 2 * (s * x) + x * x
      OBVIOUS
    <3>2. \A x, s \in Nat : s * x >= 0 /\ x * x >= 0 /\ s * x \in Int /\ x * x \in Int
      OBVIOUS
    <3>3. \A x, s \in Nat : ((-s) - x) * ((-s) - x) >= s * s
      BY <3>1, <3>2
    <3> QED
      BY <1>1, <3>3 DEF Sq, One
  <2>3. t5 >= One /\ t6 >= One /\ One \in Int
    BY <1>1, <2>1, <2>2 DEF One, Sq
  <2> QED
    BY <1>2, <1>4, <2>3 DEF Bit
<1>5. CASE ~IsNull(q) /\ IsNull(v)
  <2>1. v[5] = -Scale /\ v[6] = -Scale
    BY <1>1, <1>5 DEF Flagged, IsNull, Null
  <2>2. q[5] - v[5] = q[5] + Scale /\ q[6] - v[6] = q[6] + Scale
    BY <1>1, <2>1 DEF Flagged
  <2> QED
    BY <1>2, <1>5, <2>2 DEF Bit
<1>6. IsNull(q) \in BOOLEAN /\ IsNull(v) \in BOOLEAN
  BY DEF IsNull
<1> QED
  BY <1>3, <1>4, <1>5, <1>6 DEF Bit

\* The prune of scanRange compares a bucket's penalty with the distance of the
\* worst candidate: no row of the bucket is nearer than its penalty, whichever
\* flags differ and on whichever side a last transaction is missing.
THEOREM PenaltyIsALowerBound ==
  ASSUME NEW q, NEW code \in [Dim -> Code], Flagged(q), Flagged(Dequantized(code))
  PROVE  bucketPenalty(q, bucketOf(Dequantized(code))) <= dist2(q, code)
<1> DEFINE v == Dequantized(code)
           t == [i \in Dim |-> Sq(q[i] - v[i])]
           nulls == IF Bit(IsNull(q)) = Bit(IsNull(v)) THEN 0
                    ELSE IF IsNull(q) THEN 2 * One
                    ELSE Sq(q[5] + Scale) + Sq(q[6] + Scale)
<1>0. Flagged(v)
  OBVIOUS
<1>1. \A i \in Dim : t[i] \in Nat
  BY Squares DEF Flagged
<1>2. dist2(q, code) = Sum14(t)
  BY DEF dist2, Dequantized
<1>3. /\ t[9] = One * Bit(Bit(AtLeastHalf(q[9])) # Bit(AtLeastHalf(v[9])))
      /\ t[10] = One * Bit(Bit(AtLeastHalf(q[10])) # Bit(AtLeastHalf(v[10])))
      /\ t[11] = One * Bit(Bit(AtLeastHalf(q[11])) # Bit(AtLeastHalf(v[11])))
  <2>1. 9 \in Dim /\ 10 \in Dim /\ 11 \in Dim
    BY DEF Dim
  <2> HIDE DEF v
  <2> QED
    BY <1>0, <2>1, FlagPenalty DEF Flagged
<1>4. nulls <= t[5] + t[6]
  <2>1. 5 \in Dim /\ 6 \in Dim
    BY DEF Dim
  <2> HIDE DEF v
  <2> QED
    BY <1>0, <2>1, NullPenalty
<1>5. bucketPenalty(q, bucketOf(v)) = t[9] + t[10] + t[11] + nulls
  <2> HIDE DEF v, t
  <2>1. bucketPenalty(q, bucketOf(v)) =
          One * Bit(Bit(AtLeastHalf(q[9])) # Bit(AtLeastHalf(v[9])))
          + One * Bit(Bit(AtLeastHalf(q[10])) # Bit(AtLeastHalf(v[10])))
          + One * Bit(Bit(AtLeastHalf(q[11])) # Bit(AtLeastHalf(v[11])))
          + nulls
    BY BucketBits DEF bucketPenalty
  <2> QED
    BY <1>3, <2>1
<1>6. nulls \in Int
  <2>1. \A x \in Int : Sq(x) \in Int
    BY DEF Sq
  <2>2. q[5] + Scale \in Int /\ q[6] + Scale \in Int /\ One \in Int
    BY ScaleNat DEF Flagged, Dim, One, Sq
  <2> QED
    BY <2>1, <2>2
<1>7. /\ t[0] \in Nat /\ t[1] \in Nat /\ t[2] \in Nat /\ t[3] \in Nat /\ t[4] \in Nat
      /\ t[5] \in Nat /\ t[6] \in Nat /\ t[7] \in Nat /\ t[8] \in Nat /\ t[9] \in Nat
      /\ t[10] \in Nat /\ t[11] \in Nat /\ t[12] \in Nat /\ t[13] \in Nat
  <2> HIDE DEF t
  <2> QED
    BY <1>1 DEF Dim
<1> HIDE DEF t, nulls
<1>8. t[9] + t[10] + t[11] + nulls <= Sum14(t)
  <2>1. PICK x \in Nat : x = t[0] + t[1] + t[2] + t[3] + t[4]
    BY <1>7
  <2>2. PICK y \in Nat : y = t[12] + t[13]
    BY <1>7
  <2>3. Sum14(t) = x + t[5] + t[6] + t[7] + t[8] + t[9] + t[10] + t[11] + t[12] + t[13]
    BY <2>1 DEF Sum14
  <2>4. x + t[5] + t[6] + t[7] + t[8] >= nulls
    BY <1>4, <1>6, <1>7, <2>1
  <2>5. PICK z \in Int : z = x + t[5] + t[6] + t[7] + t[8]
    BY <1>7, <2>1
  <2> QED
    BY <1>6, <1>7, <2>2, <2>3, <2>4, <2>5
<1> QED
  BY <1>2, <1>5, <1>8

-----------------------------------------------------------------------------
\* The transposition.

\* Bounds of sixteen blocks of n entries in all, empty ones included.
Bounds(firsts, n) ==
  /\ n \in Nat /\ firsts \in [0..NumBuckets -> Nat]
  /\ firsts[0] = 0 /\ firsts[NumBuckets] = n
  /\ \A c, d \in 0..NumBuckets : c <= d => firsts[c] <= firsts[d]

\* bucketOfRow finds a block, and the row is in it.
LEMMA BlockOfRow ==
  ASSUME NEW n, NEW firsts, Bounds(firsts, n), NEW row \in 0..(n - 1)
  PROVE  LET b == BlockOf(firsts, row)
         IN  b \in Bucket /\ firsts[b] <= row /\ row < firsts[b + 1]
<1> DEFINE T == {b \in Bucket : row < firsts[b + 1]}
           Found(b) == row < firsts[b + 1] /\ \A c \in 0..(b - 1) : firsts[c + 1] <= row
<1>1. T \subseteq Nat /\ 15 \in T
  BY DEF Bounds, Bucket, NumBuckets
<1>2. \E b \in T : \A c \in T : ~(<<c, b>> \in OpToRel(<, Nat))
  <2>1. T \subseteq Nat /\ T # {}
    BY <1>1
  <2> HIDE DEF T
  <2> QED
    BY <2>1, NatLessThanWellFounded, WFMin DEF OpToRel
<1>3. \E b \in Bucket : Found(b)
  <2>1. PICK b \in T : \A c \in T : ~(c < b)
    BY <1>1, <1>2 DEF OpToRel
  <2>2. \A c \in 0..(b - 1) : c \in Bucket /\ c \notin T
    BY <2>1 DEF Bucket, NumBuckets
  <2>3. \A c \in Bucket : firsts[c + 1] \in Nat
    BY DEF Bounds, Bucket, NumBuckets
  <2> QED
    BY <2>1, <2>2, <2>3
<1>4. BlockOf(firsts, row) \in Bucket /\ Found(BlockOf(firsts, row))
  BY <1>3 DEF BlockOf
<1>5. ASSUME NEW b \in Bucket, Found(b)
      PROVE  firsts[b] <= row
  <2>1. CASE b = 0
    BY <2>1 DEF Bounds
  <2>2. CASE b # 0
    <3>1. b - 1 \in 0..(b - 1) /\ (b - 1) + 1 = b
      BY <2>2 DEF Bucket, NumBuckets
    <3> QED
      BY <1>5, <3>1
  <2> QED
    BY <2>1, <2>2
<1> QED
  BY <1>4, <1>5

\* Only one block holds a row.
LEMMA BlockOfUnique ==
  ASSUME NEW n, NEW firsts, Bounds(firsts, n), NEW b \in Bucket,
         NEW row \in Nat, firsts[b] <= row, row < firsts[b + 1]
  PROVE  BlockOf(firsts, row) = b
<1> DEFINE x == BlockOf(firsts, row)
<1>1. row \in 0..(n - 1)
  BY DEF Bounds, Bucket, NumBuckets
<1>2. x \in Bucket /\ firsts[x] <= row /\ row < firsts[x + 1]
  BY <1>1, BlockOfRow
<1> HIDE DEF x
<1>3. firsts[b] \in Nat /\ firsts[b + 1] \in Nat /\ firsts[x] \in Nat /\ firsts[x + 1] \in Nat
  BY <1>2 DEF Bounds, Bucket, NumBuckets
<1>4. ~(x < b)
  <2>1. x < b => firsts[x + 1] <= firsts[b]
    BY <1>2 DEF Bounds, Bucket, NumBuckets
  <2> QED
    BY <1>2, <1>3, <2>1
<1>5. ~(b < x)
  <2>1. b < x => firsts[b + 1] <= firsts[x]
    BY <1>2 DEF Bounds, Bucket, NumBuckets
  <2> QED
    BY <1>2, <1>3, <2>1
<1> QED
  BY <1>2, <1>4, <1>5 DEF x, Bucket, NumBuckets

\* Quotient and remainder are unique.
LEMMA DivMod ==
  ASSUME NEW count \in Nat, count > 0, NEW d \in Nat, NEW local \in 0..(count - 1)
  PROVE  (d * count + local) \div count = d /\ (d * count + local) % count = local
<1> DEFINE a == d * count + local
           x == a \div count
           r == a % count
<1>1. a \in Nat
  OBVIOUS
<1>2. x \in Nat /\ r \in 0..(count - 1) /\ a = count * x + r
  <2> HIDE DEF a
  <2> QED
    BY <1>1
<1>3. ~(x < d)
  <2>1. \A y \in Nat : y < d => count * y + count <= d * count
    OBVIOUS
  <2> HIDE DEF x, r
  <2> QED
    BY <1>2, <2>1
<1>4. ~(d < x)
  <2>1. \A y \in Nat : d < y => d * count + count <= count * y
    OBVIOUS
  <2> HIDE DEF x, r
  <2> QED
    BY <1>2, <2>1
<1>5. x = d
  <2> HIDE DEF x
  <2> QED
    BY <1>2, <1>3, <1>4
<1>6. r = local
  <2> HIDE DEF r, x
  <2> QED
    BY <1>2, <1>5
<1> QED
  BY <1>5, <1>6

\* Where the distances look for dimension d of an entry, the build put it:
\* whatever the sizes of the blocks, the reads of a row undo the transposition.
THEOREM TranspositionRoundTrip ==
  ASSUME NEW n, NEW firsts, Bounds(firsts, n), NEW entry \in 0..(n - 1),
         NEW code, code[entry] = [d \in Dim |-> code[entry][d]]
  PROVE  CodeAt(Transposed(firsts, n, code), firsts, entry) = code[entry]
<1> DEFINE b == BlockOf(firsts, entry)
           first == firsts[b]
           count == firsts[b + 1] - first
           local == entry - first
           data == Transposed(firsts, n, code)
<1>1. b \in Bucket /\ first \in Nat /\ firsts[b + 1] \in Nat /\ firsts[b + 1] <= n
  <2>1. b \in Bucket
    BY BlockOfRow
  <2> HIDE DEF b
  <2>2. b \in 0..16 /\ b + 1 \in 0..16 /\ b + 1 <= 16
    BY <2>1 DEF Bucket, NumBuckets
  <2>3. firsts \in [0..16 -> Nat] /\ firsts[16] = n /\ \A c \in 0..16 : c <= 16 => firsts[c] <= firsts[16]
    BY DEF Bounds, NumBuckets
  <2>4. firsts[b] \in Nat /\ firsts[b + 1] \in Nat /\ firsts[b + 1] <= n
    BY <2>2, <2>3
  <2> QED
    BY <2>1, <2>4
<1>2. n \in Nat /\ count \in Nat /\ count > 0 /\ local \in 0..(count - 1) /\ first + count <= n
  <2>1. first <= entry /\ entry < firsts[b + 1]
    BY BlockOfRow
  <2> HIDE DEF b
  <2> QED
    BY <1>1, <2>1, SMTT(30) DEF Bounds
<1>3. ASSUME NEW d \in Dim
      PROVE  data[SoA(first, count, d, local)] = code[entry][d]
  <2> DEFINE a == SoA(first, count, d, local)
  <2>1. d \in 0..13 /\ d * count \in Nat /\ d * count + count <= 14 * count
    <3>1. d \in {0, 1, 2, 3, 4, 5, 6, 7, 8, 9, 10, 11, 12, 13}
      BY DEF Dim
    <3> HIDE DEF count
    <3> QED
      BY <1>2, <3>1
  <2>2. a = first * 14 + d * count + local
    BY DEF SoA, Dims
  <2>3. a \in Nat /\ first * 14 <= a /\ a < (first + count) * 14
    <3> HIDE DEF first, count, local, a
    <3> QED
      BY <1>1, <1>2, <2>1, <2>2
  <2>4. a < n * 14
    <3> HIDE DEF first, count, local, a
    <3> QED
      BY <1>1, <1>2, <2>3
  <2>5. a \div 14 \in Nat /\ first <= a \div 14 /\ a \div 14 < first + count
    <3> HIDE DEF first, count, local, a
    <3> QED
      BY <1>1, <1>2, <2>3
  <2>6. BlockOf(firsts, a \div Dims) = b
    <3>1. first + count = firsts[b + 1]
      BY <1>1
    <3> HIDE DEF a, b
    <3> QED
      BY <1>1, <2>5, <3>1, BlockOfUnique DEF Dims
  <2>7. (a - first * Dims) \div count = d /\ (a - first * Dims) % count = local
    <3>1. a - first * Dims = d * count + local
      <4> HIDE DEF first, count, local, a
      <4> QED
        BY <1>1, <1>2, <2>1, <2>2 DEF Dims
    <3>2. d \in Nat
      BY <2>1
    <3> HIDE DEF first, count, local, a
    <3> QED
      BY <1>2, <3>1, <3>2, DivMod
  <2>8. a \in 0..(n * Dims + SimdTailPad - 1) /\ ~(a >= n * Dims)
    <3> HIDE DEF a
    <3> QED
      BY <1>2, <2>3, <2>4, LayoutAssumption DEF Dims
  <2>9. data[a] = code[first + ((a - first * Dims) % count)][(a - first * Dims) \div count]
    <3> HIDE DEF a
    <3> QED
      BY <2>6, <2>8 DEF Transposed
  <2>10. first + local = entry
    <3> HIDE DEF b
    <3> QED
      BY <1>1
  <2> QED
    BY <2>7, <2>9, <2>10
<1>4. CodeAt(data, firsts, entry) = [d \in Dim |-> data[SoA(first, count, d, local)]]
  BY DEF CodeAt
<1>5. CodeAt(data, firsts, entry) = [d \in Dim |-> code[entry][d]]
  BY <1>3, <1>4
<1> QED
  BY <1>5

\* Every address holds a code of some entry, or of the tail pad.
LEMMA TransposedType ==
  ASSUME NEW n, NEW firsts, Bounds(firsts, n), NEW code \in [0..(n - 1) -> [Dim -> Code]]
  PROVE  Transposed(firsts, n, code) \in [0..(n * Dims + SimdTailPad - 1) -> Code]
<1>1. n \in Nat /\ 0 \in Code
  BY ScaleNat DEF Bounds, Code, MaxCode
<1> SUFFICES ASSUME NEW a \in 0..(n * Dims + SimdTailPad - 1)
             PROVE  Transposed(firsts, n, code)[a] \in Code
  BY DEF Transposed
<1>2. CASE a >= n * Dims
  BY <1>1, <1>2 DEF Transposed
<1>3. CASE ~(a >= n * Dims)
  <2> DEFINE b == BlockOf(firsts, a \div Dims)
             first == firsts[b]
             count == firsts[b + 1] - first
             r == a - first * Dims
  <2>1. a \in Nat /\ a < n * 14 /\ a \div Dims = a \div 14
    BY <1>1, <1>3, LayoutAssumption DEF Dims
  <2>2. a \div 14 \in 0..(n - 1) /\ 14 * (a \div 14) <= a /\ a < 14 * (a \div 14) + 14
    BY <1>1, <2>1
  <2>3. b \in Bucket /\ firsts[b] <= a \div 14 /\ a \div 14 < firsts[b + 1]
    BY <2>1, <2>2, BlockOfRow
  <2> HIDE DEF b
  <2>4. /\ first \in Nat /\ firsts[b + 1] \in Nat /\ firsts[b + 1] <= n
        /\ count \in Nat \ {0} /\ first + count = firsts[b + 1]
    <3>1. b \in 0..16 /\ b + 1 \in 0..16 /\ b + 1 <= 16
      BY <2>3 DEF Bucket, NumBuckets
    <3>2. firsts \in [0..16 -> Nat] /\ firsts[16] = n /\ \A c \in 0..16 : c <= 16 => firsts[c] <= firsts[16]
      BY DEF Bounds, NumBuckets
    <3>3. first \in Nat /\ firsts[b + 1] \in Nat /\ firsts[b + 1] <= n
      BY <3>1, <3>2
    <3> QED
      BY <2>2, <2>3, <3>3
  <2>5. first <= a \div 14 /\ a \div 14 < first + count
    BY <2>3, <2>4
  <2>6. r \in Nat /\ r < 14 * count
    <3>1. r = a - first * 14
      BY DEF Dims
    <3> HIDE DEF first, count, r
    <3> QED
      BY <2>1, <2>2, <2>4, <2>5, <3>1
  <2> HIDE DEF first, count, r
  <2>8. r \div count \in Dim /\ r % count \in 0..(count - 1)
    <3>1. r % count \in 0..(count - 1) /\ r \div count \in Nat /\ count * (r \div count) <= r
      BY <2>4, <2>6
    <3>2. ~(r \div count >= 14)
      <4>1. \A z \in Nat : z >= 14 => count * z >= count * 14
        BY <2>4
      <4>2. \A z \in Nat : count * z \in Nat
        BY <2>4
      <4> QED
        BY <2>4, <2>6, <3>1, <4>1, <4>2
    <3> QED
      BY <3>1, <3>2 DEF Dim
  <2>9. first + (r % count) \in 0..(n - 1)
    BY <1>1, <2>4, <2>8
  <2>10. Transposed(firsts, n, code)[a] = code[first + (r % count)][r \div count]
    BY <1>3 DEF Transposed, b, first, count, r
  <2> QED
    BY <2>8, <2>9, <2>10
<1> QED
  BY <1>2, <1>3

\* The bit that says a row is a fraud is found where it was set, also in the
\* last word, which may be partly used.
THEOREM LabelsRoundTrip ==
  ASSUME NEW n \in Nat, NEW fraud \in [0..(n - 1) -> BOOLEAN], NEW x,
         x.fraud = Packed(n, fraud), NEW row \in 0..(n - 1)
  PROVE  isFraud(x, row) <=> fraud[row]
<1> DEFINE w == row \div WordBits
           i == row % WordBits
<1>1. WordBits \in Nat /\ WordBits > 0 /\ row \in Nat /\ row < n
  BY LayoutAssumption
<1>2. w \in Nat /\ i \in 0..(WordBits - 1) /\ w * WordBits + i = row
  BY <1>1
<1>3. w <= (n + WordBits - 1) \div WordBits - 1
  <2> DEFINE top == (n + WordBits - 1) \div WordBits
             rest == (n + WordBits - 1) % WordBits
  <2>1. n + WordBits - 1 \in Nat
    BY <1>1
  <2>2. top \in Nat /\ rest \in 0..(WordBits - 1) /\ n + WordBits - 1 = WordBits * top + rest
    <3> DEFINE m == n + WordBits - 1
    <3> HIDE DEF m
    <3>1. m \in Nat => /\ m \div WordBits \in Nat /\ m % WordBits \in 0..(WordBits - 1)
                       /\ m = WordBits * (m \div WordBits) + (m % WordBits)
      BY <1>1
    <3> QED
      BY <2>1, <3>1 DEF m
  <2> HIDE DEF top, rest, w, i
  <2>3. ASSUME top <= w
        PROVE  FALSE
    <3>1. WordBits * top <= WordBits * w
      BY <1>1, <1>2, <2>2, <2>3
    <3>2. WordBits * w = w * WordBits /\ WordBits * w \in Nat /\ WordBits * top \in Nat
      BY <1>1, <1>2, <2>2
    <3> QED
      BY <1>1, <1>2, <2>2, <3>1, <3>2
  <2> QED
    BY <1>2, <2>2, <2>3 DEF top
<1>4. x.fraud[w] = {j \in 0..(WordBits - 1) : w * WordBits + j < n /\ fraud[w * WordBits + j]}
  <2>1. w \in 0..((n + WordBits - 1) \div WordBits - 1)
    <3>1. (n + WordBits - 1) \div WordBits \in Int
      BY <1>1
    <3> HIDE DEF w
    <3> QED
      BY <1>2, <1>3, <3>1
  <2> HIDE DEF w
  <2> QED
    BY <2>1 DEF Packed
<1> HIDE DEF w, i
<1>5. i \in x.fraud[w] <=> fraud[row]
  BY <1>1, <1>2, <1>4
<1> QED
  BY <1>5 DEF isFraud, w, i

-----------------------------------------------------------------------------
\* The scan of a run of entries.

\* A chunk begins at a multiple of SimdChunk and ends within the run; its full
\* blocks fit in it.
LEMMA ChunkFacts ==
  ASSUME NEW m \in Nat, NEW done \in ChunkStarts(m)
  PROVE  LET c == ChunkSize(m, done)
         IN  /\ done \in Nat /\ \E k \in Nat : done = k * SimdChunk
             /\ c \in 1..SimdChunk /\ done + c <= m
             /\ Blocks(c) \in Nat /\ Lanes * Blocks(c) <= c
<1> DEFINE c == ChunkSize(m, done)
<1>1. SimdChunk \in Nat /\ SimdChunk > 0 /\ Lanes \in Nat /\ Lanes > 0 /\ UseSIMD \in BOOLEAN
  BY LayoutAssumption
<1>2. PICK k \in Nat : done = k * SimdChunk /\ done < m
  BY DEF ChunkStarts
<1>3. done \in Nat
  BY <1>1, <1>2
<1>4. c \in 1..SimdChunk /\ done + c <= m
  BY <1>1, <1>2, <1>3 DEF ChunkSize
<1>5. Blocks(c) \in Nat /\ Lanes * Blocks(c) <= c
  <2> HIDE DEF c
  <2>1. \A x \in Nat : x \div Lanes \in Nat /\ Lanes * (x \div Lanes) <= x
    BY <1>1
  <2>2. Lanes * 0 = 0 /\ c \in Nat
    BY <1>1, <1>4
  <2> QED
    BY <1>1, <1>4, <2>1, <2>2 DEF Blocks
<1> QED
  BY <1>2, <1>3, <1>4, <1>5

\* Multiples of a step that leave less than a step below i are the same.
LEMMA SameMultiple ==
  ASSUME NEW step \in Nat, NEW i \in Int, NEW x \in Int, NEW y \in Int,
         step * x <= i, i < step * x + step, step * y <= i, i < step * y + step
  PROVE  x = y
<1>1. ~(x < y)
  <2>1. x < y => step * x + step <= step * y
    OBVIOUS
  <2>2. step * x \in Int /\ step * y \in Int
    OBVIOUS
  <2> QED
    BY <2>1, <2>2
<1>2. ~(y < x)
  <2>1. y < x => step * y + step <= step * x
    OBVIOUS
  <2>2. step * x \in Int /\ step * y \in Int
    OBVIOUS
  <2> QED
    BY <2>1, <2>2
<1> QED
  BY <1>1, <1>2

\* The chunks of a scan do not overlap.
LEMMA ChunkUnique ==
  ASSUME NEW m \in Nat, NEW i \in Int, NEW a \in ChunkStarts(m), NEW b \in ChunkStarts(m),
         a <= i, i < a + SimdChunk, b <= i, i < b + SimdChunk
  PROVE  a = b
<1>1. PICK x \in Nat, y \in Nat : a = x * SimdChunk /\ b = y * SimdChunk
  BY ChunkFacts
<1>2. SimdChunk \in Nat
  BY LayoutAssumption
<1>3. x * SimdChunk = SimdChunk * x /\ y * SimdChunk = SimdChunk * y
  BY <1>2
<1>4. x = y
  BY <1>1, <1>2, <1>3, SameMultiple
<1> QED
  BY <1>1, <1>4

\* Every entry of a scan lies in one of its chunks.
LEMMA ChunkOfEntry ==
  ASSUME NEW m \in Nat, NEW i \in 0..(m - 1)
  PROVE  \E done \in ChunkStarts(m) : done <= i /\ i < done + ChunkSize(m, done)
<1> DEFINE k == i \div SimdChunk
           start == k * SimdChunk
<1>1. SimdChunk \in Nat /\ SimdChunk > 0 /\ i \in Nat /\ i < m
  BY LayoutAssumption
<1>2. k \in Nat /\ SimdChunk * k <= i /\ i < SimdChunk * k + SimdChunk
  BY <1>1
<1>3. start = SimdChunk * k /\ start \in Nat
  <2> HIDE DEF k
  <2> QED
    BY <1>1, <1>2
<1>4. k <= i
  <2> HIDE DEF k
  <2>1. SimdChunk * k >= k
    BY <1>1, <1>2
  <2> QED
    BY <1>1, <1>2, <1>3, <2>1
<1>5. start \in ChunkStarts(m)
  <2> HIDE DEF k
  <2> QED
    BY <1>1, <1>2, <1>3, <1>4 DEF ChunkStarts
<1>6. i < start + ChunkSize(m, start)
  <2> HIDE DEF k, start
  <2> QED
    BY <1>1, <1>2, <1>3 DEF ChunkSize
<1> HIDE DEF k, start
<1> QED
  BY <1>2, <1>3, <1>5, <1>6

\* A block of the kernel lies within the full blocks of one chunk.
LEMMA BlockFacts ==
  ASSUME NEW m \in Nat, NEW s \in BlockStarts(m)
  PROVE  \E done \in ChunkStarts(m), j \in Nat :
           /\ s = done + Lanes * j
           /\ Lanes * j + Lanes <= Lanes * Blocks(ChunkSize(m, done))
<1>1. PICK done \in ChunkStarts(m) :
        \E j \in 0..(Blocks(ChunkSize(m, done)) - 1) : s = done + Lanes * j
  BY DEF BlockStarts
<1>2. PICK j \in 0..(Blocks(ChunkSize(m, done)) - 1) : s = done + Lanes * j
  BY <1>1
<1>3. Lanes \in Nat /\ Blocks(ChunkSize(m, done)) \in Nat
  BY ChunkFacts, LayoutAssumption
<1>4. \A x \in Nat : j + 1 <= x => Lanes * j + Lanes <= Lanes * x
  BY <1>2, <1>3
<1>5. Lanes * j + Lanes <= Lanes * Blocks(ChunkSize(m, done)) /\ j \in Nat
  BY <1>2, <1>3, <1>4
<1> QED
  BY <1>2, <1>5

\* A search scans a cell, and a bucket's centroids, in chunks, of each the full
\* blocks by the kernel and the rest one by one: every entry is taken exactly
\* once, and no load leaves the dimension it is meant for, for every number of
\* entries, with the kernel or without it.
THEOREM ScanTakesEachOnce ==
  ASSUME NEW count \in Nat, NEW local \in Nat, NEW m \in Nat, local + m <= count
  PROVE  ScannedOnceInBounds(count, local, m)
<1>1. Lanes \in Nat /\ Lanes > 0 /\ SimdChunk \in Nat /\ SimdChunk > 0
  BY LayoutAssumption
<1>2. ASSUME NEW i \in 0..(m - 1)
      PROVE  Cardinality({s \in BlockStarts(m) : i \in s..(s + Lanes - 1)}) + Bit(i \in ScalarTail(m)) = 1
  <2> DEFINE S == {s \in BlockStarts(m) : i \in s..(s + Lanes - 1)}
  <2>1. PICK start \in ChunkStarts(m) : start <= i /\ i < start + ChunkSize(m, start)
    BY ChunkOfEntry
  <2> DEFINE c == ChunkSize(m, start)
             full == Lanes * Blocks(c)
  <2>2. /\ start \in Nat /\ c \in 1..SimdChunk /\ start + c <= m
        /\ Blocks(c) \in Nat /\ full <= c /\ full \in Nat
    BY <1>1, ChunkFacts
  <2>3. ASSUME NEW s \in S
        PROVE  \E j \in Nat : s = start + Lanes * j /\ Lanes * j + Lanes <= full
    <3>1. PICK d \in ChunkStarts(m), j \in Nat :
            s = d + Lanes * j /\ Lanes * j + Lanes <= Lanes * Blocks(ChunkSize(m, d))
      BY BlockFacts
    <3>2. /\ d \in Nat /\ ChunkSize(m, d) \in 1..SimdChunk
          /\ Lanes * Blocks(ChunkSize(m, d)) <= ChunkSize(m, d)
          /\ Lanes * Blocks(ChunkSize(m, d)) \in Nat /\ Lanes * j \in Nat
      BY <1>1, ChunkFacts
    <3>3. s <= i /\ i < s + Lanes /\ s \in Nat
      BY <1>1, <3>1, <3>2
    <3>4. d <= i /\ i < d + SimdChunk
      BY <1>1, <3>1, <3>2, <3>3
    <3>5. start <= i /\ i < start + SimdChunk
      BY <1>1, <2>1, <2>2
    <3>6. d = start
      BY <3>4, <3>5, ChunkUnique
    <3> QED
      BY <3>1, <3>6
  <2>4. ASSUME NEW d \in ChunkStarts(m), i \in (d + Lanes * Blocks(ChunkSize(m, d)))..(d + ChunkSize(m, d) - 1)
        PROVE  d = start
    <3>1. /\ d \in Nat /\ ChunkSize(m, d) \in 1..SimdChunk /\ Blocks(ChunkSize(m, d)) \in Nat
          /\ Lanes * Blocks(ChunkSize(m, d)) \in Nat
      BY <1>1, ChunkFacts
    <3>2. d <= i /\ i < d + SimdChunk
      BY <1>1, <2>4, <3>1
    <3>3. start <= i /\ i < start + SimdChunk
      BY <1>1, <2>1, <2>2
    <3> QED
      BY <3>2, <3>3, ChunkUnique
  <2>5. CASE i < start + full
    <3> DEFINE j == (i - start) \div Lanes
               s0 == start + Lanes * j
    <3>1. i - start \in Nat
      BY <2>1, <2>2
    <3>2. j \in Nat /\ Lanes * j <= i - start /\ i - start < Lanes * j + Lanes
      BY <1>1, <3>1
    <3>3. j < Blocks(c)
      <4> HIDE DEF j, c
      <4>1. Lanes * j < Lanes * Blocks(c)
        BY <1>1, <2>1, <2>2, <2>5, <3>2
      <4>2. Blocks(c) <= j => Lanes * Blocks(c) <= Lanes * j
        BY <1>1, <2>2, <3>2
      <4>3. Lanes * j \in Int /\ Lanes * Blocks(c) \in Int
        BY <1>1, <2>2, <3>2
      <4> QED
        BY <2>2, <3>2, <4>1, <4>2, <4>3
    <3>4. s0 \in BlockStarts(m)
      <4> HIDE DEF j
      <4>1. j \in 0..(Blocks(ChunkSize(m, start)) - 1)
        BY <2>2, <3>2, <3>3
      <4> QED
        BY <2>1, <4>1 DEF BlockStarts
    <3>5. s0 \in S
      <4> HIDE DEF j
      <4>1. i \in s0..(s0 + Lanes - 1)
        <5>1. Lanes * j \in Nat
          BY <1>1, <3>2
        <5> QED
          BY <1>1, <2>2, <3>2, <5>1
      <4> QED
        BY <3>4, <4>1
    <3>6. ASSUME NEW s \in S
          PROVE  s = s0
      <4>1. PICK k \in Nat : s = start + Lanes * k
        BY <2>3
      <4>2. s <= i /\ i < s + Lanes
        BY <1>1, <2>2, <4>1
      <4>3. Lanes * k <= i - start /\ i - start < Lanes * k + Lanes
        <5>1. Lanes * k \in Nat
          BY <1>1
        <5> QED
          BY <1>1, <2>2, <4>1, <4>2, <5>1
      <4> HIDE DEF j
      <4>4. k = j
        BY <1>1, <2>2, <3>1, <3>2, <4>3, SameMultiple
      <4> QED
        BY <4>1, <4>4
    <3>7. S = {s0}
      <4> HIDE DEF S, s0
      <4> QED
        BY <3>5, <3>6
    <3>8. i \notin ScalarTail(m)
      <4>1. i \notin (start + Lanes * Blocks(ChunkSize(m, start)))..(start + ChunkSize(m, start) - 1)
        <5> HIDE DEF c
        <5>1. ~(start + full <= i)
          BY <2>2, <2>5
        <5> QED
          BY <2>2, <5>1 DEF c
      <4> QED
        BY <2>4, <4>1 DEF ScalarTail
    <3>9. Cardinality(S) = 1 /\ Bit(i \in ScalarTail(m)) = 0
      <4> HIDE DEF S, s0
      <4> QED
        BY <3>7, <3>8, FS_Singleton DEF Bit
    <3> QED
      BY <3>9
  <2>6. CASE ~(i < start + full)
    <3>1. i \in ScalarTail(m)
      <4>1. i \in (start + full)..(start + c - 1)
        <5> HIDE DEF c
        <5> QED
          BY <2>1, <2>2, <2>6 DEF c
      <4> QED
        BY <2>1, <4>1 DEF ScalarTail
    <3>2. S = {}
      <4> SUFFICES ASSUME NEW s \in S
                   PROVE  FALSE
        OBVIOUS
      <4>1. PICK k \in Nat : s = start + Lanes * k /\ Lanes * k + Lanes <= full
        BY <2>3
      <4>2. Lanes * k \in Nat /\ s <= i /\ i < s + Lanes
        BY <1>1, <2>2, <4>1
      <4> HIDE DEF c
      <4> QED
        BY <1>1, <2>2, <2>6, <4>1, <4>2
    <3>3. Cardinality(S) = 0 /\ Bit(i \in ScalarTail(m)) = 1
      <4> HIDE DEF S
      <4> QED
        BY <3>1, <3>2, FS_EmptySet DEF Bit
    <3> QED
      BY <3>3
  <2> QED
    BY <2>5, <2>6
<1>3. ASSUME NEW s \in BlockStarts(m), NEW d \in Dim
      PROVE  LoadAt(0, count, d, local + s) \subseteq (d * count)..((d + 1) * count - 1)
  <2>1. PICK start \in ChunkStarts(m), j \in Nat :
          s = start + Lanes * j /\ Lanes * j + Lanes <= Lanes * Blocks(ChunkSize(m, start))
    BY BlockFacts
  <2>2. s \in Nat /\ s + Lanes <= m
    <3>1. /\ start \in Nat /\ start + ChunkSize(m, start) <= m /\ ChunkSize(m, start) \in Nat
          /\ Lanes * Blocks(ChunkSize(m, start)) <= ChunkSize(m, start)
          /\ Lanes * Blocks(ChunkSize(m, start)) \in Nat /\ Lanes * j \in Nat
      BY <1>1, ChunkFacts
    <3> QED
      BY <1>1, <2>1, <3>1
  <2>3. d \in Nat /\ d * count \in Nat /\ (d + 1) * count = d * count + count
    BY DEF Dim
  <2>4. ASSUME NEW k \in 0..(Lanes - 1)
        PROVE  SoA(0, count, d, local + s) + k \in (d * count)..((d + 1) * count - 1)
    <3>1. SoA(0, count, d, local + s) = d * count + local + s
      BY <2>2, <2>3 DEF SoA, Dims
    <3> QED
      BY <1>1, <2>2, <2>3, <3>1
  <2> QED
    BY <2>4 DEF LoadAt
<1> QED
  BY <1>2, <1>3 DEF ScannedOnceInBounds

-----------------------------------------------------------------------------
\* Loops: what holds at 0 and is kept by each turn holds to the end, and a
\* recursive definition along a loop has a value at every turn.

\* Induction along a loop of n turns, for the turns P at which a fact holds.
LEMMA LoopInduction ==
  ASSUME NEW n \in Nat, NEW P \in SUBSET (0..n), 0 \in P,
         \A i \in 1..n : i - 1 \in P => i \in P
  PROVE  P = 0..n
<1> DEFINE T == (0..n) \ P
<1> SUFFICES ASSUME T # {}
             PROVE  FALSE
  OBVIOUS
<1>1. T \subseteq Nat
  OBVIOUS
<1>2. \E m \in T : \A k \in T : ~(<<k, m>> \in OpToRel(<, Nat))
  <2> HIDE DEF T
  <2> QED
    BY <1>1, NatLessThanWellFounded, WFMin DEF OpToRel
<1>3. PICK m \in T : \A k \in T : ~(k < m)
  <2> HIDE DEF T
  <2> QED
    BY <1>1, <1>2 DEF OpToRel
<1>4. m \in 1..n /\ m - 1 \notin T
  BY <1>3
<1> QED
  BY <1>3, <1>4

\* The i-th turn of a loop maps values of V to values of V, and f is its run
\* from v0.
Turns(n, V, turn) == \A i \in 1..n : \A v \in V : turn[i][v] \in V

IsRun(n, V, v0, turn, f) ==
  f \in [0..n -> V] /\ f[0] = v0 /\ \A i \in 1..n : f[i] = turn[i][f[i - 1]]

\* A loop has a run.
LEMMA RunExists ==
  ASSUME NEW n \in Nat, NEW V, NEW v0 \in V, NEW turn, Turns(n, V, turn)
  PROVE  \E f : IsRun(n, V, v0, turn, f)
<1> DEFINE P == {m \in 0..n : \E f : IsRun(m, V, v0, turn, f)}
<1>1. 0 \in P
  <2>1. IsRun(0, V, v0, turn, [i \in 0..0 |-> v0])
    BY DEF IsRun
  <2> QED
    BY <2>1
<1>2. ASSUME NEW m \in 1..n, m - 1 \in P
      PROVE  m \in P
  <2>1. PICK f : IsRun(m - 1, V, v0, turn, f)
    BY <1>2
  <2> DEFINE g == [i \in 0..m |-> IF i = m THEN turn[m][f[m - 1]] ELSE f[i]]
  <2>2. g \in [0..m -> V] /\ g[0] = v0
    BY <2>1 DEF IsRun, Turns
  <2>3. ASSUME NEW i \in 1..m
        PROVE  g[i] = turn[i][g[i - 1]]
    BY <2>1 DEF IsRun
  <2>4. IsRun(m, V, v0, turn, g)
    BY <2>2, <2>3 DEF IsRun
  <2> QED
    BY <2>4
<1>3. P = 0..n
  <2> HIDE DEF P
  <2>1. P \in SUBSET (0..n)
    BY DEF P
  <2> QED
    BY <1>1, <1>2, <2>1, LoopInduction
<1> QED
  BY <1>3

-----------------------------------------------------------------------------
\* The counting sort.

\* The scatter after i turns.
ScatterTurn(S, f, i) == IF i \in S THEN Append(f[i - 1], i) ELSE f[i - 1]

IsScatter(n, S, f) == f = [i \in 0..n |-> IF i = 0 THEN <<>> ELSE ScatterTurn(S, f, i)]

\* The scatter's recursion has a value.
LEMMA ScatterRuns ==
  ASSUME NEW n \in Nat, NEW S \in SUBSET (1..n)
  PROVE  \E f : IsScatter(n, S, f)
<1> DEFINE V == Seq(S)
           turn == [i \in 1..n |-> [v \in Seq(S) |-> IF i \in S THEN Append(v, i) ELSE v]]
<1>1. <<>> \in V /\ Turns(n, V, turn)
  BY DEF Turns
<1>2. \A i \in 1..n : \A v \in V : turn[i][v] = IF i \in S THEN Append(v, i) ELSE v
  OBVIOUS
<1> HIDE DEF V, turn
<1>3. PICK f : IsRun(n, V, <<>>, turn, f)
  BY <1>1, RunExists
<1>4. \A i \in 1..n : f[i - 1] \in V
  BY <1>3 DEF IsRun
<1>5. \A i \in 1..n : f[i] = ScatterTurn(S, f, i)
  BY <1>2, <1>3, <1>4 DEF IsRun, ScatterTurn
<1>6. f = [i \in 0..n |-> f[i]] /\ f[0] = <<>>
  BY <1>3 DEF IsRun
<1>7. \A i \in 0..n : f[i] = IF i = 0 THEN <<>> ELSE ScatterTurn(S, f, i)
  BY <1>5, <1>6
<1>8. IsScatter(n, S, f)
  BY <1>6, <1>7, Zenon DEF IsScatter
<1> QED
  BY <1>8

\* The sequence s holds the members of S, each once, in increasing order.
InOrder(s, S) ==
  /\ s \in Seq(S) /\ Len(s) = Cardinality(S)
  /\ \A j, k \in 1..Len(s) : j < k => s[j] < s[k]
  /\ \A i \in S : \E j \in 1..Len(s) : s[j] = i

\* The scatter puts the positions of S in order, each once.
LEMMA ScatterInOrder ==
  ASSUME NEW n \in Nat, NEW S \in SUBSET (1..n)
  PROVE  InOrder(Scatter(n, S), S)
<1> DEFINE h == CHOOSE f : IsScatter(n, S, f)
           upto(i) == S \cap (1..i)
           P == {i \in 0..n : InOrder(h[i], upto(i))}
<1>1. Scatter(n, S) = h[n]
  BY DEF Scatter, IsScatter, ScatterTurn
<1>2. IsScatter(n, S, h)
  BY ScatterRuns
<1> HIDE DEF h
<1>3. h[0] = <<>> /\ \A i \in 1..n : h[i] = ScatterTurn(S, h, i)
  BY <1>2 DEF IsScatter
<1>4. \A i \in 0..n : IsFiniteSet(upto(i))
  <2>1. \A i \in 0..n : upto(i) \in SUBSET (1..n)
    OBVIOUS
  <2>2. IsFiniteSet(1..n)
    BY FS_Interval
  <2> HIDE DEF upto
  <2> QED
    BY <2>1, <2>2, FS_Subset
<1>5. 0 \in P
  <2>1. upto(0) = {}
    OBVIOUS
  <2>2. InOrder(<<>>, {})
    BY FS_EmptySet DEF InOrder
  <2> QED
    BY <1>3, <2>1, <2>2
<1>6. ASSUME NEW i \in 1..n, i - 1 \in P
      PROVE  i \in P
  <2>1. InOrder(h[i - 1], upto(i - 1)) /\ i - 1 \in 0..n
    BY <1>6
  <2>2. CASE i \notin S
    <3>1. upto(i) = upto(i - 1) /\ h[i] = h[i - 1]
      BY <1>3, <2>2 DEF ScatterTurn
    <3> QED
      BY <2>1, <3>1
  <2>3. CASE i \in S
    <3> DEFINE s == h[i - 1]
               A == upto(i - 1)
    <3>1. upto(i) = A \cup {i} /\ i \notin A /\ \A j \in A : j \in Nat /\ j < i
      BY <2>3
    <3>2. h[i] = Append(s, i)
      BY <1>3, <2>3 DEF ScatterTurn
    <3>3. Cardinality(A \cup {i}) = Cardinality(A) + 1
      BY <1>4, <2>1, <3>1, FS_AddElement
    <3>4. InOrder(s, A)
      BY <2>1
    <3> HIDE DEF s, A, upto, P
    <3>5. /\ Append(s, i) \in Seq(A \cup {i})
          /\ Len(Append(s, i)) = Len(s) + 1 /\ Len(s) \in Nat
          /\ \A j \in 1..Len(s) : Append(s, i)[j] = s[j] /\ s[j] \in A
          /\ Append(s, i)[Len(s) + 1] = i
      <4>1. s \in Seq(A) /\ s \in Seq(A \cup {i}) /\ i \in A \cup {i}
        BY <3>4 DEF InOrder
      <4> QED
        BY <4>1
    <3>6. \A j, k \in 1..(Len(s) + 1) : j < k => Append(s, i)[j] < Append(s, i)[k]
      <4> SUFFICES ASSUME NEW j \in 1..(Len(s) + 1), NEW k \in 1..(Len(s) + 1), j < k
                   PROVE  Append(s, i)[j] < Append(s, i)[k]
        OBVIOUS
      <4>1. CASE k = Len(s) + 1
        BY <3>1, <3>5, <4>1
      <4>2. CASE k \in 1..Len(s)
        BY <3>4, <3>5, <4>2 DEF InOrder
      <4> QED
        BY <3>5, <4>1, <4>2
    <3>7. \A x \in A \cup {i} : \E j \in 1..(Len(s) + 1) : Append(s, i)[j] = x
      <4>1. \A x \in A : \E j \in 1..Len(s) : s[j] = x
        BY <3>4 DEF InOrder
      <4> QED
        BY <3>5, <4>1
    <3>8. InOrder(h[i], upto(i))
      BY <3>1, <3>2, <3>3, <3>4, <3>5, <3>6, <3>7 DEF InOrder
    <3> QED
      BY <3>8 DEF P
  <2> QED
    BY <2>2, <2>3
<1>7. P = 0..n
  <2>1. P \in SUBSET (0..n)
    OBVIOUS
  <2> HIDE DEF P
  <2> QED
    BY <1>5, <1>6, <2>1, LoopInduction
<1>8. upto(n) = S
  OBVIOUS
<1> QED
  BY <1>1, <1>7, <1>8

\* A histogram's counts of the keys below c and of those equal to it.
NumBelow(n, key, c) == Cardinality({i \in 1..n : key[i] < c})
NumEqual(n, key, c) == Cardinality({i \in 1..n : key[i] = c})

\* Counting the keys below c + 1 adds those equal to c to those below c.
LEMMA CountBelow ==
  ASSUME NEW n \in Nat, NEW key, \A i \in 1..n : key[i] \in Int, NEW c \in Int
  PROVE  /\ NumBelow(n, key, c) \in Nat /\ NumEqual(n, key, c) \in Nat
         /\ NumBelow(n, key, c + 1) = NumBelow(n, key, c) + NumEqual(n, key, c)
<1> DEFINE A == {i \in 1..n : key[i] < c}
           B == {i \in 1..n : key[i] = c}
<1>1. {i \in 1..n : key[i] < c + 1} = A \cup B /\ A \cap B = {}
  OBVIOUS
<1>2. IsFiniteSet(A) /\ IsFiniteSet(B)
  <2>1. IsFiniteSet(1..n) /\ A \in SUBSET (1..n) /\ B \in SUBSET (1..n)
    BY FS_Interval
  <2> HIDE DEF A, B
  <2> QED
    BY <2>1, FS_Subset
<1> HIDE DEF A, B
<1>3. Cardinality(A) \in Nat /\ Cardinality(B) \in Nat
  BY <1>2, FS_CardinalityType
<1>4. Cardinality(A \cup B) = Cardinality(A) + Cardinality(B)
  <2>1. Cardinality(A \cup B) = Cardinality(A) + Cardinality(B) - Cardinality(A \cap B)
    BY <1>2, FS_Union
  <2>2. Cardinality(A \cap B) = 0
    BY <1>1, FS_EmptySet
  <2> QED
    BY <1>3, <2>1, <2>2
<1> QED
  BY <1>1, <1>3, <1>4 DEF A, B, NumBelow, NumEqual

\* One of each k of m rows, at a stride of m \div k, is a row.
LEMMA EvenlySpaced ==
  ASSUME NEW m \in Nat, NEW k \in 1..m, NEW i \in 0..(k - 1)
  PROVE  i * (m \div k) + 1 \in 1..m
<1> DEFINE stride == m \div k
<1>1. stride \in Nat /\ k * stride <= m
  OBVIOUS
<1> HIDE DEF stride
<1>2. i * stride <= (k - 1) * stride /\ (k - 1) * stride + stride = k * stride
      /\ i * stride \in Nat /\ k * stride \in Nat /\ (k - 1) * stride \in Nat
  BY <1>1
<1>3. i * stride + 1 <= m
  <2>1. CASE stride = 0
    BY <2>1
  <2>2. CASE stride > 0
    BY <1>1, <1>2, <2>2
  <2> QED
    BY <1>1, <2>1, <2>2
<1> QED
  BY <1>2, <1>3 DEF stride

-----------------------------------------------------------------------------
\* The nearest centroid.

\* A quotient whose components are at most 1.0.
Centroid ==
  {e \in [sum : [Dim -> Int], cnt : Nat \ {0}] : \A d \in Dim : e.sum[d] <= Scale * e.cnt}

\* A square of a quotient's denominator is positive, and its numerator a number.
LEMMA QuotientTypes ==
  ASSUME NEW code \in [Dim -> Code], NEW a \in Centroid
  PROVE  CentroidNum(code, a) \in Int /\ Sq(a.cnt) \in Nat /\ Sq(a.cnt) > 0
<1> DEFINE t == [i \in Dim |-> Sq(dequant(code[i]) * a.cnt - a.sum[i])]
<1>1. \A u \in Code : dequant(u) \in Int
  BY ScaleNat DEF Code, MaxCode, dequant, Null
<1>2. ASSUME NEW i \in Dim
      PROVE  t[i] \in Int
  <2>1. dequant(code[i]) \in Int /\ a.cnt \in Int /\ a.sum[i] \in Int
    BY <1>1 DEF Centroid
  <2>2. \A x, y, z \in Int : Sq(x * y - z) \in Int
    BY DEF Sq
  <2> QED
    BY <2>1, <2>2
<1> HIDE DEF t
<1>3. Sum14(t) \in Int
  BY <1>2 DEF Sum14, Dim
<1>4. CentroidNum(code, a) \in Int
  BY <1>3 DEF CentroidNum, t
<1>5. \A x \in Nat \ {0} : Sq(x) \in Nat /\ Sq(x) > 0
  BY DEF Sq
<1> QED
  BY <1>4, <1>5 DEF Centroid

\* Comparing two quotients by cross multiplication is a strict weak order: if
\* neither x < y nor z < y then x = y = z cannot be split.
LEMMA CrossMultiply ==
  ASSUME NEW x \in Int, NEW y \in Int, NEW z \in Int,
         NEW p \in Nat, NEW q \in Nat, NEW r \in Nat, p > 0, q > 0, r > 0,
         x * q < y * p, ~(z * q < y * r)
  PROVE  x * r < z * p
<1>1. (x * q) * r < (y * p) * r
  <2>1. \A a, b \in Int : a < b => a * r < b * r
    OBVIOUS
  <2> QED
    BY <2>1
<1>2. (y * r) * p <= (z * q) * p
  <2>1. \A a, b \in Int : a <= b => a * p <= b * p
    OBVIOUS
  <2>2. y * r <= z * q
    OBVIOUS
  <2> QED
    BY <2>1, <2>2
<1>3. (x * r) * q < (z * p) * q
  <2>1. (x * q) * r = (x * r) * q /\ (y * p) * r = (y * r) * p /\ (z * q) * p = (z * p) * q
    OBVIOUS
  <2>2. (x * r) * q \in Int /\ (y * r) * p \in Int /\ (z * p) * q \in Int
    OBVIOUS
  <2> QED
    BY <1>1, <1>2, <2>1, <2>2
<1>4. \A a, b \in Int : ~(a < b) => ~(a * q < b * q)
  OBVIOUS
<1> QED
  BY <1>3, <1>4

\* Nearer is a strict order in which what is not nearer than b is farther than
\* all that is nearer than b.
LEMMA NearerOrder ==
  ASSUME NEW code \in [Dim -> Code]
  PROVE  /\ \A a, b \in Centroid : Nearer(code, a, b) => ~Nearer(code, b, a)
         /\ \A a, b, z \in Centroid :
              Nearer(code, a, b) /\ ~Nearer(code, z, b) => Nearer(code, a, z)
<1>1. \A a \in Centroid : /\ CentroidNum(code, a) \in Int
                          /\ Sq(a.cnt) \in Nat /\ Sq(a.cnt) > 0
  BY QuotientTypes
<1>2. ASSUME NEW a \in Centroid, NEW b \in Centroid, Nearer(code, a, b)
      PROVE  ~Nearer(code, b, a)
  <2> DEFINE u == CentroidNum(code, a) * Sq(b.cnt)
             v == CentroidNum(code, b) * Sq(a.cnt)
  <2>1. u \in Int /\ v \in Int
    BY <1>1
  <2>2. u < v
    BY <1>2 DEF Nearer
  <2>3. Nearer(code, b, a) => v < u
    BY DEF Nearer
  <2> HIDE DEF u, v
  <2> QED
    BY <2>1, <2>2, <2>3
<1>3. ASSUME NEW a \in Centroid, NEW b \in Centroid, NEW z \in Centroid,
             Nearer(code, a, b), ~Nearer(code, z, b)
      PROVE  Nearer(code, a, z)
  <2>1. CentroidNum(code, a) * Sq(b.cnt) < CentroidNum(code, b) * Sq(a.cnt)
    BY <1>3 DEF Nearer
  <2>2. ~(CentroidNum(code, z) * Sq(b.cnt) < CentroidNum(code, b) * Sq(z.cnt))
    BY <1>3 DEF Nearer
  <2>3. CentroidNum(code, a) * Sq(z.cnt) < CentroidNum(code, z) * Sq(a.cnt)
    BY <1>1, <2>1, <2>2, CrossMultiply
  <2> QED
    BY <2>3 DEF Nearer
<1> QED
  BY <1>2, <1>3

\* Cell c of the centroids cs has the nearest, the first of those as near.
IsNearest(cs, code, c) ==
  /\ c \in DOMAIN cs
  /\ \A o \in DOMAIN cs : ~Nearer(code, cs[o], cs[c])
  /\ \A o \in 0..(c - 1) : Nearer(code, cs[c], cs[o])

\* The walk along the centroids after turn c.
WalkTurn(code, f, c) == IF Nearer(code, cents[c], cents[f[c - 1]]) THEN c ELSE f[c - 1]

IsWalk(code, f) ==
  f = [c \in DOMAIN cents |-> IF c = 0 THEN 0 ELSE WalkTurn(code, f, c)]

\* The walk's recursion has a value.
LEMMA WalkRuns ==
  ASSUME NEW m \in Nat \ {0}, cents \in [0..(m - 1) -> Centroid], NEW code
  PROVE  \E f : IsWalk(code, f)
<1> DEFINE V == 0..(m - 1)
           turn == [i \in 1..(m - 1) |->
                     [v \in 0..(m - 1) |-> IF Nearer(code, cents[i], cents[v]) THEN i ELSE v]]
<1>1. 0 \in V /\ m - 1 \in Nat /\ Turns(m - 1, V, turn)
  BY DEF Turns
<1>2. \A i \in 1..(m - 1) : \A v \in V :
        turn[i][v] = IF Nearer(code, cents[i], cents[v]) THEN i ELSE v
  OBVIOUS
<1> HIDE DEF V, turn
<1>3. PICK f : IsRun(m - 1, V, 0, turn, f)
  BY <1>1, RunExists
<1>4. \A i \in 1..(m - 1) : f[i - 1] \in V
  BY <1>3 DEF IsRun
<1>5. \A i \in 1..(m - 1) : f[i] = WalkTurn(code, f, i)
  BY <1>2, <1>3, <1>4 DEF IsRun, WalkTurn
<1>6. f = [i \in DOMAIN cents |-> f[i]] /\ f[0] = 0
  BY <1>3 DEF IsRun
<1>7. \A i \in DOMAIN cents : f[i] = IF i = 0 THEN 0 ELSE WalkTurn(code, f, i)
  BY <1>5, <1>6
<1>8. IsWalk(code, f)
  BY <1>6, <1>7, Zenon DEF IsWalk
<1> QED
  BY <1>8

\* kmeans.nearest returns the one centroid that none beats and that beats all
\* those before it.
LEMMA NearestIs ==
  ASSUME NEW m \in Nat \ {0}, cents \in [0..(m - 1) -> Centroid], NEW code \in [Dim -> Code]
  PROVE  /\ Nearest(code) \in 0..(m - 1) /\ IsNearest(cents, code, Nearest(code))
         /\ \A c : IsNearest(cents, code, c) => c = Nearest(code)
<1> DEFINE h == CHOOSE f : IsWalk(code, f)
           P == {c \in 0..(m - 1) :
                  /\ h[c] \in 0..c
                  /\ \A o \in 0..c : ~Nearer(code, cents[o], cents[h[c]])
                  /\ \A o \in 0..(h[c] - 1) : Nearer(code, cents[h[c]], cents[o])}
<1>1. DOMAIN cents = 0..(m - 1) /\ Cardinality(DOMAIN cents) = m
  BY FS_Interval
<1>2. Nearest(code) = h[m - 1]
  <2>1. Nearest(code) = h[Cardinality(DOMAIN cents) - 1]
    BY DEF Nearest, IsWalk, WalkTurn
  <2> QED
    BY <1>1, <2>1
<1>3. IsWalk(code, h)
  BY WalkRuns
<1> HIDE DEF h
<1>4. h[0] = 0 /\ \A c \in 1..(m - 1) : h[c] = WalkTurn(code, h, c)
  BY <1>1, <1>3 DEF IsWalk
<1>5. \A c \in 0..(m - 1) : cents[c] \in Centroid
  OBVIOUS
<1>6. \A a, b \in 0..(m - 1) : Nearer(code, cents[a], cents[b]) => ~Nearer(code, cents[b], cents[a])
  BY <1>5, NearerOrder
<1>7. \A a, b, z \in 0..(m - 1) :
        Nearer(code, cents[a], cents[b]) /\ ~Nearer(code, cents[z], cents[b])
          => Nearer(code, cents[a], cents[z])
  BY <1>5, NearerOrder
<1>8. 0 \in P
  <2>1. ~Nearer(code, cents[0], cents[0])
    BY <1>6
  <2> QED
    BY <1>4, <2>1
<1>9. ASSUME NEW c \in 1..(m - 1), c - 1 \in P
      PROVE  c \in P
  <2> DEFINE b == h[c - 1]
  <2>1. /\ b \in 0..(c - 1)
        /\ \A o \in 0..(c - 1) : ~Nearer(code, cents[o], cents[b])
        /\ \A o \in 0..(b - 1) : Nearer(code, cents[b], cents[o])
    BY <1>9
  <2>2. h[c] = IF Nearer(code, cents[c], cents[b]) THEN c ELSE b
    BY <1>4 DEF WalkTurn
  <2> HIDE DEF b
  <2>3. CASE Nearer(code, cents[c], cents[b])
    <3>1. \A o \in 0..(c - 1) : Nearer(code, cents[c], cents[o])
      BY <1>7, <2>1, <2>3
    <3>2. \A o \in 0..(c - 1) : ~Nearer(code, cents[o], cents[c])
      BY <1>6, <3>1
    <3>3. ~Nearer(code, cents[c], cents[c])
      BY <1>6
    <3> QED
      BY <2>2, <2>3, <3>1, <3>2, <3>3
  <2>4. CASE ~Nearer(code, cents[c], cents[b])
    BY <2>1, <2>2, <2>4
  <2> QED
    BY <2>3, <2>4
<1>10. P = 0..(m - 1)
  <2>1. P \in SUBSET (0..(m - 1)) /\ m - 1 \in Nat
    OBVIOUS
  <2> HIDE DEF P
  <2> QED
    BY <1>8, <1>9, <2>1, LoopInduction
<1>11. m - 1 \in P
  <2> HIDE DEF P
  <2> QED
    BY <1>10
<1>12. Nearest(code) \in 0..(m - 1) /\ IsNearest(cents, code, Nearest(code))
  BY <1>1, <1>2, <1>11 DEF IsNearest
<1>13. ASSUME NEW c, IsNearest(cents, code, c)
       PROVE  c = Nearest(code)
  <2> DEFINE b == Nearest(code)
  <2>1. c \in 0..(m - 1) /\ b \in 0..(m - 1)
    BY <1>1, <1>12, <1>13 DEF IsNearest
  <2>2. IsNearest(cents, code, b)
    BY <1>12
  <2> HIDE DEF b, P
  <2>3. ~(c < b) /\ ~(b < c)
    BY <1>1, <1>6, <1>13, <2>1, <2>2 DEF IsNearest
  <2> QED
    BY <2>1, <2>3 DEF b
<1> QED
  BY <1>12, <1>13

-----------------------------------------------------------------------------
\* The runs of the cells laid end to end.

\* The elements of s, then those of t.
Joined(S, s, t, u) ==
  /\ u \in Seq(S) /\ Len(s) \in Nat /\ Len(t) \in Nat /\ Len(u) = Len(s) + Len(t)
  /\ \A p \in 1..Len(s) : u[p] = s[p]
  /\ \A p \in 1..Len(t) : Len(s) + p \in 1..Len(u) /\ u[Len(s) + p] = t[p]

\* What a concatenation holds, and where.
LEMMA Concatenated ==
  ASSUME NEW S, NEW s \in Seq(S), NEW t \in Seq(S)
  PROVE  Joined(S, s, t, s \o t)
<1>1. /\ s \o t \in Seq(S) /\ Len(s \o t) = Len(s) + Len(t)
      /\ \A i \in 1..(Len(s) + Len(t)) :
           (s \o t)[i] = IF i <= Len(s) THEN s[i] ELSE t[i - Len(s)]
  BY ConcatProperties
<1>2. Len(s) \in Nat /\ Len(t) \in Nat
  OBVIOUS
<1>3. \A p \in 1..Len(s) : p \in 1..(Len(s) + Len(t)) /\ p <= Len(s)
  BY <1>2
<1>4. \A p \in 1..Len(t) : /\ Len(s) + p \in 1..(Len(s) + Len(t)) /\ ~(Len(s) + p <= Len(s))
                          /\ (Len(s) + p) - Len(s) = p
  BY <1>2
<1>5. \A p \in 1..Len(s) : (s \o t)[p] = s[p]
  BY <1>1, <1>3, Zenon
<1>6. \A p \in 1..Len(t) : Len(s) + p \in 1..Len(s \o t) /\ (s \o t)[Len(s) + p] = t[p]
  BY <1>1, <1>4, Zenon
<1> QED
  BY <1>1, <1>2, <1>5, <1>6 DEF Joined

IsFlatten(runs, f) ==
  f = [i \in 1..Len(runs) |-> IF i = 1 THEN runs[i] ELSE f[i - 1] \o runs[i]]

\* The concatenation's recursion has a value.
LEMMA FlattenRuns ==
  ASSUME NEW n \in Nat \ {0}, NEW S, NEW runs \in [1..n -> Seq(S)]
  PROVE  \E f : IsFlatten(runs, f)
<1> DEFINE V == Seq(S)
           turn == [i \in 1..n |-> [v \in Seq(S) |-> v \o runs[i]]]
<1>1. <<>> \in V /\ Turns(n, V, turn)
  BY DEF Turns
<1>2. \A i \in 1..n : \A v \in V : turn[i][v] = v \o runs[i]
  OBVIOUS
<1> HIDE DEF V, turn
<1>3. PICK f : IsRun(n, V, <<>>, turn, f)
  BY <1>1, RunExists
<1> DEFINE g == [i \in 1..n |-> f[i]]
<1>4. \A i \in 1..n : f[i] = f[i - 1] \o runs[i]
  <2>1. \A i \in 1..n : f[i - 1] \in V
    BY <1>3 DEF IsRun
  <2> QED
    BY <1>2, <1>3, <2>1 DEF IsRun
<1>5. f[1] = runs[1]
  <2>1. f[0] = <<>>
    BY <1>3 DEF IsRun
  <2>2. f[1] = f[0] \o runs[1]
    <3>1. 1 \in 1..n /\ 1 - 1 = 0
      OBVIOUS
    <3> HIDE DEF g
    <3>2. f[1] = f[1 - 1] \o runs[1]
      BY <1>4, <3>1, Zenon
    <3> QED
      BY <3>1, <3>2, Zenon
  <2>3. runs[1] \in Seq(S)
    OBVIOUS
  <2> QED
    BY <2>1, <2>2, <2>3, ConcatEmptySeq
<1>6. ASSUME NEW i \in 1..n
      PROVE  g[i] = IF i = 1 THEN runs[i] ELSE g[i - 1] \o runs[i]
  <2>1. CASE i = 1
    BY <1>5, <2>1
  <2>2. CASE i # 1
    <3>1. i - 1 \in 1..n
      BY <2>2
    <3>2. g[i] = f[i] /\ g[i - 1] = f[i - 1]
      BY <3>1
    <3> QED
      BY <1>4, <2>2, <3>2
  <2> QED
    BY <2>1, <2>2
<1>7. g = [i \in 1..n |-> g[i]] /\ Len(runs) = n
  OBVIOUS
<1> HIDE DEF g
<1>8. IsFlatten(runs, g)
  BY <1>6, <1>7, Zenon DEF IsFlatten
<1> QED
  BY <1>8

\* The first m runs are laid end to end in s, run c from offset off[c - 1].
LaidOut(S, runs, off, m, s) ==
  /\ s \in Seq(S) /\ Len(s) = off[m]
  /\ \A c \in 1..m : \A j \in 1..Len(runs[c]) :
       off[c - 1] + j \in 1..Len(s) /\ s[off[c - 1] + j] = runs[c][j]

\* Run c of a concatenation begins at offset off[c - 1], the length of those
\* before it, and its elements follow one another from there.
LEMMA FlattenFacts ==
  ASSUME NEW n \in Nat \ {0}, NEW S, NEW runs \in [1..n -> Seq(S)],
         NEW off \in [0..n -> Nat], off[0] = 0,
         \A c \in 1..n : off[c] = off[c - 1] + Len(runs[c])
  PROVE  LaidOut(S, runs, off, n, FlattenSeq(runs))
<1> DEFINE h == CHOOSE f : IsFlatten(runs, f)
           P == {m \in 0..(n - 1) : LaidOut(S, runs, off, m + 1, h[m + 1])}
<1>1. Len(runs) = n
  OBVIOUS
<1>2. FlattenSeq(runs) = h[n]
  BY <1>1 DEF FlattenSeq, IsFlatten
<1>3. IsFlatten(runs, h)
  BY FlattenRuns
<1> HIDE DEF h
<1>4. h[1] = runs[1] /\ \A i \in 2..n : h[i] = h[i - 1] \o runs[i]
  <2> HIDE DEF P
  <2>1. \A i \in 1..n : h[i] = IF i = 1 THEN runs[i] ELSE h[i - 1] \o runs[i]
    <3>1. h = [i \in 1..n |-> IF i = 1 THEN runs[i] ELSE h[i - 1] \o runs[i]]
      BY <1>1, <1>3, Zenon DEF IsFlatten
    <3> QED
      BY <3>1, Zenon
  <2>2. 1 \in 1..n /\ \A i \in 2..n : i \in 1..n /\ i # 1
    OBVIOUS
  <2> QED
    BY <2>1, <2>2, Zenon
<1>5. \A c \in 1..n : runs[c] \in Seq(S) /\ Len(runs[c]) \in Nat
  OBVIOUS
<1>6. 0 \in P
  <2>1. LaidOut(S, runs, off, 1, runs[1])
    BY <1>5 DEF LaidOut
  <2> QED
    BY <1>4, <2>1
<1>7. ASSUME NEW m \in 1..(n - 1), m - 1 \in P
      PROVE  m \in P
  <2> DEFINE s == h[m]
             t == runs[m + 1]
  <2>1. LaidOut(S, runs, off, m, s)
    BY <1>7
  <2>2. h[m + 1] = s \o t
    <3>1. m + 1 \in 2..n /\ (m + 1) - 1 = m
      OBVIOUS
    <3> QED
      BY <1>4, <3>1
  <2>3. t \in Seq(S) /\ Len(t) \in Nat /\ off[m] \in Nat /\ off[m + 1] = off[m] + Len(t)
    BY <1>5
  <2> HIDE DEF s, t, P
  <2>9. /\ s \o t \in Seq(S) /\ Len(s \o t) = Len(s) + Len(t)
        /\ \A i \in 1..(Len(s) + Len(t)) :
             (s \o t)[i] = IF i <= Len(s) THEN s[i] ELSE t[i - Len(s)]
    <3>1. s \in Seq(S)
      BY <2>1 DEF LaidOut
    <3> QED
      BY <2>3, <3>1, ConcatProperties
  <2>4. s \o t \in Seq(S) /\ Len(s \o t) = off[m + 1]
    BY <2>1, <2>3, <2>9 DEF LaidOut
  <2>5. ASSUME NEW c \in 1..m, NEW j \in 1..Len(runs[c])
        PROVE  off[c - 1] + j \in 1..Len(s \o t) /\ (s \o t)[off[c - 1] + j] = runs[c][j]
    <3> DEFINE k == off[c - 1] + j
    <3>1. k \in 1..Len(s) /\ s[k] = runs[c][j]
      BY <2>1, Zenon DEF LaidOut
    <3>2. Len(s) \in Nat
      <4>1. s \in Seq(S)
        BY <2>1 DEF LaidOut
      <4> QED
        BY <4>1, LenProperties
    <3> HIDE DEF k
    <3>3. k \in 1..(Len(s) + Len(t)) /\ k <= Len(s)
      BY <2>3, <3>1, <3>2
    <3>4. k \in 1..Len(s \o t) /\ (s \o t)[k] = runs[c][j]
      BY <2>9, <3>1, <3>3, Zenon
    <3> QED
      BY <3>4 DEF k
  <2>6. ASSUME NEW j \in 1..Len(t)
        PROVE  off[m] + j \in 1..Len(s \o t) /\ (s \o t)[off[m] + j] = t[j]
    <3>1. Len(s) = off[m]
      BY <2>1 DEF LaidOut
    <3> DEFINE k == off[m] + j
    <3>2. k \in 1..(Len(s) + Len(t)) /\ ~(k <= Len(s)) /\ k - Len(s) = j
      <4>1. \A a, b \in Nat : \A i \in 1..b :
              a + i \in 1..(a + b) /\ ~(a + i <= a) /\ (a + i) - a = i
        OBVIOUS
      <4>2. off[m] \in Nat /\ Len(t) \in Nat
        BY <2>3
      <4>3. /\ off[m] + j \in 1..(off[m] + Len(t)) /\ ~(off[m] + j <= off[m])
            /\ (off[m] + j) - off[m] = j
        BY <4>1, <4>2, Zenon
      <4> QED
        BY <3>1, <4>3, Zenon
    <3> HIDE DEF k
    <3>3. k \in 1..Len(s \o t) /\ (s \o t)[k] = t[j]
      BY <2>9, <3>2
    <3> QED
      BY <3>3 DEF k
  <2>7. LaidOut(S, runs, off, m + 1, s \o t)
    <3>1. \A c \in 1..(m + 1) : c \in 1..m \/ c = m + 1
      OBVIOUS
    <3>2. (m + 1) - 1 = m /\ t = runs[m + 1]
      BY DEF t
    <3> QED
      BY <2>4, <2>5, <2>6, <3>1, <3>2 DEF LaidOut
  <2>8. m \in 0..(n - 1)
    OBVIOUS
  <2> QED
    BY <2>2, <2>7, <2>8 DEF P
<1>8. P = 0..(n - 1)
  <2>1. P \in SUBSET (0..(n - 1)) /\ n - 1 \in Nat
    OBVIOUS
  <2> HIDE DEF P
  <2> QED
    BY <1>6, <1>7, <2>1, LoopInduction
<1>9. n - 1 \in P /\ (n - 1) + 1 = n
  <2> HIDE DEF P
  <2> QED
    BY <1>8
<1> QED
  BY <1>2, <1>9

\* What is below the last of rising offsets lies between two that follow one another.
LEMMA BetweenOffsets ==
  ASSUME NEW n \in Nat, NEW off \in [0..n -> Nat], off[0] = 0, NEW p \in Nat, p < off[n]
  PROVE  \E c \in 1..n : off[c - 1] <= p /\ p < off[c]
<1> DEFINE P == {c \in 0..n : off[c] <= p}
<1> SUFFICES ASSUME ~ \E c \in 1..n : off[c - 1] <= p /\ p < off[c]
             PROVE  FALSE
  OBVIOUS
<1>1. 0 \in P /\ P \in SUBSET (0..n)
  OBVIOUS
<1>2. \A c \in 1..n : c - 1 \in P => c \in P
  OBVIOUS
<1>3. P = 0..n
  <2> HIDE DEF P
  <2> QED
    BY <1>1, <1>2, LoopInduction
<1> QED
  BY <1>3

-----------------------------------------------------------------------------
\* The sums of k-means.

SumTurn(d, h, s) ==
  LET x == CHOOSE x \in s : TRUE IN dequant(BucketRows[x].code[d]) + h[s \ {x}]

IsSum(S, d, h) == h = [s \in SUBSET S |-> IF s = {} THEN 0 ELSE SumTurn(d, h, s)]

\* Taking the chosen element of a set away leaves one fewer.
LEMMA OneFewer ==
  ASSUME NEW S, IsFiniteSet(S), NEW s \in SUBSET S, s # {}
  PROVE  LET x == CHOOSE x \in s : TRUE
         IN  /\ x \in s /\ s \ {x} \in SUBSET S
             /\ Cardinality(s) \in Nat \ {0} /\ Cardinality(s \ {x}) = Cardinality(s) - 1
<1> DEFINE x == CHOOSE y \in s : TRUE
<1>1. x \in s
  OBVIOUS
<1> HIDE DEF x
<1>2. IsFiniteSet(s)
  BY FS_Subset
<1>3. Cardinality(s) \in Nat /\ Cardinality(s) # 0
  BY <1>2, FS_CardinalityType, FS_EmptySet
<1>4. Cardinality(s \ {x}) = Cardinality(s) - 1
  BY <1>1, <1>2, FS_RemoveElement
<1>5. x \in s /\ s \ {x} \in SUBSET S
      /\ Cardinality(s) \in Nat \ {0} /\ Cardinality(s \ {x}) = Cardinality(s) - 1
  BY <1>1, <1>3, <1>4
<1> QED
  BY <1>5 DEF x

\* The sum's recursion along the subsets has a value.
LEMMA SumRuns ==
  ASSUME NEW S, IsFiniteSet(S), NEW d, \A i \in S : dequant(BucketRows[i].code[d]) \in Int
  PROVE  \E h : IsSum(S, d, h)
<1> DEFINE n == Cardinality(S)
           V == [SUBSET S -> Int]
           next(v) == [s \in SUBSET S |-> IF s = {} THEN 0 ELSE SumTurn(d, v, s)]
           turn == [i \in 1..(n + 1) |-> [v \in V |-> next(v)]]
           zero == [s \in SUBSET S |-> 0]
<1>1. n \in Nat /\ n + 1 \in Nat
  BY FS_CardinalityType
<1>2. ASSUME NEW v \in V
      PROVE  next(v) \in V
  <2>1. ASSUME NEW s \in SUBSET S, s # {}
        PROVE  SumTurn(d, v, s) \in Int
    <3> DEFINE x == CHOOSE x \in s : TRUE
    <3>1. x \in s /\ s \ {x} \in SUBSET S
      BY <2>1
    <3>2. SumTurn(d, v, s) = dequant(BucketRows[x].code[d]) + v[s \ {x}]
      BY DEF SumTurn
    <3> HIDE DEF x
    <3>3. dequant(BucketRows[x].code[d]) \in Int /\ v[s \ {x}] \in Int
      BY <3>1
    <3> QED
      BY <3>2, <3>3
  <2> QED
    BY <2>1
<1>3. zero \in V
  OBVIOUS
<1>4. Turns(n + 1, V, turn) /\ \A i \in 1..(n + 1) : \A v \in V : turn[i][v] = next(v)
  <2> HIDE DEF next, V, n
  <2> QED
    BY <1>2 DEF Turns
<1> HIDE DEF V, turn, zero, n
<1>5. PICK f : IsRun(n + 1, V, zero, turn, f)
  BY <1>1, <1>3, <1>4, RunExists
<1>6. /\ f[0] = zero /\ \A i \in 0..(n + 1) : f[i] \in V
      /\ \A i \in 1..(n + 1) : f[i] = next(f[i - 1])
  <2> HIDE DEF next
  <2>1. f \in [0..(n + 1) -> V] /\ f[0] = zero
    BY <1>5 DEF IsRun
  <2>2. \A i \in 1..(n + 1) : i - 1 \in 0..(n + 1)
    BY <1>1
  <2>3. \A i \in 1..(n + 1) : f[i] = turn[i][f[i - 1]]
    BY <1>5 DEF IsRun
  <2> QED
    BY <1>4, <2>1, <2>2, <2>3
<1> DEFINE P == {i \in 0..n : \A s \in SUBSET S : Cardinality(s) <= i => f[i][s] = f[i + 1][s]}
<1>7. \A s \in SUBSET S : Cardinality(s) \in Nat /\ (Cardinality(s) = 0 => s = {})
  BY FS_Subset, FS_CardinalityType, FS_EmptySet
<1>8. \A i \in 1..(n + 1) : \A s \in SUBSET S :
        f[i][s] = IF s = {} THEN 0 ELSE SumTurn(d, f[i - 1], s)
  BY <1>6
<1>9. 0 \in P
  <2>1. 1 \in 1..(n + 1) /\ 0 + 1 = 1 /\ 0 \in 0..n
    BY <1>1
  <2>2. f[0][{}] = 0 /\ f[1][{}] = 0
    BY <1>6, <1>8, <2>1 DEF zero
  <2>3. \A s \in SUBSET S : Cardinality(s) <= 0 => s = {}
    BY <1>7
  <2> QED
    BY <2>1, <2>2, <2>3
<1>10. ASSUME NEW i \in 1..n, i - 1 \in P
       PROVE  i \in P
  <2>1. ASSUME NEW s \in SUBSET S, Cardinality(s) <= i, s # {}
        PROVE  f[i][s] = f[i + 1][s]
    <3> DEFINE x == CHOOSE x \in s : TRUE
               t == s \ {x}
    <3>1. t \in SUBSET S /\ Cardinality(s) \in Nat /\ Cardinality(t) = Cardinality(s) - 1
      BY <2>1, OneFewer
    <3>2. SumTurn(d, f[i - 1], s) = dequant(BucketRows[x].code[d]) + f[i - 1][t]
          /\ SumTurn(d, f[i], s) = dequant(BucketRows[x].code[d]) + f[i][t]
      BY DEF SumTurn
    <3>3. i \in 1..(n + 1) /\ i + 1 \in 1..(n + 1) /\ (i + 1) - 1 = i /\ (i - 1) + 1 = i
      BY <1>1
    <3> HIDE DEF t, x
    <3>4. f[i - 1][t] = f[i][t]
      <4>1. Cardinality(t) <= i - 1
        BY <2>1, <3>1
      <4> QED
        BY <1>10, <3>1, <3>3, <4>1
    <3> HIDE DEF P
    <3>5. f[i][s] = SumTurn(d, f[i - 1], s) /\ f[i + 1][s] = SumTurn(d, f[i], s)
      BY <1>8, <2>1, <3>3
    <3> QED
      BY <3>2, <3>4, <3>5
  <2>2. f[i][{}] = 0 /\ f[i + 1][{}] = 0
    <3>1. i \in 1..(n + 1) /\ i + 1 \in 1..(n + 1) /\ {} \in SUBSET S
      BY <1>1
    <3> QED
      BY <1>8, <3>1
  <2>3. i \in 0..n
    BY <1>1
  <2>4. \A s \in SUBSET S : Cardinality(s) <= i => f[i][s] = f[i + 1][s]
    <3> HIDE DEF P
    <3> QED
      BY <2>1, <2>2
  <2> QED
    BY <2>3, <2>4
<1>11. P = 0..n
  <2>1. P \in SUBSET (0..n)
    OBVIOUS
  <2> HIDE DEF P
  <2> QED
    BY <1>1, <1>9, <1>10, <2>1, LoopInduction
<1>12. \A s \in SUBSET S : f[n][s] = f[n + 1][s]
  <2>1. n \in P
    <3> HIDE DEF P
    <3> QED
      BY <1>1, <1>11
  <2>2. \A s \in SUBSET S : Cardinality(s) <= n
    BY FS_Subset DEF n
  <2> QED
    BY <2>1, <2>2
<1>13. \A s \in SUBSET S : f[n][s] = IF s = {} THEN 0 ELSE SumTurn(d, f[n], s)
  <2>1. n + 1 \in 1..(n + 1) /\ (n + 1) - 1 = n
    BY <1>1
  <2> HIDE DEF P
  <2> QED
    BY <1>8, <1>12, <2>1
<1>14. f[n] = [s \in SUBSET S |-> f[n][s]]
  <2>1. f[n] \in V
    BY <1>1, <1>6
  <2> HIDE DEF P
  <2> QED
    BY <2>1 DEF V
<1>15. IsSum(S, d, f[n])
  <2> HIDE DEF P
  <2> QED
    BY <1>13, <1>14, Zenon DEF IsSum
<1> QED
  BY <1>15

\* The sum of a dimension over the members of a cell is a number, at most their
\* number times the largest.
LEMMA TotalBounded ==
  ASSUME NEW c, NEW d, IsFiniteSet(Members(c)), NEW M \in Int,
         \A i \in Members(c) :
           dequant(BucketRows[i].code[d]) \in Int /\ dequant(BucketRows[i].code[d]) <= M
  PROVE  Total(c, d) \in Int /\ Total(c, d) <= M * Cardinality(Members(c))
<1> DEFINE S == Members(c)
           n == Cardinality(S)
           h == CHOOSE f : IsSum(S, d, f)
           Good(s) == h[s] \in Int /\ h[s] <= M * Cardinality(s)
           P == {i \in 0..n : \A s \in SUBSET S : Cardinality(s) <= i => Good(s)}
<1>1. Total(c, d) = h[S]
  BY DEF Total, MapThenSumSet, MapThenFoldSet, IsSum, SumTurn
<1>2. IsSum(S, d, h)
  BY SumRuns
<1>3. n \in Nat
  BY FS_CardinalityType
<1> HIDE DEF h, S, n
<1>4. \A s \in SUBSET S : h[s] = IF s = {} THEN 0 ELSE SumTurn(d, h, s)
  <2>1. h = [s \in SUBSET S |-> IF s = {} THEN 0 ELSE SumTurn(d, h, s)]
    BY <1>2, Zenon DEF IsSum
  <2> QED
    BY <2>1, Zenon
<1>5. \A s \in SUBSET S : Cardinality(s) \in Nat /\ (Cardinality(s) = 0 => s = {})
  BY FS_Subset, FS_CardinalityType, FS_EmptySet DEF S
<1>10. \A s \in SUBSET S : s = {} => Good(s)
  <2>1. h[{}] = 0 /\ Cardinality({}) = 0 /\ M * 0 = 0
    BY <1>4, FS_EmptySet
  <2> QED
    BY <2>1
<1>6. 0 \in P
  <2> HIDE DEF Good
  <2>1. \A s \in SUBSET S : Cardinality(s) <= 0 => Good(s)
    BY <1>5, <1>10
  <2> QED
    BY <1>3, <2>1
<1>7. ASSUME NEW i \in 1..n, i - 1 \in P
      PROVE  i \in P
  <2>1. ASSUME NEW s \in SUBSET S, Cardinality(s) <= i, s # {}
        PROVE  Good(s)
    <3> DEFINE x == CHOOSE x \in s : TRUE
               t == s \ {x}
    <3>1. x \in s /\ t \in SUBSET S /\ Cardinality(s) \in Nat /\ Cardinality(t) = Cardinality(s) - 1
      BY <2>1, OneFewer DEF S
    <3>2. SumTurn(d, h, s) = dequant(BucketRows[x].code[d]) + h[t]
      BY DEF SumTurn
    <3> HIDE DEF t, x
    <3>3. h[t] \in Int /\ h[t] <= M * Cardinality(t)
      <4>1. Cardinality(t) <= i - 1
        BY <2>1, <3>1
      <4> QED
        BY <1>7, <3>1, <4>1
    <3>4. dequant(BucketRows[x].code[d]) \in Int /\ dequant(BucketRows[x].code[d]) <= M
      BY <2>1, <3>1 DEF S
    <3>5. h[s] = dequant(BucketRows[x].code[d]) + h[t]
      BY <1>4, <2>1, <3>2
    <3>6. \A k, l \in Int : l = k - 1 => M * l + M = M * k /\ M * l \in Int /\ M * k \in Int
      OBVIOUS
    <3>7. M * Cardinality(t) + M = M * Cardinality(s) /\ M * Cardinality(t) \in Int
          /\ M * Cardinality(s) \in Int
      <4>1. Cardinality(s) \in Int /\ Cardinality(t) \in Int
        BY <3>1
      <4> QED
        BY <3>1, <3>6, <4>1
    <3> HIDE DEF P
    <3> QED
      BY <3>3, <3>4, <3>5, <3>7
  <2>2. i \in 0..n
    BY <1>3
  <2>3. \A s \in SUBSET S : Cardinality(s) <= i => Good(s)
    <3> HIDE DEF P, Good
    <3> QED
      BY <2>1, <1>10
  <2> QED
    BY <2>2, <2>3
<1>8. P = 0..n
  <2>1. P \in SUBSET (0..n)
    OBVIOUS
  <2> HIDE DEF P
  <2> QED
    BY <1>3, <1>6, <1>7, <2>1, LoopInduction
<1>9. n \in P /\ S \in SUBSET S /\ Cardinality(S) <= n
  <2>1. n \in 0..n /\ Cardinality(S) <= n
    BY <1>3 DEF n
  <2> HIDE DEF P
  <2> QED
    BY <1>8, <2>1
<1>11. Good(S)
  <2> HIDE DEF Good
  <2> QED
    BY <1>9
<1> QED
  BY <1>1, <1>11 DEF S

-----------------------------------------------------------------------------
\* The inductive invariant.

\* A row as the builder keeps it.
Entry == [code : [Dim -> Code], bucket : Bucket, fraud : BOOLEAN, added : Nat]

\* The rows are those added, in order.
RowsInv ==
  /\ rows \in Seq(Entry)
  /\ \A i \in 1..Len(rows) : rows[i].added = i

\* The centroids a bucket is given: never more than it has rows.
CentsOK == cents \in [0..(AtMost(NList, Size) - 1) -> Centroid]

\* Where a bucket is in its training, and what its assignment ranges over.
TrainInv ==
  /\ bk \in 0..NumBuckets
  /\ phase \in {"seed", "assign", "update", "fork", "final", "place", "built"}
  /\ phase = "built" <=> bk = NumBuckets
  /\ it \in 0..Iters
  /\ phase \in {"assign", "update"} => it < Iters
  /\ phase \in {"assign", "update", "fork", "final"} => Size > 0
  /\ phase \in {"assign", "update", "fork", "final", "place"} => CentsOK
  /\ phase = "update" => own \in [Sample -> 0..(AtMost(NList, Size) - 1)]
  /\ phase \in {"final", "place"} => own \in [1..Size -> 0..(AtMost(NList, Size) - 1)]
  /\ \A i \in DOMAIN own : own[i] \in 0..(NList - 1)
  /\ \A c \in DOMAIN cents : cents[c] \in Centroid

\* Row i of the bucket holds its cell.
Assigned(i) == IsNearest(cents, BucketRows[i].code, own[i])

\* The goroutines' chunks are consecutive, and what is not assigned is in one.
ChunkInv ==
  phase = "final" =>
    /\ \A w \in DOMAIN chunks :
         /\ w \in Nat /\ chunks[w] \in [next : Nat, end : Nat]
         /\ w * Chunk <= chunks[w].next /\ chunks[w].next <= chunks[w].end
         /\ chunks[w].end <= w * Chunk + Chunk /\ chunks[w].end <= Size
    /\ \A i \in 1..Size :
         \/ Assigned(i)
         \/ \E w \in DOMAIN chunks : chunks[w].next <= i - 1 /\ i - 1 < chunks[w].end

\* wg.Wait returns when every row has its cell.
PlaceInv == phase = "place" => \A i \in 1..Size : Assigned(i)

\* The first row of cell g among those placed; past the last cell, their number.
First(g) == IF g = bk * NList THEN Len(placed) ELSE starts[g + 1]

\* The rows of the buckets done are placed, each as it was added, bucket by bucket.
RowsDone ==
  /\ placed \in Seq(Entry) /\ Len(placed) = BucketStart[bk]
  /\ \A p \in 1..Len(placed) :
       placed[p].added \in 1..Len(rows) /\ placed[p] = rows[placed[p].added]
  /\ \A i \in 1..Len(rows) : rows[i].bucket < bk => \E p \in 1..Len(placed) : placed[p] = rows[i]

\* Their cells are consecutive runs within the bounds of the bucket.
CellsDone ==
  /\ starts \in Seq(Nat) /\ Len(starts) = bk * NList
  /\ \A g \in 0..(bk * NList - 1) :
       /\ BucketStart[g \div NList] <= First(g) /\ First(g) <= First(g + 1)
       /\ First(g + 1) <= BucketStart[(g \div NList) + 1]
  /\ \A r \in 0..(Len(placed) - 1) :
       \E g \in 0..(bk * NList - 1) : First(g) <= r /\ r < First(g + 1)

\* What training leaves for a bucket.
Trained == UNION {[0..(m - 1) -> Centroid] : m \in 0..NList}

\* A cell's run has rows of its bucket, nearest to its centroid, in insertion order.
RunsDone ==
  /\ trained \in Seq(Trained) /\ Len(trained) = bk
  /\ \A g \in 0..(bk * NList - 1) : \A r \in First(g)..(First(g + 1) - 1) :
       /\ placed[r + 1].bucket = g \div NList
       /\ IsNearest(trained[(g \div NList) + 1], placed[r + 1].code, g % NList)
       /\ \A s \in First(g)..(First(g + 1) - 1) : r < s => placed[r + 1].added < placed[s + 1].added

IInv == RowsInv /\ TrainInv /\ ChunkInv /\ PlaceInv /\ RowsDone /\ CellsDone /\ RunsDone

-----------------------------------------------------------------------------
\* The rows of a bucket.

\* The parameters are positive numbers.
LEMMA Params ==
  /\ NList \in Nat \ {0} /\ Iters \in Nat \ {0} /\ KMeansSample \in Nat \ {0}
  /\ Procs \in Nat \ {0} /\ ParallelMin \in Nat \ {0}
BY BuildAssumption

\* The first counting sort: the rows of the bucket, all of them, as added and in
\* that order.
LEMMA BucketRowsFacts ==
  ASSUME RowsInv
  PROVE  /\ Size \in Nat /\ Len(rows) \in Nat
         /\ BucketRows \in [1..Size -> Entry]
         /\ \A i \in 1..Size : /\ BucketRows[i].bucket = bk
                               /\ BucketRows[i].added \in 1..Len(rows)
                               /\ BucketRows[i] = rows[BucketRows[i].added]
         /\ \A i, j \in 1..Size : i < j => BucketRows[i].added < BucketRows[j].added
         /\ \A r \in 1..Len(rows) :
              rows[r].bucket = bk => \E i \in 1..Size : BucketRows[i] = rows[r]
<1> DEFINE n == Len(rows)
           mine == Scatter(n, InBucket)
<1>1. n \in Nat /\ InBucket \in SUBSET (1..n)
  BY DEF RowsInv, InBucket
<1>2. InOrder(mine, InBucket)
  <2> HIDE DEF n
  <2> QED
    BY <1>1, ScatterInOrder
<1>3. BucketRows = [j \in 1..Size |-> rows[mine[j]]]
  BY DEF BucketRows
<1> HIDE DEF mine
<1>4. Size \in Nat /\ Len(mine) = Size
  <2>1. Len(mine) \in Nat
    BY <1>2 DEF InOrder
  <2> QED
    BY <1>2, <2>1 DEF InOrder, Size
<1>5. \A j \in 1..Size : mine[j] \in InBucket
  BY <1>2, <1>4 DEF InOrder
<1>6. \A i \in InBucket : /\ i \in 1..n /\ rows[i] \in Entry
                          /\ rows[i].bucket = bk /\ rows[i].added = i
  BY DEF InBucket, RowsInv
<1>7. \A j, k \in 1..Size : j < k => mine[j] < mine[k]
  BY <1>2, <1>4 DEF InOrder
<1>8. \A i \in InBucket : \E j \in 1..Size : mine[j] = i
  BY <1>2, <1>4 DEF InOrder
<1>9. \A r \in 1..n : rows[r].bucket = bk => r \in InBucket
  BY DEF InBucket
<1> HIDE DEF n
<1>10. \A i \in 1..Size : BucketRows[i] = rows[mine[i]]
  BY <1>3
<1>11. BucketRows \in [1..Size -> Entry]
  BY <1>3, <1>5, <1>6
<1>12. \A i \in 1..Size : /\ BucketRows[i].bucket = bk /\ BucketRows[i].added = mine[i]
                          /\ mine[i] \in 1..n
  BY <1>5, <1>6, <1>10
<1>13. \A i \in 1..Size : BucketRows[i] = rows[BucketRows[i].added]
  BY <1>10, <1>12
<1>14. \A i, j \in 1..Size : i < j => BucketRows[i].added < BucketRows[j].added
  BY <1>7, <1>12
<1>15. \A r \in 1..n : rows[r].bucket = bk => \E i \in 1..Size : BucketRows[i] = rows[r]
  BY <1>8, <1>9, <1>10
<1> QED
  BY <1>1, <1>4, <1>11, <1>12, <1>13, <1>14, <1>15 DEF n

\* The codes of a row of the bucket are on the grid.
LEMMA RowsOnGrid ==
  ASSUME RowsInv, NEW i \in 1..Size
  PROVE  /\ BucketRows[i].code \in [Dim -> Code]
         /\ \A d \in Dim : /\ dequant(BucketRows[i].code[d]) \in Int
                            /\ dequant(BucketRows[i].code[d]) <= Scale
<1>1. BucketRows[i] \in Entry
  BY BucketRowsFacts
<1>2. BucketRows[i].code \in [Dim -> Code]
  BY <1>1 DEF Entry
<1>3. \A u \in Code : dequant(u) \in Int /\ dequant(u) <= Scale
  <2>1. \A u, g, m \in Nat : u <= g => u * m <= g * m /\ u * m \in Nat
    OBVIOUS
  <2>2. \A u \in Code : u # 0 => u - 1 \in Nat /\ u - 1 <= G
    BY ScaleNat DEF Code, MaxCode
  <2>3. \A u \in Code : u # 0 => (u - 1) * Sub <= G * Sub /\ (u - 1) * Sub \in Nat
    BY <2>1, <2>2, ScaleNat
  <2> QED
    BY <2>3, ScaleNat DEF dequant, Null, Scale
<1> QED
  BY <1>2, <1>3

\* A bucket has as many cells as it has rows, and at most nlist.
LEMMA CellsFewerThanRows ==
  ASSUME RowsInv
  PROVE  /\ AtMost(NList, Size) \in 0..NList /\ AtMost(NList, Size) <= Size
         /\ Size > 0 => AtMost(NList, Size) > 0
BY Params, BucketRowsFacts DEF AtMost

\* The sampled rows are rows of the bucket.
LEMMA SampleOfBucket ==
  ASSUME RowsInv, Size > 0
  PROVE  Sample \in SUBSET (1..Size) /\ IsFiniteSet(Sample)
<1>1. Size \in Nat /\ KMeansSample \in Nat \ {0}
  BY Params, BucketRowsFacts
<1>2. Sample \in SUBSET (1..Size)
  <2>1. CASE KMeansSample >= Size
    BY <2>1 DEF Sample
  <2>2. CASE ~(KMeansSample >= Size)
    <3>1. KMeansSample \in 1..Size
      BY <1>1, <2>2
    <3>2. \A i \in 0..(KMeansSample - 1) : i * (Size \div KMeansSample) + 1 \in 1..Size
      BY <1>1, <3>1, EvenlySpaced
    <3> QED
      BY <2>2, <3>2 DEF Sample
  <2> QED
    BY <2>1, <2>2
<1>3. IsFiniteSet(1..Size)
  BY <1>1, FS_Interval
<1> QED
  BY <1>2, <1>3, FS_Subset

\* nearest returns one of the bucket's cells, also among the first nlist.
LEMMA NearestOfRow ==
  ASSUME RowsInv, CentsOK, NEW i \in 1..Size
  PROVE  /\ Nearest(BucketRows[i].code) \in 0..(AtMost(NList, Size) - 1)
         /\ IsNearest(cents, BucketRows[i].code, Nearest(BucketRows[i].code))
         /\ \A c : IsNearest(cents, BucketRows[i].code, c) => c = Nearest(BucketRows[i].code)
<1> DEFINE m == AtMost(NList, Size)
<1>1. m \in Nat \ {0}
  BY BucketRowsFacts, CellsFewerThanRows
<1>2. cents \in [0..(m - 1) -> Centroid]
  BY DEF CentsOK
<1>3. BucketRows[i].code \in [Dim -> Code]
  BY RowsOnGrid
<1> HIDE DEF m
<1> QED
  BY <1>1, <1>2, <1>3, NearestIs DEF m

-----------------------------------------------------------------------------
\* The steps that train and assign.

\* The rows and their order do not change within a bucket.
LEMMA BucketKept ==
  ASSUME UNCHANGED <<rows, bk>>
  PROVE  /\ Size' = Size /\ BucketRows' = BucketRows /\ Sample' = Sample
         /\ (RowsInv => RowsInv') /\ BucketStart' = BucketStart
BY DEF Size, InBucket, BucketRows, Sample, RowsInv, BucketStart

\* What is placed stays until the bucket is.
LEMMA DoneKept ==
  ASSUME UNCHANGED <<rows, bk, placed, starts, trained>>, RowsDone, CellsDone, RunsDone
  PROVE  RowsDone' /\ CellsDone' /\ RunsDone'
<1>1. BucketStart' = BucketStart
  BY BucketKept
<1> QED
  BY <1>1 DEF RowsDone, CellsDone, RunsDone, First

\* Nothing is placed at the start.
LEMMA BuildInitInv ==
  ASSUME BuildInit
  PROVE  IInv
<1>1. PICK d \in Datasets : rows = [i \in 1..Len(d) |->
        [code |-> d[i].code, bucket |-> d[i].bucket, fraud |-> d[i].fraud, added |-> i]]
  BY DEF BuildInit
<1> DEFINE R == [code : [Dim -> Code], bucket : Bucket, fraud : BOOLEAN]
<1>2. Len(d) \in Nat /\ \A i \in 1..Len(d) : d[i] \in R
  <2>1. d \in Seq(R)
    BY DatasetsAssumption
  <2> HIDE DEF R
  <2> QED
    BY <2>1
<1>3. \A i \in 1..Len(d) : rows[i] \in Entry /\ rows[i].added = i
  BY <1>1, <1>2 DEF Entry
<1>4. rows \in Seq(Entry) /\ Len(rows) = Len(d)
  BY <1>1, <1>2, <1>3
<1>5. RowsInv
  BY <1>3, <1>4 DEF RowsInv
<1>6. /\ bk = 0 /\ phase = "seed" /\ cents = NoCents /\ it = 0 /\ own = <<>>
      /\ chunks = <<>> /\ placed = <<>> /\ starts = <<>> /\ trained = <<>>
  BY DEF BuildInit
<1>7. TrainInv
  BY <1>6, Params DEF TrainInv, NumBuckets, NoCents
<1>8. ChunkInv /\ PlaceInv
  BY <1>6 DEF ChunkInv, PlaceInv
<1>9. \A i \in 1..Len(rows) : rows[i].bucket \in Bucket
  BY <1>3, <1>4 DEF Entry
<1>10. \A i \in 1..Len(rows) : ~(rows[i].bucket < bk)
  BY <1>6, <1>9 DEF Bucket, NumBuckets
<1>11. BucketStart[bk] = 0
  <2>1. BucketStart[0] = Cardinality({i \in 1..Len(rows) : rows[i].bucket < 0})
    BY DEF BucketStart, NumBuckets
  <2>2. {i \in 1..Len(rows) : rows[i].bucket < 0} = {}
    BY <1>6, <1>10
  <2> QED
    BY <1>6, <2>1, <2>2, FS_EmptySet
<1>12. RowsDone
  BY <1>6, <1>10, <1>11 DEF RowsDone
<1>13. bk * NList = 0
  BY <1>6, Params
<1>14. CellsDone /\ RunsDone
  BY <1>6, <1>13 DEF CellsDone, RunsDone
<1> QED
  BY <1>5, <1>7, <1>8, <1>12, <1>14 DEF IInv

\* Seeding gives the bucket its first centroids: rows of it.
LEMMA SeedKeeps ==
  ASSUME IInv, SeedBucket
  PROVE  IInv'
<1> USE DEF IInv
<1>1. UNCHANGED <<rows, bk, placed, starts, trained>> /\ phase = "seed"
  BY DEF SeedBucket
<1>2. /\ Size' = Size /\ BucketRows' = BucketRows /\ RowsInv' /\ Size \in Nat
  BY <1>1, BucketKept, BucketRowsFacts
<1>3. RowsDone' /\ CellsDone' /\ RunsDone'
  BY <1>1, DoneKept
<1>4. CASE Size = 0
  <2>1. phase' = "place" /\ cents' = NoCents /\ own' = <<>> /\ it' = 0
    BY <1>4 DEF SeedBucket
  <2>2. AtMost(NList, Size)' = 0 /\ 0 - 1 < 0
    BY <1>2, <1>4, Params DEF AtMost
  <2>3. CentsOK'
    BY <2>1, <2>2 DEF CentsOK, NoCents
  <2>4. own' \in [1..Size' -> 0..(AtMost(NList, Size)' - 1)]
    BY <1>2, <1>4, <2>1, <2>2
  <2>5. TrainInv'
    BY <1>1, <1>2, <1>4, <2>1, <2>3, <2>4, Params DEF TrainInv, NoCents
  <2>6. ChunkInv' /\ PlaceInv'
    BY <1>2, <1>4, <2>1 DEF ChunkInv, PlaceInv
  <2> QED
    BY <1>2, <1>3, <2>5, <2>6
<1>5. CASE Size # 0
  <2> DEFINE nl == AtMost(NList, Size)
             seed(c) == [sum |-> Dequantized(BucketRows[c * (Size \div nl) + 1].code), cnt |-> 1]
  <2>1. phase' = "assign" /\ cents' = [c \in 0..(nl - 1) |-> seed(c)] /\ own' = <<>> /\ it' = 0
    BY <1>5 DEF SeedBucket
  <2>2. nl \in 1..Size /\ Size \in Nat /\ AtMost(NList, Size)' = nl
    BY <1>2, <1>5, CellsFewerThanRows
  <2>3. ASSUME NEW c \in 0..(nl - 1)
        PROVE  seed(c) \in Centroid
    <3> DEFINE i == c * (Size \div nl) + 1
    <3> HIDE DEF nl
    <3>1. i \in 1..Size
      BY <2>2, <2>3, EvenlySpaced
    <3> HIDE DEF i
    <3>2. Dequantized(BucketRows[i].code) \in [Dim -> Int]
      BY <3>1, RowsOnGrid DEF Dequantized
    <3>3. \A d \in Dim : Dequantized(BucketRows[i].code)[d] <= Scale * 1
      BY <3>1, RowsOnGrid, ScaleNat DEF Dequantized
    <3> QED
      BY <3>2, <3>3 DEF Centroid, i
  <2> HIDE DEF seed, nl
  <2>4. cents' \in [0..(nl - 1) -> Centroid]
    BY <2>1, <2>3
  <2>5. CentsOK'
    BY <2>2, <2>4 DEF CentsOK
  <2>6. TrainInv'
    BY <1>1, <1>2, <1>5, <2>1, <2>4, <2>5, Params DEF TrainInv
  <2>7. ChunkInv' /\ PlaceInv'
    BY <2>1 DEF ChunkInv, PlaceInv
  <2> QED
    BY <1>2, <1>3, <2>6, <2>7
<1> QED
  BY <1>4, <1>5

\* The pass over the sample assigns its rows to cells of the bucket.
LEMMA AssignKeeps ==
  ASSUME IInv, AssignSample
  PROVE  IInv'
<1> USE DEF IInv
<1>1. UNCHANGED <<rows, bk, placed, starts, trained>> /\ phase = "assign" /\ phase' = "update"
      /\ cents' = cents /\ it' = it /\ own' = [i \in Sample |-> Nearest(BucketRows[i].code)]
  BY DEF AssignSample
<1>2. /\ Size' = Size /\ BucketRows' = BucketRows /\ Sample' = Sample /\ RowsInv'
  BY <1>1, BucketKept
<1>3. RowsDone' /\ CellsDone' /\ RunsDone'
  BY <1>1, DoneKept
<1>4. Size > 0 /\ CentsOK
  BY <1>1 DEF TrainInv
<1>5. \A i \in Sample : Nearest(BucketRows[i].code) \in 0..(AtMost(NList, Size) - 1)
  BY <1>4, SampleOfBucket, NearestOfRow
<1>6. own' \in [Sample -> 0..(AtMost(NList, Size) - 1)]
  BY <1>1, <1>5
<1>7. AtMost(NList, Size) \in 0..NList /\ NList \in Nat
  BY CellsFewerThanRows, Params
<1>8. \A i \in DOMAIN own' : own'[i] \in 0..(NList - 1)
  <2> HIDE DEF IInv
  <2> QED
    BY <1>6, <1>7
<1>9. CentsOK'
  BY <1>1, <1>2, <1>4 DEF CentsOK
<1>10. TrainInv'
  BY <1>1, <1>2, <1>4, <1>6, <1>8, <1>9 DEF TrainInv
<1>11. ChunkInv' /\ PlaceInv'
  BY <1>1 DEF ChunkInv, PlaceInv
<1> QED
  BY <1>2, <1>3, <1>10, <1>11

\* The means of the cells somebody chose, and the centroids of the others.
LEMMA UpdateKeeps ==
  ASSUME IInv, UpdateCentroids
  PROVE  IInv'
<1> USE DEF IInv
<1> DEFINE mean(c) == [sum |-> [d \in Dim |-> Total(c, d)], cnt |-> Cardinality(Members(c))]
<1>1. UNCHANGED <<rows, bk, own, placed, starts, trained>> /\ phase = "update" /\ it' = it + 1
      /\ phase' = (IF it + 1 < Iters THEN "assign" ELSE "fork")
      /\ cents' = [c \in DOMAIN cents |-> IF Members(c) = {} THEN cents[c] ELSE mean(c)]
  BY DEF UpdateCentroids
<1>2. /\ Size' = Size /\ BucketRows' = BucketRows /\ RowsInv'
  BY <1>1, BucketKept
<1>3. RowsDone' /\ CellsDone' /\ RunsDone'
  BY <1>1, DoneKept
<1>4. Size > 0 /\ CentsOK /\ it < Iters /\ it \in 0..Iters
  BY <1>1 DEF TrainInv
<1>5. ASSUME NEW c, Members(c) # {}
      PROVE  mean(c) \in Centroid
  <2>1. Sample \in SUBSET (1..Size) /\ IsFiniteSet(Sample)
    BY <1>4, SampleOfBucket
  <2>2. Members(c) \in SUBSET Sample
    BY DEF Members
  <2>3. IsFiniteSet(Members(c))
    BY <2>1, <2>2, FS_Subset
  <2>4. Cardinality(Members(c)) \in Nat \ {0}
    BY <1>5, <2>3, FS_CardinalityType, FS_EmptySet
  <2>5. ASSUME NEW d \in Dim
        PROVE  Total(c, d) \in Int /\ Total(c, d) <= Scale * Cardinality(Members(c))
    <3>1. \A i \in Members(c) :
            dequant(BucketRows[i].code[d]) \in Int /\ dequant(BucketRows[i].code[d]) <= Scale
      BY <2>1, <2>2, RowsOnGrid
    <3>2. Scale \in Int
      BY ScaleNat
    <3> QED
      BY <2>3, <3>1, <3>2, TotalBounded
  <2>6. mean(c) \in [sum : [Dim -> Int], cnt : Nat \ {0}]
    <3> HIDE DEF IInv
    <3> QED
      BY <2>4, <2>5
  <2>7. \A d \in Dim : mean(c).sum[d] <= Scale * mean(c).cnt
    <3> HIDE DEF IInv
    <3> QED
      BY <2>5
  <2> HIDE DEF IInv, mean
  <2> QED
    BY <2>6, <2>7 DEF Centroid
<1> HIDE DEF mean
<1>6. cents' \in [0..(AtMost(NList, Size) - 1) -> Centroid]
  <2> HIDE DEF IInv
  <2> QED
    BY <1>1, <1>4, <1>5 DEF CentsOK
<1>7. CentsOK'
  BY <1>2, <1>6 DEF CentsOK
<1>8. TrainInv'
  <2>1. Iters \in Nat /\ it + 1 \in 0..Iters
    BY <1>4, Params
  <2>2. \A c \in DOMAIN cents' : cents'[c] \in Centroid
    BY <1>6
  <2> QED
    BY <1>1, <1>2, <1>4, <1>7, <2>1, <2>2 DEF TrainInv
<1>9. ChunkInv' /\ PlaceInv'
  BY <1>1 DEF ChunkInv, PlaceInv
<1> QED
  BY <1>2, <1>3, <1>8, <1>9

\* The chunks of parallelFor together are as long as the bucket.
LEMMA ChunksSuffice ==
  ASSUME RowsInv, Size > 0
  PROVE  Workers \in Nat \ {0} /\ Chunk \in Nat \ {0} /\ Size <= Workers * Chunk
<1>1. Size \in Nat
  BY BucketRowsFacts
<1>2. Workers \in Nat \ {0}
  BY <1>1, Params DEF Workers, AtMost
<1> DEFINE n == Size + Workers - 1
           q == n \div Workers
           r == n % Workers
<1>3. n \in Nat /\ n >= Workers
  BY <1>1, <1>2
<1>4. q \in Nat /\ r \in 0..(Workers - 1) /\ n = Workers * q + r
  <2> HIDE DEF n
  <2> QED
    BY <1>2, <1>3
<1>5. q # 0
  <2> HIDE DEF q, r
  <2> QED
    BY <1>2, <1>3, <1>4
<1>6. Size <= Workers * q
  <2>1. Workers * q \in Nat
    BY <1>2, <1>4
  <2> HIDE DEF q, r
  <2> QED
    BY <1>1, <1>2, <1>4, <2>1
<1> QED
  BY <1>2, <1>4, <1>5, <1>6 DEF Chunk

\* parallelFor gives each row to a goroutine.
LEMMA ForkKeeps ==
  ASSUME IInv, Fork
  PROVE  IInv'
<1> USE DEF IInv
<1>1. UNCHANGED <<rows, bk, placed, starts, trained>> /\ phase = "fork" /\ phase' = "final"
      /\ cents' = cents /\ it' = it /\ own' = [i \in 1..Size |-> 0]
      /\ chunks' = [w \in {v \in 0..(Workers - 1) : v * Chunk < Size} |->
                     [next |-> w * Chunk, end |-> AtMost(w * Chunk + Chunk, Size)]]
  BY DEF Fork
<1>2. /\ Size' = Size /\ BucketRows' = BucketRows /\ RowsInv'
  BY <1>1, BucketKept
<1>3. RowsDone' /\ CellsDone' /\ RunsDone'
  BY <1>1, DoneKept
<1>4. Size > 0 /\ CentsOK /\ Size \in Nat
  BY <1>1, BucketRowsFacts DEF TrainInv
<1>5. Workers \in Nat \ {0} /\ Chunk \in Nat \ {0} /\ Size <= Workers * Chunk /\ Chunk' = Chunk
  BY <1>2, <1>4, ChunksSuffice DEF Chunk, Workers
<1>6. CentsOK'
  BY <1>1, <1>2, <1>4 DEF CentsOK
<1>7. TrainInv'
  <2>1. AtMost(NList, Size) \in 1..NList /\ NList \in Nat
    BY <1>4, CellsFewerThanRows, Params
  <2>2. own' \in [1..Size -> 0..(AtMost(NList, Size) - 1)]
    BY <1>1, <2>1
  <2>3. \A i \in DOMAIN own' : own'[i] \in 0..(NList - 1)
    BY <1>1, Params
  <2> QED
    BY <1>1, <1>2, <1>4, <1>6, <2>2, <2>3 DEF TrainInv
<1>8. ASSUME NEW w \in DOMAIN chunks'
      PROVE  /\ w \in Nat /\ chunks'[w] \in [next : Nat, end : Nat]
             /\ w * Chunk' <= chunks'[w].next /\ chunks'[w].next <= chunks'[w].end
             /\ chunks'[w].end <= w * Chunk' + Chunk' /\ chunks'[w].end <= Size'
  <2>1. w \in 0..(Workers - 1) /\ w * Chunk < Size
        /\ chunks'[w] = [next |-> w * Chunk, end |-> AtMost(w * Chunk + Chunk, Size)]
    BY <1>1, <1>8
  <2>2. w \in Nat /\ w * Chunk \in Nat
    BY <1>5, <2>1
  <2> HIDE DEF IInv
  <2> DEFINE a == w * Chunk
  <2> HIDE DEF a
  <2>3. AtMost(a + Chunk, Size) \in Nat /\ a <= AtMost(a + Chunk, Size)
        /\ AtMost(a + Chunk, Size) <= a + Chunk /\ AtMost(a + Chunk, Size) <= Size
    BY <1>4, <1>5, <2>1, <2>2 DEF AtMost, a
  <2>4. chunks'[w].next = a /\ chunks'[w].end = AtMost(a + Chunk, Size)
        /\ chunks'[w] \in [next : Nat, end : Nat]
    BY <2>1, <2>2, <2>3 DEF a
  <2>5. a \in Nat /\ a <= a
    BY <2>2 DEF a
  <2> QED
    BY <1>2, <1>5, <2>2, <2>3, <2>4, <2>5 DEF a
<1>9. ASSUME NEW i \in 1..Size
      PROVE  \E w \in DOMAIN chunks' : chunks'[w].next <= i - 1 /\ i - 1 < chunks'[w].end
  <2> HIDE DEF IInv
  <2> DEFINE w == (i - 1) \div Chunk
             a == w * Chunk
  <2>1. i - 1 \in Nat /\ i - 1 < Size
    BY <1>4
  <2>2. w \in Nat /\ Chunk * w <= i - 1 /\ i - 1 < Chunk * w + Chunk
    BY <1>5, <2>1
  <2> HIDE DEF w
  <2>3. a = Chunk * w /\ a \in Nat
    BY <1>5, <2>2
  <2>4. w < Workers
    <3>1. Workers <= w => Workers * Chunk <= w * Chunk
      BY <1>5, <2>2
    <3>2. Workers * Chunk \in Nat
      BY <1>5
    <3> HIDE DEF a
    <3> QED
      BY <1>4, <1>5, <2>1, <2>2, <2>3, <3>1, <3>2 DEF a
  <2>5. w \in 0..(Workers - 1) /\ w * Chunk < Size
    <3>1. w \in 0..(Workers - 1)
      BY <1>5, <2>2, <2>4
    <3>2. a < Size
      <4> HIDE DEF a
      <4> QED
        BY <1>4, <2>1, <2>2, <2>3
    <3> QED
      BY <3>1, <3>2
  <2>6. w \in DOMAIN chunks' /\ chunks'[w].next = a /\ chunks'[w].end = AtMost(a + Chunk, Size)
    BY <1>1, <2>5
  <2>7. a <= i - 1 /\ i - 1 < AtMost(a + Chunk, Size)
    <3> HIDE DEF a
    <3> QED
      BY <1>4, <1>5, <2>1, <2>2, <2>3 DEF AtMost
  <2> HIDE DEF a
  <2> QED
    BY <2>6, <2>7
<1>10. ChunkInv'
  BY <1>2, <1>8, <1>9 DEF ChunkInv
<1>11. PlaceInv'
  BY <1>1 DEF PlaceInv
<1> QED
  BY <1>2, <1>3, <1>7, <1>10, <1>11

\* A goroutine gives the next row of its chunk its nearest cell.
LEMMA AssignRowKeeps ==
  ASSUME IInv, NEW w \in DOMAIN chunks, AssignRow(w)
  PROVE  IInv'
<1> USE DEF IInv
<1> DEFINE i == chunks[w].next + 1
           best == Nearest(BucketRows[i].code)
<1>1. UNCHANGED <<rows, bk, placed, starts, trained>> /\ phase = "final" /\ phase' = "final"
      /\ cents' = cents /\ it' = it /\ chunks[w].next < chunks[w].end
      /\ own' = [own EXCEPT ![i] = best]
      /\ chunks' = [chunks EXCEPT ![w].next = @ + 1]
  BY DEF AssignRow
<1>2. /\ Size' = Size /\ BucketRows' = BucketRows /\ RowsInv'
  BY <1>1, BucketKept
<1>3. RowsDone' /\ CellsDone' /\ RunsDone'
  BY <1>1, DoneKept
<1>4. Size > 0 /\ CentsOK /\ Size \in Nat /\ own \in [1..Size -> 0..(AtMost(NList, Size) - 1)]
  BY <1>1, BucketRowsFacts DEF TrainInv
<1>5. /\ \A v \in DOMAIN chunks :
           /\ v \in Nat /\ chunks[v] \in [next : Nat, end : Nat]
           /\ v * Chunk <= chunks[v].next /\ chunks[v].next <= chunks[v].end
           /\ chunks[v].end <= v * Chunk + Chunk /\ chunks[v].end <= Size
      /\ \A j \in 1..Size :
           \/ Assigned(j)
           \/ \E v \in DOMAIN chunks : chunks[v].next <= j - 1 /\ j - 1 < chunks[v].end
  BY <1>1 DEF ChunkInv
<1>6. i \in 1..Size /\ i - 1 = chunks[w].next
  <2>1. chunks[w].next \in Nat /\ chunks[w].end \in Nat /\ chunks[w].end <= Size
    BY <1>5
  <2> HIDE DEF IInv
  <2> QED
    BY <1>1, <1>4, <2>1
<1> HIDE DEF i
<1>7. best \in 0..(AtMost(NList, Size) - 1) /\ IsNearest(cents, BucketRows[i].code, best)
  BY <1>4, <1>6, NearestOfRow
<1> HIDE DEF best, IInv
<1>8. own' \in [1..Size -> 0..(AtMost(NList, Size) - 1)]
      /\ own'[i] = best /\ \A j \in 1..Size : j # i => own'[j] = own[j]
  BY <1>1, <1>4, <1>6, <1>7
<1>9. Chunk' = Chunk /\ CentsOK'
  BY <1>1, <1>2, <1>4 DEF Chunk, Workers, CentsOK
<1>10. TrainInv'
  <2>1. AtMost(NList, Size) \in 0..NList /\ NList \in Nat
    BY CellsFewerThanRows, Params DEF IInv
  <2>2. \A j \in DOMAIN own' : own'[j] \in 0..(NList - 1)
    BY <1>8, <2>1
  <2>3. TrainInv
    BY DEF IInv
  <2> QED
    BY <1>1, <1>2, <1>4, <1>8, <1>9, <2>2, <2>3 DEF TrainInv
<1>11. DOMAIN chunks' = DOMAIN chunks /\ \A v \in DOMAIN chunks : v # w => chunks'[v] = chunks[v]
  BY <1>1
<1>12. chunks'[w] = [chunks[w] EXCEPT !.next = chunks[w].next + 1]
  BY <1>1
<1>13. /\ chunks'[w] \in [next : Nat, end : Nat]
       /\ chunks'[w].next = chunks[w].next + 1 /\ chunks'[w].end = chunks[w].end
  <2>1. chunks[w] \in [next : Nat, end : Nat]
    BY <1>5
  <2> QED
    BY <1>12, <2>1
<1>14. ASSUME NEW v \in DOMAIN chunks'
       PROVE  /\ v \in Nat /\ chunks'[v] \in [next : Nat, end : Nat]
              /\ v * Chunk' <= chunks'[v].next /\ chunks'[v].next <= chunks'[v].end
              /\ chunks'[v].end <= v * Chunk' + Chunk' /\ chunks'[v].end <= Size'
  <2>1. CASE v # w
    BY <1>2, <1>5, <1>9, <1>11, <2>1
  <2>2. CASE v = w
    <3>1. /\ w \in Nat /\ w * Chunk <= chunks[w].next
          /\ chunks[w].end <= w * Chunk + Chunk /\ chunks[w].end <= Size
      BY <1>5
    <3>2. chunks[w].next \in Nat /\ chunks[w].end \in Nat /\ w * Chunk \in Int
      <4>1. Chunk \in Nat
        BY <1>4, ChunksSuffice DEF IInv
      <4> QED
        BY <1>5, <3>1, <4>1
    <3>3. w * Chunk <= chunks[w].next + 1 /\ chunks[w].next + 1 <= chunks[w].end
      BY <1>1, <3>1, <3>2
    <3> QED
      BY <1>2, <1>9, <1>13, <2>2, <3>1, <3>3
  <2> QED
    BY <2>1, <2>2
<1>15. ASSUME NEW j \in 1..Size
       PROVE  \/ IsNearest(cents, BucketRows[j].code, own'[j])
              \/ \E v \in DOMAIN chunks' : chunks'[v].next <= j - 1 /\ j - 1 < chunks'[v].end
  <2>1. CASE j = i
    BY <1>7, <1>8, <2>1
  <2>2. CASE j # i /\ Assigned(j)
    BY <1>8, <2>2 DEF Assigned
  <2>3. CASE j # i /\ ~Assigned(j)
    <3>1. PICK v \in DOMAIN chunks : chunks[v].next <= j - 1 /\ j - 1 < chunks[v].end
      BY <1>5, <2>3
    <3>2. CASE v # w
      BY <1>11, <3>1, <3>2
    <3>3. CASE v = w
      <4>1. chunks[w].next \in Nat
        BY <1>5
      <4>2. chunks[w].next + 1 <= j - 1
        BY <1>6, <2>3, <3>1, <3>3, <4>1
      <4> QED
        BY <1>11, <1>13, <3>1, <3>3, <4>2
    <3> QED
      BY <3>2, <3>3
  <2> QED
    BY <2>1, <2>2, <2>3
<1>16. ChunkInv'
  BY <1>1, <1>2, <1>14, <1>15 DEF ChunkInv, Assigned
<1>17. PlaceInv'
  BY <1>1 DEF PlaceInv
<1> QED
  BY <1>2, <1>3, <1>10, <1>16, <1>17 DEF IInv

\* When every goroutine is done every row of the bucket has its cell.
LEMMA JoinKeeps ==
  ASSUME IInv, Join
  PROVE  IInv'
<1> USE DEF IInv
<1>1. UNCHANGED <<rows, bk, placed, starts, trained>> /\ phase = "final" /\ phase' = "place"
      /\ cents' = cents /\ it' = it /\ own' = own /\ AllDone
  BY DEF Join
<1>2. /\ Size' = Size /\ BucketRows' = BucketRows /\ RowsInv'
  BY <1>1, BucketKept
<1>3. RowsDone' /\ CellsDone' /\ RunsDone'
  BY <1>1, DoneKept
<1>4. CentsOK'
  BY <1>1, <1>2 DEF CentsOK, TrainInv
<1>5. TrainInv'
  BY <1>1, <1>2, <1>4 DEF TrainInv
<1>6. ASSUME NEW i \in 1..Size
      PROVE  Assigned(i)
  <2>1. ASSUME NEW w \in DOMAIN chunks, chunks[w].next <= i - 1, i - 1 < chunks[w].end
        PROVE  FALSE
    <3>1. chunks[w].next = chunks[w].end /\ chunks[w].next \in Nat
      BY <1>1 DEF AllDone, ChunkInv
    <3> QED
      BY <2>1, <3>1
  <2> QED
    BY <1>1, <2>1 DEF ChunkInv
<1>7. PlaceInv'
  BY <1>1, <1>2, <1>6 DEF PlaceInv, Assigned
<1>8. ChunkInv'
  BY <1>1 DEF ChunkInv
<1> QED
  BY <1>2, <1>3, <1>5, <1>7, <1>8

-----------------------------------------------------------------------------
\* The second counting sort.

\* Every row of the bucket has a cell.
AllOwned == own \in [1..Size -> 0..(NList - 1)]

\* The rows of the bucket in cells before c, and the bucket in cell order.
Below(c) == Cardinality({i \in 1..Size : own[i] < c})
CellOrder == FlattenSeq([c \in 1..NList |-> CellRun(c - 1)])

\* The rows of a cell are those assigned to it, in insertion order.
LEMMA CellRunFacts ==
  ASSUME RowsInv, AllOwned, NEW c \in Int
  PROVE  /\ CellRun(c) \in Seq(Entry)
         /\ Len(CellRun(c)) = Cardinality({i \in 1..Size : own[i] = c})
         /\ \A j \in 1..Len(CellRun(c)) :
              \E i \in 1..Size : own[i] = c /\ CellRun(c)[j] = BucketRows[i]
         /\ \A j, k \in 1..Len(CellRun(c)) :
              j < k => CellRun(c)[j].added < CellRun(c)[k].added
         /\ \A i \in 1..Size :
              own[i] = c => \E j \in 1..Len(CellRun(c)) : CellRun(c)[j] = BucketRows[i]
<1> DEFINE S == {i \in 1..Size : own[i] = c}
           mine == Mine(c)
<1>1. /\ Size \in Nat /\ BucketRows \in [1..Size -> Entry]
      /\ \A i, j \in 1..Size : i < j => BucketRows[i].added < BucketRows[j].added
  BY BucketRowsFacts
<1>2. InOrder(mine, S)
  <2>1. S \in SUBSET (1..Size)
    OBVIOUS
  <2>2. mine = Scatter(Size, S)
    BY DEF Mine
  <2> HIDE DEF S, mine
  <2> QED
    BY <1>1, <2>1, <2>2, ScatterInOrder
<1>3. CellRun(c) = [j \in 1..Len(mine) |-> BucketRows[mine[j]]]
  BY DEF CellRun
<1>4. \A i \in S : i \in 1..Size /\ own[i] = c
  OBVIOUS
<1>5. \A i \in 1..Size : own[i] = c => i \in S
  OBVIOUS
<1> HIDE DEF mine, S
<1> DEFINE n == Len(mine)
<1>6. /\ n \in Nat /\ n = Cardinality(S) /\ \A j \in 1..n : mine[j] \in S
      /\ \A j, k \in 1..n : j < k => mine[j] < mine[k]
      /\ \A i \in S : \E j \in 1..n : mine[j] = i
  BY <1>2 DEF InOrder
<1> HIDE DEF n
<1>7. CellRun(c) = [j \in 1..n |-> BucketRows[mine[j]]]
  BY <1>3 DEF n
<1>8. \A j \in 1..n : mine[j] \in 1..Size /\ own[mine[j]] = c
  BY <1>4, <1>6
<1>9. CellRun(c) \in Seq(Entry) /\ Len(CellRun(c)) = n
  BY <1>1, <1>6, <1>7, <1>8
<1>10. \A j \in 1..n : CellRun(c)[j] = BucketRows[mine[j]]
  BY <1>7
<1>11. ASSUME NEW j \in 1..n, NEW k \in 1..n, j < k
       PROVE  CellRun(c)[j].added < CellRun(c)[k].added
  <2>1. mine[j] < mine[k] /\ mine[j] \in 1..Size /\ mine[k] \in 1..Size
    BY <1>6, <1>8, <1>11
  <2>2. BucketRows[mine[j]].added < BucketRows[mine[k]].added
    BY <1>1, <2>1, Zenon
  <2> QED
    BY <1>10, <2>2, Zenon
<1>12. \A i \in 1..Size : own[i] = c => \E j \in 1..n : CellRun(c)[j] = BucketRows[i]
  BY <1>5, <1>6, <1>10
<1>13. \A j \in 1..n : \E i \in 1..Size : own[i] = c /\ CellRun(c)[j] = BucketRows[i]
  BY <1>8, <1>10
<1> QED
  BY <1>6, <1>9, <1>11, <1>12, <1>13 DEF S

\* The exclusive sum of the cell histogram.
LEMMA BelowFacts ==
  ASSUME RowsInv, AllOwned
  PROVE  /\ Below(0) = 0 /\ Below(NList) = Size
         /\ \A c \in 0..NList : Below(c) \in 0..Size
         /\ \A c \in 0..(NList - 1) : Below(c + 1) = Below(c) + Len(CellRun(c))
<1>1. Size \in Nat /\ NList \in Nat /\ \A i \in 1..Size : own[i] \in 0..(NList - 1)
  BY BucketRowsFacts, Params DEF AllOwned
<1>2. {i \in 1..Size : own[i] < 0} = {} /\ {i \in 1..Size : own[i] < NList} = 1..Size
  BY <1>1
<1>3. IsFiniteSet(1..Size) /\ Cardinality(1..Size) = Size
  BY <1>1, FS_Interval
<1>4. Below(0) = 0 /\ Below(NList) = Size
  BY <1>2, <1>3, FS_EmptySet DEF Below
<1>5. ASSUME NEW c \in 0..NList
      PROVE  Below(c) \in 0..Size
  <2> DEFINE S == {i \in 1..Size : own[i] < c}
  <2>1. S \in SUBSET (1..Size)
    OBVIOUS
  <2>2. Below(c) = Cardinality(S)
    BY DEF Below
  <2> HIDE DEF S
  <2>3. IsFiniteSet(S) /\ Cardinality(S) <= Cardinality(1..Size)
    BY <1>3, <2>1, FS_Subset
  <2>4. Cardinality(S) \in Nat
    BY <2>3, FS_CardinalityType
  <2> QED
    BY <1>1, <1>3, <2>2, <2>3, <2>4
<1>6. ASSUME NEW c \in 0..(NList - 1)
      PROVE  Below(c + 1) = Below(c) + Len(CellRun(c))
  <2>1. \A i \in 1..Size : own[i] \in Int
    BY <1>1
  <2>2. c \in Int
    OBVIOUS
  <2>3. Len(CellRun(c)) = Cardinality({i \in 1..Size : own[i] = c})
    BY <2>2, CellRunFacts
  <2>4. NumBelow(Size, own, c + 1) = NumBelow(Size, own, c) + NumEqual(Size, own, c)
    BY <1>1, <2>1, <2>2, CountBelow
  <2> QED
    BY <2>3, <2>4, Zenon DEF Below, NumBelow, NumEqual
<1> QED
  BY <1>4, <1>5, <1>6

\* The cells follow one another, each with its rows in insertion order, and
\* between them they hold every row of the bucket.
LEMMA CellOrderFacts ==
  ASSUME RowsInv, AllOwned
  PROVE  /\ CellOrder \in Seq(Entry) /\ Len(CellOrder) = Size
         /\ \A c \in 0..(NList - 1) : \A p \in (Below(c) + 1)..Below(c + 1) :
              /\ \E i \in 1..Size : own[i] = c /\ CellOrder[p] = BucketRows[i]
              /\ \A q \in (Below(c) + 1)..Below(c + 1) :
                   p < q => CellOrder[p].added < CellOrder[q].added
         /\ \A i \in 1..Size : \E p \in 1..Size : CellOrder[p] = BucketRows[i]
         /\ \A p \in 1..Size : \E c \in 0..(NList - 1) : Below(c) < p /\ p <= Below(c + 1)
<1> DEFINE runs == [c \in 1..NList |-> CellRun(c - 1)]
           off == [c \in 0..NList |-> Below(c)]
<1>1. Size \in Nat /\ NList \in Nat \ {0}
  BY BucketRowsFacts, Params
<1>2. /\ Below(0) = 0 /\ Below(NList) = Size
      /\ \A c \in 0..NList : Below(c) \in 0..Size
      /\ \A c \in 0..(NList - 1) : Below(c + 1) = Below(c) + Len(CellRun(c))
  BY BelowFacts
<1>3. \A c \in 0..(NList - 1) : CellRun(c) \in Seq(Entry) /\ Len(CellRun(c)) \in Nat
  <2>1. ASSUME NEW c \in 0..(NList - 1)
        PROVE  CellRun(c) \in Seq(Entry)
    <3>1. c \in Int
      OBVIOUS
    <3> QED
      BY <3>1, CellRunFacts, Zenon
  <2> QED
    BY <2>1
<1>4. runs \in [1..NList -> Seq(Entry)]
  <2>1. \A c \in 1..NList : c - 1 \in 0..(NList - 1)
    BY <1>1
  <2> QED
    BY <1>3, <2>1
<1>5. off \in [0..NList -> Nat] /\ off[0] = 0 /\ off[NList] = Size
  BY <1>1, <1>2
<1>6. \A c \in 1..NList : off[c] = off[c - 1] + Len(runs[c])
  <2>1. \A c \in 1..NList : c - 1 \in 0..(NList - 1) /\ (c - 1) + 1 = c /\ c \in 0..NList
                            /\ c - 1 \in 0..NList
    BY <1>1
  <2> QED
    BY <1>2, <2>1
<1>7. CellOrder = FlattenSeq(runs)
  BY DEF CellOrder
<1>8. \A c \in 0..(NList - 1) : /\ c + 1 \in 1..NList /\ runs[c + 1] = CellRun(c)
                               /\ off[(c + 1) - 1] = Below(c) /\ off[c + 1] = Below(c + 1)
  BY <1>1
<1>9. \A c \in 1..NList : c - 1 \in 0..(NList - 1) /\ off[c - 1] = Below(c - 1) /\ off[c] = Below(c)
  BY <1>1
<1> HIDE DEF runs, off
<1>10. /\ CellOrder \in Seq(Entry) /\ Len(CellOrder) = Size
       /\ \A c \in 1..NList : \A j \in 1..Len(runs[c]) :
            off[c - 1] + j \in 1..Size /\ CellOrder[off[c - 1] + j] = runs[c][j]
  <2> DEFINE F == FlattenSeq(runs)
  <2>1. /\ F \in Seq(Entry) /\ Len(F) = off[NList]
        /\ \A c \in 1..NList : \A j \in 1..Len(runs[c]) :
             off[c - 1] + j \in 1..Len(F) /\ F[off[c - 1] + j] = runs[c][j]
    <3>1. LaidOut(Entry, runs, off, NList, F)
      BY <1>1, <1>4, <1>5, <1>6, FlattenFacts
    <3> HIDE DEF F
    <3> QED
      BY <3>1, Zenon DEF LaidOut
  <2> HIDE DEF F
  <2>2. CellOrder = F
    BY <1>7 DEF F
  <2> QED
    BY <1>5, <2>1, <2>2, Zenon
<1>11. \A c \in 0..(NList - 1) : \A j \in 1..Len(CellRun(c)) :
         Below(c) + j \in 1..Size /\ CellOrder[Below(c) + j] = CellRun(c)[j]
  BY <1>8, <1>10
<1>12. ASSUME NEW c \in 0..(NList - 1), NEW p \in (Below(c) + 1)..Below(c + 1)
       PROVE  p - Below(c) \in 1..Len(CellRun(c)) /\ CellOrder[p] = CellRun(c)[p - Below(c)]
  <2>1. Below(c) \in Nat /\ Below(c + 1) = Below(c) + Len(CellRun(c)) /\ Len(CellRun(c)) \in Nat
    <3>1. c \in 0..NList
      BY <1>1
    <3> QED
      BY <1>1, <1>2, <1>3, <3>1
  <2>2. p - Below(c) \in 1..Len(CellRun(c)) /\ Below(c) + (p - Below(c)) = p
    BY <2>1
  <2> QED
    BY <1>11, <2>2
<1>13. ASSUME NEW c \in 0..(NList - 1), NEW p \in (Below(c) + 1)..Below(c + 1)
       PROVE  /\ \E i \in 1..Size : own[i] = c /\ CellOrder[p] = BucketRows[i]
              /\ \A q \in (Below(c) + 1)..Below(c + 1) :
                   p < q => CellOrder[p].added < CellOrder[q].added
  <2>1. c \in Int
    OBVIOUS
  <2>2. \E i \in 1..Size : own[i] = c /\ CellOrder[p] = BucketRows[i]
    <3>1. \A j \in 1..Len(CellRun(c)) :
            \E i \in 1..Size : own[i] = c /\ CellRun(c)[j] = BucketRows[i]
      BY <2>1, CellRunFacts, Zenon
    <3>2. p - Below(c) \in 1..Len(CellRun(c)) /\ CellOrder[p] = CellRun(c)[p - Below(c)]
      BY <1>12, Zenon
    <3>3. PICK i \in 1..Size : own[i] = c /\ CellRun(c)[p - Below(c)] = BucketRows[i]
      BY <3>1, <3>2, Zenon
    <3> QED
      BY <3>2, <3>3, Zenon
  <2>3. ASSUME NEW q \in (Below(c) + 1)..Below(c + 1), p < q
        PROVE  CellOrder[p].added < CellOrder[q].added
    <3>1. Below(c) \in Nat /\ p - Below(c) < q - Below(c)
      <4>1. c \in 0..NList
        BY <1>1
      <4>2. Below(c) \in Nat
        BY <1>1, <1>2, <4>1
      <4> QED
        BY <2>3, <4>2
    <3>2. \A j, k \in 1..Len(CellRun(c)) :
            j < k => CellRun(c)[j].added < CellRun(c)[k].added
      BY <2>1, CellRunFacts, Zenon
    <3> QED
      BY <1>12, <3>1, <3>2, Zenon
  <2> QED
    BY <2>2, <2>3
<1>14. ASSUME NEW i \in 1..Size
       PROVE  \E p \in 1..Size : CellOrder[p] = BucketRows[i]
  <2>1. own[i] \in 0..(NList - 1) /\ own[i] \in Int
    BY DEF AllOwned
  <2>2. PICK j \in 1..Len(CellRun(own[i])) : CellRun(own[i])[j] = BucketRows[i]
    BY <2>1, CellRunFacts
  <2> QED
    BY <1>11, <2>1, <2>2
<1>15. ASSUME NEW p \in 1..Size
       PROVE  \E c \in 0..(NList - 1) : Below(c) < p /\ p <= Below(c + 1)
  <2>1. p - 1 \in Nat /\ p - 1 < off[NList]
    BY <1>1, <1>5
  <2>2. PICK c \in 1..NList : off[c - 1] <= p - 1 /\ p - 1 < off[c]
    BY <1>1, <1>5, <2>1, BetweenOffsets
  <2>3. Below(c - 1) <= p - 1 /\ p - 1 < Below(c) /\ c - 1 \in 0..(NList - 1) /\ (c - 1) + 1 = c
    BY <1>9, <2>2
  <2>4. Below(c - 1) \in Int /\ Below(c) \in Int
    <3>1. c - 1 \in 0..NList /\ c \in 0..NList
      BY <1>1
    <3> QED
      BY <1>2, <3>1
  <2>5. Below(c - 1) < p /\ p <= Below(c)
    BY <2>3, <2>4
  <2> QED
    BY <2>3, <2>5
<1> QED
  BY <1>10, <1>13, <1>14, <1>15

-----------------------------------------------------------------------------
\* Placing a bucket.

\* The offsets of the buckets rise from 0 to the number of rows, by the size of
\* each bucket.
LEMMA BucketStartFacts ==
  ASSUME RowsInv
  PROVE  /\ BucketStart \in [0..NumBuckets -> Nat]
         /\ BucketStart[0] = 0 /\ BucketStart[NumBuckets] = Len(rows)
         /\ \A a, b \in 0..NumBuckets : a <= b => BucketStart[a] <= BucketStart[b]
         /\ bk \in 0..(NumBuckets - 1) => BucketStart[bk + 1] = BucketStart[bk] + Size
<1> DEFINE n == Len(rows)
           key == [i \in 1..n |-> rows[i].bucket]
           S(b) == {i \in 1..n : rows[i].bucket < b}
<1>1. n \in Nat /\ \A i \in 1..n : rows[i].bucket \in 0..15
  <2>1. n \in Nat /\ \A i \in 1..n : rows[i] \in Entry
    BY DEF RowsInv
  <2> QED
    BY <2>1 DEF Entry, Bucket, NumBuckets
<1>2. \A b \in 0..NumBuckets : BucketStart[b] = Cardinality(S(b))
  BY DEF BucketStart
<1>3. IsFiniteSet(1..n) /\ Cardinality(1..n) = n
  <2> HIDE DEF n
  <2> QED
    BY <1>1, FS_Interval
<1>4. S(0) = {} /\ S(NumBuckets) = 1..n
  <2> HIDE DEF n, key
  <2> QED
    BY <1>1 DEF NumBuckets
<1>5. \A a, b \in 0..NumBuckets : a <= b => S(a) \in SUBSET S(b) /\ S(b) \in SUBSET (1..n)
  <2> HIDE DEF n, key
  <2>1. \A i \in 1..n : rows[i].bucket \in Int
    BY <1>1
  <2>2. \A a, b \in 0..NumBuckets : a \in Int /\ b \in Int
    BY DEF NumBuckets
  <2> SUFFICES ASSUME NEW a \in 0..NumBuckets, NEW b \in 0..NumBuckets, a <= b
               PROVE  S(a) \in SUBSET S(b) /\ S(b) \in SUBSET (1..n)
    OBVIOUS
  <2>3. ASSUME NEW i \in 1..n, rows[i].bucket < a PROVE rows[i].bucket < b
    BY <2>1, <2>2, <2>3
  <2> QED
    BY <2>3
<1>6. NumBuckets \in Nat /\ BucketStart = [b \in 0..NumBuckets |-> BucketStart[b]]
  BY DEF NumBuckets, BucketStart
<1>7. bk \in 0..(NumBuckets - 1) => BucketStart[bk + 1] = BucketStart[bk] + Size
  <2> SUFFICES ASSUME bk \in 0..(NumBuckets - 1)
               PROVE  BucketStart[bk + 1] = BucketStart[bk] + Size
    OBVIOUS
  <2>1. bk \in Int /\ bk \in 0..NumBuckets /\ bk + 1 \in 0..NumBuckets
    BY DEF NumBuckets
  <2>2. \A i \in 1..n : key[i] = rows[i].bucket /\ key[i] \in Int
    <3>1. \A i \in 1..n : key[i] = rows[i].bucket
      OBVIOUS
    <3>2. \A i \in 1..n : rows[i].bucket \in Int
      BY <1>1
    <3> QED
      BY <3>1, <3>2, Zenon
  <2>3. S(bk) = {i \in 1..n : key[i] < bk} /\ S(bk + 1) = {i \in 1..n : key[i] < bk + 1}
        /\ InBucket = {i \in 1..n : key[i] = bk}
    BY <2>2 DEF InBucket
  <2> HIDE DEF n, key, S
  <2>4. NumBelow(n, key, bk + 1) = NumBelow(n, key, bk) + NumEqual(n, key, bk)
    BY <1>1, <2>1, <2>2, CountBelow
  <2>5. Cardinality(S(bk + 1)) = Cardinality(S(bk)) + Size
    BY <2>3, <2>4, Zenon DEF NumBelow, NumEqual, Size
  <2> QED
    BY <1>2, <2>1, <2>5
<1> HIDE DEF n, S, key
<1>8. \A a, b \in 0..NumBuckets : a <= b => /\ Cardinality(S(a)) \in Nat
                                          /\ Cardinality(S(a)) <= Cardinality(S(b))
  <2> SUFFICES ASSUME NEW a \in 0..NumBuckets, NEW b \in 0..NumBuckets, a <= b
               PROVE  Cardinality(S(a)) \in Nat /\ Cardinality(S(a)) <= Cardinality(S(b))
    OBVIOUS
  <2>1. IsFiniteSet(S(b))
    BY <1>3, <1>5, FS_Subset
  <2>2. IsFiniteSet(S(a)) /\ Cardinality(S(a)) <= Cardinality(S(b))
    BY <1>5, <2>1, FS_Subset
  <2> QED
    BY <2>2, FS_CardinalityType
<1>9. \A b \in 0..NumBuckets : b <= b /\ BucketStart[b] \in Nat
  BY <1>2, <1>6, <1>8
<1>10. BucketStart[0] = 0 /\ BucketStart[NumBuckets] = n
  <2>1. 0 \in 0..NumBuckets /\ NumBuckets \in 0..NumBuckets
    BY <1>6
  <2> QED
    BY <1>2, <1>3, <1>4, <2>1, FS_EmptySet
<1>11. BucketStart \in [0..NumBuckets -> Nat]
  BY <1>6, <1>9
<1>12. \A a, b \in 0..NumBuckets : a <= b => BucketStart[a] <= BucketStart[b]
  BY <1>2, <1>8
<1> QED
  BY <1>7, <1>10, <1>11, <1>12 DEF n

\* The cells of a bucket and the rows of its cells join those already placed.
LEMMA PlaceKeeps ==
  ASSUME IInv, PlaceBucket
  PROVE  IInv'
<1> DEFINE runFirst == [c \in 1..NList |-> CellFirst(c - 1)]
           F(g) == IF g = bk' * NList THEN Len(placed') ELSE starts'[g + 1]
<1>1. /\ RowsInv /\ TrainInv /\ PlaceInv /\ RowsDone /\ CellsDone /\ RunsDone
  BY DEF IInv
<1>2. /\ rows' = rows /\ cents' = cents /\ it' = it /\ own' = own /\ chunks' = chunks
      /\ phase = "place" /\ bk' = bk + 1
      /\ phase' = (IF bk + 1 = NumBuckets THEN "built" ELSE "seed")
      /\ placed' = placed \o CellOrder
      /\ starts' = starts \o runFirst
      /\ trained' = Append(trained, cents)
  BY DEF PlaceBucket, CellOrder
<1>3. /\ bk \in Nat /\ bk \in 0..(NumBuckets - 1) /\ bk \in 0..NumBuckets
      /\ bk + 1 \in 0..NumBuckets /\ CentsOK
  BY <1>1, <1>2 DEF TrainInv, NumBuckets
<1>0. PICK N0 \in Nat : N0 = bk * NList
  BY <1>3, Params
<1>4. NList \in Nat \ {0} /\ bk' * NList = N0 + NList /\ N0 + NList \in Nat
  <2>1. NList \in Nat \ {0}
    BY Params
  <2> QED
    BY <1>0, <1>2, <1>3, <2>1
<1>5. Size \in Nat /\ AtMost(NList, Size) \in 0..NList
  BY <1>1, BucketRowsFacts, CellsFewerThanRows
<1>6. AllOwned
  <2>1. own \in [1..Size -> 0..(AtMost(NList, Size) - 1)]
    BY <1>1, <1>2 DEF TrainInv
  <2> QED
    BY <1>4, <1>5, <2>1 DEF AllOwned
<1>28. PICK n \in Nat : n = Len(placed)
  BY <1>1 DEF RowsDone
<1>7. /\ placed \in Seq(Entry) /\ n = BucketStart[bk]
      /\ starts \in Seq(Nat) /\ Len(starts) = N0
      /\ trained \in Seq(Trained) /\ Len(trained) = bk
  BY <1>0, <1>1, <1>28 DEF RowsDone, CellsDone, RunsDone
<1>8. RowsInv' /\ BucketStart' = BucketStart
  BY <1>1, <1>2 DEF RowsInv, BucketStart
<1>9. BucketStart[bk + 1] = n + Size
  BY <1>1, <1>3, <1>7, BucketStartFacts
<1>10. CellOrder \in Seq(Entry) /\ Len(CellOrder) = Size
  BY <1>1, <1>6, CellOrderFacts
<1>11. /\ placed' \in Seq(Entry) /\ Len(placed') = n + Size
       /\ \A p \in 1..n : placed'[p] = placed[p]
       /\ \A p \in 1..Size : n + p \in 1..Len(placed') /\ placed'[n + p] = CellOrder[p]
  <2>1. Joined(Entry, placed, CellOrder, placed')
    BY <1>2, <1>7, <1>10, Concatenated
  <2> QED
    BY <1>10, <1>28, <2>1, Zenon DEF Joined
<1>12. /\ Below(0) = 0 /\ Below(NList) = Size
       /\ \A c \in 0..NList : Below(c) \in 0..Size
       /\ \A c \in 0..(NList - 1) : Below(c) <= Below(c + 1)
  <2>1. /\ Below(0) = 0 /\ Below(NList) = Size /\ \A c \in 0..NList : Below(c) \in 0..Size
        /\ \A c \in 0..(NList - 1) : Below(c + 1) = Below(c) + Len(CellRun(c))
    BY <1>1, <1>6, BelowFacts
  <2>2. ASSUME NEW c \in 0..(NList - 1)
        PROVE  Below(c) <= Below(c + 1)
    <3>1. c \in Int /\ c \in 0..NList
      BY <1>4
    <3>2. CellRun(c) \in Seq(Entry)
      BY <1>1, <1>6, <3>1, CellRunFacts, Zenon
    <3>3. Len(CellRun(c)) \in Nat
      BY <3>2
    <3>4. Below(c) \in Nat
      BY <1>5, <2>1, <3>1
    <3> QED
      BY <2>1, <3>3, <3>4
  <2> QED
    BY <2>1, <2>2
<1>13. runFirst \in [1..NList -> Nat] /\ Len(runFirst) = NList
       /\ \A c \in 1..NList : runFirst[c] = n + Below(c - 1)
  <2>1. \A c \in 1..NList : runFirst[c] = n + Below(c - 1)
    BY <1>28 DEF CellFirst, Below
  <2>2. \A c \in 1..NList : n + Below(c - 1) \in Nat
    <3>1. \A c \in 1..NList : c - 1 \in 0..NList
      BY <1>4
    <3> QED
      BY <1>5, <1>7, <1>12, <3>1
  <2>3. Len(runFirst) = NList /\ runFirst = [c \in 1..NList |-> runFirst[c]]
    BY <1>4
  <2> HIDE DEF runFirst
  <2> QED
    BY <2>1, <2>2, <2>3
<1> HIDE DEF runFirst
<1>14. /\ starts' \in Seq(Nat) /\ Len(starts') = N0 + NList
       /\ \A p \in 1..N0 : starts'[p] = starts[p]
       /\ \A p \in 1..NList : starts'[N0 + p] = runFirst[p]
  <2>1. runFirst \in Seq(Nat)
    BY <1>4, <1>13
  <2>2. Joined(Nat, starts, runFirst, starts')
    BY <1>2, <1>7, <2>1, Concatenated
  <2> QED
    BY <1>7, <1>13, <2>2, Zenon DEF Joined
<1>15. F(N0 + NList) = n + Size
       /\ \A g \in 0..(N0 + NList - 1) : F(g) = starts'[g + 1]
  BY <1>4, <1>11
<1> HIDE DEF F
<1>16. \A g \in 0..N0 : F(g) = First(g)
  <2>1. ASSUME NEW g \in 0..(N0 - 1)
        PROVE  F(g) = starts[g + 1] /\ First(g) = starts[g + 1]
    <3>1. g \in 0..(N0 + NList - 1) /\ g + 1 \in 1..N0 /\ g # N0
      BY <1>4
    <3>2. F(g) = starts'[g + 1]
      BY <1>15, <3>1
    <3>3. starts'[g + 1] = starts[g + 1]
      BY <1>14, <3>1
    <3>4. First(g) = starts[g + 1]
      BY <1>0, <3>1, Zenon DEF First
    <3> QED
      BY <3>2, <3>3, <3>4
  <2>2. F(N0) = n + Below(0)
    <3>1. N0 \in 0..(N0 + NList - 1) /\ 1 \in 1..NList /\ 1 - 1 = 0
      BY <1>4
    <3> QED
      BY <1>13, <1>14, <1>15, <3>1
  <2>3. First(N0) = n
    BY <1>0, <1>28 DEF First
  <2> QED
    BY <1>4, <1>7, <1>12, <2>1, <2>2, <2>3
<1>17. \A c \in 0..NList : F(N0 + c) = n + Below(c)
  <2>1. ASSUME NEW c \in 0..(NList - 1)
        PROVE  F(N0 + c) = n + Below(c)
    <3>1. N0 + c \in 0..(N0 + NList - 1) /\ c + 1 \in 1..NList /\ (c + 1) - 1 = c
          /\ (N0 + c) + 1 = N0 + (c + 1)
      BY <1>4
    <3>2. F(N0 + c) = starts'[N0 + (c + 1)]
      BY <1>15, <3>1
    <3> QED
      BY <1>13, <1>14, <3>1, <3>2
  <2> QED
    BY <1>4, <1>12, <1>15, <2>1
\* The new cells number from N0 and belong to the bucket.
<1>18. \A g \in 0..(N0 + NList - 1) :
         g \in 0..(N0 - 1) \/ \E c \in 0..(NList - 1) : g = N0 + c
  <2>1. \A g \in 0..(N0 + NList - 1) : ~(g < N0) => g - N0 \in 0..(NList - 1) /\ g = N0 + (g - N0)
    BY <1>4
  <2> QED
    BY <1>4, <2>1
<1>19. \A c \in 0..(NList - 1) : (N0 + c) \div NList = bk /\ (N0 + c) % NList = c
  BY <1>0, <1>3, <1>4, DivMod
<1>20. \A g \in 0..(N0 - 1) : g \div NList \in 0..(bk - 1)
  <2> SUFFICES ASSUME NEW g \in 0..(N0 - 1)
               PROVE  g \div NList \in 0..(bk - 1)
    OBVIOUS
  <2> DEFINE q == g \div NList
  <2>1. q \in Nat /\ NList * q <= g
    BY <1>4
  <2> HIDE DEF q
  <2>2. bk <= q => NList * bk <= NList * q
    BY <1>3, <1>4, <2>1
  <2>3. N0 = NList * bk /\ NList * q \in Nat
    BY <1>0, <1>3, <1>4, <2>1
  <2>4. q < bk
    BY <1>3, <1>4, <2>1, <2>2, <2>3
  <2> QED
    BY <1>3, <2>1, <2>4 DEF q
<1>21. \A g \in 0..(N0 - 1) : First(g + 1) <= n
  <2> SUFFICES ASSUME NEW g \in 0..(N0 - 1)
               PROVE  First(g + 1) <= n
    OBVIOUS
  <2> DEFINE q == g \div NList
  <2>1. First(g + 1) <= BucketStart[q + 1] /\ First(g) <= First(g + 1) /\ q \in 0..(bk - 1)
    BY <1>0, <1>1, <1>20 DEF CellsDone
  <2> HIDE DEF q
  <2>2. q + 1 \in 0..NumBuckets /\ q + 1 <= bk
    BY <1>3, <2>1 DEF NumBuckets
  <2>3. BucketStart[q + 1] <= BucketStart[bk] /\ BucketStart[q + 1] \in Nat
    BY <1>1, <1>3, <2>2, BucketStartFacts
  <2>4. First(g + 1) \in Nat
    <3>1. g + 1 = N0 \/ g + 2 \in 1..N0
      BY <1>4
    <3>2. g + 1 = N0 => First(g + 1) = n
      BY <1>0, <1>28 DEF First
    <3>3. g + 1 # N0 => First(g + 1) = starts[(g + 1) + 1]
      BY <1>0 DEF First
    <3>4. (g + 1) + 1 = g + 2 /\ \A k \in 1..N0 : starts[k] \in Nat
      BY <1>7
    <3> QED
      BY <1>7, <3>1, <3>2, <3>3, <3>4
  <2> QED
    BY <1>7, <2>1, <2>3, <2>4, SMTT(30)
\* The rows of the new cells.
<1>22. ASSUME NEW c \in 0..(NList - 1), NEW r \in (n + Below(c))..(n + Below(c + 1) - 1)
       PROVE  /\ r + 1 - n \in (Below(c) + 1)..Below(c + 1)
              /\ placed'[r + 1] = CellOrder[r + 1 - n]
  <2>1. c \in 0..NList /\ c + 1 \in 0..NList
    BY <1>4
  <2>2. Below(c) \in 0..Size /\ Below(c + 1) \in 0..Size
    BY <1>12, <2>1
  <2>3. r + 1 - n \in (Below(c) + 1)..Below(c + 1) /\ r + 1 - n \in 1..Size
        /\ n + (r + 1 - n) = r + 1
    <3> DEFINE a == Below(c)
               b == Below(c + 1)
    <3>1. r \in (n + a)..(n + b - 1) /\ a \in 0..Size /\ b \in 0..Size
      BY <2>2
    <3> HIDE DEF a, b
    <3>2. r + 1 - n \in (a + 1)..b /\ r + 1 - n \in 1..Size /\ n + (r + 1 - n) = r + 1
      BY <1>5, <3>1
    <3> QED
      BY <3>2 DEF a, b
  <2> QED
    BY <1>11, <2>3
<1>23. RowsDone'
  <2>1. ASSUME NEW p \in 1..(n + Size)
        PROVE  placed'[p].added \in 1..Len(rows) /\ placed'[p] = rows[placed'[p].added]
    <3>1. CASE p \in 1..n
      BY <1>1, <1>11, <1>28, <3>1 DEF RowsDone
    <3>2. CASE p \notin 1..n
      <4>1. p - n \in 1..Size /\ n + (p - n) = p
        BY <1>5, <1>7, <3>2
      <4>2. placed'[p] = CellOrder[p - n]
        BY <1>11, <4>1
      <4>3. PICK c \in 0..(NList - 1) : Below(c) < p - n /\ p - n <= Below(c + 1)
        BY <1>1, <1>6, <4>1, CellOrderFacts
      <4>4. p - n \in (Below(c) + 1)..Below(c + 1)
        <5>1. c \in 0..NList /\ c + 1 \in 0..NList
          BY <1>4
        <5>2. Below(c) \in Nat /\ Below(c + 1) \in Nat
          BY <1>5, <1>12, <5>1
        <5> QED
          BY <4>1, <4>3, <5>2
      <4>5. PICK i \in 1..Size : CellOrder[p - n] = BucketRows[i]
        BY <1>1, <1>6, <4>4, CellOrderFacts
      <4> QED
        BY <1>1, <4>2, <4>5, BucketRowsFacts
    <3> QED
      BY <3>1, <3>2
  <2>2. ASSUME NEW i \in 1..Len(rows), rows[i].bucket < bk + 1
        PROVE  \E p \in 1..(n + Size) : placed'[p] = rows[i]
    <3>1. rows[i].bucket \in Nat
      <4>1. rows[i] \in Entry
        BY <1>1 DEF RowsInv
      <4> QED
        BY <4>1 DEF Entry, Bucket, NumBuckets
    <3>2. CASE rows[i].bucket < bk
      <4>1. PICK p \in 1..n : placed[p] = rows[i]
        BY <1>1, <1>28, <3>2 DEF RowsDone
      <4>2. p \in 1..(n + Size) /\ placed'[p] = placed[p]
        BY <1>5, <1>11
      <4> QED
        BY <4>1, <4>2
    <3>3. CASE rows[i].bucket = bk
      <4>1. PICK j \in 1..Size : BucketRows[j] = rows[i]
        BY <1>1, <3>3, BucketRowsFacts
      <4>2. PICK p \in 1..Size : CellOrder[p] = BucketRows[j]
        BY <1>1, <1>6, CellOrderFacts
      <4>3. n + p \in 1..(n + Size) /\ placed'[n + p] = rows[i]
        BY <1>11, <4>1, <4>2
      <4> QED
        BY <4>3
    <3> QED
      BY <1>3, <2>2, <3>1, <3>2, <3>3
  <2> QED
    BY <1>2, <1>8, <1>9, <1>11, <2>1, <2>2 DEF RowsDone
<1>24. CellsDone'
  <2>1. ASSUME NEW g \in 0..(N0 + NList - 1)
        PROVE  /\ BucketStart[g \div NList] <= F(g) /\ F(g) <= F(g + 1)
               /\ F(g + 1) <= BucketStart[(g \div NList) + 1]
    <3>1. CASE g \in 0..(N0 - 1)
      <4>1. g \in 0..N0 /\ g + 1 \in 0..N0
        BY <1>4, <3>1
      <4> QED
        BY <1>0, <1>1, <1>16, <3>1, <4>1 DEF CellsDone
    <3>2. CASE g \notin 0..(N0 - 1)
      <4>1. PICK c \in 0..(NList - 1) : g = N0 + c
        BY <1>18, <3>2
      <4>2. c \in 0..NList /\ c + 1 \in 0..NList /\ g + 1 = N0 + (c + 1)
        BY <1>4, <4>1
      <4>3. F(g) = n + Below(c) /\ F(g + 1) = n + Below(c + 1) /\ g \div NList = bk
        BY <1>17, <1>19, <4>1, <4>2
      <4>4. Below(c) \in 0..Size /\ Below(c + 1) \in 0..Size /\ Below(c) <= Below(c + 1)
        BY <1>12, <4>2
      <4>5. n <= n + Below(c) /\ n + Below(c) <= n + Below(c + 1) /\ n + Below(c + 1) <= n + Size
        <5> DEFINE a == Below(c)
                   b == Below(c + 1)
        <5> HIDE DEF a, b
        <5>1. n <= n + a /\ n + a <= n + b /\ n + b <= n + Size
          BY <1>5, <4>4 DEF a, b
        <5> QED
          BY <5>1 DEF a, b
      <4>6. BucketStart[g \div NList] = n /\ BucketStart[(g \div NList) + 1] = n + Size
        BY <1>7, <1>9, <4>3
      <4> QED
        BY <4>3, <4>5, <4>6, Zenon
    <3> QED
      BY <3>1, <3>2
  <2>2. ASSUME NEW r \in 0..(n + Size - 1)
        PROVE  \E g \in 0..(N0 + NList - 1) : F(g) <= r /\ r < F(g + 1)
    <3>1. CASE r \in 0..(n - 1)
      <4>1. PICK g \in 0..(N0 - 1) : First(g) <= r /\ r < First(g + 1)
        BY <1>0, <1>1, <1>28, <3>1 DEF CellsDone
      <4>2. g \in 0..(N0 + NList - 1) /\ g \in 0..N0 /\ g + 1 \in 0..N0
        BY <1>4
      <4> QED
        BY <1>16, <4>1, <4>2
    <3>2. CASE r \notin 0..(n - 1)
      <4>1. r - n + 1 \in 1..Size
        BY <1>5, <3>2
      <4>2. PICK c \in 0..(NList - 1) : Below(c) < r - n + 1 /\ r - n + 1 <= Below(c + 1)
        BY <1>1, <1>6, <4>1, CellOrderFacts
      <4>3. c \in 0..NList /\ c + 1 \in 0..NList /\ N0 + c \in 0..(N0 + NList - 1)
            /\ (N0 + c) + 1 = N0 + (c + 1)
        BY <1>4
      <4>4. F(N0 + c) = n + Below(c) /\ F((N0 + c) + 1) = n + Below(c + 1)
        BY <1>17, <4>3
      <4>5. Below(c) \in Nat /\ Below(c + 1) \in Nat
        BY <1>5, <1>12, <4>3
      <4>6. F(N0 + c) <= r /\ r < F((N0 + c) + 1)
        <5>1. n + Below(c) <= r /\ r < n + Below(c + 1)
          BY <4>2, <4>5
        <5> QED
          BY <4>4, <5>1
      <4> QED
        BY <4>3, <4>6
    <3> QED
      BY <3>1, <3>2
  <2>3. bk' * NList = N0 + NList /\ Len(placed') = n + Size /\ Len(starts') = N0 + NList
        /\ starts' \in Seq(Nat)
    BY <1>4, <1>11, <1>14
  <2>7. /\ 0..(bk' * NList - 1) = 0..(N0 + NList - 1)
        /\ 0..(Len(placed') - 1) = 0..(n + Size - 1)
    <3>1. bk' * NList = N0 + NList /\ bk' * NList \in Int
      BY <1>4, <2>3
    <3>2. Len(placed') = n + Size /\ Len(placed') \in Int
      BY <1>5, <2>3
    <3>3. \A x, a, b \in Int : x = a + b => 0..(x - 1) = 0..(a + b - 1)
      OBVIOUS
    <3>4. N0 \in Int /\ NList \in Int /\ n \in Int /\ Size \in Int
      BY <1>4, <1>5
    <3>5. 0..(bk' * NList - 1) = 0..(N0 + NList - 1)
      BY <3>1, <3>3, <3>4, Zenon
    <3>6. 0..(Len(placed') - 1) = 0..(n + Size - 1)
      BY <3>2, <3>3, <3>4, Zenon
    <3> QED
      BY <3>5, <3>6, Zenon
  <2>4. \A g \in 0..(bk' * NList - 1) :
          /\ BucketStart'[g \div NList] <= F(g) /\ F(g) <= F(g + 1)
          /\ F(g + 1) <= BucketStart'[(g \div NList) + 1]
    BY <1>8, <2>1, <2>7, Zenon
  <2>5. \A r \in 0..(Len(placed') - 1) :
          \E g \in 0..(bk' * NList - 1) : F(g) <= r /\ r < F(g + 1)
    BY <2>2, <2>7, Zenon
  <2>6. starts' \in Seq(Nat) /\ Len(starts') = bk' * NList
    BY <2>3
  <2> QED
    BY <2>4, <2>5, <2>6, Zenon DEF CellsDone, First, F
<1>25. RunsDone'
  <2>1. trained' \in Seq(Trained) /\ Len(trained') = bk + 1 /\ trained'[bk + 1] = cents
        /\ \A b \in 1..bk : trained'[b] = trained[b]
    <3>1. cents \in Trained
      BY <1>3, <1>5 DEF Trained, CentsOK
    <3> QED
      BY <1>2, <1>7, <3>1
  <2>2. ASSUME NEW g \in 0..(N0 + NList - 1), NEW r \in F(g)..(F(g + 1) - 1)
        PROVE  /\ placed'[r + 1].bucket = g \div NList
               /\ IsNearest(trained'[(g \div NList) + 1], placed'[r + 1].code, g % NList)
               /\ \A s \in F(g)..(F(g + 1) - 1) :
                    r < s => placed'[r + 1].added < placed'[s + 1].added
    <3>1. CASE g \in 0..(N0 - 1)
      <4>1. g \in 0..N0 /\ g + 1 \in 0..N0 /\ g \div NList \in 0..(bk - 1)
        BY <1>4, <1>20, <3>1
      <4>2. F(g) = First(g) /\ F(g + 1) = First(g + 1) /\ First(g + 1) <= n
        BY <1>16, <1>21, <3>1, <4>1
      <4>3. (g \div NList) + 1 \in 1..bk
        BY <1>3, <4>1
      <4>4. \A s \in First(g)..(First(g + 1) - 1) : s + 1 \in 1..n
        <5>1. First(g) \in Nat /\ First(g + 1) \in Int
          <6>1. g # N0 /\ g + 1 \in 1..N0
            BY <1>4, <3>1
          <6>2. First(g) = starts[g + 1] /\ First(g) \in Nat
            BY <1>0, <1>7, <6>1 DEF First
          <6>3. First(g + 1) = n \/ (g + 1 # N0 /\ First(g + 1) = starts[(g + 1) + 1])
            BY <1>0, <1>28 DEF First
          <6>4. g + 1 # N0 => (g + 1) + 1 \in 1..N0
            BY <1>4, <6>1
          <6> QED
            BY <1>7, <6>2, <6>3, <6>4
        <5> QED
          BY <1>7, <4>2, <5>1
      <4>5. \A s \in First(g)..(First(g + 1) - 1) : placed'[s + 1] = placed[s + 1]
        BY <1>11, <4>4
      <4>6. trained'[(g \div NList) + 1] = trained[(g \div NList) + 1]
        BY <2>1, <4>3
      <4>7. /\ placed[r + 1].bucket = g \div NList
            /\ IsNearest(trained[(g \div NList) + 1], placed[r + 1].code, g % NList)
            /\ \A s \in First(g)..(First(g + 1) - 1) :
                 r < s => placed[r + 1].added < placed[s + 1].added
        <5>1. r \in First(g)..(First(g + 1) - 1)
          BY <2>2, <4>2
        <5> QED
          BY <1>0, <1>1, <3>1, <5>1 DEF RunsDone
      <4> QED
        BY <2>2, <4>2, <4>5, <4>6, <4>7
    <3>2. CASE g \notin 0..(N0 - 1)
      <4>1. PICK c \in 0..(NList - 1) : g = N0 + c
        BY <1>18, <3>2
      <4>2. c \in 0..NList /\ c + 1 \in 0..NList /\ g + 1 = N0 + (c + 1)
        BY <1>4, <4>1
      <4>3. F(g) = n + Below(c) /\ F(g + 1) = n + Below(c + 1)
            /\ g \div NList = bk /\ g % NList = c
        BY <1>17, <1>19, <4>1, <4>2
      <4>4. \A s \in F(g)..(F(g + 1) - 1) :
              /\ s + 1 - n \in (Below(c) + 1)..Below(c + 1)
              /\ placed'[s + 1] = CellOrder[s + 1 - n]
        <5>1. \A s \in (n + Below(c))..(n + Below(c + 1) - 1) :
                /\ s + 1 - n \in (Below(c) + 1)..Below(c + 1)
                /\ placed'[s + 1] = CellOrder[s + 1 - n]
          BY <1>22
        <5>2. F(g)..(F(g + 1) - 1) = (n + Below(c))..(n + Below(c + 1) - 1)
          <6>1. Below(c) \in Int /\ Below(c + 1) \in Int
            BY <1>5, <1>12, <4>2
          <6>2. F(g) = n + Below(c) /\ F(g + 1) = n + Below(c + 1)
            BY <4>3
          <6> QED
            BY <6>1, <6>2
        <5> QED
          BY <5>1, <5>2, Zenon
      <4>5. PICK i \in 1..Size : own[i] = c /\ CellOrder[r + 1 - n] = BucketRows[i]
        BY <1>1, <1>6, <2>2, <4>4, CellOrderFacts
      <4>6. placed'[r + 1] = BucketRows[i]
        BY <2>2, <4>4, <4>5
      <4>7. BucketRows[i].bucket = bk /\ IsNearest(cents, BucketRows[i].code, c)
        <5>1. Assigned(i)
          BY <1>1, <1>2 DEF PlaceInv
        <5> QED
          BY <1>1, <4>5, <5>1, BucketRowsFacts DEF Assigned
      <4>8. ASSUME NEW s \in F(g)..(F(g + 1) - 1), r < s
            PROVE  placed'[r + 1].added < placed'[s + 1].added
        <5>1. r + 1 - n < s + 1 - n
          <6>1. r \in Int /\ s \in Int
            OBVIOUS
          <6> QED
            BY <1>7, <4>8, <6>1
        <5> QED
          BY <1>1, <1>6, <2>2, <4>4, <5>1, CellOrderFacts
      <4> QED
        BY <2>1, <4>3, <4>6, <4>7, <4>8
    <3> QED
      BY <3>1, <3>2
  <2>3. bk' * NList = N0 + NList /\ bk' = bk + 1
    BY <1>2, <1>4
  <2>4. \A g \in 0..(N0 + NList - 1) : \A r \in F(g)..(F(g + 1) - 1) :
          /\ placed'[r + 1].bucket = g \div NList
          /\ IsNearest(trained'[(g \div NList) + 1], placed'[r + 1].code, g % NList)
          /\ \A s \in F(g)..(F(g + 1) - 1) :
               r < s => placed'[r + 1].added < placed'[s + 1].added
    BY <2>2
  <2>5. \A g \in 0..(bk' * NList - 1) : \A r \in F(g)..(F(g + 1) - 1) :
          /\ placed'[r + 1].bucket = g \div NList
          /\ IsNearest(trained'[(g \div NList) + 1], placed'[r + 1].code, g % NList)
          /\ \A s \in F(g)..(F(g + 1) - 1) :
               r < s => placed'[r + 1].added < placed'[s + 1].added
    <3>1. 0..(bk' * NList - 1) = 0..(N0 + NList - 1)
      <4>1. bk' * NList = N0 + NList /\ bk' * NList \in Int
        BY <1>4, <2>3
      <4>2. \A x, a, b \in Int : x = a + b => 0..(x - 1) = 0..(a + b - 1)
        OBVIOUS
      <4>3. N0 \in Int /\ NList \in Int
        BY <1>4
      <4> QED
        BY <4>1, <4>2, <4>3, Zenon
    <3> QED
      BY <2>4, <3>1, Zenon
  <2>6. trained' \in Seq(Trained) /\ Len(trained') = bk'
    BY <2>1, <2>3, Zenon
  <2> QED
    BY <2>5, <2>6, Zenon DEF RunsDone, First, F
<1>26. TrainInv'
  BY <1>1, <1>2, <1>3 DEF TrainInv
<1>27. ChunkInv' /\ PlaceInv'
  BY <1>2 DEF ChunkInv, PlaceInv
<1> QED
  BY <1>8, <1>23, <1>24, <1>25, <1>26, <1>27 DEF IInv

-----------------------------------------------------------------------------
\* The theorems.

\* Every step of a build keeps the invariant.
LEMMA BuildStepInv ==
  ASSUME IInv, [BuildNext]_buildVars
  PROVE  IInv'
<1>1. CASE SeedBucket
  BY <1>1, SeedKeeps
<1>2. CASE AssignSample
  BY <1>2, AssignKeeps
<1>3. CASE UpdateCentroids
  BY <1>3, UpdateKeeps
<1>4. CASE Fork
  BY <1>4, ForkKeeps
<1>5. CASE \E w \in DOMAIN chunks : AssignRow(w)
  BY <1>5, AssignRowKeeps
<1>6. CASE Join
  BY <1>6, JoinKeeps
<1>7. CASE PlaceBucket
  BY <1>7, PlaceKeeps
<1>8. CASE UNCHANGED buildVars
  <2>1. UNCHANGED <<rows, bk, phase, cents, it, own, chunks, placed, starts, trained>>
    BY <1>8 DEF buildVars
  <2>2. /\ Size' = Size /\ BucketRows' = BucketRows /\ Sample' = Sample
        /\ RowsInv' /\ BucketStart' = BucketStart
    BY <2>1, BucketKept DEF IInv
  <2>3. RowsDone' /\ CellsDone' /\ RunsDone'
    BY <2>1, DoneKept DEF IInv
  <2>4. TrainInv'
    BY <2>1, <2>2 DEF IInv, TrainInv, CentsOK, AtMost
  <2>5. Chunk' = Chunk
    BY <2>2 DEF Chunk, Workers, AtMost
  <2>6. \A i \in 1..Size : Assigned(i)' <=> Assigned(i)
    BY <2>1, <2>2 DEF Assigned
  <2>7. ChunkInv' /\ PlaceInv'
    BY <2>1, <2>2, <2>5 DEF IInv, ChunkInv, PlaceInv, Assigned
  <2> QED
    BY <2>2, <2>3, <2>4, <2>7 DEF IInv
<1> QED
  BY <1>1, <1>2, <1>3, <1>4, <1>5, <1>6, <1>7, <1>8 DEF BuildNext

\* The invariant holds throughout a build.
LEMMA Invariant == BuildSpec => []IInv
<1>1. BuildInit => IInv
  BY BuildInitInv
<1>2. IInv /\ [BuildNext]_buildVars => IInv'
  BY BuildStepInv
<1> QED
  BY <1>1, <1>2, PTL DEF BuildSpec

\* In every state of a build: codes on the grid, cells and iterations in their
\* ranges, no centroid that divides by zero, and never more rows placed than
\* added.
THEOREM TypeCorrect == BuildSpec => []BuildTypeOK
<1>1. ASSUME IInv
      PROVE  BuildTypeOK
  <2>1. RowsInv /\ TrainInv /\ RowsDone /\ CellsDone /\ RunsDone
    BY <1>1 DEF IInv
  <2>2. \A i \in 1..Len(rows) : rows[i] \in
          [code : [Dim -> Code], bucket : Bucket, fraud : BOOLEAN, added : 1..Len(rows)]
    <3>1. \A S : \A e \in Entry : e.added \in S =>
            e \in [code : [Dim -> Code], bucket : Bucket, fraud : BOOLEAN, added : S]
      BY DEF Entry
    <3>2. \A i \in 1..Len(rows) : rows[i] \in Entry /\ rows[i].added \in 1..Len(rows)
      BY <2>1 DEF RowsInv
    <3> QED
      BY <3>1, <3>2, Zenon
  <2>3. \A c \in DOMAIN cents : cents[c].cnt \in Nat \ {0} /\ cents[c].sum \in [Dim -> Int]
    BY <2>1 DEF TrainInv, Centroid
  <2>4. Len(placed) \in 0..Len(rows)
    <3>1. NumBuckets \in 0..NumBuckets /\ bk \in 0..NumBuckets /\ bk <= NumBuckets
      BY <2>1 DEF TrainInv, NumBuckets
    <3>2. BucketStart[bk] \in Nat /\ BucketStart[bk] <= Len(rows)
      BY <2>1, <3>1, BucketStartFacts
    <3>3. Len(rows) \in Nat
      BY <2>1 DEF RowsInv
    <3> QED
      BY <2>1, <3>2, <3>3 DEF RowsDone
  <2> QED
    BY <2>1, <2>2, <2>3, <2>4 DEF BuildTypeOK, TrainInv, CellsDone, RunsDone
<1> QED
  BY <1>1, Invariant, PTL

\* parallelFor's goroutines never have a row in common, and at every moment a
\* row without its nearest cell is still some goroutine's to do, for every
\* number of rows, of processors and every interleaving.
THEOREM ChunksNeverRace == BuildSpec => []ChunksCoverTheRest
<1>1. ASSUME IInv
      PROVE  ChunksCoverTheRest
  <2> SUFFICES ASSUME phase = "final"
               PROVE  /\ \A v, w \in DOMAIN chunks : v < w => chunks[v].end <= chunks[w].next
                      /\ \A i \in 1..Size :
                           \/ own[i] = Nearest(BucketRows[i].code)
                           \/ \E w \in DOMAIN chunks : i - 1 \in chunks[w].next..(chunks[w].end - 1)
    BY DEF ChunksCoverTheRest
  <2>1. RowsInv /\ CentsOK /\ Size > 0
    BY <1>1 DEF IInv, TrainInv
  <2>2. \A w \in DOMAIN chunks :
          /\ w \in Nat /\ chunks[w].next \in Nat /\ chunks[w].end \in Nat
          /\ w * Chunk <= chunks[w].next /\ chunks[w].end <= w * Chunk + Chunk
    BY <1>1 DEF IInv, ChunkInv
  <2>3. Chunk \in Nat
    BY <2>1, ChunksSuffice
  <2>4. ASSUME NEW v \in DOMAIN chunks, NEW w \in DOMAIN chunks, v < w
        PROVE  chunks[v].end <= chunks[w].next
    <3>1. \A k, a, b \in Nat : a < b => a * k + k <= b * k /\ a * k + k \in Nat /\ b * k \in Nat
      <4>1. \A k, a, b \in Nat : a + 1 <= b => (a + 1) * k <= b * k
        OBVIOUS
      <4> QED
        BY <4>1
    <3>2. v * Chunk + Chunk <= w * Chunk /\ v * Chunk + Chunk \in Nat /\ w * Chunk \in Nat
      BY <2>2, <2>3, <2>4, <3>1
    <3>3. /\ chunks[v].end \in Nat /\ chunks[w].next \in Nat
          /\ chunks[v].end <= v * Chunk + Chunk /\ w * Chunk <= chunks[w].next
      BY <2>2
    <3> QED
      BY <3>2, <3>3
  <2>5. ASSUME NEW i \in 1..Size
        PROVE  \/ own[i] = Nearest(BucketRows[i].code)
               \/ \E w \in DOMAIN chunks : i - 1 \in chunks[w].next..(chunks[w].end - 1)
    <3>1. CASE Assigned(i)
      BY <2>1, <3>1, NearestOfRow DEF Assigned
    <3>2. CASE \E w \in DOMAIN chunks : chunks[w].next <= i - 1 /\ i - 1 < chunks[w].end
      BY <2>2, <3>2
    <3> QED
      BY <1>1, <3>1, <3>2 DEF IInv, ChunkInv
  <2> QED
    BY <2>4, <2>5
<1> QED
  BY <1>1, Invariant, PTL

\* The index reads its cells where the build put them.
LEMMA IndexFields ==
  ASSUME IInv, phase = "built"
  PROVE  /\ bk = NumBuckets /\ Cells = 0..(bk * NList - 1)
         /\ BuiltIndex.n = Len(placed) /\ BuiltIndex.nlist = NList
         /\ BuiltIndex.bucketStart = BucketStart
         /\ \A g \in Cells : /\ BuiltIndex.cellStart[g] = First(g)
                             /\ BuiltIndex.cellStart[g + 1] = First(g + 1)
                             /\ RunOf(g) = First(g)..(First(g + 1) - 1)
<1>1. bk = NumBuckets
  BY DEF IInv, TrainInv
<1>2. BuiltIndex.cellStart = [g \in 0..(NumBuckets * NList) |->
        IF g = NumBuckets * NList THEN Len(placed) ELSE starts[g + 1]]
  BY DEF BuiltIndex
<1>3. BuiltIndex.n = Len(placed) /\ BuiltIndex.nlist = NList /\ BuiltIndex.bucketStart = BucketStart
  BY DEF BuiltIndex
<1>4. PICK N \in Nat : N = NumBuckets * NList
  BY Params DEF NumBuckets
<1>5. Cells = 0..(N - 1) /\ Cells = 0..(bk * NList - 1)
  BY <1>1, <1>4, Zenon DEF Cells
<1>6. \A g \in Cells : g \in 0..N /\ g + 1 \in 0..N
  BY <1>5
<1>7. \A g \in 0..N : BuiltIndex.cellStart[g] = First(g)
  BY <1>1, <1>2, <1>4, Zenon DEF First
<1>8. \A g \in Cells : /\ BuiltIndex.cellStart[g] = First(g)
                       /\ BuiltIndex.cellStart[g + 1] = First(g + 1)
  BY <1>6, <1>7
<1> QED
  BY <1>1, <1>3, <1>5, <1>8, Zenon DEF RunOf

\* The bounds of a cell lie within those of its bucket.
LEMMA CellBounds ==
  ASSUME IInv, NEW g \in 0..(bk * NList - 1)
  PROVE  /\ First(g) \in Int /\ First(g + 1) \in Int /\ g \div NList \in Bucket
         /\ BucketStart[g \div NList] \in Nat /\ BucketStart[(g \div NList) + 1] \in Nat
         /\ BucketStart[g \div NList] <= First(g) /\ First(g) <= First(g + 1)
         /\ First(g + 1) <= BucketStart[(g \div NList) + 1]
<1>1. RowsInv /\ RowsDone /\ CellsDone /\ bk \in 0..NumBuckets
  BY DEF IInv, TrainInv
<1>2. /\ BucketStart[g \div NList] <= First(g) /\ First(g) <= First(g + 1)
      /\ First(g + 1) <= BucketStart[(g \div NList) + 1]
  BY <1>1 DEF CellsDone
<1>3. PICK N0 \in Nat : N0 = bk * NList
  BY <1>1, Params DEF NumBuckets
<1>4. g \in 0..(N0 - 1) /\ starts \in Seq(Nat) /\ Len(starts) = N0 /\ Len(placed) \in Int
  BY <1>1, <1>3 DEF CellsDone, RowsDone
<1>5. First(g) \in Int /\ First(g + 1) \in Int
  <2>1. \A x \in 0..N0 : x # N0 => starts[x + 1] \in Int
    BY <1>4
  <2>2. g \in 0..N0 /\ g + 1 \in 0..N0
    BY <1>4
  <2>3. First(g) = Len(placed) \/ (g # N0 /\ First(g) = starts[g + 1])
    BY <1>3 DEF First
  <2>4. First(g + 1) = Len(placed) \/ (g + 1 # N0 /\ First(g + 1) = starts[(g + 1) + 1])
    BY <1>3 DEF First
  <2> QED
    BY <1>4, <2>1, <2>2, <2>3, <2>4
<1>6. g \div NList \in Bucket
  <2> DEFINE q == g \div NList
  <2>1. q \in Nat /\ NList * q <= g /\ NList \in Nat \ {0}
    BY <1>4, Params
  <2> HIDE DEF q
  <2>2. bk <= q => bk * NList <= NList * q
    BY <1>1, <2>1 DEF NumBuckets
  <2>3. NList * q \in Nat
    BY <2>1
  <2>4. q < bk
    BY <1>1, <1>3, <1>4, <2>1, <2>2, <2>3 DEF NumBuckets
  <2>5. q \in Bucket
    BY <1>1, <2>1, <2>4 DEF Bucket, NumBuckets
  <2> QED
    BY <2>5 DEF q
<1>7. BucketStart[g \div NList] \in Nat /\ BucketStart[(g \div NList) + 1] \in Nat
  <2>1. \A b \in Bucket : b \in 0..NumBuckets /\ b + 1 \in 0..NumBuckets
    BY DEF Bucket, NumBuckets
  <2>2. BucketStart \in [0..NumBuckets -> Nat]
    BY <1>1, BucketStartFacts
  <2> QED
    BY <1>6, <2>1, <2>2, Zenon
<1> QED
  BY <1>2, <1>5, <1>6, <1>7

\* The CSR offsets of the buckets bound sixteen blocks of the rows placed.
LEMMA RowBlocks ==
  ASSUME IInv, phase = "built"
  PROVE  Len(placed) \in Nat /\ Bounds(BucketStart, Len(placed))
<1>1. RowsInv /\ RowsDone /\ bk = NumBuckets
  BY IndexFields DEF IInv
<1>2. Len(placed) \in Nat /\ Len(placed) = BucketStart[NumBuckets]
  BY <1>1 DEF RowsDone
<1>3. /\ BucketStart \in [0..NumBuckets -> Nat] /\ BucketStart[0] = 0
      /\ \A a, b \in 0..NumBuckets : a <= b => BucketStart[a] <= BucketStart[b]
  BY <1>1, BucketStartFacts
<1> QED
  BY <1>2, <1>3 DEF Bounds

\* The codes of a row are read where they were put.
LEMMA RowsReadBack ==
  ASSUME IInv, phase = "built", NEW r \in 0..(Len(placed) - 1)
  PROVE  RowCode(BuiltIndex, r) = placed[r + 1].code
<1> DEFINE n == Len(placed)
           code == [x \in 0..(n - 1) |-> placed[x + 1].code]
<1>1. n \in Nat /\ Bounds(BucketStart, n) /\ placed \in Seq(Entry)
  BY RowBlocks DEF IInv, RowsDone
<1>2. code \in [0..(n - 1) -> [Dim -> Code]]
  <2>1. \A x \in 0..(n - 1) : placed[x + 1] \in Entry
    BY <1>1
  <2> QED
    BY <2>1 DEF Entry
<1>3. BuiltIndex.data = Transposed(BucketStart, n, code) /\ BuiltIndex.bucketStart = BucketStart
  BY DEF BuiltIndex
<1>4. code[r] = placed[r + 1].code
  OBVIOUS
<1> HIDE DEF code, n
<1>5. r \in 0..(n - 1)
  BY DEF n
<1>6. code[r] = [d \in Dim |-> code[r][d]]
  BY <1>2, <1>5
<1>7. CodeAt(Transposed(BucketStart, n, code), BucketStart, r) = code[r]
  BY <1>1, <1>5, <1>6, TranspositionRoundTrip
<1> QED
  BY <1>3, <1>4, <1>7 DEF RowCode

\* The label of a row is the bit that was set.
LEMMA FraudReadsBack ==
  ASSUME IInv, phase = "built", NEW r \in 0..(Len(placed) - 1)
  PROVE  isFraud(BuiltIndex, r) = placed[r + 1].fraud
<1> DEFINE n == Len(placed)
           fraud == [x \in 0..(n - 1) |-> placed[x + 1].fraud]
<1>1. n \in Nat /\ placed \in Seq(Entry)
  BY RowBlocks DEF IInv, RowsDone
<1>2. fraud \in [0..(n - 1) -> BOOLEAN]
  <2>1. \A x \in 0..(n - 1) : placed[x + 1] \in Entry
    BY <1>1
  <2> QED
    BY <2>1 DEF Entry
<1>3. BuiltIndex.fraud = Packed(n, fraud)
  BY DEF BuiltIndex
<1>4. fraud[r] = placed[r + 1].fraud /\ fraud[r] \in BOOLEAN
  BY <1>2
<1> HIDE DEF fraud, n
<1>5. r \in 0..(n - 1)
  BY DEF n
<1>6. isFraud(BuiltIndex, r) <=> fraud[r]
  BY <1>1, <1>2, <1>3, <1>5, LabelsRoundTrip
<1>7. isFraud(BuiltIndex, r) \in BOOLEAN
  BY DEF isFraud
<1> QED
  BY <1>4, <1>6, <1>7

\* Centroids have codes of the grid, the untrained ones' included: no mean of
\* codes is above the largest.
LEMMA CentroidCodes ==
  ASSUME NEW cs \in Trained, NEW c
  PROVE  CentroidCode(cs, c) \in [Dim -> Code]
<1> SUFFICES ASSUME NEW d \in Dim
             PROVE  CentroidCode(cs, c)[d] \in Code
  BY DEF CentroidCode
<1>1. Sub \in Nat \ {0} /\ G \in Nat \ {0} /\ Scale = G * Sub /\ Code = 0..(G + 1)
  BY ScaleNat DEF Scale, Code, MaxCode
<1>2. quantize(0) \in Code
  <2>1. 0 \in Value
    BY ScaleNat DEF Value
  <2> QED
    BY <2>1, QuantizeIsCode
<1>3. CASE c \notin DOMAIN cs
  BY <1>2, <1>3 DEF CentroidCode
<1>4. CASE c \in DOMAIN cs
  <2>1. cs[c] \in Centroid
    BY <1>4 DEF Trained
  <2>2. PICK s \in Int, t \in Nat \ {0} : cs[c].sum[d] = s /\ cs[c].cnt = t /\ s <= Scale * t
    BY <2>1 DEF Centroid
  <2>3. CASE s < 0
    BY <1>1, <1>4, <2>2, <2>3 DEF CentroidCode
  <2>4. CASE ~(s < 0)
    <3>1. PICK m \in Nat \ {0} : m = Sub * t
      BY <1>1, <2>2
    <3>2. s <= G * m
      <4>1. (G * Sub) * t = G * (Sub * t)
        BY <1>1, <2>2
      <4> QED
        BY <1>1, <2>2, <3>1, <4>1
    <3>3. 2 * Sub * t = 2 * m
      BY <1>1, <2>2, <3>1
    <3>4. (2 * s + m) \div (2 * m) \in 0..G
      <4>1. PICK k \in Nat : k = G * m
        BY <1>1, <3>1
      <4>2. 2 * s + m < 2 * k + 2 * m /\ 2 * s + m \in Nat /\ 2 * m \in Nat \ {0}
        BY <2>2, <2>4, <3>1, <3>2, <4>1
      <4>3. (2 * m) * (G + 1) = 2 * k + 2 * m
        BY <1>1, <3>1, <4>1
      <4>4. PICK x \in Nat, y \in Nat \ {0} : x = 2 * s + m /\ y = 2 * m
        BY <4>2
      <4>5. x < y * (G + 1)
        BY <4>2, <4>3, <4>4
      <4>6. x \div y \in Nat /\ y * (x \div y) <= x
        BY <4>4
      <4>7. ~(x \div y >= G + 1)
        <5>1. \A z \in Nat : z >= G + 1 => y * z >= y * (G + 1)
          BY <1>1, <4>4
        <5>2. \A z \in Nat : y * z \in Nat
          BY <4>4
        <5>3. y * (G + 1) \in Nat
          BY <1>1, <4>4
        <5> QED
          BY <4>4, <4>5, <4>6, <5>1, <5>2, <5>3
      <4>8. x \div y \in 0..G
        BY <1>1, <4>6, <4>7
      <4> QED
        BY <4>4, <4>8
    <3>5. CentroidCode(cs, c)[d] = (2 * s + m) \div (2 * m) + 1
      BY <1>4, <2>2, <2>4, <3>1, <3>3 DEF CentroidCode
    <3> QED
      BY <1>1, <3>4, <3>5
  <2> QED
    BY <2>2, <2>3, <2>4
<1> QED
  BY <1>3, <1>4

\* The centroids by cell: sixteen blocks of NList.
CentroidTable ==
  [g \in 0..(NumBuckets * NList - 1) |-> CentroidCode(trained[(g \div NList) + 1], g % NList)]

LEMMA CentroidBlocks ==
  ASSUME IInv, phase = "built"
  PROVE  /\ Bounds(CentroidStarts(NList), NumBuckets * NList)
         /\ CentroidTable \in [0..(NumBuckets * NList - 1) -> [Dim -> Code]]
         /\ BuiltIndex.centroidsI16 = Transposed(CentroidStarts(NList), NumBuckets * NList, CentroidTable)
<1>1. PICK N \in Nat : N = NumBuckets * NList
  BY Params DEF NumBuckets
<1>2. Bounds(CentroidStarts(NList), N)
  <2>1. NList \in Nat
    BY Params
  <2>2. \A b \in 0..16 : b * NList \in Nat
    BY <2>1
  <2>3. \A c, d \in 0..16 : c <= d => c * NList <= d * NList
    BY <2>1
  <2> QED
    BY <1>1, <2>1, <2>2, <2>3 DEF Bounds, CentroidStarts, NumBuckets
<1>3. CentroidTable \in [0..(N - 1) -> [Dim -> Code]]
  <2> SUFFICES ASSUME NEW x \in 0..(N - 1)
               PROVE  CentroidCode(trained[(x \div NList) + 1], x % NList) \in [Dim -> Code]
    BY <1>1 DEF CentroidTable
  <2>1. trained[(x \div NList) + 1] \in Trained
    <3>1. trained \in Seq(Trained) /\ Len(trained) = NumBuckets /\ x \in 0..(bk * NList - 1)
      BY <1>1, IndexFields DEF IInv, RunsDone
    <3>2. x \div NList \in Bucket
      BY <3>1, CellBounds
    <3>3. \A b \in Bucket : b + 1 \in 1..NumBuckets
      BY DEF Bucket, NumBuckets
    <3> QED
      BY <3>1, <3>2, <3>3
  <2> QED
    BY <2>1, CentroidCodes
<1>4. BuiltIndex.centroidsI16 = Transposed(CentroidStarts(NList), N, CentroidTable)
  BY <1>1 DEF BuiltIndex, CentroidTable
<1> QED
  BY <1>1, <1>2, <1>3, <1>4

\* The centroid of a cell is read where it was put.
LEMMA CentroidsReadBack ==
  ASSUME IInv, phase = "built", NEW g \in Cells
  PROVE  /\ CentroidAt(BuiltIndex, g) = CentroidCode(trained[(g \div NList) + 1], g % NList)
         /\ CentroidAt(BuiltIndex, g) \in [Dim -> Code]
<1> DEFINE code == CentroidTable
           at == CentroidStarts(NList)
<1>1. PICK N : N = NumBuckets * NList
  OBVIOUS
<1>2. /\ Bounds(at, N) /\ code \in [0..(N - 1) -> [Dim -> Code]]
      /\ BuiltIndex.centroidsI16 = Transposed(at, N, code)
  BY <1>1, CentroidBlocks
<1>3. /\ g \in 0..(N - 1) /\ BuiltIndex.nlist = NList
      /\ code[g] = CentroidCode(trained[(g \div NList) + 1], g % NList)
  BY <1>1 DEF Cells, CentroidTable, BuiltIndex
<1> HIDE DEF code
<1>4. code[g] = [d \in Dim |-> code[g][d]] /\ code[g] \in [Dim -> Code]
  BY <1>2, <1>3
<1>5. CodeAt(Transposed(at, N, code), at, g) = code[g]
  <2>1. Bounds(at, N)
    BY <1>2
  <2>2. g \in 0..(N - 1)
    BY <1>3
  <2>3. code[g] = [d \in Dim |-> code[g][d]]
    BY <1>4
  <2> QED
    BY <2>1, <2>2, <2>3, TranspositionRoundTrip
<1> QED
  BY <1>2, <1>3, <1>4, <1>5 DEF CentroidAt

\* Every row added is in the index once, with its own codes and label, and each
\* cell keeps insertion order, however the goroutines of the build interleave.
THEOREM RowsPlaced == BuildSpec => []RowsPlacedOnceInOrder
<1>1. ASSUME IInv
      PROVE  RowsPlacedOnceInOrder
  <2> SUFFICES ASSUME phase = "built"
               PROVE  /\ Len(placed) = Len(rows)
                      /\ {placed[i].added : i \in 1..Len(placed)} = 1..Len(rows)
                      /\ \A i \in 1..Len(placed) : placed[i] = rows[placed[i].added]
                      /\ \A g \in Cells : \A r, s \in RunOf(g) :
                           r < s => placed[r + 1].added < placed[s + 1].added
    BY DEF RowsPlacedOnceInOrder
  <2>1. RowsInv /\ RowsDone /\ RunsDone /\ bk = NumBuckets
    BY <1>1, IndexFields DEF IInv
  <2>2. Len(placed) = Len(rows)
    BY <2>1, BucketStartFacts DEF RowsDone
  <2>3. \A i \in 1..Len(rows) : rows[i].bucket < bk /\ rows[i].added = i
    <3>1. \A i \in 1..Len(rows) : rows[i] \in Entry /\ rows[i].added = i
      BY <2>1 DEF RowsInv
    <3> QED
      BY <2>1, <3>1, SMTT(30) DEF Entry, Bucket, NumBuckets
  <2>4. \A i \in 1..Len(rows) : \E p \in 1..Len(placed) : placed[p].added = i
    BY <2>1, <2>3 DEF RowsDone
  <2>5. \A p \in 1..Len(placed) :
          placed[p].added \in 1..Len(rows) /\ placed[p] = rows[placed[p].added]
    BY <2>1 DEF RowsDone
  <2>6. {placed[i].added : i \in 1..Len(placed)} = 1..Len(rows)
    BY <2>4, <2>5
  <2>7. ASSUME NEW g \in Cells, NEW r \in RunOf(g), NEW s \in RunOf(g), r < s
        PROVE  placed[r + 1].added < placed[s + 1].added
    <3>1. g \in 0..(bk * NList - 1) /\ RunOf(g) = First(g)..(First(g + 1) - 1)
      BY <1>1, IndexFields
    <3> QED
      BY <2>1, <2>7, <3>1 DEF RunsDone
  <2> QED
    BY <2>2, <2>5, <2>6, <2>7
<1> QED
  BY <1>1, Invariant, PTL

\* The offsets of the index put each row in a cell of its own bucket, and no
\* centroid of that bucket is nearer to the row than its cell's.
THEOREM RowsInTheirCell == BuildSpec => []RowsLieInTheirCell
<1>1. ASSUME IInv
      PROVE  RowsLieInTheirCell
  <2> SUFFICES ASSUME phase = "built", NEW r \in 0..(Len(placed) - 1)
               PROVE  \E g \in Cells :
                        /\ r \in RunOf(g) /\ placed[r + 1].bucket = g \div NList
                        /\ IsNearest(trained[(g \div NList) + 1], placed[r + 1].code, g % NList)
    BY DEF RowsLieInTheirCell, IsNearest
  <2>1. CellsDone /\ RunsDone /\ Cells = 0..(bk * NList - 1)
    BY <1>1, IndexFields DEF IInv
  <2>2. PICK g \in 0..(bk * NList - 1) : First(g) <= r /\ r < First(g + 1)
    BY <2>1 DEF CellsDone
  <2>3. First(g) \in Int /\ First(g + 1) \in Int
    BY <1>1, <2>1, CellBounds
  <2>4. r \in First(g)..(First(g + 1) - 1)
    BY <2>2, <2>3
  <2>5. g \in Cells /\ RunOf(g) = First(g)..(First(g + 1) - 1)
    BY <1>1, <2>1, IndexFields
  <2> QED
    BY <2>1, <2>4, <2>5 DEF RunsDone
<1> QED
  BY <1>1, Invariant, PTL

\* What Build returns can be read back: each row's codes and label where the
\* distances and the vote look for them, each centroid where the probe does,
\* and the scan of a cell or of a bucket's centroids covers it once and reads
\* nothing of another dimension.
THEOREM LayoutReadsBack == BuildSpec => []LayoutHoldsRows
<1>1. ASSUME IInv
      PROVE  LayoutHoldsRows
  <2> SUFFICES ASSUME phase = "built"
               PROVE  /\ \A r \in 0..(BuiltIndex.n - 1) :
                           /\ RowCode(BuiltIndex, r) = placed[r + 1].code
                           /\ isFraud(BuiltIndex, r) = placed[r + 1].fraud
                      /\ \A g \in Cells :
                           /\ CentroidAt(BuiltIndex, g) =
                                CentroidCode(trained[(g \div NList) + 1], g % NList)
                           /\ ScannedOnceInBounds(
                                BuiltIndex.bucketStart[(g \div NList) + 1] - BuiltIndex.bucketStart[g \div NList],
                                BuiltIndex.cellStart[g] - BuiltIndex.bucketStart[g \div NList],
                                BuiltIndex.cellStart[g + 1] - BuiltIndex.cellStart[g])
                      /\ ScannedOnceInBounds(NList, 0, NList)
    BY DEF LayoutHoldsRows
  <2>1. RowsInv /\ RowsDone /\ CellsDone /\ RunsDone
    BY <1>1 DEF IInv
  <2>2. /\ bk = NumBuckets /\ Cells = 0..(bk * NList - 1)
        /\ BuiltIndex.n = Len(placed) /\ BuiltIndex.nlist = NList
        /\ BuiltIndex.bucketStart = BucketStart
    BY <1>1, IndexFields
  <2>3. ASSUME NEW r \in 0..(BuiltIndex.n - 1)
        PROVE  RowCode(BuiltIndex, r) = placed[r + 1].code
    BY <1>1, <2>2, <2>3, RowsReadBack
  <2>4. ASSUME NEW r \in 0..(BuiltIndex.n - 1)
        PROVE  isFraud(BuiltIndex, r) = placed[r + 1].fraud
    BY <1>1, <2>2, <2>4, FraudReadsBack
  <2>5. ASSUME NEW g \in Cells
        PROVE  CentroidAt(BuiltIndex, g) = CentroidCode(trained[(g \div NList) + 1], g % NList)
    BY <1>1, CentroidsReadBack
  <2>6. ASSUME NEW g \in Cells
        PROVE  ScannedOnceInBounds(
                 BuiltIndex.bucketStart[(g \div NList) + 1] - BuiltIndex.bucketStart[g \div NList],
                 BuiltIndex.cellStart[g] - BuiltIndex.bucketStart[g \div NList],
                 BuiltIndex.cellStart[g + 1] - BuiltIndex.cellStart[g])
    <3>1. /\ BuiltIndex.cellStart[g] = First(g) /\ BuiltIndex.cellStart[g + 1] = First(g + 1)
          /\ g \in 0..(bk * NList - 1)
      BY <1>1, <2>2, IndexFields
    <3>2. /\ First(g) \in Int /\ First(g + 1) \in Int /\ g \div NList \in Bucket
          /\ BucketStart[g \div NList] \in Nat /\ BucketStart[(g \div NList) + 1] \in Nat
          /\ BucketStart[g \div NList] <= First(g) /\ First(g) <= First(g + 1)
          /\ First(g + 1) <= BucketStart[(g \div NList) + 1]
      BY <1>1, <2>1, <3>1, CellBounds
    <3> DEFINE count == BucketStart[(g \div NList) + 1] - BucketStart[g \div NList]
               local == First(g) - BucketStart[g \div NList]
               m == First(g + 1) - First(g)
    <3>3. count \in Nat /\ local \in Nat /\ m \in Nat /\ local + m <= count
      BY <3>2
    <3> HIDE DEF count, local, m
    <3>4. ScannedOnceInBounds(count, local, m)
      BY <3>3, ScanTakesEachOnce
    <3> QED
      BY <2>2, <3>1, <3>4 DEF count, local, m
  <2>7. ScannedOnceInBounds(NList, 0, NList)
    <3>1. NList \in Nat /\ 0 \in Nat /\ 0 + NList <= NList
      BY Params
    <3> QED
      BY <3>1, ScanTakesEachOnce
  <2> QED
    BY <2>3, <2>4, <2>5, <2>6, <2>7
<1> QED
  BY <1>1, Invariant, PTL

=============================================================================
