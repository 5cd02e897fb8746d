-------------------------------- MODULE Grid --------------------------------
(***************************************************************************)
(* The arithmetic of internal/index/index.go: the quantization grid, the   *)
(* hard buckets and the two distances.  A normalized dimension v is the    *)
(* integer v * Scale, so every float64 expression of the search is exact   *)
(* here; a stored value is a code of the grid, a query may lie between two *)
(* codes.  Rounding of float64 itself and NaN are not modelled.            *)
(***************************************************************************)
EXTENDS Integers

CONSTANTS G,         \* codes per unit: 10000 in the code (4 decimals)
          Sub,       \* a query is a multiple of 1/(G*Sub)
          MaxProbe   \* length of the probe arrays: 512

ASSUME GridAssumption == {G, Sub, MaxProbe} \subseteq Nat \ {0}

Dim == 0..13                 \* vectorize.Dims = 14
NumBuckets == 16             \* online, card present, unknown merchant, null
Bucket == 0..(NumBuckets - 1)
Scale == G * Sub             \* the value 1.0
MaxCode == G + 1             \* maxBucketVal
Code == 0..MaxCode

Null == -Scale               \* the sentinel -1: no last transaction

\* A normalized query component: the sentinel or a value in [0, 1].
Value == {Null} \cup 0..Scale

\* math.Round of a non-negative value to the grid, halves up.
Round(v) == (2 * v + Sub) \div (2 * Sub)

quantize(v) == IF v < 0 THEN 0
               ELSE Round(IF v > Scale THEN Scale ELSE v) + 1

dequant(u) == IF u = 0 THEN Null ELSE (u - 1) * Sub

Quantized(v) == [i \in Dim |-> quantize(v[i])]
Dequantized(code) == [i \in Dim |-> dequant(code[i])]

Bit(cond) == IF cond THEN 1 ELSE 0
AtLeastHalf(x) == 2 * x >= Scale

IsNull(v) == v[5] < 0

bucketOf(v) == 8 * Bit(AtLeastHalf(v[9])) + 4 * Bit(AtLeastHalf(v[10]))
               + 2 * Bit(AtLeastHalf(v[11])) + Bit(IsNull(v))

Online(b) == b \div 8
CardPresent(b) == (b \div 4) % 2
UnknownMerchant(b) == (b \div 2) % 2
NullFlag(b) == b % 2

Sq(x) == x * x
One == Sq(Scale)             \* squared distance 1.0

\* A lower bound on the squared distance from q to any row of bucket b, from
\* the four key dimensions alone.
bucketPenalty(q, b) ==
  LET home == bucketOf(q)
  IN  One * Bit(Online(home) # Online(b))
      + One * Bit(CardPresent(home) # CardPresent(b))
      + One * Bit(UnknownMerchant(home) # UnknownMerchant(b))
      + (IF NullFlag(home) = NullFlag(b) THEN 0
         ELSE IF IsNull(q) THEN 2 * One
         ELSE Sq(q[5] + Scale) + Sq(q[6] + Scale))

Sum14(f) == f[0] + f[1] + f[2] + f[3] + f[4] + f[5] + f[6]
            + f[7] + f[8] + f[9] + f[10] + f[11] + f[12] + f[13]

\* dist2 / dist2SoA / centroidDist: exact, in units of 1/Scale squared.
dist2(q, code) == Sum14([i \in Dim |-> Sq(q[i] - dequant(code[i]))])

\* intDist / centroidIntDist and the SIMD kernel that computes the same value.
intDist(qcode, code) == Sum14([i \in Dim |-> Sq(qcode[i] - code[i])])
=============================================================================
