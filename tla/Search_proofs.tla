---------------------------- MODULE Search_proofs ----------------------------
(***************************************************************************)
(* The query, for every dataset, knob and query vector, over the index the *)
(* builder made: no row reaches the collector twice, across buckets, cells *)
(* and tiers; the row cap is overshot by less than one cell; without a cap *)
(* the collector ends with the nearest rows of the cells probed, whatever  *)
(* was pruned, and for a query on the grid the answer is the exact nearest *)
(* of them.                                                                *)
(***************************************************************************)
EXTENDS Engine, Build_proofs, SortedBuffer_proofs

-----------------------------------------------------------------------------
\* What the query may rely on.

\* The values of a per-vote knob after its setter.
HighProbes == {p \in 0..NList : p <= MaxProbe}

\* What the arrays hold.
ArraysInRange(x) ==
  /\ x.bucketStart \in [0..NumBuckets -> 0..x.n]
  /\ x.data \in [0..(x.n * Dims + SimdTailPad - 1) -> Code]
  /\ x.centroidsI16 \in [0..(NumBuckets * x.nlist * Dims + SimdTailPad - 1) -> Code]

\* An index of Build or LoadIndex after tune.
UsableIndex(x) ==
  /\ ArraysInRange(x)
  /\ x.n \in Nat /\ x.nlist = NList /\ x.nprobe \in 1..NList /\ x.maxScan \in Nat
  /\ x.nprobeHigh \in HighProbes /\ x.nprobeHighByCount \in [0..K -> HighProbes]
  /\ x.cellStart \in [0..(NumBuckets * NList) -> 0..x.n]
  /\ \A g, h \in 0..(NumBuckets * NList) : g <= h => x.cellStart[g] <= x.cellStart[h]
  /\ \A g \in Cells : CentroidAt(x, g) \in [Dim -> Code]
  /\ \A r \in 0..(x.n - 1) : RowCode(x, r) \in [Dim -> Code]

\* A normalized query vector.
Vector == [Dim -> Value]

\* The cells of bucket b.
Block(b) == (b * NList)..(b * NList + NList - 1)

\* Cells are numbered bucket by bucket.
LEMMA CellBlocks ==
  ASSUME NEW b \in Bucket
  PROVE  /\ b * NList \in Nat
         /\ \A c \in 1..NList : b * NList + c - 1 \in Block(b)
         /\ Block(b) \subseteq Cells
<1>1. NList \in Nat \ {0} /\ b \in 0..15
  BY Params DEF Bucket, NumBuckets
<1>2. PICK m \in Nat : m = b * NList
  BY <1>1
<1>3. m + NList <= NumBuckets * NList
  <2>1. b * NList <= 15 * NList
    BY <1>1
  <2> QED
    BY <1>1, <1>2, <2>1 DEF NumBuckets
<1>4. Block(b) = m..(m + NList - 1)
  BY <1>2, Zenon DEF Block
<1>5. \A c \in 1..NList : m + c - 1 \in m..(m + NList - 1)
  BY <1>1, <1>2
<1>6. \A g \in m..(m + NList - 1) : g \in Cells
  BY <1>1, <1>2, <1>3 DEF Cells, NumBuckets
<1> QED
  BY <1>2, <1>4, <1>5, <1>6

\* No cell belongs to two buckets.
LEMMA BlocksDisjoint ==
  ASSUME NEW a \in Bucket, NEW b \in Bucket, NEW g \in Block(a), g \in Block(b)
  PROVE  a = b
<1>1. NList \in Nat \ {0} /\ a \in Nat /\ b \in Nat
  BY Params DEF Bucket, NumBuckets
<1>2. \A x, y \in Nat : x < y => x * NList + NList <= y * NList
  <2>1. \A x, y \in Nat : x + 1 <= y => (x + 1) * NList <= y * NList
    BY <1>1
  <2>2. \A x \in Nat : (x + 1) * NList = x * NList + NList
    BY <1>1
  <2> QED
    BY <1>1, <2>1, <2>2
<1>3. PICK m \in Nat, k \in Nat : m = a * NList /\ k = b * NList
  BY <1>1
<1>4. g \in Int /\ m <= g /\ g < m + NList /\ k <= g /\ g < k + NList
  BY <1>1, <1>3 DEF Block
<1>5. (a < b => m + NList <= k) /\ (b < a => k + NList <= m)
  BY <1>1, <1>2, <1>3
<1> QED
  BY <1>1, <1>3, <1>4, <1>5

\* The query's codes are on the grid.
LEMMA QcodeType ==
  ASSUME NEW v \in Vector
  PROVE  Quantized(v) \in [Dim -> Code]
<1>1. \A i \in Dim : quantize(v[i]) \in Code
  BY QuantizeIsCode DEF Vector
<1> QED
  BY <1>1 DEF Quantized

\* A distance between codes is below the sentinel of a free slot.
LEMMA DistanceBelowInf ==
  ASSUME NEW a \in [Dim -> Code], NEW b \in [Dim -> Code]
  PROVE  intDist(a, b) \in Int /\ intDist(a, b) < Inf
<1>1. MaxCode \in Nat
  BY ScaleNat DEF MaxCode
<1>2. PICK m \in Nat : m = 14 * (MaxCode * MaxCode)
  BY <1>1
<1>3. intDist(a, b) \in 0..m
  BY <1>2, IntDistBounded
<1> QED
  BY <1>2, <1>3, InfAssumption

-----------------------------------------------------------------------------
\* The selection of the nearest cells.

\* The c-th centroid of bucket b: its distance and its cell.
Probed(x, v, b, c) == intDist(Quantized(v), CentroidAt(x, b * x.nlist + c - 1))
CellAt(x, b, c) == b * x.nlist + c - 1

\* insertProbe of the c-th centroid.
ProbeTurn(x, v, b, np, f, c) == Consider(np, f[c - 1], Probed(x, v, b, c), CellAt(x, b, c))

IsSelection(x, v, b, np, f) ==
  f = [c \in 0..x.nlist |-> IF c = 0 THEN EmptyBuffer(np, 0) ELSE ProbeTurn(x, v, b, np, f, c)]

\* Every cell has a centroid at a distance below the sentinel.
LEMMA ProbedFacts ==
  ASSUME NEW x, UsableIndex(x), NEW v \in Vector, NEW b \in Bucket, NEW c \in 1..NList
  PROVE  /\ Probed(x, v, b, c) \in Int /\ Probed(x, v, b, c) < Inf
         /\ CellAt(x, b, c) = b * NList + c - 1 /\ CellAt(x, b, c) \in Block(b)
<1>1. x.nlist = NList /\ \A g \in Cells : CentroidAt(x, g) \in [Dim -> Code]
  BY DEF UsableIndex
<1>2. b * NList + c - 1 \in Block(b) /\ b * NList + c - 1 \in Cells
  BY CellBlocks
<1>3. CellAt(x, b, c) = b * NList + c - 1 /\ Probed(x, v, b, c) = intDist(Quantized(v), CentroidAt(x, CellAt(x, b, c)))
  BY <1>1, Zenon DEF CellAt, Probed
<1>4. CellAt(x, b, c) \in Cells /\ CellAt(x, b, c) \in Block(b)
  BY <1>2, <1>3, Zenon
<1>5. CentroidAt(x, CellAt(x, b, c)) \in [Dim -> Code] /\ Quantized(v) \in [Dim -> Code]
  BY <1>1, <1>4, QcodeType, Zenon
<1>6. intDist(Quantized(v), CentroidAt(x, CellAt(x, b, c))) \in Int
      /\ intDist(Quantized(v), CentroidAt(x, CellAt(x, b, c))) < Inf
  BY <1>5, DistanceBelowInf, Zenon
<1> QED
  BY <1>3, <1>4, <1>6, Zenon

\* The selection's recursion has a value.
LEMMA SelectionRuns ==
  ASSUME NEW x, UsableIndex(x), NEW v \in Vector, NEW b \in Bucket, NEW np \in Nat \ {0}
  PROVE  \E f : IsSelection(x, v, b, np, f)
<1> DEFINE V == [dist : [1..np -> Int], item : [1..np -> Int], n : 0..np]
           turn == [c \in 1..NList |-> [u \in V |-> Consider(np, u, Probed(x, v, b, c), CellAt(x, b, c))]]
<1>0. x.nlist = NList /\ NList \in Nat \ {0}
  BY Params DEF UsableIndex
<1>1. EmptyBuffer(np, 0) \in V
  BY InfAssumption DEF EmptyBuffer
<1>2. Turns(NList, V, turn)
  <2> SUFFICES ASSUME NEW c \in 1..NList, NEW u \in V
               PROVE  Consider(np, u, Probed(x, v, b, c), CellAt(x, b, c)) \in V
    BY DEF Turns
  <2>1. Probed(x, v, b, c) \in Int /\ CellAt(x, b, c) \in Int
    <3>1. CellAt(x, b, c) \in Block(b) /\ Probed(x, v, b, c) \in Int
      BY ProbedFacts
    <3> QED
      BY <3>1 DEF Block
  <2> QED
    BY <2>1, ConsiderType
<1>3. \A c \in 1..NList : \A u \in V : turn[c][u] = Consider(np, u, Probed(x, v, b, c), CellAt(x, b, c))
  OBVIOUS
<1> HIDE DEF V, turn
<1>4. PICK f : IsRun(NList, V, EmptyBuffer(np, 0), turn, f)
  BY <1>0, <1>1, <1>2, RunExists
<1>5. \A c \in 1..NList : f[c - 1] \in V
  BY <1>0, <1>4 DEF IsRun
<1>6. \A c \in 1..NList : f[c] = ProbeTurn(x, v, b, np, f, c)
  BY <1>3, <1>4, <1>5 DEF IsRun, ProbeTurn
<1>7. f = [c \in 0..x.nlist |-> f[c]] /\ f[0] = EmptyBuffer(np, 0)
  BY <1>0, <1>4 DEF IsRun
<1>8. \A c \in 0..x.nlist : f[c] = IF c = 0 THEN EmptyBuffer(np, 0) ELSE ProbeTurn(x, v, b, np, f, c)
  BY <1>0, <1>6, <1>7
<1>9. IsSelection(x, v, b, np, f)
  BY <1>7, <1>8, Zenon DEF IsSelection
<1> QED
  BY <1>9

\* The selection's buffers, turn by turn.
Selection(x, v, b, np) == CHOOSE f : IsSelection(x, v, b, np, f)

LEMMA SelectionIs ==
  ASSUME NEW x, UsableIndex(x), NEW v \in Vector, NEW b \in Bucket, NEW np \in Nat \ {0}
  PROVE  /\ NearestCells(x, v, b, np) = Selection(x, v, b, np)[NList].item
         /\ Selection(x, v, b, np)[0] = EmptyBuffer(np, 0)
         /\ \A c \in 1..NList : Selection(x, v, b, np)[c] = ProbeTurn(x, v, b, np, Selection(x, v, b, np), c)
<1>1. x.nlist = NList /\ NList \in Nat
  BY Params DEF UsableIndex
<1>2. NearestCells(x, v, b, np) = Selection(x, v, b, np)[x.nlist].item
  BY DEF NearestCells, Selection, IsSelection, ProbeTurn, Probed, CellAt
<1>3. IsSelection(x, v, b, np, Selection(x, v, b, np))
  BY SelectionRuns DEF Selection
<1> QED
  BY <1>1, <1>2, <1>3 DEF IsSelection

\* After c turns the probe buffer holds cells of the bucket, none twice.
LEMMA SelectionHolds ==
  ASSUME NEW x, UsableIndex(x), NEW v \in Vector, NEW b \in Bucket, NEW np \in Nat \ {0}
  PROVE  \A c \in 0..NList :
           HoldsOffers(np, Selection(x, v, b, np)[c], c, (b * NList)..(b * NList + c - 1))
<1> DEFINE f == Selection(x, v, b, np)
           upto(c) == (b * NList)..(b * NList + c - 1)
           P == {c \in 0..NList : HoldsOffers(np, f[c], c, upto(c))}
<1>0. NList \in Nat /\ b * NList \in Nat /\ Inf \in Int
  BY Params, CellBlocks, InfAssumption
<1>1. f[0] = EmptyBuffer(np, 0) /\ \A c \in 1..NList : f[c] = ProbeTurn(x, v, b, np, f, c)
  BY SelectionIs
<1>2. 0 \in P
  <2>1. upto(0) = {}
    BY <1>0
  <2>2. HoldsOffers(np, EmptyBuffer(np, 0), 0, {})
    BY <1>0, EmptyHolds
  <2> QED
    BY <1>0, <1>1, <2>1, <2>2
<1>3. ASSUME NEW c \in 1..NList, c - 1 \in P
      PROVE  c \in P
  <2>1. HoldsOffers(np, f[c - 1], c - 1, upto(c - 1)) /\ c - 1 \in Nat
    BY <1>3
  <2>2. /\ Probed(x, v, b, c) \in Int /\ Probed(x, v, b, c) < Inf
        /\ CellAt(x, b, c) = b * NList + c - 1
    BY ProbedFacts
  <2>3. /\ upto(c) = upto(c - 1) \cup {b * NList + c - 1} /\ b * NList + c - 1 \in Int
        /\ b * NList + c - 1 \notin upto(c - 1)
    <3>1. \A m \in Nat : /\ m..(m + c - 1) = m..(m + (c - 1) - 1) \cup {m + c - 1}
                         /\ m + c - 1 \in Int /\ m + c - 1 \notin m..(m + (c - 1) - 1)
      OBVIOUS
    <3> QED
      BY <1>0, <3>1, Zenon
  <2> HIDE DEF f, upto
  <2>4. f[c] = Consider(np, f[c - 1], Probed(x, v, b, c), CellAt(x, b, c))
    BY <1>1 DEF ProbeTurn
  <2>5. HoldsOffers(np, f[c], (c - 1) + 1, upto(c - 1) \cup {CellAt(x, b, c)})
    <3>1. CellAt(x, b, c) \in Int /\ CellAt(x, b, c) \notin upto(c - 1)
      BY <2>2, <2>3, Zenon
    <3>2. HoldsOffers(np, Consider(np, f[c - 1], Probed(x, v, b, c), CellAt(x, b, c)), (c - 1) + 1,
            upto(c - 1) \cup {CellAt(x, b, c)})
      BY <1>0, <2>1, <2>2, <3>1, ConsiderHolds
    <3> QED
      BY <2>4, <3>2, Zenon
  <2>6. (c - 1) + 1 = c
    OBVIOUS
  <2>7. HoldsOffers(np, f[c], c, upto(c))
    BY <2>2, <2>3, <2>5, <2>6
  <2> QED
    BY <2>7
<1>4. P = 0..NList
  <2>1. P \in SUBSET (0..NList)
    OBVIOUS
  <2> HIDE DEF P
  <2> QED
    BY <1>0, <1>2, <1>3, <2>1, LoopInduction
<1> QED
  BY <1>4

\* The nearest cells are as many different cells of the bucket.
LEMMA NearestCellsFacts ==
  ASSUME NEW x, UsableIndex(x), NEW v \in Vector, NEW b \in Bucket, NEW np \in 1..NList
  PROVE  /\ NearestCells(x, v, b, np) \in [1..np -> Block(b)]
         /\ \A i, j \in 1..np : i # j => NearestCells(x, v, b, np)[i] # NearestCells(x, v, b, np)[j]
<1> DEFINE last == Selection(x, v, b, np)[NList]
<1>1. NList \in Nat /\ np \in Nat \ {0}
  BY Params
<1>2. HoldsOffers(np, last, NList, (b * NList)..(b * NList + NList - 1))
  BY <1>1, SelectionHolds
<1>3. NearestCells(x, v, b, np) = last.item
  BY <1>1, SelectionIs
<1> HIDE DEF last
<1>4. HoldsOffers(np, last, NList, Block(b))
  BY <1>2, Zenon DEF Block
<1>5. \A i \in 1..np : i <= NList
  BY <1>1
<1> QED
  BY <1>3, <1>4, <1>5 DEF HoldsOffers

\* "The nprobe nearest cells are a deterministic prefix of the npHi nearest."
LEMMA NearestCellsPrefix ==
  ASSUME NEW x, UsableIndex(x), NEW v \in Vector, NEW b \in Bucket, NEW np \in 1..NList, NEW more \in 1..NList, np <= more
  PROVE  \A i \in 1..np : NearestCells(x, v, b, np)[i] = NearestCells(x, v, b, more)[i]
<1> DEFINE f == Selection(x, v, b, np)
           g == Selection(x, v, b, more)
           P == {c \in 0..NList : SamePrefix(np, f[c], g[c])}
<1>0. NList \in Nat /\ np \in Nat \ {0} /\ more \in Nat \ {0} /\ Inf \in Int
  BY Params, InfAssumption
<1>1. /\ f[0] = EmptyBuffer(np, 0) /\ \A c \in 1..NList : f[c] = ProbeTurn(x, v, b, np, f, c)
      /\ g[0] = EmptyBuffer(more, 0) /\ \A c \in 1..NList : g[c] = ProbeTurn(x, v, b, more, g, c)
  BY <1>0, SelectionIs
<1>2. \A c \in 0..NList : /\ f[c].dist \in [1..np -> Int]
                          /\ g[c].dist \in [1..more -> Int] /\ Sorted(more, g[c].dist)
  BY <1>0, SelectionHolds DEF HoldsOffers
<1> HIDE DEF f, g
<1>3. 0 \in P
  <2>1. SamePrefix(np, EmptyBuffer(np, 0), EmptyBuffer(more, 0))
    BY <1>0 DEF SamePrefix, EmptyBuffer
  <2> QED
    BY <1>0, <1>1, <2>1
<1>4. ASSUME NEW c \in 1..NList, c - 1 \in P
      PROVE  c \in P
  <2>1. SamePrefix(np, f[c - 1], g[c - 1]) /\ c - 1 \in 0..NList
    BY <1>4
  <2>2. Probed(x, v, b, c) \in Int
    BY ProbedFacts
  <2>3. /\ f[c] = Consider(np, f[c - 1], Probed(x, v, b, c), CellAt(x, b, c))
        /\ g[c] = Consider(more, g[c - 1], Probed(x, v, b, c), CellAt(x, b, c))
    BY <1>1 DEF ProbeTurn
  <2>4. /\ f[c - 1].dist \in [1..np -> Int]
        /\ g[c - 1].dist \in [1..more -> Int] /\ Sorted(more, g[c - 1].dist)
    BY <1>2, <2>1
  <2>5. SamePrefix(np, Consider(np, f[c - 1], Probed(x, v, b, c), CellAt(x, b, c)),
                   Consider(more, g[c - 1], Probed(x, v, b, c), CellAt(x, b, c)))
    BY <1>0, <2>1, <2>2, <2>4, ConsiderPrefix
  <2>6. SamePrefix(np, f[c], g[c])
    BY <2>3, <2>5, Zenon
  <2> QED
    BY <2>6
<1>5. P = 0..NList
  <2>1. P \in SUBSET (0..NList)
    OBVIOUS
  <2> HIDE DEF P
  <2> QED
    BY <1>0, <1>3, <1>4, <2>1, LoopInduction
<1>6. SamePrefix(np, f[NList], g[NList])
  BY <1>0, <1>5
<1>7. NearestCells(x, v, b, np) = f[NList].item /\ NearestCells(x, v, b, more) = g[NList].item
  BY <1>0, SelectionIs DEF f, g
<1> QED
  BY <1>6, <1>7 DEF SamePrefix

-----------------------------------------------------------------------------
\* The cells of a pass.

\* No element twice.
Distinct(s) == \A i, j \in 1..Len(s) : i # j => s[i] # s[j]

CellSet(x, v, b, from, high) == ToSet(CellsInRange(x, v, b, from, high))

\* A pass scans different cells of the bucket.
LEMMA RangeCells ==
  ASSUME NEW x, UsableIndex(x), NEW v \in Vector, NEW b \in Bucket, NEW from \in Nat, NEW high \in Nat
  PROVE  CellsInRange(x, v, b, from, high) \in Seq(Block(b)) /\ Distinct(CellsInRange(x, v, b, from, high))
<1> DEFINE np == ProbesOf(x, high)
           s == NearestCells(x, v, b, np)
<1>1. np \in 1..NList
  BY Params, GridAssumption DEF ProbesOf, ClampedProbe, UsableIndex
<1>2. s \in [1..np -> Block(b)] /\ \A i, j \in 1..np : i # j => s[i] # s[j]
  BY <1>1, NearestCellsFacts
<1>3. CellsInRange(x, v, b, from, high) = IF from >= np THEN <<>> ELSE SubSeq(s, from + 1, np)
  BY DEF CellsInRange
<1> HIDE DEF np, s
<1>4. CASE from >= np
  BY <1>3, <1>4 DEF Distinct
<1>5. CASE ~(from >= np)
  <2> DEFINE t == SubSeq(s, from + 1, np)
  <2>1. s \in Seq(Block(b)) /\ Len(s) = np
    <3>1. np \in Nat
      BY <1>1
    <3> QED
      BY <1>2, <3>1
  <2>2. /\ t \in Seq(Block(b)) /\ Len(t) = np - from
        /\ \A i \in 1..(np - from) : t[i] = s[from + i]
    BY <1>1, <1>5, <2>1
  <2> HIDE DEF t
  <2>3. Distinct(t)
    <3> SUFFICES ASSUME NEW i \in 1..(np - from), NEW j \in 1..(np - from), i # j
                 PROVE  t[i] # t[j]
      BY <2>2 DEF Distinct
    <3>1. from + i \in 1..np /\ from + j \in 1..np /\ from + i # from + j
      BY <1>1, <1>5
    <3> QED
      BY <1>2, <2>2, <3>1
  <2>4. CellsInRange(x, v, b, from, high) = t
    BY <1>3, <1>5 DEF t
  <2> QED
    BY <2>2, <2>3, <2>4
<1> QED
  BY <1>4, <1>5

\* They are those of the ranks from + 1 to the number probed.
LEMMA RangeRanks ==
  ASSUME NEW x, UsableIndex(x), NEW v \in Vector, NEW b \in Bucket, NEW from \in Nat, NEW high \in Nat
  PROVE  /\ ProbesOf(x, high) \in 1..NList
         /\ CellSet(x, v, b, from, high) =
              {NearestCells(x, v, b, ProbesOf(x, high))[i] : i \in (from + 1)..ProbesOf(x, high)}
<1> DEFINE np == ProbesOf(x, high)
           s == NearestCells(x, v, b, np)
<1>1. np \in 1..NList
  BY Params, GridAssumption DEF ProbesOf, ClampedProbe, UsableIndex
<1>2. s \in [1..np -> Block(b)]
  BY <1>1, NearestCellsFacts
<1>3. CellsInRange(x, v, b, from, high) = IF from >= np THEN <<>> ELSE SubSeq(s, from + 1, np)
  BY DEF CellsInRange
<1> HIDE DEF np, s
<1>4. CellSet(x, v, b, from, high) = {s[i] : i \in (from + 1)..np}
  <2>1. CASE from >= np
    <3>1. (from + 1)..np = {}
      BY <1>1, <2>1
    <3>2. CellSet(x, v, b, from, high) = {}
      BY <1>3, <2>1 DEF CellSet, ToSet
    <3> QED
      BY <3>1, <3>2
  <2>2. CASE ~(from >= np)
    <3> DEFINE t == SubSeq(s, from + 1, np)
    <3>1. s \in Seq(Block(b)) /\ Len(s) = np
      <4>1. np \in Nat
        BY <1>1
      <4> QED
        BY <1>2, <4>1
    <3>2. /\ DOMAIN t = 1..(np - from)
          /\ \A i \in 1..(np - from) : t[i] = s[from + i]
      BY <1>1, <2>2, <3>1
    <3>3. CellSet(x, v, b, from, high) = {t[i] : i \in DOMAIN t}
      BY <1>3, <2>2 DEF CellSet, ToSet
    <3> HIDE DEF t
    <3>4. \A i \in (from + 1)..np : i - from \in 1..(np - from) /\ from + (i - from) = i
      BY <1>1, <2>2
    <3>5. \A i \in 1..(np - from) : from + i \in (from + 1)..np
      BY <1>1, <2>2
    <3>6. \A i \in (from + 1)..np : s[i] \in CellSet(x, v, b, from, high)
      BY <3>2, <3>3, <3>4
    <3>7. \A g \in CellSet(x, v, b, from, high) : \E i \in (from + 1)..np : g = s[i]
      BY <3>2, <3>3, <3>5
    <3> QED
      BY <3>6, <3>7
  <2> QED
    BY <2>1, <2>2
<1> QED
  BY <1>1, <1>4 DEF np, s

\* They are at most as many as the probe arrays have places.
LEMMA RangeLength ==
  ASSUME NEW x, UsableIndex(x), NEW v \in Vector, NEW b \in Bucket, NEW from \in Nat, NEW high \in Nat
  PROVE  Len(CellsInRange(x, v, b, from, high)) \in Nat /\ Len(CellsInRange(x, v, b, from, high)) <= MaxProbe
<1> DEFINE np == ProbesOf(x, high)
           s == NearestCells(x, v, b, np)
<1>1. np \in 1..NList /\ np <= MaxProbe /\ MaxProbe \in Nat
  BY Params, GridAssumption DEF ProbesOf, ClampedProbe, UsableIndex
<1>2. s \in [1..np -> Block(b)]
  BY <1>1, NearestCellsFacts
<1>3. CellsInRange(x, v, b, from, high) = IF from >= np THEN <<>> ELSE SubSeq(s, from + 1, np)
  BY DEF CellsInRange
<1> HIDE DEF np, s
<1>4. s \in Seq(Block(b)) /\ Len(s) = np
  <2>1. np \in Nat
    BY <1>1
  <2> QED
    BY <1>2, <2>1
<1>5. from < np => Len(SubSeq(s, from + 1, np)) = np - from
  BY <1>1, <1>4
<1> QED
  BY <1>1, <1>3, <1>5

\* "The escalation never re-scans" the cells of the cheap pass.
LEMMA TiersDisjoint ==
  ASSUME NEW x, UsableIndex(x), NEW v \in Vector, NEW b \in Bucket, NEW high \in HighProbes, x.nprobe < high,
         NEW g \in CellSet(x, v, b, 0, x.nprobe)
  PROVE  g \notin CellSet(x, v, b, x.nprobe, high)
<1> DEFINE p == x.nprobe
<1>1. p \in 1..NList /\ x.nlist = NList /\ high \in 0..NList /\ high <= MaxProbe /\ p < high
      /\ NList \in Nat /\ MaxProbe \in Nat
  BY Params, GridAssumption DEF UsableIndex, HighProbes
<1>2. ProbesOf(x, p) = p /\ ProbesOf(x, high) = high
  BY <1>1 DEF ProbesOf, ClampedProbe
<1> HIDE DEF p
<1>3. PICK i \in 1..p : g = NearestCells(x, v, b, p)[i]
  <2>1. g \in {NearestCells(x, v, b, ProbesOf(x, p))[i] : i \in (0 + 1)..ProbesOf(x, p)}
    BY <1>1, RangeRanks DEF p
  <2> QED
    BY <1>2, <2>1
<1>4. NearestCells(x, v, b, p)[i] = NearestCells(x, v, b, high)[i] /\ high \in 1..NList
  BY <1>1, NearestCellsPrefix
<1>5. SUFFICES ASSUME g \in CellSet(x, v, b, p, high)
               PROVE  FALSE
  BY DEF p
<1>6. PICK j \in (p + 1)..high : g = NearestCells(x, v, b, high)[j]
  <2>1. g \in {NearestCells(x, v, b, ProbesOf(x, high))[j] : j \in (p + 1)..ProbesOf(x, high)}
    BY <1>1, <1>5, RangeRanks
  <2> QED
    BY <1>2, <2>1
<1>7. i \in 1..high /\ j \in 1..high /\ i # j
  BY <1>1
<1> QED
  BY <1>3, <1>4, <1>6, <1>7, NearestCellsFacts

-----------------------------------------------------------------------------
\* The rows of a cell.

RowsOf(x, g) == x.cellStart[g]..(x.cellStart[g + 1] - 1)

\* A cell's rows, in order and each once; a later cell's follow.
LEMMA CellRowsFacts ==
  ASSUME NEW x, UsableIndex(x), NEW g \in Cells
  PROVE  /\ CellRows(x, g) \in Seq(RowsOf(x, g)) /\ Distinct(CellRows(x, g))
         /\ RowsOf(x, g) \subseteq 0..(x.n - 1)
         /\ ToSet(CellRows(x, g)) = RowsOf(x, g)
         /\ Len(CellRows(x, g)) \in 0..x.n
<1> DEFINE lowest == x.cellStart[g]
           m == x.cellStart[g + 1] - x.cellStart[g]
           s == [i \in 1..m |-> lowest + i - 1]
<1>1. g \in 0..(NumBuckets * NList) /\ g + 1 \in 0..(NumBuckets * NList) /\ g <= g + 1
  BY Params DEF Cells, NumBuckets
<1>2. lowest \in 0..x.n /\ x.cellStart[g + 1] \in 0..x.n /\ lowest <= x.cellStart[g + 1]
      /\ x.n \in Nat
  BY <1>1 DEF UsableIndex
<1>3. m \in Nat /\ lowest \in Nat /\ RowsOf(x, g) = lowest..(lowest + m - 1) /\ lowest + m <= x.n
  BY <1>2 DEF RowsOf
<1>4. CellRows(x, g) = s
  BY DEF CellRows
<1> HIDE DEF m, lowest
<1>5. s \in Seq(RowsOf(x, g)) /\ Len(s) = m /\ DOMAIN s = 1..m
  <2>1. \A i \in 1..m : lowest + i - 1 \in RowsOf(x, g)
    BY <1>3
  <2> QED
    BY <1>3, <2>1
<1>6. \A i, j \in 1..m : i # j => s[i] # s[j]
  BY <1>3
<1>7. ToSet(s) = RowsOf(x, g)
  <2>1. \A i \in 1..m : s[i] \in RowsOf(x, g)
    BY <1>3
  <2>2. ASSUME NEW r \in RowsOf(x, g)
        PROVE  \E i \in 1..m : s[i] = r
    <3>1. r - lowest + 1 \in 1..m /\ lowest + (r - lowest + 1) - 1 = r
      BY <1>3
    <3> QED
      BY <3>1
  <2>3. ToSet(s) = {s[i] : i \in 1..m}
    BY <1>5 DEF ToSet
  <2> HIDE DEF s
  <2> QED
    BY <2>1, <2>2, <2>3
<1> HIDE DEF s
<1>8. RowsOf(x, g) \subseteq 0..(x.n - 1)
  BY <1>2, <1>3
<1>9. m \in 0..x.n
  BY <1>2, <1>3
<1> QED
  BY <1>4, <1>5, <1>6, <1>7, <1>8, <1>9 DEF Distinct

\* No row is in two cells.
LEMMA RowsDisjoint ==
  ASSUME NEW x, UsableIndex(x), NEW g \in Cells, NEW h \in Cells, NEW r \in RowsOf(x, g), r \in RowsOf(x, h)
  PROVE  g = h
<1>1. \A c, d \in Cells : c < d => x.cellStart[c + 1] <= x.cellStart[d]
  <2>1. \A c, d \in Cells : /\ c + 1 \in 0..(NumBuckets * NList) /\ d \in 0..(NumBuckets * NList)
                            /\ c < d => c + 1 <= d
    BY Params DEF Cells, NumBuckets
  <2> QED
    BY <2>1 DEF UsableIndex
<1>2. \A c \in Cells : c \in 0..(NumBuckets * NList) /\ c + 1 \in 0..(NumBuckets * NList) /\ c \in Int
  BY Params DEF Cells, NumBuckets
<1>3. \A c \in Cells : x.cellStart[c] \in Int /\ x.cellStart[c + 1] \in Int
  <2>1. x.cellStart \in [0..(NumBuckets * NList) -> 0..x.n] /\ x.n \in Nat
    BY DEF UsableIndex
  <2>2. \A y \in 0..x.n : y \in Int
    OBVIOUS
  <2> QED
    BY <1>2, <2>1, <2>2, Zenon
<1>4. r \in Int /\ x.cellStart[g] <= r /\ r < x.cellStart[g + 1]
      /\ x.cellStart[h] <= r /\ r < x.cellStart[h + 1]
  BY <1>3 DEF RowsOf
<1> QED
  BY <1>1, <1>2, <1>3, <1>4

-----------------------------------------------------------------------------
\* The invariant of a query under way.

\* The bucket whose cells are being scanned, and those the loop is past.
Open == IF at = 0 THEN Home ELSE at - 1
Passed(b) == at >= 0 /\ (b = Home \/ b < at)

\* The pass: its bounds and what is empty between its parts.
PassInv ==
  /\ UsableIndex(ix) /\ ix.n > 0 /\ q \in Vector
  /\ pc \in {"buckets", "cells", "refine", "done"} /\ tier \in {"cheap", "high"}
  /\ at \in -1..NumBuckets /\ scanned \in Nat /\ hi \in 0..NList
  /\ tier = "cheap" => hi = ix.nprobe
  /\ tier = "high" => hi \in HighProbes /\ ix.nprobe < hi
  /\ at = -1 => pc = "buckets" /\ scanned = 0
  /\ pc # "cells" => cells = <<>>
  /\ pc = "buckets" => run = <<>>
  /\ tk.n \in 0..K

\* The cells left are different cells the pass is to scan in the open bucket.
CellsInv ==
  pc = "cells" => /\ cells \in Seq(Cells) /\ Distinct(cells)
                  /\ ToSet(cells) \subseteq CellSet(ix, q, Open, lo, hi)

\* Cell g of bucket b was in the cheap pass, or the running pass is past it.
SeenCell(b, g) ==
  \/ tier = "high" /\ g \in CellSet(ix, q, b, 0, ix.nprobe)
  \/ /\ Passed(b) /\ g \in CellSet(ix, q, b, lo, hi)
     /\ ~(pc = "cells" /\ b = Open /\ g \in ToSet(cells))

Behind(r) == \E b \in Bucket : \E g \in Cells : SeenCell(b, g) /\ r \in RowsOf(ix, g)

\* The rows offered and those of the open cell about to be.
Stream == IF pc = "cells" THEN offered \o run ELSE offered

\* They are different rows of cells the query is past.
StreamInv ==
  /\ offered \in Seq(Rows) /\ run \in Seq(Rows)
  /\ scanned <= Len(Stream)
  /\ Distinct(Stream) /\ \A r \in ToSet(Stream) : Behind(r)

\* Below the cap, or just over it with the rest of the bucket dropped.
CapInv ==
  tier = "cheap" /\ ix.maxScan > 0 =>
    \/ scanned < ix.maxScan
    \/ cells = <<>> /\ scanned < ix.maxScan + LargestCell(ix)

\* The collector holds rows offered, none twice, until it is full.
ColInv ==
  /\ HoldsOffers(CandK, col, Len(offered), ToSet(offered))
  /\ col.n = AtMost(Len(offered), CandK)

Running == PassInv /\ CellsInv /\ StreamInv /\ CapInv /\ ColInv

\* What a query not begun has not touched.
Untouched ==
  /\ tier = "cheap" /\ hi = 0 /\ at = -1 /\ cells = <<>> /\ run = <<>>
  /\ col = EmptyBuffer(CandK, 0) /\ tk = EmptyBuffer(K, 0)
  /\ scanned = 0 /\ offered = <<>> /\ pruned = {}

\* Before the query, after one of an empty index, and during any other.
SearchInv ==
  \/ SearchInit
  \/ pc = "done" /\ UsableIndex(ix) /\ ix.n = 0 /\ q \in Vector /\ Untouched
  \/ Running

-----------------------------------------------------------------------------
\* The steps of a query.

\* The home bucket is one of the sixteen.
LEMMA HomeIsABucket ==
  ASSUME NEW v \in Vector
  PROVE  bucketOf(v) \in Bucket
<1>1. \A c : Bit(c) \in {0, 1}
  BY DEF Bit
<1>2. bucketOf(v) \in 0..15
  <2> DEFINE a == Bit(AtLeastHalf(v[9]))
             b == Bit(AtLeastHalf(v[10]))
             c == Bit(AtLeastHalf(v[11]))
             d == Bit(IsNull(v))
  <2>1. a \in {0, 1} /\ b \in {0, 1} /\ c \in {0, 1} /\ d \in {0, 1}
    BY <1>1
  <2>2. bucketOf(v) = 8 * a + 4 * b + 2 * c + d
    BY DEF bucketOf
  <2> HIDE DEF a, b, c, d
  <2> QED
    BY <2>1, <2>2
<1> QED
  BY <1>2 DEF Bucket, NumBuckets

\* A step that passes over more cells and offers nothing new.
LEMMA StreamKept ==
  ASSUME StreamInv, ix' = ix, offered' = offered, run' \in Seq(Rows), scanned' <= scanned,
         scanned \in Nat, scanned' \in Nat,
         Stream' = Stream,
         \A b \in Bucket : \A g \in Cells : SeenCell(b, g) => SeenCell(b, g)'
  PROVE  StreamInv'
<1>1. /\ offered \in Seq(Rows) /\ scanned <= Len(Stream)
      /\ Distinct(Stream) /\ \A r \in ToSet(Stream) : Behind(r)
  BY DEF StreamInv
<1>2. Rows' = Rows
  BY DEF Rows
<1>3. \A r : Behind(r) => Behind(r)'
  BY DEF Behind
<1>4. Len(Stream) \in Nat
  <2>1. run \in Seq(Rows)
    BY DEF StreamInv
  <2> QED
    BY <1>1, <2>1 DEF Stream
<1>5. Distinct(Stream') /\ scanned' <= Len(Stream')
  BY <1>1, <1>4
<1>6. \A r \in ToSet(Stream') : Behind(r)'
  BY <1>1, <1>3, Zenon
<1> QED
  BY <1>1, <1>2, <1>5, <1>6 DEF StreamInv

\* With nothing in the open cell the stream is what was offered.
LEMMA StreamOffered ==
  ASSUME StreamInv, run = <<>> \/ pc # "cells"
  PROVE  Stream = offered
<1>1. offered \in Seq(Rows)
  BY DEF StreamInv
<1>2. offered \o <<>> = offered
  BY <1>1
<1> QED
  BY <1>2 DEF Stream

\* scanRange opens the home bucket.
LEMMA OpenHomeKeeps ==
  ASSUME Running, OpenHome
  PROVE  Running'
<1>1. PassInv /\ CellsInv /\ StreamInv /\ CapInv /\ ColInv
  BY DEF Running
<1>2. /\ pc = "buckets" /\ at = -1 /\ pc' = "cells" /\ at' = 0
      /\ cells' = CellsInRange(ix, q, Home, lo, hi)
      /\ UNCHANGED <<ix, q, tier, hi, run, col, scanned, tk, offered>>
  BY DEF OpenHome
<1>3. /\ UsableIndex(ix) /\ q \in Vector /\ lo \in Nat /\ hi \in Nat /\ lo' = lo
      /\ Home \in Bucket /\ Home' = Home /\ Open' = Home /\ run = <<>> /\ scanned = 0
  <2>1. UsableIndex(ix) /\ q \in Vector /\ ix.nprobe \in Nat /\ hi \in Nat
    BY <1>1, Params DEF PassInv, UsableIndex
  <2>2. lo \in Nat /\ lo' = lo
    BY <1>2, <2>1 DEF lo
  <2>3. Home \in Bucket /\ Home' = Home /\ Open' = Home
    BY <1>2, <2>1, HomeIsABucket DEF Home, Open
  <2> QED
    BY <1>1, <1>2, <2>1, <2>2, <2>3 DEF PassInv
<1>4. PassInv'
  BY <1>1, <1>2 DEF PassInv, NumBuckets
<1>5. CellsInv'
  <2>1. cells' \in Seq(Block(Home)) /\ Distinct(cells')
    BY <1>2, <1>3, RangeCells
  <2>2. Block(Home) \subseteq Cells
    BY <1>3, CellBlocks
  <2>3. cells' \in Seq(Cells)
    BY <2>1, <2>2
  <2>4. ToSet(cells') = CellSet(ix', q', Open', lo', hi')
    BY <1>2, <1>3 DEF CellSet
  <2> QED
    BY <2>1, <2>3, <2>4 DEF CellsInv
<1>6. StreamInv'
  <2>1. Stream' = Stream
    <3>1. offered \o <<>> = offered
      BY <1>1 DEF StreamInv
    <3> QED
      BY <1>2, <1>3, <3>1 DEF Stream
  <2>2. \A b \in Bucket : \A g \in Cells : SeenCell(b, g) => SeenCell(b, g)'
    BY <1>2 DEF SeenCell, Passed
  <2>3. run' \in Seq(Rows) /\ scanned \in Nat /\ scanned' <= scanned /\ scanned' \in Nat
    BY <1>1, <1>2, <1>3 DEF StreamInv
  <2> QED
    BY <1>1, <1>2, <2>1, <2>2, <2>3, StreamKept
<1>7. CapInv'
  BY <1>2, <1>3 DEF CapInv
<1>8. ColInv'
  BY <1>1, <1>2 DEF ColInv
<1> QED
  BY <1>4, <1>5, <1>6, <1>7, <1>8 DEF Running

\* The loop over the buckets passes over the home bucket, already scanned, and
\* over the buckets pruned.
LEMMA PassOverKeeps ==
  ASSUME Running, SkipHome \/ PruneBucket
  PROVE  Running'
<1>1. PassInv /\ CellsInv /\ StreamInv /\ CapInv /\ ColInv
  BY DEF Running
<1>2. /\ pc = "buckets" /\ pc' = "buckets" /\ at \in Bucket /\ at' = at + 1
      /\ UNCHANGED <<ix, q, tier, hi, run, cells, col, scanned, tk, offered>>
  <2>1. CASE SkipHome
    <3>1. at \in Bucket
      BY <1>1, <2>1, HomeIsABucket DEF SkipHome, PassInv, Home
    <3> QED
      BY <2>1, <3>1 DEF SkipHome
  <2>2. CASE PruneBucket
    BY <2>2 DEF PruneBucket
  <2> QED
    BY <2>1, <2>2
<1>3. at \in Nat /\ at' \in 0..NumBuckets
  BY <1>2 DEF Bucket, NumBuckets
<1>4. PassInv'
  BY <1>1, <1>2, <1>3 DEF PassInv
<1>5. CellsInv'
  BY <1>2 DEF CellsInv
<1>6. StreamInv'
  <2>1. Stream' = Stream /\ lo' = lo /\ Home' = Home
    BY <1>2 DEF Stream, lo, Home
  <2>2. \A b \in Bucket : Passed(b) => Passed(b)'
    BY <1>2, <1>3, <2>1 DEF Passed, Bucket
  <2>3. \A b \in Bucket : \A g \in Cells : SeenCell(b, g) => SeenCell(b, g)'
    BY <1>2, <2>1, <2>2 DEF SeenCell
  <2>4. run' \in Seq(Rows) /\ scanned \in Nat /\ scanned' <= scanned /\ scanned' \in Nat
    BY <1>1, <1>2 DEF StreamInv, PassInv
  <2> QED
    BY <1>1, <1>2, <2>1, <2>3, <2>4, StreamKept
<1>7. CapInv'
  BY <1>1, <1>2 DEF CapInv
<1>8. ColInv'
  BY <1>1, <1>2 DEF ColInv
<1> QED
  BY <1>4, <1>5, <1>6, <1>7, <1>8 DEF Running

\* The loop opens the next bucket while the row cap is not reached.
LEMMA OpenBucketKeeps ==
  ASSUME Running, OpenBucket
  PROVE  Running'
<1>1. PassInv /\ CellsInv /\ StreamInv /\ CapInv /\ ColInv
  BY DEF Running
<1>2. /\ pc = "buckets" /\ pc' = "cells" /\ at \in Bucket \ {Home} /\ at' = at + 1
      /\ ~CapReached(scanned)
      /\ cells' = CellsInRange(ix, q, at, lo, hi)
      /\ UNCHANGED <<ix, q, tier, hi, run, col, scanned, tk, offered>>
  BY DEF OpenBucket
<1>3. /\ UsableIndex(ix) /\ q \in Vector /\ lo \in Nat /\ hi \in Nat /\ lo' = lo
      /\ at \in Nat /\ at' \in 1..NumBuckets /\ Home' = Home /\ Open' = at /\ run = <<>>
  <2>1. UsableIndex(ix) /\ q \in Vector /\ ix.nprobe \in Nat /\ hi \in Nat
    BY <1>1, Params DEF PassInv, UsableIndex
  <2>2. lo \in Nat /\ lo' = lo
    BY <1>2, <2>1 DEF lo
  <2>3. at \in Nat /\ at' \in 1..NumBuckets /\ at' - 1 = at
    BY <1>2 DEF Bucket, NumBuckets
  <2>4. Open' = at /\ Home' = Home
    BY <1>2, <2>3 DEF Home, Open
  <2> QED
    BY <1>1, <1>2, <2>1, <2>2, <2>3, <2>4 DEF PassInv
<1>4. PassInv'
  BY <1>1, <1>2, <1>3 DEF PassInv
<1>5. CellsInv'
  <2>1. cells' \in Seq(Block(at)) /\ Distinct(cells')
    BY <1>2, <1>3, RangeCells
  <2>2. Block(at) \subseteq Cells
    BY <1>2, CellBlocks
  <2>3. cells' \in Seq(Cells)
    BY <2>1, <2>2
  <2>4. ToSet(cells') = CellSet(ix', q', Open', lo', hi')
    BY <1>2, <1>3 DEF CellSet
  <2> QED
    BY <2>1, <2>3, <2>4 DEF CellsInv
<1>6. StreamInv'
  <2>1. Stream' = Stream
    <3>1. offered \o <<>> = offered
      BY <1>1 DEF StreamInv
    <3> QED
      BY <1>2, <1>3, <3>1 DEF Stream
  <2>2. \A b \in Bucket : Passed(b) => Passed(b)' /\ b # at
    BY <1>2, <1>3 DEF Passed, Bucket
  <2>3. \A b \in Bucket : \A g \in Cells : SeenCell(b, g) => SeenCell(b, g)'
    BY <1>2, <1>3, <2>2 DEF SeenCell
  <2>4. run' \in Seq(Rows) /\ scanned \in Nat /\ scanned' <= scanned /\ scanned' \in Nat
    BY <1>1, <1>2 DEF StreamInv, PassInv
  <2> QED
    BY <1>1, <1>2, <2>1, <2>3, <2>4, StreamKept
<1>7. CapInv'
  <2>1. scanned \in Nat /\ ix.maxScan \in Nat
    BY <1>1 DEF PassInv, UsableIndex
  <2> QED
    BY <1>2, <2>1 DEF CapInv, CapReached, capScan
<1>8. ColInv'
  BY <1>1, <1>2 DEF ColInv
<1> QED
  BY <1>4, <1>5, <1>6, <1>7, <1>8 DEF Running

-----------------------------------------------------------------------------
\* A sequence and what is left of it after its head.
LEMMA HeadAndTail ==
  ASSUME NEW S, NEW s \in Seq(S), s # <<>>
  PROVE  /\ Head(s) \in S /\ Tail(s) \in Seq(S)
         /\ ToSet(s) = {Head(s)} \cup ToSet(Tail(s))
         /\ Distinct(s) => Distinct(Tail(s)) /\ Head(s) \notin ToSet(Tail(s))
<1> DEFINE n == Len(s)
           t == Tail(s)
<1>1. /\ n \in Nat \ {0} /\ Head(s) = s[1] /\ t \in Seq(S) /\ Len(t) = n - 1
      /\ DOMAIN s = 1..n /\ DOMAIN t = 1..(n - 1)
      /\ \A i \in 1..(n - 1) : t[i] = s[i + 1]
      /\ \A i \in 1..n : s[i] \in S
  OBVIOUS
<1>2. ToSet(s) = {s[i] : i \in 1..n} /\ ToSet(t) = {t[i] : i \in 1..(n - 1)}
  BY <1>1 DEF ToSet
<1> HIDE DEF n, t
<1>3. /\ 1 \in 1..n /\ \A i \in 1..(n - 1) : i + 1 \in 1..n /\ i + 1 # 1
      /\ \A i \in 1..n : i = 1 \/ (i - 1 \in 1..(n - 1) /\ (i - 1) + 1 = i)
      /\ \A i, j \in 1..(n - 1) : i # j => i + 1 # j + 1
  BY <1>1
<1>4. ToSet(s) = {s[1]} \cup ToSet(t)
  <2>1. \A i \in 1..n : s[i] = s[1] \/ s[i] \in ToSet(t)
    <3>1. \A i \in 1..(n - 1) : s[i + 1] \in ToSet(t)
      BY <1>1, <1>2
    <3> QED
      BY <1>3, <3>1
  <2>2. \A r \in ToSet(t) : r \in ToSet(s)
    BY <1>1, <1>2, <1>3
  <2> QED
    BY <1>2, <1>3, <2>1, <2>2
<1>5. ASSUME Distinct(s)
      PROVE  Distinct(t) /\ s[1] \notin ToSet(t)
  <2>1. \A i, j \in 1..n : i # j => s[i] # s[j]
    BY <1>5 DEF Distinct, n
  <2>2. \A i, j \in 1..(n - 1) : i # j => t[i] # t[j]
    BY <1>1, <1>3, <2>1
  <2>3. \A i \in 1..(n - 1) : t[i] # s[1]
    BY <1>1, <1>3, <2>1
  <2> QED
    BY <1>1, <1>2, <2>2, <2>3 DEF Distinct
<1> QED
  BY <1>1, <1>4, <1>5 DEF n, t

\* Two sequences of different elements, with none in common.
LEMMA DistinctJoined ==
  ASSUME NEW S, NEW s \in Seq(S), NEW t \in Seq(S), Distinct(s), Distinct(t),
         \A e \in ToSet(t) : e \notin ToSet(s)
  PROVE  Distinct(s \o t) /\ ToSet(s \o t) = ToSet(s) \cup ToSet(t) /\ Len(s \o t) = Len(s) + Len(t)
<1> DEFINE u == s \o t
           m == Len(s)
           n == Len(t)
<1>1. /\ m \in Nat /\ n \in Nat /\ u \in Seq(S) /\ Len(u) = m + n /\ DOMAIN u = 1..(m + n)
      /\ DOMAIN s = 1..m /\ DOMAIN t = 1..n
      /\ \A i \in 1..(m + n) : u[i] = IF i <= m THEN s[i] ELSE t[i - m]
  BY ConcatProperties
<1>2. /\ ToSet(s) = {s[i] : i \in 1..m} /\ ToSet(t) = {t[i] : i \in 1..n}
      /\ ToSet(u) = {u[i] : i \in 1..(m + n)}
  BY <1>1 DEF ToSet
<1>3. /\ \A i, j \in 1..m : i # j => s[i] # s[j]
      /\ \A i, j \in 1..n : i # j => t[i] # t[j]
  BY DEF Distinct
<1> HIDE DEF u, m, n
<1>4. /\ \A i \in 1..m : i \in 1..(m + n) /\ u[i] = s[i]
      /\ \A i \in 1..n : i + m \in 1..(m + n) /\ u[i + m] = t[i]
      /\ \A i \in 1..(m + n) : \/ i \in 1..m /\ u[i] = s[i]
                               \/ i - m \in 1..n /\ u[i] = t[i - m]
      /\ \A i, j \in 1..(m + n) : i # j => i - m # j - m
  <2>1. \A i \in 1..n : i + m \in 1..(m + n) /\ ~(i + m <= m) /\ (i + m) - m = i
    BY <1>1
  <2>2. \A i \in 1..(m + n) : (i <= m /\ i \in 1..m) \/ (~(i <= m) /\ i - m \in 1..n)
    BY <1>1
  <2>3. \A i \in 1..m : i \in 1..(m + n) /\ i <= m
    BY <1>1
  <2>4. \A i, j \in 1..(m + n) : i # j => i - m # j - m
    BY <1>1
  <2> QED
    BY <1>1, <2>1, <2>2, <2>3, <2>4
<1>5. \A i \in 1..m : \A j \in 1..n : s[i] # t[j]
  BY <1>2
<1>6. Distinct(u)
  <2> SUFFICES ASSUME NEW i \in 1..(m + n), NEW j \in 1..(m + n), i # j
               PROVE  u[i] # u[j]
    BY <1>1 DEF Distinct
  <2>1. /\ (i \in 1..m /\ u[i] = s[i]) \/ (i - m \in 1..n /\ u[i] = t[i - m])
        /\ (j \in 1..m /\ u[j] = s[j]) \/ (j - m \in 1..n /\ u[j] = t[j - m])
        /\ i - m # j - m
    BY <1>4
  <2> QED
    BY <1>3, <1>5, <2>1, Zenon
<1>7. ToSet(u) = ToSet(s) \cup ToSet(t)
  <2>1. \A e \in ToSet(u) : e \in ToSet(s) \/ e \in ToSet(t)
    BY <1>2, <1>4
  <2>2. \A e \in ToSet(s) : e \in ToSet(u)
    BY <1>2, <1>4
  <2>3. \A e \in ToSet(t) : e \in ToSet(u)
    BY <1>2, <1>4
  <2> QED
    BY <2>1, <2>2, <2>3
<1> QED
  BY <1>1, <1>6, <1>7 DEF u, m, n

\* No cell has more rows than the largest.
LEMMA LargestCellFacts ==
  ASSUME NEW x, UsableIndex(x)
  PROVE  /\ LargestCell(x) \in Nat
         /\ \A g \in Cells : Len(CellRows(x, g)) <= LargestCell(x)
<1> DEFINE sizes == {Len(CellRows(x, g)) : g \in Cells}
           bounds == {m \in 0..x.n : \A k \in sizes : k <= m}
<1>1. x.n \in Nat /\ x.nlist = NList /\ NList \in Nat \ {0}
  BY Params DEF UsableIndex
<1>2. Cells = 0..(NumBuckets * x.nlist - 1) /\ 0 \in Cells
  BY <1>1 DEF Cells, NumBuckets
<1>3. sizes \subseteq 0..x.n
  BY CellRowsFacts
<1>4. x.n \in bounds
  BY <1>1, <1>3
<1>5. PICK m \in bounds : \A k \in bounds : ~(<<k, m>> \in OpToRel(<, Nat))
  <2>1. bounds \subseteq Nat
    BY <1>1
  <2> HIDE DEF bounds
  <2> QED
    BY <1>4, <2>1, NatLessThanWellFounded, WFMin
<1>6. \A k \in bounds : ~(k < m)
  <2>1. bounds \subseteq Nat
    BY <1>1
  <2> QED
    BY <1>5, <2>1 DEF OpToRel
<1>7. m \in sizes
  <2> SUFFICES ASSUME m \notin sizes
               PROVE  FALSE
    OBVIOUS
  <2>1. \A k \in sizes : k \in 0..x.n /\ k <= m /\ k # m
    BY <1>3, <1>5
  <2>2. PICK size \in sizes : size = Len(CellRows(x, 0))
    BY <1>2
  <2> HIDE DEF sizes
  <2>3. m \in Nat /\ m # 0 /\ m <= x.n
    <3>1. m \in 0..x.n
      BY <1>5
    <3> QED
      BY <1>1, <2>1, <3>1
  <2>4. \A k \in sizes : k <= m - 1
    BY <1>1, <2>1, <2>3
  <2>5. m - 1 \in bounds /\ m - 1 < m
    BY <1>1, <2>3, <2>4
  <2> QED
    BY <1>6, <2>5
<1>8. PICK top \in 0..x.n : /\ \A c \in 0..(NumBuckets * x.nlist - 1) : Len(CellRows(x, c)) <= top
                            /\ \E c \in 0..(NumBuckets * x.nlist - 1) : Len(CellRows(x, c)) = top
  <2>1. m \in 0..x.n /\ (\A g \in Cells : Len(CellRows(x, g)) <= m)
        /\ \E g \in Cells : Len(CellRows(x, g)) = m
    BY <1>5, <1>7
  <2> QED
    BY <1>2, <2>1
<1>9. /\ LargestCell(x) \in 0..x.n
      /\ \A c \in 0..(NumBuckets * x.nlist - 1) : Len(CellRows(x, c)) <= LargestCell(x)
  BY <1>8, Zenon DEF LargestCell
<1> QED
  BY <1>1, <1>2, <1>9

\* A pass stays in the bucket.
LEMMA CellSetInBlock ==
  ASSUME NEW x, UsableIndex(x), NEW v \in Vector, NEW b \in Bucket, NEW from \in Nat, NEW high \in Nat
  PROVE  CellSet(x, v, b, from, high) \subseteq Block(b)
<1>1. CellsInRange(x, v, b, from, high) \in Seq(Block(b))
  BY RangeCells
<1> QED
  BY <1>1 DEF CellSet, ToSet

\* The bounds of the pass, and the bucket it has open.
LEMMA PassBounds ==
  ASSUME PassInv
  PROVE  /\ UsableIndex(ix) /\ q \in Vector /\ lo \in Nat /\ hi \in Nat /\ ix.nprobe \in Nat
         /\ Home \in Bucket
         /\ pc = "cells" => Open \in Bucket /\ Passed(Open)
<1>1. /\ UsableIndex(ix) /\ q \in Vector /\ ix.nprobe \in Nat /\ hi \in Nat
      /\ at \in -1..NumBuckets /\ (pc = "cells" => at # -1)
  BY Params DEF PassInv, UsableIndex
<1>2. Home \in Bucket
  BY <1>1, HomeIsABucket DEF Home
<1>3. lo \in Nat
  BY <1>1 DEF lo
<1>4. ASSUME pc = "cells"
      PROVE  Open \in Bucket /\ Passed(Open)
  <2>1. at \in 0..16
    BY <1>1, <1>4 DEF NumBuckets
  <2>2. CASE at = 0
    BY <1>2, <2>1, <2>2 DEF Open, Passed
  <2>3. CASE at # 0
    BY <2>1, <2>3 DEF Open, Passed, Bucket, NumBuckets
  <2> QED
    BY <2>2, <2>3
<1> QED
  BY <1>1, <1>2, <1>3, <1>4

\* The next cell was in no earlier pass and no earlier bucket, and its rows are
\* therefore new to the query.
LEMMA HeadIsNew ==
  ASSUME Running, pc = "cells", cells # <<>>
  PROVE  /\ Head(cells) \in Cells
         /\ \A b \in Bucket : ~SeenCell(b, Head(cells))
         /\ \A r \in ToSet(Stream) : r \notin RowsOf(ix, Head(cells))
<1> DEFINE g == Head(cells)
<1>1. PassInv /\ CellsInv /\ StreamInv
  BY DEF Running
<1>2. /\ cells \in Seq(Cells) /\ ToSet(cells) \subseteq CellSet(ix, q, Open, lo, hi)
      /\ UsableIndex(ix) /\ q \in Vector /\ lo \in Nat /\ hi \in Nat /\ ix.nprobe \in Nat
      /\ Open \in Bucket
  BY <1>1, PassBounds DEF CellsInv
<1>3. g \in Cells /\ g \in ToSet(cells) /\ g \in CellSet(ix, q, Open, lo, hi)
  BY <1>2, HeadAndTail
<1> HIDE DEF g
<1>4. g \in Block(Open)
  BY <1>2, <1>3, CellSetInBlock
<1>5. ASSUME NEW b \in Bucket, SeenCell(b, g)
      PROVE  FALSE
  <2>1. CASE tier = "high" /\ g \in CellSet(ix, q, b, 0, ix.nprobe)
    <3>1. g \in Block(b)
      BY <1>2, <2>1, CellSetInBlock
    <3>2. b = Open
      BY <1>2, <1>4, <3>1, BlocksDisjoint
    <3>3. hi \in HighProbes /\ ix.nprobe < hi /\ lo = ix.nprobe
      BY <1>1, <2>1 DEF PassInv, lo
    <3>4. g \notin CellSet(ix, q, b, ix.nprobe, hi)
      BY <1>2, <2>1, <3>3, TiersDisjoint
    <3> QED
      BY <1>3, <3>2, <3>3, <3>4
  <2>2. CASE g \in CellSet(ix, q, b, lo, hi) /\ ~(pc = "cells" /\ b = Open /\ g \in ToSet(cells))
    <3>1. g \in Block(b)
      BY <1>2, <2>2, CellSetInBlock
    <3>2. b = Open
      BY <1>2, <1>4, <3>1, BlocksDisjoint
    <3> QED
      BY <1>3, <2>2, <3>2
  <2> QED
    BY <1>5, <2>1, <2>2 DEF SeenCell
<1>6. ASSUME NEW r \in ToSet(Stream), r \in RowsOf(ix, g)
      PROVE  FALSE
  <2>1. Behind(r)
    BY <1>1 DEF StreamInv
  <2>2. PICK b \in Bucket : \E h \in Cells : SeenCell(b, h) /\ r \in RowsOf(ix, h)
    BY <2>1 DEF Behind
  <2>3. PICK h \in Cells : SeenCell(b, h) /\ r \in RowsOf(ix, h)
    BY <2>2
  <2>4. h = g
    BY <1>2, <1>3, <1>6, <2>3, RowsDisjoint
  <2> QED
    BY <1>5, <2>3, <2>4
<1> QED
  BY <1>3, <1>5, <1>6 DEF g

\* The next cell of the open bucket.
LEMMA OpenCellKeeps ==
  ASSUME Running, OpenCell
  PROVE  Running'
<1> DEFINE g == Head(cells)
           mine == CellRows(ix, g)
           total == scanned + Len(mine)
<1>1. PassInv /\ CellsInv /\ StreamInv /\ CapInv /\ ColInv
  BY DEF Running
<1>2. /\ pc = "cells" /\ run = <<>> /\ cells # <<>>
      /\ run' = mine /\ scanned' = total
      /\ cells' = IF mine # <<>> /\ CapReached(total) THEN <<>> ELSE Tail(cells)
      /\ UNCHANGED <<ix, q, pc, tier, hi, at, col, tk, offered>>
  BY DEF OpenCell
<1>3. /\ UsableIndex(ix) /\ q \in Vector /\ lo \in Nat /\ hi \in Nat /\ lo' = lo
      /\ Open \in Bucket /\ Passed(Open) /\ Open' = Open /\ Home' = Home /\ scanned \in Nat
  BY <1>1, <1>2, PassBounds DEF lo, Open, Home, PassInv
<1>4. /\ g \in Cells /\ cells \in Seq(Cells) /\ Distinct(cells)
      /\ ToSet(cells) \subseteq CellSet(ix, q, Open, lo, hi)
      /\ \A b \in Bucket : ~SeenCell(b, g)
      /\ \A r \in ToSet(Stream) : r \notin RowsOf(ix, g)
  BY <1>1, <1>2, HeadIsNew DEF CellsInv
<1>5. /\ Tail(cells) \in Seq(Cells) /\ Distinct(Tail(cells)) /\ g \notin ToSet(Tail(cells))
      /\ ToSet(cells) = {g} \cup ToSet(Tail(cells))
  BY <1>2, <1>4, HeadAndTail
<1>6. /\ mine \in Seq(Rows) /\ mine \in Seq(RowsOf(ix, g)) /\ Distinct(mine)
      /\ ToSet(mine) = RowsOf(ix, g) /\ Len(mine) \in Nat
  <2>1. /\ mine \in Seq(RowsOf(ix, g)) /\ Distinct(mine) /\ RowsOf(ix, g) \subseteq Rows
        /\ ToSet(mine) = RowsOf(ix, g) /\ Len(mine) \in 0..ix.n /\ ix.n \in Nat
    BY <1>3, <1>4, CellRowsFacts DEF Rows, UsableIndex
  <2> HIDE DEF mine
  <2> QED
    BY <2>1
<1> HIDE DEF g, mine
<1>7. total \in Nat
  BY <1>3, <1>6
<1>8. /\ cells' \in Seq(Cells) /\ Distinct(cells') /\ g \notin ToSet(cells')
      /\ ToSet(cells') \subseteq ToSet(cells)
  <2>1. CASE cells' = <<>>
    BY <2>1 DEF Distinct, ToSet
  <2>2. CASE cells' = Tail(cells)
    BY <1>5, <2>2
  <2> QED
    BY <1>2, <2>1, <2>2
<1>9. PassInv'
  BY <1>1, <1>2, <1>7 DEF PassInv
<1>10. CellsInv'
  BY <1>2, <1>3, <1>4, <1>8 DEF CellsInv
<1>11. StreamInv'
  <2>1. Stream = offered /\ offered \in Seq(Rows) /\ Stream' = offered \o mine /\ Rows' = Rows
    <3>1. Stream = offered
      BY <1>1, <1>2, StreamOffered
    <3> QED
      BY <1>1, <1>2, <3>1 DEF Stream, StreamInv, Rows
  <2>2. /\ Distinct(offered) /\ scanned <= Len(offered) /\ \A r \in ToSet(offered) : Behind(r)
    BY <1>1, <2>1 DEF StreamInv
  <2>3. \A r \in ToSet(mine) : r \notin ToSet(offered)
    BY <1>4, <1>6, <2>1
  <2>4. /\ Distinct(offered \o mine) /\ ToSet(offered \o mine) = ToSet(offered) \cup ToSet(mine)
        /\ Len(offered \o mine) = Len(offered) + Len(mine)
    BY <1>6, <2>1, <2>2, <2>3, DistinctJoined
  <2>5. total <= Len(offered \o mine)
    <3>1. Len(offered) \in Nat
      BY <2>1
    <3> QED
      BY <1>3, <1>6, <2>2, <2>4, <3>1
  <2>6. \A b \in Bucket : \A c \in Cells : SeenCell(b, c) => SeenCell(b, c)'
    BY <1>2, <1>3, <1>8 DEF SeenCell, Passed
  <2>7. PICK b \in Bucket, c \in Cells : b = Open /\ c = g
    BY <1>3, <1>4
  <2>8. SeenCell(b, c)'
    <3>1. Passed(b)'
      BY <1>2, <1>3, <2>7 DEF Passed
    <3>2. c \in CellSet(ix', q', b, lo', hi') /\ c \notin ToSet(cells')
      BY <1>2, <1>3, <1>4, <1>5, <1>8, <2>7
    <3> QED
      BY <3>1, <3>2 DEF SeenCell
  <2>9. \A r \in ToSet(offered) : Behind(r)'
    BY <1>2, <2>2, <2>6 DEF Behind
  <2>10. \A r \in ToSet(mine) : Behind(r)'
    BY <1>2, <1>6, <2>7, <2>8 DEF Behind
  <2>11. Distinct(Stream') /\ (\A r \in ToSet(Stream') : Behind(r)') /\ scanned' <= Len(Stream')
    BY <1>2, <2>1, <2>4, <2>5, <2>9, <2>10
  <2> QED
    BY <1>2, <1>6, <2>1, <2>11 DEF StreamInv
<1>12. CapInv'
  <2> SUFFICES ASSUME tier = "cheap", ix.maxScan > 0
               PROVE  \/ scanned' < ix.maxScan
                      \/ cells' = <<>> /\ scanned' < ix.maxScan + LargestCell(ix)
    BY <1>2 DEF CapInv
  <2>1. ix.maxScan \in Nat /\ LargestCell(ix) \in Nat /\ Len(mine) <= LargestCell(ix)
    BY <1>3, <1>4, LargestCellFacts DEF UsableIndex, mine
  <2>2. scanned < ix.maxScan
    BY <1>1, <1>2 DEF CapInv
  <2>3. CASE mine # <<>> /\ CapReached(total)
    BY <1>2, <1>3, <1>6, <2>1, <2>2, <2>3
  <2>4. CASE mine = <<>>
    <3>1. Len(mine) = 0
      BY <2>4
    <3> QED
      BY <1>2, <1>3, <2>2, <3>1
  <2>5. CASE ~CapReached(total)
    BY <1>2, <1>7, <2>1, <2>5 DEF CapReached, capScan
  <2> QED
    BY <2>3, <2>4, <2>5
<1>13. ColInv'
  BY <1>1, <1>2 DEF ColInv
<1> QED
  BY <1>9, <1>10, <1>11, <1>12, <1>13 DEF Running

\* scanCellCollect considers the next row of the cell.
LEMMA CollectRowKeeps ==
  ASSUME Running, CollectRow
  PROVE  Running'
<1> DEFINE d == intDist(qcode, RowCode(ix, Head(run)))
           r == Head(run)
<1>1. PassInv /\ CellsInv /\ StreamInv /\ CapInv /\ ColInv
  BY DEF Running
<1>2. /\ pc = "cells" /\ run # <<>>
      /\ col' = Consider(CandK, col, d, r) /\ run' = Tail(run) /\ offered' = Append(offered, r)
      /\ UNCHANGED <<ix, q, pc, tier, hi, at, cells, scanned, tk>>
  BY DEF CollectRow
<1>3. /\ offered \in Seq(Rows) /\ run \in Seq(Rows) /\ Rows' = Rows /\ lo' = lo
      /\ Open' = Open /\ Home' = Home
  BY <1>1, <1>2 DEF StreamInv, Rows, lo, Open, Home
<1>4. r \in Rows /\ Tail(run) \in Seq(Rows) /\ ToSet(run) = {r} \cup ToSet(Tail(run))
  BY <1>2, <1>3, HeadAndTail
<1>5. Stream' = Stream /\ Stream = offered \o run
  <2>1. Append(offered, r) \o Tail(run) = offered \o run
    BY <1>2, <1>3
  <2> QED
    BY <1>2, <2>1 DEF Stream
<1>6. /\ ToSet(offered') = ToSet(offered) \cup {r} /\ r \notin ToSet(offered)
      /\ Len(offered') = Len(offered) + 1 /\ offered' \in Seq(Rows)
  <2>1. Distinct(offered \o run)
    BY <1>1, <1>5 DEF StreamInv
  <2>2. /\ Len(offered \o run) = Len(offered) + Len(run) /\ Len(run) \in Nat \ {0}
        /\ Len(offered) \in Nat
        /\ (offered \o run)[Len(offered) + 1] = r
        /\ \A i \in 1..Len(offered) : (offered \o run)[i] = offered[i]
    BY <1>2, <1>3
  <2>3. /\ \A i \in 1..Len(offered) : /\ i # Len(offered) + 1 /\ i \in 1..(Len(offered) + Len(run))
        /\ Len(offered) + 1 \in 1..(Len(offered) + Len(run))
    BY <2>2
  <2>4. \A i \in 1..Len(offered) : offered[i] # r
    BY <2>1, <2>2, <2>3 DEF Distinct
  <2>5. ToSet(offered) = {offered[i] : i \in 1..Len(offered)}
    BY <1>3 DEF ToSet
  <2>6. ToSet(Append(offered, r)) = ToSet(offered) \cup {r}
    <3>1. /\ DOMAIN Append(offered, r) = 1..(Len(offered) + 1)
          /\ \A i \in 1..(Len(offered) + 1) :
               Append(offered, r)[i] = IF i = Len(offered) + 1 THEN r ELSE offered[i]
          /\ \A i \in 1..(Len(offered) + 1) : i = Len(offered) + 1 \/ i \in 1..Len(offered)
          /\ \A i \in 1..Len(offered) : i \in 1..(Len(offered) + 1) /\ i # Len(offered) + 1
          /\ Len(offered) + 1 \in 1..(Len(offered) + 1)
      BY <1>3, <2>2
    <3>2. ToSet(Append(offered, r)) = {Append(offered, r)[i] : i \in 1..(Len(offered) + 1)}
      BY <3>1 DEF ToSet
    <3> HIDE DEF r
    <3> QED
      BY <2>5, <3>1, <3>2
  <2> QED
    BY <1>2, <1>3, <1>4, <2>4, <2>5, <2>6
<1>7. r \in Int /\ d \in Int /\ d < Inf
  <2>1. UsableIndex(ix) /\ q \in Vector /\ ix.n \in Nat
    BY <1>1 DEF PassInv, UsableIndex
  <2>2. RowCode(ix, r) \in [Dim -> Code] /\ r \in Int
    BY <1>4, <2>1 DEF UsableIndex, Rows
  <2>3. qcode \in [Dim -> Code]
    BY <2>1, QcodeType DEF qcode
  <2> QED
    BY <2>2, <2>3, DistanceBelowInf
<1>8. ColInv'
  <2>1. CandK \in Nat \ {0} /\ Inf \in Int /\ Len(offered) \in Nat
    BY <1>3, SearchAssumption, InfAssumption
  <2>2. HoldsOffers(CandK, col, Len(offered), ToSet(offered)) /\ col.n = AtMost(Len(offered), CandK)
    BY <1>1 DEF ColInv
  <2> HIDE DEF d, r
  <2>3. HoldsOffers(CandK, Consider(CandK, col, d, r), Len(offered) + 1, ToSet(offered) \cup {r})
    BY <1>6, <1>7, <2>1, <2>2, ConsiderHolds
  <2>4. Consider(CandK, col, d, r).n = AtMost(Len(offered) + 1, CandK)
    <3>1. col.dist \in [1..CandK -> Int]
      BY <2>2 DEF HoldsOffers
    <3>2. col.dist[CandK] < Inf <=> CandK <= Len(offered)
      BY <2>1, <2>2 DEF HoldsOffers
    <3>3. d \in Int /\ d < Inf
      BY <1>7
    <3>4. col.n = AtMost(Len(offered), CandK)
      BY <2>2
    <3>5. Inf \in Int /\ col.dist[CandK] \in Int
      BY <2>1, <3>1
    <3>6. \/ d >= col.dist[CandK] /\ Consider(CandK, col, d, r) = col
          \/ d < col.dist[CandK] /\ Consider(CandK, col, d, r).n = CountAfter(CandK, col)
      BY <2>1, <3>1, <3>3, ConsiderCases
    <3> DEFINE new == Consider(CandK, col, d, r)
    <3> HIDE DEF new
    <3>7. ASSUME d >= col.dist[CandK], new = col
          PROVE  new.n = AtMost(Len(offered) + 1, CandK)
      <4>1. CandK <= Len(offered)
        BY <3>2, <3>3, <3>5, <3>7
      <4> QED
        BY <2>1, <3>4, <3>7, <4>1 DEF AtMost
    <3>8. ASSUME d < col.dist[CandK], new.n = CountAfter(CandK, col)
          PROVE  new.n = AtMost(Len(offered) + 1, CandK)
      BY <2>1, <3>4, <3>8 DEF AtMost, CountAfter
    <3>9. new.n = AtMost(Len(offered) + 1, CandK)
      BY <3>6, <3>7, <3>8 DEF new
    <3> QED
      BY <3>9 DEF new
  <2> QED
    BY <1>2, <1>6, <2>3, <2>4 DEF ColInv
<1> HIDE DEF d, r
<1>9. PassInv'
  BY <1>1, <1>2 DEF PassInv
<1>10. CellsInv'
  BY <1>1, <1>2, <1>3 DEF CellsInv
<1>11. StreamInv'
  <2>1. /\ scanned <= Len(Stream) /\ Distinct(Stream) /\ \A e \in ToSet(Stream) : Behind(e)
    BY <1>1 DEF StreamInv
  <2>2. \A b \in Bucket : \A c \in Cells : SeenCell(b, c) => SeenCell(b, c)'
    BY <1>2, <1>3 DEF SeenCell, Passed
  <2>3. \A e \in ToSet(Stream') : Behind(e)'
    BY <1>2, <1>5, <2>1, <2>2 DEF Behind
  <2> QED
    BY <1>2, <1>3, <1>4, <1>5, <1>6, <2>1, <2>3 DEF StreamInv
<1>12. CapInv'
  BY <1>1, <1>2 DEF CapInv
<1> QED
  BY <1>8, <1>9, <1>10, <1>11, <1>12 DEF Running

\* The open bucket has no cell left.
LEMMA CloseBucketKeeps ==
  ASSUME Running, CloseBucket
  PROVE  Running'
<1>1. PassInv /\ CellsInv /\ StreamInv /\ CapInv /\ ColInv
  BY DEF Running
<1>2. /\ pc = "cells" /\ run = <<>> /\ cells = <<>> /\ pc' = "buckets"
      /\ UNCHANGED <<ix, q, tier, hi, at, cells, run, col, scanned, tk, offered>>
  BY DEF CloseBucket
<1>3. PassInv'
  BY <1>1, <1>2 DEF PassInv
<1>4. CellsInv'
  BY <1>2 DEF CellsInv
<1>5. StreamInv'
  <2>1. Stream' = Stream /\ lo' = lo /\ Home' = Home
    <3>1. Stream = offered
      BY <1>1, <1>2, StreamOffered
    <3> QED
      BY <1>2, <3>1 DEF Stream, lo, Home
  <2>2. \A b \in Bucket : \A g \in Cells : SeenCell(b, g) => SeenCell(b, g)'
    BY <1>2, <2>1 DEF SeenCell, Passed
  <2>3. run' \in Seq(Rows) /\ scanned \in Nat /\ scanned' <= scanned /\ scanned' \in Nat
    BY <1>1, <1>2 DEF StreamInv, PassInv
  <2> QED
    BY <1>1, <1>2, <2>1, <2>2, <2>3, StreamKept
<1>6. CapInv'
  BY <1>1, <1>2 DEF CapInv
<1>7. ColInv'
  BY <1>1, <1>2 DEF ColInv
<1> QED
  BY <1>3, <1>4, <1>5, <1>6, <1>7 DEF Running

\* The pass ends and refine takes the collected candidates.
LEMMA EndPassKeeps ==
  ASSUME Running, EndPass
  PROVE  Running'
<1>1. PassInv /\ CellsInv /\ StreamInv /\ CapInv /\ ColInv
  BY DEF Running
<1>2. /\ pc = "buckets" /\ at \in -1..NumBuckets /\ at # -1 /\ pc' = "refine"
      /\ tk' = EmptyBuffer(K, 0) /\ run' = SubSeq(col.item, 1, col.n)
      /\ UNCHANGED <<ix, q, tier, hi, at, cells, col, scanned, offered>>
  BY <1>1 DEF EndPass, PassInv, Bucket, NumBuckets
<1>3. PassInv'
  <2>1. tk'.n \in 0..K
    BY <1>2, SearchAssumption DEF EmptyBuffer
  <2> QED
    BY <1>1, <1>2, <2>1 DEF PassInv
<1>4. CellsInv'
  BY <1>2 DEF CellsInv
<1>5. run' \in Seq(Rows)
  <2>1. offered \in Seq(Rows) /\ Len(offered) \in Nat /\ CandK \in Nat \ {0}
    BY <1>1, SearchAssumption DEF StreamInv
  <2>2. /\ col.item \in [1..CandK -> Int] /\ col.n = AtMost(Len(offered), CandK)
        /\ \A i \in 1..CandK : i <= Len(offered) => col.item[i] \in ToSet(offered)
    BY <1>1 DEF ColInv, HoldsOffers
  <2>3. ToSet(offered) \subseteq Rows
    BY <2>1 DEF ToSet
  <2>4. /\ col.n \in Nat /\ col.n <= CandK
        /\ \A i \in 1..col.n : i \in 1..CandK /\ i <= Len(offered)
    BY <2>1, <2>2 DEF AtMost
  <2>5. \A i \in 1..col.n : col.item[i] \in Rows
    BY <2>2, <2>3, <2>4
  <2>6. col.item \in Seq(Int) /\ Len(col.item) = CandK
    BY <2>1, <2>2
  <2>7. SubSeq(col.item, 1, col.n) = [i \in 1..col.n |-> col.item[i]]
    BY <2>1, <2>4, <2>6
  <2>8. [i \in 1..col.n |-> col.item[i]] \in Seq(Rows)
    BY <2>4, <2>5
  <2> QED
    BY <1>2, <2>7, <2>8
<1>6. StreamInv'
  <2>1. Stream' = Stream /\ lo' = lo /\ Home' = Home
    BY <1>2 DEF Stream, lo, Home
  <2>2. \A b \in Bucket : \A g \in Cells : SeenCell(b, g) => SeenCell(b, g)'
    BY <1>2, <2>1 DEF SeenCell, Passed
  <2>3. scanned \in Nat /\ scanned' <= scanned /\ scanned' \in Nat
    BY <1>1, <1>2 DEF PassInv
  <2> QED
    BY <1>1, <1>2, <1>5, <2>1, <2>2, <2>3, StreamKept
<1>7. CapInv'
  BY <1>1, <1>2 DEF CapInv
<1>8. ColInv'
  BY <1>1, <1>2 DEF ColInv
<1> QED
  BY <1>3, <1>4, <1>6, <1>7, <1>8 DEF Running

\* refine considers the next candidate.
LEMMA RefineRowKeeps ==
  ASSUME Running, RefineRow
  PROVE  Running'
<1>1. PassInv /\ CellsInv /\ StreamInv /\ CapInv /\ ColInv
  BY DEF Running
<1>2. /\ pc = "refine" /\ run # <<>> /\ run' = Tail(run)
      /\ tk' = Consider(K, tk, dist2(q, RowCode(ix, Head(run))), Head(run))
      /\ UNCHANGED <<ix, q, pc, tier, hi, at, cells, col, scanned, offered>>
  BY DEF RefineRow
<1>3. PassInv'
  <2>1. tk.n \in 0..K /\ K \in Nat
    BY <1>1, SearchAssumption DEF PassInv
  <2>2. tk'.n = tk.n \/ tk'.n = CountAfter(K, tk)
    BY <1>2 DEF Consider
  <2>3. tk'.n \in 0..K
    BY <2>1, <2>2 DEF CountAfter
  <2> QED
    BY <1>1, <1>2, <2>3 DEF PassInv
<1>4. CellsInv'
  BY <1>2 DEF CellsInv
<1>5. StreamInv'
  <2>1. Stream' = Stream /\ lo' = lo /\ Home' = Home
    BY <1>2 DEF Stream, lo, Home
  <2>2. \A b \in Bucket : \A g \in Cells : SeenCell(b, g) => SeenCell(b, g)'
    BY <1>2, <2>1 DEF SeenCell, Passed
  <2>3. run' \in Seq(Rows)
    BY <1>1, <1>2, HeadAndTail DEF StreamInv
  <2>4. scanned \in Nat /\ scanned' <= scanned /\ scanned' \in Nat
    BY <1>1, <1>2 DEF PassInv
  <2> QED
    BY <1>1, <1>2, <2>1, <2>2, <2>3, <2>4, StreamKept
<1>6. CapInv'
  BY <1>1, <1>2 DEF CapInv
<1>7. ColInv'
  BY <1>1, <1>2 DEF ColInv
<1> QED
  BY <1>3, <1>4, <1>5, <1>6, <1>7 DEF Running

\* The votes select one of the knobs.
LEMMA VotesCounted ==
  ASSUME PassInv
  PROVE  highProbeForCount(fraudCount(tk)) \in HighProbes
<1> DEFINE frauds == {i \in 1..tk.n : isFraud(ix, tk.item[i])}
<1>1. tk.n \in 0..K /\ K \in Nat
  BY SearchAssumption DEF PassInv
<1>2. IsFiniteSet(1..tk.n) /\ Cardinality(1..tk.n) = tk.n
  <2>1. 1 \in Int /\ tk.n \in Int /\ tk.n >= 0
    BY <1>1
  <2>2. IsFiniteSet(1..tk.n) /\ Cardinality(1..tk.n) = IF 1 > tk.n THEN 0 ELSE tk.n - 1 + 1
    BY <2>1, FS_Interval
  <2> QED
    BY <2>1, <2>2
<1>3. Cardinality(frauds) \in Nat /\ Cardinality(frauds) <= tk.n
  <2>1. frauds \subseteq 1..tk.n
    OBVIOUS
  <2> HIDE DEF frauds
  <2> QED
    BY <1>2, <2>1, FS_Subset, FS_CardinalityType
<1>4. fraudCount(tk) \in 0..K
  BY <1>1, <1>3 DEF fraudCount
<1>5. ix.nprobeHigh \in HighProbes /\ ix.nprobeHighByCount \in [0..K -> HighProbes]
  BY DEF PassInv, UsableIndex
<1> QED
  BY <1>4, <1>5 DEF highProbeForCount

\* The second pass begins: every cell of the first counts as seen.
LEMMA EscalateKeeps ==
  ASSUME Running, Escalate
  PROVE  Running'
<1>1. PassInv /\ CellsInv /\ StreamInv /\ CapInv /\ ColInv
  BY DEF Running
<1> DEFINE high == highProbeForCount(fraudCount(tk))
<1>2. /\ pc = "refine" /\ run = <<>> /\ tier = "cheap" /\ high > ix.nprobe
      /\ tier' = "high" /\ hi' = high
      /\ pc' = "buckets" /\ at' = -1 /\ scanned' = 0
      /\ UNCHANGED <<ix, q, cells, run, col, tk, offered>>
  BY DEF Escalate, Escalates
<1>3. high \in HighProbes /\ high \in 0..NList /\ ix.nprobe \in Nat /\ NList \in Nat
  BY <1>1, VotesCounted, Params DEF HighProbes, PassInv, UsableIndex
<1> HIDE DEF high
<1>4. PassInv'
  <2>1. ix.nprobe < high
    BY <1>2, <1>3
  <2>2. at' \in -1..NumBuckets /\ scanned' \in Nat
    BY <1>2 DEF NumBuckets
  <2>3. /\ UsableIndex(ix)' /\ q' \in Vector
    BY <1>1, <1>2 DEF PassInv
  <2> QED
    BY <1>1, <1>2, <1>3, <2>1, <2>2, <2>3 DEF PassInv
<1>5. CellsInv'
  BY <1>2 DEF CellsInv
<1>6. StreamInv'
  <2>1. Stream' = Stream
    BY <1>2 DEF Stream
  <2>2. hi = ix.nprobe /\ lo = 0
    BY <1>1, <1>2 DEF PassInv, lo
  <2>3. \A b \in Bucket : \A g \in Cells : SeenCell(b, g) => SeenCell(b, g)'
    BY <1>2, <2>2 DEF SeenCell
  <2>4. run' \in Seq(Rows) /\ scanned \in Nat /\ scanned' <= scanned /\ scanned' \in Nat
    BY <1>1, <1>2 DEF StreamInv, PassInv
  <2> QED
    BY <1>1, <1>2, <2>1, <2>3, <2>4, StreamKept
<1>7. CapInv'
  BY <1>2 DEF CapInv
<1>8. ColInv'
  BY <1>1, <1>2 DEF ColInv
<1> QED
  BY <1>4, <1>5, <1>6, <1>7, <1>8 DEF Running

\* The query is answered.
LEMMA AnswerKeeps ==
  ASSUME Running, Answer
  PROVE  Running'
<1>1. PassInv /\ CellsInv /\ StreamInv /\ CapInv /\ ColInv
  BY DEF Running
<1>2. /\ pc = "refine" /\ pc' = "done"
      /\ UNCHANGED <<ix, q, tier, hi, at, cells, run, col, scanned, tk, offered>>
  BY DEF Answer
<1>3. PassInv'
  BY <1>1, <1>2 DEF PassInv
<1>4. CellsInv'
  BY <1>2 DEF CellsInv
<1>5. StreamInv'
  <2>1. Stream' = Stream /\ lo' = lo /\ Home' = Home
    BY <1>2 DEF Stream, lo, Home
  <2>2. \A b \in Bucket : \A g \in Cells : SeenCell(b, g) => SeenCell(b, g)'
    BY <1>2, <2>1 DEF SeenCell, Passed
  <2>3. run' \in Seq(Rows) /\ scanned \in Nat /\ scanned' <= scanned /\ scanned' \in Nat
    BY <1>1, <1>2 DEF StreamInv, PassInv
  <2> QED
    BY <1>1, <1>2, <2>1, <2>2, <2>3, StreamKept
<1>6. CapInv'
  BY <1>1, <1>2 DEF CapInv
<1>7. ColInv'
  BY <1>1, <1>2 DEF ColInv
<1> QED
  BY <1>3, <1>4, <1>5, <1>6, <1>7 DEF Running

-----------------------------------------------------------------------------
\* The index the query is given.

\* What Build leaves in an index.
BuiltArrays(x) ==
  /\ ArraysInRange(x)
  /\ x.n \in Nat /\ x.nlist = NList
  /\ x.cellStart \in [0..(NumBuckets * NList) -> 0..x.n]
  /\ \A g, h \in 0..(NumBuckets * NList) : g <= h => x.cellStart[g] <= x.cellStart[h]
  /\ \A g \in Cells : CentroidAt(x, g) \in [Dim -> Code]
  /\ \A r \in 0..(x.n - 1) : RowCode(x, r) \in [Dim -> Code]

\* A sequence of bounds that never falls from one to the next never falls.
LEMMA Rising ==
  ASSUME NEW n \in Nat, NEW f \in [0..n -> Int], \A g \in 0..(n - 1) : f[g] <= f[g + 1]
  PROVE  \A g, h \in 0..n : g <= h => f[g] <= f[h]
<1> DEFINE P == {h \in 0..n : \A g \in 0..n : g <= h => f[g] <= f[h]}
<1>1. 0 \in P
  <2>1. \A g \in 0..n : g <= 0 => g = 0
    OBVIOUS
  <2> QED
    BY <2>1
<1>2. ASSUME NEW h \in 1..n, h - 1 \in P
      PROVE  h \in P
  <2>1. h - 1 \in 0..(n - 1) /\ (h - 1) + 1 = h /\ h \in 0..n /\ h - 1 \in 0..n
    OBVIOUS
  <2>2. f[h - 1] <= f[h]
    BY <2>1
  <2>3. \A g \in 0..n : f[g] \in Int
    OBVIOUS
  <2>4. ASSUME NEW g \in 0..n, g <= h
        PROVE  f[g] <= f[h]
    <3>1. CASE g = h
      BY <2>3, <3>1
    <3>2. CASE g <= h - 1
      <4>1. f[g] <= f[h - 1]
        BY <1>2, <3>2
      <4> QED
        BY <2>1, <2>2, <2>3, <4>1
    <3> QED
      BY <2>4, <3>1, <3>2
  <2> QED
    BY <2>1, <2>4
<1>3. P = 0..n
  <2>1. P \in SUBSET (0..n)
    OBVIOUS
  <2> HIDE DEF P
  <2> QED
    BY <1>1, <1>2, <2>1, LoopInduction
<1> QED
  BY <1>3

\* The index Build returns has them.
LEMMA BuiltHasArrays ==
  ASSUME IInv, phase = "built"
  PROVE  BuiltArrays(BuiltIndex)
<1> DEFINE x == BuiltIndex
           n == Len(placed)
           N == NumBuckets * NList
<1>1. /\ bk = NumBuckets /\ Cells = 0..(bk * NList - 1) /\ x.n = n /\ x.nlist = NList
      /\ x.bucketStart = BucketStart
      /\ \A g \in Cells : x.cellStart[g] = First(g) /\ x.cellStart[g + 1] = First(g + 1)
  BY IndexFields
<1>2. n \in Nat /\ Bounds(BucketStart, n) /\ placed \in Seq(Entry)
  BY RowBlocks DEF IInv, RowsDone
<1>3. N \in Nat /\ N = bk * NList /\ Cells = 0..(N - 1)
  BY <1>1, Params DEF NumBuckets, Cells
<1>4. BucketStart \in [0..NumBuckets -> 0..n]
  <2>1. PICK f : f = BucketStart
    OBVIOUS
  <2> HIDE DEF n
  <2>2. f \in [0..16 -> Nat] /\ f[16] = n /\ \A c, d \in 0..16 : c <= d => f[c] <= f[d]
    BY <1>2, <2>1 DEF Bounds, NumBuckets
  <2>3. \A b \in 0..16 : f[b] \in 0..n
    <3>1. \A b \in 0..16 : f[b] \in Nat /\ f[b] <= n
      BY <2>2
    <3>2. n \in Nat
      BY <1>2
    <3> QED
      BY <3>1, <3>2
  <2> QED
    BY <2>1, <2>2, <2>3 DEF NumBuckets
<1>5. \A g \in 0..N : x.cellStart[g] \in 0..n
  <2> SUFFICES ASSUME NEW g \in 0..N
               PROVE  x.cellStart[g] \in 0..n
    OBVIOUS
  <2>1. CASE g = N
    <3>1. x.cellStart[g] = n
      BY <1>3, <2>1 DEF BuiltIndex
    <3> QED
      BY <1>2, <3>1
  <2>2. CASE g # N
    <3>1. g \in Cells /\ g \in 0..(bk * NList - 1)
      BY <1>3, <2>2
    <3>2. /\ First(g) \in Int /\ First(g + 1) \in Int /\ g \div NList \in Bucket
          /\ BucketStart[g \div NList] <= First(g) /\ First(g) <= First(g + 1)
          /\ First(g + 1) <= BucketStart[(g \div NList) + 1]
      BY <3>1, CellBounds
    <3>3. \A b \in Bucket : BucketStart[b] \in 0..n /\ BucketStart[b + 1] \in 0..n
      <4>1. \A b \in Bucket : b \in 0..NumBuckets /\ b + 1 \in 0..NumBuckets
        BY DEF Bucket, NumBuckets
      <4> HIDE DEF n
      <4> QED
        BY <1>4, <4>1
    <3>4. PICK b \in Bucket : b = g \div NList
      BY <3>2
    <3>5. First(g) \in 0..n
      BY <1>2, <3>2, <3>3, <3>4
    <3> QED
      BY <1>1, <3>1, <3>5
  <2> QED
    BY <2>1, <2>2
<1>6. x.cellStart \in [0..N -> 0..n]
  <2>1. x.cellStart = [g \in 0..N |-> x.cellStart[g]]
    BY DEF BuiltIndex
  <2> HIDE DEF x, N, n
  <2> QED
    BY <1>5, <2>1
<1>7. \A g, h \in 0..N : g <= h => x.cellStart[g] <= x.cellStart[h]
  <2>1. \A g \in 0..(N - 1) : x.cellStart[g] <= x.cellStart[g + 1]
    <3>1. \A g \in 0..(bk * NList - 1) : First(g) <= First(g + 1)
      BY CellBounds
    <3> HIDE DEF x, N, n
    <3> QED
      BY <1>1, <1>3, <3>1
  <2>2. x.cellStart \in [0..N -> Int]
    <3> HIDE DEF x, N, n
    <3>1. \A y \in 0..n : y \in Int
      OBVIOUS
    <3> QED
      BY <1>6, <3>1, Zenon
  <2> HIDE DEF x, N, n
  <2> QED
    BY <1>3, <2>1, <2>2, Rising
<1>8. \A g \in Cells : CentroidAt(x, g) \in [Dim -> Code]
  BY CentroidsReadBack
<1>9. \A r \in 0..(n - 1) : placed[r + 1].code \in [Dim -> Code]
  <2>1. \A r \in 0..(n - 1) : placed[r + 1] \in Entry
    BY <1>2
  <2> QED
    BY <2>1 DEF Entry
<1>10. \A r \in 0..(n - 1) : RowCode(x, r) \in [Dim -> Code]
  BY <1>9, RowsReadBack
<1>11. x.data \in [0..(n * Dims + SimdTailPad - 1) -> Code]
  <2>1. PICK code : code = [r \in 0..(n - 1) |-> placed[r + 1].code]
    OBVIOUS
  <2>2. code \in [0..(n - 1) -> [Dim -> Code]]
    BY <1>9, <2>1
  <2>3. x.data = Transposed(BucketStart, n, code)
    BY <2>1 DEF BuiltIndex
  <2> HIDE DEF x, n
  <2>4. Bounds(BucketStart, n)
    BY <1>2
  <2>5. Transposed(BucketStart, n, code) \in [0..(n * Dims + SimdTailPad - 1) -> Code]
    BY <2>2, <2>4, TransposedType
  <2> QED
    BY <2>3, <2>5, Zenon
<1>12. x.centroidsI16 \in [0..(N * Dims + SimdTailPad - 1) -> Code]
  <2>1. /\ Bounds(CentroidStarts(NList), N) /\ CentroidTable \in [0..(N - 1) -> [Dim -> Code]]
        /\ x.centroidsI16 = Transposed(CentroidStarts(NList), N, CentroidTable)
    BY CentroidBlocks
  <2> HIDE DEF x, N
  <2> QED
    BY <2>1, TransposedType
<1>13. ArraysInRange(x)
  <2>1. NumBuckets * x.nlist = N
    BY <1>1
  <2> HIDE DEF x, N
  <2> QED
    BY <1>1, <1>4, <1>11, <1>12, <2>1, Zenon DEF ArraysInRange
<1>14. x.n \in Nat /\ x.nlist = NList
  BY <1>1, <1>2
<1>15. /\ x.cellStart \in [0..N -> 0..x.n]
       /\ \A r \in 0..(x.n - 1) : RowCode(x, r) \in [Dim -> Code]
  BY <1>1, <1>6, <1>10
<1> HIDE DEF x
<1>16. BuiltArrays(x)
  BY <1>7, <1>8, <1>13, <1>14, <1>15 DEF BuiltArrays
<1> QED
  BY <1>16 DEF x

\* Save and LoadIndex keep them.
LEMMA ReloadedHasArrays ==
  ASSUME IInv, phase = "built", NEW x \in {BuiltIndex, Reloaded(BuiltIndex)}
  PROVE  BuiltArrays(x) /\ x.nprobe \in 1..NList
<1> DEFINE y == BuiltIndex
<1>1. BuiltArrays(y) /\ NList \in Nat \ {0} /\ MaxProbe \in Nat \ {0}
  BY BuiltHasArrays, Params, GridAssumption
<1>2. y.nprobe = AtMost(NList, MaxProbe) /\ y.nlist = NList
  BY DEF BuiltIndex
<1>3. y.nprobe \in 1..NList
  BY <1>1, <1>2 DEF AtMost
<1>4. CASE x = y
  BY <1>1, <1>3, <1>4
<1>5. CASE x = Reloaded(y)
  <2>1. /\ x.n = y.n /\ x.nlist = y.nlist /\ x.data = y.data /\ x.bucketStart = y.bucketStart
        /\ x.centroidsI16 = y.centroidsI16 /\ x.cellStart = y.cellStart /\ x.nprobe = y.nlist
    BY <1>5 DEF Reloaded, BuiltIndex
  <2> HIDE DEF y
  <2>2. ArraysInRange(x)
    BY <1>1, <2>1 DEF ArraysInRange, BuiltArrays
  <2>3. /\ \A g : CentroidAt(x, g) = CentroidAt(y, g)
        /\ \A r : RowCode(x, r) = RowCode(y, r)
    BY <2>1 DEF CentroidAt, RowCode
  <2>4. BuiltArrays(x)
    BY <1>1, <2>1, <2>2, <2>3 DEF BuiltArrays
  <2> QED
    BY <1>1, <1>2, <2>1, <2>4
<1> QED
  BY <1>4, <1>5

\* An index with the arrays of x and any knobs the setters can leave.
Tunable(x) ==
  [n : {x.n}, nlist : {NList}, nprobe : 1..NList, data : {x.data},
   fraud : {x.fraud}, bucketStart : {x.bucketStart}, centroidsI16 : {x.centroidsI16},
   cellStart : {x.cellStart},
   maxScan : Nat, nprobeHigh : HighProbes, nprobeHighByCount : [0..K -> HighProbes],
   triggerRadius : Int, triggerMargin : Int]

\* A probe count is cut to what a bucket and the probe arrays hold.
LEMMA ClampedProbeType ==
  ASSUME NEW x, x.nlist = NList, NEW np \in Int, np > 0
  PROVE  ClampedProbe(x, np) \in 1..NList /\ ClampedProbe(x, np) \in HighProbes
BY Params, GridAssumption DEF ClampedProbe, HighProbes

\* Each setter keeps its knob in range and the rest as it was.
LEMMA SettersKeep ==
  ASSUME NEW x, NEW y \in Tunable(x), NEW v \in Int, NEW c
  PROVE  /\ SetNProbe(y, v) \in Tunable(x) /\ SetMaxScan(y, v) \in Tunable(x)
         /\ SetTriggerRadius(y, v) \in Tunable(x) /\ SetTriggerMargin(y, v) \in Tunable(x)
         /\ SetNProbeHigh(y, v) \in Tunable(x) /\ SetNProbeHighForCount(y, c, v) \in Tunable(x)
<1>1. y.nlist = NList /\ 0 \in HighProbes
  BY Params, GridAssumption DEF Tunable, HighProbes
<1>2. v > 0 => ClampedProbe(y, v) \in 1..NList /\ ClampedProbe(y, v) \in HighProbes
  BY <1>1, ClampedProbeType
<1>3. SetNProbe(y, v) \in Tunable(x)
  BY <1>2 DEF SetNProbe, Tunable
<1>4. SetMaxScan(y, v) \in Tunable(x)
  BY DEF SetMaxScan, Tunable
<1>5. SetTriggerRadius(y, v) \in Tunable(x) /\ SetTriggerMargin(y, v) \in Tunable(x)
  BY DEF SetTriggerRadius, SetTriggerMargin, Tunable
<1> DEFINE high == IF v <= 0 THEN 0 ELSE ClampedProbe(y, v)
<1>6. high \in HighProbes
  BY <1>1, <1>2
<1>7. SetNProbeHigh(y, v) = [y EXCEPT !.nprobeHigh = high, !.nprobeHighByCount = [k \in 0..K |-> high]]
  BY DEF SetNProbeHigh
<1>8. SetNProbeHighForCount(y, c, v) = IF c \notin 0..K THEN y ELSE [y EXCEPT !.nprobeHighByCount[c] = high]
  BY DEF SetNProbeHighForCount
<1> HIDE DEF high
<1>9. SetNProbeHigh(y, v) \in Tunable(x)
  BY <1>6, <1>7, ZenonT(60) DEF Tunable
<1>10. SetNProbeHighForCount(y, c, v) \in Tunable(x)
  <2>1. CASE c \notin 0..K
    BY <1>8, <2>1
  <2>2. CASE c \in 0..K
    <3> DEFINE f == [y.nprobeHighByCount EXCEPT ![c] = high]
    <3>1. y.nprobeHighByCount \in [0..K -> HighProbes]
      BY DEF Tunable
    <3>2. f \in [0..K -> HighProbes]
      BY <1>6, <3>1
    <3>3. SetNProbeHighForCount(y, c, v) = [y EXCEPT !.nprobeHighByCount = f]
      BY <1>8, <2>2
    <3> HIDE DEF f
    <3> QED
      BY <3>2, <3>3 DEF Tunable
  <2> QED
    BY <2>1, <2>2
<1> QED
  BY <1>3, <1>4, <1>5, <1>9, <1>10

\* tune turns one knob after the other.
LEMMA TunedIsTunable ==
  ASSUME NEW x, BuiltArrays(x), x.nprobe \in 1..NList, NEW env \in Knobs
  PROVE  Tuned(x, env) \in Tunable(x)
<1>1. /\ env.nprobe \in Int /\ env.maxScan \in Int /\ env.high \in Int /\ env.below \in Int
      /\ env.boundary \in Int /\ env.above \in Int /\ env.margin \in Int /\ env.radius \in Int
  BY KnobsAssumption
<1> DEFINE a0 == Untuned(x)
           a1 == SetNProbe(a0, env.nprobe)
           a2 == SetMaxScan(a1, env.maxScan)
           a3 == SetTriggerRadius(a2, env.radius)
           a4 == SetTriggerMargin(a3, env.margin)
           a5 == SetNProbeHigh(a4, env.high)
           a6 == SetNProbeHighForCount(a5, Deny - 1, env.below)
           a7 == SetNProbeHighForCount(a6, Deny, env.boundary)
           a8 == SetNProbeHighForCount(a7, Deny + 1, env.above)
<1>2. Tuned(x, env) = a8
  BY DEF Tuned
<1>3. a0 \in Tunable(x)
  <2>1. 0 \in HighProbes
    BY Params, GridAssumption DEF HighProbes
  <2>2. x.nlist = NList
    BY DEF BuiltArrays
  <2> QED
    BY <2>1, <2>2 DEF Untuned, Tunable
<1> HIDE DEF a0
<1>4. a1 \in Tunable(x)
  BY <1>1, <1>3, SettersKeep
<1> HIDE DEF a1
<1>5. a2 \in Tunable(x)
  BY <1>1, <1>4, SettersKeep
<1> HIDE DEF a2
<1>6. a3 \in Tunable(x)
  BY <1>1, <1>5, SettersKeep
<1> HIDE DEF a3
<1>7. a4 \in Tunable(x)
  BY <1>1, <1>6, SettersKeep
<1> HIDE DEF a4
<1>8. a5 \in Tunable(x)
  BY <1>1, <1>7, SettersKeep
<1> HIDE DEF a5
<1>9. a6 \in Tunable(x)
  BY <1>1, <1>8, SettersKeep
<1> HIDE DEF a6
<1>10. a7 \in Tunable(x)
  BY <1>1, <1>9, SettersKeep
<1> HIDE DEF a7
<1>11. a8 \in Tunable(x)
  BY <1>1, <1>10, SettersKeep
<1> QED
  BY <1>2, <1>11

\* tune leaves an index a query can use, whatever the environment says.
LEMMA TunedIsUsable ==
  ASSUME NEW x, BuiltArrays(x), x.nprobe \in 1..NList, NEW env \in Knobs
  PROVE  UsableIndex(Tuned(x, env))
<1>1. PICK y \in Tunable(x) : y = Tuned(x, env)
  BY TunedIsTunable
<1>2. /\ y.n = x.n /\ y.nlist = NList /\ x.nlist = NList /\ y.data = x.data
       /\ y.bucketStart = x.bucketStart
       /\ y.centroidsI16 = x.centroidsI16 /\ y.cellStart = x.cellStart /\ y.nprobe \in 1..NList
       /\ y.maxScan \in Nat /\ y.nprobeHigh \in HighProbes
       /\ y.nprobeHighByCount \in [0..K -> HighProbes]
  BY DEF Tunable, BuiltArrays
<1>3. ArraysInRange(y)
  BY <1>2 DEF ArraysInRange, BuiltArrays
<1>4. /\ \A g : CentroidAt(y, g) = CentroidAt(x, g)
       /\ \A r : RowCode(y, r) = RowCode(x, r)
  BY <1>2 DEF CentroidAt, RowCode
<1>5. UsableIndex(y)
  BY <1>2, <1>3, <1>4 DEF UsableIndex, BuiltArrays
<1> QED
  BY <1>1, <1>5

-----------------------------------------------------------------------------
\* The invariant of the build and the query together.

\* A query begins on a complete index.
LEMMA AskKeeps ==
  ASSUME IInv, SearchInv, NEW env \in Knobs, NEW v \in Queries, AskBuilt(env, v)
  PROVE  SearchInv'
<1>1. phase = "built" /\ pc = "idle"
  BY DEF AskBuilt
<1>2. SearchInit
  BY <1>1 DEF SearchInv, Running, PassInv
<1>3. PICK x \in {BuiltIndex, Reloaded(BuiltIndex)} : Ask(Tuned(x, env), v)
  BY DEF AskBuilt
<1>4. PICK y : y = Tuned(x, env)
  OBVIOUS
<1>5. UsableIndex(y)
  BY <1>1, <1>4, ReloadedHasArrays, TunedIsUsable
<1>6. v \in Vector
  BY QueriesAssumption DEF Vector
<1>7. /\ ix' = y /\ q' = v
      /\ (y.n = 0 /\ pc' = "done" /\ hi' = hi) \/ (y.n # 0 /\ pc' = "buckets" /\ hi' = y.nprobe)
      /\ UNCHANGED <<tier, at, cells, run, col, scanned, tk, offered, pruned>>
  BY <1>3, <1>4 DEF Ask
<1>8. /\ tier = "cheap" /\ hi = 0 /\ at = -1 /\ cells = <<>> /\ run = <<>>
      /\ col = EmptyBuffer(CandK, 0) /\ tk = EmptyBuffer(K, 0)
      /\ scanned = 0 /\ offered = <<>> /\ pruned = {}
  BY <1>2 DEF SearchInit
<1>9. CASE y.n = 0
  <2>1. Untouched'
    BY <1>7, <1>8, <1>9, Zenon DEF Untouched
  <2> QED
    BY <1>5, <1>6, <1>7, <1>9, <2>1 DEF SearchInv
<1>10. CASE y.n # 0
  <2>1. /\ ix' = y /\ q' = v /\ pc' = "buckets" /\ hi' = y.nprobe
        /\ tier' = "cheap" /\ at' = -1 /\ cells' = <<>> /\ run' = <<>>
        /\ col' = EmptyBuffer(CandK, 0) /\ tk' = EmptyBuffer(K, 0)
        /\ scanned' = 0 /\ offered' = <<>>
    BY <1>7, <1>8, <1>10
  <2>2. PassInv'
    <3>1. y.n \in Nat /\ y.n > 0 /\ y.nprobe \in 0..NList
      BY <1>5, <1>10, Params DEF UsableIndex
    <3>2. tk'.n \in 0..K
      BY <2>1, SearchAssumption DEF EmptyBuffer
    <3>3. at' \in -1..NumBuckets /\ scanned' \in Nat
      BY <2>1 DEF NumBuckets
    <3>4. UsableIndex(ix)' /\ q' \in Vector
      BY <1>5, <1>6, <2>1
    <3> QED
      BY <2>1, <3>1, <3>2, <3>3, <3>4 DEF PassInv
  <2>3. CellsInv'
    BY <2>1 DEF CellsInv
  <2>4. StreamInv'
    <3>1. Stream' = <<>>
      BY <2>1 DEF Stream
    <3>2. Distinct(<<>>) /\ ToSet(<<>>) = {} /\ Len(<<>>) = 0
      BY DEF Distinct, ToSet
    <3> QED
      BY <2>1, <3>1, <3>2 DEF StreamInv
  <2>5. CapInv'
    BY <2>1 DEF CapInv
  <2>6. ColInv'
    <3>1. CandK \in Nat \ {0} /\ Inf \in Int
      BY SearchAssumption, InfAssumption
    <3>2. HoldsOffers(CandK, EmptyBuffer(CandK, 0), 0, {}) /\ EmptyBuffer(CandK, 0).n = AtMost(0, CandK)
      <4>1. HoldsOffers(CandK, EmptyBuffer(CandK, 0), 0, {})
        BY <3>1, EmptyHolds
      <4>2. EmptyBuffer(CandK, 0).n = 0 /\ AtMost(0, CandK) = 0
        BY <3>1 DEF EmptyBuffer, AtMost
      <4> QED
        BY <4>1, <4>2
    <3>3. ToSet(<<>>) = {} /\ Len(<<>>) = 0
      BY DEF ToSet
    <3> QED
      BY <2>1, <3>2, <3>3 DEF ColInv
  <2> QED
    BY <2>2, <2>3, <2>4, <2>5, <2>6 DEF SearchInv, Running
<1> QED
  BY <1>9, <1>10

\* Only a query under way takes a step.
LEMMA StepRuns ==
  ASSUME SearchInv, SearchNext
  PROVE  Running
<1>1. CASE SearchInit
  BY <1>1 DEF SearchInit, SearchNext, OpenHome, SkipHome, PruneBucket, OpenBucket, OpenCell,
              CollectRow, CloseBucket, EndPass, RefineRow, Escalate, Answer
<1>2. CASE pc = "done"
  BY <1>2 DEF SearchNext, OpenHome, SkipHome, PruneBucket, OpenBucket, OpenCell,
              CollectRow, CloseBucket, EndPass, RefineRow, Escalate, Answer
<1> QED
  BY <1>1, <1>2 DEF SearchInv

\* Each step of a query keeps its invariant.
LEMMA SearchStepKeeps ==
  ASSUME SearchInv, SearchNext
  PROVE  SearchInv'
<1>1. Running
  BY StepRuns
<1>2. Running'
  BY <1>1, OpenHomeKeeps, PassOverKeeps, OpenBucketKeeps, OpenCellKeeps, CollectRowKeeps,
     CloseBucketKeeps, EndPassKeeps, RefineRowKeeps, EscalateKeeps, AnswerKeeps DEF SearchNext
<1> QED
  BY <1>2 DEF SearchInv

\* What no step writes.
LEMMA SearchKept ==
  ASSUME SearchInv, UNCHANGED searchVars
  PROVE  SearchInv'
<1>1. UNCHANGED <<ix, q, pc, tier, hi, at, cells, run, col, scanned, tk, offered, pruned>>
  BY DEF searchVars
<1>2. CASE SearchInit
  <2>1. SearchInit'
    BY <1>1, <1>2 DEF SearchInit
  <2> QED
    BY <2>1 DEF SearchInv
<1>3. CASE pc = "done" /\ UsableIndex(ix) /\ ix.n = 0 /\ q \in Vector /\ Untouched
  BY <1>1, <1>3 DEF SearchInv, Untouched
<1>4. CASE Running
  <2>1. PassInv' /\ CellsInv' /\ CapInv' /\ ColInv'
    BY <1>1, <1>4 DEF Running, PassInv, CellsInv, Open, Home, lo, CapInv, ColInv
  <2>2. StreamInv'
    BY <1>1, <1>4 DEF Running, StreamInv, Rows, Stream, Behind, SeenCell, Passed, Open, Home, lo
  <2> QED
    BY <2>1, <2>2 DEF SearchInv, Running
<1> QED
  BY <1>2, <1>3, <1>4 DEF SearchInv

\* The build goes on, a query begins or takes a step, or nothing happens.
LEMMA EngineInvariant == Spec => [](IInv /\ SearchInv)
<1>1. Init => IInv /\ SearchInv
  BY BuildInitInv DEF Init, SearchInv
<1>2. IInv /\ SearchInv /\ [Next]_vars => IInv' /\ SearchInv'
  <2> SUFFICES ASSUME IInv, SearchInv, [Next]_vars
               PROVE  IInv' /\ SearchInv'
    OBVIOUS
  <2>1. CASE BuildStep
    BY <2>1, BuildStepInv, SearchKept DEF BuildStep
  <2>2. CASE \E env \in Knobs, v \in Queries : AskBuilt(env, v)
    <3>1. SearchInv'
      BY <2>2, AskKeeps
    <3>2. UNCHANGED buildVars
      BY <2>2 DEF AskBuilt
    <3> QED
      BY <3>1, <3>2, BuildStepInv
  <2>3. CASE SearchStep
    BY <2>3, SearchStepKeeps, BuildStepInv DEF SearchStep
  <2>4. CASE UNCHANGED vars
    BY <2>4, SearchKept, BuildStepInv DEF vars
  <2> QED
    BY <2>1, <2>2, <2>3, <2>4 DEF Next
<1> QED
  BY <1>1, <1>2, PTL DEF Spec

-----------------------------------------------------------------------------
\* The theorems.

\* A sequence without repetitions has as many elements as places.
LEMMA DistinctCardinality ==
  ASSUME NEW S, NEW s \in Seq(S), Distinct(s)
  PROVE  IsFiniteSet(ToSet(s)) /\ Cardinality(ToSet(s)) = Len(s)
<1> DEFINE n == Len(s)
<1>1. n \in Nat /\ ToSet(s) = {s[i] : i \in 1..n} /\ s \in [1..n -> S]
  BY DEF ToSet
<1>2. \A i, j \in 1..n : s[i] = s[j] => i = j
  BY DEF Distinct
<1> HIDE DEF n
<1>3. s \in Bijection(1..n, ToSet(s))
  <2>1. s \in Injection(1..n, ToSet(s))
    <3>1. s \in [1..n -> ToSet(s)]
      BY <1>1
    <3> QED
      BY <1>2, <3>1 DEF Injection, IsInjective
  <2>2. s \in Surjection(1..n, ToSet(s))
    <3>1. s \in [1..n -> ToSet(s)] /\ \A e \in ToSet(s) : \E i \in 1..n : s[i] = e
      BY <1>1
    <3> QED
      BY <3>1 DEF Surjection
  <2> QED
    BY <2>1, <2>2 DEF Bijection
<1>4. IsFiniteSet(1..n) /\ Cardinality(1..n) = n
  <2>1. 1 \in Int /\ n \in Int /\ n >= 0
    BY <1>1
  <2>2. IsFiniteSet(1..n) /\ Cardinality(1..n) = IF 1 > n THEN 0 ELSE n - 1 + 1
    BY <2>1, FS_Interval
  <2> QED
    BY <2>1, <2>2
<1>5. ExistsBijection(1..n, ToSet(s))
  BY <1>3 DEF ExistsBijection
<1>6. IsFiniteSet(ToSet(s)) /\ Cardinality(ToSet(s)) = Cardinality(1..n)
  BY <1>4, <1>5, FS_Bijection
<1> QED
  BY <1>4, <1>6 DEF n

\* What was offered begins the stream, so it repeats nothing either, and no more
\* rows were scanned than there are.
LEMMA OfferedFacts ==
  ASSUME Running
  PROVE  offered \in Seq(Rows) /\ Distinct(offered) /\ scanned <= ix.n
<1>1. /\ PassInv /\ offered \in Seq(Rows) /\ run \in Seq(Rows) /\ Distinct(Stream)
      /\ scanned <= Len(Stream) /\ scanned \in Nat /\ ix.n \in Nat
  BY DEF Running, StreamInv, PassInv, UsableIndex
<1>2. Stream \in Seq(Rows) /\ Distinct(offered)
  <2>1. CASE Stream = offered
    BY <1>1, <2>1
  <2>2. CASE Stream = offered \o run
    <3>1. /\ Len(offered \o run) = Len(offered) + Len(run) /\ Len(run) \in Nat
          /\ Len(offered) \in Nat /\ offered \o run \in Seq(Rows)
          /\ \A i \in 1..Len(offered) : (offered \o run)[i] = offered[i]
      BY <1>1
    <3>2. \A i \in 1..Len(offered) : i \in 1..(Len(offered) + Len(run))
      BY <3>1
    <3>3. \A i, j \in 1..Len(offered) : i # j => (offered \o run)[i] # (offered \o run)[j]
      BY <1>1, <2>2, <3>1, <3>2 DEF Distinct
    <3>4. Distinct(offered)
      BY <3>1, <3>3 DEF Distinct
    <3> QED
      BY <2>2, <3>1, <3>4
  <2> QED
    BY <2>1, <2>2 DEF Stream
<1>3. Cardinality(ToSet(Stream)) = Len(Stream)
  BY <1>1, <1>2, DistinctCardinality
<1>4. IsFiniteSet(Rows) /\ Cardinality(Rows) = ix.n
  <2>1. 0 \in Int /\ ix.n - 1 \in Int
    BY <1>1
  <2>2. IsFiniteSet(0..(ix.n - 1)) /\ Cardinality(0..(ix.n - 1)) = IF 0 > ix.n - 1 THEN 0 ELSE ix.n - 1 - 0 + 1
    BY <2>1, FS_Interval
  <2> QED
    BY <1>1, <2>2 DEF Rows
<1>5. Cardinality(ToSet(Stream)) <= ix.n
  <2>1. ToSet(Stream) \subseteq Rows
    BY <1>2 DEF ToSet
  <2> QED
    BY <1>4, <2>1, FS_Subset
<1>6. Len(Stream) \in Nat
  BY <1>2
<1> QED
  BY <1>1, <1>2, <1>3, <1>5, <1>6

\* A row is fed to the collector once, whatever the probes, the pruning, the
\* row cap and the escalation: none is in two cells, no cell is in two buckets,
\* and the second pass takes up the ranks where the first one stopped.
THEOREM NoRowTwice == Spec => []NoRowOfferedTwice
<1>1. SearchInv => NoRowOfferedTwice
  <2> SUFFICES ASSUME SearchInv
               PROVE  Cardinality(ToSet(offered)) = Len(offered)
    BY DEF NoRowOfferedTwice
  <2>1. CASE Running
    BY <2>1, OfferedFacts, DistinctCardinality
  <2>2. CASE offered = <<>>
    <3>1. ToSet(<<>>) = {} /\ Len(<<>>) = 0
      BY DEF ToSet
    <3> QED
      BY <2>2, <3>1, FS_EmptySet
  <2> QED
    BY <2>1, <2>2 DEF SearchInv, SearchInit, Untouched
<1> QED
  BY <1>1, EngineInvariant, PTL

\* The cheap pass stops, over all the buckets, less than one cell past its cap.
THEOREM CapOvershoot == Spec => []CapOvershootsByLessThanACell
<1>1. SearchInv => CapOvershootsByLessThanACell
  <2> SUFFICES ASSUME SearchInv, tier = "cheap", ix.maxScan > 0, ix.n > 0
               PROVE  scanned < ix.maxScan + LargestCell(ix)
    BY DEF CapOvershootsByLessThanACell
  <2>1. Running
    BY DEF SearchInv, SearchInit, NoIndex
  <2>2. CapInv /\ UsableIndex(ix) /\ scanned \in Nat
    BY <2>1 DEF Running, PassInv
  <2>3. ix.maxScan \in Nat /\ LargestCell(ix) \in Nat
    BY <2>2, LargestCellFacts DEF UsableIndex
  <2> QED
    BY <2>2, <2>3 DEF CapInv
<1> QED
  BY <1>1, EngineInvariant, PTL

\* The cells of the open bucket fit into the probe arrays.
LEMMA OpenCellsFit ==
  ASSUME Running
  PROVE  Len(cells) <= MaxProbe
<1>1. PassInv /\ CellsInv
  BY DEF Running
<1>2. MaxProbe \in Nat
  BY GridAssumption
<1>3. CASE pc # "cells"
  <2>1. cells = <<>>
    BY <1>1, <1>3 DEF PassInv
  <2> QED
    BY <1>2, <2>1
<1>4. CASE pc = "cells"
  <2>1. /\ UsableIndex(ix) /\ q \in Vector /\ lo \in Nat /\ hi \in Nat /\ Open \in Bucket
        /\ cells \in Seq(Cells) /\ Distinct(cells) /\ ToSet(cells) \subseteq CellSet(ix, q, Open, lo, hi)
    BY <1>1, <1>4, PassBounds DEF CellsInv
  <2>2. PICK all : all = CellsInRange(ix, q, Open, lo, hi)
    OBVIOUS
  <2>3. all \in Seq(Block(Open)) /\ Distinct(all) /\ Len(all) \in Nat /\ Len(all) <= MaxProbe
    BY <2>1, <2>2, RangeCells, RangeLength
  <2>4. IsFiniteSet(ToSet(all)) /\ Cardinality(ToSet(all)) = Len(all)
    BY <2>3, DistinctCardinality
  <2>5. Cardinality(ToSet(cells)) = Len(cells) /\ Len(cells) \in Nat
    BY <2>1, DistinctCardinality
  <2>6. ToSet(cells) \in SUBSET ToSet(all)
    BY <2>1, <2>2 DEF CellSet
  <2>7. Cardinality(ToSet(cells)) <= Cardinality(ToSet(all))
    BY <2>4, <2>6, FS_Subset
  <2> QED
    BY <1>2, <2>3, <2>4, <2>5, <2>7
<1> QED
  BY <1>3, <1>4

\* In every state of a query: offsets within the rows, codes on the grid, cells
\* and rows the index has, the buffers and the open bucket's cells within their
\* capacity.
THEOREM QueryTypeCorrect == Spec => []SearchTypeOK
<1>1. SearchInit => SearchTypeOK
  <2> SUFFICES ASSUME SearchInit
               PROVE  SearchTypeOK
    OBVIOUS
  <2>1. /\ ix = NoIndex /\ q = [d \in Dim |-> 0]
        /\ pc = "idle" /\ tier = "cheap" /\ hi = 0 /\ at = -1 /\ cells = <<>> /\ run = <<>>
        /\ col = EmptyBuffer(CandK, 0) /\ tk = EmptyBuffer(K, 0)
        /\ scanned = 0 /\ offered = <<>> /\ pruned = {}
    BY DEF SearchInit
  <2>2. /\ ix.n = 0 /\ ix.nlist = 1 /\ ix.nprobe = 1
        /\ ix.cellStart \in [0..NumBuckets -> 0..0] /\ ix.bucketStart \in [0..NumBuckets -> 0..0]
        /\ ix.data = [a \in 0..(SimdTailPad - 1) |-> 0]
        /\ ix.centroidsI16 = [a \in 0..(NumBuckets * Dims + SimdTailPad - 1) |-> 0]
    BY <2>1 DEF NoIndex
  <2>3. 0 \in Code /\ 0 \in Value
    BY ScaleNat DEF Code, MaxCode, Value
  <2>4. ix.data \in [0..(ix.n * Dims + SimdTailPad - 1) -> Code]
    BY <2>2, <2>3, LayoutAssumption DEF Dims
  <2>5. /\ ix.centroidsI16 \in [0..(NumBuckets * ix.nlist * Dims + SimdTailPad - 1) -> Code]
        /\ ix.cellStart \in [0..(NumBuckets * ix.nlist) -> 0..ix.n]
        /\ ix.bucketStart \in [0..NumBuckets -> 0..ix.n]
    BY <2>2, <2>3, LayoutAssumption DEF Dims, NumBuckets
  <2>6. ix.nprobe \in 1..ix.nlist /\ q \in [Dim -> Value] /\ hi \in 0..ix.nlist
    BY <2>1, <2>2, <2>3
  <2>7. /\ at \in -1..NumBuckets /\ scanned \in 0..ix.n /\ pruned \subseteq Bucket
        /\ cells \in Seq(0..(NumBuckets * ix.nlist - 1)) /\ run \in Seq(0..(ix.n - 1))
        /\ offered \in Seq(0..(ix.n - 1))
    BY <2>1, <2>2 DEF NumBuckets
  <2>9. Len(cells) <= MaxProbe
    BY <2>1, GridAssumption
  <2>8. col.n \in 0..CandK /\ tk.n \in 0..K
    BY <2>1, SearchAssumption DEF EmptyBuffer
  <2> QED
    BY <2>1, <2>4, <2>5, <2>6, <2>7, <2>8, <2>9 DEF SearchTypeOK
<1>2. ASSUME UsableIndex(ix), q \in Vector, pruned \subseteq Bucket,
             pc \in {"idle", "buckets", "cells", "refine", "done"}, tier \in {"cheap", "high"},
             hi \in 0..NList, at \in -1..NumBuckets,
             cells \in Seq(Cells), Len(cells) <= MaxProbe, run \in Seq(Rows), offered \in Seq(Rows),
             col.n \in 0..CandK, tk.n \in 0..K, scanned \in 0..ix.n
      PROVE  SearchTypeOK
  <2>1. /\ ArraysInRange(ix) /\ ix.nlist = NList /\ ix.nprobe \in 1..NList
        /\ ix.cellStart \in [0..(NumBuckets * NList) -> 0..ix.n]
    BY <1>2 DEF UsableIndex
  <2> QED
    BY <1>2, <2>1, Zenon DEF SearchTypeOK, ArraysInRange, Vector, Cells, Rows
<1>3. SearchInv /\ pruned \subseteq Bucket => SearchTypeOK
  <2> SUFFICES ASSUME SearchInv, pruned \subseteq Bucket
               PROVE  SearchTypeOK
    OBVIOUS
  <2>1. CASE pc = "done" /\ UsableIndex(ix) /\ ix.n = 0 /\ q \in Vector /\ Untouched
    <3>1. /\ tier = "cheap" /\ hi = 0 /\ at = -1 /\ cells = <<>> /\ run = <<>>
          /\ col = EmptyBuffer(CandK, 0) /\ tk = EmptyBuffer(K, 0) /\ scanned = 0 /\ offered = <<>>
      BY <2>1 DEF Untouched
    <3>2. col.n \in 0..CandK /\ tk.n \in 0..K
      BY <3>1, SearchAssumption DEF EmptyBuffer
    <3>3. hi \in 0..NList /\ at \in -1..NumBuckets /\ scanned \in 0..ix.n
      BY <2>1, <3>1, Params DEF NumBuckets
    <3>4. cells \in Seq(Cells) /\ Len(cells) <= MaxProbe /\ run \in Seq(Rows) /\ offered \in Seq(Rows)
      BY <3>1, GridAssumption
    <3> QED
      BY <1>2, <2>1, <3>1, <3>2, <3>3, <3>4
  <2>2. CASE Running
    <3>1. PassInv /\ CellsInv /\ StreamInv /\ ColInv
      BY <2>2 DEF Running
    <3>2. cells \in Seq(Cells)
      <4>1. pc # "cells" => cells = <<>>
        BY <3>1 DEF PassInv
      <4>2. <<>> \in Seq(Cells)
        OBVIOUS
      <4> QED
        BY <3>1, <4>1, <4>2 DEF CellsInv
    <3>3. col.n \in 0..CandK
      <4>1. col.n = AtMost(Len(offered), CandK) /\ Len(offered) \in Nat /\ CandK \in Nat
        BY <3>1, SearchAssumption DEF ColInv, StreamInv
      <4> QED
        BY <4>1 DEF AtMost
    <3>4. scanned \in 0..ix.n
      <4>1. scanned \in Nat /\ ix.n \in Nat /\ scanned <= ix.n
        BY <2>2, <3>1, OfferedFacts DEF PassInv, UsableIndex
      <4> QED
        BY <4>1
    <3>5. run \in Seq(Rows) /\ offered \in Seq(Rows)
      BY <3>1 DEF StreamInv
    <3>6. Len(cells) <= MaxProbe
      BY <2>2, OpenCellsFit
    <3> QED
      BY <1>2, <3>1, <3>2, <3>3, <3>4, <3>5, <3>6 DEF PassInv
  <2> QED
    BY <1>1, <2>1, <2>2 DEF SearchInv
<1>4. Spec => [](pruned \subseteq Bucket)
  <2>1. Init => pruned \subseteq Bucket
    BY DEF Init, SearchInit
  <2>2. pruned \subseteq Bucket /\ [Next]_vars => (pruned \subseteq Bucket)'
    BY DEF Next, vars, searchVars, BuildStep, AskBuilt, Ask, SearchStep, SearchNext, OpenHome, SkipHome,
           PruneBucket, OpenBucket, OpenCell, CollectRow, CloseBucket, EndPass, RefineRow, Escalate, Answer
  <2> QED
    BY <2>1, <2>2, PTL DEF Spec
<1> QED
  BY <1>3, <1>4, EngineInvariant, PTL

-----------------------------------------------------------------------------
\* The rows of an index lie in the bucket of their key dimensions.

\* Each row of a cell of bucket b has the flags of b, and each row is in a cell.
HardRows(x) ==
  /\ \A b \in Bucket : \A g \in Block(b) : \A r \in RowsOf(x, g) :
       bucketOf(Dequantized(RowCode(x, r))) = b
  /\ \A r \in 0..(x.n - 1) : KeyDims(Dequantized(RowCode(x, r)))
  /\ \A r \in 0..(x.n - 1) : \E g \in Cells : r \in RowsOf(x, g)

\* What the rows are to the builder.
KeyRows ==
  \A i \in 1..Len(rows) : /\ KeyDims(Dequantized(rows[i].code))
                          /\ rows[i].bucket = bucketOf(Dequantized(rows[i].code))

\* The builder takes its rows from the dataset and never changes them.
LEMMA KeyRowsInit ==
  ASSUME BuildInit
  PROVE  KeyRows
<1>1. PICK s \in Datasets : rows = [i \in 1..Len(s) |->
        [code |-> s[i].code, bucket |-> s[i].bucket, fraud |-> s[i].fraud, added |-> i]]
  BY DEF BuildInit
<1>2. Len(s) \in Nat
  BY DatasetsAssumption
<1>3. Len(rows) = Len(s)
  BY <1>1, <1>2
<1>4. \A i \in 1..Len(s) : rows[i].code = s[i].code /\ rows[i].bucket = s[i].bucket
  BY <1>1
<1>5. \A i \in 1..Len(s) : KeyDims(Dequantized(s[i].code)) /\ s[i].bucket = bucketOf(Dequantized(s[i].code))
  BY KeyDimsAssumption
<1> QED
  BY <1>3, <1>4, <1>5 DEF KeyRows

LEMMA KeyRowsKept ==
  ASSUME KeyRows, [Next]_vars
  PROVE  KeyRows'
<1>1. rows' = rows
  BY DEF Next, vars, buildVars, BuildStep, AskBuilt, SearchStep, BuildNext, SeedBucket, AssignSample,
         UpdateCentroids, Fork, AssignRow, Join, PlaceBucket
<1> QED
  BY <1>1 DEF KeyRows

\* The number of a bucket is that of each of its cells divided by nlist.
LEMMA BlockNumber ==
  ASSUME NEW b \in Bucket, NEW g \in Block(b)
  PROVE  g \in Cells /\ g \div NList = b
<1>1. NList \in Nat /\ NList > 0 /\ b \in Nat
  BY Params DEF Bucket, NumBuckets
<1>2. PICK m \in Nat : m = b * NList
  BY <1>1
<1>3. g \in m..(m + NList - 1)
  BY <1>2 DEF Block
<1>4. g - m \in 0..(NList - 1) /\ m + (g - m) = g
  BY <1>1, <1>3
<1>5. (b * NList + (g - m)) \div NList = b
  BY <1>1, <1>4, DivMod
<1>6. g \in Cells
  BY CellBlocks
<1> QED
  BY <1>2, <1>4, <1>5, <1>6

\* The index Build returns keeps each row in a cell of its bucket.
LEMMA BuiltHardRows ==
  ASSUME IInv, KeyRows, phase = "built"
  PROVE  HardRows(BuiltIndex)
<1> DEFINE x == BuiltIndex
           n == Len(placed)
<1>1. /\ bk = NumBuckets /\ Cells = 0..(bk * NList - 1) /\ x.n = n
      /\ \A g \in Cells : x.cellStart[g] = First(g) /\ x.cellStart[g + 1] = First(g + 1)
  BY IndexFields
<1>2. CellsDone /\ RunsDone /\ RowsDone /\ n \in Nat
  BY RowBlocks DEF IInv
<1>3. \A g \in Cells : RowsOf(x, g) = First(g)..(First(g + 1) - 1)
  BY <1>1, Zenon DEF RowsOf
<1>4. \A r \in 0..(n - 1) : RowCode(x, r) = placed[r + 1].code
  BY RowsReadBack
<1>5. BuiltArrays(x)
  BY BuiltHasArrays
<1> HIDE DEF x
<1>6. ASSUME NEW r \in 0..(n - 1)
      PROVE  /\ KeyDims(Dequantized(RowCode(x, r)))
             /\ bucketOf(Dequantized(RowCode(x, r))) = placed[r + 1].bucket
  <2>1. r + 1 \in 1..n
    BY <1>2
  <2>2. PICK i \in 1..Len(rows) : placed[r + 1] = rows[i]
    BY <1>2, <2>1 DEF RowsDone
  <2>3. KeyDims(Dequantized(rows[i].code)) /\ rows[i].bucket = bucketOf(Dequantized(rows[i].code))
    BY DEF KeyRows
  <2>4. RowCode(x, r) = rows[i].code
    BY <1>4, <2>2
  <2> QED
    BY <2>2, <2>3, <2>4
<1>7. ASSUME NEW g \in Cells
      PROVE  RowsOf(x, g) \subseteq 0..(n - 1)
  <2>1. g \in 0..(bk * NList - 1)
    BY <1>1
  <2>2. /\ First(g) \in Int /\ First(g + 1) \in Int /\ g \div NList \in Bucket
        /\ BucketStart[g \div NList] \in Nat
        /\ BucketStart[g \div NList] <= First(g)
        /\ First(g + 1) <= BucketStart[(g \div NList) + 1]
    BY <2>1, CellBounds
  <2>3. BucketStart[(g \div NList) + 1] <= n
    <3>1. Bounds(BucketStart, n)
      BY RowBlocks
    <3>2. PICK b \in Bucket : b = g \div NList
      BY <2>2
    <3>3. b + 1 \in 0..NumBuckets /\ NumBuckets \in 0..NumBuckets /\ b + 1 <= NumBuckets
      BY DEF Bucket, NumBuckets
    <3>4. BucketStart[b + 1] <= BucketStart[NumBuckets] /\ BucketStart[NumBuckets] = n
      BY <3>1, <3>3 DEF Bounds
    <3> QED
      BY <3>2, <3>4
  <2>4. PICK u \in Nat, w \in Int : u = BucketStart[g \div NList] /\ w = BucketStart[(g \div NList) + 1]
    BY <2>1, <2>2, CellBounds
  <2> QED
    BY <1>2, <1>3, <2>2, <2>3, <2>4
<1>8. ASSUME NEW b \in Bucket, NEW g \in Block(b), NEW r \in RowsOf(x, g)
      PROVE  bucketOf(Dequantized(RowCode(x, r))) = b
  <2>1. g \in Cells /\ g \div NList = b
    BY BlockNumber
  <2>2. r \in 0..(n - 1) /\ r \in First(g)..(First(g + 1) - 1)
    BY <1>3, <1>7, <2>1
  <2>3. placed[r + 1].bucket = g \div NList
    BY <1>1, <1>2, <2>1, <2>2 DEF RunsDone
  <2> QED
    BY <1>6, <2>1, <2>2, <2>3
<1>9. ASSUME NEW r \in 0..(n - 1)
      PROVE  \E g \in Cells : r \in RowsOf(x, g)
  <2>1. PICK g \in 0..(bk * NList - 1) : First(g) <= r /\ r < First(g + 1)
    BY <1>2 DEF CellsDone
  <2>2. First(g) \in Int /\ First(g + 1) \in Int /\ g \in Cells
    BY <1>1, <2>1, CellBounds
  <2>3. r \in First(g)..(First(g + 1) - 1)
    BY <2>1, <2>2
  <2> QED
    BY <1>3, <2>2, <2>3
<1>10. HardRows(x)
  BY <1>1, <1>6, <1>8, <1>9 DEF HardRows
<1> QED
  BY <1>10 DEF x

\* Saving, loading and tuning leave the rows where they are.
LEMMA SameRows ==
  ASSUME NEW x, NEW y, HardRows(x), y.n = x.n, y.data = x.data, y.bucketStart = x.bucketStart,
         y.cellStart = x.cellStart
  PROVE  HardRows(y)
<1>1. \A r : RowCode(y, r) = RowCode(x, r)
  BY DEF RowCode
<1>2. \A g : RowsOf(y, g) = RowsOf(x, g)
  BY DEF RowsOf
<1> QED
  BY <1>1, <1>2 DEF HardRows

LEMMA TunedHardRows ==
  ASSUME IInv, KeyRows, phase = "built", NEW x \in {BuiltIndex, Reloaded(BuiltIndex)}, NEW env \in Knobs
  PROVE  HardRows(Tuned(x, env))
<1> DEFINE w == BuiltIndex
<1>1. HardRows(w)
  BY BuiltHardRows
<1>2. x.n = w.n /\ x.data = w.data /\ x.bucketStart = w.bucketStart /\ x.cellStart = w.cellStart
  <2>1. CASE x = w
    BY <2>1
  <2>2. CASE x = Reloaded(w)
    BY <2>2 DEF Reloaded, BuiltIndex
  <2> QED
    BY <2>1, <2>2
<1>3. BuiltArrays(x) /\ x.nprobe \in 1..NList
  BY ReloadedHasArrays
<1>4. Tuned(x, env) \in Tunable(x)
  BY <1>3, TunedIsTunable
<1> HIDE DEF w
<1>5. PICK y \in Tunable(x) : y = Tuned(x, env)
  BY <1>4
<1>6. y.n = x.n /\ y.data = x.data /\ y.bucketStart = x.bucketStart /\ y.cellStart = x.cellStart
  BY DEF Tunable
<1>7. HardRows(y)
  BY <1>1, <1>2, <1>6, SameRows
<1> QED
  BY <1>5, <1>7

-----------------------------------------------------------------------------
\* What a bucket's flags say of its rows.

\* A flag is stored as one of two codes, G apart.
LEMMA FlagCodes ==
  ASSUME NEW v, v \in {0, Scale}, NEW u \in Code, dequant(u) \in {0, Scale}
  PROVE  /\ One * Bit(Bit(AtLeastHalf(v)) # Bit(AtLeastHalf(dequant(u)))) = Sq(quantize(v) - u) * Sq(Sub)
         /\ Sq(quantize(v) - u) \in Nat
<1>1. Sub \in Nat /\ Sub > 0 /\ G \in Nat /\ G > 0 /\ Scale = G * Sub /\ Scale \in Nat /\ Scale > 0
  BY ScaleNat DEF Scale
<1>2. quantize(0) = 1
  <2>1. Sub \div (2 * Sub) = 0
    BY <1>1
  <2>2. Round(0) = 0
    BY <2>1, <1>1 DEF Round
  <2> QED
    BY <1>1, <2>2 DEF quantize
<1>3. quantize(Scale) = G + 1
  <2>1. 2 * Scale + Sub = G * (2 * Sub) + Sub
    BY <1>1
  <2>2. Sub \in 0..(2 * Sub - 1) /\ 2 * Sub \in Nat /\ 2 * Sub > 0
    BY <1>1
  <2>3. (G * (2 * Sub) + Sub) \div (2 * Sub) = G
    BY <1>1, <2>2, DivMod
  <2>4. Round(Scale) = G
    BY <2>1, <2>3 DEF Round
  <2> QED
    BY <1>1, <2>4 DEF quantize
<1>4. u \in Nat /\ u # 0 /\ dequant(u) = (u - 1) * Sub
  <2>1. u \in Nat
    BY <1>1 DEF Code, MaxCode
  <2>2. u # 0
    BY <1>1 DEF dequant, Null
  <2> QED
    BY <2>1, <2>2 DEF dequant
<1>5. (dequant(u) = 0 => u = 1) /\ (dequant(u) = Scale => u = G + 1)
  <2>1. \A a, b \in Nat : a * Sub = b * Sub => a = b
    <3>1. \A a, b \in Nat : a < b => a * Sub < b * Sub
      <4>1. \A a, c \in Nat : (a + c) * Sub = a * Sub + c * Sub
        BY <1>1
      <4>2. \A c \in Nat : c > 0 => c * Sub > 0
        BY <1>1
      <4> SUFFICES ASSUME NEW a \in Nat, NEW b \in Nat, a < b
                   PROVE  a * Sub < b * Sub
        OBVIOUS
      <4>3. b - a \in Nat /\ b - a > 0 /\ a + (b - a) = b
        OBVIOUS
      <4>4. b * Sub = a * Sub + (b - a) * Sub /\ (b - a) * Sub > 0
        BY <4>1, <4>2, <4>3
      <4>5. a * Sub \in Int /\ b * Sub \in Int /\ (b - a) * Sub \in Int
        BY <1>1, <4>3
      <4> QED
        BY <4>4, <4>5
    <3>2. \A a, b \in Nat : a * Sub \in Int /\ b * Sub \in Int
      BY <1>1
    <3> QED
      BY <3>1, <3>2
  <2>2. u - 1 \in Nat /\ 0 * Sub = 0
    BY <1>1, <1>4
  <2>3. dequant(u) = 0 => u - 1 = 0
    BY <1>4, <2>1, <2>2
  <2>4. dequant(u) = Scale => u - 1 = G
    BY <1>1, <1>4, <2>1, <2>2
  <2> QED
    BY <1>1, <1>4, <2>3, <2>4
<1>6. ~AtLeastHalf(0) /\ AtLeastHalf(Scale)
  BY <1>1 DEF AtLeastHalf
<1>7. One = Sq(G) * Sq(Sub)
  BY <1>1 DEF One, Sq
<1>8. Sq(0) = 0 /\ Sq(G) \in Nat /\ Sq(Sub) \in Nat /\ One \in Nat
  BY <1>1 DEF Sq, One
<1>9. ASSUME v = dequant(u)
      PROVE  quantize(v) - u = 0 /\ Bit(Bit(AtLeastHalf(v)) # Bit(AtLeastHalf(dequant(u)))) = 0
  <2>1. Bit(Bit(AtLeastHalf(v)) # Bit(AtLeastHalf(dequant(u)))) = 0
    BY <1>9 DEF Bit
  <2>2. quantize(v) = u
    BY <1>2, <1>3, <1>5, <1>9
  <2> QED
    BY <1>4, <2>1, <2>2
<1>10. ASSUME v # dequant(u)
       PROVE  Sq(quantize(v) - u) = Sq(G) /\ Bit(Bit(AtLeastHalf(v)) # Bit(AtLeastHalf(dequant(u)))) = 1
  <2>1. Bit(Bit(AtLeastHalf(v)) # Bit(AtLeastHalf(dequant(u)))) = 1
    BY <1>6, <1>10 DEF Bit
  <2>2. quantize(v) - u = G \/ quantize(v) - u = -G
    BY <1>1, <1>2, <1>3, <1>5, <1>10
  <2>3. (-G) * (-G) = G * G
    BY <1>1
  <2> QED
    BY <2>1, <2>2, <2>3 DEF Sq
<1> QED
  BY <1>7, <1>8, <1>9, <1>10

\* The rows of a bucket whose null flag is the query's are as far as the
\* bucket's penalty says, on the grid of the codes too.
LEMMA PenaltyOnTheGrid ==
  ASSUME NEW v \in Vector, KeyDims(v), NEW code \in [Dim -> Code], KeyDims(Dequantized(code)),
         IsNull(v) = IsNull(Dequantized(code))
  PROVE  /\ bucketPenalty(v, bucketOf(Dequantized(code))) <= intDist(Quantized(v), code) * Sq(Sub)
         /\ bucketPenalty(v, bucketOf(Dequantized(code))) \in Nat
<1> DEFINE w == Dequantized(code)
           t == [i \in Dim |-> Sq(Quantized(v)[i] - code[i])]
<1>1. Quantized(v) \in [Dim -> Code] /\ \A a \in Code : a \in Int
  BY QcodeType, ScaleNat DEF Code, MaxCode
<1>2. \A i \in Dim : t[i] \in Nat
  BY <1>1, Squares
<1>3. intDist(Quantized(v), code) = Sum14(t)
  BY DEF intDist
<1>4. \A d \in {9, 10, 11} :
        /\ One * Bit(Bit(AtLeastHalf(v[d])) # Bit(AtLeastHalf(w[d]))) = t[d] * Sq(Sub)
        /\ t[d] \in Nat
  <2> SUFFICES ASSUME NEW d \in {9, 10, 11}
               PROVE  /\ One * Bit(Bit(AtLeastHalf(v[d])) # Bit(AtLeastHalf(w[d]))) = t[d] * Sq(Sub)
                      /\ t[d] \in Nat
    OBVIOUS
  <2>1. d \in Dim
    BY DEF Dim
  <2>2. v[d] \in {0, Scale} /\ w[d] \in {0, Scale} /\ code[d] \in Code
    BY <2>1 DEF KeyDims
  <2>3. w[d] = dequant(code[d]) /\ t[d] = Sq(quantize(v[d]) - code[d])
    BY <2>1 DEF Dequantized, Quantized
  <2> HIDE DEF w, t
  <2> QED
    BY <2>2, <2>3, FlagCodes
<1>5. Sq(Sub) \in Nat
  BY ScaleNat DEF Sq
<1>6. bucketPenalty(v, bucketOf(w)) =
        One * Bit(Bit(AtLeastHalf(v[9])) # Bit(AtLeastHalf(w[9])))
        + One * Bit(Bit(AtLeastHalf(v[10])) # Bit(AtLeastHalf(w[10])))
        + One * Bit(Bit(AtLeastHalf(v[11])) # Bit(AtLeastHalf(w[11])))
        + 0
  <2>1. NullFlag(bucketOf(v)) = NullFlag(bucketOf(w))
    <3>1. IsNull(v) = IsNull(w)
      OBVIOUS
    <3> HIDE DEF w
    <3> QED
      BY <3>1, BucketBits
  <2> HIDE DEF w
  <2> QED
    BY <2>1, BucketBits DEF bucketPenalty
<1>7. bucketPenalty(v, bucketOf(w)) = t[9] * Sq(Sub) + t[10] * Sq(Sub) + t[11] * Sq(Sub)
  <2> HIDE DEF w, t
  <2>1. t[9] * Sq(Sub) \in Nat /\ t[10] * Sq(Sub) \in Nat /\ t[11] * Sq(Sub) \in Nat
    BY <1>4, <1>5
  <2> QED
    BY <1>4, <1>6, <2>1
<1>8. /\ t[0] \in Nat /\ t[1] \in Nat /\ t[2] \in Nat /\ t[3] \in Nat /\ t[4] \in Nat
      /\ t[5] \in Nat /\ t[6] \in Nat /\ t[7] \in Nat /\ t[8] \in Nat /\ t[9] \in Nat
      /\ t[10] \in Nat /\ t[11] \in Nat /\ t[12] \in Nat /\ t[13] \in Nat
  <2> HIDE DEF t
  <2> QED
    BY <1>2 DEF Dim
<1> HIDE DEF t, w
<1>9. PICK s \in Nat, f \in Nat : f = t[9] + t[10] + t[11] /\ Sum14(t) = s /\ f <= s
  <2>0. PICK a \in Nat : a = t[0] + t[1] + t[2] + t[3] + t[4]
    BY <1>8
  <2>10. PICK b \in Nat : b = t[5] + t[6] + t[7] + t[8]
    BY <1>8
  <2>1. PICK c \in Nat : c = t[9] + t[10] + t[11]
    BY <1>8
  <2>2. Sum14(t) = a + t[5] + t[6] + t[7] + t[8] + t[9] + t[10] + t[11] + t[12] + t[13]
    BY <2>0 DEF Sum14
  <2>3. a + t[5] + t[6] + t[7] + t[8] = a + b
    BY <1>8, <2>10
  <2>4. Sum14(t) = a + b + t[9] + t[10] + t[11] + t[12] + t[13]
    BY <2>2, <2>3
  <2>5. Sum14(t) = a + b + c + (t[12] + t[13])
    BY <1>8, <2>1, <2>4
  <2> QED
    BY <1>8, <2>1, <2>5
<1>10. PICK k \in Nat : k = Sq(Sub)
  BY <1>5
<1>11. t[9] * k + t[10] * k + t[11] * k = f * k
  BY <1>8, <1>9, <1>10
<1>12. f * k <= s * k /\ f * k \in Nat
  <2>1. PICK e \in Nat : s = f + e
    <3>1. s - f \in Nat /\ s = f + (s - f)
      BY <1>9
    <3> QED
      BY <3>1
  <2>2. s * k = f * k + e * k /\ e * k \in Nat /\ f * k \in Nat
    BY <1>9, <1>10, <2>1
  <2> QED
    BY <2>2
<1> QED
  BY <1>3, <1>7, <1>9, <1>10, <1>11, <1>12 DEF w

-----------------------------------------------------------------------------
\* The invariant of what the collector and the refine keep.

\* The distances of the collector and those of the refine.
NearDist(x, v) == [r \in 0..(x.n - 1) |-> intDist(Quantized(v), RowCode(x, r))]
ExactDist(x, v) == [r \in 0..(x.n - 1) |-> dist2(v, RowCode(x, r))]

\* A pass without a row cap ends at the last bucket.
VisitInv == ix.maxScan = 0 /\ pc \in {"refine", "done"} => at = NumBuckets

\* Row r is kept or beaten, or is about to be offered.
Reached(r) == Keeps(CandK, col, NearDist(ix, q)[r], r) \/ (pc = "cells" /\ r \in ToSet(run))

\* Every row of the cells the query is past is, pruned buckets included.
CoverInv ==
  ix.maxScan = 0 /\ NullUniform =>
    \A b \in Bucket : \A g \in Cells : SeenCell(b, g) => \A r \in RowsOf(ix, g) : Reached(r)

\* How many candidates refine has considered.
Refined == col.n - Len(run)

\* They come in the collector's order, and the nearest of them are kept.
RefineInv ==
  pc \in {"refine", "done"} =>
    /\ Refined \in Nat /\ \A i \in 1..Len(run) : run[i] = col.item[Refined + i]
    /\ pc = "done" => run = <<>>
    /\ HoldsOffers(K, tk, Refined, {col.item[i] : i \in 1..Refined}) /\ tk.n = AtMost(Refined, K)
    /\ Records(K, tk, Refined, ExactDist(ix, q))
    /\ \A i \in 1..Refined : Keeps(K, tk, ExactDist(ix, q)[col.item[i]], col.item[i])

NearInv ==
  /\ HardRows(ix) /\ KeyDims(q)
  /\ Records(CandK, col, Len(offered), NearDist(ix, q))
  /\ VisitInv /\ CoverInv /\ RefineInv

-----------------------------------------------------------------------------
\* The steps of a query keep it.

\* A step that offers nothing and passes no further cell.
LEMMA CoverKept ==
  ASSUME CoverInv, ix' = ix, q' = q, col' = col,
         \A b \in Bucket : \A g \in Cells : SeenCell(b, g)' => SeenCell(b, g),
         \A r : pc = "cells" /\ r \in ToSet(run) => (pc = "cells" /\ r \in ToSet(run))'
  PROVE  CoverInv'
<1> SUFFICES ASSUME ix.maxScan = 0, NullUniform', NEW b \in Bucket, NEW g \in Cells, SeenCell(b, g)',
                    NEW r \in RowsOf(ix, g)
             PROVE  Reached(r)'
  BY DEF CoverInv
<1>1. NullUniform
  BY DEF NullUniform, Rows
<1>2. Reached(r)
  BY <1>1 DEF CoverInv
<1> QED
  BY <1>2 DEF Reached

\* A step that leaves the collector alone and starts no refine.
LEMMA NearKept ==
  ASSUME NearInv, ix' = ix, q' = q, col' = col, offered' = offered, CoverInv',
         pc' \notin {"refine", "done"}
  PROVE  NearInv'
<1>1. VisitInv' /\ RefineInv'
  BY DEF VisitInv, RefineInv
<1> QED
  BY <1>1 DEF NearInv

\* scanRange opens a bucket: its cells are all still to come.
LEMMA OpenNear ==
  ASSUME Running, NearInv, OpenHome \/ OpenBucket
  PROVE  NearInv'
<1>1. PassInv /\ CoverInv
  BY DEF Running, NearInv
<1>2. /\ pc = "buckets" /\ pc' = "cells" /\ UNCHANGED <<ix, q, tier, hi, run, col, offered>>
      /\ cells' = CellsInRange(ix, q, Open', lo, hi)
      /\ at' >= 0 /\ \A b \in Bucket : Passed(b)' => Passed(b) \/ b = Open'
  <2>1. CASE OpenHome
    <3>1. at = -1 /\ at' = 0 /\ Home' = Home /\ cells' = CellsInRange(ix, q, Home, lo, hi)
      BY <2>1 DEF OpenHome, Home
    <3>2. Open' = Home
      BY <3>1 DEF Open
    <3>3. \A b \in Bucket : ~(b < 0)
      BY DEF Bucket, NumBuckets
    <3> QED
      BY <2>1, <3>1, <3>2, <3>3 DEF OpenHome, Passed
  <2>2. CASE OpenBucket
    <3>1. at \in Bucket /\ at' = at + 1 /\ Home' = Home /\ cells' = CellsInRange(ix, q, at, lo, hi)
      BY <2>2 DEF OpenBucket, Home
    <3>2. at' # 0 /\ at' - 1 = at /\ at' >= 0 /\ at >= 0
      BY <3>1 DEF Bucket, NumBuckets
    <3>3. Open' = at
      BY <3>2 DEF Open
    <3>4. \A b \in Bucket : b < at' => b < at \/ b = at
      BY <3>1 DEF Bucket, NumBuckets
    <3> QED
      BY <2>2, <3>1, <3>2, <3>3, <3>4 DEF OpenBucket, Passed
  <2> QED
    BY <2>1, <2>2
<1>3. lo' = lo
  BY <1>2 DEF lo
<1>4. ASSUME NEW b \in Bucket, NEW g \in Cells, SeenCell(b, g)'
      PROVE  SeenCell(b, g)
  <2>1. CASE tier = "high" /\ g \in CellSet(ix, q, b, 0, ix.nprobe)
    BY <2>1 DEF SeenCell
  <2>2. CASE Passed(b)' /\ g \in CellSet(ix, q, b, lo, hi) /\ ~(b = Open' /\ g \in ToSet(cells'))
    <3>1. b # Open'
      BY <1>2, <2>2 DEF CellSet
    <3>2. Passed(b)
      BY <1>2, <2>2, <3>1
    <3> QED
      BY <1>2, <2>2, <3>2 DEF SeenCell
  <2> QED
    BY <1>2, <1>3, <1>4, <2>1, <2>2 DEF SeenCell
<1>5. CoverInv'
  BY <1>1, <1>2, <1>4, CoverKept
<1> QED
  BY <1>2, <1>5, NearKept

\* The distances are integers below the sentinel.
LEMMA NearDistType ==
  ASSUME PassInv, NEW r \in Rows
  PROVE  /\ NearDist(ix, q)[r] \in Int /\ NearDist(ix, q)[r] < Inf
         /\ NearDist(ix, q)[r] = intDist(qcode, RowCode(ix, r)) /\ r \in Int
<1>1. UsableIndex(ix) /\ q \in Vector /\ ix.n \in Nat
  BY DEF PassInv, UsableIndex
<1>2. r \in 0..(ix.n - 1) /\ RowCode(ix, r) \in [Dim -> Code]
  BY <1>1 DEF UsableIndex, Rows
<1>3. Quantized(q) \in [Dim -> Code]
  BY <1>1, QcodeType
<1>4. NearDist(ix, q)[r] = intDist(Quantized(q), RowCode(ix, r))
  BY <1>2 DEF NearDist
<1> QED
  BY <1>1, <1>2, <1>3, <1>4, DistanceBelowInf DEF qcode

\* "The test never drops a bucket that could hold a true top-candK row", the
\* query and the rows agreeing on the null flag.
LEMMA PrunedAreBeaten ==
  ASSUME Running, NearInv, PruneBucket, NullUniform, NEW g \in Block(at), NEW r \in RowsOf(ix, g)
  PROVE  Keeps(CandK, col, NearDist(ix, q)[r], r)
<1>1. PassInv /\ ColInv /\ HardRows(ix) /\ KeyDims(q) /\ UsableIndex(ix) /\ q \in Vector
  BY DEF Running, NearInv, PassInv
<1>2. /\ at \in Bucket /\ IsFull(CandK, col)
      /\ bucketPenalty(q, at) >= (Worst(CandK, col) + PruneMargin) * Sq(Sub)
  BY DEF PruneBucket, Prunable
<1>3. g \in Cells
  BY <1>2, BlockNumber
<1>4. r \in Rows
  BY <1>1, <1>3, CellRowsFacts DEF Rows
<1>5. PICK code \in [Dim -> Code] : code = RowCode(ix, r)
  BY <1>1, <1>4 DEF UsableIndex, Rows
<1>6. bucketOf(Dequantized(code)) = at /\ KeyDims(Dequantized(code))
  BY <1>1, <1>2, <1>4, <1>5 DEF HardRows, Rows
<1>7. IsNull(q) = IsNull(Dequantized(code))
  <2>1. (code[5] = 0) = IsNull(q)
    BY <1>4, <1>5 DEF NullUniform
  <2>2. code[5] \in Code /\ Dequantized(code)[5] = dequant(code[5])
    BY DEF Dim, Dequantized
  <2>3. \A u \in Code : (dequant(u) < 0) <=> (u = 0)
    <3>1. \A u \in Code : u \in Nat
      BY ScaleNat DEF Code, MaxCode
    <3>2. \A u \in Nat : u # 0 => (u - 1) * Sub >= 0
      BY ScaleNat
    <3> QED
      BY <3>1, <3>2, ScaleNat DEF dequant, Null
  <2> QED
    BY <2>1, <2>2, <2>3 DEF IsNull
<1>8. /\ bucketPenalty(q, at) <= intDist(Quantized(q), code) * Sq(Sub)
      /\ bucketPenalty(q, at) \in Nat
  BY <1>1, <1>6, <1>7, PenaltyOnTheGrid
<1>9. PICK d \in Int : d = NearDist(ix, q)[r] /\ d = intDist(Quantized(q), code)
  BY <1>1, <1>4, <1>5, NearDistType DEF qcode
<1>10. PICK w \in Int : w = col.dist[CandK]
  BY <1>1, SearchAssumption DEF ColInv, HoldsOffers
<1>11. PICK k \in Nat : k = Sq(Sub) /\ k > 0
  <2>1. Sub * Sub \in Nat /\ Sub * Sub > 0
    BY ScaleNat
  <2> QED
    BY <2>1 DEF Sq
<1>12. PICK m \in Nat : m = PruneMargin
  BY ScaleNat DEF PruneMargin
<1>13. (w + m) * k <= d * k
  <2>1. PICK p \in Nat : p = bucketPenalty(q, at)
    BY <1>8
  <2>2. p >= (w + m) * k /\ p <= d * k
    BY <1>2, <1>8, <1>9, <1>10, <1>11, <1>12, <2>1 DEF Worst
  <2>3. (w + m) * k \in Int /\ d * k \in Int
    OBVIOUS
  <2> QED
    BY <2>2, <2>3
<1>14. w <= d
  <2> SUFFICES ASSUME d < w
               PROVE  FALSE
    BY <1>10, <1>9
  <2>1. (w + m) - d \in Nat /\ (w + m) - d > 0
    OBVIOUS
  <2>2. \A x \in Nat : x > 0 => x * k > 0
    BY <1>11
  <2>3. (w + m) * k = ((w + m) - d) * k + d * k
    OBVIOUS
  <2>4. ((w + m) - d) * k > 0 /\ ((w + m) - d) * k \in Int /\ d * k \in Int
    BY <2>1, <2>2
  <2> QED
    BY <1>13, <2>3, <2>4
<1> QED
  BY <1>2, <1>9, <1>10, <1>14 DEF Keeps, IsFull

\* The loop passes over the home bucket, scanned, or over one it prunes.
LEMMA PassOverNear ==
  ASSUME Running, NearInv, SkipHome \/ PruneBucket
  PROVE  NearInv'
<1>1. PassInv /\ CoverInv
  BY DEF Running, NearInv
<1>2. /\ pc = "buckets" /\ pc' = "buckets" /\ at \in Bucket /\ at' = at + 1
      /\ UNCHANGED <<ix, q, tier, hi, run, cells, col, offered>>
  <2>1. CASE SkipHome
    <3>1. at \in Bucket
      BY <1>1, <2>1, HomeIsABucket DEF SkipHome, PassInv, Home
    <3> QED
      BY <2>1, <3>1 DEF SkipHome
  <2>2. CASE PruneBucket
    BY <2>2 DEF PruneBucket
  <2> QED
    BY <2>1, <2>2
<1>3. /\ lo' = lo /\ Home' = Home /\ lo \in Nat /\ hi \in Nat /\ UsableIndex(ix) /\ q \in Vector
  BY <1>1, <1>2, PassBounds DEF lo, Home
<1>4. \A b \in Bucket : Passed(b)' => Passed(b) \/ (b = at /\ b # Home)
  BY <1>2, <1>3 DEF Passed, Bucket, NumBuckets
<1>5. ASSUME NEW b \in Bucket, NEW g \in Cells, SeenCell(b, g)'
      PROVE  SeenCell(b, g) \/ (b = at /\ at # Home /\ g \in CellSet(ix, q, b, lo, hi))
  <2>1. CASE tier = "high" /\ g \in CellSet(ix, q, b, 0, ix.nprobe)
    BY <2>1 DEF SeenCell
  <2>2. CASE Passed(b)' /\ g \in CellSet(ix, q, b, lo, hi)
    BY <1>2, <1>4, <2>2 DEF SeenCell
  <2> QED
    BY <1>2, <1>3, <1>5, <2>1, <2>2 DEF SeenCell
<1>6. CoverInv'
  <2> SUFFICES ASSUME ix.maxScan = 0, NullUniform', NEW b \in Bucket, NEW g \in Cells, SeenCell(b, g)',
                      NEW r \in RowsOf(ix, g)
               PROVE  Reached(r)'
    BY <1>2 DEF CoverInv
  <2>1. NullUniform
    BY <1>2 DEF NullUniform, Rows
  <2>2. CASE SeenCell(b, g)
    <3>1. Reached(r)
      BY <1>1, <2>1, <2>2 DEF CoverInv
    <3> QED
      BY <1>2, <3>1 DEF Reached
  <2>3. CASE b = at /\ at # Home /\ g \in CellSet(ix, q, b, lo, hi)
    <3>1. PruneBucket
      BY <2>3 DEF SkipHome
    <3>2. g \in Block(at)
      BY <1>3, <2>3, CellSetInBlock
    <3>3. Keeps(CandK, col, NearDist(ix, q)[r], r)
      BY <2>1, <3>1, <3>2, PrunedAreBeaten
    <3> QED
      BY <1>2, <3>3 DEF Reached
  <2> QED
    BY <1>5, <2>2, <2>3
<1> QED
  BY <1>2, <1>6, NearKept

\* The open bucket has no cell left.
LEMMA CloseNear ==
  ASSUME Running, NearInv, CloseBucket
  PROVE  NearInv'
<1>1. /\ pc = "cells" /\ run = <<>> /\ cells = <<>> /\ pc' = "buckets"
      /\ UNCHANGED <<ix, q, tier, hi, at, cells, run, col, offered>>
  BY DEF CloseBucket
<1>2. lo' = lo /\ Home' = Home /\ Open' = Open /\ ToSet(<<>>) = {} /\ CoverInv
  BY <1>1 DEF lo, Home, Open, ToSet, NearInv
<1>3. \A b \in Bucket : \A g \in Cells : SeenCell(b, g)' => SeenCell(b, g)
  BY <1>1, <1>2 DEF SeenCell, Passed
<1>4. CoverInv'
  BY <1>1, <1>2, <1>3, CoverKept
<1> QED
  BY <1>1, <1>4, NearKept

\* The rows of the next cell are about to be offered; without a cap no cell is
\* dropped.
LEMMA OpenCellNear ==
  ASSUME Running, NearInv, OpenCell
  PROVE  NearInv'
<1> DEFINE c == Head(cells)
           mine == CellRows(ix, c)
           total == scanned + Len(mine)
<1>1. /\ pc = "cells" /\ pc' = "cells" /\ run = <<>> /\ cells # <<>> /\ run' = mine
      /\ cells' = IF mine # <<>> /\ CapReached(total) THEN <<>> ELSE Tail(cells)
      /\ UNCHANGED <<ix, q, tier, hi, at, col, offered>>
  BY DEF OpenCell
<1>2. PassInv /\ CellsInv /\ CoverInv
  BY DEF Running, NearInv
<1>3. /\ UsableIndex(ix) /\ lo' = lo /\ Home' = Home /\ Open' = Open /\ cells \in Seq(Cells)
  BY <1>1, <1>2 DEF PassInv, CellsInv, lo, Home, Open
<1>4. c \in Cells /\ ToSet(cells) = {c} \cup ToSet(Tail(cells))
  BY <1>1, <1>3, HeadAndTail
<1>5. ToSet(mine) = RowsOf(ix, c)
  BY <1>3, <1>4, CellRowsFacts
<1> HIDE DEF c, mine, total
<1>6. CoverInv'
  <2> SUFFICES ASSUME ix.maxScan = 0, NullUniform', NEW b \in Bucket, NEW g \in Cells, SeenCell(b, g)',
                      NEW r \in RowsOf(ix, g)
               PROVE  Reached(r)'
    BY <1>1 DEF CoverInv
  <2>1. NullUniform
    BY <1>1 DEF NullUniform, Rows
  <2>2. cells' = Tail(cells)
    <3>1. capScan = 0
      BY DEF capScan
    <3>2. ~CapReached(total)
      BY <3>1 DEF CapReached
    <3> QED
      BY <1>1, <3>2
  <2>3. SeenCell(b, g) \/ g = c
    BY <1>1, <1>3, <1>4, <2>2 DEF SeenCell, Passed
  <2>4. CASE SeenCell(b, g)
    <3>1. Reached(r)
      BY <1>2, <2>1, <2>4 DEF CoverInv
    <3>2. ToSet(<<>>) = {}
      BY DEF ToSet
    <3>3. Keeps(CandK, col, NearDist(ix, q)[r], r)
      BY <1>1, <3>1, <3>2 DEF Reached
    <3> QED
      BY <1>1, <3>3 DEF Reached
  <2>5. CASE g = c
    BY <1>1, <1>5, <2>5 DEF Reached
  <2> QED
    BY <2>3, <2>4, <2>5
<1> QED
  BY <1>1, <1>6, NearKept

\* The collector considers a row: it keeps it or has candidates as near, and what
\* it held or turned away stays kept or beaten.
LEMMA CollectNear ==
  ASSUME Running, NearInv, CollectRow
  PROVE  NearInv'
<1> DEFINE r == Head(run)
           d == intDist(qcode, RowCode(ix, r))
           D == NearDist(ix, q)
<1>1. PassInv /\ StreamInv /\ ColInv /\ CoverInv /\ Records(CandK, col, Len(offered), D)
  BY DEF Running, NearInv
<1>2. /\ pc = "cells" /\ pc' = "cells" /\ run # <<>>
      /\ col' = Consider(CandK, col, d, r) /\ run' = Tail(run) /\ offered' = Append(offered, r)
      /\ UNCHANGED <<ix, q, tier, hi, at, cells>>
  BY DEF CollectRow
<1>3. r \in Rows /\ ToSet(run) = {r} \cup ToSet(Tail(run)) /\ offered \in Seq(Rows)
  BY <1>1, <1>2, HeadAndTail DEF StreamInv
<1>4. D[r] = d /\ d \in Int /\ d < Inf
  BY <1>1, <1>3, NearDistType
<1>5. /\ CandK \in Nat \ {0} /\ Inf \in Int /\ Len(offered) \in Nat
      /\ HoldsOffers(CandK, col, Len(offered), ToSet(offered))
      /\ col.n = IF Len(offered) > CandK THEN CandK ELSE Len(offered)
  BY <1>1, <1>3, SearchAssumption, InfAssumption DEF ColInv, AtMost
<1>6. Len(offered') = Len(offered) + 1
  BY <1>2, <1>3
<1>7. \A e \in Rows : D[e] \in Int
  BY <1>1, NearDistType
<1> HIDE DEF D, d, r
<1>8. Records(CandK, col', Len(offered) + 1, D) /\ Keeps(CandK, col', D[r], r)
  BY <1>1, <1>2, <1>4, <1>5, ConsiderRecords
<1>9. ASSUME NEW e \in Rows, Keeps(CandK, col, D[e], e)
      PROVE  Keeps(CandK, col', D[e], e)
  <2>1. D[e] \in Int
    BY <1>7
  <2>2. Keeps(CandK, Consider(CandK, col, d, r), D[e], e)
    BY <1>1, <1>4, <1>5, <1>9, <2>1, ConsiderKeeps
  <2> QED
    BY <1>2, <2>2
<1>10. lo' = lo /\ Home' = Home /\ Open' = Open /\ D' = D
  BY <1>2 DEF lo, Home, Open, D
<1>11. CoverInv'
  <2> SUFFICES ASSUME ix.maxScan = 0, NullUniform', NEW b \in Bucket, NEW g \in Cells, SeenCell(b, g)',
                      NEW e \in RowsOf(ix, g)
               PROVE  Reached(e)'
    BY <1>2 DEF CoverInv
  <2>1. NullUniform /\ SeenCell(b, g)
    BY <1>2, <1>10 DEF NullUniform, Rows, SeenCell, Passed
  <2>2. Reached(e)
    BY <1>1, <2>1 DEF CoverInv
  <2>3. e \in Rows
    BY <1>1, CellRowsFacts DEF PassInv, Rows
  <2>4. CASE Keeps(CandK, col, D[e], e)
    BY <1>2, <1>9, <1>10, <2>3, <2>4 DEF Reached, D
  <2>5. CASE e = r
    BY <1>2, <1>8, <2>5 DEF Reached, D
  <2>6. CASE e \in ToSet(Tail(run))
    BY <1>2, <2>6 DEF Reached
  <2> QED
    BY <1>3, <2>2, <2>4, <2>5, <2>6 DEF Reached, D
<1>12. Records(CandK, col', Len(offered'), NearDist(ix', q'))
  BY <1>2, <1>6, <1>8 DEF D
<1>13. VisitInv' /\ RefineInv'
  BY <1>2 DEF VisitInv, RefineInv
<1>14. HardRows(ix)' /\ KeyDims(q)'
  BY <1>2 DEF NearInv
<1> QED
  BY <1>11, <1>12, <1>13, <1>14 DEF NearInv

\* The candidates are rows of the index, none twice.
LEMMA Candidates ==
  ASSUME Running
  PROVE  /\ col.n \in Nat /\ col.n <= CandK /\ col.n <= Len(offered) /\ Len(offered) \in Nat
         /\ col.item \in [1..CandK -> Int]
         /\ \A i \in 1..col.n : i \in 1..CandK /\ col.item[i] \in Rows /\ col.item[i] \in ToSet(offered)
         /\ \A i, j \in 1..col.n : i # j => col.item[i] # col.item[j]
<1>1. offered \in Seq(Rows) /\ Len(offered) \in Nat /\ CandK \in Nat \ {0}
  BY SearchAssumption DEF Running, StreamInv
<1>2. /\ col.item \in [1..CandK -> Int] /\ col.n = AtMost(Len(offered), CandK)
      /\ \A i \in 1..CandK : i <= Len(offered) => col.item[i] \in ToSet(offered)
      /\ \A i, j \in 1..CandK : i <= Len(offered) /\ j <= Len(offered) /\ i # j => col.item[i] # col.item[j]
  BY DEF Running, ColInv, HoldsOffers
<1>3. ToSet(offered) \subseteq Rows
  BY <1>1 DEF ToSet
<1>4. col.n \in Nat /\ col.n <= CandK /\ col.n <= Len(offered)
  BY <1>1, <1>2 DEF AtMost
<1>5. \A i \in 1..col.n : i \in 1..CandK /\ i <= Len(offered)
  BY <1>1, <1>4
<1>6. \A i \in 1..col.n : col.item[i] \in ToSet(offered) /\ col.item[i] \in Rows
  BY <1>2, <1>3, <1>5
<1>7. \A i, j \in 1..col.n : i # j => col.item[i] # col.item[j]
  BY <1>2, <1>5
<1> QED
  BY <1>1, <1>2, <1>4, <1>5, <1>6, <1>7

\* The exact distances are below the sentinel too.
LEMMA ExactDistType ==
  ASSUME PassInv, NEW r \in Rows
  PROVE  /\ ExactDist(ix, q)[r] \in Int /\ ExactDist(ix, q)[r] < Inf
         /\ ExactDist(ix, q)[r] = dist2(q, RowCode(ix, r)) /\ r \in Int
<1>1. UsableIndex(ix) /\ q \in [Dim -> Value] /\ ix.n \in Nat
  BY DEF PassInv, UsableIndex, Vector
<1>2. r \in 0..(ix.n - 1) /\ RowCode(ix, r) \in [Dim -> Code]
  BY <1>1 DEF UsableIndex, Rows
<1>3. ExactDist(ix, q)[r] = dist2(q, RowCode(ix, r))
  BY <1>2 DEF ExactDist
<1>4. PICK m : m = 14 * Sq(2 * Scale)
  OBVIOUS
<1>5. m \in Nat /\ m < Inf /\ Inf \in Int
  <2>1. Scale \in Nat
    BY ScaleNat
  <2>2. Sq(2 * Scale) \in Nat
    BY <2>1 DEF Sq
  <2> QED
    BY <1>4, <2>2, InfAssumption
<1>6. dist2(q, RowCode(ix, r)) \in 0..m
  BY <1>1, <1>2, <1>4, Dist2Bounded
<1> QED
  BY <1>1, <1>2, <1>3, <1>5, <1>6

\* The pass ends and refine takes the candidates.
LEMMA EndPassNear ==
  ASSUME Running, NearInv, EndPass
  PROVE  NearInv'
<1>1. /\ pc = "buckets" /\ pc' = "refine"
      /\ at = NumBuckets \/ CapReached(scanned)
      /\ tk' = EmptyBuffer(K, 0) /\ run' = SubSeq(col.item, 1, col.n)
      /\ UNCHANGED <<ix, q, tier, hi, at, cells, col, offered>>
  BY DEF EndPass
<1>2. lo' = lo /\ Home' = Home /\ CoverInv
  BY <1>1 DEF lo, Home, NearInv
<1>3. \A b \in Bucket : \A g \in Cells : SeenCell(b, g)' => SeenCell(b, g)
  BY <1>1, <1>2 DEF SeenCell, Passed
<1>4. CoverInv'
  BY <1>1, <1>2, <1>3, CoverKept
<1>5. VisitInv'
  BY <1>1 DEF VisitInv, CapReached, capScan
<1>6. RefineInv'
  <2>1. col.n \in Nat /\ col.n <= CandK /\ CandK \in Nat /\ col.item \in Seq(Int) /\ Len(col.item) = CandK
    <3>1. col.n \in Nat /\ col.n <= CandK /\ col.item \in [1..CandK -> Int] /\ CandK \in Nat
      BY Candidates, SearchAssumption
    <3> QED
      BY <3>1
  <2>2. run' = [i \in 1..col.n |-> col.item[i]]
    BY <1>1, <2>1
  <2>3. Len(run') = col.n
    BY <2>1, <2>2
  <2>4. Refined' = 0
    BY <1>1, <2>1, <2>3 DEF Refined
  <2>5. \A i \in 1..Len(run') : run'[i] = col.item[0 + i]
    <3>1. \A i \in 1..col.n : 0 + i = i
      BY <2>1
    <3>2. \A i \in 1..col.n : run'[i] = col.item[i]
      BY <2>2
    <3> QED
      BY <2>3, <3>1, <3>2
  <2>6. {col.item[i] : i \in 1..0} = {}
    OBVIOUS
  <2>7. HoldsOffers(K, tk', 0, {}) /\ tk'.n = 0 /\ AtMost(0, K) = 0 /\ Records(K, tk', 0, ExactDist(ix, q))
    <3>1. K \in Nat \ {0} /\ Inf \in Int
      BY SearchAssumption, InfAssumption
    <3>2. HoldsOffers(K, tk', 0, {})
      BY <1>1, <3>1, EmptyHolds
    <3>3. tk'.n = 0
      BY <1>1 DEF EmptyBuffer
    <3>4. AtMost(0, K) = 0
      BY <3>1 DEF AtMost
    <3>5. Records(K, tk', 0, ExactDist(ix, q))
      BY <3>1 DEF Records
    <3> QED
      BY <3>2, <3>3, <3>4, <3>5
  <2>8. \A i \in 1..0 : Keeps(K, tk', ExactDist(ix, q)[col.item[i]], col.item[i])
    OBVIOUS
  <2> QED
    BY <1>1, <2>4, <2>5, <2>6, <2>7, <2>8 DEF RefineInv
<1> QED
  BY <1>1, <1>4, <1>5, <1>6 DEF NearInv

\* refine considers the next candidate by its exact distance.
LEMMA RefineNear ==
  ASSUME Running, NearInv, RefineRow
  PROVE  NearInv'
<1> DEFINE k == Refined
           c == Head(run)
           d == dist2(q, RowCode(ix, c))
           D == ExactDist(ix, q)
           S == {col.item[i] : i \in 1..k}
<1>1. /\ pc = "refine" /\ pc' = "refine" /\ run # <<>>
      /\ tk' = Consider(K, tk, d, c) /\ run' = Tail(run)
      /\ UNCHANGED <<ix, q, tier, hi, at, cells, col, offered>>
  BY DEF RefineRow
<1>2. lo' = lo /\ Home' = Home /\ CoverInv /\ VisitInv /\ RefineInv /\ PassInv /\ run \in Seq(Rows)
  BY <1>1 DEF lo, Home, NearInv, Running, StreamInv
<1>3. \A b \in Bucket : \A g \in Cells : SeenCell(b, g)' => SeenCell(b, g)
  BY <1>1, <1>2 DEF SeenCell, Passed
<1>4. CoverInv'
  BY <1>1, <1>2, <1>3, CoverKept
<1>5. VisitInv'
  BY <1>1, <1>2 DEF VisitInv
<1>6. RefineInv'
  <2>1. /\ k \in Nat /\ \A i \in 1..Len(run) : run[i] = col.item[k + i]
        /\ HoldsOffers(K, tk, k, S) /\ tk.n = AtMost(k, K)
        /\ Records(K, tk, k, D)
        /\ \A i \in 1..k : Keeps(K, tk, D[col.item[i]], col.item[i])
    BY <1>1, <1>2 DEF RefineInv
  <2>2. /\ col.n \in Nat
        /\ \A i \in 1..col.n : col.item[i] \in Rows
        /\ \A i, j \in 1..col.n : i # j => col.item[i] # col.item[j]
    BY Candidates
  <2>3. k = col.n - Len(run) /\ Len(run) \in Nat \ {0} /\ c = run[1]
    BY <1>1, <1>2 DEF Refined
  <2>4. /\ Len(Tail(run)) = Len(run) - 1
        /\ \A i \in 1..(Len(run) - 1) : Tail(run)[i] = run[i + 1]
    BY <1>1, <1>2
  <2> DEFINE m == Len(run)
  <2> HIDE DEF k, c, d, D, S, m
  <2>5. k + 1 \in 1..col.n /\ c = col.item[k + 1] /\ k + m = col.n /\ m \in Nat \ {0}
    BY <2>1, <2>2, <2>3 DEF m
  <2>6. c \in Rows /\ c \notin S
    <3>1. \A i \in 1..k : i \in 1..col.n /\ i # k + 1
      BY <2>1, <2>2, <2>5
    <3>2. \A i \in 1..k : col.item[i] # c
      BY <2>2, <2>5, <3>1
    <3> QED
      BY <2>2, <2>5, <3>2 DEF S
  <2>7. D[c] = d /\ d \in Int /\ d < Inf /\ c \in Int
    BY <1>2, <2>6, ExactDistType DEF D, d
  <2>8. Refined' = k + 1 /\ \A i \in 1..Len(run') : run'[i] = col.item[(k + 1) + i]
    <3>1. Len(run') = m - 1
      BY <1>1, <2>4 DEF m
    <3>2. Refined' = col.n - (m - 1)
      BY <1>1, <3>1 DEF Refined
    <3>3. col.n - (m - 1) = k + 1
      BY <2>1, <2>5
    <3>4. \A i \in 1..(m - 1) : i + 1 \in 1..m /\ k + (i + 1) = (k + 1) + i
      BY <2>1, <2>5
    <3>5. \A i \in 1..(m - 1) : run'[i] = run[i + 1]
      BY <1>1, <2>4 DEF m
    <3>6. \A i \in 1..m : run[i] = col.item[k + i]
      BY <2>1 DEF m
    <3> QED
      BY <3>1, <3>2, <3>3, <3>4, <3>5, <3>6
  <2>9. {col.item[i] : i \in 1..(k + 1)} = S \cup {c}
    <3>1. \A i \in 1..(k + 1) : i \in 1..k \/ i = k + 1
      BY <2>1
    <3>2. \A i \in 1..k : i \in 1..(k + 1)
      BY <2>1
    <3>3. k + 1 \in 1..(k + 1)
      BY <2>1
    <3> QED
      BY <2>5, <3>1, <3>2, <3>3 DEF S
  <2>10. K \in Nat \ {0} /\ Inf \in Int
    BY SearchAssumption, InfAssumption
  <2>11. HoldsOffers(K, tk', k + 1, S \cup {c})
    BY <1>1, <2>1, <2>6, <2>7, <2>10, ConsiderHolds
  <2>12. tk.n = IF k > K THEN K ELSE k
    BY <2>1 DEF AtMost
  <2>13. /\ Records(K, tk', k + 1, D) /\ Keeps(K, tk', d, c)
         /\ tk'.n = IF k + 1 > K THEN K ELSE k + 1
    BY <1>1, <2>1, <2>7, <2>10, <2>12, ConsiderRecords
  <2>14. ASSUME NEW i \in 1..(k + 1)
         PROVE  Keeps(K, tk', D[col.item[i]], col.item[i])
    <3>1. CASE i = k + 1
      BY <2>5, <2>7, <2>13, <3>1
    <3>2. CASE i \in 1..k
      <4>1. i \in 1..col.n
        BY <2>1, <2>2, <2>5, <3>2
      <4>2. D[col.item[i]] \in Int
        BY <1>2, <2>2, <4>1, ExactDistType DEF D
      <4>3. Keeps(K, tk, D[col.item[i]], col.item[i])
        BY <2>1, <3>2
      <4>4. Keeps(K, Consider(K, tk, d, c), D[col.item[i]], col.item[i])
        BY <2>1, <2>7, <2>10, <2>12, <4>2, <4>3, ConsiderKeeps
      <4> QED
        BY <1>1, <4>4
    <3> QED
      BY <2>1, <3>1, <3>2
  <2>15. ExactDist(ix', q') = D /\ col' = col
    BY <1>1 DEF D
  <2>16. tk'.n = AtMost(k + 1, K)
    BY <2>13 DEF AtMost
  <2>17. k + 1 \in Nat /\ pc' # "done"
    BY <1>1, <2>1
  <2> QED
    BY <2>8, <2>9, <2>11, <2>13, <2>14, <2>15, <2>16, <2>17, ZenonT(60) DEF RefineInv
<1> QED
  BY <1>1, <1>4, <1>5, <1>6 DEF NearInv

\* The second pass begins: the first one was past every bucket.
LEMMA EscalateNear ==
  ASSUME Running, NearInv, Escalate
  PROVE  NearInv'
<1>1. /\ pc = "refine" /\ tier = "cheap" /\ pc' = "buckets" /\ at' = -1 /\ tier' = "high"
      /\ UNCHANGED <<ix, q, cells, run, col, offered>>
  BY DEF Escalate, Escalates
<1>2. CoverInv /\ VisitInv /\ hi = ix.nprobe /\ lo = 0
  BY <1>1 DEF NearInv, Running, PassInv, lo
<1>3. CoverInv'
  <2> SUFFICES ASSUME ix.maxScan = 0, NullUniform', NEW b \in Bucket, NEW g \in Cells, SeenCell(b, g)',
                      NEW r \in RowsOf(ix, g)
               PROVE  Reached(r)'
    BY <1>1 DEF CoverInv
  <2>1. NullUniform
    BY <1>1 DEF NullUniform, Rows
  <2>2. g \in CellSet(ix, q, b, 0, ix.nprobe)
    BY <1>1 DEF SeenCell, Passed
  <2>3. Passed(b)
    <3>1. at = NumBuckets
      BY <1>1, <1>2 DEF VisitInv
    <3> QED
      BY <3>1 DEF Passed, Bucket, NumBuckets
  <2>4. SeenCell(b, g)
    BY <1>1, <1>2, <2>2, <2>3 DEF SeenCell
  <2>5. Reached(r)
    BY <1>2, <2>1, <2>4 DEF CoverInv
  <2> QED
    BY <1>1, <2>5 DEF Reached
<1> QED
  BY <1>1, <1>3, NearKept

\* The query is answered.
LEMMA AnswerNear ==
  ASSUME Running, NearInv, Answer
  PROVE  NearInv'
<1>1. /\ pc = "refine" /\ pc' = "done" /\ run = <<>>
      /\ UNCHANGED <<ix, q, tier, hi, at, cells, run, col, scanned, tk, offered>>
  BY DEF Answer
<1>2. lo' = lo /\ Home' = Home /\ CoverInv /\ VisitInv /\ RefineInv
  BY <1>1 DEF lo, Home, NearInv
<1>3. \A b \in Bucket : \A g \in Cells : SeenCell(b, g)' => SeenCell(b, g)
  BY <1>1, <1>2 DEF SeenCell, Passed
<1>4. CoverInv'
  BY <1>1, <1>2, <1>3, CoverKept
<1>5. VisitInv' /\ RefineInv'
  BY <1>1, <1>2 DEF VisitInv, RefineInv, Refined
<1> QED
  BY <1>1, <1>4, <1>5 DEF NearInv

\* Nothing changes.
LEMMA StutterNear ==
  ASSUME NearInv, UNCHANGED searchVars
  PROVE  NearInv'
<1>1. UNCHANGED <<ix, q, pc, tier, hi, at, cells, run, col, scanned, tk, offered, pruned>>
  BY DEF searchVars
<1>2. lo' = lo /\ Home' = Home /\ Open' = Open /\ CoverInv /\ VisitInv /\ RefineInv
  BY <1>1 DEF lo, Home, Open, NearInv
<1>3. \A b \in Bucket : \A g \in Cells : SeenCell(b, g)' => SeenCell(b, g)
  BY <1>1, <1>2 DEF SeenCell, Passed
<1>4. CoverInv'
  BY <1>1, <1>2, <1>3, CoverKept
<1>5. VisitInv' /\ RefineInv'
  BY <1>1, <1>2 DEF VisitInv, RefineInv, Refined
<1> QED
  BY <1>1, <1>4, <1>5 DEF NearInv

\* A query begins with nothing seen.
LEMMA AskNear ==
  ASSUME IInv, SearchInv, KeyRows, NEW env \in Knobs, NEW v \in Queries, AskBuilt(env, v), Running'
  PROVE  NearInv'
<1>1. phase = "built" /\ pc = "idle"
  BY DEF AskBuilt
<1>2. SearchInit
  BY <1>1 DEF SearchInv, Running, PassInv
<1>3. PICK x \in {BuiltIndex, Reloaded(BuiltIndex)} : Ask(Tuned(x, env), v)
  BY DEF AskBuilt
<1>4. PICK y : y = Tuned(x, env)
  OBVIOUS
<1>5. HardRows(y)
  BY <1>1, <1>4, TunedHardRows
<1>6. KeyDims(v)
  BY KeyDimsAssumption
<1>7. /\ ix' = y /\ q' = v /\ pc' \in {"done", "buckets"}
      /\ y.n # 0 => pc' = "buckets"
      /\ UNCHANGED <<tier, at, cells, run, col, tk, offered>>
  BY <1>3, <1>4 DEF Ask
<1>8. tier = "cheap" /\ at = -1 /\ offered = <<>>
  BY <1>2 DEF SearchInit
<1>9. pc' = "buckets"
  <2>1. ix'.n > 0
    BY DEF Running, PassInv
  <2> QED
    BY <1>7, <2>1
<1>10. CoverInv'
  <2>1. \A b \in Bucket : \A g \in Cells : ~SeenCell(b, g)'
    BY <1>7, <1>8 DEF SeenCell, Passed
  <2> QED
    BY <2>1 DEF CoverInv
<1>11. VisitInv' /\ RefineInv'
  BY <1>9 DEF VisitInv, RefineInv
<1>12. Records(CandK, col', Len(offered'), NearDist(ix', q'))
  <2>1. Len(offered') = 0 /\ \A i \in 1..CandK : ~(i <= 0)
    BY <1>7, <1>8
  <2> QED
    BY <2>1 DEF Records
<1> QED
  BY <1>5, <1>6, <1>7, <1>10, <1>11, <1>12 DEF NearInv

\* What a query under way has collected, over the rows as they were added.
LEMMA NearestInvariant == Spec => [](IInv /\ SearchInv /\ KeyRows /\ (Running => NearInv))
<1>1. Init => IInv /\ SearchInv /\ KeyRows /\ (Running => NearInv)
  <2> SUFFICES ASSUME Init
               PROVE  IInv /\ SearchInv /\ KeyRows /\ (Running => NearInv)
    OBVIOUS
  <2>1. IInv /\ SearchInv /\ KeyRows
    BY BuildInitInv, KeyRowsInit DEF Init, SearchInv
  <2>2. ~Running
    BY DEF Init, SearchInit, Running, PassInv
  <2> QED
    BY <2>1, <2>2
<1>2. ASSUME IInv, SearchInv, KeyRows, Running => NearInv, IInv', SearchInv', [Next]_vars
      PROVE  KeyRows' /\ (Running => NearInv)'
  <2>1. KeyRows'
    BY <1>2, KeyRowsKept
  <2> SUFFICES ASSUME Running'
               PROVE  NearInv'
    BY <2>1
  <2>2. ASSUME UNCHANGED searchVars
        PROVE  NearInv'
    <3>1. Running
      <4>1. CASE SearchInit
        BY <2>2, <4>1 DEF searchVars, SearchInit, Running, PassInv
      <4>2. CASE ix.n = 0
        BY <2>2, <4>2 DEF searchVars, Running, PassInv
      <4> QED
        BY <1>2, <4>1, <4>2 DEF SearchInv
    <3> QED
      BY <1>2, <2>2, <3>1, StutterNear
  <2>3. CASE BuildStep
    BY <2>2, <2>3 DEF BuildStep
  <2>4. CASE \E env \in Knobs, v \in Queries : AskBuilt(env, v)
    BY <1>2, <2>4, AskNear
  <2>5. CASE SearchStep
    <3>1. SearchNext
      BY <2>5 DEF SearchStep
    <3>2. Running
      BY <1>2, <3>1, StepRuns
    <3>3. NearInv
      BY <1>2, <3>2
    <3> QED
      BY <3>1, <3>2, <3>3, OpenNear, PassOverNear, CloseNear, OpenCellNear, CollectNear, EndPassNear,
         RefineNear, EscalateNear, AnswerNear DEF SearchNext
  <2>6. CASE UNCHANGED vars
    BY <2>2, <2>6 DEF vars
  <2> QED
    BY <1>2, <2>3, <2>4, <2>5, <2>6 DEF Next
<1> QED
  BY <1>1, <1>2, EngineInvariant, PTL DEF Spec

-----------------------------------------------------------------------------
\* What the collector holds at the end.

\* Behind the last bucket, the cells seen are the nearest ones of the last pass:
\* the ranks of the two passes are those of one.
LEMMA SeenAreNearest ==
  ASSUME PassInv, pc = "done", NEW b \in Bucket, NEW g
  PROVE  /\ SeenCell(b, g) => \E i \in 1..ProbesOf(ix, hi) : g = NearestCells(ix, q, b, ProbesOf(ix, hi))[i]
         /\ at = NumBuckets =>
              \A i \in 1..ProbesOf(ix, hi) : SeenCell(b, NearestCells(ix, q, b, ProbesOf(ix, hi))[i])
<1> DEFINE np == ProbesOf(ix, hi)
           s == NearestCells(ix, q, b, np)
           p == ix.nprobe
<1>1. /\ UsableIndex(ix) /\ q \in Vector /\ lo \in Nat /\ hi \in Nat /\ p \in Nat /\ p \in 1..NList
      /\ tier \in {"cheap", "high"} /\ NList \in Nat /\ ix.nlist = NList /\ MaxProbe \in Nat
  BY PassBounds, Params, GridAssumption DEF PassInv, UsableIndex
<1>2. np \in 1..NList /\ CellSet(ix, q, b, lo, hi) = {s[i] : i \in (lo + 1)..np}
  <2>1. ProbesOf(ix, hi) \in 1..NList
    BY <1>1, RangeRanks
  <2>2. PICK from \in Nat : from = lo
    BY <1>1
  <2>3. CellSet(ix, q, b, from, hi) =
          {NearestCells(ix, q, b, ProbesOf(ix, hi))[i] : i \in (from + 1)..ProbesOf(ix, hi)}
    BY <1>1, RangeRanks
  <2> QED
    BY <2>1, <2>2, <2>3
<1>3. at = NumBuckets => Passed(b)
  BY DEF Passed, Bucket, NumBuckets
<1>4. CASE tier = "cheap"
  <2>1. lo = 0
    BY <1>4 DEF lo
  <2>2. CellSet(ix, q, b, lo, hi) = {s[i] : i \in 1..np}
    BY <1>2, <2>1
  <2> HIDE DEF np, s
  <2>3. SeenCell(b, g) => \E i \in 1..np : g = s[i]
    BY <1>4, <2>2 DEF SeenCell
  <2>4. ASSUME at = NumBuckets, NEW i \in 1..np
        PROVE  SeenCell(b, s[i])
    BY <1>3, <2>2, <2>4 DEF SeenCell
  <2> QED
    BY <2>3, <2>4 DEF np, s
<1>5. CASE tier = "high"
  <2>1. hi \in 0..NList /\ hi <= MaxProbe /\ p < hi /\ lo = p
    BY <1>5 DEF PassInv, HighProbes, lo
  <2>2. np = hi /\ ProbesOf(ix, p) = p /\ np \in Nat
    BY <1>1, <2>1 DEF ProbesOf, ClampedProbe
  <2>3. CellSet(ix, q, b, 0, p) = {NearestCells(ix, q, b, p)[i] : i \in 1..p}
    <3>1. CellSet(ix, q, b, 0, p) = {NearestCells(ix, q, b, ProbesOf(ix, p))[i] : i \in (0 + 1)..ProbesOf(ix, p)}
      BY <1>1, RangeRanks
    <3> HIDE DEF p
    <3> QED
      BY <2>2, <3>1
  <2>4. \A i \in 1..p : NearestCells(ix, q, b, p)[i] = s[i]
    <3>1. p \in 1..NList /\ np \in 1..NList /\ p <= np
      BY <1>1, <1>2, <2>1, <2>2
    <3> HIDE DEF p, np
    <3> QED
      BY <1>1, <3>1, NearestCellsPrefix
  <2>5. \A i \in 1..np : i \in 1..p \/ i \in (p + 1)..np
    BY <1>1, <2>2
  <2>6. (\A i \in 1..p : i \in 1..np) /\ (\A i \in (p + 1)..np : i \in 1..np)
    BY <1>1, <2>1, <2>2
  <2>7. CellSet(ix, q, b, lo, hi) = {s[i] : i \in (p + 1)..np}
    BY <1>2, <2>1
  <2> HIDE DEF np, s
  <2>8. ASSUME SeenCell(b, g)
        PROVE  \E i \in 1..np : g = s[i]
    <3>1. CASE g \in CellSet(ix, q, b, 0, p)
      BY <2>3, <2>4, <2>6, <3>1
    <3>2. CASE g \in CellSet(ix, q, b, lo, hi)
      BY <2>6, <2>7, <3>2
    <3> QED
      BY <2>8, <3>1, <3>2 DEF SeenCell
  <2>9. ASSUME at = NumBuckets, NEW i \in 1..np
        PROVE  SeenCell(b, s[i])
    <3>1. CASE i \in 1..p
      <4>1. s[i] \in CellSet(ix, q, b, 0, p)
        BY <2>3, <2>4, <3>1
      <4> QED
        BY <1>5, <4>1 DEF SeenCell
    <3>2. CASE i \in (p + 1)..np
      <4>1. s[i] \in CellSet(ix, q, b, lo, hi)
        BY <2>7, <3>2
      <4> QED
        BY <1>3, <2>9, <4>1 DEF SeenCell
    <3> QED
      BY <2>5, <3>1, <3>2
  <2> QED
    BY <2>8, <2>9 DEF np, s
<1> QED
  BY <1>1, <1>4, <1>5

\* The rows of the nearest cells, cell by cell.
LEMMA ProbedRowsAre ==
  ASSUME PassInv, NEW r
  PROVE  r \in ProbedRows(hi) <=>
           \E b \in Bucket : \E i \in 1..ProbesOf(ix, hi) :
             r \in RowsOf(ix, NearestCells(ix, q, b, ProbesOf(ix, hi))[i])
<1> DEFINE np == ProbesOf(ix, hi)
           s(b) == NearestCells(ix, q, b, np)
<1>1. UsableIndex(ix) /\ q \in Vector /\ hi \in Nat
  BY PassBounds
<1>2. np \in 1..NList
  BY Params, GridAssumption, <1>1 DEF ProbesOf, ClampedProbe, UsableIndex
<1> HIDE DEF np
<1>3. ASSUME NEW b \in Bucket
      PROVE  /\ DOMAIN s(b) = 1..np
             /\ \A i \in 1..np : s(b)[i] \in Cells
  <2>1. s(b) \in [1..np -> Block(b)]
    BY <1>1, <1>2, NearestCellsFacts
  <2>2. Block(b) \subseteq Cells
    BY CellBlocks
  <2> QED
    BY <2>1, <2>2
<1>4. \A b \in Bucket : ToSet(s(b)) = {s(b)[i] : i \in 1..np}
  BY <1>3 DEF ToSet
<1>5. \A c \in Cells : ToSet(CellRows(ix, c)) = RowsOf(ix, c)
  BY <1>1, CellRowsFacts
<1>6. ProbedRows(hi) = UNION {ToSet(CellRows(ix, c)) : c \in UNION {ToSet(s(b)) : b \in Bucket}}
  BY DEF ProbedRows, np
<1> HIDE DEF s
<1>7. ASSUME r \in ProbedRows(hi)
      PROVE  \E b \in Bucket : \E i \in 1..np : r \in RowsOf(ix, s(b)[i])
  <2>1. PICK b \in Bucket : \E c \in ToSet(s(b)) : r \in ToSet(CellRows(ix, c))
    BY <1>6, <1>7
  <2>2. PICK c \in ToSet(s(b)) : r \in ToSet(CellRows(ix, c))
    BY <2>1
  <2>3. PICK i \in 1..np : c = s(b)[i]
    BY <1>4
  <2> QED
    BY <1>3, <1>5, <2>2, <2>3
<1>8. ASSUME NEW b \in Bucket, NEW i \in 1..np, r \in RowsOf(ix, s(b)[i])
      PROVE  r \in ProbedRows(hi)
  <2>1. s(b)[i] \in ToSet(s(b)) /\ r \in ToSet(CellRows(ix, s(b)[i]))
    BY <1>3, <1>4, <1>5, <1>8
  <2> QED
    BY <1>6, <2>1
<1> QED
  BY <1>7, <1>8 DEF np, s

\* A search without a cap ends with the nearest candidates, whatever it pruned.
LEMMA DoneCollects ==
  ASSUME Running, NearInv, pc = "done", ix.maxScan = 0, NullUniform
  PROVE  /\ Items(col) \subseteq ProbedRows(hi)
         /\ \A r \in ProbedRows(hi) : r \in Rows /\ Keeps(CandK, col, NearDist(ix, q)[r], r)
<1>1. PassInv /\ StreamInv /\ CoverInv /\ at = NumBuckets
  BY DEF Running, NearInv, VisitInv
<1>2. UsableIndex(ix) /\ q \in Vector /\ hi \in Nat
  BY <1>1, PassBounds
<1> DEFINE np == ProbesOf(ix, hi)
           s(b) == NearestCells(ix, q, b, np)
<1>3. np \in 1..NList
  BY Params, GridAssumption, <1>2 DEF ProbesOf, ClampedProbe, UsableIndex
<1>4. \A b \in Bucket : \A i \in 1..np : s(b)[i] \in Cells
  <2> SUFFICES ASSUME NEW b \in Bucket, NEW i \in 1..np
               PROVE  s(b)[i] \in Cells
    OBVIOUS
  <2> HIDE DEF np
  <2>1. s(b) \in [1..np -> Block(b)]
    BY <1>2, <1>3, NearestCellsFacts
  <2>2. Block(b) \subseteq Cells
    BY CellBlocks
  <2> QED
    BY <2>1, <2>2
<1>5. ASSUME NEW r \in Items(col)
      PROVE  r \in ProbedRows(hi)
  <2>1. r \in ToSet(offered)
    BY Candidates DEF Items
  <2>2. Behind(r)
    <3>1. Stream = offered
      BY DEF Stream
    <3> QED
      BY <1>1, <2>1, <3>1 DEF StreamInv
  <2>3. PICK b \in Bucket, g \in Cells : SeenCell(b, g) /\ r \in RowsOf(ix, g)
    BY <2>2 DEF Behind
  <2>4. PICK i \in 1..np : g = s(b)[i]
    BY <1>1, <2>3, SeenAreNearest
  <2>5. \E c \in Bucket : \E j \in 1..ProbesOf(ix, hi) :
          r \in RowsOf(ix, NearestCells(ix, q, c, ProbesOf(ix, hi))[j])
    BY <2>3, <2>4
  <2> QED
    BY <1>1, <2>5, ProbedRowsAre
<1>6. ASSUME NEW r \in ProbedRows(hi)
      PROVE  r \in Rows /\ Keeps(CandK, col, NearDist(ix, q)[r], r)
  <2>1. PICK b \in Bucket, i \in 1..np : r \in RowsOf(ix, s(b)[i])
    BY <1>1, ProbedRowsAre
  <2>2. SeenCell(b, s(b)[i])
    BY <1>1, SeenAreNearest
  <2>3. s(b)[i] \in Cells
    BY <1>4
  <2>4. r \in Rows
    BY <1>2, <2>1, <2>3, CellRowsFacts DEF Rows
  <2>5. Reached(r)
    <3>1. PICK g \in Cells : g = s(b)[i]
      BY <2>3
    <3>2. SeenCell(b, g) /\ r \in RowsOf(ix, g)
      BY <2>1, <2>2, <3>1
    <3> QED
      BY <1>1, <3>2 DEF CoverInv
  <2> QED
    BY <2>4, <2>5 DEF Reached
<1> QED
  BY <1>5, <1>6

\* Whatever the probes' order, the buckets pruned and the escalation: a search
\* without a row cap collects the CandK nearest, by integer distance, of the rows
\* of the nearest cells.
THEOREM CollectorHoldsNearest == Spec => []CollectsNearest
<1>1. SearchInv /\ (Running => NearInv) => CollectsNearest
  <2> SUFFICES ASSUME SearchInv, Running => NearInv, pc = "done", ix.n > 0, ix.maxScan = 0, NullUniform
               PROVE  /\ Items(col) \subseteq ProbedRows(hi)
                      /\ \A r \in ProbedRows(hi) : KeptOrBeaten(r, intDist(qcode, RowCode(ix, r)), CandK, col)
    BY DEF CollectsNearest
  <2>1. Running
    BY DEF SearchInv, SearchInit
  <2>2. Running /\ NearInv /\ PassInv
    BY <2>1 DEF Running
  <2>3. /\ Items(col) \subseteq ProbedRows(hi)
        /\ \A r \in ProbedRows(hi) : r \in Rows /\ Keeps(CandK, col, NearDist(ix, q)[r], r)
    BY <2>2, DoneCollects
  <2>4. ASSUME NEW r \in ProbedRows(hi)
        PROVE  KeptOrBeaten(r, intDist(qcode, RowCode(ix, r)), CandK, col)
    <3>1. Keeps(CandK, col, intDist(qcode, RowCode(ix, r)), r)
      BY <2>2, <2>3, NearDistType
    <3> QED
      BY <3>1 DEF Keeps, KeptOrBeaten, Items, IsFull, Worst
  <2> QED
    BY <2>3, <2>4
<1> QED
  BY <1>1, NearestInvariant, PTL

-----------------------------------------------------------------------------
\* The cells a pass leaves out.

\* The distance of every centroid to the query.
CentroidDist(x, v) == [g \in Cells |-> intDist(Quantized(v), CentroidAt(x, g))]

\* What the selection knows of the first c cells of the bucket.
Ranks(x, v, b, np, buf, c) ==
  /\ buf.n = IF c > np THEN np ELSE c
  /\ Records(np, buf, c, CentroidDist(x, v))
  /\ \A e \in 1..c : Keeps(np, buf, CentroidDist(x, v)[CellAt(x, b, e)], CellAt(x, b, e))

\* After c turns the probe buffer has the c first cells, or beats those it dropped.
LEMMA SelectionRanks ==
  ASSUME NEW x, UsableIndex(x), NEW v \in Vector, NEW b \in Bucket, NEW np \in Nat \ {0}
  PROVE  \A c \in 0..NList : Ranks(x, v, b, np, Selection(x, v, b, np)[c], c)
<1> DEFINE f == Selection(x, v, b, np)
           D == CentroidDist(x, v)
           P == {c \in 0..NList : Ranks(x, v, b, np, f[c], c)}
<1>0. NList \in Nat /\ Inf \in Int
  BY Params, InfAssumption
<1>1. f[0] = EmptyBuffer(np, 0) /\ \A c \in 1..NList : f[c] = ProbeTurn(x, v, b, np, f, c)
  BY SelectionIs
<1>2. \A c \in 0..NList : HoldsOffers(np, f[c], c, (b * NList)..(b * NList + c - 1))
  BY SelectionHolds
<1>3. ASSUME NEW c \in 1..NList
      PROVE  /\ Probed(x, v, b, c) \in Int /\ Probed(x, v, b, c) < Inf
             /\ D[CellAt(x, b, c)] = Probed(x, v, b, c)
  <2>1. Probed(x, v, b, c) \in Int /\ Probed(x, v, b, c) < Inf /\ CellAt(x, b, c) \in Cells
    BY ProbedFacts, CellBlocks
  <2>2. Probed(x, v, b, c) = intDist(Quantized(v), CentroidAt(x, CellAt(x, b, c)))
    BY DEF Probed, CellAt
  <2> QED
    BY <2>1, <2>2, Zenon DEF CentroidDist
<1> HIDE DEF f, D
<1>4. 0 \in P
  <2>1. f[0].n = 0 /\ 0 \in 0..NList
    BY <1>0, <1>1 DEF EmptyBuffer
  <2>2. Records(np, f[0], 0, D)
    BY DEF Records
  <2> QED
    BY <2>1, <2>2 DEF Ranks, D
<1>5. ASSUME NEW c \in 1..NList, c - 1 \in P
      PROVE  c \in P
  <2>1. /\ f[c - 1].n = (IF c - 1 > np THEN np ELSE c - 1) /\ Records(np, f[c - 1], c - 1, D)
        /\ \A e \in 1..(c - 1) : Keeps(np, f[c - 1], D[CellAt(x, b, e)], CellAt(x, b, e))
        /\ c - 1 \in Nat
    BY <1>5 DEF Ranks, D
  <2>2. PICK S : HoldsOffers(np, f[c - 1], c - 1, S)
    BY <1>2, <1>5
  <2>3. PICK d \in Int : d = Probed(x, v, b, c) /\ d < Inf /\ D[CellAt(x, b, c)] = d
    BY <1>3
  <2>4. f[c] = Consider(np, f[c - 1], d, CellAt(x, b, c))
    BY <1>1, <2>3 DEF ProbeTurn
  <2>5. /\ Records(np, f[c], (c - 1) + 1, D)
        /\ f[c].n = (IF (c - 1) + 1 > np THEN np ELSE (c - 1) + 1)
        /\ Keeps(np, f[c], d, CellAt(x, b, c))
    BY <1>0, <2>1, <2>2, <2>3, <2>4, ConsiderRecords
  <2>6. ASSUME NEW e \in 1..(c - 1)
        PROVE  Keeps(np, f[c], D[CellAt(x, b, e)], CellAt(x, b, e))
    <3>1. Keeps(np, f[c - 1], D[CellAt(x, b, e)], CellAt(x, b, e)) /\ D[CellAt(x, b, e)] \in Int
      <4>1. e \in 1..NList
        BY <1>0
      <4> QED
        BY <1>3, <2>1, <4>1
    <3>2. Keeps(np, Consider(np, f[c - 1], d, CellAt(x, b, c)), D[CellAt(x, b, e)], CellAt(x, b, e))
      BY <1>0, <2>1, <2>2, <2>3, <3>1, ConsiderKeeps
    <3> QED
      BY <2>4, <3>2
  <2>7. \A e \in 1..c : e = c \/ e \in 1..(c - 1)
    OBVIOUS
  <2>8. \A e \in 1..c : Keeps(np, f[c], D[CellAt(x, b, e)], CellAt(x, b, e))
    BY <2>3, <2>5, <2>6, <2>7
  <2>9. (c - 1) + 1 = c
    OBVIOUS
  <2> QED
    BY <2>5, <2>8, <2>9 DEF Ranks, D
<1>6. P = 0..NList
  <2>1. P \in SUBSET (0..NList)
    OBVIOUS
  <2> HIDE DEF P
  <2> QED
    BY <1>0, <1>4, <1>5, <2>1, LoopInduction
<1> QED
  BY <1>6 DEF f

\* A cell not among the np nearest has np others of its bucket before it.
LEMMA LeftOutIsOutranked ==
  ASSUME NEW x, UsableIndex(x), NEW v \in Vector, NEW b \in Bucket, NEW np \in 1..NList, NEW g \in Block(b),
         \A i \in 1..np : NearestCells(x, v, b, np)[i] # g
  PROVE  Cardinality({c \in Block(b) \ {g} : CentroidDist(x, v)[c] <= CentroidDist(x, v)[g]}) >= np
<1> DEFINE D == CentroidDist(x, v)
           before == {c \in Block(b) \ {g} : D[c] <= D[g]}
           s == NearestCells(x, v, b, np)
<1>1. NList \in Nat /\ np \in Nat \ {0} /\ np \in 1..np /\ np <= NList
  BY Params
<1>2. PICK last : last = Selection(x, v, b, np)[NList]
  OBVIOUS
<1>3. HoldsOffers(np, last, NList, (b * NList)..(b * NList + NList - 1)) /\ Ranks(x, v, b, np, last, NList)
  BY <1>1, <1>2, SelectionHolds, SelectionRanks
<1>4. s = last.item
  BY <1>1, <1>2, SelectionIs
<1>5. s \in [1..np -> Block(b)] /\ \A i, j \in 1..np : i # j => s[i] # s[j]
  BY <1>1, NearestCellsFacts
<1>6. last.n = np /\ last.dist \in [1..np -> Int] /\ Sorted(np, last.dist)
  BY <1>1, <1>3 DEF Ranks, HoldsOffers
<1>7. PICK e \in 1..NList : CellAt(x, b, e) = g
  <2>1. PICK m \in Nat : m = b * NList
    BY CellBlocks
  <2>2. g \in m..(m + NList - 1)
    BY <2>1, Zenon DEF Block
  <2>3. PICK e \in 1..NList : m + e - 1 = g
    <3>1. g - m + 1 \in 1..NList /\ m + (g - m + 1) - 1 = g
      BY <1>1, <2>1, <2>2
    <3> QED
      BY <3>1
  <2>4. CellAt(x, b, e) = b * NList + e - 1
    BY ProbedFacts
  <2> QED
    BY <2>1, <2>3, <2>4
<1>8. D[g] >= last.dist[np]
  <2>1. Keeps(np, last, D[g], g)
    BY <1>3, <1>7 DEF Ranks
  <2> HIDE DEF D
  <2> QED
    BY <1>4, <1>6, <2>1 DEF Keeps
<1>9. D[g] \in Int
  <2>1. Probed(x, v, b, e) \in Int /\ CellAt(x, b, e) \in Cells
    BY ProbedFacts, CellBlocks
  <2>2. Probed(x, v, b, e) = intDist(Quantized(v), CentroidAt(x, CellAt(x, b, e)))
    BY DEF Probed, CellAt
  <2> QED
    BY <1>7, <2>1, <2>2, Zenon DEF CentroidDist
<1>10. \A i \in 1..np : last.dist[i] = D[s[i]]
  BY <1>1, <1>3, <1>4 DEF Ranks, Records
<1> HIDE DEF D, s
<1>11. ASSUME NEW i \in 1..np
       PROVE  s[i] \in before
  <2>1. last.dist[i] <= last.dist[np] /\ last.dist[i] \in Int /\ last.dist[np] \in Int
    BY <1>1, <1>6 DEF Sorted
  <2>2. D[s[i]] <= D[g]
    BY <1>8, <1>9, <1>10, <2>1
  <2>3. s[i] # g
    BY DEF s
  <2> QED
    BY <1>5, <2>2, <2>3
<1>12. s \in Seq(Block(b)) /\ Len(s) = np
  BY <1>1, <1>5
<1>13. Distinct(s)
  BY <1>5, <1>12 DEF Distinct
<1>14. Cardinality(ToSet(s)) = np
  BY <1>12, <1>13, DistinctCardinality
<1>15. IsFiniteSet(before)
  <2>1. PICK m \in Nat : m = b * NList
    BY CellBlocks
  <2>2. Block(b) = m..(m + NList - 1)
    BY <2>1, Zenon DEF Block
  <2>3. IsFiniteSet(m..(m + NList - 1))
    BY <1>1, FS_Interval
  <2>4. before \in SUBSET (m..(m + NList - 1))
    BY <2>2
  <2> QED
    BY <2>3, <2>4, FS_Subset
<1>16. ToSet(s) \in SUBSET before
  BY <1>11, <1>12 DEF ToSet
<1>17. Cardinality(before) \in Nat /\ Cardinality(ToSet(s)) <= Cardinality(before)
  BY <1>15, <1>16, FS_Subset, FS_CardinalityType
<1> QED
  BY <1>1, <1>14, <1>17 DEF D

\* Every cell belongs to a bucket.
LEMMA CellHasBucket ==
  ASSUME NEW g \in Cells
  PROVE  \E b \in Bucket : g \in Block(b)
<1>1. NList \in Nat /\ NList > 0 /\ g \in 0..(NumBuckets * NList - 1)
  BY Params DEF Cells
<1>2. PICK b \in Int : b = g \div NList
  BY <1>1
<1>3. b \in Bucket /\ b * NList <= g /\ g < b * NList + NList
  <2>1. g % NList \in 0..(NList - 1) /\ g = NList * b + (g % NList)
    BY <1>1, <1>2
  <2>2. PICK m \in Int : m = NList * b
    BY <1>1
  <2>3. b * NList = m
    BY <1>1, <2>2
  <2>4. m <= g /\ g < m + NList
    BY <1>1, <2>1, <2>2
  <2>5. b >= 0 /\ b < NumBuckets
    <3>1. b < 0 => NList * b <= -NList
      BY <1>1
    <3>2. b >= NumBuckets => NList * b >= NList * NumBuckets
      BY <1>1 DEF NumBuckets
    <3>3. NList * NumBuckets = NumBuckets * NList /\ NumBuckets * NList \in Nat
      BY <1>1 DEF NumBuckets
    <3>4. NumBuckets \in Nat
      BY DEF NumBuckets
    <3> QED
      BY <1>1, <2>2, <2>4, <3>1, <3>2, <3>3, <3>4
  <2>6. b \in Bucket
    BY <2>5 DEF Bucket, NumBuckets
  <2> QED
    BY <2>3, <2>4, <2>6
<1>4. g \in Block(b)
  <2>1. PICK m \in Nat : m = b * NList
    BY <1>3, CellBlocks
  <2> QED
    BY <1>1, <1>3, <2>1 DEF Block
<1> QED
  BY <1>3, <1>4

\* A row left out lies in a cell with as many before it as were probed.
LEMMA LeftOutRows ==
  ASSUME PassInv, HardRows(ix), NEW r \in Rows, r \notin ProbedRows(hi)
  PROVE  \E b \in Bucket : \E c \in CellsOf(b) :
           r \in ToSet(CellRows(ix, c)) /\ Outranked(b, c, ProbesOf(ix, hi))
<1>1. UsableIndex(ix) /\ q \in Vector /\ ix.nlist = NList /\ hi \in Nat
  BY PassBounds DEF UsableIndex
<1>2. PICK np \in 1..NList : np = ProbesOf(ix, hi)
  BY <1>1, Params, GridAssumption DEF ProbesOf, ClampedProbe, UsableIndex
<1>3. PICK g \in Cells : r \in RowsOf(ix, g)
  BY DEF HardRows, Rows
<1>4. PICK b \in Bucket : g \in Block(b)
  BY CellHasBucket
<1>5. \A i \in 1..np : NearestCells(ix, q, b, np)[i] # g
  <2> SUFFICES ASSUME NEW i \in 1..np, NearestCells(ix, q, b, np)[i] = g
               PROVE  FALSE
    OBVIOUS
  <2>1. \E a \in Bucket : \E j \in 1..ProbesOf(ix, hi) :
          r \in RowsOf(ix, NearestCells(ix, q, a, ProbesOf(ix, hi))[j])
    BY <1>2, <1>3
  <2> QED
    BY <2>1, ProbedRowsAre
<1>6. Cardinality({c \in Block(b) \ {g} : CentroidDist(ix, q)[c] <= CentroidDist(ix, q)[g]}) >= np
  BY <1>1, <1>4, <1>5, LeftOutIsOutranked
<1>7. CellsOf(b) = Block(b)
  BY <1>1, Zenon DEF CellsOf, Block
<1>8. \A c \in Block(b) : CentroidDist(ix, q)[c] = intDist(qcode, CentroidAt(ix, c))
  BY CellBlocks DEF CentroidDist, qcode
<1>9. {c \in Block(b) \ {g} : CentroidDist(ix, q)[c] <= CentroidDist(ix, q)[g]}
        = {c \in CellsOf(b) \ {g} : intDist(qcode, CentroidAt(ix, c)) <= intDist(qcode, CentroidAt(ix, g))}
  BY <1>4, <1>7, <1>8
<1>10. Outranked(b, g, ProbesOf(ix, hi))
  BY <1>2, <1>6, <1>9 DEF Outranked
<1>11. r \in ToSet(CellRows(ix, g))
  BY <1>1, <1>3, CellRowsFacts
<1> QED
  BY <1>4, <1>7, <1>10, <1>11

-----------------------------------------------------------------------------
\* For a query on the grid the two distances agree.

\* In one dimension.
LEMMA OnGridDigit ==
  ASSUME NEW v \in Value, v % Sub = 0, NEW u \in Code, v = Null <=> u = 0
  PROVE  /\ Sq(v - dequant(u)) = Sq(quantize(v) - u) * Sq(Sub)
         /\ Sq(quantize(v) - u) \in Nat
<1>1. /\ Sub \in Nat /\ Sub > 0 /\ G \in Nat /\ G > 0 /\ Scale = G * Sub /\ Scale \in Nat /\ Scale > 0
      /\ u \in Nat /\ v \in Int
  BY ScaleNat DEF Scale, Code, MaxCode, Value, Null
<1>2. CASE v = Null
  <2>1. v < 0 /\ u = 0
    BY <1>1, <1>2 DEF Null
  <2>2. quantize(v) = 0 /\ dequant(u) = v
    BY <1>2, <2>1 DEF quantize, dequant
  <2>3. quantize(v) - u = 0 /\ v - dequant(u) = 0
    BY <1>1, <2>1, <2>2
  <2>4. Sq(0) = 0 /\ Sq(Sub) \in Nat /\ 0 * Sq(Sub) = 0
    BY <1>1 DEF Sq
  <2> QED
    BY <2>3, <2>4
<1>3. CASE v # Null
  <2>1. v \in 0..Scale /\ u # 0
    BY <1>3 DEF Value
  <2>2. PICK m \in Nat : v = m * Sub
    <3>1. PICK m \in Int : m = v \div Sub
      BY <1>1
    <3>2. v = Sub * m + (v % Sub)
      BY <1>1, <3>1
    <3>3. v = m * Sub
      BY <1>1, <3>2
    <3>4. m >= 0
      <4>1. m < 0 => m * Sub < 0
        BY <1>1
      <4> QED
        BY <2>1, <3>3, <4>1
    <3> QED
      BY <3>3, <3>4
  <2>3. quantize(v) = m + 1
    <3>1. 2 * v + Sub = m * (2 * Sub) + Sub
      BY <1>1, <2>2
    <3>2. Sub \in 0..(2 * Sub - 1) /\ 2 * Sub \in Nat /\ 2 * Sub > 0
      BY <1>1
    <3>3. (m * (2 * Sub) + Sub) \div (2 * Sub) = m
      BY <3>2, DivMod
    <3>4. Round(v) = m
      BY <3>1, <3>3 DEF Round
    <3> QED
      BY <1>1, <2>1, <3>4 DEF quantize
  <2>4. dequant(u) = (u - 1) * Sub
    BY <2>1 DEF dequant
  <2>5. PICK e \in Int : e = quantize(v) - u
    BY <1>1, <2>3
  <2>6. v - dequant(u) = e * Sub
    <3>1. \A a, b \in Int : a * Sub - b * Sub = (a - b) * Sub
      BY <1>1
    <3>2. m - (u - 1) = e /\ m \in Int /\ u - 1 \in Int
      BY <1>1, <2>3, <2>5
    <3> QED
      BY <2>2, <2>4, <3>1, <3>2
  <2>7. Sq(e * Sub) = Sq(e) * Sq(Sub) /\ Sq(e) \in Nat
    <3>1. (e * Sub) * (e * Sub) = (e * e) * (Sub * Sub)
      BY <1>1
    <3>2. e * e \in Int /\ e * e >= 0
      OBVIOUS
    <3> QED
      BY <3>1, <3>2 DEF Sq
  <2> QED
    BY <2>5, <2>6, <2>7
<1> QED
  BY <1>2, <1>3

\* A sum of fourteen multiples.
LEMMA Sum14Scaled ==
  ASSUME NEW k \in Nat, NEW t, NEW w, \A i \in Dim : t[i] \in Nat /\ w[i] = t[i] * k
  PROVE  Sum14(w) = Sum14(t) * k
<1>1. \A i \in 0..13 : t[i] \in Nat /\ w[i] = t[i] * k
  BY DEF Dim
<1>2. \A a, b \in Nat : (a + b) * k = a * k + b * k /\ a * k \in Nat
  OBVIOUS
<1>3. /\ t[0] \in Nat /\ t[1] \in Nat /\ t[2] \in Nat /\ t[3] \in Nat /\ t[4] \in Nat
      /\ t[5] \in Nat /\ t[6] \in Nat /\ t[7] \in Nat /\ t[8] \in Nat /\ t[9] \in Nat
      /\ t[10] \in Nat /\ t[11] \in Nat /\ t[12] \in Nat /\ t[13] \in Nat
  BY <1>1
<1>4. PICK a \in Nat : a = t[0] + t[1] + t[2] + t[3] /\ w[0] + w[1] + w[2] + w[3] = a * k
  <2>1. PICK x \in Nat : x = t[0] + t[1] /\ w[0] + w[1] = x * k
    BY <1>1, <1>2, <1>3
  <2>2. PICK y \in Nat : y = x + t[2] /\ w[0] + w[1] + w[2] = y * k
    BY <1>1, <1>2, <1>3, <2>1
  <2> QED
    BY <1>1, <1>2, <1>3, <2>1, <2>2
<1>5. PICK b \in Nat : b = a + t[4] + t[5] + t[6] /\ a * k + w[4] + w[5] + w[6] = b * k
  <2>1. PICK x \in Nat : x = a + t[4] /\ a * k + w[4] = x * k
    BY <1>1, <1>2, <1>3
  <2>2. PICK y \in Nat : y = x + t[5] /\ a * k + w[4] + w[5] = y * k
    BY <1>1, <1>2, <1>3, <2>1
  <2> QED
    BY <1>1, <1>2, <1>3, <2>1, <2>2
<1>6. PICK c \in Nat : c = b + t[7] + t[8] + t[9] /\ b * k + w[7] + w[8] + w[9] = c * k
  <2>1. PICK x \in Nat : x = b + t[7] /\ b * k + w[7] = x * k
    BY <1>1, <1>2, <1>3
  <2>2. PICK y \in Nat : y = x + t[8] /\ b * k + w[7] + w[8] = y * k
    BY <1>1, <1>2, <1>3, <2>1
  <2> QED
    BY <1>1, <1>2, <1>3, <2>1, <2>2
<1>7. PICK d \in Nat : d = c + t[10] + t[11] /\ c * k + w[10] + w[11] = d * k
  <2>1. PICK x \in Nat : x = c + t[10] /\ c * k + w[10] = x * k
    BY <1>1, <1>2, <1>3
  <2> QED
    BY <1>1, <1>2, <1>3, <2>1
<1>8. PICK e \in Nat : e = d + t[12] + t[13] /\ d * k + w[12] + w[13] = e * k
  <2>1. PICK x \in Nat : x = d + t[12] /\ d * k + w[12] = x * k
    BY <1>1, <1>2, <1>3
  <2> QED
    BY <1>1, <1>2, <1>3, <2>1
<1>9. Sum14(t) = e
  BY <1>4, <1>5, <1>6, <1>7, <1>8 DEF Sum14
<1>10. Sum14(w) = e * k
  <2>1. Sum14(w) = a * k + w[4] + w[5] + w[6] + w[7] + w[8] + w[9] + w[10] + w[11] + w[12] + w[13]
    BY <1>4 DEF Sum14
  <2>2. Sum14(w) = b * k + w[7] + w[8] + w[9] + w[10] + w[11] + w[12] + w[13]
    BY <1>5, <2>1
  <2>3. Sum14(w) = c * k + w[10] + w[11] + w[12] + w[13]
    BY <1>6, <2>2
  <2>4. Sum14(w) = d * k + w[12] + w[13]
    BY <1>7, <2>3
  <2> QED
    BY <1>8, <2>4
<1> QED
  BY <1>9, <1>10

\* In all of them.
LEMMA OnGridDistance ==
  ASSUME NEW v \in Vector, KeyDims(v), \A i \in Dim : v[i] % Sub = 0,
         NEW code \in [Dim -> Code], KeyDims(Dequantized(code)), (code[5] = 0) = IsNull(v)
  PROVE  dist2(v, code) = intDist(Quantized(v), code) * Sq(Sub)
<1> DEFINE w == [i \in Dim |-> Sq(v[i] - dequant(code[i]))]
           t == [i \in Dim |-> Sq(Quantized(v)[i] - code[i])]
<1>1. Scale \in Nat /\ Scale > 0 /\ Sub \in Nat /\ Sub > 0
  BY ScaleNat
<1>2. \A u \in Code : dequant(u) = Null <=> u = 0
  <2> SUFFICES ASSUME NEW u \in Code, u # 0
               PROVE  dequant(u) # Null
    BY DEF dequant
  <2>1. u - 1 \in Nat
    BY ScaleNat DEF Code, MaxCode
  <2>2. (u - 1) * Sub \in Nat
    BY <1>1, <2>1
  <2> QED
    BY <1>1, <2>2 DEF dequant, Null
<1>3. \A i \in Dim : code[i] \in Code /\ v[i] \in Value /\ Dequantized(code)[i] = dequant(code[i])
                     /\ Quantized(v)[i] = quantize(v[i])
  BY DEF Vector, Dequantized, Quantized
<1>4. 5 \in Dim
  BY DEF Dim
<1>5. v[5] = Null <=> code[5] = 0
  <2>1. v[5] \in Value
    BY <1>3, <1>4
  <2>2. v[5] < 0 <=> v[5] = Null
    BY <1>1, <2>1 DEF Value, Null
  <2> QED
    BY <2>2 DEF IsNull
<1>6. \A i \in Dim : v[i] = Null <=> code[i] = 0
  BY <1>2, <1>3, <1>4, <1>5 DEF KeyDims
<1>7. ASSUME NEW i \in Dim
      PROVE  t[i] \in Nat /\ w[i] = t[i] * Sq(Sub)
  <2>1. v[i] % Sub = 0 /\ code[i] \in Code /\ v[i] \in Value /\ (v[i] = Null <=> code[i] = 0)
    BY <1>3, <1>6
  <2>2. /\ Sq(v[i] - dequant(code[i])) = Sq(quantize(v[i]) - code[i]) * Sq(Sub)
        /\ Sq(quantize(v[i]) - code[i]) \in Nat
    BY <2>1, OnGridDigit
  <2> QED
    BY <1>3, <2>2
<1>8. dist2(v, code) = Sum14(w) /\ intDist(Quantized(v), code) = Sum14(t)
  BY DEF dist2, intDist
<1>9. Sq(Sub) \in Nat
  BY <1>1 DEF Sq
<1> HIDE DEF w, t
<1>10. Sum14(w) = Sum14(t) * Sq(Sub)
  BY <1>7, <1>9, Sum14Scaled
<1> QED
  BY <1>8, <1>10

-----------------------------------------------------------------------------
\* What a search answers.

\* All the rows probed are collected, or those left out are beaten by all collected.
LEMMA DoneHolds ==
  ASSUME Running, NearInv, pc = "done", ix.maxScan = 0, NullUniform, NEW r \in ProbedRows(hi)
  PROVE  \/ \E i \in 1..col.n : col.item[i] = r
         \/ ix.n > CandK /\ col.n = CandK /\ NearDist(ix, q)[r] >= col.dist[CandK]
<1>1. PassInv /\ r \in Rows
  BY DoneCollects DEF Running
<1>2. Keeps(CandK, col, NearDist(ix, q)[r], r)
  BY <1>1, DoneCollects
<1>3. /\ col.n \in Nat /\ col.n <= CandK /\ CandK \in Nat /\ ix.n \in Nat
      /\ \A i \in 1..col.n : col.item[i] \in Rows
      /\ \A i, j \in 1..col.n : i # j => col.item[i] # col.item[j]
  BY <1>1, Candidates, SearchAssumption DEF PassInv, UsableIndex
<1> SUFFICES ASSUME \A i \in 1..col.n : col.item[i] # r
             PROVE  ix.n > CandK /\ col.n = CandK /\ NearDist(ix, q)[r] >= col.dist[CandK]
  BY <1>3
<1>4. col.n = CandK /\ NearDist(ix, q)[r] >= col.dist[CandK]
  BY <1>2, <1>3 DEF Keeps
<1>5. ix.n > CandK
  <2> DEFINE s == [i \in 1..col.n |-> col.item[i]]
  <2>1. s \in Seq(Rows) /\ Len(s) = col.n /\ Distinct(s)
    BY <1>3 DEF Distinct
  <2>2. ToSet(s) = {col.item[i] : i \in 1..col.n}
    BY <1>3 DEF ToSet
  <2> HIDE DEF s
  <2>3. Cardinality(ToSet(s)) = col.n
    BY <2>1, DistinctCardinality
  <2>4. IsFiniteSet(Rows) /\ Cardinality(Rows) = ix.n
    <3>1. ix.n > 0 /\ 0 \in Int /\ ix.n - 1 \in Int
      BY <1>1, <1>3 DEF PassInv
    <3>2. IsFiniteSet(0..(ix.n - 1)) /\ Cardinality(0..(ix.n - 1)) = IF 0 > ix.n - 1 THEN 0 ELSE (ix.n - 1) - 0 + 1
      BY <3>1, FS_Interval
    <3>3. Cardinality(0..(ix.n - 1)) = ix.n
      BY <1>3, <3>1, <3>2
    <3> QED
      BY <3>2, <3>3 DEF Rows
  <2>5. ToSet(s) \in SUBSET Rows /\ ToSet(s) # Rows
    BY <1>1, <1>3, <2>2
  <2>6. Cardinality(ToSet(s)) <= Cardinality(Rows) /\ Cardinality(Rows) # Cardinality(ToSet(s))
    BY <2>4, <2>5, FS_Subset
  <2> QED
    BY <1>3, <1>4, <2>3, <2>4, <2>6
<1> QED
  BY <1>4, <1>5

\* A row beaten by the integer distances of all candidates is beaten by the exact
\* distances of the K nearest of them.
LEMMA BeatenIsBeaten ==
  ASSUME Running, NearInv, pc = "done", NullUniform, OnGrid, NEW r \in Rows,
         col.n = CandK, NearDist(ix, q)[r] >= col.dist[CandK]
  PROVE  tk.n >= K /\ dist2(q, RowCode(ix, r)) >= tk.dist[K]
<1>1. PassInv /\ RefineInv /\ HardRows(ix) /\ KeyDims(q) /\ Records(CandK, col, Len(offered), NearDist(ix, q))
  BY DEF Running, NearInv
<1>2. UsableIndex(ix) /\ q \in Vector /\ ix.n \in Nat
  BY <1>1 DEF PassInv, UsableIndex
<1>3. K \in Nat /\ K > 0 /\ CandK \in Nat /\ K <= CandK
  BY SearchAssumption
<1>4. /\ col.n <= Len(offered) /\ Len(offered) \in Nat
      /\ \A i \in 1..col.n : i \in 1..CandK /\ col.item[i] \in Rows
  BY Candidates
<1>5. Refined = CandK
  <2>1. run = <<>>
    BY <1>1 DEF RefineInv
  <2> QED
    BY <1>3, <2>1 DEF Refined
<1>6. /\ HoldsOffers(K, tk, CandK, {col.item[i] : i \in 1..CandK}) /\ tk.n = AtMost(CandK, K)
      /\ Records(K, tk, CandK, ExactDist(ix, q))
  BY <1>1, <1>5 DEF RefineInv
<1>7. tk.n = K
  BY <1>3, <1>6 DEF AtMost
<1>8. K \in 1..K /\ K <= CandK
  BY <1>3
<1>9. PICK j \in 1..CandK : tk.item[K] = col.item[j]
  BY <1>6, <1>8 DEF HoldsOffers
<1>10. col.item[j] \in Rows /\ j <= Len(offered) /\ CandK \in 1..CandK
  BY <1>3, <1>4
<1>11. tk.dist[K] = ExactDist(ix, q)[col.item[j]]
  BY <1>6, <1>8, <1>9 DEF Records
<1>12. col.dist[j] = NearDist(ix, q)[col.item[j]]
  BY <1>1, <1>10 DEF Records
<1>13. col.dist[j] <= col.dist[CandK] /\ col.dist[j] \in Int /\ col.dist[CandK] \in Int
  <2>1. Sorted(CandK, col.dist) /\ col.dist \in [1..CandK -> Int]
    BY DEF Running, ColInv, HoldsOffers
  <2>2. j <= CandK
    BY <1>3
  <2> QED
    BY <1>10, <2>1, <2>2 DEF Sorted
<1>14. ASSUME NEW s \in Rows
       PROVE  /\ ExactDist(ix, q)[s] = NearDist(ix, q)[s] * Sq(Sub)
              /\ NearDist(ix, q)[s] \in Int /\ ExactDist(ix, q)[s] = dist2(q, RowCode(ix, s))
  <2>1. RowCode(ix, s) \in [Dim -> Code] /\ KeyDims(Dequantized(RowCode(ix, s)))
    BY <1>1, <1>2 DEF UsableIndex, HardRows, Rows
  <2>2. (RowCode(ix, s)[5] = 0) = IsNull(q) /\ \A i \in Dim : q[i] % Sub = 0
    BY DEF NullUniform, OnGrid
  <2>3. dist2(q, RowCode(ix, s)) = intDist(Quantized(q), RowCode(ix, s)) * Sq(Sub)
    <3>1. PICK code \in [Dim -> Code] : code = RowCode(ix, s)
      BY <2>1
    <3> QED
      BY <1>1, <1>2, <2>1, <2>2, <3>1, OnGridDistance
  <2>4. NearDist(ix, q)[s] \in Int /\ NearDist(ix, q)[s] = intDist(Quantized(q), RowCode(ix, s))
    BY <1>1, NearDistType DEF qcode
  <2>5. ExactDist(ix, q)[s] = dist2(q, RowCode(ix, s))
    BY <1>1, ExactDistType
  <2> QED
    BY <2>3, <2>4, <2>5
<1>15. PICK k \in Nat : k = Sq(Sub)
  BY ScaleNat DEF Sq
<1>16. PICK a \in Int, b \in Int : a = NearDist(ix, q)[col.item[j]] /\ b = NearDist(ix, q)[r]
  BY <1>10, <1>14
<1>17. a <= b
  BY <1>12, <1>13, <1>16
<1>18. a * k <= b * k
  BY <1>15, <1>17
<1>19. tk.dist[K] = a * k /\ dist2(q, RowCode(ix, r)) = b * k
  BY <1>10, <1>11, <1>14, <1>15, <1>16
<1>20. a * k \in Int /\ b * k \in Int
  BY <1>15, <1>16
<1> QED
  BY <1>3, <1>7, <1>18, <1>19, <1>20

\* Without a row cap the answer is the K nearest rows of the cells probed, when the
\* null flags agree and no rounding comes between the two distances, however the
\* buckets were pruned, the candidates filtered and the search escalated; and a row
\* not looked at lies in a cell with as many of its bucket before it as were probed.
THEOREM AnswersExactly == Spec => []ExactOverTheProbed
<1>1. SearchInv /\ (Running => NearInv) => ExactOverTheProbed
  <2> SUFFICES ASSUME SearchInv, Running => NearInv, pc = "done", ix.n > 0, ix.maxScan = 0, NullUniform
               PROVE  /\ Items(tk) \subseteq ProbedRows(hi)
                      /\ OnGrid \/ ix.n <= CandK =>
                           \A r \in ProbedRows(hi) : KeptOrBeaten(r, dist2(q, RowCode(ix, r)), K, tk)
                      /\ \A r \in Rows \ ProbedRows(hi) :
                           \E b \in Bucket : \E c \in CellsOf(b) :
                             r \in ToSet(CellRows(ix, c)) /\ Outranked(b, c, ProbesOf(ix, hi))
    BY DEF ExactOverTheProbed
  <2>1. Running
    BY DEF SearchInv, SearchInit
  <2>2. NearInv /\ PassInv /\ RefineInv /\ HardRows(ix)
    BY <2>1 DEF Running, NearInv
  <2>3. ix.n \in Nat /\ CandK \in Nat
    BY <2>2, SearchAssumption DEF PassInv, UsableIndex
  <2>4. \A r \in ProbedRows(hi) : r \in Rows
    BY <2>1, <2>2, DoneCollects
  <2>5. ASSUME OnGrid \/ ix.n <= CandK, NEW r \in ProbedRows(hi)
        PROVE  KeptOrBeaten(r, dist2(q, RowCode(ix, r)), K, tk)
    <3>1. r \in Rows
      BY <2>4
    <3>2. CASE \E i \in 1..col.n : col.item[i] = r
      <4>1. PICK i \in 1..col.n : col.item[i] = r
        BY <3>2
      <4>2. run = <<>> /\ col.n \in Nat
        BY <2>1, <2>2, Candidates DEF RefineInv
      <4>3. Refined = col.n
        BY <4>2 DEF Refined
      <4>4. Keeps(K, tk, ExactDist(ix, q)[r], r)
        BY <2>2, <4>1, <4>3 DEF RefineInv
      <4>5. ExactDist(ix, q)[r] = dist2(q, RowCode(ix, r))
        BY <2>2, <3>1, ExactDistType
      <4>6. Keeps(K, tk, dist2(q, RowCode(ix, r)), r)
        BY <4>4, <4>5
      <4> QED
        BY <4>6 DEF Keeps, KeptOrBeaten, Items, IsFull, Worst
    <3>3. CASE ~\E i \in 1..col.n : col.item[i] = r
      <4>1. ix.n > CandK /\ col.n = CandK /\ NearDist(ix, q)[r] >= col.dist[CandK]
        BY <2>1, <2>2, <3>3, DoneHolds
      <4>2. OnGrid
        BY <2>3, <2>5, <4>1
      <4>3. tk.n >= K /\ dist2(q, RowCode(ix, r)) >= tk.dist[K]
        BY <2>1, <2>2, <3>1, <4>1, <4>2, BeatenIsBeaten
      <4> QED
        BY <4>3 DEF KeptOrBeaten, IsFull, Worst
    <3> QED
      BY <3>2, <3>3
  <2>6. ASSUME NEW r \in Rows \ ProbedRows(hi)
        PROVE  \E b \in Bucket : \E c \in CellsOf(b) :
                 r \in ToSet(CellRows(ix, c)) /\ Outranked(b, c, ProbesOf(ix, hi))
    BY <2>2, LeftOutRows
  <2>7. ASSUME NEW i \in 1..tk.n
        PROVE  tk.item[i] \in ProbedRows(hi)
    <3>1. /\ Refined \in Nat /\ run = <<>> /\ tk.n = AtMost(Refined, K)
          /\ \A k \in 1..K : k <= Refined => tk.item[k] \in {col.item[j] : j \in 1..Refined}
      BY <2>2 DEF RefineInv, HoldsOffers
    <3>2. i \in 1..K /\ i <= Refined
      BY <3>1, SearchAssumption DEF AtMost
    <3>3. col.n \in Nat /\ Refined = col.n
      BY <2>1, <3>1, Candidates DEF Refined
    <3>4. tk.item[i] \in Items(col)
      BY <3>1, <3>2, <3>3 DEF Items
    <3> QED
      BY <2>1, <2>2, <3>4, DoneCollects
  <2>8. Items(tk) \subseteq ProbedRows(hi)
    BY <2>7 DEF Items
  <2> QED
    BY <2>5, <2>6, <2>8
<1> QED
  BY <1>1, NearestInvariant, PTL

=============================================================================
