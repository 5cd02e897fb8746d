-------------------------------- MODULE Build --------------------------------
(***************************************************************************)
(* Builder.Build of internal/index/build.go.  Rows are counting-sorted     *)
(* into the hard buckets; bucket by bucket, k-means trains nlist centroids *)
(* on a sample, parallelFor assigns every row to its nearest centroid on   *)
(* several goroutines, and the rows are counting-sorted into contiguous    *)
(* cell runs.  A centroid is a quotient [sum, cnt], exact where the code   *)
(* rounds a float64.  Each row carries the order in which it was added, a  *)
(* ghost field the index drops.                                            *)
(***************************************************************************)
EXTENDS Layout, SequencesExt

CONSTANTS Datasets,      \* sequences of rows added before Build
          NList,         \* k-means cells per bucket
          Iters,         \* k-means iterations
          KMeansSample,  \* rows sampled to train a bucket: 50000
          Procs,         \* runtime.GOMAXPROCS(0)
          ParallelMin    \* rows below which parallelFor stays on one goroutine: 8192

ASSUME BuildAssumption ==
  {NList, Iters, KMeansSample, Procs, ParallelMin} \subseteq Nat \ {0}

\* What Builder.Add makes of vectors: codes on the grid, one of the buckets.
ASSUME DatasetsAssumption ==
  Datasets \subseteq Seq([code : [Dim -> Code], bucket : Bucket, fraud : BOOLEAN])

VARIABLES
  rows,      \* Builder's rows, in insertion order
  bk,        \* the bucket being clustered
  phase,     \* "seed", "assign", "update", "fork", "final", "place" or "built"
  cents,     \* the bucket's centroids: [0..nl-1 -> [sum, cnt]]
  it,        \* k-means iterations done
  own,       \* assign: the cell of each row of the bucket (of the sample, in training)
  chunks,    \* parallelFor's goroutines: [next, end) still to do
  placed,    \* finalData, finalFraud: rows in (bucket, cell) order
  starts,    \* cellStart so far: the first row of each cell placed
  trained    \* the centroids of each finished bucket

buildVars == <<rows, bk, phase, cents, it, own, chunks, placed, starts, trained>>

\* Builder.Add: the codes of a vector, its hard bucket and its label.
Added(vec, fraud) == [code |-> Quantized(vec), bucket |-> bucketOf(vec), fraud |-> fraud]

\* The scatter of a counting sort into one bin: those of 1..n in S, each behind
\* the ones met before it.
Scatter(n, S) ==
  LET upto[i \in 0..n] == IF i = 0 THEN <<>>
                          ELSE IF i \in S THEN Append(upto[i - 1], i) ELSE upto[i - 1]
  IN  upto[n]

\* The rows of a bucket: how many the histogram counts, and in which order.
InBucket == {i \in 1..Len(rows) : rows[i].bucket = bk}
Size == Cardinality(InBucket)
BucketRows == LET mine == Scatter(Len(rows), InBucket) IN [j \in 1..Size |-> rows[mine[j]]]

NoCents == [c \in {} |-> 0]

AtMost(a, b) == IF a > b THEN b ELSE a

\* Squared distance from a row to a centroid, times cnt squared.
CentroidNum(code, cent) ==
  Sum14([i \in Dim |-> Sq(dequant(code[i]) * cent.cnt - cent.sum[i])])

\* The quotients compared without dividing.
Nearer(code, a, b) ==
  CentroidNum(code, a) * Sq(b.cnt) < CentroidNum(code, b) * Sq(a.cnt)

\* kmeans.nearest walks the centroids and moves only to a strictly nearer one.
Nearest(code) ==
  LET best[c \in DOMAIN cents] ==
        IF c = 0 THEN 0
        ELSE IF Nearer(code, cents[c], cents[best[c - 1]]) THEN c ELSE best[c - 1]
  IN  best[Cardinality(DOMAIN cents) - 1]

\* sampleRows: positions in the bucket, from 1.
Sample ==
  IF KMeansSample >= Size THEN 1..Size
  ELSE {i * (Size \div KMeansSample) + 1 : i \in 0..(KMeansSample - 1)}

BuildInit ==
  /\ \E d \in Datasets : rows = [i \in 1..Len(d) |->
        [code |-> d[i].code, bucket |-> d[i].bucket, fraud |-> d[i].fraud, added |-> i]]
  /\ bk = 0 /\ phase = "seed" /\ cents = NoCents /\ it = 0 /\ own = <<>>
  /\ chunks = <<>> /\ placed = <<>> /\ starts = <<>> /\ trained = <<>>

\* Evenly spaced seeds, never more cells than rows; an empty bucket has none.
SeedBucket ==
  /\ phase = "seed"
  /\ IF Size = 0
     THEN phase' = "place" /\ cents' = NoCents
     ELSE LET nl == AtMost(NList, Size)
          IN  /\ cents' = [c \in 0..(nl - 1) |->
                   [sum |-> Dequantized(BucketRows[c * (Size \div nl) + 1].code), cnt |-> 1]]
              /\ phase' = "assign"
  /\ it' = 0 /\ own' = <<>>
  /\ UNCHANGED <<rows, bk, chunks, placed, starts, trained>>

\* One pass over the sample.
AssignSample ==
  /\ phase = "assign"
  /\ own' = [i \in Sample |-> Nearest(BucketRows[i].code)]
  /\ phase' = "update"
  /\ UNCHANGED <<rows, bk, cents, it, chunks, placed, starts, trained>>

Members(c) == {i \in Sample : own[i] = c}

\* The sum of one dimension over the members of a cell.
Total(c, d) == MapThenSumSet(LAMBDA i : dequant(BucketRows[i].code[d]), Members(c))

UpdateAll ==                                      \* mutant: no guard on an empty cell
  /\ phase = "update"
  /\ cents' = [c \in DOMAIN cents |->
       [sum |-> [d \in Dim |-> Total(c, d)], cnt |-> Cardinality(Members(c))]]
  /\ it' = it + 1
  /\ phase' = IF it + 1 < Iters THEN "assign" ELSE "fork"
  /\ UNCHANGED <<rows, bk, own, chunks, placed, starts, trained>>

\* The means; a cell nobody chose keeps its centroid.
UpdateCentroids ==
  /\ phase = "update"
  /\ cents' = [c \in DOMAIN cents |->
       IF Members(c) = {} THEN cents[c]
       ELSE [sum |-> [d \in Dim |-> Total(c, d)], cnt |-> Cardinality(Members(c))]]
  /\ it' = it + 1
  /\ phase' = IF it + 1 < Iters THEN "assign" ELSE "fork"
  /\ UNCHANGED <<rows, bk, own, chunks, placed, starts, trained>>

Workers == IF Procs <= 1 \/ Size < ParallelMin THEN 1 ELSE AtMost(Procs, Size)

ChunkFloor == Size \div Workers                   \* mutant: the remainder is dropped

Chunk == (Size + Workers - 1) \div Workers

\* parallelFor: one goroutine per chunk of [0, m), the last one cut to m, none
\* past the end; the assignment starts as Go's zero values.
Fork ==
  /\ phase = "fork"
  /\ chunks' = [w \in {v \in 0..(Workers - 1) : v * Chunk < Size} |->
                 [next |-> w * Chunk, end |-> AtMost(w * Chunk + Chunk, Size)]]
  /\ own' = [i \in 1..Size |-> 0]
  /\ phase' = "final"
  /\ UNCHANGED <<rows, bk, cents, it, placed, starts, trained>>

\* Goroutine w assigns its next row.
AssignRow(w) ==
  /\ phase = "final" /\ chunks[w].next < chunks[w].end
  /\ LET i == chunks[w].next + 1
     IN  own' = [own EXCEPT ![i] = Nearest(BucketRows[i].code)]
  /\ chunks' = [chunks EXCEPT ![w].next = @ + 1]
  /\ UNCHANGED <<rows, bk, phase, cents, it, placed, starts, trained>>

AllDoneOfAll ==                                   \* mutant: wg.Add(workers)
  /\ Cardinality(DOMAIN chunks) = Workers
  /\ \A w \in DOMAIN chunks : chunks[w].next = chunks[w].end

AllDone == \A w \in DOMAIN chunks : chunks[w].next = chunks[w].end

\* wg.Wait.
Join ==
  /\ phase = "final" /\ AllDone
  /\ phase' = "place"
  /\ UNCHANGED <<rows, bk, cents, it, own, chunks, placed, starts, trained>>

\* The positions of a cell's rows in its bucket.
Mine(c) == Scatter(Size, {i \in 1..Size : own[i] = c})

CellRunBackwards(c) ==                            \* mutant: the scatter fills from the end
  [j \in 1..Len(Mine(c)) |-> BucketRows[Mine(c)[Len(Mine(c)) + 1 - j]]]

\* The bucket's rows of one cell.
CellRun(c) == LET mine == Mine(c) IN [j \in 1..Len(mine) |-> BucketRows[mine[j]]]

CellEnd(c) == Len(placed) + Cardinality({i \in 1..Size : own[i] <= c})   \* mutant: inclusive sum

\* The exclusive prefix sum of the cell histogram.
CellFirst(c) == Len(placed) + Cardinality({i \in 1..Size : own[i] < c})

\* The cell histogram and the scatter into contiguous runs.
PlaceBucket ==
  /\ phase = "place"
  /\ placed' = placed \o FlattenSeq([c \in 1..NList |-> CellRun(c - 1)])
  /\ starts' = starts \o [c \in 1..NList |-> CellFirst(c - 1)]
  /\ trained' = Append(trained, cents)
  /\ bk' = bk + 1
  /\ phase' = IF bk + 1 = NumBuckets THEN "built" ELSE "seed"
  /\ UNCHANGED <<rows, cents, it, own, chunks>>

BuildNext ==
  \/ SeedBucket \/ AssignSample \/ UpdateCentroids \/ Fork
  \/ (\E w \in DOMAIN chunks : AssignRow(w)) \/ Join \/ PlaceBucket

BuildSpec == BuildInit /\ [][BuildNext]_buildVars /\ WF_buildVars(BuildNext)

-----------------------------------------------------------------------------
\* buildCentroidI16; a cell past the trained ones still has the zero centroid.
CentroidCode(cs, c) ==
  [d \in Dim |->
    IF c \notin DOMAIN cs THEN quantize(0)
    ELSE IF cs[c].sum[d] < 0 THEN 0
    ELSE (2 * cs[c].sum[d] + Sub * cs[c].cnt) \div (2 * Sub * cs[c].cnt) + 1]

\* The CSR offsets of the buckets: the exclusive sum of their sizes.
BucketStart == [b \in 0..NumBuckets |-> Cardinality({i \in 1..Len(rows) : rows[i].bucket < b})]

\* The index Build returns: cells numbered b * nlist + c, rows from 0; codes
\* and labels go by their place, the centroids' by their cell.
BuiltIndex ==
  LET n == Len(placed)
      cells == NumBuckets * NList
  IN  [n            |-> n,
       nlist        |-> NList,
       nprobe       |-> AtMost(NList, MaxProbe),
       data         |-> Transposed(BucketStart, n, [r \in 0..(n - 1) |-> placed[r + 1].code]),
       fraud        |-> Packed(n, [r \in 0..(n - 1) |-> placed[r + 1].fraud]),
       bucketStart  |-> BucketStart,
       centroidsI16 |-> Transposed(CentroidStarts(NList), cells,
                          [g \in 0..(cells - 1) |-> CentroidCode(trained[(g \div NList) + 1], g % NList)]),
       cellStart    |-> [g \in 0..cells |-> IF g = cells THEN n ELSE starts[g + 1]]]

BuildTypeOK ==
  /\ \A i \in 1..Len(rows) : rows[i] \in
       [code : [Dim -> Code], bucket : Bucket, fraud : BOOLEAN, added : 1..Len(rows)]
  /\ bk \in 0..NumBuckets
  /\ phase \in {"seed", "assign", "update", "fork", "final", "place", "built"}
  /\ it \in 0..Iters
  /\ \A i \in DOMAIN own : own[i] \in 0..(NList - 1)
  /\ \A c \in DOMAIN cents : cents[c].cnt \in Nat \ {0} /\ cents[c].sum \in [Dim -> Int]
  /\ Len(placed) \in 0..Len(rows)
  /\ Len(starts) = bk * NList /\ Len(trained) = bk

\* No two goroutines of parallelFor have a row in common, and a row that does
\* not hold its nearest cell yet is still some goroutine's to do: the writes
\* to assign never race and none is missing when wg.Wait returns.
ChunksCoverTheRest ==
  phase = "final" =>
    /\ \A v, w \in DOMAIN chunks : v < w => chunks[v].end <= chunks[w].next
    /\ \A i \in 1..Size : \/ own[i] = Nearest(BucketRows[i].code)
                          \/ \E w \in DOMAIN chunks : i - 1 \in chunks[w].next..(chunks[w].end - 1)

Cells == 0..(NumBuckets * NList - 1)

\* The rows of cell g, as a search reads its bounds.
RunOf(g) == BuiltIndex.cellStart[g]..(BuiltIndex.cellStart[g + 1] - 1)

\* Both counting sorts are stable permutations: every row added is in the index
\* once, with its own codes and label, and the rows of a cell stay in insertion
\* order, so the build is reproducible however its goroutines interleave.
RowsPlacedOnceInOrder ==
  phase = "built" =>
    /\ Len(placed) = Len(rows)
    /\ {placed[i].added : i \in 1..Len(placed)} = 1..Len(rows)
    /\ \A i \in 1..Len(placed) : placed[i] = rows[placed[i].added]
    /\ \A g \in Cells : \A r, s \in RunOf(g) : r < s => placed[r + 1].added < placed[s + 1].added

\* The CSR offsets put each row in a cell of its own bucket whose trained
\* centroid no other beats, so a search that probes cells by centroid looks
\* where the row is.
RowsLieInTheirCell ==
  phase = "built" =>
    \A r \in 0..(Len(placed) - 1) : \E g \in Cells :
      LET row == placed[r + 1]
          cs == trained[(g \div NList) + 1]
          c == g % NList
      IN  /\ r \in RunOf(g) /\ row.bucket = g \div NList /\ c \in DOMAIN cs
          /\ \A o \in DOMAIN cs : ~Nearer(row.code, cs[o], cs[c])
          /\ \A o \in 0..(c - 1) : Nearer(row.code, cs[c], cs[o])

\* The transposition and the packing are undone by the readers: whatever the
\* sizes of the buckets, empty ones included, the distances read the codes of
\* the row they are asked about, and the vote its label, and the scan of each
\* cell and of each bucket's centroids covers it without reading elsewhere.
LayoutHoldsRows ==
  phase = "built" =>
    LET x == BuiltIndex
    IN  /\ \A r \in 0..(x.n - 1) :
             RowCode(x, r) = placed[r + 1].code /\ isFraud(x, r) = placed[r + 1].fraud
        /\ \A g \in Cells :
             LET b == g \div NList
             IN  /\ CentroidAt(x, g) = CentroidCode(trained[b + 1], g % NList)
                 /\ ScannedOnceInBounds(x.bucketStart[b + 1] - x.bucketStart[b],
                      x.cellStart[g] - x.bucketStart[b], x.cellStart[g + 1] - x.cellStart[g])
        /\ ScannedOnceInBounds(NList, 0, NList)

\* Build returns.
BuildCompletes == <>(phase = "built")
=============================================================================
