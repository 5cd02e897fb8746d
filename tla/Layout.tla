------------------------------- MODULE Layout -------------------------------
(***************************************************************************)
(* Where an index keeps its rows (internal/index: build.go step 4 to 6,    *)
(* index.go isFraud, bucketOfRow, dist2SoA, intDist, scanCellCollect).     *)
(* The codes of one hard bucket, and those of one bucket's centroids, are  *)
(* a block stored dimension by dimension; labels are bits of words; the    *)
(* SIMD kernel reads Lanes consecutive entries of a dimension at once.     *)
(***************************************************************************)
EXTENDS Grid, Sequences, FiniteSets

CONSTANTS Lanes,        \* rows per kernel block: 8
          SimdChunk,    \* rows per kernel call: 512
          SimdTailPad,  \* zero codes after the last block: 8
          WordBits,     \* bits of a fraud word: 64
          UseSIMD       \* useSIMD

ASSUME LayoutAssumption ==
  /\ {Lanes, SimdChunk, WordBits} \subseteq Nat \ {0}
  /\ SimdTailPad \in Nat /\ UseSIMD \in BOOLEAN

Dims == 14

\* The address of dimension d of the local-th of the count entries of a block
\* that begins with entry first.
SoA(first, count, d, local) == first * Dims + d * count + local

\* bucketOfRow: blocks follow one another, and one may be empty.
BlockOf(starts, row) ==
  CHOOSE b \in Bucket : row < starts[b + 1] /\ \A c \in 0..(b - 1) : starts[c + 1] <= row

\* The codes of n entries, blocks at starts, with the tail pad.
Transposed(starts, n, code) ==
  [a \in 0..(n * Dims + SimdTailPad - 1) |->
    IF a >= n * Dims THEN 0
    ELSE LET b == BlockOf(starts, a \div Dims)
             first == starts[b]
             count == starts[b + 1] - first
         IN  code[first + ((a - first * Dims) % count)][(a - first * Dims) \div count]]

\* What the distances read for an entry of a block.
CodeAt(data, starts, entry) ==
  LET b == BlockOf(starts, entry)
      first == starts[b]
  IN  [d \in Dim |-> data[SoA(first, starts[b + 1] - first, d, entry - first)]]

RowCode(x, row) == CodeAt(x.data, x.bucketStart, row)

\* Each bucket's block of centroids has nlist of them.
CentroidStarts(nlist) == [b \in 0..NumBuckets |-> b * nlist]

CentroidAt(x, cell) == CodeAt(x.centroidsI16, CentroidStarts(x.nlist), cell)

\* A fraud word as the set of its bits.
Packed(n, fraud) ==
  [w \in 0..((n + WordBits - 1) \div WordBits - 1) |->
    {i \in 0..(WordBits - 1) : w * WordBits + i < n /\ fraud[w * WordBits + i]}]

isFraud(x, row) == row % WordBits \in x.fraud[row \div WordBits]

-----------------------------------------------------------------------------
\* The scan of m consecutive entries: chunks of at most SimdChunk, of each the
\* full blocks by the kernel and the rest one by one.
ChunkStarts(m) == {k * SimdChunk : k \in {j \in 0..m : j * SimdChunk < m}}

ChunkSize(m, done) == IF m - done > SimdChunk THEN SimdChunk ELSE m - done

BlocksUp(c) == IF UseSIMD THEN (c + Lanes - 1) \div Lanes ELSE 0   \* mutant: a partial block too

Blocks(c) == IF UseSIMD THEN c \div Lanes ELSE 0

\* The entries the kernel's blocks start at, and those left to the scalar loop.
BlockStarts(m) ==
  UNION {{done + Lanes * j : j \in 0..(Blocks(ChunkSize(m, done)) - 1)} : done \in ChunkStarts(m)}

ScalarTail(m) ==
  UNION {(done + Lanes * Blocks(ChunkSize(m, done)))..(done + ChunkSize(m, done) - 1) :
           done \in ChunkStarts(m)}

\* The kernel's load of dimension d for a block of lanes: the addresses read.
LoadAt(first, count, d, local) == {SoA(first, count, d, local) + k : k \in 0..(Lanes - 1)}

\* The kernel's blocks and the scalar tail of a scan of m entries that begins
\* at the local-th of a block take each entry once, and no load leaves the
\* dimension it is meant for.
ScannedOnceInBounds(count, local, m) ==
  /\ \A i \in 0..(m - 1) :
       Cardinality({s \in BlockStarts(m) : i \in s..(s + Lanes - 1)}) + Bit(i \in ScalarTail(m)) = 1
  /\ \A s \in BlockStarts(m) : \A d \in Dim :
       LoadAt(0, count, d, local + s) \subseteq (d * count)..((d + 1) * count - 1)
=============================================================================
