------------------------------- MODULE Search -------------------------------
(***************************************************************************)
(* One query against a built index: the two-tier search of                 *)
(* internal/index/index.go (ScoreCount, searchTopKTrace, scanRange,        *)
(* probeBucketRange, scanCellCollect, refine).  A query runs alone on its  *)
(* goroutine over an index nobody writes any more, so its steps interleave *)
(* with nothing; a step is one bucket decision or one row considered.      *)
(* Module Engine supplies the index and the query.                         *)
(***************************************************************************)
EXTENDS Layout, SortedBuffer, SequencesExt

CONSTANTS K,          \* neighbours that vote: 5
          Deny,       \* K * Threshold: 3 votes deny
          CandK       \* candidates collected before the refine: 64

ASSUME SearchAssumption == {K, Deny, CandK} \subseteq Nat \ {0} /\ Deny <= K /\ K <= CandK

\* No sum of fourteen squares, of codes or of differences between values in
\* [-1, 1], reaches the distance of a free slot.
ASSUME InfAssumption == /\ Inf \in Int /\ 14 * (MaxCode * MaxCode) < Inf
                        /\ 14 * Sq(2 * Scale) < Inf

VARIABLES
  ix,          \* the index, never written by a query
  q,           \* the query, never written
  pc,          \* "idle", "buckets", "cells", "refine" or "done"
  tier,        \* "cheap" or "high"
  hi,          \* npHi of the running pass: nprobe, then the escalated value
  at,          \* next bucket of scanRange's loop; -1 while the home bucket is due
  cells,       \* cells of the open bucket still to scan
  run,         \* rows of the open cell, or candidates of refine, still to consider
  col,         \* the candidate collector, kept across the two passes
  scanned,     \* rows of the cells opened in the running pass
  tk,          \* the K nearest of the last refine
  offered,     \* history: the rows fed to the collector, in order
  pruned       \* history: the buckets skipped on their penalty

searchVars == <<ix, q, pc, tier, hi, at, cells, run, col, scanned, tk, offered, pruned>>

-----------------------------------------------------------------------------
\* The knobs main.tune sets, clamped as the setters clamp them.
ClampedProbe(x, np) == LET a == IF np > x.nlist THEN x.nlist ELSE np
                       IN  IF a > MaxProbe THEN MaxProbe ELSE a

SetNProbe(x, np) == IF np <= 0 THEN x ELSE [x EXCEPT !.nprobe = ClampedProbe(x, np)]

SetMaxScan(x, n) == [x EXCEPT !.maxScan = IF n < 0 THEN 0 ELSE n]

SetTriggerRadius(x, r) == IF r <= 0 THEN x ELSE [x EXCEPT !.triggerRadius = r]

SetTriggerMargin(x, m) == [x EXCEPT !.triggerMargin = m]

SetNProbeHigh(x, np) ==
  LET high == IF np <= 0 THEN 0 ELSE ClampedProbe(x, np)
  IN  [x EXCEPT !.nprobeHigh = high, !.nprobeHighByCount = [c \in 0..K |-> high]]

SetNProbeHighForCount(x, count, np) ==
  IF count \notin 0..K THEN x
  ELSE [x EXCEPT !.nprobeHighByCount[count] = IF np <= 0 THEN 0 ELSE ClampedProbe(x, np)]

\* A freshly built or loaded index: the knobs at their zero values.
Untuned(x) ==
  [n |-> x.n, nlist |-> x.nlist, nprobe |-> x.nprobe, data |-> x.data,
   fraud |-> x.fraud, bucketStart |-> x.bucketStart, centroidsI16 |-> x.centroidsI16,
   cellStart |-> x.cellStart,
   maxScan |-> 0, nprobeHigh |-> 0, nprobeHighByCount |-> [c \in 0..K |-> 0],
   triggerRadius |-> 0, triggerMargin |-> 0]

\* main.tune, in its order: the votes around the boundary have knobs of their
\* own, the others keep the common one.
Tuned(x, env) ==
  LET a == SetTriggerMargin(SetTriggerRadius(
             SetMaxScan(SetNProbe(Untuned(x), env.nprobe), env.maxScan), env.radius), env.margin)
      b == SetNProbeHigh(a, env.high)
  IN  SetNProbeHighForCount(SetNProbeHighForCount(SetNProbeHighForCount(
        b, Deny - 1, env.below), Deny, env.boundary), Deny + 1, env.above)

-----------------------------------------------------------------------------
qcode == Quantized(q)
Home == bucketOf(q)

CellRows(x, c) == [i \in 1..(x.cellStart[c + 1] - x.cellStart[c]) |-> x.cellStart[c] + i - 1]

\* The np cells of bucket b nearest to v, nearest first: the insertProbe loop
\* over the bucket's nlist centroids, those of empty cells included.
NearestCells(x, v, b, np) ==
  LET cell(c) == b * x.nlist + c - 1
      probes[c \in 0..x.nlist] ==
        IF c = 0 THEN EmptyBuffer(np, 0)
        ELSE Consider(np, probes[c - 1], intDist(Quantized(v), CentroidAt(x, cell(c))), cell(c))
  IN  probes[x.nlist].item

ProbesOfSet(x, np) ==                             \* mutant: left to the setters' clamp
  IF np > x.nlist THEN x.nlist ELSE IF np < 1 THEN 1 ELSE np

\* np, clamped once more: a reloaded index carries its nlist as nprobe.
ProbesOf(x, np) == IF ClampedProbe(x, np) < 1 THEN 1 ELSE ClampedProbe(x, np)

CellsInRangeShort(x, v, b, from, high) ==         \* mutant: the last rank is missed
  LET np == ProbesOf(x, high)
  IN  IF from >= np THEN <<>> ELSE SubSeq(NearestCells(x, v, b, np), from + 1, np - 1)

\* The cells probeBucketRange scans: ranks [lo, hi) of the np nearest.
CellsInRange(x, v, b, from, high) ==
  LET np == ProbesOf(x, high)
  IN  IF from >= np THEN <<>> ELSE SubSeq(NearestCells(x, v, b, np), from + 1, np)

\* fraudCount / ScoreCount: a free slot counts as not fraud.
fraudCount(top) == Cardinality({i \in 1..top.n : isFraud(ix, top.item[i])})

highProbeForCount(count) ==
  IF ix.nprobeHighByCount[count] > 0 THEN ix.nprobeHighByCount[count] ELSE ix.nprobeHigh

nearVote(top, margin) ==
  LET d == fraudCount(top) - Deny IN (IF d < 0 THEN -d ELSE d) <= margin

shouldEscalate(top) ==
  IF ix.triggerMargin >= 0 THEN nearVote(top, ix.triggerMargin)
  ELSE Worst(K, top) >= ix.triggerRadius

-----------------------------------------------------------------------------
LoFromZero == 0                                   \* mutant: the cheap cells again

\* npLo and capScan of the running pass.
lo == IF tier = "cheap" THEN 0 ELSE ix.nprobe
capScan == IF tier = "cheap" THEN ix.maxScan ELSE 0

CapPassed(n) == capScan > 0 /\ n > capScan        \* mutant: > for >=

CapReached(n) == capScan > 0 /\ n >= capScan

SearchTypeOK ==
  /\ ix.cellStart \in [0..(NumBuckets * ix.nlist) -> 0..ix.n]
  /\ ix.bucketStart \in [0..NumBuckets -> 0..ix.n]
  /\ ix.data \in [0..(ix.n * Dims + SimdTailPad - 1) -> Code]
  /\ ix.centroidsI16 \in [0..(NumBuckets * ix.nlist * Dims + SimdTailPad - 1) -> Code]
  /\ ix.nprobe \in 1..ix.nlist /\ q \in [Dim -> Value]
  /\ pc \in {"idle", "buckets", "cells", "refine", "done"}
  /\ tier \in {"cheap", "high"}
  /\ hi \in 0..ix.nlist
  /\ at \in -1..NumBuckets
  /\ cells \in Seq(0..(NumBuckets * ix.nlist - 1)) /\ Len(cells) <= MaxProbe
  /\ run \in Seq(0..(ix.n - 1))
  /\ col.n \in 0..CandK /\ tk.n \in 0..K
  /\ scanned \in 0..ix.n
  /\ offered \in Seq(0..(ix.n - 1))
  /\ pruned \subseteq Bucket

\* Nothing asked yet; the empty index stands for the handler's nil pointer.
NoIndex == [n |-> 0, nlist |-> 1, nprobe |-> 1, maxScan |-> 0, nprobeHigh |-> 0,
            bucketStart |-> [b \in 0..NumBuckets |-> 0], cellStart |-> [c \in 0..NumBuckets |-> 0],
            data |-> [a \in 0..(SimdTailPad - 1) |-> 0],
            centroidsI16 |-> [a \in 0..(NumBuckets * Dims + SimdTailPad - 1) |-> 0]]

SearchInit ==
  /\ ix = NoIndex /\ q = [d \in Dim |-> 0]
  /\ pc = "idle" /\ tier = "cheap" /\ hi = 0 /\ at = -1 /\ cells = <<>> /\ run = <<>>
  /\ col = EmptyBuffer(CandK, 0) /\ tk = EmptyBuffer(K, 0)
  /\ scanned = 0 /\ offered = <<>> /\ pruned = {}

\* ScoreCount: an empty index answers at once; else the cheap pass begins.
Ask(x, v) ==
  /\ pc = "idle"
  /\ ix' = x /\ q' = v
  /\ IF x.n = 0 THEN pc' = "done" /\ UNCHANGED hi
     ELSE pc' = "buckets" /\ hi' = x.nprobe
  /\ UNCHANGED <<tier, at, cells, run, col, scanned, tk, offered, pruned>>

\* scanRange opens the home bucket first.
OpenHome ==
  /\ pc = "buckets" /\ at = -1
  /\ pc' = "cells" /\ at' = 0
  /\ cells' = CellsInRange(ix, q, Home, lo, hi)
  /\ UNCHANGED <<ix, q, tier, hi, run, col, scanned, tk, offered, pruned>>

\* if b == b0 { continue }
SkipHome ==
  /\ pc = "buckets" /\ at = Home
  /\ at' = at + 1
  /\ UNCHANGED <<ix, q, pc, tier, hi, cells, run, col, scanned, tk, offered, pruned>>

PruneMargin == 10 * G        \* 1e5 on the grid of 10000

PrunableAtK(b) ==                                 \* mutant: the K-th candidate for the last
  /\ IsFull(CandK, col)
  /\ bucketPenalty(q, b) >= Worst(K, col) * Sq(Sub)

\* The penalty alone, scaled to the grid, is beyond the worst candidate by the
\* margin, and the collector is full.
Prunable(b) ==
  /\ IsFull(CandK, col)
  /\ bucketPenalty(q, b) >= (Worst(CandK, col) + PruneMargin) * Sq(Sub)

PruneBucket ==
  /\ pc = "buckets" /\ at \in Bucket \ {Home}
  /\ ~CapReached(scanned) /\ Prunable(at)
  /\ at' = at + 1
  /\ pruned' = pruned \cup {at}
  /\ UNCHANGED <<ix, q, pc, tier, hi, cells, run, col, scanned, tk, offered>>

OpenBucket ==
  /\ pc = "buckets" /\ at \in Bucket \ {Home}
  /\ ~CapReached(scanned) /\ ~Prunable(at)
  /\ pc' = "cells" /\ at' = at + 1
  /\ cells' = CellsInRange(ix, q, at, lo, hi)
  /\ UNCHANGED <<ix, q, tier, hi, run, col, scanned, tk, offered, pruned>>

\* The next cell of the open bucket; an empty one is passed over.  Its rows are
\* counted on entry where the code counts them on leaving: the cap is read only
\* in between cells, and drops those that are left.
OpenCell ==
  /\ pc = "cells" /\ run = <<>> /\ cells # <<>>
  /\ LET mine == CellRows(ix, Head(cells))
         total == scanned + Len(mine)
     IN  /\ run' = mine
         /\ scanned' = total
         /\ cells' = IF mine # <<>> /\ CapReached(total) THEN <<>> ELSE Tail(cells)
  /\ UNCHANGED <<ix, q, pc, tier, hi, at, col, tk, offered, pruned>>

\* scanCellCollect: the next row of the cell, by integer distance.
CollectRow ==
  /\ pc = "cells" /\ run # <<>>
  /\ col' = Consider(CandK, col, intDist(qcode, RowCode(ix, Head(run))), Head(run))
  /\ run' = Tail(run)
  /\ offered' = Append(offered, Head(run))
  /\ UNCHANGED <<ix, q, pc, tier, hi, at, cells, scanned, tk, pruned>>

CloseBucket ==
  /\ pc = "cells" /\ run = <<>> /\ cells = <<>>
  /\ pc' = "buckets"
  /\ UNCHANGED <<ix, q, tier, hi, at, cells, run, col, scanned, tk, offered, pruned>>

\* The loop over the buckets ends, at the row cap or at the last bucket, and
\* refine starts on the collected candidates in the collector's order.
EndPass ==
  /\ pc = "buckets"
  /\ at = NumBuckets \/ (at \in Bucket \ {Home} /\ CapReached(scanned))
  /\ pc' = "refine"
  /\ tk' = EmptyBuffer(K, 0) /\ run' = SubSeq(col.item, 1, col.n)
  /\ UNCHANGED <<ix, q, tier, hi, at, cells, col, scanned, offered, pruned>>

\* refine: the next candidate, by exact distance.
RefineRow ==
  /\ pc = "refine" /\ run # <<>>
  /\ tk' = Consider(K, tk, dist2(q, RowCode(ix, Head(run))), Head(run))
  /\ run' = Tail(run)
  /\ UNCHANGED <<ix, q, pc, tier, hi, at, cells, col, scanned, offered, pruned>>

Escalates ==
  /\ tier = "cheap"
  /\ highProbeForCount(fraudCount(tk)) > ix.nprobe
  /\ shouldEscalate(tk)

\* The second pass extends the same collector with the cells ranked
\* [nprobe, nprobeHigh); its row count starts over and has no cap.
Escalate ==
  /\ pc = "refine" /\ run = <<>> /\ Escalates
  /\ tier' = "high" /\ hi' = highProbeForCount(fraudCount(tk))
  /\ pc' = "buckets" /\ at' = -1 /\ scanned' = 0
  /\ UNCHANGED <<ix, q, cells, run, col, tk, offered, pruned>>

Answer ==
  /\ pc = "refine" /\ run = <<>> /\ ~Escalates
  /\ pc' = "done"
  /\ UNCHANGED <<ix, q, tier, hi, at, cells, run, col, scanned, tk, offered, pruned>>

SearchNext ==
  \/ OpenHome \/ SkipHome \/ PruneBucket \/ OpenBucket \/ OpenCell \/ CollectRow
  \/ CloseBucket \/ EndPass \/ RefineRow \/ Escalate \/ Answer

-----------------------------------------------------------------------------
Rows == 0..(ix.n - 1)
Items(buf) == {buf.item[i] : i \in 1..buf.n}

\* Query and rows agree on the null flag, so no distance crosses the sentinel.
NullUniform == \A r \in Rows : (RowCode(ix, r)[5] = 0) = IsNull(q)

OnGrid == \A i \in Dim : q[i] % Sub = 0

\* r is among the cap rows of smallest distance kept by buf, or beaten by them.
KeptOrBeaten(r, d, cap, buf) == r \in Items(buf) \/ (IsFull(cap, buf) /\ d >= Worst(cap, buf))

\* The rows of the np nearest cells of every bucket: what a single-tier scan at
\* np is meant to consider, whatever it prunes.
ProbedRows(np) ==
  UNION {ToSet(CellRows(ix, c)) :
           c \in UNION {ToSet(NearestCells(ix, q, b, ProbesOf(ix, np))) : b \in Bucket}}

CellsOf(b) == (b * ix.nlist)..(b * ix.nlist + ix.nlist - 1)

\* At least np other cells of bucket b are as near to the query as its cell c.
Outranked(b, c, np) ==
  LET far(d) == intDist(qcode, CentroidAt(ix, d))
  IN  Cardinality({d \in CellsOf(b) \ {c} : far(d) <= far(c)}) >= np

\* No row reaches the collector twice, across buckets, cells and tiers: a row
\* held twice would vote twice.
NoRowOfferedTwice == Cardinality(ToSet(offered)) = Len(offered)

\* The collector's content does not depend on the order of the probes, on the
\* buckets pruned or on the escalation being incremental: it holds the CandK
\* rows of smallest integer distance among the rows of the nearest cells.
CollectsNearest ==
  pc = "done" /\ ix.n > 0 /\ ix.maxScan = 0 /\ NullUniform =>
    /\ Items(col) \subseteq ProbedRows(hi)
    /\ \A r \in ProbedRows(hi) : KeptOrBeaten(r, intDist(qcode, RowCode(ix, r)), CandK, col)

\* Without a row cap the answer is the exact K nearest, as BruteDebug ranks them,
\* of the rows of the cells probed, when the query lies on the grid or no candidate
\* was dropped; and a row that was left out lies in a cell with as many cells of
\* its bucket before it as were probed, so that a full pass leaves none out.
ExactOverTheProbed ==
  pc = "done" /\ ix.n > 0 /\ ix.maxScan = 0 /\ NullUniform =>
    /\ Items(tk) \subseteq ProbedRows(hi)
    /\ OnGrid \/ ix.n <= CandK =>
         \A r \in ProbedRows(hi) : KeptOrBeaten(r, dist2(q, RowCode(ix, r)), K, tk)
    /\ \A r \in Rows \ ProbedRows(hi) :
         \E b \in Bucket : \E c \in CellsOf(b) :
           r \in ToSet(CellRows(ix, c)) /\ Outranked(b, c, ProbesOf(ix, hi))

LargestCell(x) == CHOOSE m \in 0..x.n :
  /\ \A c \in 0..(NumBuckets * x.nlist - 1) : Len(CellRows(x, c)) <= m
  /\ \E c \in 0..(NumBuckets * x.nlist - 1) : Len(CellRows(x, c)) = m

\* The tail guardrail: the cheap pass overshoots maxScan by less than one cell,
\* over all the buckets it visits.
CapOvershootsByLessThanACell ==
  tier = "cheap" /\ ix.maxScan > 0 /\ ix.n > 0 => scanned < ix.maxScan + LargestCell(ix)

\* "The true float 5-NN is always within the integer-nearest candK" and "the
\* test never drops a bucket that could hold a true top-candK row": an
\* exhaustive search answers exactly whatever the null flags.
TrueNearestAreCandidates ==
  pc = "done" /\ ix.n > 0 /\ ix.maxScan = 0 /\ hi = ix.nlist =>
    \A r \in Rows : KeptOrBeaten(r, dist2(q, RowCode(ix, r)), K, tk)
=============================================================================
