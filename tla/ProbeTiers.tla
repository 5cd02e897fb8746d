----------------------------- MODULE ProbeTiers -----------------------------
(***************************************************************************)
(* Which cells of one bucket the two-tier search scans: the two calls      *)
(* probeBucketRange(b, 0, nprobe) and probeBucketRange(b, nprobe,          *)
(* nprobeHigh) of internal/index/index.go.  Each call selects its nearest  *)
(* cells again from the same centroids and the same query codes, so the    *)
(* two selection loops see the same distances; they run side by side here, *)
(* then the ranks of the cheap call are scanned, then those of the         *)
(* escalated one.  The row cap maxScan is off (module Search has it).      *)
(***************************************************************************)
EXTENDS SortedBuffer, Sequences

CONSTANTS NList,          \* cells per bucket
          MaxProbe,       \* maxProbe: length of the probe arrays
          NProbe,         \* ix.nprobe, not yet clamped (LoadIndex does not)
          NProbeHigh,     \* what highProbeForCount returned
          CentroidDists   \* the integer centroid distances that may occur

ASSUME ProbeAssumption ==
  /\ NList \in Nat \ {0} /\ MaxProbe \in Nat \ {0}
  /\ NProbe \in Nat \ {0} /\ NProbeHigh \in Nat
  /\ NProbe < NProbeHigh                  \* the guard of the escalation
ASSUME CentroidAssumption ==
  /\ Inf \in Int
  /\ CentroidDists \subseteq Int /\ \A d \in CentroidDists : d < Inf

VARIABLES cell,      \* centroids considered so far
          low,       \* probe arrays of the cheap call
          high,      \* probe arrays of the escalated call
          rank,      \* next rank to scan, from 1
          visited    \* the cells scanned, in order

tiersVars == <<cell, low, high, rank, visited>>

Smaller(a, b) == IF a < b THEN a ELSE b

\* np := npHi, cut to nlist and to maxProbe (the arguments are never below 1).
Clamp(np) == Smaller(Smaller(np, NList), MaxProbe)

LowRanks == Clamp(NProbe)
HighRanks == Clamp(NProbeHigh)

Cells == 0..(NList - 1)

TiersTypeOK ==
  /\ cell \in 0..NList
  /\ low \in [dist : [1..LowRanks -> CentroidDists \cup {Inf}],
              item : [1..LowRanks -> Cells], n : 0..LowRanks]
  /\ high \in [dist : [1..HighRanks -> CentroidDists \cup {Inf}],
               item : [1..HighRanks -> Cells], n : 0..HighRanks]
  /\ rank \in 1..(HighRanks + 1)
  /\ visited \in Seq(Cells)

TiersInit ==
  /\ cell = 0
  /\ low = EmptyBuffer(LowRanks, 0)
  /\ high = EmptyBuffer(HighRanks, 0)
  /\ rank = 1
  /\ visited = <<>>

\* insertProbe of the next centroid, in both selections.
ConsiderCentroid(d) ==
  /\ cell < NList
  /\ low' = Consider(LowRanks, low, d, cell)
  /\ high' = Consider(HighRanks, high, d, cell)
  /\ cell' = cell + 1
  /\ UNCHANGED <<rank, visited>>

\* The cheap call scans the cell at the next rank of [0, nprobe).
ScanCheap ==
  /\ cell = NList
  /\ rank <= LowRanks
  /\ visited' = Append(visited, low.item[rank])
  /\ rank' = rank + 1
  /\ UNCHANGED <<cell, low, high>>

FirstHighRankFromZero == 1                        \* mutant: npLo = 0
FirstHighRankSkipsOne == NProbe + 2               \* mutant: off by one

\* The escalated call's first rank: npLo is nprobe as stored, unclamped.
FirstHighRank == NProbe + 1

\* The escalated call scans the cell at the next rank of [nprobe, nprobeHigh);
\* when nprobe >= np it returns with nothing to scan.
ScanHigh ==
  /\ cell = NList
  /\ rank > LowRanks
  /\ LET r == FirstHighRank + (rank - LowRanks - 1)
     IN  /\ r <= HighRanks
         /\ visited' = Append(visited, high.item[r])
  /\ rank' = rank + 1
  /\ UNCHANGED <<cell, low, high>>

TiersNext == (\E d \in CentroidDists : ConsiderCentroid(d)) \/ ScanCheap \/ ScanHigh

TiersSpec ==
  /\ TiersInit /\ [][TiersNext]_tiersVars
  /\ WF_tiersVars(ScanCheap \/ ScanHigh)
  /\ WF_tiersVars(\E d \in CentroidDists : ConsiderCentroid(d))

-----------------------------------------------------------------------------
\* "The nprobe nearest cells are a deterministic prefix of the npHi nearest":
\* at every point of the selection, the first nprobe slots of the two arrays
\* hold the same cells at the same distances.
PrefixStable ==
  \A i \in 1..LowRanks : low.dist[i] = high.dist[i] /\ low.item[i] = high.item[i]

\* "The escalation never re-scans them": no cell is scanned twice.
NoCellScannedTwice ==
  \A i, j \in 1..Len(visited) : i # j => visited[i] # visited[j]

\* Once the selection is over, no rank below np is still at the sentinel, so
\* the break on pd[i] == MaxInt32 is never taken: every cell has a centroid,
\* empty cells included.
RanksFilled == cell = NList => \A i \in 1..HighRanks : high.dist[i] < Inf

\* Incremental escalation scans, in the end, exactly the cells a fresh scan of
\* the nprobeHigh nearest would have scanned.
EscalationIsFreshScan ==
  <>[](\A c \in Cells : (\E i \in 1..Len(visited) : visited[i] = c)
                        <=> (\E i \in 1..HighRanks : high.item[i] = c))
=============================================================================
