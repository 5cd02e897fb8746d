---------------------------- MODULE SortedBuffer ----------------------------
(***************************************************************************)
(* The fixed-capacity sorted buffer of internal/index/index.go, which the  *)
(* code writes three times: intTopK (candidate rows by integer distance),  *)
(* topK (the K nearest by float distance) and the pd/pc probe arrays that  *)
(* insertProbe fills (cells by centroid distance).  Slots are numbered     *)
(* from 1 here and from 0 in the code; slot Capacity is the worst kept.    *)
(***************************************************************************)
EXTENDS Integers

CONSTANT Inf    \* math.MaxInt32 / math.MaxFloat64: the distance of a free slot

\* newIntTopK, newTopK and the pd initialisation: distances at the sentinel,
\* items at Go's zero value, nothing counted.
EmptyBuffer(cap, zero) ==
  [dist |-> [i \in 1..cap |-> Inf],
   item |-> [i \in 1..cap |-> zero],
   n    |-> 0]

Worst(cap, buf) == buf.dist[cap]

IsFull(cap, buf) == buf.n >= cap

AdmitsTies(cap, buf, d) == d <= buf.dist[cap]     \* mutant: <= for <
AdmitsAlways(cap, buf, d) == TRUE                 \* mutant: no early return

\* The early return of consider / insertProbe: strict, so the first offer of a
\* distance wins a tie for the last slot.
Admits(cap, buf, d) == d < buf.dist[cap]

InsertSlotBeforeTies(cap, buf, d) ==              \* mutant: >= in the loop
  CHOOSE p \in 1..cap : /\ \A j \in p..(cap - 1) : buf.dist[j] >= d
                        /\ p > 1 => buf.dist[p - 1] < d

\* Where the shifting loop stops: it walks left from the last slot while the
\* slot to the left holds a strictly larger distance.
InsertSlot(cap, buf, d) ==
  CHOOSE p \in 1..cap : /\ \A j \in p..(cap - 1) : buf.dist[j] > d
                        /\ p > 1 => buf.dist[p - 1] <= d

ShiftInNoShift(cap, f, p, v) == [f EXCEPT ![p] = v]   \* mutant: overwrites slot p

\* The slots from p on move one to the right, the last one falls out, v takes p.
ShiftIn(cap, f, p, v) ==
  [i \in 1..cap |-> IF i < p THEN f[i] ELSE IF i = p THEN v ELSE f[i - 1]]

CountAlways(cap, buf) == buf.n + 1                \* mutant: n++ unguarded

CountAfter(cap, buf) == IF buf.n < cap THEN buf.n + 1 ELSE buf.n

\* intTopK.consider, topK.consider, insertProbe.
Consider(cap, buf, d, x) ==
  IF ~Admits(cap, buf, d)
  THEN buf
  ELSE LET p == InsertSlot(cap, buf, d)
       IN  [dist |-> ShiftIn(cap, buf.dist, p, d),
            item |-> ShiftIn(cap, buf.item, p, x),
            n    |-> CountAfter(cap, buf)]
=============================================================================
