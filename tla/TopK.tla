-------------------------------- MODULE TopK --------------------------------
(***************************************************************************)
(* One sorted buffer fed an arbitrary sequence of distances: the life of   *)
(* an intTopK during a scan and of a topK during refine or BruteDebug      *)
(* (internal/index/index.go).  The n-th offer carries the item n, so the   *)
(* buffer's items say which offers it holds.                               *)
(***************************************************************************)
EXTENDS SortedBuffer, Sequences

CONSTANTS Cap,        \* candK for intTopK, K for topK
          Dists,      \* the distances that may be offered
          MaxOffers   \* bound on the number of offers

ASSUME CapAssumption == Cap \in Nat \ {0}
ASSUME DistAssumption == Inf \in Int /\ Dists \subseteq {d \in Int : d < Inf}
ASSUME OffersAssumption == MaxOffers \in Nat

VARIABLES buf,        \* the buffer
          offers      \* history: the distances offered so far

vars == <<buf, offers>>

TypeOK ==
  /\ buf \in [dist : [1..Cap -> Dists \cup {Inf}], item : [1..Cap -> Nat], n : 0..Cap]
  /\ offers \in Seq(Dists)

Init ==
  /\ buf = EmptyBuffer(Cap, 0)
  /\ offers = <<>>

Offer(d) ==
  /\ Len(offers) < MaxOffers
  /\ buf' = Consider(Cap, buf, d, Len(offers) + 1)
  /\ offers' = Append(offers, d)

Next == \E d \in Dists : Offer(d)

Spec == Init /\ [][Next]_vars

-----------------------------------------------------------------------------
Kept == {buf.item[i] : i \in 1..buf.n}

Ahead(a, b) == offers[a] < offers[b] \/ (offers[a] = offers[b] /\ a < b)

\* Every counted slot holds an offer and that offer's own distance, and every
\* slot past the count is still at the sentinel: dist, item and n, which
\* consider writes apart, never disagree.
Aligned ==
  /\ \A i \in 1..buf.n : buf.item[i] \in 1..Len(offers) /\ buf.dist[i] = offers[buf.item[i]]
  /\ \A i \in (buf.n + 1)..Cap : buf.dist[i] = Inf

\* The slots are in order of (distance, arrival): worst() is the largest kept
\* distance, and ties keep the order in which the scan met them.
Ranked == \A i, j \in 1..buf.n : i < j => Ahead(buf.item[i], buf.item[j])

\* An offer that is not in the buffer was beaten by Cap others: the buffer is
\* full and every kept offer is nearer, or as near and seen first.  This is
\* what makes worst() a sound bound to prune buckets with.
NothingNearerLost ==
  \A k \in 1..Len(offers) :
    k \in Kept \/ (IsFull(Cap, buf) /\ \A i \in 1..buf.n : Ahead(buf.item[i], k))

\* worst() only ever falls, so a bucket pruned once stays prunable.
WorstNeverGrows == [][Worst(Cap, buf') <= Worst(Cap, buf)]_vars

Abstract == INSTANCE KSmallest WITH kept <- Kept

\* The buffer implements KSmallest.
KeepsTheKSmallest == Abstract!Spec
=============================================================================
