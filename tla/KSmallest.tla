------------------------------ MODULE KSmallest ------------------------------
(***************************************************************************)
(* What a sorted buffer promises, without saying how: after any sequence   *)
(* of offered distances, the offers kept are the first Cap of them in      *)
(* order of (distance, arrival).                                           *)
(***************************************************************************)
EXTENDS Integers, Sequences, FiniteSets

CONSTANTS Cap,        \* how many offers are kept
          Dists,      \* the distances that may be offered
          MaxOffers   \* bound on the number of offers

VARIABLES offers,     \* the distances offered so far, in order of arrival
          kept        \* the arrival numbers of the offers kept

kvars == <<offers, kept>>

\* Offer a is strictly ahead of offer b: nearer, or as near and seen first.
Ahead(s, a, b) == s[a] < s[b] \/ (s[a] = s[b] /\ a < b)

Best(s) == {k \in 1..Len(s) : Cardinality({j \in 1..Len(s) : Ahead(s, j, k)}) < Cap}

Init == offers = <<>> /\ kept = {}

Offer(d) ==
  /\ Len(offers) < MaxOffers
  /\ offers' = Append(offers, d)
  /\ kept' = Best(offers')

Next == \E d \in Dists : Offer(d)

Spec == Init /\ [][Next]_kvars
=============================================================================
