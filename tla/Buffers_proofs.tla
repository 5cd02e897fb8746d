---------------------------- MODULE Buffers_proofs ----------------------------
(***************************************************************************)
(* Proofs about the users of the sorted buffer: TopK, for every capacity,  *)
(* every set of distances below the sentinel and every number of offers,   *)
(* and ProbeTiers, for every number of cells, every probe length, every    *)
(* pair of knobs nprobe < nprobeHigh and every centroid distance below the *)
(* sentinel.                                                               *)
(***************************************************************************)
EXTENDS TopK, ProbeTiers, SortedBuffer_proofs, FunctionTheorems, FiniteSetTheorems

\* The four invariants are inductive together: Ranked and Aligned say why the
\* last slot is the worst, NothingNearerLost needs that to survive an eviction.
BufferInv == TypeOK /\ Aligned /\ Ranked /\ NothingNearerLost

\* An empty buffer is sorted and has lost nothing.
LEMMA BufferInvInit == Init => BufferInv
BY CapAssumption, DistAssumption
DEF Init, BufferInv, TypeOK, Aligned, Ranked, NothingNearerLost, Kept, EmptyBuffer, IsFull

\* The same in plain arithmetic, with the order of the kept distances.
LEMMA Facts ==
  ASSUME BufferInv
  PROVE  /\ Len(offers) \in Nat
         /\ \A k \in 1..Len(offers) : offers[k] \in Int /\ offers[k] < Inf
         /\ buf.n \in 0..Cap
         /\ \A i \in 1..Cap : buf.dist[i] \in Int /\ buf.item[i] \in Nat
         /\ \A i \in 1..buf.n : /\ buf.item[i] \in 1..Len(offers)
                               /\ offers[buf.item[i]] = buf.dist[i]
         /\ \A i \in (buf.n + 1)..Cap : buf.dist[i] = Inf
         /\ \A i, j \in 1..buf.n : i <= j => buf.dist[i] <= buf.dist[j]
<1> USE CapAssumption
<1>1. Len(offers) \in Nat /\ \A k \in 1..Len(offers) : offers[k] \in Int /\ offers[k] < Inf
  <2>1. offers \in Seq(Dists) /\ Dists \subseteq {d \in Int : d < Inf}
    BY DistAssumption DEF BufferInv, TypeOK
  <2>2. Len(offers) \in Nat /\ \A k \in 1..Len(offers) : offers[k] \in Dists
    BY <2>1
  <2> QED
    BY <2>1, <2>2
<1>2. buf.n \in 0..Cap /\ \A i \in 1..Cap : buf.item[i] \in Nat
  BY DEF BufferInv, TypeOK
<1>3. \A i \in 1..Cap : buf.dist[i] \in Int
  <2>1. Dists \cup {Inf} \subseteq Int
    BY DistAssumption
  <2>2. buf.dist \in [1..Cap -> Dists \cup {Inf}]
    BY DEF BufferInv, TypeOK
  <2> QED
    BY <2>1, <2>2
<1>4. /\ \A i \in 1..buf.n : /\ buf.item[i] \in 1..Len(offers)
                            /\ offers[buf.item[i]] = buf.dist[i]
      /\ \A i \in (buf.n + 1)..Cap : buf.dist[i] = Inf
  BY DEF BufferInv, Aligned
<1>5. ASSUME NEW i \in 1..buf.n, NEW j \in 1..buf.n, i <= j
      PROVE  buf.dist[i] <= buf.dist[j]
  <2>1. CASE i = j
    BY <2>1, <1>2, <1>3
  <2>2. CASE i < j
    <3>1. Ahead(buf.item[i], buf.item[j])
      BY <2>2 DEF BufferInv, Ranked
    <3>2. i \in 1..Cap /\ j \in 1..Cap
      BY <1>2
    <3>3. offers[buf.item[i]] = buf.dist[i] /\ offers[buf.item[j]] = buf.dist[j]
      BY <1>4
    <3>4. buf.dist[i] \in Int /\ buf.dist[j] \in Int
      BY <3>2, <1>3
    <3> QED
      BY <3>1, <3>3, <3>4 DEF Ahead
  <2> QED
    BY <2>1, <2>2, <1>2, <1>5
<1> QED
  BY <1>1, <1>2, <1>3, <1>4, <1>5

\* A rejected offer finds the buffer full of offers at least as near.
LEMMA RejectedStep ==
  ASSUME BufferInv, NEW d \in Dists, Offer(d), d >= buf.dist[Cap], buf' = buf
  PROVE  BufferInv'
<1> USE CapAssumption
<1>0. Inf \in Int /\ d \in Int /\ d < Inf
  BY DistAssumption
<1>1. /\ TypeOK /\ Aligned /\ Ranked /\ NothingNearerLost
      /\ offers' = Append(offers, d) /\ offers \in Seq(Dists) /\ Len(offers) \in Nat
  BY DEF BufferInv, Offer, TypeOK
<1>2. TypeOK'
  BY <1>1 DEF TypeOK
<1>3. /\ Len(offers') = Len(offers) + 1 /\ offers'[Len(offers) + 1] = d
      /\ \A k \in 1..Len(offers) : offers'[k] = offers[k]
  BY <1>1
<1>4. Aligned'
  BY <1>1, <1>3 DEF Aligned, TypeOK
<1>5. Ranked'
  BY <1>1, <1>3, SMTT(30) DEF Aligned, Ranked, Ahead, TypeOK
<1>6. buf.n = Cap
  BY <1>0, <1>1, Facts
<1>7. ASSUME NEW k, k = Len(offers) + 1, NEW i \in 1..buf.n
      PROVE  Ahead(buf.item[i], k)'
  <2>1. offers[buf.item[i]] = buf.dist[i] /\ buf.item[i] \in 1..Len(offers) /\ buf.dist[i] \in Int
    BY <1>6, Facts
  <2>2. buf.dist[i] <= buf.dist[Cap] /\ buf.dist[Cap] \in Int
    BY <1>6, Facts
  <2>3. offers'[buf'.item[i]] <= offers'[k] /\ buf'.item[i] < k
    BY <2>1, <2>2, <1>0, <1>1, <1>3, <1>7
  <2>4. offers'[buf'.item[i]] \in Int /\ offers'[k] \in Int
    BY <2>1, <1>0, <1>3, <1>7
  <2> QED
    BY <2>3, <2>4 DEF Ahead
<1>8. NothingNearerLost'
  <2> SUFFICES ASSUME NEW k \in 1..Len(offers'), k \notin Kept'
               PROVE  IsFull(Cap, buf)' /\ \A i \in 1..buf.n : Ahead(buf.item[i], k)'
    BY <1>1 DEF NothingNearerLost
  <2>1. IsFull(Cap, buf)'
    BY <1>6 DEF IsFull
  <2>2. CASE k = Len(offers) + 1
    BY <2>1, <2>2, <1>1, <1>7
  <2>3. CASE k \in 1..Len(offers)
    <3>1. \A i \in 1..buf.n : Ahead(buf.item[i], k)
      BY <2>3, <1>1 DEF NothingNearerLost, Kept
    <3>2. \A i \in 1..buf.n : offers'[buf'.item[i]] = offers[buf.item[i]] /\ buf'.item[i] = buf.item[i]
      BY <1>1, <1>3 DEF Aligned
    <3>3. offers'[k] = offers[k]
      BY <2>3, <1>3
    <3> QED
      BY <3>1, <3>2, <3>3, <2>1 DEF Ahead
  <2> QED
    BY <2>2, <2>3, <1>1, <1>3
<1> QED
  BY <1>2, <1>4, <1>5, <1>8 DEF BufferInv

\* An admitted offer takes a slot p: what is to its left is as near and older,
\* what moves right is farther, and what falls out was the worst.
LEMMA AdmittedStep ==
  ASSUME BufferInv, NEW d \in Dists, Offer(d), d < buf.dist[Cap],
         NEW p \in 1..Cap, IsInsertSlot(Cap, buf.dist, d, p),
         buf' = [dist |-> ShiftIn(Cap, buf.dist, p, d),
                 item |-> ShiftIn(Cap, buf.item, p, Len(offers) + 1),
                 n    |-> CountAfter(Cap, buf)]
  PROVE  BufferInv'
<1> USE CapAssumption
<1>0. Inf \in Int /\ d \in Int /\ d < Inf
  BY DistAssumption
<1>1. /\ TypeOK /\ Aligned /\ Ranked /\ NothingNearerLost
      /\ offers' = Append(offers, d) /\ offers \in Seq(Dists) /\ Len(offers) \in Nat
  BY DEF BufferInv, Offer, TypeOK
<1> DEFINE new == Len(offers) + 1
<1>2. /\ Len(offers') = new /\ offers'[new] = d
      /\ \A k \in 1..Len(offers) : offers'[k] = offers[k]
  BY <1>1
<1>3. /\ buf.n \in 0..Cap
      /\ buf'.n = IF buf.n < Cap THEN buf.n + 1 ELSE buf.n
      /\ \A i \in 1..Cap : /\ i < p => buf'.dist[i] = buf.dist[i] /\ buf'.item[i] = buf.item[i]
                           /\ i = p => buf'.dist[i] = d /\ buf'.item[i] = new
                           /\ i > p => /\ buf'.dist[i] = buf.dist[i - 1]
                                       /\ buf'.item[i] = buf.item[i - 1]
  BY <1>1 DEF TypeOK, ShiftIn, CountAfter
<1>4. TypeOK'
  <2>1. offers' \in Seq(Dists)
    BY <1>1
  <2>2. ShiftIn(Cap, buf.dist, p, d) \in [1..Cap -> Dists \cup {Inf}]
    BY <1>1 DEF TypeOK, ShiftIn
  <2>3. ShiftIn(Cap, buf.item, p, new) \in [1..Cap -> Nat]
    BY <1>1 DEF TypeOK, ShiftIn
  <2>4. CountAfter(Cap, buf) \in 0..Cap
    BY <1>1 DEF TypeOK, CountAfter
  <2> QED
    BY <2>1, <2>2, <2>3, <2>4 DEF TypeOK
<1>5. p <= buf.n + 1 /\ p <= buf'.n
  <2>1. p <= buf.n + 1
    <3> SUFFICES ASSUME p > buf.n + 1 PROVE FALSE
      BY <1>3
    <3>1. p - 1 \in (buf.n + 1)..Cap /\ buf.dist[p - 1] <= d
      BY <1>3 DEF IsInsertSlot
    <3> QED
      BY <3>1, <1>0, Facts
  <2> QED
    BY <2>1, <1>3
<1>6. \A i \in 1..Cap : buf.dist[i] \in Int /\ buf.item[i] \in Nat
  BY Facts
<1>7. ASSUME NEW i \in 1..(p - 1)
      PROVE  buf.dist[i] <= d
  <2>1. i \in 1..buf.n /\ p - 1 \in 1..buf.n /\ i <= p - 1 /\ p - 1 \in 1..Cap /\ i \in 1..Cap
    BY <1>3, <1>5
  <2>2. buf.dist[i] <= buf.dist[p - 1] /\ buf.dist[p - 1] <= d
    BY <2>1, Facts DEF IsInsertSlot
  <2> QED
    BY <2>1, <2>2, <1>0, <1>6
<1>8. Aligned'
  <2>1. \A i \in 1..buf'.n : buf'.item[i] \in 1..Len(offers') /\ buf'.dist[i] = offers'[buf'.item[i]]
    <3> SUFFICES ASSUME NEW i \in 1..buf'.n
                 PROVE  buf'.item[i] \in 1..Len(offers') /\ buf'.dist[i] = offers'[buf'.item[i]]
      OBVIOUS
    <3>1. CASE i < p
      <4>1. i \in 1..buf.n /\ i \in 1..Cap
        BY <3>1, <1>3, <1>5
      <4>2. buf'.item[i] = buf.item[i] /\ buf'.dist[i] = buf.dist[i]
        BY <3>1, <4>1, <1>3
      <4>3. buf.item[i] \in 1..Len(offers) /\ offers[buf.item[i]] = buf.dist[i]
        BY <4>1, Facts
      <4> QED
        BY <4>2, <4>3, <1>1, <1>2
    <3>2. CASE i = p
      <4>1. buf'.item[i] = new /\ buf'.dist[i] = d
        BY <3>2, <1>3
      <4>2. new \in 1..Len(offers')
        BY <1>1, <1>2
      <4> QED
        BY <4>1, <4>2, <1>2
    <3>3. CASE i > p
      <4>1. i - 1 \in 1..buf.n /\ i \in 1..Cap
        BY <3>3, <1>3
      <4>2. buf'.item[i] = buf.item[i - 1] /\ buf'.dist[i] = buf.dist[i - 1]
        BY <3>3, <4>1, <1>3
      <4>3. buf.item[i - 1] \in 1..Len(offers) /\ offers[buf.item[i - 1]] = buf.dist[i - 1]
        BY <4>1, Facts
      <4> QED
        BY <4>2, <4>3, <1>1, <1>2
    <3> QED
      BY <3>1, <3>2, <3>3
  <2>2. ASSUME NEW i \in (buf'.n + 1)..Cap
        PROVE  buf'.dist[i] = Inf
    <3>1. i \in 1..Cap /\ i > p /\ i - 1 \in (buf.n + 1)..Cap
      BY <1>3, <1>5
    <3> QED
      BY <3>1, <1>3, Facts
  <2> QED
    BY <2>1, <2>2 DEF Aligned
<1>9. Ranked'
  <2> SUFFICES ASSUME NEW i \in 1..buf'.n, NEW j \in 1..buf'.n, i < j
               PROVE  Ahead(buf.item[i], buf.item[j])'
    BY DEF Ranked
  <2> DEFINE precedes(a, b) == offers'[a] < offers'[b] \/ (offers'[a] = offers'[b] /\ a < b)
  <2>0. SUFFICES precedes(buf'.item[i], buf'.item[j])
    BY DEF Ahead
  \* Among the slots the buffer already had, the order is the one it had.
  <2>1. ASSUME NEW a \in 1..buf.n, NEW b \in 1..buf.n, a < b
        PROVE  precedes(buf.item[a], buf.item[b])
    <3>1. Ahead(buf.item[a], buf.item[b])
      BY <2>1, <1>1 DEF Ranked
    <3>2. buf.item[a] \in 1..Len(offers) /\ buf.item[b] \in 1..Len(offers)
      BY <1>1 DEF Aligned
    <3> QED
      BY <3>1, <3>2, <1>2 DEF Ahead
  <2>2. ASSUME NEW a \in 1..(p - 1)
        PROVE  precedes(buf.item[a], new)
    <3>1. a \in 1..buf.n /\ buf.item[a] \in 1..Len(offers) /\ offers[buf.item[a]] <= d
      <4>1. a \in 1..buf.n
        BY <1>3, <1>5
      <4> QED
        BY <4>1, <1>7, Facts
    <3>2. offers'[buf.item[a]] <= offers'[new] /\ buf.item[a] < new
      BY <3>1, <1>2
    <3>3. offers'[buf.item[a]] \in Int /\ offers'[new] \in Int
      BY <3>1, <1>0, <1>2, Facts
    <3> QED
      BY <3>2, <3>3
  <2>3. ASSUME NEW a \in p..(Cap - 1), a \in 1..buf.n
        PROVE  precedes(new, buf.item[a])
    BY <2>3, <1>1, <1>2 DEF Aligned, IsInsertSlot
  <2> HIDE DEF precedes
  <2>4. CASE i < p /\ j < p
    BY <2>4, <2>1, <1>3, <1>5
  <2>5. CASE i < p /\ j = p
    BY <2>5, <2>2, <1>3
  <2>6. CASE i < p /\ j > p
    <3>1. i \in 1..buf.n /\ j - 1 \in 1..buf.n /\ i < j - 1
      BY <2>6, <1>3
    <3>2. buf'.item[i] = buf.item[i] /\ buf'.item[j] = buf.item[j - 1]
      BY <2>6, <1>3
    <3> QED
      BY <3>1, <3>2, <2>1
  <2>7. CASE i = p /\ j > p
    <3>1. j - 1 \in p..(Cap - 1) /\ j - 1 \in 1..buf.n
      BY <2>7, <1>3
    <3>2. buf'.item[i] = new /\ buf'.item[j] = buf.item[j - 1]
      BY <2>7, <1>3
    <3> QED
      BY <3>1, <3>2, <2>3
  <2>8. CASE i > p /\ j > p
    <3>1. i - 1 \in 1..buf.n /\ j - 1 \in 1..buf.n /\ i - 1 < j - 1
      BY <2>8, <1>3
    <3>2. buf'.item[i] = buf.item[i - 1] /\ buf'.item[j] = buf.item[j - 1]
      BY <2>8, <1>3
    <3> QED
      BY <3>1, <3>2, <2>1
  <2> QED
    BY <2>4, <2>5, <2>6, <2>7, <2>8, <1>3
<1>10. NothingNearerLost'
  <2> SUFFICES ASSUME NEW k \in 1..Len(offers'), k \notin Kept'
               PROVE  IsFull(Cap, buf)' /\ \A i \in 1..buf'.n : Ahead(buf.item[i], k)'
    BY DEF NothingNearerLost
  <2>0. \A i \in 1..buf'.n : buf'.item[i] # k
    BY DEF Kept
  <2>1. k \in 1..Len(offers)
    <3>1. p \in 1..buf'.n /\ buf'.item[p] = new
      BY <1>3, <1>5
    <3>2. k # new
      BY <2>0, <3>1
    <3>3. k \in 1..new /\ new = Len(offers) + 1
      BY <1>2
    <3> QED
      BY <3>2, <3>3, <1>1
  \* k was lost before this step, or it is what this step pushed out.
  <2>2. \/ buf.n = Cap /\ \A i \in 1..Cap : Ahead(buf.item[i], k)
        \/ buf.n = Cap /\ buf.item[Cap] = k
    <3>1. CASE k \in Kept
      <4>1. PICK i \in 1..buf.n : buf.item[i] = k
        BY <3>1 DEF Kept
      <4>2. i >= p
        <5> SUFFICES ASSUME i < p PROVE FALSE
          BY <1>3
        <5>1. buf'.item[i] = k /\ i \in 1..buf'.n
          BY <4>1, <1>3, <1>5
        <5> QED
          BY <5>1, <2>0
      <4>3. ~(i + 1 <= buf'.n)
        <5> SUFFICES ASSUME i + 1 <= buf'.n PROVE FALSE
          OBVIOUS
        <5>1. buf'.item[i + 1] = k /\ i + 1 \in 1..buf'.n
          BY <4>1, <4>2, <1>3, SMTT(30)
        <5> QED
          BY <5>1, <2>0
      <4> QED
        BY <4>1, <4>2, <4>3, <1>3
    <3>2. CASE k \notin Kept
      BY <3>2, <2>1, <1>1, <1>3 DEF NothingNearerLost, IsFull
    <3> QED
      BY <3>1, <3>2
  <2>3. buf'.n = Cap /\ IsFull(Cap, buf)'
    BY <2>2, <1>3 DEF IsFull
  \* Every slot that stays was ahead of k already.
  <2>4. ASSUME NEW a \in 1..(Cap - 1)
        PROVE  Ahead(buf.item[a], k) /\ buf.item[a] \in 1..Len(offers)
    <3>1. a \in 1..buf.n /\ Cap \in 1..buf.n /\ a < Cap
      BY <2>2
    <3>2. buf.item[a] \in 1..Len(offers)
      BY <3>1, Facts
    <3>3. Ahead(buf.item[a], buf.item[Cap])
      BY <3>1, <1>1 DEF Ranked
    <3>4. Ahead(buf.item[a], k)
      BY <3>1, <3>3, <2>2
    <3> QED
      BY <3>2, <3>4
  <2>6. d < offers[k]
    <3>1. Cap \in 1..buf.n /\ Cap \in 1..Cap
      BY <2>2
    <3>2. buf.item[Cap] \in 1..Len(offers) /\ offers[buf.item[Cap]] = buf.dist[Cap]
          /\ buf.dist[Cap] \in Int /\ offers[k] \in Int
      BY <3>1, <2>1, Facts
    <3>3. offers[buf.item[Cap]] <= offers[k]
      BY <2>2, <3>1, <3>2, SMTT(30) DEF Ahead
    <3> QED
      BY <3>2, <3>3, <1>0
  <2>7. SUFFICES ASSUME NEW i \in 1..Cap
                 PROVE  Ahead(buf.item[i], k)'
    BY <2>3
  <2>8. CASE i = p
    BY <2>8, <2>6, <2>1, <1>2, <1>3 DEF Ahead
  <2>9. CASE i # p
    <3>1. PICK a \in 1..(Cap - 1) : buf'.item[i] = buf.item[a]
      <4>1. CASE i < p
        BY <4>1, <1>3
      <4>2. CASE i > p
        <5>1. i - 1 \in 1..(Cap - 1) /\ buf'.item[i] = buf.item[i - 1]
          BY <4>2, <1>3
        <5> QED
          BY <5>1
      <4> QED
        BY <4>1, <4>2, <2>9
    <3>2. Ahead(buf.item[a], k) /\ buf.item[a] \in 1..Len(offers)
      BY <2>4
    <3>3. offers'[buf.item[a]] = offers[buf.item[a]] /\ offers'[k] = offers[k]
      BY <3>2, <2>1, <1>2
    <3> QED
      BY <3>1, <3>2, <3>3 DEF Ahead
  <2> QED
    BY <2>8, <2>9
<1> QED
  BY <1>4, <1>8, <1>9, <1>10 DEF BufferInv

\* What an offer does to the buffer.
LEMMA OfferCases ==
  ASSUME BufferInv, NEW d \in Dists, Offer(d)
  PROVE  \/ d >= buf.dist[Cap] /\ buf' = buf
         \/ /\ d < buf.dist[Cap]
            /\ \E p \in 1..Cap :
                 /\ IsInsertSlot(Cap, buf.dist, d, p)
                 /\ buf' = [dist |-> ShiftIn(Cap, buf.dist, p, d),
                            item |-> ShiftIn(Cap, buf.item, p, Len(offers) + 1),
                            n    |-> CountAfter(Cap, buf)]
<1>1. d \in Int /\ Dists \cup {Inf} \subseteq Int
  BY DistAssumption
<1>2. buf.dist \in [1..Cap -> Dists \cup {Inf}]
  BY DEF BufferInv, TypeOK
<1>3. buf.dist \in [1..Cap -> Int]
  BY <1>1, <1>2
<1>4. buf' = Consider(Cap, buf, d, Len(offers) + 1)
  BY DEF Offer
<1> QED
  BY <1>1, <1>3, <1>4, CapAssumption, ConsiderCases

\* The invariant of the buffer is inductive.
THEOREM BufferInvNext == BufferInv /\ [Next]_vars => BufferInv'
<1> SUFFICES ASSUME BufferInv, [Next]_vars
             PROVE  BufferInv'
  OBVIOUS
<1>1. CASE UNCHANGED vars
  BY <1>1 DEF vars, BufferInv, TypeOK, Aligned, Ranked, Ahead, NothingNearerLost, Kept, IsFull
<1>2. ASSUME NEW d \in Dists, Offer(d)
      PROVE  BufferInv'
  BY <1>2, OfferCases, RejectedStep, AdmittedStep
<1> QED
  BY <1>1, <1>2 DEF Next

\* The buffer keeps exactly the Cap offers that come first by (distance,
\* arrival), in that order, whatever the offers: TypeOK, Aligned, Ranked and
\* NothingNearerLost hold in every reachable state.
THEOREM BufferCorrect == Spec => [](TypeOK /\ Aligned /\ Ranked /\ NothingNearerLost)
<1>1. BufferInv => TypeOK /\ Aligned /\ Ranked /\ NothingNearerLost
  BY DEF BufferInv
<1> QED
  BY BufferInvInit, BufferInvNext, <1>1, PTL DEF Spec

\* The bound the cross-bucket prune compares against never grows.
THEOREM WorstMonotone == Spec => WorstNeverGrows
<1>1. BufferInv /\ [Next]_vars => [Worst(Cap, buf') <= Worst(Cap, buf)]_vars
  <2> SUFFICES ASSUME BufferInv, NEW d \in Dists, Offer(d)
               PROVE  buf'.dist[Cap] <= buf.dist[Cap]
    BY DEF Next, Worst
  <2>1. Cap \in 1..Cap /\ buf.dist[Cap] \in Int /\ d \in Int
    BY Facts, CapAssumption, DistAssumption
  <2>2. CASE d >= buf.dist[Cap] /\ buf' = buf
    BY <2>1, <2>2
  <2>3. ASSUME d < buf.dist[Cap], NEW p \in 1..Cap,
               buf'.dist = ShiftIn(Cap, buf.dist, p, d)
        PROVE  buf'.dist[Cap] <= buf.dist[Cap]
    <3>1. CASE p = Cap
      BY <2>1, <2>3, <3>1 DEF ShiftIn
    <3>2. CASE p < Cap
      <4>1. buf'.dist[Cap] = buf.dist[Cap - 1] /\ Cap - 1 \in 1..Cap
        BY <2>1, <2>3, <3>2, CapAssumption DEF ShiftIn
      <4>2. CASE buf.n = Cap
        BY <4>1, <4>2, <2>1, Facts
      <4>3. CASE buf.n < Cap
        <5>1. buf.dist[Cap] = Inf
          BY <4>3, <2>1, Facts
        <5>2. buf.dist[Cap - 1] \in Dists \cup {Inf}
          BY <4>1 DEF BufferInv, TypeOK
        <5>3. \A v \in Dists \cup {Inf} : v <= Inf
          BY DistAssumption
        <5> QED
          BY <4>1, <5>1, <5>2, <5>3
      <4> QED
        BY <4>2, <4>3, Facts, CapAssumption
    <3> QED
      BY <3>1, <3>2, CapAssumption
  <2>4. CASE d < buf.dist[Cap]
    <3>1. PICK p \in 1..Cap : buf'.dist = ShiftIn(Cap, buf.dist, p, d)
      BY <2>1, <2>4, OfferCases
    <3> QED
      BY <3>1, <2>3, <2>4
  <2> QED
    BY <2>1, <2>2, <2>4, OfferCases
<1> QED
  BY BufferInvInit, BufferInvNext, <1>1, PTL DEF Spec, WorstNeverGrows

-----------------------------------------------------------------------------
\* The promise of KSmallest.

\* Type correctness of the buffer and of the history of offers.
THEOREM BufferTypeCorrect == Spec => []TypeOK
<1>1. BufferInv => TypeOK
  BY DEF BufferInv
<1> QED
  BY BufferInvInit, BufferInvNext, <1>1, PTL DEF Spec

\* What KSmallest calls ahead is what the invariants call ahead.
LEMMA SameOrder == \A a, b : Abstract!Ahead(offers, a, b) <=> Ahead(a, b)
BY DEF Abstract!Ahead, Ahead

\* KSmallest counts as this module does.
LEMMA SameCount == \A S : Abstract!Cardinality(S) = Cardinality(S)
BY DEF Abstract!Cardinality, Cardinality

\* The offers are ranked without ties.
LEMMA AheadOrder ==
  ASSUME BufferInv, NEW a \in 1..Len(offers), NEW b \in 1..Len(offers)
  PROVE  ~(Ahead(a, b) /\ Ahead(b, a)) /\ ~Ahead(a, a)
<1>1. Len(offers) \in Nat /\ offers[a] \in Int /\ offers[b] \in Int
  BY Facts
<1> QED
  BY <1>1 DEF Ahead

\* What is ahead of the offer in slot i is in the slots before it.
LEMMA AheadOfKept ==
  ASSUME BufferInv, NEW i \in 1..buf.n, NEW j \in 1..Len(offers), Ahead(j, buf.item[i])
  PROVE  \E m \in 1..(i - 1) : j = buf.item[m]
<1>1. buf.n \in Nat /\ i \in Nat /\ buf.item[i] \in 1..Len(offers)
  BY Facts
<1>2. j \in Kept
  <2> SUFFICES ASSUME j \notin Kept
               PROVE  FALSE
    OBVIOUS
  <2>1. Ahead(buf.item[i], j)
    BY DEF BufferInv, NothingNearerLost
  <2> QED
    BY <1>1, <2>1, AheadOrder
<1>3. PICK m \in 1..buf.n : j = buf.item[m]
  BY <1>2 DEF Kept
<1>4. ~(i < m)
  <2>1. i < m => Ahead(buf.item[i], buf.item[m])
    BY DEF BufferInv, Ranked
  <2> QED
    BY <1>1, <1>3, <2>1, AheadOrder
<1>5. m # i
  BY <1>1, <1>3, AheadOrder
<1> QED
  BY <1>1, <1>3, <1>4, <1>5

\* The buffer holds the offers that fewer than Cap others are ahead of: an
\* offer in slot i has only those before it ahead, and one not held has them all.
LEMMA KeptIsBest == BufferInv => Kept = Abstract!Best(offers)
<1> SUFFICES ASSUME BufferInv
             PROVE  Kept = Abstract!Best(offers)
  OBVIOUS
<1> DEFINE front(k) == {j \in 1..Len(offers) : Ahead(j, k)}
<1>1. Abstract!Best(offers) = {k \in 1..Len(offers) : Cardinality(front(k)) < Cap}
  <2>1. \A k : front(k) = {j \in 1..Len(offers) : Abstract!Ahead(offers, j, k)}
    BY SameOrder
  <2>2. Abstract!Best(offers) =
          {k \in 1..Len(offers) :
             Cardinality({j \in 1..Len(offers) : Abstract!Ahead(offers, j, k)}) < Cap}
    BY SameCount DEF Abstract!Best
  <2> HIDE DEF front
  <2> QED
    BY <2>1, <2>2, Zenon
<1>2. Len(offers) \in Nat /\ buf.n \in 0..Cap /\ Cap \in Nat
  BY Facts, CapAssumption
<1>3. \A k : IsFiniteSet(front(k)) /\ Cardinality(front(k)) \in Nat
  <2>1. IsFiniteSet(1..Len(offers))
    BY <1>2, FS_Interval
  <2>2. \A k : front(k) \in SUBSET (1..Len(offers))
    OBVIOUS
  <2> HIDE DEF front
  <2> QED
    BY <2>1, <2>2, FS_Subset, FS_CardinalityType
<1>4. ASSUME NEW i \in 1..buf.n
      PROVE  buf.item[i] \in 1..Len(offers) /\ Cardinality(front(buf.item[i])) < Cap
  <2> DEFINE k == buf.item[i]
             slots == [m \in 1..(i - 1) |-> buf.item[m]]
  <2>1. k \in 1..Len(offers) /\ i \in 1..Cap
    <3> HIDE DEF front, slots
    <3>1. \A h \in 1..buf.n : buf.item[h] \in 1..Len(offers)
      BY Facts
    <3>2. i \in 1..Cap
      BY <1>2, <1>4
    <3> QED
      BY <1>4, <3>1, <3>2
  <2>2. IsFiniteSet(1..(i - 1)) /\ Cardinality(1..(i - 1)) = i - 1
    BY <2>1, FS_Interval
  <2>3. /\ IsFiniteSet({slots[m] : m \in 1..(i - 1)})
        /\ Cardinality({slots[m] : m \in 1..(i - 1)}) <= i - 1
    <3> DEFINE T == {slots[m] : m \in 1..(i - 1)}
    <3>1. slots \in Surjection(1..(i - 1), T)
      BY DEF Surjection
    <3> HIDE DEF T, slots
    <3>2. IsFiniteSet(T) /\ Cardinality(T) <= Cardinality(1..(i - 1))
      BY <3>1, <2>2, FS_Surjection
    <3> QED
      BY <3>2, <2>2 DEF T
  <2>4. front(k) \subseteq {slots[m] : m \in 1..(i - 1)}
    BY AheadOfKept
  <2>5. Cardinality(front(k)) <= Cardinality({slots[m] : m \in 1..(i - 1)})
    BY <2>3, <2>4, FS_Subset
  <2>6. Cardinality({slots[m] : m \in 1..(i - 1)}) \in Nat
    BY <2>3, FS_CardinalityType
  <2>7. Cardinality(front(k)) \in Nat /\ i \in 1..Cap
    BY <1>3, <2>1
  <2> HIDE DEF front, k, slots
  <2>8. Cardinality(front(k)) < Cap
    BY <1>2, <2>3, <2>5, <2>6, <2>7
  <2> QED
    BY <2>1, <2>8 DEF k
<1>5. ASSUME NEW k \in 1..Len(offers), k \notin Kept
      PROVE  ~(Cardinality(front(k)) < Cap)
  <2>1. buf.n = Cap /\ \A i \in 1..Cap : Ahead(buf.item[i], k) /\ buf.item[i] \in 1..Len(offers)
    <3>1. buf.n = Cap
      BY <1>2, <1>5 DEF BufferInv, NothingNearerLost, IsFull
    <3> QED
      BY <1>5, <3>1, Facts DEF BufferInv, NothingNearerLost
  <2>2. ASSUME NEW a \in 1..Cap, NEW b \in 1..Cap, a < b
        PROVE  buf.item[a] # buf.item[b]
    <3>1. Ahead(buf.item[a], buf.item[b])
      BY <2>1, <2>2 DEF BufferInv, Ranked
    <3> QED
      BY <2>1, <3>1, AheadOrder
  <2> DEFINE slots == [i \in 1..Cap |-> buf.item[i]]
  <2>3. slots \in Injection(1..Cap, front(k))
    <3>1. slots \in [1..Cap -> front(k)]
      BY <2>1
    <3>2. \A a, b \in 1..Cap : slots[a] = slots[b] => a = b
      BY <1>2, <2>2
    <3> QED
      BY <3>1, <3>2 DEF Injection, IsInjective
  <2>4. Cardinality(1..Cap) = Cap
    BY <1>2, FS_Interval
  <2> HIDE DEF slots, front
  <2>5. Cardinality(1..Cap) <= Cardinality(front(k))
    BY <1>3, <2>3, FS_Injection
  <2> QED
    BY <1>2, <1>3, <2>4, <2>5
<1> QED
  <2>1. Kept \subseteq Abstract!Best(offers)
    BY <1>1, <1>4 DEF Kept
  <2>2. Abstract!Best(offers) \subseteq Kept
    BY <1>1, <1>5
  <2> QED
    BY <2>1, <2>2

\* The buffer implements KSmallest: after every offer it holds the offers
\* that fewer than Cap others are ahead of, so feeding consider row by row
\* selects what sorting all the rows would.
THEOREM ImplementsKSmallest == Spec => KeepsTheKSmallest
<1>1. Init => Abstract!Init
  BY CapAssumption DEF Init, Abstract!Init, Kept, EmptyBuffer
<1>2. (Kept = Abstract!Best(offers))' /\ [Next]_vars => [Abstract!Next]_(Abstract!kvars)
  <2> SUFFICES ASSUME (Kept = Abstract!Best(offers))', [Next]_vars
               PROVE  [Abstract!Next]_(Abstract!kvars)
    OBVIOUS
  <2>1. CASE UNCHANGED vars
    BY <2>1 DEF vars, Abstract!kvars, Kept
  <2>2. ASSUME NEW d \in Dists, Offer(d)
        PROVE  Abstract!Next
    <3>1. Kept' = Abstract!Best(offers')
      BY DEF Abstract!Best
    <3>2. Abstract!Offer(d)
      BY <2>2, <3>1 DEF Offer, Abstract!Offer
    <3> QED
      BY <3>2 DEF Abstract!Next
  <2> QED
    BY <2>1, <2>2 DEF Next
<1> QED
  BY BufferInvInit, BufferInvNext, KeptIsBest, <1>1, <1>2, PTL DEF Spec, KeepsTheKSmallest, Abstract!Spec

-----------------------------------------------------------------------------
\* The slots that hold a considered cell are the first ones, one per cell seen.
Filled == \A i \in 1..HighRanks : high.dist[i] < Inf <=> i <= cell

\* They hold distinct cells among those considered.
Distinct ==
  \A i \in 1..HighRanks : i <= cell =>
    /\ high.item[i] < cell
    /\ \A j \in 1..HighRanks : j <= cell /\ i # j => high.item[i] # high.item[j]

\* What has been scanned is the escalated selection, rank by rank.
Visits ==
  /\ Len(visited) = rank - 1
  /\ rank > 1 => cell = NList
  /\ \A i \in 1..Len(visited) : visited[i] = high.item[i]

TiersInv == TiersTypeOK /\ Sorted(HighRanks, high.dist) /\ PrefixStable /\ Filled /\ Distinct /\ Visits

\* What the two probe counts are after their clamps.
LEMMA Ranks ==
  /\ LowRanks \in Nat \ {0} /\ HighRanks \in Nat \ {0}
  /\ LowRanks <= HighRanks /\ HighRanks <= NList
  /\ NProbe = LowRanks \/ NProbe >= HighRanks
BY ProbeAssumption DEF LowRanks, HighRanks, Clamp, Smaller

\* Both probe buffers start empty.
LEMMA TiersInvInit == TiersInit => TiersInv
<1> SUFFICES ASSUME TiersInit PROVE TiersInv
  OBVIOUS
<1>1. /\ LowRanks \in Nat \ {0} /\ HighRanks \in Nat \ {0}
      /\ LowRanks <= HighRanks /\ NList \in Nat \ {0} /\ Inf \in Int
  BY Ranks, ProbeAssumption, CentroidAssumption
<1>2. /\ \A i \in 1..LowRanks : low.dist[i] = Inf /\ low.item[i] = 0
      /\ \A i \in 1..HighRanks : high.dist[i] = Inf /\ high.item[i] = 0
  BY DEF TiersInit, EmptyBuffer
<1>3. TiersTypeOK
  BY <1>1 DEF TiersInit, EmptyBuffer, TiersTypeOK, Cells
<1>4. PrefixStable /\ Sorted(HighRanks, high.dist)
  BY <1>1, <1>2 DEF PrefixStable, Sorted
<1>5. Filled /\ Distinct
  BY <1>1, <1>2 DEF TiersInit, Filled, Distinct
<1>6. Visits
  BY <1>1 DEF TiersInit, Visits
<1> QED
  BY <1>3, <1>4, <1>5, <1>6 DEF TiersInv

\* The distances of a typed buffer are integers.
LEMMA BufferTypes ==
  ASSUME TiersInv
  PROVE  /\ low.dist \in [1..LowRanks -> Int]
         /\ high.dist \in [1..HighRanks -> Int]
         /\ high.item \in [1..HighRanks -> Nat]
         /\ cell \in 0..NList /\ NList \in Nat /\ Inf \in Int
<1>1. CentroidDists \cup {Inf} \subseteq Int /\ Inf \in Int
  BY CentroidAssumption
<1>2. NList \in Nat /\ Cells \subseteq Nat
  BY ProbeAssumption DEF Cells
<1>3. /\ low.dist \in [1..LowRanks -> CentroidDists \cup {Inf}]
      /\ high.dist \in [1..HighRanks -> CentroidDists \cup {Inf}]
      /\ high.item \in [1..HighRanks -> Cells]
      /\ cell \in 0..NList
  BY DEF TiersInv, TiersTypeOK
<1> QED
  BY <1>1, <1>2, <1>3

\* Considering a centroid keeps the invariant.
LEMMA ConsiderStep ==
  ASSUME TiersInv, NEW d \in CentroidDists, ConsiderCentroid(d)
  PROVE  TiersInv'
<1>1. /\ LowRanks \in Nat \ {0} /\ HighRanks \in Nat \ {0} /\ LowRanks <= HighRanks
      /\ NList \in Nat \ {0} /\ HighRanks <= NList
  BY Ranks, ProbeAssumption
<1>2. /\ low.dist \in [1..LowRanks -> Int] /\ high.dist \in [1..HighRanks -> Int]
      /\ high.item \in [1..HighRanks -> Nat] /\ cell \in 0..NList /\ Inf \in Int
  BY BufferTypes
<1>3. d \in Int /\ d < Inf /\ CentroidDists \cup {Inf} \subseteq Int
  BY CentroidAssumption
<1>4. /\ cell < NList /\ cell' = cell + 1
      /\ low' = Consider(LowRanks, low, d, cell) /\ high' = Consider(HighRanks, high, d, cell)
      /\ UNCHANGED <<rank, visited>>
  BY DEF ConsiderCentroid
<1>5. TiersTypeOK'
  <2>1. cell \in Cells /\ d \in CentroidDists \cup {Inf}
    BY <1>1, <1>2, <1>4 DEF Cells
  <2>2. low' \in [dist : [1..LowRanks -> CentroidDists \cup {Inf}],
                  item : [1..LowRanks -> Cells], n : 0..LowRanks]
    BY <2>1, <1>1, <1>3, <1>4, ConsiderType DEF TiersInv, TiersTypeOK
  <2>3. high' \in [dist : [1..HighRanks -> CentroidDists \cup {Inf}],
                   item : [1..HighRanks -> Cells], n : 0..HighRanks]
    BY <2>1, <1>1, <1>3, <1>4, ConsiderType DEF TiersInv, TiersTypeOK
  <2> QED
    BY <2>2, <2>3, <1>1, <1>2, <1>4, SMTT(30) DEF TiersInv, TiersTypeOK
<1>6. Sorted(HighRanks, high'.dist)
  BY <1>1, <1>2, <1>3, <1>4, ConsiderSorted DEF TiersInv
<1>7. PrefixStable'
  <2>1. SamePrefix(LowRanks, low, high)
    BY DEF TiersInv, PrefixStable, SamePrefix
  <2>2. SamePrefix(LowRanks, low', high')
    BY <2>1, <1>1, <1>2, <1>3, <1>4, ConsiderPrefix DEF TiersInv
  <2> QED
    BY <2>2 DEF PrefixStable, SamePrefix
<1>8. HoldsOffers(HighRanks, high, cell, 0..(cell - 1))
  <2>1. high.item \in [1..HighRanks -> Int] /\ \A i \in 1..HighRanks : high.item[i] \in Nat
    <3>1. high.item \in [1..HighRanks -> Nat]
      BY <1>2
    <3>2. \A f \in [1..HighRanks -> Nat] :
            f \in [1..HighRanks -> Int] /\ \A i \in 1..HighRanks : f[i] \in Nat
      OBVIOUS
    <3> QED
      BY <3>1, <3>2
  <2>2. Sorted(HighRanks, high.dist) /\ Filled /\ Distinct
    BY DEF TiersInv
  <2>3. \A i \in 1..HighRanks : i <= cell => high.item[i] \in 0..(cell - 1)
    BY <1>2, <2>1, <2>2 DEF Distinct
  <2> QED
    BY <1>2, <2>1, <2>2, <2>3 DEF HoldsOffers, Filled, Distinct
<1>9. HoldsOffers(HighRanks, high', cell', 0..(cell' - 1))
  <2>1. (0..(cell - 1)) \cup {cell} = 0..(cell' - 1) /\ cell \in Nat /\ cell \notin 0..(cell - 1)
    BY <1>2, <1>4
  <2>2. HoldsOffers(HighRanks, Consider(HighRanks, high, d, cell), cell + 1, (0..(cell - 1)) \cup {cell})
    <3>1. HighRanks \in Nat \ {0} /\ Inf \in Int /\ d \in Int /\ d < Inf
      BY <1>1, <1>2, <1>3
    <3>2. cell \in Nat /\ cell \in Int /\ cell \notin 0..(cell - 1)
      BY <2>1
    <3> QED
      BY <1>8, <3>1, <3>2, ConsiderHolds
  <2> QED
    BY <1>4, <2>1, <2>2
<1>10. Filled' /\ Distinct'
  BY <1>2, <1>4, <1>9 DEF HoldsOffers, Filled, Distinct
<1>11. Visits'
  BY <1>2, <1>4 DEF TiersInv, Visits, TiersTypeOK
<1> QED
  BY <1>5, <1>6, <1>7, <1>10, <1>11 DEF TiersInv

\* Scanning a rank keeps the invariant.
LEMMA ScanStep ==
  ASSUME TiersInv, ScanCheap \/ ScanHigh
  PROVE  TiersInv'
<1>1. /\ LowRanks \in Nat \ {0} /\ HighRanks \in Nat \ {0} /\ LowRanks <= HighRanks
      /\ NList \in Nat \ {0} /\ NProbe \in Nat
      /\ NProbe = LowRanks \/ NProbe >= HighRanks
  BY Ranks, ProbeAssumption
<1>2. /\ TiersTypeOK /\ PrefixStable /\ Visits
      /\ rank \in Nat \ {0} /\ visited \in Seq(Cells) /\ Len(visited) = rank - 1
  BY <1>1 DEF TiersInv, TiersTypeOK, Visits
\* Either way the cell appended is the one at this rank of the escalated array.
<1>3. rank <= HighRanks /\ visited' = Append(visited, high.item[rank])
  <2>1. CASE ScanCheap
    <3>1. rank \in 1..LowRanks /\ low.item[rank] = high.item[rank]
      BY <2>1, <1>1, <1>2 DEF ScanCheap, PrefixStable
    <3> QED
      BY <2>1, <3>1, <1>1 DEF ScanCheap
  <2>2. CASE ScanHigh
    <3> DEFINE r == FirstHighRank + (rank - LowRanks - 1)
    <3>1. rank > LowRanks /\ r <= HighRanks /\ visited' = Append(visited, high.item[r])
      BY <2>2 DEF ScanHigh
    <3>2. r = NProbe + rank - LowRanks
      BY <1>1, <1>2 DEF FirstHighRank
    <3>3. r = rank
      BY <3>1, <3>2, <1>1, <1>2
    <3> QED
      BY <3>1, <3>3
  <2> QED
    BY <2>1, <2>2
<1>4. rank' = rank + 1 /\ UNCHANGED <<cell, low, high>> /\ cell = NList
  BY DEF ScanCheap, ScanHigh
<1>5. high.item[rank] \in Cells
  BY <1>1, <1>2, <1>3 DEF TiersTypeOK
<1>6. TiersTypeOK'
  <2>1. rank + 1 \in 1..(HighRanks + 1)
    BY <1>1, <1>2, <1>3
  <2>2. visited' \in Seq(Cells)
    BY <1>2, <1>3, <1>5
  <2> QED
    BY <2>1, <2>2, <1>2, <1>4 DEF TiersTypeOK
<1>7. Visits'
  <2>1. Len(visited') = rank /\ visited'[rank] = high.item[rank]
        /\ \A i \in 1..Len(visited) : visited'[i] = visited[i]
    BY <1>2, <1>3
  <2>2. \A i \in 1..rank : visited'[i] = high.item[i]
    BY <2>1, <1>2 DEF Visits
  <2> QED
    BY <2>1, <2>2, <1>2, <1>4 DEF Visits
<1> QED
  BY <1>4, <1>6, <1>7 DEF TiersInv, PrefixStable, Sorted, Filled, Distinct

\* The invariant of the two tiers is inductive.
THEOREM TiersInvNext == TiersInv /\ [TiersNext]_tiersVars => TiersInv'
<1> SUFFICES ASSUME TiersInv, [TiersNext]_tiersVars PROVE TiersInv'
  OBVIOUS
<1>1. CASE UNCHANGED tiersVars
  BY <1>1 DEF tiersVars, TiersInv, TiersTypeOK, Sorted, PrefixStable, Filled, Distinct, Visits
<1>2. ASSUME NEW d \in CentroidDists, ConsiderCentroid(d) PROVE TiersInv'
  BY <1>2, ConsiderStep
<1>3. CASE ScanCheap \/ ScanHigh
  BY <1>3, ScanStep
<1> QED
  BY <1>1, <1>2, <1>3 DEF TiersNext

\* The invariant implies the checked properties.
LEMMA TiersInvFollows == TiersInv => TiersTypeOK /\ PrefixStable /\ NoCellScannedTwice /\ RanksFilled
<1> SUFFICES ASSUME TiersInv PROVE NoCellScannedTwice /\ RanksFilled
  BY DEF TiersInv
<1>1. /\ HighRanks \in Nat /\ HighRanks <= NList /\ NList \in Nat /\ cell \in 0..NList
      /\ rank \in 1..(HighRanks + 1)
  BY Ranks, ProbeAssumption DEF TiersInv, TiersTypeOK
<1>2. RanksFilled
  BY <1>1 DEF TiersInv, Filled, RanksFilled
<1>3. NoCellScannedTwice
  <2> SUFFICES ASSUME NEW i \in 1..Len(visited), NEW j \in 1..Len(visited), i # j
               PROVE  visited[i] # visited[j]
    BY DEF NoCellScannedTwice
  <2>1. Len(visited) = rank - 1 /\ cell = NList
    BY <1>1 DEF TiersInv, Visits
  <2>2. i \in 1..HighRanks /\ j \in 1..HighRanks /\ i <= cell /\ j <= cell
    BY <2>1, <1>1
  <2>3. visited[i] = high.item[i] /\ visited[j] = high.item[j]
    BY DEF TiersInv, Visits
  <2> QED
    BY <2>2, <2>3 DEF TiersInv, Distinct
<1> QED
  BY <1>2, <1>3

\* The cheap selection is a prefix of the escalated one at every point.
THEOREM CheapIsPrefix == TiersSpec => []PrefixStable
BY TiersInvInit, TiersInvNext, TiersInvFollows, PTL DEF TiersSpec

\* The escalation scans no cell that was scanned before.
THEOREM NoRescan == TiersSpec => []NoCellScannedTwice
BY TiersInvInit, TiersInvNext, TiersInvFollows, PTL DEF TiersSpec

\* Every rank the scan reads was filled by the selection.
THEOREM NoSentinelRank == TiersSpec => []RanksFilled
BY TiersInvInit, TiersInvNext, TiersInvFollows, PTL DEF TiersSpec

\* Types, for every value of the constants.
THEOREM TiersTypeCorrect == TiersSpec => []TiersTypeOK
BY TiersInvInit, TiersInvNext, TiersInvFollows, PTL DEF TiersSpec

\* Neither call has a rank left to scan: the loops of both have ended.
TiersDone ==
  /\ cell = NList /\ rank > LowRanks
  /\ FirstHighRank + (rank - LowRanks - 1) > HighRanks

\* The safety half of EscalationIsFreshScan: when neither call has a rank left,
\* the cells scanned are those a fresh scan of the escalated selection scans.
THEOREM EscalationEndsFresh ==
  TiersSpec => [](TiersDone =>
    \A c \in Cells : (\E i \in 1..Len(visited) : visited[i] = c)
                     <=> (\E i \in 1..HighRanks : high.item[i] = c))
<1> DEFINE Fresh == \A c \in Cells : (\E i \in 1..Len(visited) : visited[i] = c)
                                     <=> (\E i \in 1..HighRanks : high.item[i] = c)
<1>1. TiersInv => (TiersDone => Fresh)
  <2> SUFFICES ASSUME TiersInv, TiersDone PROVE Fresh
    OBVIOUS
  <2>1. /\ LowRanks \in Nat \ {0} /\ HighRanks \in Nat \ {0} /\ LowRanks <= HighRanks
        /\ rank \in 1..(HighRanks + 1) /\ NProbe \in Nat
    BY Ranks, ProbeAssumption DEF TiersInv, TiersTypeOK
  <2>2. NProbe = LowRanks \/ LowRanks = HighRanks
    BY ProbeAssumption DEF LowRanks, HighRanks, Clamp, Smaller
  <2>3. rank = HighRanks + 1
    <3>1. rank > LowRanks /\ NProbe + rank - LowRanks > HighRanks
      BY <2>1 DEF TiersDone, FirstHighRank
    <3> QED
      BY <3>1, <2>1, <2>2
  <2>4. Len(visited) = HighRanks /\ \A i \in 1..HighRanks : visited[i] = high.item[i]
    BY <2>1, <2>3 DEF TiersInv, Visits
  <2> QED
    BY <2>4
<1> QED
  BY <1>1, TiersInvInit, TiersInvNext, PTL DEF TiersSpec
=============================================================================
