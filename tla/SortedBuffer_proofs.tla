------------------------- MODULE SortedBuffer_proofs -------------------------
(***************************************************************************)
(* Lemmas about the sorted buffer's operators, for every capacity and      *)
(* every content.                                                          *)
(***************************************************************************)
EXTENDS SortedBuffer, WellFoundedInduction, TLAPS

\* Slot p is where the loop of consider / insertProbe stops.
IsInsertSlot(cap, f, d, p) ==
  /\ \A j \in p..(cap - 1) : f[j] > d
  /\ p > 1 => f[p - 1] <= d

\* The shifting loop stops: the walk from the last slot to the left ends at a
\* slot whose left neighbour is not larger, or at the first slot.
LEMMA InsertSlotExists ==
  ASSUME NEW cap \in Nat \ {0}, NEW f \in [1..cap -> Int], NEW d \in Int
  PROVE  \E p \in 1..cap : IsInsertSlot(cap, f, d, p)
<1> DEFINE T == {k \in Nat : k < cap /\ (cap - k = 1 \/ f[cap - k - 1] <= d)}
<1>1. cap - 1 \in T
  OBVIOUS
<1>2. \E k \in T : \A l \in T : ~(<<l, k>> \in OpToRel(<, Nat))
  <2>1. T \subseteq Nat /\ T # {}
    BY <1>1
  <2> HIDE DEF T
  <2> QED
    BY <2>1, NatLessThanWellFounded, WFMin DEF OpToRel
<1>3. PICK k \in T : \A l \in T : ~(l < k)
  BY <1>2 DEF OpToRel
<1>4. \A j \in (cap - k)..(cap - 1) : f[j] > d
  <2> SUFFICES ASSUME NEW j \in (cap - k)..(cap - 1), ~(f[j] > d)
               PROVE  FALSE
    OBVIOUS
  <2>1. cap - j - 1 \in Nat /\ cap - j - 1 < k /\ j \in 1..cap
    BY <1>3
  <2>2. cap - (cap - j - 1) - 1 = j /\ f[j] <= d
    BY <2>1
  <2>3. cap - j - 1 \in T
    BY <2>1, <2>2
  <2> QED
    BY <2>1, <2>3, <1>3
<1>5. cap - k \in 1..cap /\ IsInsertSlot(cap, f, d, cap - k)
  BY <1>3, <1>4 DEF IsInsertSlot
<1> QED
  BY <1>5

\* A rejected offer leaves the buffer as it was; an admitted one takes a slot p
\* whose right neighbours are larger and whose left neighbour is not, and the
\* slots from p on move one to the right.
LEMMA ConsiderCases ==
  ASSUME NEW cap \in Nat \ {0}, NEW buf, buf.dist \in [1..cap -> Int],
         NEW d \in Int, NEW x
  PROVE  \/ /\ d >= buf.dist[cap]
            /\ Consider(cap, buf, d, x) = buf
         \/ /\ d < buf.dist[cap]
            /\ \E p \in 1..cap :
                 /\ IsInsertSlot(cap, buf.dist, d, p)
                 /\ Consider(cap, buf, d, x) =
                      [dist |-> ShiftIn(cap, buf.dist, p, d),
                       item |-> ShiftIn(cap, buf.item, p, x),
                       n    |-> CountAfter(cap, buf)]
<1>1. PICK p \in 1..cap : IsInsertSlot(cap, buf.dist, d, p)
  BY InsertSlotExists
<1>2. InsertSlot(cap, buf, d) \in 1..cap /\ IsInsertSlot(cap, buf.dist, d, InsertSlot(cap, buf, d))
  BY <1>1 DEF InsertSlot, IsInsertSlot
<1>3. CASE d >= buf.dist[cap]
  BY <1>3 DEF Consider, Admits
<1>4. CASE d < buf.dist[cap]
  BY <1>2, <1>4 DEF Consider, Admits
<1> QED
  BY <1>3, <1>4

Sorted(cap, f) == \A i, j \in 1..cap : i <= j => f[i] <= f[j]

\* Insertion keeps a sorted buffer sorted.
LEMMA ConsiderSorted ==
  ASSUME NEW cap \in Nat \ {0}, NEW buf, buf.dist \in [1..cap -> Int],
         Sorted(cap, buf.dist), NEW d \in Int, NEW x
  PROVE  LET new == Consider(cap, buf, d, x)
         IN  new.dist \in [1..cap -> Int] /\ Sorted(cap, new.dist)
<1> DEFINE new == Consider(cap, buf, d, x)
<1>1. CASE new = buf
  BY <1>1
<1>2. ASSUME NEW p \in 1..cap, IsInsertSlot(cap, buf.dist, d, p),
             new.dist = ShiftIn(cap, buf.dist, p, d)
      PROVE  new.dist \in [1..cap -> Int] /\ Sorted(cap, new.dist)
  <2>1. new.dist \in [1..cap -> Int]
    BY <1>2 DEF ShiftIn
  <2>2. \A i \in 1..cap : new.dist[i] = IF i < p THEN buf.dist[i]
                                       ELSE IF i = p THEN d ELSE buf.dist[i - 1]
    BY <1>2 DEF ShiftIn
  <2>3. \A i \in 1..(p - 1) : buf.dist[i] <= d
    <3> SUFFICES ASSUME NEW i \in 1..(p - 1) PROVE buf.dist[i] <= d
      OBVIOUS
    <3>1. p - 1 \in 1..cap /\ i \in 1..cap /\ i <= p - 1 /\ p > 1
      OBVIOUS
    <3>2. buf.dist[i] <= buf.dist[p - 1] /\ buf.dist[p - 1] <= d
      BY <1>2, <3>1 DEF IsInsertSlot, Sorted
    <3>3. buf.dist[i] \in Int /\ buf.dist[p - 1] \in Int
      BY <3>1
    <3> QED
      BY <3>2, <3>3
  <2>4. \A i \in (p + 1)..cap : d < buf.dist[i - 1]
    BY <1>2 DEF IsInsertSlot
  <2> HIDE DEF new
  <2>5. ASSUME NEW i \in 1..cap, NEW j \in 1..cap, i < j
        PROVE  new.dist[i] <= new.dist[j]
    <3>1. CASE j < p
      BY <3>1, <2>5, <2>2 DEF Sorted
    <3>2. CASE j = p
      BY <3>2, <2>5, <2>2, <2>3
    <3>3. CASE i < p /\ p < j
      <4>1. i \in 1..(p - 1) /\ j \in (p + 1)..cap /\ j - 1 \in 1..cap
        BY <3>3
      <4>2. new.dist[i] = buf.dist[i] /\ new.dist[j] = buf.dist[j - 1]
        BY <3>3, <2>2
      <4>3. buf.dist[i] <= d /\ d < buf.dist[j - 1]
        BY <4>1, <2>3, <2>4
      <4>4. buf.dist[i] \in Int /\ buf.dist[j - 1] \in Int
        BY <4>1
      <4> QED
        BY <4>2, <4>3, <4>4
    <3>4. CASE i = p
      <4>1. j \in (p + 1)..cap /\ new.dist[i] = d /\ new.dist[j] = buf.dist[j - 1]
        BY <3>4, <2>5, <2>2
      <4>2. d < buf.dist[j - 1] /\ j - 1 \in 1..cap
        BY <4>1, <2>4
      <4> QED
        BY <4>1, <4>2
    <3>5. CASE p < i
      <4>1. i - 1 \in 1..cap /\ j - 1 \in 1..cap /\ i - 1 <= j - 1
        BY <3>5, <2>5
      <4>2. new.dist[i] = buf.dist[i - 1] /\ new.dist[j] = buf.dist[j - 1]
        BY <3>5, <2>5, <2>2
      <4> QED
        BY <4>1, <4>2 DEF Sorted
    <3> QED
      BY <2>5, <3>1, <3>2, <3>3, <3>4, <3>5
  <2>6. \A i \in 1..cap : new.dist[i] <= new.dist[i]
    BY <2>1
  <2> QED
    BY <2>1, <2>5, <2>6 DEF Sorted
<1>3. \/ new = buf
      \/ \E p \in 1..cap : /\ IsInsertSlot(cap, buf.dist, d, p)
                          /\ new.dist = ShiftIn(cap, buf.dist, p, d)
  BY ConsiderCases
<1> QED
  BY <1>1, <1>2, <1>3

SamePrefix(c, lo, hi) ==
  \A i \in 1..c : lo.dist[i] = hi.dist[i] /\ lo.item[i] = hi.item[i]

\* A small buffer stays the prefix of a large one fed the same offers: the large
\* one inserts at the same slot, or past the small one's last.
LEMMA ConsiderPrefix ==
  ASSUME NEW c \in Nat \ {0}, NEW cap \in Nat \ {0}, c <= cap,
         NEW lo, lo.dist \in [1..c -> Int],
         NEW hi, hi.dist \in [1..cap -> Int], Sorted(cap, hi.dist),
         SamePrefix(c, lo, hi), NEW d \in Int, NEW x
  PROVE  SamePrefix(c, Consider(c, lo, d, x), Consider(cap, hi, d, x))
<1> DEFINE lo2 == Consider(c, lo, d, x)
           hi2 == Consider(cap, hi, d, x)
<1>1. \/ d >= lo.dist[c] /\ lo2 = lo
      \/ /\ d < lo.dist[c]
         /\ \E p \in 1..c : /\ IsInsertSlot(c, lo.dist, d, p)
                           /\ lo2.dist = ShiftIn(c, lo.dist, p, d)
                           /\ lo2.item = ShiftIn(c, lo.item, p, x)
  <2>1. \/ d >= lo.dist[c] /\ lo2 = lo
        \/ /\ d < lo.dist[c]
           /\ \E p \in 1..c : /\ IsInsertSlot(c, lo.dist, d, p)
                              /\ lo2 = [dist |-> ShiftIn(c, lo.dist, p, d),
                                         item |-> ShiftIn(c, lo.item, p, x),
                                         n    |-> CountAfter(c, lo)]
    BY ConsiderCases
  <2> QED
    BY <2>1
<1>2. \/ d >= hi.dist[cap] /\ hi2 = hi
      \/ /\ d < hi.dist[cap]
         /\ \E p \in 1..cap : /\ IsInsertSlot(cap, hi.dist, d, p)
                             /\ hi2.dist = ShiftIn(cap, hi.dist, p, d)
                             /\ hi2.item = ShiftIn(cap, hi.item, p, x)
  <2>1. \/ d >= hi.dist[cap] /\ hi2 = hi
        \/ /\ d < hi.dist[cap]
           /\ \E p \in 1..cap : /\ IsInsertSlot(cap, hi.dist, d, p)
                              /\ hi2 = [dist |-> ShiftIn(cap, hi.dist, p, d),
                                         item |-> ShiftIn(cap, hi.item, p, x),
                                         n    |-> CountAfter(cap, hi)]
    BY ConsiderCases
  <2> QED
    BY <2>1
<1>0. SUFFICES SamePrefix(c, lo2, hi2)
  OBVIOUS
<1> HIDE DEF lo2, hi2
<1>3. c \in 1..c /\ c \in 1..cap /\ cap \in 1..cap /\ lo.dist[c] = hi.dist[c]
  BY DEF SamePrefix
<1>4. lo.dist[c] \in Int /\ hi.dist[c] <= hi.dist[cap]
  BY <1>3 DEF Sorted
<1>5. CASE d >= lo.dist[c] /\ lo2 = lo
  <2>1. CASE hi2 = hi
    BY <1>5, <2>1
  <2>2. ASSUME d < hi.dist[cap], NEW p \in 1..cap, IsInsertSlot(cap, hi.dist, d, p),
               hi2.dist = ShiftIn(cap, hi.dist, p, d),
               hi2.item = ShiftIn(cap, hi.item, p, x)
        PROVE  SamePrefix(c, lo2, hi2)
    <3>1. p > c
      <4> SUFFICES ASSUME p <= c PROVE FALSE
        OBVIOUS
      <4>1. CASE c <= cap - 1
        <5>1. hi.dist[c] > d
          BY <2>2, <4>1 DEF IsInsertSlot
        <5> QED
          BY <5>1, <1>3, <1>4, <1>5
      <4>2. CASE c = cap
        BY <1>3, <1>4, <1>5, <2>2, <4>2
      <4> QED
        BY <4>1, <4>2
    <3>2. \A i \in 1..c : hi2.dist[i] = hi.dist[i] /\ hi2.item[i] = hi.item[i]
      BY <2>2, <3>1 DEF ShiftIn
    <3> QED
      BY <3>2, <1>5 DEF SamePrefix
  <2> QED
    BY <1>2, <2>1, <2>2
<1>6. ASSUME d < lo.dist[c], NEW p \in 1..c, IsInsertSlot(c, lo.dist, d, p),
             lo2.dist = ShiftIn(c, lo.dist, p, d),
             lo2.item = ShiftIn(c, lo.item, p, x)
      PROVE  SamePrefix(c, lo2, hi2)
  <2>1. d < hi.dist[cap]
    BY <1>3, <1>4, <1>6
  <2>2. PICK q \in 1..cap : /\ IsInsertSlot(cap, hi.dist, d, q)
                           /\ hi2.dist = ShiftIn(cap, hi.dist, q, d)
                           /\ hi2.item = ShiftIn(cap, hi.item, q, x)
    BY <1>2, <2>1
  <2>3. q = p
    <3>1. CASE q < p
      <4>1. p - 1 \in 1..c /\ p - 1 \in q..(cap - 1) /\ p > 1
        BY <3>1
      <4>2. hi.dist[p - 1] > d /\ lo.dist[p - 1] <= d /\ lo.dist[p - 1] = hi.dist[p - 1]
            /\ lo.dist[p - 1] \in Int
        BY <4>1, <1>6, <2>2 DEF IsInsertSlot, SamePrefix
      <4> QED
        BY <4>2
    <3>2. CASE q > p
      <4>1. q - 1 \in 1..cap /\ hi.dist[q - 1] <= d /\ hi.dist[q - 1] \in Int
        BY <3>2, <2>2 DEF IsInsertSlot
      <4>2. CASE q - 1 <= c - 1
        <5>1. lo.dist[q - 1] > d /\ lo.dist[q - 1] = hi.dist[q - 1]
          BY <3>2, <4>1, <4>2, <1>6 DEF IsInsertSlot, SamePrefix
        <5> QED
          BY <4>1, <5>1
      <4>3. CASE q - 1 >= c
        <5>1. hi.dist[c] <= hi.dist[q - 1]
          BY <4>1, <4>3, <1>3 DEF Sorted
        <5> QED
          BY <5>1, <4>1, <1>3, <1>4, <1>6, SMTT(30)
      <4> QED
        BY <4>2, <4>3
    <3> QED
      BY <3>1, <3>2
  <2>4. ASSUME NEW i \in 1..c
        PROVE  lo2.dist[i] = hi2.dist[i] /\ lo2.item[i] = hi2.item[i]
    <3>1. CASE i < p
      BY <3>1, <1>6, <2>2, <2>3 DEF ShiftIn, SamePrefix
    <3>2. CASE i = p
      BY <3>2, <1>6, <2>2, <2>3 DEF ShiftIn
    <3>3. CASE i > p
      <4>1. i - 1 \in 1..c /\ lo.dist[i - 1] = hi.dist[i - 1] /\ lo.item[i - 1] = hi.item[i - 1]
        BY <3>3, SMTT(30) DEF SamePrefix
      <4> QED
        BY <3>3, <4>1, <1>6, <2>2, <2>3 DEF ShiftIn
    <3> QED
      BY <3>1, <3>2, <3>3
  <2> QED
    BY <2>4 DEF SamePrefix
<1> QED
  BY <1>1, <1>5, <1>6

\* Insertion keeps a buffer of its type.
LEMMA ConsiderType ==
  ASSUME NEW cap \in Nat \ {0}, NEW D, D \subseteq Int, NEW Item,
         NEW buf \in [dist : [1..cap -> D], item : [1..cap -> Item], n : 0..cap],
         NEW d \in D, NEW x \in Item
  PROVE  Consider(cap, buf, d, x) \in [dist : [1..cap -> D], item : [1..cap -> Item], n : 0..cap]
<1>1. buf.dist \in [1..cap -> Int] /\ d \in Int
  OBVIOUS
<1>2. CASE Consider(cap, buf, d, x) = buf
  BY <1>2
<1>3. ASSUME NEW p \in 1..cap
      PROVE  [dist |-> ShiftIn(cap, buf.dist, p, d),
              item |-> ShiftIn(cap, buf.item, p, x),
              n    |-> CountAfter(cap, buf)]
             \in [dist : [1..cap -> D], item : [1..cap -> Item], n : 0..cap]
  <2>1. ShiftIn(cap, buf.dist, p, d) \in [1..cap -> D]
    BY DEF ShiftIn
  <2>2. ShiftIn(cap, buf.item, p, x) \in [1..cap -> Item]
    BY DEF ShiftIn
  <2>3. CountAfter(cap, buf) \in 0..cap
    BY DEF CountAfter
  <2> QED
    BY <2>1, <2>2, <2>3
<1>4. \/ Consider(cap, buf, d, x) = buf
      \/ \E p \in 1..cap :
           Consider(cap, buf, d, x) = [dist |-> ShiftIn(cap, buf.dist, p, d),
                                       item |-> ShiftIn(cap, buf.item, p, x),
                                       n    |-> CountAfter(cap, buf)]
  BY <1>1, ConsiderCases
<1> QED
  BY <1>2, <1>3, <1>4

-----------------------------------------------------------------------------
\* Buffers of distinct offers.

\* After k offers below the sentinel, all distinct and in S, the filled slots
\* are the first k and they hold k different offers.
HoldsOffers(cap, buf, k, S) ==
  /\ buf.dist \in [1..cap -> Int] /\ Sorted(cap, buf.dist)
  /\ buf.item \in [1..cap -> Int]
  /\ \A i \in 1..cap : buf.dist[i] < Inf <=> i <= k
  /\ \A i \in 1..cap : i <= k => buf.item[i] \in S
  /\ \A i, j \in 1..cap : i <= k /\ j <= k /\ i # j => buf.item[i] # buf.item[j]

\* A new buffer holds none.
LEMMA EmptyHolds ==
  ASSUME NEW cap \in Nat \ {0}, Inf \in Int, NEW zero \in Int
  PROVE  HoldsOffers(cap, EmptyBuffer(cap, zero), 0, {})
<1> DEFINE buf == EmptyBuffer(cap, zero)
<1>1. /\ buf.dist \in [1..cap -> Int] /\ buf.item \in [1..cap -> Int]
      /\ \A i \in 1..cap : buf.dist[i] = Inf
  BY DEF EmptyBuffer
<1> HIDE DEF buf
<1>2. Sorted(cap, buf.dist) /\ \A i \in 1..cap : ~(buf.dist[i] < Inf)
  BY <1>1 DEF Sorted
<1>3. \A i \in 1..cap : ~(i <= 0)
  OBVIOUS
<1>4. HoldsOffers(cap, buf, 0, {})
  BY <1>1, <1>2, <1>3 DEF HoldsOffers
<1> QED
  BY <1>4 DEF buf

\* One more offer: it is turned away by a full buffer, or it takes a slot among
\* the filled ones or the first free one.
LEMMA ConsiderHolds ==
  ASSUME NEW cap \in Nat \ {0}, NEW buf, NEW k \in Nat, NEW S,
         Inf \in Int, HoldsOffers(cap, buf, k, S),
         NEW d \in Int, d < Inf, NEW x \in Int, x \notin S
  PROVE  HoldsOffers(cap, Consider(cap, buf, d, x), k + 1, S \cup {x})
<1> DEFINE new == Consider(cap, buf, d, x)
<1>1. /\ buf.dist \in [1..cap -> Int] /\ Sorted(cap, buf.dist) /\ buf.item \in [1..cap -> Int]
      /\ \A i \in 1..cap : buf.dist[i] < Inf <=> i <= k
      /\ \A i \in 1..cap : i <= k => buf.item[i] \in S
      /\ \A i, j \in 1..cap : i <= k /\ j <= k /\ i # j => buf.item[i] # buf.item[j]
  BY DEF HoldsOffers
<1>2. new.dist \in [1..cap -> Int] /\ Sorted(cap, new.dist)
  BY <1>1, ConsiderSorted
<1>3. \/ d >= buf.dist[cap] /\ new = buf
      \/ \E p \in 1..cap :
           /\ IsInsertSlot(cap, buf.dist, d, p)
           /\ new = [dist |-> ShiftIn(cap, buf.dist, p, d),
                     item |-> ShiftIn(cap, buf.item, p, x),
                     n    |-> CountAfter(cap, buf)]
  BY <1>1, ConsiderCases
<1> HIDE DEF new
<1>4. CASE d >= buf.dist[cap] /\ new = buf
  <2>1. cap \in 1..cap /\ buf.dist[cap] < Inf
    BY <1>1, <1>4
  <2>2. \A i \in 1..cap : i <= k /\ i <= k + 1
    BY <1>1, <2>1
  <2>3. HoldsOffers(cap, new, k + 1, S \cup {x})
    BY <1>1, <1>4, <2>2 DEF HoldsOffers
  <2> QED
    BY <2>3 DEF new
<1>5. CASE \E p \in 1..cap :
             /\ IsInsertSlot(cap, buf.dist, d, p)
             /\ new = [dist |-> ShiftIn(cap, buf.dist, p, d),
                       item |-> ShiftIn(cap, buf.item, p, x),
                       n    |-> CountAfter(cap, buf)]
  <2>0. PICK p \in 1..cap :
             /\ IsInsertSlot(cap, buf.dist, d, p)
             /\ new = [dist |-> ShiftIn(cap, buf.dist, p, d),
                       item |-> ShiftIn(cap, buf.item, p, x),
                       n    |-> CountAfter(cap, buf)]
    BY <1>5
  <2>1. \A i \in 1..cap :
          /\ i < p => new.dist[i] = buf.dist[i] /\ new.item[i] = buf.item[i]
          /\ i = p => new.dist[i] = d /\ new.item[i] = x
          /\ i > p => new.dist[i] = buf.dist[i - 1] /\ new.item[i] = buf.item[i - 1]
    BY <2>0 DEF ShiftIn
  <2>2. new.item \in [1..cap -> Int]
    <3>1. ShiftIn(cap, buf.item, p, x) \in [1..cap -> Int]
      BY <1>1 DEF ShiftIn
    <3> QED
      BY <2>0, <3>1
  <2>3. p <= k + 1
    <3> SUFFICES ASSUME p > k + 1 PROVE FALSE
      OBVIOUS
    <3>1. p - 1 \in 1..cap /\ p > 1 /\ p - 1 > k
      OBVIOUS
    <3>2. buf.dist[p - 1] <= d /\ buf.dist[p - 1] \in Int
      BY <1>1, <2>0, <3>1 DEF IsInsertSlot
    <3> QED
      BY <1>1, <3>1, <3>2
  <2>4. ASSUME NEW i \in 1..cap
        PROVE  new.dist[i] < Inf <=> i <= k + 1
    <3>1. CASE i < p
      <4>1. new.dist[i] = buf.dist[i]
        BY <2>1, <3>1
      <4>2. buf.dist[i] < Inf <=> i <= k
        BY <1>1
      <4>3. i <= k /\ i <= k + 1
        BY <2>3, <3>1
      <4> QED
        BY <4>1, <4>2, <4>3
    <3>2. CASE i = p
      BY <2>1, <2>3, <3>2
    <3>3. CASE i > p
      <4>1. i - 1 \in 1..cap /\ new.dist[i] = buf.dist[i - 1]
        BY <2>1, <3>3
      <4> QED
        BY <1>1, <4>1
    <3> QED
      BY <3>1, <3>2, <3>3
  \* Where a slot's offer was before, the new one aside.
  <2>5. ASSUME NEW i \in 1..cap, i <= k + 1, i # p
        PROVE  \E o \in 1..cap : /\ new.item[i] = buf.item[o] /\ o <= k
                                 /\ o = IF i < p THEN i ELSE i - 1
    <3>1. CASE i < p
      BY <2>1, <2>3, <3>1
    <3>2. CASE i > p
      <4>1. i - 1 \in 1..cap /\ new.item[i] = buf.item[i - 1] /\ i - 1 <= k
        BY <2>1, <2>5, <3>2
      <4> QED
        BY <3>2, <4>1
    <3> QED
      BY <2>5, <3>1, <3>2
  <2>6. ASSUME NEW i \in 1..cap, i <= k + 1
        PROVE  new.item[i] \in S \cup {x}
    <3>1. CASE i = p
      BY <2>1, <3>1
    <3>2. CASE i # p
      BY <1>1, <2>5, <2>6, <3>2
    <3> QED
      BY <3>1, <3>2
  <2>7. ASSUME NEW i \in 1..cap, NEW j \in 1..cap, i <= k + 1, j <= k + 1, i # j
        PROVE  new.item[i] # new.item[j]
    <3>1. CASE i = p
      <4>1. new.item[j] \in S
        BY <1>1, <2>5, <2>7, <3>1
      <4> QED
        BY <2>1, <3>1, <4>1
    <3>2. CASE j = p
      <4>1. new.item[i] \in S
        BY <1>1, <2>5, <2>7, <3>2
      <4> QED
        BY <2>1, <3>2, <4>1
    <3>3. CASE i # p /\ j # p
      <4>1. PICK o \in 1..cap : /\ new.item[i] = buf.item[o] /\ o <= k
                                /\ o = IF i < p THEN i ELSE i - 1
        BY <2>5, <2>7, <3>3
      <4>2. PICK u \in 1..cap : /\ new.item[j] = buf.item[u] /\ u <= k
                                /\ u = IF j < p THEN j ELSE j - 1
        BY <2>5, <2>7, <3>3
      <4>3. o # u
        BY <2>7, <3>3, <4>1, <4>2
      <4> QED
        BY <1>1, <4>1, <4>2, <4>3
    <3> QED
      BY <3>1, <3>2, <3>3
  <2>8. HoldsOffers(cap, new, k + 1, S \cup {x})
    BY <1>2, <2>2, <2>4, <2>6, <2>7 DEF HoldsOffers
  <2> QED
    BY <2>8 DEF new
<1> QED
  BY <1>3, <1>4, <1>5

-----------------------------------------------------------------------------
\* What a buffer keeps.

\* Each filled slot has the distance D gives its item.
Records(cap, buf, k, D) == \A i \in 1..cap : i <= k => buf.dist[i] = D[buf.item[i]]

\* r, at distance d, is in the buffer or beaten by all of a full one.
Keeps(cap, buf, d, r) ==
  \/ \E i \in 1..buf.n : buf.item[i] = r
  \/ buf.n >= cap /\ d >= buf.dist[cap]

\* What one more offer makes of k: a full buffer that turned it away, or the
\* slots from p on one to the right of where they were.
SlotTaken(cap, buf, new, k, d, x) ==
  /\ new.n = IF k + 1 > cap THEN cap ELSE k + 1
  /\ \/ d >= buf.dist[cap] /\ new = buf /\ k >= cap
     \/ \E p \in 1..cap :
          /\ d < buf.dist[cap] /\ p <= k + 1
          /\ \A i \in 1..cap :
               /\ i < p => new.dist[i] = buf.dist[i] /\ new.item[i] = buf.item[i]
               /\ i = p => new.dist[i] = d /\ new.item[i] = x
               /\ i > p => new.dist[i] = buf.dist[i - 1] /\ new.item[i] = buf.item[i - 1]

LEMMA ConsiderSlots ==
  ASSUME NEW cap \in Nat \ {0}, NEW buf, NEW k \in Nat, NEW S, Inf \in Int,
         HoldsOffers(cap, buf, k, S), buf.n = (IF k > cap THEN cap ELSE k),
         NEW d \in Int, d < Inf, NEW x
  PROVE  SlotTaken(cap, buf, Consider(cap, buf, d, x), k, d, x)
<1> DEFINE new == Consider(cap, buf, d, x)
<1>1. /\ buf.dist \in [1..cap -> Int] /\ cap \in 1..cap
      /\ \A i \in 1..cap : buf.dist[i] < Inf <=> i <= k
  BY DEF HoldsOffers
<1>2. \/ d >= buf.dist[cap] /\ new = buf
      \/ /\ d < buf.dist[cap]
         /\ \E p \in 1..cap :
              /\ IsInsertSlot(cap, buf.dist, d, p)
              /\ new = [dist |-> ShiftIn(cap, buf.dist, p, d),
                        item |-> ShiftIn(cap, buf.item, p, x),
                        n    |-> CountAfter(cap, buf)]
  BY <1>1, ConsiderCases
<1> HIDE DEF new
<1>3. ASSUME d >= buf.dist[cap], new = buf
      PROVE  k >= cap /\ new.n = IF k + 1 > cap THEN cap ELSE k + 1
  <2>1. cap <= k
    <3>1. buf.dist[cap] \in Int
      BY <1>1
    <3>2. buf.dist[cap] < Inf
      BY <1>3, <3>1
    <3> QED
      BY <1>1, <3>2
  <2> QED
    BY <1>3, <2>1
<1>4. ASSUME d < buf.dist[cap], NEW p \in 1..cap, IsInsertSlot(cap, buf.dist, d, p),
             new = [dist |-> ShiftIn(cap, buf.dist, p, d),
                    item |-> ShiftIn(cap, buf.item, p, x),
                    n    |-> CountAfter(cap, buf)]
      PROVE  /\ new.n = IF k + 1 > cap THEN cap ELSE k + 1
             /\ p <= k + 1
             /\ \A i \in 1..cap :
                  /\ i < p => new.dist[i] = buf.dist[i] /\ new.item[i] = buf.item[i]
                  /\ i = p => new.dist[i] = d /\ new.item[i] = x
                  /\ i > p => new.dist[i] = buf.dist[i - 1] /\ new.item[i] = buf.item[i - 1]
  <2>1. \A i \in 1..cap :
          /\ i < p => new.dist[i] = buf.dist[i] /\ new.item[i] = buf.item[i]
          /\ i = p => new.dist[i] = d /\ new.item[i] = x
          /\ i > p => new.dist[i] = buf.dist[i - 1] /\ new.item[i] = buf.item[i - 1]
    BY <1>4 DEF ShiftIn
  <2>2. p <= k + 1
    <3> SUFFICES ASSUME p > k + 1 PROVE FALSE
      OBVIOUS
    <3>1. p - 1 \in 1..cap /\ p > 1 /\ p - 1 > k
      OBVIOUS
    <3>2. buf.dist[p - 1] <= d /\ buf.dist[p - 1] \in Int
      BY <1>1, <1>4, <3>1 DEF IsInsertSlot
    <3>3. ~(buf.dist[p - 1] < Inf)
      <4>1. buf.dist[p - 1] < Inf <=> p - 1 <= k
        BY <1>1, <3>1
      <4>2. ~(p - 1 <= k)
        BY <3>1
      <4> QED
        BY <4>1, <4>2
    <3> QED
      BY <3>2, <3>3
  <2>3. new.n = IF k + 1 > cap THEN cap ELSE k + 1
    BY <1>4 DEF CountAfter
  <2> QED
    BY <2>1, <2>2, <2>3
<1>5. SlotTaken(cap, buf, new, k, d, x)
  <2>1. CASE d >= buf.dist[cap] /\ new = buf
    BY <1>3, <2>1 DEF SlotTaken
  <2>2. ASSUME d < buf.dist[cap], NEW p \in 1..cap, IsInsertSlot(cap, buf.dist, d, p),
               new = [dist |-> ShiftIn(cap, buf.dist, p, d),
                      item |-> ShiftIn(cap, buf.item, p, x),
                      n    |-> CountAfter(cap, buf)]
        PROVE  SlotTaken(cap, buf, new, k, d, x)
    <3>1. /\ new.n = IF k + 1 > cap THEN cap ELSE k + 1
          /\ p <= k + 1
          /\ \A i \in 1..cap :
               /\ i < p => new.dist[i] = buf.dist[i] /\ new.item[i] = buf.item[i]
               /\ i = p => new.dist[i] = d /\ new.item[i] = x
               /\ i > p => new.dist[i] = buf.dist[i - 1] /\ new.item[i] = buf.item[i - 1]
      BY <1>4, <2>2
    <3> QED
      BY <2>2, <3>1 DEF SlotTaken
  <2> QED
    BY <1>2, <2>1, <2>2
<1> QED
  BY <1>5 DEF new

\* The new offer's distance is recorded with it, and it is kept.
LEMMA ConsiderRecords ==
  ASSUME NEW cap \in Nat \ {0}, NEW buf, NEW k \in Nat, NEW S, Inf \in Int,
         HoldsOffers(cap, buf, k, S), buf.n = (IF k > cap THEN cap ELSE k),
         NEW D, Records(cap, buf, k, D),
         NEW d \in Int, d < Inf, NEW x, D[x] = d
  PROVE  /\ Records(cap, Consider(cap, buf, d, x), k + 1, D)
         /\ Consider(cap, buf, d, x).n = IF k + 1 > cap THEN cap ELSE k + 1
         /\ Keeps(cap, Consider(cap, buf, d, x), d, x)
<1>1. PICK new : new = Consider(cap, buf, d, x)
  OBVIOUS
<1>2. /\ new.n = IF k + 1 > cap THEN cap ELSE k + 1
      /\ \/ d >= buf.dist[cap] /\ new = buf /\ k >= cap
         \/ \E p \in 1..cap :
              /\ d < buf.dist[cap] /\ p <= k + 1
              /\ \A i \in 1..cap :
                   /\ i < p => new.dist[i] = buf.dist[i] /\ new.item[i] = buf.item[i]
                   /\ i = p => new.dist[i] = d /\ new.item[i] = x
                   /\ i > p => new.dist[i] = buf.dist[i - 1] /\ new.item[i] = buf.item[i - 1]
  <2>1. SlotTaken(cap, buf, Consider(cap, buf, d, x), k, d, x)
    BY ConsiderSlots
  <2> QED
    BY <1>1, <2>1 DEF SlotTaken
<1>3. CASE d >= buf.dist[cap] /\ new = buf /\ k >= cap
  <2>1. Records(cap, new, k + 1, D)
    BY <1>3 DEF Records
  <2>2. Keeps(cap, new, d, x)
    BY <1>2, <1>3 DEF Keeps
  <2> QED
    BY <1>1, <1>2, <2>1, <2>2
<1>4. ASSUME NEW p \in 1..cap, p <= k + 1,
             \A i \in 1..cap :
               /\ i < p => new.dist[i] = buf.dist[i] /\ new.item[i] = buf.item[i]
               /\ i = p => new.dist[i] = d /\ new.item[i] = x
               /\ i > p => new.dist[i] = buf.dist[i - 1] /\ new.item[i] = buf.item[i - 1]
      PROVE  Records(cap, new, k + 1, D) /\ Keeps(cap, new, d, x)
  <2>1. ASSUME NEW i \in 1..cap, i <= k + 1
        PROVE  new.dist[i] = D[new.item[i]]
    <3>1. CASE i < p
      <4>1. i <= k
        BY <1>4, <3>1
      <4>2. buf.dist[i] = D[buf.item[i]]
        BY <4>1 DEF Records
      <4>3. new.dist[i] = buf.dist[i] /\ new.item[i] = buf.item[i]
        BY <1>4, <3>1
      <4> QED
        BY <4>2, <4>3
    <3>2. CASE i = p
      BY <1>4, <3>2
    <3>3. CASE i > p
      <4>1. i - 1 <= k /\ i - 1 \in 1..cap
        BY <2>1, <3>3
      <4>2. buf.dist[i - 1] = D[buf.item[i - 1]]
        BY <4>1 DEF Records
      <4>3. new.dist[i] = buf.dist[i - 1] /\ new.item[i] = buf.item[i - 1]
        BY <1>4, <3>3
      <4> QED
        BY <4>2, <4>3
    <3> QED
      BY <3>1, <3>2, <3>3
  <2>2. p \in 1..new.n /\ new.item[p] = x
    BY <1>2, <1>4
  <2> QED
    BY <2>1, <2>2 DEF Records, Keeps
<1> QED
  BY <1>1, <1>2, <1>3, <1>4

\* What was kept stays kept: the item pushed out is beaten by all that stay.
LEMMA ConsiderKeeps ==
  ASSUME NEW cap \in Nat \ {0}, NEW buf, NEW k \in Nat, NEW S, Inf \in Int,
         HoldsOffers(cap, buf, k, S), buf.n = (IF k > cap THEN cap ELSE k),
         NEW D, Records(cap, buf, k, D),
         NEW d \in Int, d < Inf, NEW x,
         NEW r, D[r] \in Int, Keeps(cap, buf, D[r], r)
  PROVE  Keeps(cap, Consider(cap, buf, d, x), D[r], r)
<1>1. PICK new : new = Consider(cap, buf, d, x)
  OBVIOUS
<1>2. /\ new.n = IF k + 1 > cap THEN cap ELSE k + 1
      /\ \/ d >= buf.dist[cap] /\ new = buf /\ k >= cap
         \/ \E p \in 1..cap :
              /\ d < buf.dist[cap] /\ p <= k + 1
              /\ \A i \in 1..cap :
                   /\ i < p => new.dist[i] = buf.dist[i] /\ new.item[i] = buf.item[i]
                   /\ i = p => new.dist[i] = d /\ new.item[i] = x
                   /\ i > p => new.dist[i] = buf.dist[i - 1] /\ new.item[i] = buf.item[i - 1]
  <2>1. SlotTaken(cap, buf, Consider(cap, buf, d, x), k, d, x)
    BY ConsiderSlots
  <2> QED
    BY <1>1, <2>1 DEF SlotTaken
<1>3. CASE new = buf
  BY <1>1, <1>3
<1>4. ASSUME NEW p \in 1..cap, d < buf.dist[cap], p <= k + 1,
             \A i \in 1..cap :
               /\ i < p => new.dist[i] = buf.dist[i] /\ new.item[i] = buf.item[i]
               /\ i = p => new.dist[i] = d /\ new.item[i] = x
               /\ i > p => new.dist[i] = buf.dist[i - 1] /\ new.item[i] = buf.item[i - 1]
      PROVE  Keeps(cap, new, D[r], r)
  <2>1. buf.dist \in [1..cap -> Int] /\ Sorted(cap, buf.dist) /\ cap \in 1..cap
    BY DEF HoldsOffers
  <2>2. new.dist[cap] \in Int /\ new.dist[cap] <= buf.dist[cap]
    <3>1. CASE p = cap
      BY <1>4, <2>1, <3>1
    <3>2. CASE p < cap
      <4>1. cap - 1 \in 1..cap /\ new.dist[cap] = buf.dist[cap - 1]
        BY <1>4, <2>1, <3>2
      <4>2. buf.dist[cap - 1] <= buf.dist[cap]
        BY <2>1, <4>1 DEF Sorted
      <4> QED
        BY <2>1, <4>1, <4>2
    <3> QED
      BY <3>1, <3>2
  <2>3. CASE buf.n >= cap /\ D[r] >= buf.dist[cap]
    <3>1. new.n >= cap
      BY <1>2, <2>3
    <3>2. D[r] >= new.dist[cap]
      BY <2>1, <2>2, <2>3
    <3> QED
      BY <3>1, <3>2 DEF Keeps
  <2>4. ASSUME NEW i \in 1..buf.n, buf.item[i] = r
        PROVE  Keeps(cap, new, D[r], r)
    <3>0. i \in 1..cap /\ i <= k /\ buf.n \in Nat /\ new.n \in Nat /\ buf.n <= new.n
      BY <1>2
    <3>1. CASE i < p
      <4>1. new.item[i] = r /\ i \in 1..new.n
        BY <1>4, <2>4, <3>0, <3>1
      <4> QED
        BY <4>1 DEF Keeps
    <3>2. CASE i >= p /\ i < cap
      <4>1. i + 1 \in 1..cap /\ i + 1 > p /\ (i + 1) - 1 = i /\ i + 1 \in 1..new.n
        BY <1>2, <3>0, <3>2
      <4>2. new.item[i + 1] = r
        BY <1>4, <2>4, <4>1
      <4> QED
        BY <4>1, <4>2 DEF Keeps
    <3>3. CASE i = cap
      <4>1. new.n >= cap
        BY <1>2, <3>0, <3>3
      <4>2. buf.dist[cap] = D[r]
        BY <2>4, <3>0, <3>3 DEF Records
      <4>3. D[r] >= new.dist[cap]
        BY <2>1, <2>2, <4>2
      <4> QED
        BY <4>1, <4>3 DEF Keeps
    <3> QED
      BY <3>0, <3>1, <3>2, <3>3
  <2> QED
    BY <2>3, <2>4 DEF Keeps
<1> QED
  BY <1>1, <1>2, <1>3, <1>4
=============================================================================
