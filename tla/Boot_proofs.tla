----------------------------- MODULE Boot_proofs -----------------------------
(***************************************************************************)
(* What LoadIndex accepts is what some Save wrote to its end, for every    *)
(* data set, layout and interleaving of the writer, the reader and their   *)
(* restarts.  As long as nothing damages it, the file is the beginning of  *)
(* the image of one index, and what has been read of it is what that image *)
(* holds up to there (OnDisk): only the whole image has five slices.       *)
(***************************************************************************)
EXTENDS Boot, SequenceTheorems, TLAPS

\* The image of x as far as its first k slices.
Front0(x) == <<Header, Number(x.n), Number(x.nlist)>>
Front1(x) == Front0(x) \o Slice(x, 1)
Front2(x) == Front1(x) \o Slice(x, 2)
Front3(x) == Front2(x) \o Slice(x, 3)
Front4(x) == Front3(x) \o Slice(x, 4)
Front5(x) == Front4(x) \o Slice(x, 5)

Front(x, k) ==
  CASE k = 0 -> Front0(x) [] k = 1 -> Front1(x) [] k = 2 -> Front2(x)
    [] k = 3 -> Front3(x) [] k = 4 -> Front4(x) [] k = 5 -> Front5(x)

\* What readFrom has taken off a file that begins as the image of x does.
ReadOf(x, r) ==
  /\ r.pos > 0 => Len(r.nums) = (IF r.pos < 3 THEN r.pos - 1 ELSE 2)
  /\ Len(r.nums) > 0 => r.nums[1] = x.n
  /\ Len(r.nums) > 1 => r.nums[2] = x.nlist
  /\ r.pos > 2 => r.pos = Len(Front(x, Len(r.slices)))
  /\ \A p \in 1..Len(r.slices) : r.slices[p] = x.slices[p]

\* What is on disk is the beginning of the image of x: of the index being
\* written, as far as it is written, or of an earlier one; a reader that nobody
\* has cut off has read a part of it.
OnDisk(x) ==
  /\ Len(file) <= Len(Image(x))
  /\ \A i \in 1..Len(file) : file[i] = Image(x)[i]
  /\ wrote # Nil => built = x /\ wrote = Len(file)
  /\ Len(file) = Len(Image(x)) => x \in saved
  /\ api = "read" /\ ~torn => ReadOf(x, rd) /\ rd.pos <= Len(file)

DiskInv ==
  noise = 0 =>
    \/ file = Nil /\ wrote = Nil /\ api # "read"
    \/ file \in Seq(AnyWord) /\ \E x \in Indexes : OnDisk(x)

\* The words and the numbers of a read have their types, and come in their order.
ReadTypes ==
  /\ rd \in [pos : Nat, nums : Seq(Nat), slices : Seq(Seq(AnyWord))]
  /\ Len(rd.nums) = (IF rd.pos < 2 THEN 0 ELSE IF rd.pos = 2 THEN 1 ELSE 2)
  /\ rd.pos < 3 => rd.slices = <<>>
  /\ Len(rd.slices) <= 5

TypeInv ==
  /\ built \in Indexes \cup {Nil} /\ saved \subseteq Indexes
  /\ file = Nil \/ file \in Seq(AnyWord)
  /\ wrote = Nil \/ (built # Nil /\ wrote \in 0..Len(Image(built)) /\ file \in Seq(AnyWord))
  /\ api \in {"down", "start", "read", "build", "ready", "exited", "crashed"}
  /\ refs \in ApiFiles \cup {Nil}
  /\ (served # Nil) <=> (api = "ready")
  /\ torn \in BOOLEAN /\ noise \in 0..MaxNoise /\ builds \in 0..MaxBuilds

\* How far the startup goroutine is, and what it has published or given up for.
PhaseInv ==
  /\ api \in {"down", "start"} => rd = NothingRead
  /\ api \in {"down", "start", "read", "build"} => refs = Nil
  /\ api = "exited" => refs # Nil /\ ~Load(refs).ok
  /\ api = "crashed" => noise > 0 \/ torn
  /\ api = "ready" /\ refs = Nil /\ noise = 0 /\ ~torn => served \in saved
  /\ api = "ready" /\ refs # Nil =>
       Load(refs).ok /\ \E nl \in NLists : served = IndexOf(Load(refs).recs, nl)

IInv == TypeInv /\ ReadTypes /\ PhaseInv /\ DiskInv

-----------------------------------------------------------------------------
\* Decoding k records has taken the even pieces up to 2 * k, commas between them.
LEMMA DecodesFacts ==
  ASSUME NEW f \in Seq(Pieces), NEW n \in Nat, Decodes(f, n)
  PROVE  \A k \in 1..n : /\ RecordAt(f, At(k - 1)) = 2 * k
                         /\ 2 * k <= Len(f) /\ f[2 * k] \in Records
                         /\ k > 1 => f[2 * k - 1] = "comma"
<1> TAKE k \in 1..n
<1>1. k - 1 \in 0..(n - 1) /\ k \in Nat
  OBVIOUS
<1>2. More(f, At(k - 1)) /\ CanDecode(f, At(k - 1))
  BY <1>1 DEF Decodes
<1>3. CASE k = 1
  <2>1. At(k - 1) = 2
    BY <1>3 DEF At
  <2>2. More(f, 2) /\ CanDecode(f, 2)
    BY <1>2, <2>1
  <2>3. f[2] # "comma"
    <3>1. f[2] = "comma" <=> 2 > 2
      BY <2>2, Zenon DEF CanDecode
    <3> QED
      BY <3>1, SMT
  <2>4. RecordAt(f, 2) = 2
    BY <2>3 DEF RecordAt
  <2>5. 2 <= Len(f) /\ f[2] \in Records
    BY <2>2, <2>4 DEF CanDecode
  <2> QED
    BY <1>3, <2>1, <2>4, <2>5
<1>4. CASE k > 1
  <2> DEFINE i == 2 * k - 1
  <2>1. At(k - 1) = i /\ i \in Nat /\ i > 2 /\ i + 1 = 2 * k
    BY <1>1, <1>4 DEF At
  <2>2. CanDecode(f, i)
    BY <1>2, <2>1
  <2> HIDE DEF i
  <2>3. f[i] = "comma"
    BY <2>1, <2>2 DEF CanDecode
  <2>4. RecordAt(f, i) = i + 1
    BY <2>3 DEF RecordAt
  <2>5. i + 1 <= Len(f) /\ f[i + 1] \in Records
    BY <2>2, <2>4 DEF CanDecode
  <2>6. f[2 * k - 1] = "comma"
    BY <2>3 DEF i
  <2> QED
    BY <2>1, <2>4, <2>5, <2>6
<1> QED
  BY <1>1, <1>3, <1>4

\* The records of an accepted file are all it has, one at each even place, and
\* the file ends with one of them or with a bracket.
LEMMA LoadFacts ==
  ASSUME NEW f \in BuilderFiles \cup ApiFiles, Load(f).ok
  PROVE  /\ f # <<>> /\ f[Len(f)] \in Records \cup {"open", "close"}
         /\ \E n \in Nat :
              /\ Load(f).recs = [k \in 1..n |-> f[2 * k]]
              /\ \A k \in 1..n : 2 * k <= Len(f) /\ f[2 * k] \in Records
              /\ \A i \in 1..Len(f) : f[i] \in Records => \E k \in 1..n : i = 2 * k
<1> DEFINE n == CHOOSE k \in Ends(f) : TRUE
<1>1. f \in Seq(Pieces) /\ f # <<>> /\ f[1] = "open" /\ \A i \in 1..Len(f) : f[i] = "close" => i = Len(f)
  <2>1. f # <<>>
    BY DEF Load, Refused
  <2> QED
    BY <2>1, FilesAssumption
<1>2. Ends(f) # {}
  BY DEF Load, Refused
<1>3. n \in Ends(f)
  BY <1>2
<1>4. n \in Nat /\ Decodes(f, n) /\ ~More(f, At(n))
  BY <1>1, <1>3 DEF Ends
<1>5. Load(f).recs = [k \in 1..n |-> f[RecordAt(f, At(k - 1))]]
  BY <1>1, <1>2 DEF Load, Loaded
<1> HIDE DEF n
<1>6. \A k \in 1..n : /\ RecordAt(f, At(k - 1)) = 2 * k
                      /\ 2 * k <= Len(f) /\ f[2 * k] \in Records
                      /\ k > 1 => f[2 * k - 1] = "comma"
  BY <1>1, <1>4, DecodesFacts
<1>7. Load(f).recs = [k \in 1..n |-> f[2 * k]]
  BY <1>5, <1>6
<1>8. At(n) > Len(f) \/ (At(n) <= Len(f) /\ f[At(n)] = "close" /\ At(n) = Len(f))
  <2>1. Len(f) \in Nat /\ At(n) \in Nat /\ At(n) > 0
    BY <1>1, <1>4 DEF At
  <2>2. At(n) > Len(f) \/ (At(n) <= Len(f) /\ f[At(n)] = "close")
    BY <1>4, <2>1 DEF More
  <2> QED
    BY <1>1, <2>1, <2>2
<1>9. At(n) = IF n = 0 THEN 2 ELSE 2 * n + 1
  BY DEF At
<1>10. Len(f) \in Nat \ {0}
  BY <1>1
<1>11. f[Len(f)] \in Records \cup {"open", "close"}
  <2>1. CASE At(n) = Len(f) /\ f[At(n)] = "close"
    BY <2>1
  <2>2. CASE At(n) > Len(f) /\ n = 0
    <3>1. At(n) = 2
      BY <1>9, <2>2
    <3>2. \A l \in Nat \ {0} : 2 > l => l = 1
      OBVIOUS
    <3>3. 2 > Len(f)
      BY <2>2, <3>1
    <3>4. Len(f) = 1
      BY <1>10, <3>2, <3>3
    <3> QED
      BY <1>1, <3>4
  <2>3. CASE At(n) > Len(f) /\ n # 0
    <3>1. n \in 1..n
      BY <1>4, <2>3
    <3>2. 2 * n <= Len(f) /\ f[2 * n] \in Records
      BY <1>6, <3>1
    <3>3. Len(f) = 2 * n
      BY <1>4, <1>9, <1>10, <2>3, <3>2
    <3> QED
      BY <3>2, <3>3
  <2> QED
    BY <1>8, <2>1, <2>2, <2>3
<1>12. ASSUME NEW i \in 1..Len(f), f[i] \in Records
       PROVE  \E k \in 1..n : i = 2 * k
  <2>1. f[i] \notin {"open", "comma", "close"}
    BY <1>12, DatasetAssumption
  <2>2. i # 1 /\ i # At(n) /\ i \in Nat /\ i <= Len(f)
    <3>1. i # 1
      BY <1>1, <2>1
    <3>2. i # At(n)
      <4> SUFFICES ASSUME i = At(n) PROVE FALSE
        OBVIOUS
      <4>1. ~(At(n) > Len(f))
        BY <1>10
      <4>2. f[i] = "close"
        BY <1>8, <4>1
      <4> QED
        BY <2>1, <4>2
    <3> QED
      BY <1>10, <3>1, <3>2
  <2>3. i <= 2 * n
    <3>1. At(n) >= Len(f)
      BY <1>1, <1>4, <1>8, <1>9, <1>10
    <3>2. i < At(n)
      BY <1>4, <1>9, <1>10, <2>2, <3>1
    <3>3. n = 0 => i < 2
      BY <1>9, <3>2
    <3>4. n # 0 => i < 2 * n + 1
      BY <1>9, <3>2
    <3> QED
      BY <1>4, <2>2, <3>3, <3>4
  <2>4. PICK k \in Nat : i = 2 * k \/ i = 2 * k - 1
    <3>1. i = 2 * (i \div 2) \/ i = 2 * (i \div 2) + 1
      BY <2>2
    <3>2. i \div 2 \in Nat /\ i \div 2 + 1 \in Nat
      BY <2>2
    <3>3. CASE i = 2 * (i \div 2)
      BY <3>2, <3>3
    <3>4. CASE i = 2 * (i \div 2) + 1
      <4>1. i = 2 * (i \div 2 + 1) - 1
        BY <3>2, <3>4
      <4> QED
        BY <3>2, <4>1
    <3> QED
      BY <3>1, <3>3, <3>4
  <2>5. k \in 1..n
    BY <1>4, <2>2, <2>3, <2>4
  <2>6. i # 2 * k - 1
    <3>1. CASE k = 1
      BY <2>2, <3>1
    <3>2. CASE k # 1
      <4>1. k > 1
        BY <2>5, <3>2
      <4>2. f[2 * k - 1] = "comma"
        BY <1>6, <2>5, <4>1
      <4> QED
        BY <2>1, <4>2
    <3> QED
      BY <3>1, <3>2
  <2> QED
    BY <2>4, <2>5, <2>6
<1>13. \A k \in 1..n : 2 * k <= Len(f) /\ f[2 * k] \in Records
  BY <1>6
<1> QED
  BY <1>1, <1>4, <1>7, <1>11, <1>12, <1>13

\* The index Build makes of any records and layout is an index, and has a value
\* for each of its five slices.
LEMMA BuiltIsIndex ==
  ASSUME NEW recs \in Seq(Records), NEW nl \in NLists
  PROVE  LET x == IndexOf(recs, nl)
         IN  /\ x \in AnyIndex /\ x # Nil
             /\ x.n = Len(recs) /\ Len(x.slices) = 5
<1> DEFINE shape == Shape(Len(recs), nl)
           x == IndexOf(recs, nl)
<1>1. Len(recs) \in Nat /\ nl \in Nat
  BY BootAssumption
<1>2. Dims \in Nat /\ Buckets \in Nat /\ SimdTailPad \in Nat /\ WordBits \in Nat \ {0}
  BY FileAssumption
<1>3. \A p \in 1..5 : shape[p] \in Nat
  <2>1. \A a, b \in Nat : a * b \in Nat
    OBVIOUS
  <2>2. Len(recs) * Dims + SimdTailPad \in Nat /\ Buckets + 1 \in Nat
    BY <1>1, <1>2, <2>1
  <2>3. Buckets * nl \in Nat
    BY <1>1, <1>2, <2>1
  <2>4. Buckets * nl * Dims \in Nat /\ Buckets * nl + 1 \in Nat
    BY <1>2, <2>1, <2>3
  <2>5. Len(recs) + WordBits - 1 \in Nat
    BY <1>1, <1>2
  <2>6. (Len(recs) + WordBits - 1) \div WordBits \in Nat
    BY <1>2, <2>5
  <2> QED
    BY <2>2, <2>4, <2>6 DEF Shape
<1>4. \A p \in 1..5 : Parts[p] \in {Parts[q] : q \in 1..5}
  OBVIOUS
<1>5. \A p \in 1..5, i \in Nat : Element(Parts[p], i, recs) \in AnyWord
  BY <1>4 DEF Element, AnyWord
<1> HIDE DEF shape
<1>6. \A p \in 1..5 : [i \in 1..shape[p] |-> Element(Parts[p], i, recs)] \in Seq(AnyWord)
  <2> TAKE p \in 1..5
  <2>1. shape[p] \in Nat
    BY <1>3
  <2>2. \A i \in 1..shape[p] : Element(Parts[p], i, recs) \in AnyWord
    BY <1>5, <2>1
  <2> QED
    BY <2>1, <2>2
<1>7. x = [n |-> Len(recs), nlist |-> nl,
           slices |-> [p \in 1..5 |-> [i \in 1..shape[p] |-> Element(Parts[p], i, recs)]]]
  BY DEF IndexOf, shape
<1> HIDE DEF x
<1>8. x.slices \in Seq(Seq(AnyWord)) /\ Len(x.slices) = 5
  BY <1>6, <1>7
<1>9. x \in AnyIndex
  BY <1>1, <1>7, <1>8 DEF AnyIndex
<1>10. x # Nil
  BY <1>9, BootAssumption
<1> QED
  BY <1>7, <1>8, <1>9, <1>10 DEF x

\* The same of every index buildindex can make.
LEMMA IndexFacts ==
  ASSUME NEW x \in Indexes
  PROVE  /\ x \in AnyIndex /\ x # Nil
         /\ x.n \in Nat /\ x.nlist \in Nat
         /\ Len(x.slices) = 5 /\ \A p \in 1..5 : x.slices[p] \in Seq(AnyWord)
         /\ x = [n |-> x.n, nlist |-> x.nlist, slices |-> x.slices]
<1>1. PICK f \in BuilderFiles, nl \in NLists : Load(f).ok /\ x = IndexOf(Load(f).recs, nl)
  BY DEF Indexes
<1>2. PICK n \in Nat : /\ Load(f).recs = [k \in 1..n |-> f[2 * k]]
                       /\ \A k \in 1..n : 2 * k <= Len(f) /\ f[2 * k] \in Records
  BY <1>1, LoadFacts
<1>3. Load(f).recs \in Seq(Records)
  BY <1>2
<1>4. x \in AnyIndex /\ x # Nil /\ Len(x.slices) = 5
  BY <1>1, <1>3, BuiltIsIndex
<1>5. x.slices \in Seq(Seq(AnyWord))
  BY <1>4 DEF AnyIndex
<1>6. \A p \in 1..5 : x.slices[p] \in Seq(AnyWord)
  BY <1>4, <1>5
<1> QED
  BY <1>4, <1>6 DEF AnyIndex

-----------------------------------------------------------------------------
\* A slice in the file is its length and then its elements.
LEMMA SliceFacts ==
  ASSUME NEW x \in Indexes, NEW p \in 1..5
  PROVE  /\ Slice(x, p) \in Seq(AnyWord)
         /\ Len(x.slices[p]) \in Nat /\ Len(Slice(x, p)) = 1 + Len(x.slices[p])
         /\ Slice(x, p)[1] = Number(Len(x.slices[p]))
         /\ \A i \in 1..Len(x.slices[p]) : Slice(x, p)[1 + i] = x.slices[p][i]
<1>1. x.slices[p] \in Seq(AnyWord) /\ Len(x.slices[p]) \in Nat
  BY IndexFacts
<1>2. Number(Len(x.slices[p])) \in AnyWord
  BY <1>1 DEF Number, AnyWord
<1> DEFINE w == Number(Len(x.slices[p]))
           s == x.slices[p]
<1> HIDE DEF w, s
<1>3. <<w>> \in Seq(AnyWord) /\ Len(<<w>>) = 1 /\ <<w>>[1] = w /\ s \in Seq(AnyWord) /\ Len(s) \in Nat
  BY <1>1, <1>2 DEF w, s
<1>4. /\ <<w>> \o s \in Seq(AnyWord) /\ Len(<<w>> \o s) = 1 + Len(s)
      /\ \A i \in 1..1 + Len(s) : (<<w>> \o s)[i] = IF i <= 1 THEN <<w>>[i] ELSE s[i - 1]
  BY <1>3, ConcatProperties
<1>5. (<<w>> \o s)[1] = w /\ \A i \in 1..Len(s) : (<<w>> \o s)[1 + i] = s[i]
  BY <1>3, <1>4
<1> QED
  BY <1>1, <1>4, <1>5 DEF Slice, w, s

\* One slice more.
LEMMA FrontNext ==
  ASSUME NEW x, NEW k \in 0..4
  PROVE  Front(x, k + 1) = Front(x, k) \o Slice(x, k + 1)
<1>1. CASE k = 0
  BY <1>1 DEF Front, Front1
<1>2. CASE k = 1
  BY <1>2 DEF Front, Front2
<1>3. CASE k = 2
  BY <1>3 DEF Front, Front3
<1>4. CASE k = 3
  BY <1>4 DEF Front, Front4
<1>5. CASE k = 4
  BY <1>5 DEF Front, Front5
<1> QED
  BY <1>1, <1>2, <1>3, <1>4, <1>5

\* All slices make the image.
LEMMA FrontWhole == \A x : Front(x, 5) = Image(x)
BY DEF Front, Front0, Front1, Front2, Front3, Front4, Front5, Image

\* A front is a sequence of words, and begins as the next front does.
LEMMA FrontGrows ==
  ASSUME NEW x \in Indexes, NEW k \in 0..4, Front(x, k) \in Seq(AnyWord)
  PROVE  /\ Front(x, k + 1) \in Seq(AnyWord)
         /\ Len(Front(x, k + 1)) = Len(Front(x, k)) + 1 + Len(x.slices[k + 1])
         /\ \A i \in 1..Len(Front(x, k)) : Front(x, k + 1)[i] = Front(x, k)[i]
         /\ Front(x, k + 1)[Len(Front(x, k)) + 1] = Number(Len(x.slices[k + 1]))
         /\ \A i \in 1..Len(x.slices[k + 1]) :
              Front(x, k + 1)[Len(Front(x, k)) + 1 + i] = x.slices[k + 1][i]
<1> DEFINE f == Front(x, k)
           s == Slice(x, k + 1)
           e == x.slices[k + 1]
<1>1. k + 1 \in 1..5
  OBVIOUS
<1>2. /\ s \in Seq(AnyWord) /\ Len(e) \in Nat /\ Len(s) = 1 + Len(e)
      /\ s[1] = Number(Len(e)) /\ \A i \in 1..Len(e) : s[1 + i] = e[i]
  BY <1>1, SliceFacts
<1>3. f \in Seq(AnyWord) /\ Len(f) \in Nat /\ Front(x, k + 1) = f \o s
  <2>1. Front(x, k + 1) = f \o s
    BY FrontNext
  <2>2. f \in Seq(AnyWord)
    OBVIOUS
  <2> HIDE DEF f, s, e
  <2> QED
    BY <2>1, <2>2
<1> HIDE DEF f, s, e
<1>4. /\ f \o s \in Seq(AnyWord) /\ Len(f \o s) = Len(f) + Len(s)
      /\ \A i \in 1..Len(f) + Len(s) : (f \o s)[i] = IF i <= Len(f) THEN f[i] ELSE s[i - Len(f)]
  <2>1. f \in Seq(AnyWord) /\ s \in Seq(AnyWord)
    BY <1>2, <1>3
  <2> QED
    BY <2>1, ConcatProperties
<1>5. \A i \in 1..Len(f) : (f \o s)[i] = f[i]
  BY <1>2, <1>3, <1>4
<1>6. \A j \in 1..Len(s) : (f \o s)[Len(f) + j] = s[j]
  <2> TAKE j \in 1..Len(s)
  <2>1. /\ Len(f) + j \in 1..Len(f) + Len(s) /\ ~(Len(f) + j <= Len(f))
        /\ (Len(f) + j) - Len(f) = j
    BY <1>2, <1>3
  <2> QED
    BY <1>4, <2>1
<1>7. 1 \in 1..Len(s) /\ \A i \in 1..Len(e) : 1 + i \in 1..Len(s) /\ Len(f) + (1 + i) = Len(f) + 1 + i
  BY <1>2, <1>3
<1>8. (f \o s)[Len(f) + 1] = Number(Len(e))
  BY <1>2, <1>6, <1>7
<1>9. \A i \in 1..Len(e) : (f \o s)[Len(f) + 1 + i] = e[i]
  BY <1>2, <1>6, <1>7
<1>10. Len(f \o s) = Len(f) + 1 + Len(e)
  BY <1>2, <1>3, <1>4
<1> QED
  BY <1>3, <1>4, <1>5, <1>8, <1>9, <1>10 DEF f, s, e

\* The header and the numbers.
LEMMA Front0Facts ==
  ASSUME NEW x \in Indexes
  PROVE  /\ Front(x, 0) \in Seq(AnyWord) /\ Len(Front(x, 0)) = 3
         /\ Front(x, 0)[1] = Header /\ Front(x, 0)[2] = Number(x.n)
         /\ Front(x, 0)[3] = Number(x.nlist)
<1>1. x.n \in Nat /\ x.nlist \in Nat
  BY IndexFacts
<1>2. Header \in AnyWord /\ Number(x.n) \in AnyWord /\ Number(x.nlist) \in AnyWord
  BY <1>1 DEF Header, Number, AnyWord
<1> DEFINE a == Header
           b == Number(x.n)
           c == Number(x.nlist)
<1> HIDE DEF a, b, c
<1>3. a \in AnyWord /\ b \in AnyWord /\ c \in AnyWord
  BY <1>2 DEF a, b, c
<1>4. /\ <<a, b, c>> \in Seq(AnyWord) /\ Len(<<a, b, c>>) = 3
      /\ <<a, b, c>>[1] = a /\ <<a, b, c>>[2] = b /\ <<a, b, c>>[3] = c
  BY <1>3
<1>5. Front(x, 0) = <<a, b, c>>
  BY DEF Front, Front0, a, b, c
<1> QED
  BY <1>4, <1>5 DEF a, b, c

\* Every front is the beginning of the image, which is itself a sequence of words.
LEMMA FrontFacts ==
  ASSUME NEW x \in Indexes, NEW k \in 0..5
  PROVE  /\ Image(x) \in Seq(AnyWord) /\ Front(x, k) \in Seq(AnyWord)
         /\ Len(Front(x, k)) \in Nat /\ 3 <= Len(Front(x, k)) /\ Len(Front(x, k)) <= Len(Image(x))
         /\ \A i \in 1..Len(Front(x, k)) : Image(x)[i] = Front(x, k)[i]
<1> DEFINE Good(j) == Front(x, j) \in Seq(AnyWord) /\ Len(Front(x, j)) \in Nat /\ 3 <= Len(Front(x, j))
           Starts(i, j) == /\ Len(Front(x, i)) <= Len(Front(x, j))
                           /\ \A m \in 1..Len(Front(x, i)) : Front(x, j)[m] = Front(x, i)[m]
<1>1. Good(0)
  BY Front0Facts
<1>2. ASSUME NEW j \in 0..4, Good(j)
      PROVE  Good(j + 1) /\ Starts(j, j + 1)
  <2>1. j + 1 \in 1..5
    OBVIOUS
  <2>2. Len(x.slices[j + 1]) \in Nat
    BY <2>1, SliceFacts
  <2>3. /\ Front(x, j + 1) \in Seq(AnyWord)
        /\ Len(Front(x, j + 1)) = Len(Front(x, j)) + 1 + Len(x.slices[j + 1])
        /\ \A m \in 1..Len(Front(x, j)) : Front(x, j + 1)[m] = Front(x, j)[m]
    BY <1>2, FrontGrows
  <2>4. /\ Len(Front(x, j)) \in Nat /\ 3 <= Len(Front(x, j))
        /\ \A a, b \in Nat : 3 <= a => a + 1 + b \in Nat /\ 3 <= a + 1 + b /\ a <= a + 1 + b
    BY <1>2
  <2>5. /\ Len(Front(x, j + 1)) \in Nat /\ 3 <= Len(Front(x, j + 1))
        /\ Len(Front(x, j)) <= Len(Front(x, j + 1))
    BY <2>2, <2>3, <2>4
  <2> QED
    BY <2>3, <2>5
<1>3. ASSUME NEW h \in 0..5, NEW i \in 0..5, NEW j \in 0..5, Good(h), Good(i), Good(j),
             Starts(h, i), Starts(i, j)
      PROVE  Starts(h, j)
  BY <1>3
<1>4. \A j \in 0..5 : Good(j) => Starts(j, j)
  OBVIOUS
<1>5. Good(1) /\ Starts(0, 1)
  BY <1>1, <1>2
<1>6. Good(2) /\ Starts(1, 2)
  BY <1>5, <1>2
<1>7. Good(3) /\ Starts(2, 3)
  BY <1>6, <1>2
<1>8. Good(4) /\ Starts(3, 4)
  BY <1>7, <1>2
<1>9. Good(5) /\ Starts(4, 5)
  BY <1>8, <1>2
<1> HIDE DEF Good, Starts
<1>10. Starts(3, 5)
  BY <1>3, <1>7, <1>8, <1>9
<1>11. Starts(2, 5)
  BY <1>3, <1>6, <1>7, <1>9, <1>10
<1>12. Starts(1, 5)
  BY <1>3, <1>5, <1>6, <1>9, <1>11
<1>13. Starts(0, 5)
  BY <1>1, <1>3, <1>5, <1>9, <1>12
<1>14. Good(k) /\ Starts(k, 5) /\ Good(5)
  <2>1. k \in {0, 1, 2, 3, 4, 5}
    OBVIOUS
  <2> QED
    BY <1>1, <1>4, <1>5, <1>6, <1>7, <1>8, <1>9, <1>10, <1>11, <1>12, <1>13, <2>1
<1> QED
  BY <1>14, FrontWhole DEF Good, Starts

\* What the image holds at each place a read comes to.
LEMMA ImageNumbers ==
  ASSUME NEW x \in Indexes
  PROVE  /\ Image(x) \in Seq(AnyWord) /\ Len(Image(x)) \in Nat /\ 3 <= Len(Image(x))
         /\ Image(x)[1] = Header /\ Image(x)[2] = Number(x.n) /\ Image(x)[3] = Number(x.nlist)
<1>1. /\ Image(x) \in Seq(AnyWord) /\ Len(Front(x, 0)) <= Len(Image(x))
      /\ \A i \in 1..Len(Front(x, 0)) : Image(x)[i] = Front(x, 0)[i]
  BY FrontFacts
<1>2. Len(Image(x)) \in Nat
  BY <1>1
<1>3. Len(Front(x, 0)) = 3 /\ 1 \in 1..3 /\ 2 \in 1..3 /\ 3 \in 1..3
  BY Front0Facts
<1>4. Image(x)[1] = Front(x, 0)[1] /\ Image(x)[2] = Front(x, 0)[2] /\ Image(x)[3] = Front(x, 0)[3]
  BY <1>1, <1>3
<1> QED
  BY <1>1, <1>2, <1>3, <1>4, Front0Facts

LEMMA ImageSlice ==
  ASSUME NEW x \in Indexes, NEW k \in 0..4
  PROVE  /\ Len(Front(x, k)) \in Nat /\ Len(x.slices[k + 1]) \in Nat
         /\ Len(Front(x, k + 1)) = Len(Front(x, k)) + 1 + Len(x.slices[k + 1])
         /\ Image(x)[Len(Front(x, k)) + 1] = Number(Len(x.slices[k + 1]))
         /\ \A i \in 1..Len(x.slices[k + 1]) :
              Image(x)[Len(Front(x, k)) + 1 + i] = x.slices[k + 1][i]
<1>1. k \in 0..5 /\ k + 1 \in 0..5 /\ k + 1 \in 1..5
  OBVIOUS
<1>2. Front(x, k) \in Seq(AnyWord) /\ Len(Front(x, k)) \in Nat
  BY <1>1, FrontFacts
<1> DEFINE a == Len(Front(x, k))
           e == x.slices[k + 1]
<1>3. \A i \in 1..Len(Front(x, k + 1)) : Image(x)[i] = Front(x, k + 1)[i]
  BY <1>1, FrontFacts
<1>4. Len(e) \in Nat
  BY <1>1, SliceFacts
<1>5. Len(Front(x, k + 1)) = a + 1 + Len(e)
  BY <1>2, FrontGrows
<1>6. /\ Front(x, k + 1)[a + 1] = Number(Len(e))
      /\ \A i \in 1..Len(e) : Front(x, k + 1)[a + 1 + i] = e[i]
  BY <1>2, FrontGrows
<1>7. a \in Nat
  BY <1>2
<1> HIDE DEF a, e
<1>8. a + 1 \in 1..a + 1 + Len(e) /\ \A i \in 1..Len(e) : a + 1 + i \in 1..a + 1 + Len(e)
  BY <1>4, <1>7
<1>9. Image(x)[a + 1] = Number(Len(e))
  BY <1>3, <1>5, <1>6, <1>8
<1>10. \A i \in 1..Len(e) : Image(x)[a + 1 + i] = e[i]
  BY <1>3, <1>5, <1>6, <1>8
<1> QED
  BY <1>4, <1>5, <1>7, <1>9, <1>10 DEF a, e

\* A word is read as a natural number, and a number as itself.
LEMMA ReadAsFacts ==
  ASSUME NEW w \in AnyWord, NEW v \in ReadAs(w)
  PROVE  v \in Nat /\ \A u : w = Number(u) => v = u
<1>1. w.v \in Nat
  BY DEF AnyWord
<1>2. v \in {w.v} \cup Lengths \cup {Huge}
  BY DEF ReadAs
<1>3. Lengths \subseteq Nat /\ Huge \in Nat
  BY FileAssumption
<1>4. ASSUME NEW u, w = Number(u)
      PROVE  v = u
  <2>1. w.kind = "number" /\ w.v = u
    BY <1>4 DEF Number
  <2> QED
    BY <2>1 DEF ReadAs
<1> QED
  BY <1>1, <1>2, <1>3, <1>4

-----------------------------------------------------------------------------
\* Nothing is built, nothing is on disk, nothing runs.
LEMMA BootStarts == Init => IInv
<1> SUFFICES ASSUME Init PROVE IInv
  OBVIOUS
<1>1. TypeInv
  <2>1. 0 \in 0..MaxNoise /\ 0 \in 0..MaxBuilds
    BY BootAssumption
  <2> QED
    BY <2>1 DEF Init, TypeInv
<1>2. ReadTypes
  BY DEF Init, ReadTypes, NothingRead
<1>3. PhaseInv
  BY DEF Init, PhaseInv
<1>4. DiskInv
  BY DEF Init, DiskInv
<1> QED
  BY <1>1, <1>2, <1>3, <1>4 DEF IInv

\* The five steps of buildindex leave the startup goroutine alone.
LEMMA BuilderKeepsPhase ==
  ASSUME PhaseInv, ReadTypes, UNCHANGED <<apiVars, noise>>, saved \subseteq saved',
         torn => torn'
  PROVE  PhaseInv' /\ ReadTypes'
<1>1. ReadTypes'
  BY DEF ReadTypes, apiVars
<1>2. (~torn' => ~torn) /\ (torn => torn')
  OBVIOUS
<1>3. PhaseInv'
  BY <1>2 DEF PhaseInv, apiVars
<1> QED
  BY <1>1, <1>3

\* buildindex starts, and the file is as it was.
LEMMA StartBuildStep == IInv /\ StartBuild => IInv'
<1> SUFFICES ASSUME IInv, StartBuild PROVE IInv'
  OBVIOUS
<1>1. built = Nil /\ wrote = Nil /\ wrote' = Nil
  BY DEF IInv, TypeInv, StartBuild
<1>2. TypeInv'
  <2>1. built' \in Indexes
    BY DEF StartBuild, Indexes
  <2>2. builds' \in 0..MaxBuilds
    BY BootAssumption DEF IInv, TypeInv, StartBuild
  <2> QED
    BY <1>1, <2>1, <2>2 DEF IInv, TypeInv, StartBuild, apiVars
<1>3. PhaseInv' /\ ReadTypes'
  BY BuilderKeepsPhase DEF IInv, StartBuild
<1>4. DiskInv'
  <2> SUFFICES ASSUME noise = 0, ~(file = Nil /\ wrote = Nil /\ api # "read")
               PROVE  file \in Seq(AnyWord) /\ \E x \in Indexes : OnDisk(x)'
    BY <1>1 DEF DiskInv, StartBuild, apiVars
  <2>1. PICK x \in Indexes : OnDisk(x)
    BY DEF IInv, DiskInv
  <2>2. OnDisk(x)'
    BY <1>1, <2>1 DEF OnDisk, StartBuild, apiVars
  <2>3. file \in Seq(AnyWord)
    BY DEF IInv, DiskInv
  <2> QED
    BY <2>2, <2>3
<1> QED
  BY <1>2, <1>3, <1>4 DEF IInv

\* The new file begins as the image of the index being written does.
LEMMA CreateStep == IInv /\ Create => IInv'
<1> SUFFICES ASSUME IInv, Create PROVE IInv'
  OBVIOUS
<1>1. built \in Indexes /\ built' = built /\ file' = <<>> /\ wrote' = 0 /\ saved' = saved
  BY DEF IInv, TypeInv, Create
<1>2. Len(Image(built)) \in Nat /\ 3 <= Len(Image(built)) /\ built # Nil
  BY <1>1, ImageNumbers, IndexFacts
<1>3. torn' \in BOOLEAN
  BY DEF IInv, TypeInv, Create
<1>4. TypeInv'
  BY <1>1, <1>2, <1>3 DEF IInv, TypeInv, Create, apiVars
<1>5. PhaseInv' /\ ReadTypes'
  BY <1>1, BuilderKeepsPhase DEF IInv, Create
<1>6. OnDisk(built)'
  <2>1. Len(file') = 0 /\ Len(file') <= Len(Image(built)) /\ Len(file') # Len(Image(built))
    BY <1>1, <1>2
  <2>2. ASSUME api = "read", ~torn'
        PROVE  ReadOf(built, rd) /\ rd.pos <= Len(file')
    <3>1. rd = NothingRead
      BY <2>2 DEF Create
    <3> QED
      BY <2>1, <3>1 DEF ReadOf, NothingRead
  <2>3. \A i \in 1..Len(file') : file'[i] = Image(built)[i]
    BY <2>1
  <2> QED
    BY <1>1, <2>1, <2>2, <2>3 DEF OnDisk, Create, apiVars
<1>7. DiskInv'
  BY <1>1, <1>6 DEF DiskInv
<1> QED
  BY <1>4, <1>5, <1>7 DEF IInv

\* A word more, which is the image's next.
LEMMA WriteWordStep == IInv /\ WriteWord => IInv'
<1> SUFFICES ASSUME IInv, WriteWord PROVE IInv'
  OBVIOUS
<1> DEFINE w == Image(built)[wrote + 1]
<1>1. /\ built \in Indexes /\ built # Nil /\ wrote \in Nat /\ wrote < Len(Image(built))
      /\ file \in Seq(AnyWord)
  BY DEF IInv, TypeInv, WriteWord
<1>2. Image(built) \in Seq(AnyWord) /\ Len(Image(built)) \in Nat
  BY <1>1, ImageNumbers
<1>3. wrote + 1 \in 1..Len(Image(built)) /\ w \in AnyWord
  BY <1>1, <1>2
<1> HIDE DEF w
<1>4. file' = Append(file, w) /\ wrote' = wrote + 1 /\ built' = built
  BY DEF WriteWord, w
<1>5. /\ file' \in Seq(AnyWord) /\ Len(file') = Len(file) + 1 /\ Len(file) \in Nat
      /\ \A i \in 1..Len(file) : file'[i] = file[i]
      /\ file'[Len(file) + 1] = w
  BY <1>1, <1>3, <1>4, AppendProperties
<1>6. saved \subseteq saved' /\ saved' \subseteq Indexes
  BY <1>1 DEF IInv, TypeInv, WriteWord
<1>7. TypeInv'
  <2>1. wrote' \in 0..Len(Image(built'))
    BY <1>1, <1>2, <1>4
  <2> QED
    BY <1>1, <1>4, <1>5, <1>6, <2>1 DEF IInv, TypeInv, WriteWord, apiVars
<1>8. PhaseInv' /\ ReadTypes'
  BY <1>6, BuilderKeepsPhase DEF IInv, WriteWord
<1>9. DiskInv'
  <2> SUFFICES ASSUME noise = 0 PROVE OnDisk(built)'
    BY <1>1, <1>5 DEF DiskInv, WriteWord, OnDisk
  <2>1. wrote # Nil
    BY DEF WriteWord
  <2>2. PICK x \in Indexes : OnDisk(x)
    BY <2>1 DEF IInv, DiskInv
  <2>3. x = built /\ wrote = Len(file)
    BY <2>1, <2>2 DEF OnDisk
  <2>4. wrote' = Len(file') /\ Len(file') <= Len(Image(built))
    BY <1>1, <1>2, <1>4, <1>5, <2>3
  <2>5. \A i \in 1..Len(file') : file'[i] = Image(built)[i]
    <3> TAKE i \in 1..Len(file')
    <3>1. CASE i \in 1..Len(file)
      BY <1>5, <2>2, <2>3, <3>1 DEF OnDisk
    <3>2. CASE i = Len(file) + 1
      BY <1>5, <2>3, <3>2 DEF w
    <3> QED
      BY <1>5, <3>1, <3>2
  <2>6. Len(file') = Len(Image(built)) => built \in saved'
    BY <1>4, <2>4 DEF WriteWord
  <2>7. api = "read" /\ ~torn => ReadOf(built, rd) /\ rd.pos <= Len(file')
    <3> SUFFICES ASSUME api = "read", ~torn PROVE ReadOf(built, rd) /\ rd.pos <= Len(file')
      OBVIOUS
    <3>1. ReadOf(built, rd) /\ rd.pos <= Len(file)
      BY <2>2, <2>3 DEF OnDisk
    <3>2. rd.pos \in Nat
      BY DEF IInv, ReadTypes
    <3> QED
      BY <1>5, <3>1, <3>2
  <2> QED
    BY <1>4, <2>4, <2>5, <2>6, <2>7 DEF OnDisk, WriteWord, apiVars
<1> QED
  BY <1>7, <1>8, <1>9 DEF IInv

\* The end of buildindex, or of a part of it, leaves the file where it is.
LEMMA EndBuildStep == IInv /\ (FinishBuild \/ AbortBuild) => IInv'
<1> SUFFICES ASSUME IInv, FinishBuild \/ AbortBuild PROVE IInv'
  OBVIOUS
<1>1. /\ built' = Nil /\ wrote' = Nil /\ file' = file /\ saved' = saved
      /\ UNCHANGED <<apiVars, torn, noise, builds>>
  BY DEF FinishBuild, AbortBuild
<1>2. TypeInv'
  BY <1>1 DEF IInv, TypeInv, apiVars
<1>3. PhaseInv' /\ ReadTypes'
  BY <1>1, BuilderKeepsPhase DEF IInv
<1>4. DiskInv'
  BY <1>1 DEF IInv, DiskInv, OnDisk, apiVars
<1> QED
  BY <1>2, <1>3, <1>4 DEF IInv

-----------------------------------------------------------------------------
\* The process starts from nothing, whatever is on disk.
LEMMA StartStep == IInv /\ Start => IInv'
<1> SUFFICES ASSUME IInv, Start PROVE IInv'
  OBVIOUS
<1>1. TypeInv'
  BY DEF IInv, TypeInv, Start, builderVars
<1>2. ReadTypes' /\ PhaseInv'
  BY DEF IInv, ReadTypes, PhaseInv, Start, NothingRead
<1>3. DiskInv'
  BY DEF IInv, DiskInv, OnDisk, Start, builderVars
<1> QED
  BY <1>1, <1>2, <1>3 DEF IInv

\* LoadIndex opens the file and has read nothing.
LEMMA OpenStep == IInv /\ Open => IInv'
<1> SUFFICES ASSUME IInv, Open PROVE IInv'
  OBVIOUS
<1>1. /\ api = "start" /\ api' \in {"read", "build"} /\ (api' = "read" => file # Nil)
      /\ UNCHANGED <<file, builderVars, refs, rd, served, torn, noise>>
  BY DEF Open
<1>2. TypeInv'
  BY <1>1 DEF IInv, TypeInv, builderVars
<1>3. ReadTypes' /\ PhaseInv'
  BY <1>1 DEF IInv, ReadTypes, PhaseInv
<1>4. ASSUME NEW x \in Indexes, OnDisk(x), file \in Seq(AnyWord)
      PROVE  OnDisk(x)'
  <2>1. rd = NothingRead
    BY <1>1 DEF IInv, PhaseInv
  <2>2. Len(file) \in Nat
    BY <1>4
  <2>3. ReadOf(x, rd) /\ rd.pos <= Len(file)
    BY <2>1, <2>2 DEF ReadOf, NothingRead
  <2> QED
    BY <1>1, <1>4, <2>3 DEF OnDisk, builderVars
<1>5. DiskInv'
  <2> SUFFICES ASSUME noise = 0
               PROVE  \/ file = Nil /\ wrote = Nil /\ api' # "read"
                      \/ file \in Seq(AnyWord) /\ \E x \in Indexes : OnDisk(x)'
    BY <1>1 DEF DiskInv, builderVars
  <2>1. CASE file = Nil /\ wrote = Nil /\ api # "read"
    BY <1>1, <2>1
  <2>2. CASE file \in Seq(AnyWord) /\ \E x \in Indexes : OnDisk(x)
    BY <1>4, <2>2
  <2> QED
    BY <2>1, <2>2 DEF IInv, DiskInv
<1> QED
  BY <1>2, <1>3, <1>5 DEF IInv

\* A reader that gives the file up goes on to the references.
LEMMA FallStep ==
  ASSUME IInv, api = "read", Fall, UNCHANGED <<file, builderVars, refs, rd, torn, noise>>
  PROVE  IInv'
<1>1. api' = "build" /\ served' = served
  BY DEF Fall
<1>2. TypeInv'
  BY <1>1 DEF IInv, TypeInv, builderVars
<1>3. ReadTypes' /\ PhaseInv'
  BY <1>1 DEF IInv, ReadTypes, PhaseInv
<1>4. DiskInv'
  <2> SUFFICES ASSUME noise = 0
               PROVE  file \in Seq(AnyWord) /\ \E x \in Indexes : OnDisk(x)'
    BY DEF DiskInv
  <2>1. PICK x \in Indexes : file \in Seq(AnyWord) /\ OnDisk(x)
    BY DEF IInv, DiskInv
  <2> QED
    BY <1>1, <2>1 DEF OnDisk, builderVars
<1> QED
  BY <1>2, <1>3, <1>4 DEF IInv

\* The file a reader that has a word left holds it, and on an undamaged disk it
\* is the image's word.
LEMMA WordFacts ==
  ASSUME IInv, HasWord
  PROVE  /\ file \in Seq(AnyWord) /\ Len(file) \in Nat /\ rd.pos \in Nat
         /\ rd.pos + 1 \in 1..Len(file) /\ Word \in AnyWord
         /\ noise = 0 /\ ~torn /\ api = "read" =>
              \E x \in Indexes : /\ OnDisk(x) /\ ReadOf(x, rd)
                                 /\ Word = Image(x)[rd.pos + 1]
<1>1. file # Nil /\ rd.pos < Len(file)
  BY DEF HasWord
<1>2. file \in Seq(AnyWord) /\ rd.pos \in Nat
  BY <1>1 DEF IInv, TypeInv, ReadTypes
<1>3. Len(file) \in Nat /\ rd.pos + 1 \in 1..Len(file)
  BY <1>1, <1>2
<1>4. Word \in AnyWord
  BY <1>2, <1>3 DEF Word
<1>5. ASSUME noise = 0, ~torn, api = "read"
      PROVE  \E x \in Indexes : OnDisk(x) /\ ReadOf(x, rd) /\ Word = Image(x)[rd.pos + 1]
  <2>1. PICK x \in Indexes : OnDisk(x)
    BY <1>5 DEF IInv, DiskInv
  <2>2. ReadOf(x, rd) /\ Word = Image(x)[rd.pos + 1]
    BY <1>3, <1>5, <2>1 DEF OnDisk, Word
  <2> QED
    BY <2>1, <2>2
<1> QED
  BY <1>2, <1>3, <1>4, <1>5

\* A read that goes on changes only what has been read.
LEMMA ReadOn ==
  ASSUME IInv, api = "read", UNCHANGED <<file, builderVars, api, refs, served, torn, noise>>,
         ReadTypes', file \in Seq(AnyWord), rd'.pos <= Len(file),
         ASSUME NEW x \in Indexes, OnDisk(x), ReadOf(x, rd), noise = 0, ~torn
         PROVE  ReadOf(x, rd')
  PROVE  IInv'
<1>1. TypeInv'
  BY DEF IInv, TypeInv, builderVars
<1>2. PhaseInv'
  BY DEF IInv, PhaseInv
<1>3. DiskInv'
  <2> SUFFICES ASSUME noise = 0
               PROVE  \E x \in Indexes : OnDisk(x)'
    BY DEF DiskInv
  <2>1. PICK x \in Indexes : OnDisk(x)
    BY DEF IInv, DiskInv
  <2>2. OnDisk(x)'
    <3>1. CASE torn
      BY <2>1, <3>1 DEF OnDisk, builderVars
    <3>2. CASE ~torn
      <4>1. ReadOf(x, rd)
        BY <2>1, <3>2 DEF OnDisk
      <4>2. ReadOf(x, rd')
        BY <2>1, <3>2, <4>1
      <4>3. /\ Len(file) <= Len(Image(x)) /\ \A i \in 1..Len(file) : file[i] = Image(x)[i]
            /\ wrote # Nil => built = x /\ wrote = Len(file)
            /\ Len(file) = Len(Image(x)) => x \in saved
        BY <2>1 DEF OnDisk
      <4> QED
        BY <4>2, <4>3 DEF OnDisk, ReadOf, builderVars
    <3> QED
      BY <3>1, <3>2
  <2> QED
    BY <2>2
<1> QED
  BY <1>1, <1>2, <1>3 DEF IInv

LEMMA ReadHeaderStep == IInv /\ ReadHeader => IInv'
<1> SUFFICES ASSUME IInv, ReadHeader PROVE IInv'
  OBVIOUS
<1>1. /\ api = "read" /\ rd.pos = 0 /\ HasWord
      /\ UNCHANGED <<file, builderVars, refs, torn, noise>>
  BY DEF ReadHeader, AtHeader
<1>2. CASE Word # Header
  BY <1>1, <1>2, FallStep DEF ReadHeader
<1>3. CASE Word = Header
  <2>1. rd' = TakeHeader(rd) /\ UNCHANGED <<api, served>>
    BY <1>3 DEF ReadHeader
  <2>2. file \in Seq(AnyWord) /\ Len(file) \in Nat /\ 1 \in 1..Len(file)
    BY <1>1, WordFacts
  <2>3. rd \in [pos : Nat, nums : Seq(Nat), slices : Seq(Seq(AnyWord))] /\ Len(rd.nums) = 0
        /\ rd.slices = <<>>
    BY <1>1 DEF IInv, ReadTypes
  <2>4. rd'.pos = 1 /\ rd'.nums = rd.nums /\ rd'.slices = rd.slices
        /\ rd' \in [pos : Nat, nums : Seq(Nat), slices : Seq(Seq(AnyWord))]
    BY <1>1, <2>1, <2>3 DEF TakeHeader
  <2>5. ReadTypes'
    BY <2>3, <2>4 DEF ReadTypes
  <2>6. ASSUME NEW x \in Indexes, ReadOf(x, rd)
        PROVE  ReadOf(x, rd')
    BY <2>3, <2>4, <2>6 DEF ReadOf
  <2>7. rd'.pos <= Len(file)
    BY <2>2, <2>4
  <2> QED
    BY <1>1, <2>1, <2>2, <2>5, <2>6, <2>7, ReadOn
<1> QED
  BY <1>2, <1>3

\* The two numbers of the file are those of the index.
LEMMA ReadNumberStep == IInv /\ ReadNumber => IInv'
<1> SUFFICES ASSUME IInv, ReadNumber PROVE IInv'
  OBVIOUS
<1>1. /\ api = "read" /\ rd.pos \in {1, 2} /\ HasWord
      /\ UNCHANGED <<file, builderVars, api, refs, served, torn, noise>>
  BY DEF ReadNumber, AtNumber
<1>2. PICK v \in ReadAs(Word) : rd' = TakeNumber(rd, v)
  BY DEF ReadNumber
<1>3. /\ file \in Seq(AnyWord) /\ Len(file) \in Nat /\ Word \in AnyWord
      /\ rd.pos + 1 \in 1..Len(file)
  BY <1>1, WordFacts
<1>4. v \in Nat /\ \A u : Word = Number(u) => v = u
  BY <1>3, ReadAsFacts
<1>5. /\ rd \in [pos : Nat, nums : Seq(Nat), slices : Seq(Seq(AnyWord))]
      /\ rd.slices = <<>> /\ Len(rd.nums) = rd.pos - 1
  BY <1>1 DEF IInv, ReadTypes
<1>6. /\ rd'.pos = rd.pos + 1 /\ rd'.nums = Append(rd.nums, v) /\ rd'.slices = <<>>
      /\ rd' = [pos |-> rd.pos + 1, nums |-> Append(rd.nums, v), slices |-> rd.slices]
  BY <1>2, <1>5 DEF TakeNumber
<1>7. /\ Append(rd.nums, v) \in Seq(Nat) /\ Len(Append(rd.nums, v)) = Len(rd.nums) + 1
      /\ \A i \in 1..Len(rd.nums) : Append(rd.nums, v)[i] = rd.nums[i]
      /\ Append(rd.nums, v)[Len(rd.nums) + 1] = v
  BY <1>4, <1>5, AppendProperties
<1>8. ReadTypes'
  <2>1. rd.pos + 1 \in Nat /\ rd.pos + 1 >= 2 /\ (rd.pos + 1 = 2 <=> rd.pos = 1)
    BY <1>1
  <2>2. rd' \in [pos : Nat, nums : Seq(Nat), slices : Seq(Seq(AnyWord))]
    BY <1>5, <1>6, <1>7, <2>1
  <2>3. Len(rd'.nums) = IF rd'.pos < 2 THEN 0 ELSE IF rd'.pos = 2 THEN 1 ELSE 2
    BY <1>1, <1>5, <1>6, <1>7
  <2> QED
    BY <1>6, <2>2, <2>3 DEF ReadTypes
<1>9. ASSUME NEW x \in Indexes, OnDisk(x), ReadOf(x, rd), noise = 0, ~torn
      PROVE  ReadOf(x, rd')
  <2>1. Word = Image(x)[rd.pos + 1]
    BY <1>1, <1>3, <1>9 DEF OnDisk, Word
  <2>2. CASE rd.pos = 1
    <3>1. Word = Number(x.n)
      BY <2>1, <2>2, ImageNumbers
    <3>2. Len(rd'.nums) = 1 /\ rd'.nums[1] = x.n /\ rd'.pos = 2
      BY <1>4, <1>5, <1>6, <1>7, <2>2, <3>1
    <3> QED
      BY <1>6, <3>2 DEF ReadOf
  <2>3. CASE rd.pos = 2
    <3>1. Word = Number(x.nlist)
      BY <2>1, <2>3, ImageNumbers
    <3>2. Len(rd.nums) = 1 /\ rd.nums[1] = x.n
      BY <1>5, <1>9, <2>3 DEF ReadOf
    <3>3. Len(rd'.nums) = 2 /\ rd'.nums[1] = x.n /\ rd'.nums[2] = x.nlist /\ rd'.pos = 3
      BY <1>4, <1>6, <1>7, <2>3, <3>1, <3>2
    <3>4. Len(Front(x, 0)) = 3
      BY Front0Facts
    <3>5. Len(rd'.slices) = 0
      BY <1>6
    <3> QED
      BY <3>3, <3>4, <3>5 DEF ReadOf
  <2> QED
    BY <1>1, <2>2, <2>3
<1>10. rd'.pos <= Len(file)
  BY <1>3, <1>6
<1> QED
  BY <1>1, <1>3, <1>8, <1>9, <1>10, ReadOn

\* A slice read whole from the image of x is that slice of x, and ends where the
\* next begins; its length is never one that make panics on.
LEMMA SliceRead ==
  ASSUME IInv, api = "read", AtSlice(rd), HasWord, noise = 0, ~torn,
         NEW len \in ReadAs(Word), NEW x \in Indexes, OnDisk(x), ReadOf(x, rd)
  PROVE  /\ len # Huge
         /\ HasWords(len) => ReadOf(x, TakeSlice(rd, file, len))
<1> DEFINE k == Len(rd.slices)
           a == Len(Front(x, k))
           e == x.slices[k + 1]
           s == SubSeq(file, a + 2, a + 1 + len)
<1>1. /\ file \in Seq(AnyWord) /\ Len(file) \in Nat /\ Word \in AnyWord
      /\ rd.pos + 1 \in 1..Len(file) /\ Word = file[rd.pos + 1]
  BY WordFacts DEF Word
<1>2. /\ rd \in [pos : Nat, nums : Seq(Nat), slices : Seq(Seq(AnyWord))]
      /\ k \in 0..4 /\ rd.pos > 2 /\ Len(rd.nums) = 2
  <2>1. rd \in [pos : Nat, nums : Seq(Nat), slices : Seq(Seq(AnyWord))] /\ rd.pos > 2
    BY DEF IInv, ReadTypes, AtSlice
  <2>2. Len(rd.nums) = 2
    BY <2>1 DEF IInv, ReadTypes
  <2>3. rd.slices \in Seq(Seq(AnyWord))
    BY <2>1
  <2>4. Len(rd.slices) \in Nat /\ Len(rd.slices) < 5
    BY <2>3 DEF AtSlice
  <2> HIDE DEF k
  <2>5. k \in Nat /\ k < 5
    BY <2>4 DEF k
  <2>6. k \in 0..4
    BY <2>5
  <2> QED
    BY <2>1, <2>2, <2>6
<1>3. rd.pos = a
  BY <1>2 DEF ReadOf
<1>4. /\ a \in Nat /\ Len(e) \in Nat
      /\ Len(Front(x, k + 1)) = a + 1 + Len(e)
      /\ Image(x)[a + 1] = Number(Len(e))
      /\ \A i \in 1..Len(e) : Image(x)[a + 1 + i] = e[i]
  BY <1>2, ImageSlice
<1>5. k + 1 \in 1..5 /\ e \in Seq(AnyWord)
  <2> HIDE DEF k
  <2>1. k \in 0..4
    BY <1>2
  <2>2. k + 1 \in 1..5
    BY <2>1
  <2> QED
    BY <2>2, IndexFacts
<1>6. rd.nums[1] = x.n /\ rd.nums[2] = x.nlist
  BY <1>2 DEF ReadOf
<1>7. \A p \in 1..k : rd.slices[p] = x.slices[p]
  BY DEF ReadOf
<1>8. k \in Nat /\ rd.slices \in Seq(Seq(AnyWord))
  BY <1>2
<1> HIDE DEF k, a, e
<1>9. Word = Number(Len(e))
  BY <1>1, <1>3, <1>4 DEF OnDisk
<1>10. len = Len(e)
  BY <1>1, <1>9, ReadAsFacts
<1>11. len # Huge
  BY <1>5, <1>10, HugeAssumption DEF e
<1>12. ASSUME HasWords(len)
       PROVE  ReadOf(x, TakeSlice(rd, file, len))
  <2>1. a + 1 + Len(e) <= Len(file)
    BY <1>3, <1>10, <1>12 DEF HasWords
  <2>2. \A i \in (a + 2)..(a + 1 + len) : file[i] \in AnyWord
    BY <1>1, <1>4, <1>10, <2>1
  <2>3. /\ s \in Seq(AnyWord)
        /\ Len(s) = IF a + 2 <= a + 1 + len THEN (a + 1 + len) - (a + 2) + 1 ELSE 0
        /\ \A i \in 1..(a + 1 + len) - (a + 2) + 1 : s[i] = file[(a + 2) + i - 1]
    <3>1. a + 2 \in Int /\ a + 1 + len \in Int
      BY <1>4, <1>10
    <3> QED
      BY <2>2, <3>1, SubSeqProperties
  <2> HIDE DEF s
  <2>4. Len(s) = Len(e) /\ (a + 1 + len) - (a + 2) + 1 = Len(e)
    BY <1>4, <1>10, <2>3
  <2>5. \A i \in 1..Len(s) : s[i] = e[i]
    <3> TAKE i \in 1..Len(s)
    <3>1. /\ i \in 1..Len(e) /\ (a + 2) + i - 1 = a + 1 + i /\ a + 1 + i \in 1..Len(file)
      BY <1>1, <1>4, <2>1, <2>4
    <3>2. s[i] = file[a + 1 + i]
      BY <2>3, <2>4, <3>1
    <3> QED
      BY <1>4, <3>1, <3>2 DEF OnDisk
  <2>6. s = e
    BY <1>5, <2>3, <2>4, <2>5, SeqEqual
  <2> DEFINE r == TakeSlice(rd, file, len)
  <2>7. r = [pos |-> a + 1 + len, nums |-> rd.nums, slices |-> Append(rd.slices, e)]
    <3>1. e = SubSeq(file, rd.pos + 2, rd.pos + 1 + len)
      BY <1>3, <2>6 DEF s
    <3>2. TakeSlice(rd, file, len) =
            [rd EXCEPT !.pos = @ + 1 + len, !.slices = Append(@, e)]
      BY <3>1 DEF TakeSlice
    <3>3. rd \in [pos : Nat, nums : Seq(Nat), slices : Seq(Seq(AnyWord))]
      BY <1>2
    <3> QED
      BY <1>3, <3>2, <3>3
  <2> HIDE DEF r
  <2>8. /\ Len(Append(rd.slices, e)) = k + 1
        /\ \A p \in 1..k : Append(rd.slices, e)[p] = rd.slices[p]
        /\ Append(rd.slices, e)[k + 1] = e
    BY <1>5, <1>8, AppendProperties DEF k
  <2>9. \A p \in 1..(k + 1) : Append(rd.slices, e)[p] = x.slices[p]
    <3> TAKE p \in 1..(k + 1)
    <3>1. CASE p \in 1..k
      BY <1>7, <2>8, <3>1
    <3>2. CASE p = k + 1
      <4>1. e = x.slices[k + 1]
        BY DEF e, k
      <4>2. Append(rd.slices, e)[k + 1] = x.slices[k + 1]
        BY <2>8, <4>1
      <4> QED
        BY <3>2, <4>2, Zenon
    <3>3. p \in 1..k \/ p = k + 1
      <4>1. k \in Nat
        BY <1>8
      <4> QED
        BY <4>1
    <3> QED
      BY <3>1, <3>2, <3>3
  <2>10. r.pos = Len(Front(x, Len(r.slices)))
    BY <1>4, <1>10, <2>7, <2>8
  <2>11. r.pos \in Nat /\ r.pos > 2
    BY <1>2, <1>3, <1>4, <1>10, <2>7
  <2>12. ReadOf(x, r)
    <3>1. r.nums = rd.nums /\ r.slices = Append(rd.slices, e)
      BY <2>7
    <3>2. ~(r.pos < 3) /\ Len(r.nums) = 2 /\ r.nums[1] = x.n /\ r.nums[2] = x.nlist
      BY <1>2, <1>6, <2>11, <3>1
    <3>3. \A p \in 1..Len(r.slices) : r.slices[p] = x.slices[p]
      BY <2>8, <2>9, <3>1
    <3> QED
      BY <2>10, <3>2, <3>3 DEF ReadOf
  <2> QED
    BY <2>12 DEF r
<1> QED
  BY <1>11, <1>12

LEMMA ReadSliceStep == IInv /\ ReadSlice => IInv'
<1> SUFFICES ASSUME IInv, ReadSlice PROVE IInv'
  OBVIOUS
<1>1. /\ api = "read" /\ AtSlice(rd) /\ HasWord
      /\ UNCHANGED <<file, builderVars, refs, torn, noise>>
  BY DEF ReadSlice
<1>2. PICK len \in ReadAs(Word) :
        \/ len = Huge /\ api' = "crashed" /\ UNCHANGED <<rd, served>>
        \/ len # Huge /\ HasWords(len)
           /\ rd' = TakeSlice(rd, file, len) /\ UNCHANGED <<api, served>>
        \/ len # Huge /\ ~HasWords(len) /\ Fall /\ UNCHANGED rd
  BY DEF ReadSlice
<1>3. /\ file \in Seq(AnyWord) /\ Len(file) \in Nat /\ Word \in AnyWord
      /\ rd.pos + 1 \in 1..Len(file)
      /\ noise = 0 /\ ~torn => \E x \in Indexes : OnDisk(x) /\ ReadOf(x, rd)
  BY <1>1, WordFacts
<1>4. len \in Nat
  BY <1>3, ReadAsFacts
<1>5. CASE len # Huge /\ ~HasWords(len) /\ Fall /\ UNCHANGED rd
  BY <1>1, <1>5, FallStep
<1>6. CASE len = Huge /\ api' = "crashed" /\ UNCHANGED <<rd, served>>
  <2>1. TypeInv'
    BY <1>1, <1>6 DEF IInv, TypeInv, builderVars
  <2>2. noise > 0 \/ torn
    <3>1. ~(noise = 0 /\ ~torn)
      <4> SUFFICES ASSUME noise = 0, ~torn PROVE FALSE
        OBVIOUS
      <4>1. PICK x \in Indexes : OnDisk(x) /\ ReadOf(x, rd)
        BY <1>3
      <4> QED
        BY <1>1, <1>6, <4>1, SliceRead
    <3>2. noise \in Nat
      BY BootAssumption DEF IInv, TypeInv
    <3> QED
      BY <3>1, <3>2
  <2>3. ReadTypes' /\ PhaseInv'
    BY <1>1, <1>6, <2>2 DEF IInv, ReadTypes, PhaseInv
  <2>4. DiskInv'
    <3> SUFFICES ASSUME noise = 0
                 PROVE  \E x \in Indexes : OnDisk(x)'
      BY <1>1, <1>3 DEF DiskInv
    <3>1. PICK x \in Indexes : OnDisk(x)
      BY <1>1 DEF IInv, DiskInv
    <3> QED
      BY <1>1, <1>6, <3>1 DEF OnDisk, builderVars
  <2> QED
    BY <2>1, <2>3, <2>4 DEF IInv
<1>7. CASE len # Huge /\ HasWords(len) /\ rd' = TakeSlice(rd, file, len) /\ UNCHANGED <<api, served>>
  <2> DEFINE s == SubSeq(file, rd.pos + 2, rd.pos + 1 + len)
  <2>1. /\ rd \in [pos : Nat, nums : Seq(Nat), slices : Seq(Seq(AnyWord))]
        /\ rd.pos > 2 /\ Len(rd.nums) = 2
    BY <1>1 DEF IInv, ReadTypes, AtSlice
  <2>2. rd.slices \in Seq(Seq(AnyWord)) /\ Len(rd.slices) \in Nat /\ Len(rd.slices) < 5
    BY <1>1, <2>1 DEF AtSlice
  <2>3. rd.pos \in Nat /\ rd.pos + 1 + len \in Nat /\ rd.pos + 1 + len > 2
    BY <1>4, <2>1
  <2>4. rd.pos + 1 + len <= Len(file)
    BY <1>7 DEF HasWords
  <2>5. s \in Seq(AnyWord)
    <3>1. \A i \in (rd.pos + 2)..(rd.pos + 1 + len) : file[i] \in AnyWord
      BY <1>3, <2>3, <2>4
    <3>2. rd.pos + 2 \in Int /\ rd.pos + 1 + len \in Int
      BY <2>3
    <3> QED
      BY <3>1, <3>2, SubSeqProperties
  <2> HIDE DEF s
  <2>6. rd' = [rd EXCEPT !.pos = @ + 1 + len, !.slices = Append(@, s)]
    BY <1>7 DEF TakeSlice, s
  <2>7. rd' = [pos |-> rd.pos + 1 + len, nums |-> rd.nums, slices |-> Append(rd.slices, s)]
    BY <2>1, <2>6
  <2>8. Append(rd.slices, s) \in Seq(Seq(AnyWord)) /\ Len(Append(rd.slices, s)) = Len(rd.slices) + 1
    BY <2>2, <2>5, AppendProperties
  <2>9. rd'.pos > 2 /\ rd'.pos \in Nat /\ Len(rd'.nums) = 2 /\ Len(rd'.slices) <= 5
    BY <2>1, <2>2, <2>3, <2>7, <2>8
  <2>10. rd' \in [pos : Nat, nums : Seq(Nat), slices : Seq(Seq(AnyWord))]
    BY <2>1, <2>3, <2>7, <2>8
  <2>11. ReadTypes'
    BY <2>9, <2>10 DEF ReadTypes
  <2>12. ASSUME NEW x \in Indexes, OnDisk(x), ReadOf(x, rd), noise = 0, ~torn
         PROVE  ReadOf(x, rd')
    BY <1>1, <1>7, <2>12, SliceRead
  <2>13. rd'.pos <= Len(file)
    BY <2>4, <2>7
  <2> QED
    BY <1>1, <1>3, <1>7, <2>11, <2>12, <2>13, ReadOn
<1> QED
  BY <1>2, <1>5, <1>6, <1>7

\* Five slices are the whole image, and the index it is the image of.
LEMMA WholeRead ==
  ASSUME IInv, api = "read", ReadAll(rd), noise = 0, ~torn
  PROVE  Taken(rd) \in saved
<1>1. PICK x \in Indexes : OnDisk(x)
  BY DEF IInv, DiskInv
<1>2. ReadOf(x, rd) /\ rd.pos <= Len(file) /\ Len(file) <= Len(Image(x)) /\ file \in Seq(AnyWord)
  BY <1>1 DEF OnDisk, IInv, DiskInv
<1>3. /\ rd \in [pos : Nat, nums : Seq(Nat), slices : Seq(Seq(AnyWord))]
      /\ rd.pos > 2 /\ Len(rd.nums) = 2 /\ Len(rd.slices) = 5
  <2>1. rd \in [pos : Nat, nums : Seq(Nat), slices : Seq(Seq(AnyWord))] /\ Len(rd.slices) = 5
    BY DEF IInv, ReadTypes, ReadAll
  <2>2. rd.slices # <<>>
    <3>1. Len(<<>>) = 0
      OBVIOUS
    <3>2. Len(<<>>) # Len(rd.slices)
      BY <2>1, <3>1
    <3> QED
      BY <3>2, Zenon
  <2>3. ~(rd.pos < 3) /\ rd.pos \in Nat
    BY <2>1, <2>2 DEF IInv, ReadTypes
  <2>4. rd.pos > 2
    BY <2>3
  <2>5. Len(rd.nums) = 2
    BY <2>4, <2>3 DEF IInv, ReadTypes
  <2> QED
    BY <2>1, <2>4, <2>5
<1>4. rd.nums[1] = x.n /\ rd.nums[2] = x.nlist /\ rd.pos = Len(Image(x))
  BY <1>2, <1>3, FrontWhole DEF ReadOf
<1>5. \A p \in 1..5 : rd.slices[p] = x.slices[p]
  BY <1>2, <1>3 DEF ReadOf
<1>6. rd.slices = x.slices
  <2>1. x.slices \in Seq(Seq(AnyWord)) /\ Len(x.slices) = 5
    BY IndexFacts DEF AnyIndex
  <2>2. rd.slices \in Seq(Seq(AnyWord)) /\ Len(rd.slices) = 5
    BY <1>3
  <2> QED
    BY <1>5, <2>1, <2>2, SeqEqual
<1>7. Taken(rd) = x
  BY <1>4, <1>6, IndexFacts DEF Taken
<1>8. Len(file) = Len(Image(x))
  BY <1>2, <1>4, ImageNumbers
<1> QED
  BY <1>1, <1>7, <1>8 DEF OnDisk

\* What LoadIndex returns is published.
LEMMA FinishLoadStep == IInv /\ FinishLoad => IInv'
<1> SUFFICES ASSUME IInv, FinishLoad PROVE IInv'
  OBVIOUS
<1>1. /\ api = "read" /\ ReadAll(rd)
      /\ UNCHANGED <<file, builderVars, refs, rd, torn, noise>>
  BY DEF FinishLoad
<1>2. CASE ~Consistent(rd)
  BY <1>1, <1>2, FallStep DEF FinishLoad
<1>3. CASE Consistent(rd)
  <2>1. api' = "ready" /\ served' = Taken(rd)
    BY <1>3 DEF FinishLoad, Publish
  <2>2. Taken(rd) # Nil
    <3>1. rd \in [pos : Nat, nums : Seq(Nat), slices : Seq(Seq(AnyWord))]
          /\ Len(rd.slices) = 5
      BY <1>1 DEF IInv, ReadTypes, ReadAll
    <3>2. rd.slices # <<>>
      <4>1. Len(<<>>) = 0
        OBVIOUS
      <4>2. Len(<<>>) # Len(rd.slices)
        BY <3>1, <4>1
      <4> QED
        BY <4>2, Zenon
    <3>3. ~(rd.pos < 3) /\ rd.pos \in Nat
      BY <3>1, <3>2 DEF IInv, ReadTypes
    <3>4. rd.pos > 2
      BY <3>3
    <3>5. Len(rd.nums) = 2 /\ rd.nums \in Seq(Nat)
      BY <3>1, <3>4 DEF IInv, ReadTypes
    <3>6. rd.nums[1] \in Nat /\ rd.nums[2] \in Nat
      BY <3>5
    <3>7. Taken(rd) \in AnyIndex
      BY <3>1, <3>6 DEF Taken, AnyIndex
    <3> QED
      BY <3>7, BootAssumption
  <2>3. TypeInv'
    BY <1>1, <2>1, <2>2 DEF IInv, TypeInv, builderVars
  <2>4. ReadTypes'
    BY <1>1 DEF IInv, ReadTypes
  <2>5. noise = 0 /\ ~torn => served' \in saved
    BY <1>1, <2>1, WholeRead
  <2>6. PhaseInv'
    BY <1>1, <2>1, <2>5 DEF IInv, PhaseInv, builderVars
  <2>7. DiskInv'
    <3> SUFFICES ASSUME noise = 0
                 PROVE  file \in Seq(AnyWord) /\ \E x \in Indexes : OnDisk(x)'
      BY <1>1 DEF DiskInv
    <3>1. PICK x \in Indexes : file \in Seq(AnyWord) /\ OnDisk(x)
      BY <1>1 DEF IInv, DiskInv
    <3> QED
      BY <1>1, <2>1, <3>1 DEF OnDisk, builderVars
  <2> QED
    BY <2>3, <2>4, <2>6, <2>7 DEF IInv
<1> QED
  BY <1>2, <1>3

\* The index is built here instead, or the process exits.
LEMMA BuildHereStep == IInv /\ BuildHere => IInv'
<1> SUFFICES ASSUME IInv, BuildHere PROVE IInv'
  OBVIOUS
<1>1. api = "build" /\ UNCHANGED <<file, builderVars, rd, torn, noise>>
  BY DEF BuildHere
<1>2. PICK f \in ApiFiles, nl \in NLists :
        /\ refs' = f
        /\ IF Load(f).ok THEN Publish(IndexOf(Load(f).recs, nl))
           ELSE api' = "exited" /\ UNCHANGED served
  BY DEF BuildHere
<1>3. f # Nil
  BY BootAssumption
<1>4. ReadTypes'
  BY <1>1 DEF IInv, ReadTypes
<1>5. api' \in {"ready", "exited"}
  BY <1>2 DEF Publish
<1>6. DiskInv'
  <2> SUFFICES ASSUME noise = 0
               PROVE  \/ file = Nil /\ wrote = Nil /\ api' # "read"
                      \/ file \in Seq(AnyWord) /\ \E x \in Indexes : OnDisk(x)'
    BY <1>1 DEF DiskInv, builderVars
  <2>1. CASE file = Nil /\ wrote = Nil /\ api # "read"
    BY <1>5, <2>1
  <2>2. CASE file \in Seq(AnyWord) /\ \E x \in Indexes : OnDisk(x)
    <3>1. PICK x \in Indexes : OnDisk(x)
      BY <2>2
    <3> QED
      BY <1>1, <1>5, <2>2, <3>1 DEF OnDisk, builderVars
  <2> QED
    BY <2>1, <2>2 DEF IInv, DiskInv
<1>7. CASE Load(f).ok
  <2>1. api' = "ready" /\ served' = IndexOf(Load(f).recs, nl)
    BY <1>2, <1>7 DEF Publish
  <2>2. PICK n \in Nat : /\ Load(f).recs = [k \in 1..n |-> f[2 * k]]
                         /\ \A k \in 1..n : 2 * k <= Len(f) /\ f[2 * k] \in Records
    BY <1>7, LoadFacts
  <2>3. Load(f).recs \in Seq(Records)
    BY <2>2
  <2>4. served' # Nil
    BY <2>1, <2>3, BuiltIsIndex
  <2>5. TypeInv'
    BY <1>1, <1>2, <2>1, <2>4 DEF IInv, TypeInv, builderVars
  <2>6. PhaseInv'
    BY <1>2, <1>3, <1>7, <2>1 DEF PhaseInv
  <2> QED
    BY <1>4, <1>6, <2>5, <2>6 DEF IInv
<1>8. CASE ~Load(f).ok
  <2>1. api' = "exited" /\ served' = served
    BY <1>2, <1>8
  <2>2. TypeInv'
    BY <1>1, <1>2, <2>1 DEF IInv, TypeInv, builderVars
  <2>3. PhaseInv'
    BY <1>2, <1>3, <1>8, <2>1 DEF PhaseInv
  <2> QED
    BY <1>4, <1>6, <2>2, <2>3 DEF IInv
<1> QED
  BY <1>7, <1>8

\* Nothing is claimed of a damaged file but that it is made of words.
LEMMA DamageStep == IInv /\ Damage => IInv'
<1> SUFFICES ASSUME IInv, Damage PROVE IInv'
  OBVIOUS
<1>1. /\ noise < MaxNoise /\ noise' = noise + 1 /\ file # Nil /\ built = Nil
      /\ api \in {"down", "start"} /\ UNCHANGED <<builderVars, apiVars, torn>>
  BY DEF Damage
<1>2. PICK i \in 1..Len(file) : file' = [file EXCEPT ![i] = Noise]
  BY DEF Damage
<1>3. noise \in Nat /\ noise' \in 0..MaxNoise /\ noise' # 0
  BY <1>1, BootAssumption DEF IInv, TypeInv
<1>4. Noise \in AnyWord
  BY DEF Noise, AnyWord
<1>5. file \in Seq(AnyWord) /\ wrote = Nil
  BY <1>1 DEF IInv, TypeInv
<1>6. file' \in Seq(AnyWord)
  BY <1>2, <1>4, <1>5, ExceptSeq
<1>7. TypeInv'
  BY <1>1, <1>3, <1>5, <1>6 DEF IInv, TypeInv, builderVars, apiVars
<1>8. ReadTypes' /\ PhaseInv'
  BY <1>1 DEF IInv, ReadTypes, PhaseInv, apiVars
<1>9. DiskInv'
  BY <1>3 DEF DiskInv
<1> QED
  BY <1>7, <1>8, <1>9 DEF IInv

-----------------------------------------------------------------------------
\* Every step keeps the invariant.
LEMMA BootStep == IInv /\ [Next]_vars => IInv'
<1> SUFFICES ASSUME IInv, [Next]_vars PROVE IInv'
  OBVIOUS
<1>1. CASE UNCHANGED vars
  <2>1. /\ UNCHANGED <<file, built, wrote, saved, builds, api, refs, rd, served, torn, noise>>
    BY <1>1 DEF vars, builderVars, apiVars
  <2> QED
    BY <2>1 DEF IInv, TypeInv, ReadTypes, PhaseInv, DiskInv, OnDisk
<1>2. CASE Builder
  BY <1>2, CreateStep, WriteWordStep, EndBuildStep DEF Builder
<1>3. CASE StartBuild \/ AbortBuild
  BY <1>3, StartBuildStep, EndBuildStep
<1>4. CASE ReadEnds
  BY <1>4, FallStep DEF ReadEnds
<1>5. CASE Startup
  BY <1>4, <1>5, OpenStep, ReadHeaderStep, ReadNumberStep, ReadSliceStep, FinishLoadStep, BuildHereStep
  DEF Startup
<1>6. CASE Start \/ Damage
  BY <1>6, StartStep, DamageStep
<1> QED
  BY <1>1, <1>2, <1>3, <1>5, <1>6 DEF Next

\* The invariant holds throughout every run.
LEMMA BootInvariant == Spec => []IInv
<1>1. Init => IInv
  BY BootStarts
<1>2. IInv /\ [Next]_vars => IInv'
  BY BootStep
<1> QED
  BY <1>1, <1>2, PTL DEF Spec

\* Type correctness of the writer and the reader of the index file, for any
\* files, layouts and numbers of builds and of damaged words.
THEOREM BootTypeCorrect == Spec => []BootTypeOK
<1>1. IInv => BootTypeOK
  <2> SUFFICES ASSUME IInv PROVE BootTypeOK
    OBVIOUS
  <2>1. rd.pos = 0 <=> rd = NothingRead
    <3>1. ASSUME rd.pos = 0 PROVE rd = NothingRead
      <4>1. rd \in [pos : Nat, nums : Seq(Nat), slices : Seq(Seq(AnyWord))]
            /\ Len(rd.nums) = 0 /\ rd.slices = <<>>
        BY <3>1 DEF IInv, ReadTypes
      <4>2. rd.nums = <<>>
        BY <4>1
      <4> QED
        BY <3>1, <4>1, <4>2 DEF NothingRead
    <3> QED
      BY <3>1 DEF NothingRead
  <2>2. Len(rd.nums) <= 2 /\ Len(rd.slices) <= 5
    <3>1. Len(rd.nums) \in {0, 1, 2}
      BY DEF IInv, ReadTypes
    <3>2. \A l \in {0, 1, 2} : l <= 2
      OBVIOUS
    <3>3. Len(rd.nums) <= 2
      BY <3>1, <3>2
    <3> QED
      BY <3>3 DEF IInv, ReadTypes
  <2> QED
    BY <2>1, <2>2 DEF IInv, TypeInv, BootTypeOK
<1> QED
  BY <1>1, BootInvariant, PTL

\* An index LoadIndex returns from a file neither damaged nor created anew under
\* it is one that some Save wrote to its end, however the writes of one process
\* fall between the reads of the other; one built from the references has all of
\* their records, in order.
THEOREM ServesBuilt == Spec => []ServesWhatWasBuilt
<1>1. IInv => ServesWhatWasBuilt
  <2> SUFFICES ASSUME IInv, api = "ready", noise = 0, ~torn
               PROVE  IF refs = Nil THEN served \in saved
                      ELSE /\ refs # <<>> /\ refs[Len(refs)] \in Records \cup {"open", "close"}
                           /\ \E nl \in NLists, at \in [1..served.n -> Places(refs)] :
                                /\ \A k \in 2..served.n : at[k - 1] < at[k]
                                /\ \A i \in Places(refs) : \E k \in 1..served.n : at[k] = i
                                /\ served = IndexOf([k \in 1..served.n |-> refs[at[k]]], nl)
    BY DEF ServesWhatWasBuilt
  <2>1. CASE refs = Nil
    BY <2>1 DEF IInv, PhaseInv
  <2>2. CASE refs # Nil
    <3>1. PICK nl \in NLists : Load(refs).ok /\ served = IndexOf(Load(refs).recs, nl)
      BY <2>2 DEF IInv, PhaseInv
    <3>2. refs \in ApiFiles
      BY <2>2 DEF IInv, TypeInv
    <3>3. refs # <<>> /\ refs[Len(refs)] \in Records \cup {"open", "close"}
      BY <3>1, <3>2, LoadFacts
    <3>4. PICK n \in Nat :
            /\ Load(refs).recs = [k \in 1..n |-> refs[2 * k]]
            /\ \A k \in 1..n : 2 * k <= Len(refs) /\ refs[2 * k] \in Records
            /\ \A i \in 1..Len(refs) : refs[i] \in Records => \E k \in 1..n : i = 2 * k
      BY <3>1, <3>2, LoadFacts
    <3>5. Load(refs).recs \in Seq(Records) /\ Len(Load(refs).recs) = n
      BY <3>4
    <3>6. served.n = n
      BY <3>1, <3>5, BuiltIsIndex
    <3>7. refs \in Seq(Pieces) /\ DOMAIN refs = 1..Len(refs) /\ Len(refs) \in Nat
      BY <3>2, FilesAssumption
    <3> DEFINE at == [k \in 1..n |-> 2 * k]
    <3>8. at \in [1..n -> Places(refs)]
      <4>1. \A k \in 1..n : 2 * k \in 1..Len(refs)
        BY <3>4, <3>7
      <4> QED
        BY <3>4, <3>7, <4>1 DEF Places
    <3>9. \A k \in 2..n : at[k - 1] < at[k]
      <4> TAKE k \in 2..n
      <4>1. k \in 1..n /\ k - 1 \in 1..n /\ 2 * (k - 1) < 2 * k
        BY <3>4
      <4> QED
        BY <4>1
    <3>10. \A i \in Places(refs) : \E k \in 1..n : at[k] = i
      BY <3>4, <3>7 DEF Places
    <3>11. [k \in 1..n |-> refs[at[k]]] = Load(refs).recs
      BY <3>4
    <3> HIDE DEF at
    <3>12. served = IndexOf([k \in 1..served.n |-> refs[at[k]]], nl)
      BY <3>1, <3>6, <3>11
    <3>13. at \in [1..served.n -> Places(refs)]
      BY <3>6, <3>8
    <3>14. /\ \A k \in 2..served.n : at[k - 1] < at[k]
           /\ \A i \in Places(refs) : \E k \in 1..served.n : at[k] = i
      BY <3>6, <3>9, <3>10
    <3> QED
      BY <2>2, <3>1, <3>3, <3>12, <3>13, <3>14, Zenon
  <2> QED
    BY <2>1, <2>2
<1> QED
  BY <1>1, BootInvariant, PTL

\* The goroutine ends ready, or exits for references it cannot load, or panics on
\* a file damaged or rewritten under it: a part of a file, however it came to be
\* one, never ends the process.
THEOREM EndsSettled == Spec => [](api \in {"ready", "exited", "crashed"} => Settled)
<1>1. IInv => (api \in {"ready", "exited", "crashed"} => Settled)
  BY DEF IInv, PhaseInv, Settled
<1> QED
  BY <1>1, BootInvariant, PTL
=============================================================================
