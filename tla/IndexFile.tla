------------------------------ MODULE IndexFile ------------------------------
(***************************************************************************)
(* The index file of internal/index/serialize.go: what Save writes and how *)
(* LoadIndex takes it apart.  A word is one header, one number or one      *)
(* element of a slice; its width in bytes is left out.  An element says    *)
(* which slice of which build it belongs to.                               *)
(***************************************************************************)
EXTENDS Naturals, Sequences

CONSTANTS Dims,        \* 14
          Buckets,     \* numBuckets: 16
          SimdTailPad, \* 8
          WordBits,    \* bits of a fraud word: 64
          Lengths,     \* what a word that is no number may be read as,
          Huge         \* one of them: a length make() panics on

ASSUME FileAssumption ==
  {Dims, Buckets, SimdTailPad, WordBits} \subseteq Nat \ {0} /\ Lengths \subseteq Nat /\ Huge \in Nat

\* The slices of the body, in file order.
Parts == <<"data", "fraud", "bucketStart", "centroids", "cellStart">>

\* The lengths Build gives them, for n rows in nlist cells per bucket.
Shape(n, nlist) ==
  <<n * Dims + SimdTailPad, (n + WordBits - 1) \div WordBits, Buckets + 1,
    Buckets * nlist * Dims, Buckets * nlist + 1>>

Header == [kind |-> "header", v |-> 0, of |-> <<>>]
Number(v) == [kind |-> "number", v |-> v, of |-> <<>>]
Element(part, i, recs) == [kind |-> part, v |-> i, of |-> recs]
Noise == [kind |-> "noise", v |-> 0, of |-> <<>>]

\* The index Build makes of recs, as LoadIndex hands it over.
IndexOf(recs, nlist) ==
  [n |-> Len(recs), nlist |-> nlist,
   slices |-> [p \in 1..5 |->
     [i \in 1..Shape(Len(recs), nlist)[p] |-> Element(Parts[p], i, recs)]]]

\* A slice after its length.
Slice(x, p) == <<Number(Len(x.slices[p]))>> \o x.slices[p]

\* writeTo: header, n, nlist, and the slices.
Image(x) ==
  <<Header, Number(x.n), Number(x.nlist)>>
  \o Slice(x, 1) \o Slice(x, 2) \o Slice(x, 3) \o Slice(x, 4) \o Slice(x, 5)

\* readU64 and readU32 of a word.
ReadAs(w) == IF w.kind = "number" THEN {w.v} ELSE Lengths \cup {Huge}

\* What readFrom has taken off the file: how many words, n and nlist, and the
\* slices.
NothingRead == [pos |-> 0, nums |-> <<>>, slices |-> <<>>]

AtHeader(r) == r.pos = 0
AtNumber(r) == r.pos \in {1, 2}

AtSliceOrMore(r) == r.pos > 2                     \* mutant: reads past the last slice

AtSlice(r) == r.pos > 2 /\ Len(r.slices) < 5

ReadAll(r) == Len(r.slices) = 5

TakeHeader(r) == [r EXCEPT !.pos = @ + 1]

TakeNumber(r, v) == [r EXCEPT !.pos = @ + 1, !.nums = Append(@, v)]

\* A length, and the elements that follow it in the words ws.
TakeSlice(r, ws, len) ==
  [r EXCEPT !.pos = @ + 1 + len,
            !.slices = Append(@, SubSeq(ws, r.pos + 2, r.pos + 1 + len))]

\* The checks after the last slice; nothing is asked of the fraud words, and
\* nothing may or may not follow.
Consistent(r) ==
  LET shape == Shape(r.nums[1], r.nums[2])
  IN  \A p \in {1, 3, 4, 5} : Len(r.slices[p]) = shape[p]

Taken(r) == [n |-> r.nums[1], nlist |-> r.nums[2], slices |-> r.slices]
=============================================================================
