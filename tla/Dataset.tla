------------------------------- MODULE Dataset -------------------------------
(***************************************************************************)
(* dataset.Load of internal/dataset: the references are one JSON array,    *)
(* decoded as a stream of values.  A file is the sequence of its JSON      *)
(* pieces, a record being one piece; a file cut short inside a record ends *)
(* with the piece "half".  What a record holds is module Build's business. *)
(***************************************************************************)
EXTENDS Sequences, Naturals

CONSTANTS Records      \* the records a dataset may hold

ASSUME DatasetAssumption == Records \cap {"open", "comma", "close", "half"} = {}

\* The brackets of the array, the commas and the records between them.
Pieces == Records \cup {"open", "comma", "close", "half"}

\* A file as whoever generates the dataset writes it.
Stream(recs) ==
  <<"open">> \o [i \in 1..(IF recs = <<>> THEN 0 ELSE 2 * Len(recs) - 1) |->
               IF i % 2 = 1 THEN recs[(i + 1) \div 2] ELSE "comma"] \o <<"close">>

\* The files a transfer that stops early leaves of it: the first k pieces, and
\* possibly the start of the record that comes next.
Cuts(s) ==
  {SubSeq(s, 1, k) : k \in 0..(Len(s) - 1)}
  \cup {Append(SubSeq(s, 1, k), "half") : k \in {j \in 1..(Len(s) - 1) : s[j + 1] \in Records}}

Refused == [ok |-> FALSE, recs |-> <<>>]

Loaded(recs) == [ok |-> TRUE, recs |-> recs]

\* Decoder.More: something follows and it is not the closing bracket.  The end
\* of the file, or an error of gzip, is "no more" too.
More(s, i) == i <= Len(s) /\ s[i] # "close"

\* Decoder.Decode at piece i, the comma that separates two values included.
RecordAt(s, i) == IF s[i] = "comma" THEN i + 1 ELSE i

CanDecode(s, i) ==
  /\ (s[i] = "comma") <=> (i > 2)
  /\ RecordAt(s, i) <= Len(s) /\ s[RecordAt(s, i)] \in Records

\* Where the loop asks for More after k records.
At(k) == IF k = 0 THEN 2 ELSE 2 * k + 1

\* The loop can decode and Add k records.
Decodes(s, k) == \A j \in 0..(k - 1) : More(s, At(j)) /\ CanDecode(s, At(j))

\* It ends where More is false; any error before that gives up.
Ends(s) == {k \in 0..Len(s) : Decodes(s, k) /\ ~More(s, At(k))}

Load(s) ==
  IF s = <<>> \/ Ends(s) = {} THEN Refused
  ELSE Loaded([j \in 1..(CHOOSE k \in Ends(s) : TRUE) |-> s[RecordAt(s, At(j - 1))]])
=============================================================================
