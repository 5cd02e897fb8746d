------------------------------ MODULE MCEngine ------------------------------
(***************************************************************************)
(* Engine over indexes of up to eleven rows: five cells per bucket, three  *)
(* of them at most in a probe buffer, six candidates for five votes.       *)
(* G = 50 and Sub = 2 make 1.0 the integer 100 and odd components lie      *)
(* between two codes.  The run of the sentinel, which needs an exhaustive  *)
(* search, has three cells per bucket.                                     *)
(***************************************************************************)
EXTENDS Engine, MCData

Env(nprobe, maxScan, high, below, boundary, above, margin, radius) ==
  [nprobe |-> nprobe, maxScan |-> maxScan, high |-> high, below |-> below,
   boundary |-> boundary, above |-> above, margin |-> margin, radius |-> radius]

Defaults == Env(0, 0, 0, 0, 0, 0, 0, 0)

Uncapped == {
  Env(1, 0, 3, 3, 3, 3, 1, 9800),    \* the deployed shape: margin gate, wide escalation
  Env(1, 0, 2, 3, 0, 1, 2, 9800),    \* one knob per vote, one of them off
  Env(2, 0, 9, 9, 9, 9, -1, 500),    \* radius gate, knobs beyond nlist
  Defaults}

Capped == {
  Env(2, 2, 3, 3, 3, 3, 3, 9800),    \* the cap bites inside the home bucket
  Env(3, 7, 0, 0, 0, 0, 1, 9800)}    \* the cap bites between buckets

AllKnobs == Uncapped \cup Capped

\* A home bucket with as many near rows as vote and the others far, and a bucket
\* one flag away whose rows lie between.
Lopsided == <<
  Row(0, 10, 10, 0, 0, 0, FALSE), Row(100, 80, 10, 0, 0, 0, TRUE), Row(90, 90, 10, 0, 0, 0, TRUE),
  Row(100, 90, 30, 0, 0, 0, FALSE), Row(0, 10, 10, 0, 0, 0, TRUE), Row(2, 10, 10, 0, 0, 0, FALSE),
  Row(0, 12, 10, 0, 0, 0, TRUE), Row(0, 10, 10, 0, 0, 0, TRUE),
  Row(0, 10, 10, 0, 0, 100, FALSE), Row(40, 10, 10, 0, 0, 100, TRUE), Row(90, 10, 10, 0, 0, 100, TRUE)>>

AllDatasets == {Spread, AllNull, Mixed, Few, Ties, Lopsided, <<>>}
MixedData == {Mixed}

MCQueries == {V(20, 10, 10, 0, 0, 0), V(31, 11, 10, 0, 0, 0), V(90, 10, 10, 0, 0, 100),
              V(33, Null, Null, 0, 0, 0), V(30, Null, Null, 0, 0, 100), V(0, 0, 0, 0, 0, 0),
              V(12, 4, 10, 100, 0, 0)}

\* Queries on the grid with a last transaction: neither rounding nor the
\* sentinel of the query itself plays a part.
GridQueries == {V(20, 10, 10, 0, 0, 0), V(90, 10, 10, 0, 0, 100), V(0, 0, 0, 0, 0, 0)}
=============================================================================
