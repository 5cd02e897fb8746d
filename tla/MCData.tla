------------------------------- MODULE MCData -------------------------------
(***************************************************************************)
(* The datasets the runs build an index from.  With G = 50 and Sub = 2 the *)
(* value 1.0 is the integer 100 and odd values lie between two codes.      *)
(***************************************************************************)
EXTENDS Build

\* A vector: amount, minutes and km since the last transaction, the three flags.
V(amount, min, km, on, cp, um) ==
  [i \in Dim |-> CASE i = 0 -> amount [] i = 5 -> min [] i = 6 -> km
                   [] i = 9 -> on [] i = 10 -> cp [] i = 11 -> um [] OTHER -> 0]

Row(amount, min, km, on, cp, um, fraud) == Added(V(amount, min, km, on, cp, um), fraud)

\* Three buckets, more rows than candidates, both labels in each.
Spread == <<
  Row(0, 10, 10, 0, 0, 0, FALSE), Row(10, 10, 10, 0, 0, 0, TRUE),
  Row(20, 20, 10, 0, 0, 0, FALSE), Row(20, 10, 30, 0, 0, 0, TRUE),
  Row(60, 10, 10, 0, 0, 0, TRUE), Row(100, 90, 80, 0, 0, 0, FALSE),
  Row(0, 10, 10, 0, 0, 100, TRUE), Row(20, 10, 10, 0, 0, 100, FALSE),
  Row(90, 10, 10, 0, 0, 100, TRUE), Row(10, 10, 10, 100, 0, 0, TRUE),
  Row(10, 0, 10, 100, 100, 0, FALSE)>>

\* Nobody has a last transaction.
AllNull == <<
  Row(0, Null, Null, 0, 0, 0, FALSE), Row(30, Null, Null, 0, 0, 0, TRUE),
  Row(32, Null, Null, 0, 0, 0, TRUE), Row(80, Null, Null, 0, 0, 0, FALSE),
  Row(30, Null, Null, 0, 0, 100, TRUE), Row(34, Null, Null, 0, 0, 100, FALSE),
  Row(36, Null, Null, 100, 0, 0, TRUE), Row(100, Null, Null, 100, 0, 0, FALSE)>>

\* A sparse home bucket, a crowd without a last transaction, and two rows one
\* flag away.
Mixed == <<
  Row(0, 0, 0, 0, 0, 0, FALSE), Row(4, 0, 0, 0, 0, 0, FALSE), Row(8, 0, 0, 0, 0, 0, TRUE),
  Row(0, Null, Null, 0, 0, 0, TRUE), Row(2, Null, Null, 0, 0, 0, TRUE),
  Row(4, Null, Null, 0, 0, 0, TRUE), Row(6, Null, Null, 0, 0, 0, TRUE),
  Row(8, Null, Null, 0, 0, 0, TRUE), Row(10, Null, Null, 0, 0, 0, TRUE),
  Row(0, 0, 0, 0, 0, 100, FALSE), Row(4, 0, 0, 0, 0, 100, FALSE)>>

\* Fewer rows than candidates, close together.
Few == <<
  Row(30, 10, 10, 0, 0, 0, TRUE), Row(32, 10, 10, 0, 0, 0, FALSE),
  Row(32, 12, 10, 0, 0, 0, TRUE), Row(30, 10, 10, 100, 0, 0, TRUE),
  Row(36, 10, 10, 0, 0, 0, TRUE)>>

\* Rows at the same distance of two seeds, and duplicates of one row.
Ties == <<
  Row(0, 10, 10, 0, 0, 0, FALSE), Row(50, 10, 10, 0, 0, 0, TRUE), Row(100, 10, 10, 0, 0, 0, TRUE),
  Row(50, 10, 10, 0, 0, 0, FALSE), Row(25, 10, 10, 0, 0, 0, TRUE), Row(100, 10, 10, 100, 100, 100, FALSE),
  Row(75, 10, 10, 0, 0, 0, FALSE)>>
=============================================================================
