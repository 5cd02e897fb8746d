------------------------------- MODULE MCBuild -------------------------------
(***************************************************************************)
(* Build over seven datasets, three cells per bucket, two iterations on a    *)
(* sample of at most four rows, and two or three goroutines once a bucket  *)
(* has four rows.                                                          *)
(***************************************************************************)
EXTENDS MCData

\* One transaction again and again: a cell of more than one chunk.
Repeated == [i \in 1..8 |-> IF i = 5 THEN Row(90, 0, 0, 0, 0, 0, FALSE)
                            ELSE Row(6, 0, 0, 0, 0, 0, i % 2 = 0)]

MCDatasets == {Spread, AllNull, Mixed, Few, Ties, Repeated, <<>>}
=============================================================================
