------------------------------- MODULE MCTopK -------------------------------
(***************************************************************************)
(* TopK at capacity 3 with up to 6 offers of 4 distances: enough for ties  *)
(* inside the buffer, ties at its last slot, and twice Cap offers.         *)
(***************************************************************************)
EXTENDS TopK

MCDists == 0..3
=============================================================================
