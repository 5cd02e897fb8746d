----------------------------- MODULE MCBalancer -----------------------------
(***************************************************************************)
(* Balancer with the two deployed backends and a counter that wraps after  *)
(* four connections.                                                       *)
(***************************************************************************)
EXTENDS Balancer
=============================================================================
