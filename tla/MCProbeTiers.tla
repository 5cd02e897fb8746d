---------------------------- MODULE MCProbeTiers ----------------------------
(***************************************************************************)
(* ProbeTiers with five cells and three distances, so ties are common, and *)
(* an escalated nprobe at the length of the probe arrays.                  *)
(***************************************************************************)
EXTENDS ProbeTiers

MCDists == 0..2
=============================================================================
