------------------------------- MODULE MCBoot -------------------------------
(***************************************************************************)
(* Boot with one dimension and one bucket, so that a file has sixteen     *)
(* words; buildindex has one of two data sets of a record each, the API    *)
(* one of two records, whole or cut short at any piece.                    *)
(***************************************************************************)
EXTENDS Boot

MCBuilderFiles == {Stream(<<"r1">>), Stream(<<"r2">>)}
MCApiFiles == {Stream(<<"r1", "r2">>)} \cup Cuts(Stream(<<"r1", "r2">>))
=============================================================================
