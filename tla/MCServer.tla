------------------------------ MODULE MCServer ------------------------------
(***************************************************************************)
(* Server with two request slots, two buffers, a well-formed body and a    *)
(* malformed one, and one setter.                                          *)
(***************************************************************************)
EXTENDS Server
=============================================================================
