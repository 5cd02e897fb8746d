------------------------------ MODULE MCSplice ------------------------------
(***************************************************************************)
(* Splice with three bytes in each direction and windows of two, so that a *)
(* writer can be blocked by a reader and bytes wait on both sockets.       *)
(***************************************************************************)
EXTENDS Splice
=============================================================================
