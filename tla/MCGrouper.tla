----------------------------- MODULE MCGrouper -----------------------------
(***************************************************************************)
(* Grouper with two emitters and two groups.                               *)
(***************************************************************************)
EXTENDS Grouper
=============================================================================
