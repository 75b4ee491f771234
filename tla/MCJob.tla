------------------------------- MODULE MCJob -------------------------------
(***************************************************************************)
(* Instances of JobProvider for TLC: two contents show an edit.            *)
(***************************************************************************)
EXTENDS JobProvider

CONSTANTS v1, v2
=============================================================================
