----------------------------- MODULE MCWatcher -----------------------------
(***************************************************************************)
(* Instances of ResourceWatcher for TLC: a text that reads the main object *)
(* only, one that reads aux too, and one that does not parse.              *)
(***************************************************************************)
EXTENDS ResourceWatcher

CONSTANTS a, d1, d2, plain, deep, broken
=============================================================================
