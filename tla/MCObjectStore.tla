---------------------------- MODULE MCObjectStore ----------------------------
(* Instances of ObjectStore: two writers, one or two byte strings. *)
EXTENDS ObjectStore, TLC

CONSTANTS w1, w2, d1, d2

Alike == Permutations({w1, w2})
=============================================================================
