------------------------------- MODULE MCSync -------------------------------
(***************************************************************************)
(* The instances of Sync for TLC: a closure whose first and last objects   *)
(* need a pack each and whose second is a blob of two parts.               *)
(***************************************************************************)
EXTENDS Sync

Lengths == <<1, 2, 1>>
=============================================================================
