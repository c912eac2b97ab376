------------------------------ MODULE MCLayout ------------------------------
EXTENDS Layout, TLC

CONSTANTS p, q, s, i1, i2, n1

\* Two projectors against one client that deletes and scrubs.
RaceRoles ==
  p :> {"project"} @@ q :> {"project"} @@ s :> {"scrub", "delete"}

\* A projector and swapper that may die, and a client that deletes and scrubs.
ReapRoles == p :> {"project", "swap"} @@ s :> {"scrub", "delete"}

Projectors == Permutations({p, q})
=============================================================================
