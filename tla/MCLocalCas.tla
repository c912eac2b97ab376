----------------------------- MODULE MCLocalCas -----------------------------
(* An instance of LocalCas: one process that writes, one that writes,      *)
(* reads and sweeps.                                                       *)
EXTENDS LocalCas, TLC

CONSTANTS c1, c2, x, y, z, main, tree, e1

MCMenu == (c1 :> {"bytes", "adopt", "cas", "project"})
          @@ (c2 :> {"stream", "verify", "cas", "read", "project", "collect",
                     "reap"})
=============================================================================
