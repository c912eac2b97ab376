----------------------------- MODULE MCRootsGc -----------------------------
(***************************************************************************)
(* Instances of RootsGc for TLC: one workspace, one data object, and two   *)
(* manifests that both name it, as the snapshots of two trees with one     *)
(* file's content in common do.                                            *)
(*                                                                         *)
(* A behaviour is of one of three scenes, which bound different things:    *)
(* "collect" has every operation, over one manifest and one incarnation of *)
(* the workspace; "share" has both manifests and no passes; "again" has    *)
(* two incarnations, and a client that only seals, at the first attempt.   *)
(***************************************************************************)
EXTENDS RootsGc, TLC

CONSTANTS c1, c2, a, ma, mb, w1

VARIABLE scene

MCRefs == (ma :> {a}) @@ (mb :> {a})

\* One client commits, seals, pulls and pushes; the other commits to the same
\* head and collects.
MCRoles == (c1 :> {"commit", "seal", "adopt", "push"})
             @@ (c2 :> {"commit", "collect"})

Scenes == {"collect", "share", "again"}

\* What a scene leaves out.
Plays ==
  /\ scene # "share" => mb \notin resident'
  /\ scene = "share" => epoch' = 0 /\ \A c \in Clients : pc'[c] \notin GcPcs
  /\ scene = "again" => /\ pc'[c1] \in {"idle"} \cup SealPcs
                        /\ attempt'[c1] <= 1 /\ orphan'[w1] = {}
  /\ scene # "again" => created'[w1] <= 1

MCInit == Init /\ scene \in Scenes
MCNext == Next /\ Plays /\ UNCHANGED scene
MCSpec == MCInit /\ [][MCNext]_<<vars, scene>>
=============================================================================
