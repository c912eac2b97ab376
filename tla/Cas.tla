-------------------------------- MODULE Cas --------------------------------
(***************************************************************************)
(* What the object store promises: objects appear and disappear one at a   *)
(* time, an admission is acknowledged only while its object is there, and  *)
(* an acknowledged object leaves only by an explicit removal.  A power     *)
(* loss may take, or bring back, anything that is not acknowledged.        *)
(***************************************************************************)
CONSTANT Digests
VARIABLES resident, promised

Init == resident = {} /\ promised = {}

Install(d) ==
  /\ resident' = resident \cup {d}
  /\ UNCHANGED promised

Acknowledge(d) ==
  /\ d \in resident
  /\ promised' = promised \cup {d}
  /\ UNCHANGED resident

Remove(d) ==
  /\ resident' = resident \ {d}
  /\ promised' = promised \ {d}

PowerLoss(left) ==
  /\ promised \subseteq left
  /\ resident' = left
  /\ UNCHANGED promised

Next ==
  \/ \E d \in Digests : Install(d) \/ Acknowledge(d) \/ Remove(d)
  \/ \E left \in SUBSET Digests : PowerLoss(left)

Spec == Init /\ [][Next]_<<resident, promised>>
=============================================================================
