--------------------------- MODULE MCControlPlane ---------------------------
(* Instances of ControlPlane for TLC. *)
EXTENDS ControlPlane, TLC

CONSTANTS w1, w2, g1, j1, s1

(* A worker reports its GPU, and in MCInventories after a fault none.  Two   *)
(* workers may report the same GPU: nothing keeps UUIDs from repeating across *)
(* hosts.                                                                     *)
MCInventory       == {Gpus}
MCInventories     == {Gpus, {}}
MCFits            == Work \X Gpus
MCPriority        == [x \in Work |-> IF x = j1 THEN 2 ELSE 1]
MCAttempts        == [j \in Jobs |-> 2]
MCInterruptions   == [s \in Sessions |-> 1]
MCNoInterruptions == [s \in Sessions |-> 0]

MCSymmetry == Permutations(Workers)
=============================================================================
