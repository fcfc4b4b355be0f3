------------------------- MODULE MCEnergyAwareLoop -------------------------
(* Small instances of the control loop.                                    *)
EXTENDS EnergyAwareLoop, TLC

CONSTANTS j1, j2

MCThroughput == [g \in CurveGpus |-> g]
MCLayers == [j \in Jobs |-> IF j = j1 THEN 3 ELSE 4]
DeepLayers == [j \in Jobs |-> 4]
UnevenLayers == [j \in Jobs |-> IF j = j1 THEN 1 ELSE 4]
Symmetry == Permutations(Jobs)
=============================================================================
