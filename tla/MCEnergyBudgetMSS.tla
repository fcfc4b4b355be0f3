------------------------- MODULE MCEnergyBudgetMSS -------------------------
(* Every non-decreasing curve over four GPU counts, every small request.   *)
EXTENDS AdmittedRun

MCCurves == {c \in [1..MaxGpus -> 0..3] : \A g \in 1..(MaxGpus - 1) : c[g] <= c[g + 1]}
MCProfiles == {[g \in 1..MaxGpus |-> 1], [g \in 1..MaxGpus |-> 1 + (g % 2)], [g \in 1..MaxGpus |-> MaxGpus + 1 - g]}
MCCleanSets == {1..MaxGpus, 2..MaxGpus, {1, MaxGpus}, {}}
=============================================================================
