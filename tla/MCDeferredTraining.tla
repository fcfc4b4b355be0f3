------------------------ MODULE MCDeferredTraining ------------------------
(* Clean, borderline and dirty hours in several orders: the second schedule *)
(* never pauses at threshold 2, the last always does at threshold 1.        *)
EXTENDS DeferredTraining

MCSchedules == {<<1, 3, 2>>, <<2, 1>>, <<3, 3, 2>>, <<3, 2, 3, 1>>}
=============================================================================
