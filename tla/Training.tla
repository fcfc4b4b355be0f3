------------------------------ MODULE Training ------------------------------
(***************************************************************************)
(* What a pause is to leave of a training job: nothing.  The weights, the  *)
(* optimiser's momentum and the data have always seen the same iterations  *)
(* of the same run, and their number only grows until a run begins anew.   *)
(***************************************************************************)
EXTENDS Integers

VARIABLES run, weights, momentum, data

trainingVars == <<run, weights, momentum, data>>

Init == run \in Nat /\ weights = 0 /\ momentum = 0 /\ data = 0

Train ==
  /\ weights' > weights /\ weights' - weights = momentum' - momentum
  /\ momentum' = data' /\ weights' = momentum'
  /\ run' = run

Rerun == run' = run + 1 /\ weights' = 0 /\ momentum' = 0 /\ data' = 0

Next == Train \/ Rerun

Spec == Init /\ [][Next]_trainingVars
=============================================================================
