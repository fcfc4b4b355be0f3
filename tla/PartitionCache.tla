--------------------------- MODULE PartitionCache ---------------------------
(***************************************************************************)
(* What the control loop relies on in its partition cache for one job, and *)
(* no more: how deep the cached pipeline is and how many times in a row    *)
(* sliding its cuts did not help.  Repartitioning, with the real scores    *)
(* and the tracker, is shown to implement it.                              *)
(***************************************************************************)
EXTENDS Integers

CONSTANTS
  Patience,   (* stagnation_patience                                        *)
  MaxDepth    (* bound on the depth of a pipeline                           *)

VARIABLES
  depth,      (* stages of the cached partition, 0 for none                 *)
  stagnant    (* calls without progress, NoScore before the first call      *)

NoScore == -1

Init == depth = 0 /\ stagnant = NoScore

\* Another depth: planned from nothing, and the history is forgotten.
Rebuild(k) ==
  /\ k # depth
  /\ depth' = k /\ stagnant' = NoScore

Progress == depth # 0 /\ stagnant' = 0 /\ UNCHANGED depth

\* The first call of a history always counts as progress.
NoProgress ==
  /\ stagnant # NoScore /\ stagnant + 1 < Patience
  /\ stagnant' = stagnant + 1 /\ UNCHANGED depth

\* After Patience calls without progress the plan is made from nothing; only
\* when that is impossible does the count stay where it is.
Replan ==
  /\ stagnant # NoScore /\ stagnant + 1 >= Patience
  /\ stagnant' \in {0, Patience} /\ UNCHANGED depth

Next == (\E k \in 2..MaxDepth : Rebuild(k)) \/ Progress \/ NoProgress \/ Replan

Spec == Init /\ [][Next]_<<depth, stagnant>>
=============================================================================
