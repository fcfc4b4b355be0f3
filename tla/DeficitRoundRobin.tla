------------------------- MODULE DeficitRoundRobin -------------------------
(***************************************************************************)
(* pick() of the weighted round robin schedulers, shared by WRRScheduler   *)
(* and EnergyAwareWRR.  Weights and deficits are multiples of 1/Unit, so a *)
(* node is due when its deficit reaches Unit.  Nodes are numbered in the   *)
(* order of the scheduler's list.                                          *)
(***************************************************************************)
EXTENDS Integers

CONSTANTS
  N,          (* number of nodes of the stage                               *)
  Capacity,   (* capacity_flops of each node                                *)
  Unit        (* common denominator of the weights                          *)

Nodes == 1..N
NoNode == 0

ASSUME RoundRobinAssumption ==
  N \in Nat \ {0} /\ Capacity \in [Nodes -> Nat \ {0}] /\ Unit \in Nat \ {0}

Credited(deficit, weights) == [n \in Nodes |-> deficit[n] + weights[n]]

\* max() returns the first of equals.
Richest(deficit) ==
  CHOOSE n \in Nodes : \A m \in Nodes :
    deficit[m] < deficit[n] \/ (deficit[m] = deficit[n] /\ n <= m)

\* Slip: a deficit of exactly one is not enough.
PickLate(deficit, weights) ==
  LET credited == Credited(deficit, weights)
  IN  IF credited[Richest(credited)] <= Unit THEN NoNode ELSE Richest(credited)

Pick(deficit, weights) ==
  LET credited == Credited(deficit, weights)
  IN  IF credited[Richest(credited)] < Unit THEN NoNode ELSE Richest(credited)

\* Slip: the node that is picked starts again from nothing.
AfterPickCleared(deficit, weights) ==
  [n \in Nodes |-> IF n = Pick(deficit, weights) THEN 0
                   ELSE Credited(deficit, weights)[n]]

\* Slip: the node that is picked is not charged.
AfterPickUncharged(deficit, weights) == Credited(deficit, weights)

\* A pick that finds nobody due keeps all credit.
AfterPick(deficit, weights) ==
  [n \in Nodes |-> IF n = Pick(deficit, weights)
                   THEN Credited(deficit, weights)[n] - Unit
                   ELSE Credited(deficit, weights)[n]]
=============================================================================
