--------------------------- MODULE DeadlineFloor ---------------------------
(***************************************************************************)
(* The deadline floor the control loop re-evaluates for a job on every     *)
(* tick (DeadlineFloorSelector.evaluate), over one scaling curve.  A       *)
(* minimum satisfactory share is stated as the smallest GPU count that     *)
(* meets the deadline: Scheduling_proofs!SearchFindsSmallest is the        *)
(* theorem that this is what the binary search returns.                    *)
(***************************************************************************)
EXTENDS Integers

CONSTANTS
  CurveMax,         (* length of the scaling curve                          *)
  Throughput,       (* iterations per unit of time on 1..CurveMax GPUs      *)
  MinFloor,         (* DeadlineFloorSelector.min_gpus                       *)
  InfeasibleFloor   (* DeadlineFloorSelector.infeasible_floor               *)

CurveGpus == 1..CurveMax

ASSUME CurveAssumption ==
  /\ CurveMax \in Nat \ {0}
  /\ Throughput \in [CurveGpus -> Nat]
  /\ \A g, h \in CurveGpus : g <= h => Throughput[g] <= Throughput[h]
ASSUME FloorAssumption ==
  MinFloor \in CurveGpus /\ InfeasibleFloor \in Nat \ {0}

Larger(a, b) == IF a >= b THEN a ELSE b
Smaller(a, b) == IF a <= b THEN a ELSE b

Satisfying(left, secs) == {g \in CurveGpus : Throughput[g] * secs >= left}

\* 0 when no allocation meets the deadline; left and secs are positive here.
MinimumShare(left, secs) ==
  LET meets == Satisfying(left, secs)
  IN  IF meets = {} THEN 0 ELSE CHOOSE g \in meets : \A h \in meets : g <= h

\* Slip: a job that cannot meet its deadline is left at the minimum.
FloorGivesUp(left, secs) ==
  LET share == MinimumShare(left, secs)
  IN  IF left <= 0 \/ secs <= 0 \/ share = 0 THEN MinFloor ELSE Larger(MinFloor, share)

\* evaluate(): the four returns, in order.
Floor(left, secs) ==
  LET share == MinimumShare(left, secs)
  IN  IF left <= 0 THEN MinFloor
      ELSE IF secs <= 0 \/ share = 0 THEN Smaller(InfeasibleFloor, CurveMax)
      ELSE Larger(MinFloor, share)
=============================================================================
