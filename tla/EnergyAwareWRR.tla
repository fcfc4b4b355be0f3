--------------------------- MODULE EnergyAwareWRR ---------------------------
(***************************************************************************)
(* EnergyAwareWRR: deficit round robin whose weights follow the telemetry  *)
(* (iterations per joule), derated by a PowerSlackGuard and refreshed      *)
(* every RefreshPeriod picks, while the telemetry changes on its own.      *)
(***************************************************************************)
EXTENDS DeficitRoundRobin, Functions

CONSTANTS
  Efficiencies,   (* iterations per joule a node may show; 0: none usable   *)
  Derate,         (* derate_factor in halves: 0, 1 or 2                     *)
  RefreshPeriod,  (* refresh_period                                         *)
  MaxPicks        (* bound on the number of picks                           *)

ASSUME SchedulerAssumption ==
  /\ Efficiencies \subseteq Nat
  /\ Derate \in 0..2
  /\ RefreshPeriod \in Nat \ {0} /\ MaxPicks \in Nat

Samples == [efficiency: Efficiencies, saturated: BOOLEAN]

\* w_j = x_j / sum, in units; all zero when nothing has any weight.  The
\* instances choose Unit so that the division is exact.
Normalised(raw) ==
  IF SumFunction(raw) = 0 THEN raw
  ELSE [n \in Nodes |-> (Unit * raw[n]) \div SumFunction(raw)]

\* energy_weights_for_stage before it normalises.
EnergyRaw(telemetry) ==
  [n \in Nodes |-> IF telemetry[n].efficiency > 0 THEN telemetry[n].efficiency
                                                  ELSE Capacity[n]]

\* PowerSlackGuard.apply before it normalises.
Guarded(raw, telemetry) ==
  [n \in Nodes |-> IF telemetry[n].saturated THEN Derate * raw[n] ELSE 2 * raw[n]]

\* Slip: no fallback when the guard excludes every node.
WeightsStuck(telemetry) == Normalised(Guarded(EnergyRaw(telemetry), telemetry))

\* _refresh_weights: FLOPS weights when the guard excludes every node.
Weights(telemetry) ==
  LET guarded == Guarded(EnergyRaw(telemetry), telemetry)
  IN  IF SumFunction(guarded) = 0 THEN Normalised(Capacity) ELSE Normalised(guarded)

(* Unit makes every division of Normalised exact: the weights share it out,   *)
(* as the code's fractions share out one (:84-87, :153-156).                  *)
ExactWeights ==
  \A shown \in [Nodes -> Samples] : SumFunction(Weights(shown)) = Unit

VARIABLES
  telemetry,   (* what telemetry_source returns now                         *)
  weights,     (* _weights                                                  *)
  since,       (* _ticks_since_refresh                                      *)
  deficit,     (* deficit                                                   *)
  picks,       (* history: how often each node was picked                   *)
  earned,      (* history: all the weight each node was ever credited       *)
  calls        (* history: calls of pick()                                  *)

wrrVars == <<telemetry, weights, since, deficit, picks, earned, calls>>

WrrInit ==
  /\ telemetry \in [Nodes -> Samples]
  /\ weights = Weights(telemetry)
  /\ since = 0
  /\ deficit = [n \in Nodes |-> 0]
  /\ picks = [n \in Nodes |-> 0]
  /\ earned = [n \in Nodes |-> 0]
  /\ calls = 0

\* The sidecar scrapes another sample of one node.
Scrape(n) ==
  /\ \E sample \in Samples : telemetry' = [telemetry EXCEPT ![n] = sample]
  /\ UNCHANGED <<weights, since, deficit, picks, earned, calls>>

\* The weights this pick works with.
Refreshes == since + 1 >= RefreshPeriod
PickWeights == IF Refreshes THEN Weights(telemetry) ELSE weights

Dispatch ==
  /\ calls < MaxPicks
  /\ calls' = calls + 1
  /\ weights' = PickWeights
  /\ since' = IF Refreshes THEN 0 ELSE since + 1
  /\ deficit' = AfterPick(deficit, PickWeights)
  /\ picks' = [n \in Nodes |-> IF n = Pick(deficit, PickWeights) THEN picks[n] + 1
                                                                 ELSE picks[n]]
  /\ earned' = Credited(earned, PickWeights)
  /\ UNCHANGED telemetry

WrrNext == Dispatch \/ \E n \in Nodes : Scrape(n)

WrrSpec == WrrInit /\ [][WrrNext]_wrrVars

-----------------------------------------------------------------------------
(* No node is picked more often than the weights it was given earned it       *)
(* (inter_batch.py:248-253).                                                  *)
NeverOverpaid == \A n \in Nodes : picks[n] * Unit <= earned[n]

(* However the weights were refreshed in between, a node has been picked as   *)
(* often as its weights earned it, short of at most N - 1 picks               *)
(* (inter_batch.py:244-254): never more, and never starved.                   *)
PaidWhatEarned ==
  NeverOverpaid /\ \A n \in Nodes : earned[n] - picks[n] * Unit <= (N - 1) * Unit

(* Over the scheduler's whole life fewer than N picks find nobody due, also   *)
(* when every node is saturated (:237-240, :250-252).                         *)
FewEmptyPicks == calls - SumFunction(picks) < N
=============================================================================
