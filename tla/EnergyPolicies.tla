--------------------------- MODULE EnergyPolicies ---------------------------
(***************************************************************************)
(* The decide() of the energy policies, as operators from the job's width, *)
(* the class of the live sample and the policy's own memory to a decision. *)
(* A power-aware sample is a class of joules per iteration ("above",       *)
(* "below" or between the thresholds, "none" without telemetry) or "dirty" *)
(* when the carbon gate trips; a rule-based sample a class of intensity.   *)
(***************************************************************************)
EXTENDS Integers

CONSTANTS
  MinGpus,      (* the policy's min_gpus                                    *)
  MaxGpus,      (* the policy's max_gpus                                    *)
  Hysteresis    (* PowerAwareRulePolicy.hysteresis_ticks                    *)

ASSUME PolicyAssumption ==
  /\ MinGpus \in Nat \ {0}
  /\ MaxGpus \in Nat /\ MinGpus <= MaxGpus
  /\ Hysteresis \in Nat \ {0}

AtLeast(floor, n) == IF n >= floor THEN n ELSE floor
AtMost(cap, n) == IF n <= cap THEN n ELSE cap

Reasons == {"hold", "carbon", "inefficient", "efficient", "pause", "steered"}

PolicyKinds == {"power_aware", "rule_based", "steering"}
PowerSamples == {"dirty", "none", "above", "below", "band"}
IntensitySamples == {"pause", "high", "low", "mid"}
Samples(kind) ==
  IF kind = "power_aware" THEN PowerSamples
  ELSE IF kind = "rule_based" THEN IntensitySamples ELSE {"any"}

Decision(target, reason, above, below) ==
  [target |-> target, pause |-> reason = "pause", reason |-> reason,
   above |-> above, below |-> below]

\* Slip: the width follows one tick early.
PowerAwareHasty(cur, sample, above, below) ==
  IF sample = "dirty" THEN Decision(AtLeast(MinGpus, cur \div 2), "carbon", 0, 0)
  ELSE IF sample = "above" THEN
         IF above + 2 >= Hysteresis
         THEN Decision(AtLeast(MinGpus, cur - 1), "inefficient", 0, 0)
         ELSE Decision(cur, "hold", above + 1, 0)
  ELSE IF sample = "below" THEN
         IF below + 1 >= Hysteresis
         THEN Decision(AtMost(MaxGpus, cur + 1), "efficient", 0, 0)
         ELSE Decision(cur, "hold", 0, below + 1)
  ELSE Decision(cur, "hold", 0, 0)

\* PowerAwareRulePolicy.decide, return by return; above and below are its two
\* tick counters.
PowerAware(cur, sample, above, below) ==
  IF sample = "dirty" THEN Decision(AtLeast(MinGpus, cur \div 2), "carbon", 0, 0)
  ELSE IF sample = "above" THEN
         IF above + 1 >= Hysteresis
         THEN Decision(AtLeast(MinGpus, cur - 1), "inefficient", 0, 0)
         ELSE Decision(cur, "hold", above + 1, 0)
  ELSE IF sample = "below" THEN
         IF below + 1 >= Hysteresis
         THEN Decision(AtMost(MaxGpus, cur + 1), "efficient", 0, 0)
         ELSE Decision(cur, "hold", 0, below + 1)
  ELSE Decision(cur, "hold", 0, 0)

\* RuleBasedPolicy.decide; it has no memory.
RuleBased(cur, sample, above, below) ==
  IF sample = "pause" THEN Decision(MinGpus, "pause", above, below)
  ELSE IF sample = "high"
       THEN Decision(AtLeast(MinGpus, cur \div 2), "carbon", above, below)
  ELSE IF sample = "low"
       THEN Decision(AtMost(MaxGpus, AtLeast(MinGpus + 1, cur * 2)), "carbon", above, below)
  ELSE Decision(cur, "hold", above, below)

\* MPCPolicy and OnlinePrimalDualPolicy pick the cheapest width of their action
\* set; which one is cheapest is left open here.
Steering(above, below) == {Decision(g, "steered", above, below) : g \in MinGpus..MaxGpus}

\* _invoke_policy: dispatch on the policy's type.
Decisions(kind, cur, sample, above, below) ==
  IF kind = "power_aware" THEN {PowerAware(cur, sample, above, below)}
  ELSE IF kind = "rule_based" THEN {RuleBased(cur, sample, above, below)}
  ELSE Steering(above, below)
=============================================================================
