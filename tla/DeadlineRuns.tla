---------------------------- MODULE DeadlineRuns ----------------------------
(***************************************************************************)
(* Runs that choose every hour, knowing the carbon intensity, how fast to  *)
(* work until a deadline.                                                  *)
(*                                                                         *)
(* exp_online_deadline: some iterations within some hours, with actions in *)
(* order of throughput and energy per iteration (the fields rate and       *)
(* energy of PrimalChoice): an offline search for the multiplier, the      *)
(* receding-horizon controller that repeats it on noisy forecasts, and the *)
(* greedy policy without any.                                              *)
(*                                                                         *)
(* exp_endtoend_full_stack and exp_endtoend_carbon_loop: epochs of an      *)
(* hour each, trained at the highest or the most economical power cap, or  *)
(* deferred, by one of six policies.                                       *)
(*                                                                         *)
(* rl_env: the environment an agent learns to scale a job in.              *)
(***************************************************************************)
EXTENDS Integers, Sequences, Functions, FiniteSets

-----------------------------------------------------------------------------
(* The two policies that minimise a cost over their widths: MPCPolicy,     *)
(* and OnlinePrimalDualPolicy with its dual variable.  What a policy is    *)
(* set up with is a record; widths count from 1 in its sequences.          *)

\* The width of least cost, the first of equals.
Cheapest(widths, cost(_)) ==
  CHOOSE g \in widths : \A h \in widths : cost(g) < cost(h) \/ (cost(g) = cost(h) /\ g <= h)

NonNegative(n) == IF n > 0 THEN n ELSE 0

-----------------------------------------------------------------------------
(* MPCPolicy.decide.  m has the widths, per width the iterations done over *)
(* the horizon and the seconds an iteration takes, the iterations and time *)
(* that remain, the weights, the energy of a GPU and step, and the latency *)
(* and energy of a switch.                                                 *)

Lag(m, g) == NonNegative(NonNegative(m.remaining - m.done[g]) * m.pace[g] - m.deadline)

\* forecast is the part within the horizon, so its sum is what a GPU emits.
ForecastSum(forecast) == SumFunction(forecast)

\* Slip: what a switch emits is charged to holding the width.
MPCCostSwapped(m, forecast, cur, g) ==
  LET now == IF forecast = <<>> THEN 0 ELSE forecast[1] IN
  m.carbonWeight * (m.power * g * ForecastSum(forecast)
                      + IF g = cur THEN m.switchEnergy * now ELSE 0)
  + m.lagWeight * (Lag(m, g) + IF g = cur THEN 0 ELSE m.switchLatency)

\* Carbon and lag of a constant width, and the price of a switch to it.
MPCCost(m, forecast, cur, g) ==
  LET now == IF forecast = <<>> THEN 0 ELSE forecast[1] IN
  m.carbonWeight * (m.power * g * ForecastSum(forecast)
                      + IF g = cur THEN 0 ELSE m.switchEnergy * now)
  + m.lagWeight * (Lag(m, g) + IF g = cur THEN 0 ELSE m.switchLatency)

MPCDecide(m, forecast, cur) ==
  LET cost(g) == MPCCost(m, forecast, cur, g) IN Cheapest(m.widths, cost)

-----------------------------------------------------------------------------
(* OnlinePrimalDualPolicy.decide.  d has per width the throughput and the  *)
(* energy per iteration, the target rate and the step size eta.            *)

Lagrangian(d, lambda, intensity, g) == (d.energy[g] * intensity - lambda) * d.rate[g]

PrimalChoice(d, lambda, intensity) ==
  LET cost(g) == Lagrangian(d, lambda, intensity, g) IN Cheapest(DOMAIN d.rate, cost)

\* Slip: the step goes the wrong way, so falling behind relaxes the constraint.
DualStepDescending(d, lambda, g) == NonNegative(lambda - d.eta * (d.target - d.rate[g]))

DualStep(d, lambda, g) == NonNegative(lambda + d.eta * (d.target - d.rate[g]))

\* The most that a width costs more than a slower one, per iteration per second,
\* rounded up: beyond it the fastest width wins.
SteepestCost(d) ==
  LET fast == CHOOSE g \in DOMAIN d.rate : \A h \in DOMAIN d.rate : d.rate[h] <= d.rate[g]
      extra(g) == d.energy[fast] * d.rate[fast] - d.energy[g] * d.rate[g]
      per(g) == NonNegative(extra(g)) \div (d.rate[fast] - d.rate[g]) + 1
      slower == {g \in DOMAIN d.rate : d.rate[g] < d.rate[fast]}
  IN  IF slower = {} THEN 0 ELSE CHOOSE n \in {per(g) : g \in slower} :
                                   \A g \in slower : per(g) <= n

\* What the two policies are set up with.
IsForecast(m) ==
  /\ m.widths \subseteq Nat /\ IsFiniteSet(m.widths) /\ m.widths # {}
  /\ {m.done, m.pace} \subseteq [m.widths -> Nat] /\ m.forecast \in Seq(Nat)
  /\ {m.remaining, m.deadline, m.carbonWeight, m.lagWeight, m.power, m.switchLatency,
      m.switchEnergy} \subseteq Nat

IsDual(d) ==
  /\ d.rate \in Seq(Nat) /\ d.rate # <<>> /\ d.energy \in [DOMAIN d.rate -> Nat]
  /\ d.target \in Nat /\ d.eta \in Nat
  /\ d.intensities \subseteq Nat /\ IsFiniteSet(d.intensities) /\ d.intensities # {}

Attainable(d) == \E g \in DOMAIN d.rate : d.rate[g] >= d.target

\* How far the decisions may fall behind the target, over any stretch of them:
\* times eta it is what the dual variable can reach.
DebtBound(d, dirtiest) == dirtiest * SteepestCost(d) + d.eta * d.target

-----------------------------------------------------------------------------

CONSTANT LambdaHi      \* lam_hi; multipliers are counted in units of tol

ASSUME LambdaAssumption == LambdaHi \in Nat \ {0}

-----------------------------------------------------------------------------
(* offline_lp_solve on a trace, for need.num / need.den iterations.        *)

PlanAt(w, trace, lambda) == [t \in DOMAIN trace |-> PrimalChoice(w, lambda, trace[t])]
Done(w, plan) == SumFunction([t \in DOMAIN plan |-> w.rate[plan[t]]])
CostOf(w, trace, plan) ==
  SumFunction([t \in DOMAIN plan |-> w.energy[plan[t]] * w.rate[plan[t]] * trace[t]])

\* Slip: the search keeps the side that falls short.
SearchShort(w, trace, need) ==
  LET enough(lambda) == Done(w, PlanAt(w, trace, lambda)) * need.den >= need.num
      search[ends \in (0..LambdaHi) \X (0..LambdaHi)] ==
        LET lo == ends[1]  hi == ends[2]  mid == (lo + hi) \div 2 IN
        IF hi - lo <= 1 THEN lo
        ELSE IF enough(mid) THEN search[<<lo, mid>>] ELSE search[<<mid, hi>>]
  IN  search[<<0, LambdaHi>>]

\* The least multiplier, within the tolerance, that yields enough.
Search(w, trace, need) ==
  LET enough(lambda) == Done(w, PlanAt(w, trace, lambda)) * need.den >= need.num
      search[ends \in (0..LambdaHi) \X (0..LambdaHi)] ==
        LET lo == ends[1]  hi == ends[2]  mid == (lo + hi) \div 2 IN
        IF hi - lo <= 1 THEN hi
        ELSE IF enough(mid) THEN search[<<lo, mid>>] ELSE search[<<mid, hi>>]
  IN  search[<<0, LambdaHi>>]

OfflinePlan(w, trace, need) ==
  LET always(a) == [t \in DOMAIN trace |-> a]
      enough(plan) == Done(w, plan) * need.den >= need.num
  IN  IF ~enough(PlanAt(w, trace, LambdaHi)) THEN always(Len(w.rate))
      ELSE IF enough(PlanAt(w, trace, 0)) THEN always(1)
      ELSE PlanAt(w, trace, Search(w, trace, need))

-----------------------------------------------------------------------------
(* One hour of the two policies that keep a count of what is done.         *)

\* The forecast may be anything; what is wanted of its window is its share of
\* what remains, and the first action of the plan is taken.
RecedingChoice(w, run, forecast) ==
  LET left == w.hours - run.hour IN
  OfflinePlan(w, forecast,
              [num |-> (w.target - run.done) * Len(forecast), den |-> left])[1]

\* Slip: the hour that begins is not counted among those that remain.
GreedyChoiceHurried(w, run, intensity) ==
  LET enough == {a \in DOMAIN w.rate :
                   w.rate[a] * (w.hours - run.hour + 1) >= w.target - run.done}
      cost(a) == w.energy[a] * intensity
  IN  IF enough = {} THEN Len(w.rate) ELSE Cheapest(enough, cost)

\* The cheapest action that keeps up with the rate that is needed from here on.
GreedyChoice(w, run, intensity) ==
  LET enough == {a \in DOMAIN w.rate :
                   w.rate[a] * (w.hours - run.hour) >= NonNegative(w.target - run.done)}
      cost(a) == w.energy[a] * intensity
  IN  IF enough = {} THEN Len(w.rate) ELSE Cheapest(enough, cost)

RunBegins == [hour |-> 0, done |-> 0]
After(w, run, action) == [hour |-> run.hour + 1, done |-> run.done + w.rate[action]]

-----------------------------------------------------------------------------
(* The epoch drivers: run_training hour by hour, for every policy at once. *)
(* e has the epochs, the hours of the trace and of the deadline, the two   *)
(* thresholds and the energy of an epoch at either cap.                    *)

EpochPolicies ==
  {"static_max", "static_optimal", "carbon_defer", "carbon_throttle", "carbon_joint",
   "carbon_deadline_aware"}

\* Slip: deferring is decided by the middle threshold.
DecideLow(e, policy, intensity, slack, remaining) ==
  CASE policy = "static_max" -> "max"
    [] policy = "static_optimal" -> "optimal"
    [] policy = "carbon_throttle" -> IF intensity > e.deferAbove THEN "optimal" ELSE "max"
    [] OTHER -> IF intensity > e.throttleAbove THEN "defer" ELSE "max"

Decide(e, policy, intensity, slack, remaining) ==
  LET dirty == intensity > e.deferAbove IN
  CASE policy = "static_max" -> "max"
    [] policy = "static_optimal" -> "optimal"
    [] policy = "carbon_defer" -> IF dirty THEN "defer" ELSE "max"
    [] policy = "carbon_throttle" -> IF dirty THEN "optimal" ELSE "max"
    [] policy = "carbon_joint" ->
         IF dirty THEN "defer" ELSE IF intensity > e.throttleAbove THEN "optimal" ELSE "max"
    [] policy = "carbon_deadline_aware" ->
         IF dirty /\ slack >= remaining THEN "defer" ELSE "max"

\* hour < min(n_hours, deadline_hour_budget)
InTime(e, hour) == hour < e.hours /\ hour < e.deadline

Epochs(e) == [hour |-> 0, of |-> [policy \in EpochPolicies |-> [done |-> 0, carbon |-> 0]]]

EpochHour(e, runs, intensity) ==
  LET decided(policy) ==
        Decide(e, policy, intensity, e.deadline - runs.hour, e.epochs - runs.of[policy].done)
      hour(policy, r) ==
        IF r.done = e.epochs \/ decided(policy) = "defer" THEN r
        ELSE [done |-> r.done + 1,
              carbon |-> r.carbon + intensity *
                         IF decided(policy) = "max" THEN e.maxEnergy ELSE e.optimalEnergy]
  IN  [hour |-> runs.hour + 1, of |-> [policy \in EpochPolicies |-> hour(policy, runs.of[policy])]]

-----------------------------------------------------------------------------
(* HasagiCarbonEnv: an episode of ticks in which an agent picks widths.  n *)
(* has the widths' rates, in iterations per "per" seconds, the tick and    *)
(* the latency of a switch in seconds, the target, the deadline and the    *)
(* energy budget, and the energy of a GPU for a tick and of a switch.      *)

EpisodeBegins ==
  [t |-> 0, done |-> 0, energy |-> 0, spent |-> 0, gpus |-> 1, behind |-> 0, held |-> 0, from |-> 0]

\* terminated or truncated; the agent then begins another episode.
EpisodeEnded(n, ep) ==
  ep.t > 0 /\ (ep.done >= n.target \/ ep.energy >= n.budget \/ ep.t >= n.deadline)

Useful(n, switched) == NonNegative(n.tick - IF switched THEN n.latency ELSE 0)

\* Slip: the projection is made for the fastest width.
ProjectedAtPeak(n, t, done, g) ==
  NonNegative((t - n.deadline) * n.rate[Len(n.rate)] + NonNegative(n.target - done) * n.per)

\* By how much the deadline will be missed at this width, times its rate: from
\* the beginning of the tick, and with the iterations at its end.
Projected(n, t, done, g) ==
  NonNegative((t - n.deadline) * n.rate[g] + NonNegative(n.target - done) * n.per)

\* held and from are history: for how many ticks the width has been held, and what
\* was projected at the first of them.
EpisodeTick(n, ep, g) ==
  LET switched == g # ep.gpus
      done == ep.done + (n.rate[g] * Useful(n, switched)) \div n.per
      spent == n.power * g + IF switched THEN n.switch ELSE 0
      behind == Projected(n, ep.t, done, g)
      fresh == switched \/ ep.t = 0
  IN  [t |-> ep.t + n.tick, done |-> done, energy |-> ep.energy + spent, spent |-> spent,
       gpus |-> g, behind |-> behind, held |-> IF fresh THEN 0 ELSE ep.held + 1,
       from |-> IF fresh THEN behind ELSE ep.from]

-----------------------------------------------------------------------------
(* What the policies are for.                                              *)

Fastest(w) == w.rate[Len(w.rate)]
Reachable(w) == w.target <= w.hours * Fastest(w)

\* What a run, the epochs and an episode are set up with.
IsRun(w) ==
  /\ w.rate \in Seq(Nat) /\ w.rate # <<>> /\ w.energy \in [DOMAIN w.rate -> Nat]
  /\ \A a, b \in DOMAIN w.rate : a <= b => w.rate[a] <= w.rate[b] /\ w.energy[a] <= w.energy[b]
  /\ w.hours \in Nat /\ w.target \in Nat /\ w.intensities \subseteq Nat

IsEpochs(e) ==
  /\ {e.epochs, e.hours, e.deadline, e.maxEnergy, e.optimalEnergy} \subseteq Nat
  /\ {e.deferAbove, e.throttleAbove} \subseteq Nat /\ e.throttleAbove <= e.deferAbove
  /\ e.optimalEnergy <= e.maxEnergy /\ e.intensities \subseteq Nat

IsEpisode(n) ==
  /\ n.rate \in Seq(Nat \ {0}) /\ {n.latency, n.power, n.switch} \subseteq Nat
  /\ {n.per, n.tick, n.target, n.deadline, n.budget} \subseteq Nat \ {0}

\* The multiplier that comes with the plan.
Multiplier(w, trace, need) ==
  IF Done(w, PlanAt(w, trace, 0)) * need.den >= need.num THEN 0 ELSE Search(w, trace, need)

\* The offline plan does what is needed if that can be done.  It may do more, and
\* then it need not be the cheapest that is enough: what it costs more than any
\* other plan is at most the multiplier for each iteration that it does more, so
\* none that does as much costs less.  No smaller multiplier would be enough.
OfflineIsPricedRight(w, trace, plan) ==
  LET need == [num |-> w.target, den |-> 1]
      lambda == Multiplier(w, trace, need)
  IN  /\ Done(w, plan) >= w.target \/ \A t \in DOMAIN plan : plan[t] = Len(w.rate)
      /\ Done(w, PlanAt(w, trace, LambdaHi)) >= w.target =>
           /\ \A other \in [DOMAIN trace -> DOMAIN w.rate] :
                CostOf(w, trace, plan) - CostOf(w, trace, other)
                  <= lambda * (Done(w, plan) - Done(w, other))
           /\ \A less \in 0..(lambda - 1) : Done(w, PlanAt(w, trace, less)) < w.target

\* What remains can still be done.
StillReachable(w, run) == w.target - run.done <= (w.hours - run.hour) * Fastest(w)

\* The promise that only an open deadline is deferred against is off by one: up
\* to one epoch is lost.  Nothing that throttles takes longer, joint decisions
\* defer just when deferring ones do, and neither emits more than it would have.
EpochsAreKept(e, runs) ==
  LET done(policy) == runs.of[policy].done
      carbon(policy) == runs.of[policy].carbon
  IN  /\ e.epochs <= e.deadline /\ e.deadline <= e.hours =>
           e.epochs - done("carbon_deadline_aware") <= e.deadline - runs.hour + 1
      /\ done("carbon_joint") = done("carbon_defer")
      /\ done("carbon_defer") <= done("carbon_deadline_aware")
      /\ done("carbon_deadline_aware") <= done("static_max")
      /\ done("carbon_throttle") = done("static_max")
      /\ carbon("carbon_joint") <= carbon("carbon_defer")
      /\ carbon("carbon_defer") <= carbon("static_max")
      /\ carbon("static_optimal") <= carbon("carbon_throttle")
      /\ carbon("carbon_throttle") <= carbon("static_max")

\* Only the last tick may spend beyond the budget.  While a width is held, what
\* was projected for it worsens by less than an iteration a tick, the fractions
\* that int() drops; and an episode that runs out of time on track misses what
\* one tick would have done, no more.
EpisodeIsHonest(n, ep) ==
  /\ ep.energy - ep.spent < n.budget
  /\ ep.held > 0 => ep.behind <= ep.from + ep.held * (n.per - 1)
  /\ ep.t >= n.deadline /\ ep.behind = 0 =>
       (n.target - ep.done) * n.per <= n.rate[ep.gpus] * n.tick

=============================================================================
