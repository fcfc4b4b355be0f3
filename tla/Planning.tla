------------------------------ MODULE Planning ------------------------------
(***************************************************************************)
(* The planners, schedulers and estimators that are asked a question and   *)
(* answer it, each with its own kind of question.  Most answer once; the   *)
(* primal-dual policy is asked again every tick, and a simulation, a run   *)
(* towards a deadline and the first service go on step by step.            *)
(***************************************************************************)
EXTENDS Comparisons, CarbonEstimates, PauseMasks, DeadlineRuns, BaselineLoop

CONSTANT Problems    \* the questions, by kind

\* The questions about deadlines are of the types that the programs are set up with.
ASSUME DeadlineAssumption ==
  /\ \A k \in DOMAIN Problems \intersect {"greedy", "receding"} :
       \A w \in Problems[k] : IsRun(w) /\ w.horizon \in Nat \ {0}
  /\ "epochs" \in DOMAIN Problems => \A e \in Problems["epochs"] : IsEpochs(e)
  /\ "episode" \in DOMAIN Problems => \A n \in Problems["episode"] : IsEpisode(n)

\* So are the questions that the steering policies and the service are asked.
ASSUME SteeringAssumption ==
  /\ "mpc" \in DOMAIN Problems => \A m \in Problems["mpc"] : IsForecast(m)
  /\ "dual" \in DOMAIN Problems => \A d \in Problems["dual"] : IsDual(d)
  /\ "service" \in DOMAIN Problems => \A p \in Problems["service"] : IsService(p)

\* And those that the estimators of carbon are asked.
ASSUME CarbonAssumption ==
  /\ "emissions" \in DOMAIN Problems => \A e \in Problems["emissions"] : IsEstimate(e)
  /\ "lookup" \in DOMAIN Problems => \A p \in Problems["lookup"] : IsLookup(p)
  /\ "sources" \in DOMAIN Problems => \A p \in Problems["sources"] : IsSources(p)
  /\ "samples" \in DOMAIN Problems => \A m \in Problems["samples"] : IsSampled(m)
  /\ "simulation" \in DOMAIN Problems => \A c \in Problems["simulation"] : IsSimulation(c)

\* And those that the tests are asked.
ASSUME VerdictAssumption ==
  "verdict" \in DOMAIN Problems => \A v \in Problems["verdict"] : IsVerdict(v)

\* And those that the two greedy allocators are asked.
ASSUME AllocationAssumption ==
  \A k \in DOMAIN Problems \intersect {"fastest", "cheapest"} :
    \A p \in Problems[k] : IsHandOut(p)

VARIABLES
  kind,      (* what is asked                                                *)
  problem,   (* the question                                                 *)
  answer,    (* the answer so far                                            *)
  asked      (* how often it was asked, up to 2                              *)

vars == <<kind, problem, answer, asked>>

\* The policies a simulation compares (pareto): always on at the fast cap, and a
\* pause in dirty windows.
AlwaysOn(c) == [c EXCEPT !.dirty = c.clean]
PauseInDirty(c) == [c EXCEPT !.dirty = Pause]

FirstAnswer(k, p) ==
  CASE k = "joint" -> NoPlan
    [] k = "stochastic" -> NoStochasticPlan
    [] k \in {"fastest", "cheapest"} -> Current(p.admitted)
    [] k = "mpc" -> p.cur
    [] k = "dual" -> [lambda |-> 0, debt |-> 0]
    [] k = "lookup" -> [trace |-> Exactly(0), background |-> Exactly(0)]
    [] k = "simulation" -> [given |-> SimInit, on |-> SimInit, pause |-> SimInit]
    [] k \in {"greedy", "receding"} -> RunBegins
    [] k = "epochs" -> Epochs(p)
    [] k = "episode" -> EpisodeBegins
    [] k = "service" -> ServiceBegins
    [] OTHER -> 0

Init ==
  /\ asked = 0 /\ kind \in DOMAIN Problems
  /\ problem \in Problems[kind] /\ answer = FirstAnswer(kind, problem)

\* One question; a planner without memory need not be asked twice.
Once(k, value) ==
  /\ kind = k /\ asked = 0 /\ asked' = 1
  /\ answer' = value /\ UNCHANGED <<kind, problem>>

Again(k) ==
  /\ kind = k /\ asked' = Smaller(2, asked + 1) /\ UNCHANGED <<kind, problem>>

PlanJointly == Once("joint", JointPlanOf(problem, problem.stages))
PlanForRisk == Once("stochastic", StochasticPlanOf(problem, problem.stages))

AllocateFastest ==
  Once("fastest", FastestAllocation(problem.admitted, problem.available))
AllocateCheapest ==
  Once("cheapest", CheapestAllocation(problem.admitted, problem.available))

ProjectEmissions == Once("emissions", Emissions(problem))

LookUp ==
  Once("lookup", [trace |-> IntensityAt(problem.series, problem.at),
                  background |-> BackgroundAt(problem.series, problem.at)])

SteerMPC == Once("mpc", MPCDecide(problem, problem.forecast, problem.cur))

AllocateBaseline ==
  Once("baseline",
       GreedyRounds(problem.scheduler, problem.jobs, problem.available, problem.budget))
AllocateElasticFlow == Once("elasticflow", ElasticFlow(problem.jobs, problem.available))
AllocateZeus == Once("zeus", Zeus(problem.jobs, problem.available, problem.knob))

ChooseStrategy == Once("hybrid", HybridStrategy(problem))
ThrottleStages ==
  Once("perseus", [s \in DOMAIN problem.times |-> ThrottleFactor(problem, s)])

MaskTicks ==
  Once("mask", [offline |-> OfflineMask(problem.trace, PauseBudget(problem)),
                percentile |-> PercentileMask(problem), median |-> MedianMask(problem),
                rolling |-> RollingMedianMask(problem), sameBudget |-> SameBudgetMask(problem)])

CutSamples ==
  Once("samples", [threshold |-> QuantileThreshold(problem),
                   rotated |-> [o \in 0..2 |-> Rotated(problem.trace, o)],
                   offsets |-> Offsets(problem, problem.stride)])

ReadSources == Once("sources", Aggregate(problem.sources, problem.perUnit))

CompareStacked == Once("stacked", Stacked(problem, problem.stages))
AllocateBudgeted == Once("budgeted", HasagiEB(problem.jobs, problem.available))
AllocateTrimmed == Once("trimmed", Trimmed(problem.jobs, problem.available, problem.budget))

Judge ==
  Once("verdict", [extreme |-> Extreme(problem.diffs),
                   rejected |-> Holm(problem.p, problem.alpha)])

PlanOffline ==
  Once("offline", OfflinePlan(problem, problem.trace, [num |-> problem.target, den |-> 1]))

\* A tick at some intensity.  debt is how far the decisions of some stretch that
\* ends here fell behind the target together.
SteerDual ==
  /\ Again("dual")
  /\ \E intensity \in problem.intensities :
       LET g == PrimalChoice(problem, answer.lambda, intensity) IN
       answer' = [lambda |-> DualStep(problem, answer.lambda, g),
                  debt |-> NonNegative(answer.debt + problem.target - problem.rate[g])]

\* One window of each policy.
Simulate ==
  /\ Again("simulation")
  /\ \/ Running(problem, answer.given)
     \/ Running(AlwaysOn(problem), answer.on)
     \/ Running(PauseInDirty(problem), answer.pause)
  /\ answer' = [given |-> SimWindow(problem, answer.given),
                on |-> SimWindow(AlwaysOn(problem), answer.on),
                pause |-> SimWindow(PauseInDirty(problem), answer.pause)]

\* An hour of a run towards a deadline.
RunGreedy ==
  /\ Again("greedy") /\ answer.hour < problem.hours
  /\ \E intensity \in problem.intensities :
       answer' = After(problem, answer, GreedyChoice(problem, answer, intensity))

RunReceding ==
  /\ Again("receding") /\ answer.hour < problem.hours
  /\ \E forecast \in
         [1..Smaller(problem.horizon, problem.hours - answer.hour) -> problem.intensities] :
       answer' = After(problem, answer, RecedingChoice(problem, answer, forecast))

TrainEpoch ==
  /\ Again("epochs") /\ InTime(problem, answer.hour)
  /\ \E intensity \in problem.intensities : answer' = EpochHour(problem, answer, intensity)

\* An episode that ends is followed by another one.
ActEpisode ==
  /\ Again("episode") /\ ~EpisodeEnded(problem, answer)
  /\ \E g \in DOMAIN problem.rate : answer' = EpisodeTick(problem, answer, g)

ResetEpisode ==
  /\ Again("episode") /\ EpisodeEnded(problem, answer) /\ answer' = EpisodeBegins

SubmitJob ==
  /\ Again("service") /\ Len(answer) < problem.maxJobs
  /\ \E k \in problem.kinds : answer' = Submit(answer, k)

TickService ==
  /\ Again("service")
  /\ \E sample \in IntensitySamples : answer' = BaselineTick(problem, answer, sample)

Next ==
  \/ PlanJointly \/ PlanForRisk \/ AllocateFastest \/ AllocateCheapest
  \/ AllocateBaseline \/ AllocateElasticFlow \/ AllocateZeus
  \/ CompareStacked \/ AllocateBudgeted \/ AllocateTrimmed \/ Judge
  \/ ChooseStrategy \/ ThrottleStages \/ MaskTicks \/ CutSamples \/ PlanOffline \/ ReadSources
  \/ ProjectEmissions \/ LookUp \/ SteerMPC \/ SteerDual \/ Simulate
  \/ RunGreedy \/ RunReceding \/ TrainEpoch \/ ActEpisode \/ ResetEpisode
  \/ SubmitJob \/ TickService

Spec == Init /\ [][Next]_vars

-----------------------------------------------------------------------------
(* GPU by GPU is as good as all at once ("Optimality (proof pending)",        *)
(* mss.py:194-281): for concave curves no other way to hand out as many GPUs  *)
(* is faster, and where the cost of an added iteration climbs with the GPUs   *)
(* none that is as fast draws less. For any curves nobody loses a GPU, none   *)
(* is handed out twice, and one is left over only when nobody takes it.       *)
MarginalSharesAreBest ==
  asked > 0 =>
    /\ kind = "fastest" => FastestIsBest(problem.admitted, problem.available, answer)
    /\ kind = "cheapest" => CheapestIsBest(problem.admitted, problem.available, answer)

(* The schedulers that HASAGI is compared with, and HASAGI's own in those     *)
(* comparisons, reach the optimum of what they are about where each further   *)
(* GPU is worth less (optimus.py:73-125, pollux.py:103-164), keep to an       *)
(* energy budget (powerflow.py:86-134, exp05_eb_mss_vs_powerflow.py:38-86),   *)
(* spare as many jobs as any eviction could (elasticflow.py:89-98,            *)
(* zeus.py:124-132, exp06_eb_mss_vs_elasticflow.py:84-90) and stay on the     *)
(* frontier of time and energy (zeus.py:71-90).                               *)
AllocationsAreBest ==
  asked > 0 =>
    /\ kind = "baseline" =>
         GreedyIsBest(problem.scheduler, problem.jobs, problem.available, problem.budget, answer)
    /\ kind = "budgeted" => BudgetedIsBest(problem.jobs, problem.available, answer)
    /\ kind = "trimmed" => TrimmedIsBest(problem.jobs, problem.available, problem.budget, answer)
    /\ kind = "elasticflow" => ElasticFlowIsBest(problem.jobs, problem.available, answer)
    /\ kind = "zeus" =>
         /\ \A j \in DOMAIN problem.jobs : ZeusOnFrontier(problem.jobs[j], problem.knob)
         /\ SparesMost([j \in DOMAIN problem.jobs |-> ZeusPick(problem.jobs[j], problem.knob)],
                       problem.available, answer)

(* The searches find the best of everything that they could answer: the       *)
(* dynamic programs keep one state or a frontier per prefix of layers and a   *)
(* ceiling that a stage's throttle may break (joint_partitioner.py:393-411,   *)
(* stochastic_joint_partitioner.py:301-335); the hybrid planner tries one     *)
(* count of replicas per depth (planner.py:24-49); throttling never costs     *)
(* energy (perseus.py:50-135); offline masks emit least for their budget      *)
(* (green.py:39-65); the plan of the multiplier found by halving is enough,   *)
(* and costs at most that multiplier more for each iteration it does beyond   *)
(* any other plan (exp_online_deadline.py:83-130: not the "exactly" of its    *)
(* docstring, nor always the cheapest that is enough); no plan that is        *)
(* throttled afterwards is in time and cheaper than the joint one             *)
(* (exp_joint_vs_stacked.py:144-229); and the compared schedulers allocate    *)
(* as well as AllocationsAreBest says.                                        *)
PlansAreOptimal ==
  asked > 0 =>
    /\ kind = "joint" => JointIsOptimal(problem, problem.stages, answer)
    /\ kind = "stochastic" => StochasticIsOptimal(problem, problem.stages, answer)
    /\ kind = "hybrid" => StrategyIsFastest(problem, answer)
    /\ kind = "perseus" => ThrottlingSaves(problem)
    /\ kind = "mask" => MasksAreRight(problem, answer)
    /\ kind = "offline" => OfflineIsPricedRight(problem, problem.trace, answer)
    /\ kind = "stacked" => StackedIsNoBetter(problem, problem.stages, answer)
    /\ AllocationsAreBest

(* No steering policy runs away: the price of a switch keeps MPC from         *)
(* flapping (policy.py:183-190), so that the width it chose is the one it     *)
(* holds under the same forecast; however the intensity moves, primal-dual    *)
(* decisions never fall behind an attainable target by more than a fixed      *)
(* amount over any stretch of them (policy.py:361-366); and the first service *)
(* scales every job back up after dirty hours and pauses, which leave all     *)
(* jobs alike (control_loop.py:47-73).                                        *)
SteeringIsSteady ==
  /\ kind = "mpc" /\ asked > 0 => MPCDecide(problem, problem.forecast, answer) = answer
  /\ kind = "dual" /\ Attainable(problem) =>
       \E dirtiest \in problem.intensities :
         /\ \A b \in problem.intensities : b <= dirtiest
         /\ problem.eta * answer.debt <= DebtBound(problem, dirtiest)
  /\ kind = "service" => ServiceRecovers(problem, answer)

(* A deadline that can be met is met: the receding-horizon controller does    *)
(* what remains in time under any forecasts, and so does the greedy policy    *)
(* under any intensities (exp_online_deadline.py:150-187, 233-276). The epoch *)
(* drivers' policies keep to their deadlines but for one epoch, and neither   *)
(* deferring nor throttling emits more than it would have                     *)
(* (exp_endtoend_full_stack.py:232-351). An agent's episode overruns its      *)
(* energy budget by one tick at most, and a projected overshoot of zero hides *)
(* a missed deadline by no more than what one tick does (rl_env.py:134-183).  *)
DeadlinesAreKept ==
  /\ kind \in {"greedy", "receding"} /\ Reachable(problem) => StillReachable(problem, answer)
  /\ kind = "epochs" => EpochsAreKept(problem, answer)
  /\ kind = "episode" => EpisodeIsHonest(problem, answer)

(* The carbon of an admission estimate is exact but for the part iterations   *)
(* of its slices (mss.py:119-149); both time series are read at the right     *)
(* place (carbon_trace.py:56-75, background.py:38-54); readings of several    *)
(* sources lie within the band of the uncertainty that is reported for them,  *)
(* unless they are flagged (carbon_sources.py:278-315); samples of a trace    *)
(* fit it and keep its distribution (trace_schedule.py:37-78); and a          *)
(* simulation bills the work it counts but for rounding                       *)
(* (throttle_pareto.py:140-148).                                              *)
CarbonIsAccounted ==
  /\ kind = "emissions" /\ asked > 0 => EmissionsAreClose(problem, answer)
  /\ kind = "lookup" /\ asked > 0 =>
       /\ LookupIsRight(problem.series, problem.at, answer.trace)
       /\ LookupIsRight(problem.series, problem.at, answer.background)
  /\ kind = "sources" /\ asked > 0 => BandHoldsAll(problem.sources, answer)
  /\ kind = "samples" /\ asked > 0 => SamplesAreRight(problem, answer)
  /\ kind = "simulation" => CountsWhatItBills(answer.given)

\* Both simulations end before the schedule starts over, and the one that is
\* always on trains through all of the dirty windows.
Comparable ==
  /\ problem.kind = "threshold" /\ OneEpisode(problem)
  /\ \A sim \in {answer.on, answer.pause} :
       sim.iters >= problem.total /\ sim.window <= Len(problem.schedule)
  /\ \A w \in DirtyWindows(problem) : w < answer.on.window

(* Two ways to ask whether a pause pays agree: of two simulations of one job  *)
(* through one run of dirty windows, the one that pauses emits less exactly   *)
(* when the run is longer than the break-even window (regime.py:108-138), if  *)
(* a window trains whole iterations.                                          *)
PausePaysBeyondBreakEven ==
  kind = "simulation" /\ problem.clean.parts % Parts = 0 /\ Comparable =>
    \A v \in DirtyWindows(problem) : \A w \in DOMAIN problem.schedule \ DirtyWindows(problem) :
      answer.pause.carbon < answer.on.carbon <=>
        BeyondBreakEven(problem.clean.parts * problem.clean.energy, problem.idle, problem.resume,
                        problem.schedule[v], problem.schedule[w], Cardinality(DirtyWindows(problem)))

(* The experiments' conclusions rest on two tests                             *)
(* (stats/bootstrap.py:101-145, 223-249): however the differences tie, the    *)
(* exact p-value has its floor of two signs and treats both sides alike, and  *)
(* the step-down procedure rejects just what closed testing does.             *)
VerdictsAreSound ==
  kind = "verdict" /\ asked > 0 =>
    VerdictIsRight(problem.p, problem.alpha, problem.diffs, answer)
=============================================================================
