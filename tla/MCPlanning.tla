----------------------------- MODULE MCPlanning -----------------------------
EXTENDS Planning, TLC

(* Workloads of four layers, as in MCRepartitioning, for one to three stages. *)
Base ==
  [work |-> <<0, 1, 3, 4, 6>>, act |-> <<0, 1, 3, 4, 5>>, slow |-> <<1, 1, 1>>,
   mem |-> <<5, 5, 5>>, power |-> <<2, 1, 2>>, cap |-> <<3, 3, 3>>, link |-> <<1, 0>>,
   latency |-> <<0, 1>>]

Shapes ==
  {Base,
   [Base EXCEPT !.slow = <<3, 1, 2>>, !.cap = <<2, 1, 1>>],
   [Base EXCEPT !.work = <<0, 5, 6, 7, 8>>, !.power = <<1, 3, 1>>],
   [Base EXCEPT !.mem = <<3, 3, 2>>, !.link = <<0, 2>>],
   [Base EXCEPT !.work = <<0, 1, 2, 3, 8>>, !.slow = <<1, 2, 1>>, !.cap = <<3, 1, 2>>]}

(* Curves: the parametric model of alpha 2 in tenths, and a measured one whose *)
(* energy rises again at the lowest ratio.                                     *)
Curves == {
  <<[time |-> 20, energy |-> 5], [time |-> 13, energy |-> 8], [time |-> 10, energy |-> 10]>>,
  <<[time |-> 22, energy |-> 9], [time |-> 12, energy |-> 7], [time |-> 10, energy |-> 10]>>}

MCJointProblems ==
  {[stages |-> k, levels |-> c, floor |-> f] @@ w :
     k \in 1..3, c \in Curves, f \in {8, 14, 20, 30}, w \in Shapes}

MCStochasticProblems ==
  {[stages |-> k, ratios |-> <<2, 3, 4>>, full |-> 4, alpha |-> a, floor |-> f, margin |-> m,
    kappa |-> r] @@ [w EXCEPT !.power = <<2, 1, 1>>] :
     k \in 1..3, a \in {1, 2}, f \in {10, 24}, w \in Shapes,
     m \in {[time |-> 100, power |-> 100], [time |-> 116, power |-> 108]},
     r \in {[num |-> 0, den |-> 1], [num |-> 1, den |-> 1], [num |-> 2, den |-> 1]}}

(* Admitted jobs: concave and not, saturated, convex powers and not.          *)
Job(rate, power, cur) == [rate |-> rate, power |-> power, cur |-> cur]
Rates == {<<4, 7, 9, 10>>, <<3, 6, 9>>, <<5, 6, 6>>, <<2, 3, 6>>, <<4, 4, 3>>}
Powers == {<<2, 4, 6, 8>>, <<1, 3, 7, 12>>, <<5, 6, 8, 12>>, <<4, 3, 9, 9>>}
Applicants ==
  {Job(r, SubSeq(p, 1, Len(r)), cur) : r \in Rates, p \in Powers, cur \in 0..1}

MCAllocationProblems ==
  {[admitted |-> <<a, b>>, available |-> n] : a, b \in Applicants, n \in {1, 3, 5, 8}}
  \union {[admitted |-> <<a, Job(<<3, 5>>, <<2, 4>>, 1), a>>, available |-> 6] : a \in Applicants}

(* "Optimality (proof pending) relies on convex per-iter energy in GPU count"  *)
(* (mss.py:251), but it is not sufficient (energy_profile.py:109-112): the     *)
(* U-shaped profile of the tests (test_energy_profile.py:108-111), in          *)
(* twentieths, and one whose iterations cost the same on any number of GPUs    *)
(* share four of them; another allocation is as fast and draws less.           *)
UShaped == Job(<<10, 18, 25, 30, 33, 35, 36>>, <<2000, 2160, 2250, 2400, 2970, 4200, 6480>>, 1)
Flat == Job(<<7, 14, 21>>, <<133, 266, 399>>, 1)
ASSUME ConvexEnergyIsNotEnough ==
  LET jobs == <<UShaped, Flat>> IN
  /\ \A j \in DOMAIN jobs : Concave(jobs[j]) /\ ConvexEnergy(jobs[j])
  /\ ~DrawsLeast(jobs, CheapestAllocation(jobs, 4))

MCForecastProblems ==
  {[widths |-> 1..3, done |-> <<2, 4, 5>>, pace |-> <<6, 3, 2>>, remaining |-> r, deadline |-> d,
    carbonWeight |-> 1, lagWeight |-> l, power |-> 1, switchLatency |-> t, switchEnergy |-> e,
    forecast |-> f, cur |-> c] :
     r \in {3, 9}, d \in {6, 20}, l \in 0..2, t \in {0, 3}, e \in {0, 2},
     f \in {<<>>, <<1, 4>>, <<5, 1>>}, c \in 0..4}

MCDualProblems ==
  {[rate |-> <<2, 3, 5>>, energy |-> en, target |-> t, eta |-> h, intensities |-> i] :
     en \in {<<2, 3, 4>>, <<3, 2, 4>>}, t \in 1..5, h \in 1..3, i \in {{1}, {1, 3}, {0, 2, 5}}}

MCEmissionProblems ==
  {[profiled |-> b, rate |-> r, per |-> 10, energy |-> 3, power |-> 2, duration |-> d, step |-> 6,
    forecast |-> f] :
     b \in BOOLEAN, r \in {1, 2, 7, 20}, d \in {1, 6, 11, 18},
     f \in {<<>>, <<4, 1, 3>>, <<0, 5, 2>>}}

MCLookupProblems ==
  {[series |-> s, at |-> t] : t \in -1..10, s \in {
     <<[t |-> 0, v |-> 7]>>,
     <<[t |-> 0, v |-> 7], [t |-> 4, v |-> 1]>>,
     <<[t |-> 0, v |-> 2], [t |-> 1, v |-> 9], [t |-> 3, v |-> 4], [t |-> 8, v |-> 6]>>,
     <<[t |-> 0, v |-> 2], [t |-> 3, v |-> 9], [t |-> 3, v |-> 4], [t |-> 5, v |-> 6], [t |-> 9, v |-> 0]>>}}

MCSimulationProblems ==
  {[kind |-> k, total |-> n, schedule |-> s, maxWindows |-> 14, threshold |-> 2,
    mask |-> <<TRUE, FALSE, TRUE>>, clean |-> [parts |-> p, energy |-> 2],
    dirty |-> d, resume |-> r, idle |-> i] :
     k \in {"threshold", "masked"}, n \in {3, 6}, p \in {2, 3, 4, 5},
     s \in {<<1, 3, 3, 1, 1, 1, 1, 1, 1, 1>>, <<4, 2, 2, 2, 2, 2, 2, 2, 2>>, <<1, 5, 2>>},
     d \in {[parts |-> 1, energy |-> 1], [parts |-> 3, energy |-> 1], Pause},
     r \in {0, 17, 32}, i \in 0..2}

(* Jobs of the schedulers that HASAGI is compared with.                      *)
Contender(rate, energy, iters, deadline) ==
  [rate |-> rate, energy |-> energy, iters |-> iters, deadline |-> deadline, cur |-> 1,
   batch |-> 2, noise |-> 3]
Contenders ==
  {Contender(r, SubSeq(e, 1, Len(r)), i, d) :
     r \in {<<4, 7, 9>>, <<3, 6>>, <<2, 4, 6, 8>>, <<0, 4, 3>>},
     e \in {<<3, 4, 6, 9>>, <<5, 4, 4, 7>>, <<2, 2, 3, 3>>}, i \in {0, 6, 13}, d \in {2, 100}}
Steady == {c \in Contenders : c.rate # <<0, 4, 3>>}
Sociable == {c \in Contenders : c.iters = 6 /\ c.deadline = 2 /\ c.energy[1] # 2}
Patient == Contender(<<3, 5>>, <<2, 3>>, 4, 2)

MCBaselineProblems ==
  {[scheduler |-> s, jobs |-> <<a, b, [Patient EXCEPT !.noise = 20]>>, available |-> n, budget |-> e] :
     s \in {"optimus", "pollux", "powerflow"}, a \in Contenders, b \in Sociable,
     n \in {2, 4, 7}, e \in {40, 90, 1000}}

MCElasticFlowProblems ==
  {[jobs |-> <<a, b, Patient>>, available |-> n] :
     a, b \in {c \in Steady : c.energy[1] = 3}, n \in {2, 4, 7}}

MCZeusProblems ==
  {[jobs |-> <<a, b, Patient>>, available |-> n, knob |-> k] :
     a \in Contenders, b \in Sociable, n \in {2, 4, 7}, k \in 0..4}

MCHybridProblems ==
  {[workers |-> n, minReplicas |-> m, work |-> w, reduce |-> r, bubble |-> b, split |-> s] :
     n \in 1..12, m \in {1, 2, 4}, w \in {60, 600}, r \in {0, 3, 40}, b \in {0, 5, 50},
     s \in BOOLEAN}

MCThrottleProblems ==
  {[times |-> t, power |-> p, alpha |-> a, idle |-> i] :
     t \in {<<4, 4>>, <<1, 3, 4>>, <<5, 0, 2>>, <<3, 6, 2>>}, p \in {<<1, 1, 1>>, <<3, 1, 2>>},
     a \in 1..3, i \in {0, 3, 10}}

MCMaskProblems ==
  {[trace |-> t, fraction |-> f, window |-> n, multiplier |-> m] :
     t \in UNION {[1..k -> {0, 4, 5}] : k \in 1..3} \union {<<4, 5, 5, 4, 6>>, <<1, 2, 3, 4, 5, 6>>},
     f \in 0..4, n \in {1, 2, 3, 6}, m \in {9, 10, 12}}

(* Actions as in build_action_set, with fewer of them.                       *)
Work(hours, target) ==
  [rate |-> <<1, 2, 4>>, energy |-> <<4, 5, 7>>, hours |-> hours, target |-> target]
MCOfflineProblems ==
  {[trace |-> t] @@ Work(3, d) : t \in [1..3 -> {0, 1, 2, 5}], d \in 1..13}

(* "Binary-search the Lagrange multiplier so the per-step argmin policy produces *)
(* exactly `deadline_iters` total iters" (exp_online_deadline.py:93-94): hours   *)
(* of equal intensity change their action together, and so no multiplier gives   *)
(* four iterations in three such hours.  The one found gives six, for 30; four   *)
(* would cost 18.                                                                *)
ASSUME NoMultiplierIsExact ==
  LET w == Work(3, 4)  trace == <<1, 1, 1>> IN
  /\ \A lambda \in 0..LambdaHi : Done(w, PlanAt(w, trace, lambda)) \in {3, 6, 12}
  /\ CostOf(w, trace, <<2, 2, 2>>) = 30
  /\ Done(w, <<1, 1, 2>>) = 4 /\ CostOf(w, trace, <<1, 1, 2>>) = 18

MCRunProblems ==
  {[intensities |-> {0, 1, 3}, horizon |-> n] @@ Work(4, d) : d \in 1..17, n \in 1..4}

MCEpochProblems ==
  {[epochs |-> n, hours |-> h, deadline |-> d, deferAbove |-> 2, throttleAbove |-> t,
    maxEnergy |-> 3, optimalEnergy |-> e, intensities |-> {1, 2, 3, 5}] :
     n \in 1..3, h \in {4, 5}, d \in 1..5, t \in {1, 2}, e \in {2, 3}}

MCSampleProblems ==
  {[trace |-> t, fraction |-> f, window |-> n, stride |-> d] :
     t \in UNION {[1..k -> {0, 4, 5}] : k \in 1..3} \union {<<4, 5, 5, 4, 6>>, <<1, 2, 3, 4, 5, 6>>},
     f \in 0..4, n \in {1, 2, 4}, d \in 1..3}

(* Zero, one or two of the sources may fail.                                 *)
Readings == {[v |-> v, f |-> f] : v \in {0, 8, 10, 12}, f \in {5, 8, 10}} \union {Failed}
MCSourceProblems ==
  {[sources |-> s, perUnit |-> 5] : s \in UNION {[1..k -> Readings] : k \in 1..3}}

(* An agent's episodes.                                                      *)
MCEpisodeProblems ==
  {[rate |-> <<5, 8, 10>>, per |-> 2, tick |-> 3, latency |-> l, target |-> n, deadline |-> d,
    budget |-> e, power |-> 2, switch |-> 1] :
     l \in {0, 1, 4}, n \in {20, 37, 60}, d \in {9, 16}, e \in {9, 100}}

(* The first service, with jobs of deadlines that can and cannot be met.     *)
MCServiceProblems ==
  {[kinds |-> {Contender(<<2, 4, 5, 6, 7>>, <<1, 1, 1, 1, 1>>, i, 2) : i \in {3, 11, 20}},
    maxJobs |-> 2,
    model |-> [workers |-> 0, minReplicas |-> 1, work |-> 60, reduce |-> r, bubble |-> 5,
               split |-> s]] : r \in {0, 40}, s \in BOOLEAN}

Graded == {
  <<[ratio |-> 5, time |-> 20, energy |-> 5], [ratio |-> 8, time |-> 12, energy |-> 8],
    [ratio |-> 10, time |-> 10, energy |-> 10]>>,
  <<[ratio |-> 4, time |-> 22, energy |-> 9], [ratio |-> 6, time |-> 14, energy |-> 7],
    [ratio |-> 9, time |-> 12, energy |-> 8], [ratio |-> 10, time |-> 10, energy |-> 10]>>,
  <<[ratio |-> 6, time |-> 12, energy |-> 14], [ratio |-> 8, time |-> 11, energy |-> 9],
    [ratio |-> 10, time |-> 10, energy |-> 10]>>}

(* Caps that bind nowhere, at some levels of the last curve, or at full speed    *)
(* on some stages, so that only some numbers of stages are left.                 *)
Capped(w) == {w, [w EXCEPT !.cap = <<9, 9, 9>>], [w EXCEPT !.cap = w.power]}
MCStackedProblems ==
  {p \in {[stages |-> k, levels |-> c, floor |-> f] @@ w :
            k \in 1..3, c \in Graded, f \in {8, 12, 14, 20, 30},
            w \in UNION {Capped(s) : s \in Shapes}} :
     Solvable("energy", p, p.stages)}

Budgeted(b, l) == [x \in {"budget", "lost"} |-> IF x = "budget" THEN b ELSE l]
MCBudgetedProblems ==
  {[jobs |-> <<Budgeted(e, l) @@ a, Budgeted(40, 0) @@ b, Budgeted(20, l) @@ Patient>>,
    available |-> n] :
     a \in Contenders, b \in Sociable, n \in {2, 4, 7}, e \in {20, 60}, l \in 0..1}
MCTrimmedProblems ==
  {[jobs |-> <<a, b, Patient>>, available |-> n, budget |-> e] :
     a \in Contenders, b \in Sociable, n \in {3, 5, 8}, e \in {20, 40, 60, 90}}

MCVerdictProblems ==
  {[p |-> p, alpha |-> 6, diffs |-> d] : p \in UNION {[1..k -> 1..7] : k \in 1..3},
     d \in {<<3>>, <<1, 2>>, <<1, -2>>, <<2, -2, 0>>, <<-1, -2, -2>>, <<1, 0, 3, 3>>}}
  \union {[p |-> <<2, 3>>, alpha |-> 6, diffs |-> d] : d \in UNION {[1..k -> -2..2] : k \in 1..4}}

MCProblems ==
  [joint |-> MCJointProblems, stochastic |-> MCStochasticProblems,
   fastest |-> MCAllocationProblems, cheapest |-> MCAllocationProblems,
   mpc |-> MCForecastProblems, dual |-> MCDualProblems, emissions |-> MCEmissionProblems,
   lookup |-> MCLookupProblems, simulation |-> MCSimulationProblems,
   baseline |-> MCBaselineProblems, elasticflow |-> MCElasticFlowProblems,
   zeus |-> MCZeusProblems, hybrid |-> MCHybridProblems, perseus |-> MCThrottleProblems,
   mask |-> MCMaskProblems, offline |-> MCOfflineProblems, greedy |-> MCRunProblems,
   receding |-> MCRunProblems, epochs |-> MCEpochProblems, episode |-> MCEpisodeProblems,
   service |-> MCServiceProblems, samples |-> MCSampleProblems, sources |-> MCSourceProblems,
   stacked |-> MCStackedProblems, budgeted |-> MCBudgetedProblems,
   trimmed |-> MCTrimmedProblems, verdict |-> MCVerdictProblems]
=============================================================================
