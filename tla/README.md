# A TLA+ model of HASAGI

HASAGI (`hasagi/`) schedules elastic training jobs under energy and carbon
limits: it admits a job at the smallest GPU count that meets its deadline within
its energy budget, re-decides every running job's width on a fixed cadence from
live telemetry, keeps the model's pipeline partition in step with the width, and
drives a pool of worker replicas. Around it are the meters and ledgers that bill
energy and carbon, a trainer that is paused and resumed, and the schedulers and
drivers of `experiments/` that it is compared with. This directory models the
parts whose correctness depends on orderings, boundaries and failures, checks
them with TLC on small instances, and proves the central results with TLAPS for
every value of the constants. `PROJECT.json` lists components, runs, mutants,
hazards, theorems and, for every definition that models code, the lines it
models.

## Inventory

| component | state | operations | interacts through |
|---|---|---|---|
| Admission (`admission/mss.py`) | none; one request at a time | `minimum_satisfactory_share`, `EnergyBudgetMSS.find`, two greedy allocators | called by the submitter |
| `JobStore` (`orchestrator/job.py`) | map of live `Job` objects under a lock | `add`, `get`, `by_state`, `update` | shared by submitters, workers, loop |
| Control loop (`orchestrator/energy_aware_control_loop.py`) | partition cache, stagnation trackers | `tick`, `_repartition` | reads store, telemetry, policy; writes store; calls the pool |
| Deadline floor (`orchestrator/deadline_selector.py`) | none | `evaluate` | called by the loop, per job and tick |
| Policies (`energy/policy.py`) | hysteresis counters; dual variable | `decide` | called by the loop; one object for all jobs |
| Baseline loop and API (`orchestrator/control_loop.py`, `api.py`) | the store, a background task | `submit_job`, `ControlLoop.tick` | one store |
| Partitioner (`parallel/partitioner.py`) | `StagnationTracker` | `partition_pipeline`, `incremental_partition`, `observe`, `reset`, `reset_all` | called by the loop |
| Joint partitioners, strategy planner (`parallel/`) | none | searches | called by the experiments and the baseline loop |
| Inter-batch scheduler (`parallel/inter_batch.py`) | deficits, weights, two queues per node | `pick`, `enqueue_*`, `tick` | telemetry source |
| Docker pool (`pool/local_pool.py`) | list of spawned names | `scale` | the docker daemon |
| Knative pool, adapter (`pool/knative_pool.py`, `scale_adapter.py`) | the cluster's annotations | `scale`, `observe` | the cluster, through kubectl |
| Meters (`energy/marginal_meter.py`, `telemetry.py`) | cumulative energy, last sample, trace | poller threads, `start`, `stop` | NVML, RAPL |
| Ledger (`energy/pod_ledger.py`) | marks | `mark`, `report`, `report_from_trace` | the meter's readings |
| Host trainer and its drivers (`worker/host_trainer.py`, two experiments) | model, optimiser, loader, counter, checkpoint file | `train`, `checkpoint`, `teardown`, `resume`; pauses | the file system, the ledger |
| Carbon sources, traces, regime (`energy/`) | none to speak of | `read`, `intensity_at`, `break_even_window_s`, sampling | HTTP services |
| Power capping (`energy/throttle_pareto.py`) | a simulation's window and counters | `simulate_policy`, `pareto` | measured cap points |
| Learning environment (`energy/rl_env.py`) | an episode | `reset`, `step` | an agent |
| Statistics (`stats/bootstrap.py`) | none | tests and intervals | the experiments |
| Baseline schedulers (`experiments/baselines/`) | none | seven schedulers | the experiments |
| Deadline and epoch drivers, comparisons (`experiments/`) | what is done so far | hourly decisions; allocators side by side | the above |
| Worker registry, checkpoint and Redis store | dictionaries, shard files | `register`, `save_shard`, ... | only their unit tests |

**What is hard here.** Three kinds of thread share the store: the loop, the
submitters and the workers. `tick` takes the store's lock once per listing and
once per update, and `by_state` hands out live objects, so everything between
two store calls may interleave with a worker that reports progress or finishes
the job. A tick reads `now` once and applies decisions later. A tick can be cut
short by an exception of the planner, or fail to reach the pool. Policies,
hysteresis counters and dual variables are one per loop, not per job. Pools,
meters and ledgers keep a belief about a world that changes on its own:
containers exit, pods are evicted, pollers outlive the `stop()` that gave up
on them, counters wrap, the grid changes between two marks. A training process
dies with its only checkpoint half written. The searches have boundary cases
(strict or not, the interval of two, float products that should be integers),
and the greedy ones claim optima that only some curves give them.

**What makes each part correct.** Admission: the answer meets deadline and
budgets, is the smallest that does, a rejection means there is none, and an
admitted job then misses its deadline only for time without workers. The
loop: each listed job is decided exactly once per tick, a finished job is not
revived, the width written respects the deadline floor, the cached partition has
the job's width, a paused job ends without replicas, and every running job is
decided again and again. Policies: a width follows only after the stated number
of ticks, and steering neither flaps nor falls behind. Partitioners: the dynamic
programs find the optimum if there is any, the window the best in its reach, and
a workload at rest ends at the optimum. Scheduler: no micro-batch is lost,
repeated or starved, a node's backward pass follows its forward pass on the last
stage, and each node gets what its weights earn. Pools: a job whose target rests
gets its replicas, and a drain that was reported is complete. Meter and ledger:
nothing is billed while nothing is metered, phases add up to the reading, the
trace gives what the meter gave. Trainer: a pause is invisible to the training,
and a deferred job completes. Planners and schedulers: what they return is the
best of what they could return, deadlines that can be met are met, and reported
carbon is what was emitted. The hazards behind each of these, line by line, are
in `PROJECT.json`.

## The modules

### Admission, loop, partition, scheduler

- **`EnergyBudgetMSS`**: `minimum_satisfactory_share` as a loop over `lo`, `hi`
  (`EarlyReturn`, `Halve`, `ShareFound`, `NoShare`) followed by the walk of
  `EnergyBudgetMSS.find` (`WalkAccept`, `WalkSkip`, `WalkExhausted`). The request
  is chosen in `Init`. Rates, energies and budgets are integers and the division
  `iters / deadline` is the product comparison `Meets`. One float effect is kept:
  `int(throughput * (iters / throughput))` may lose one iteration, so
  `BilledIters` has two elements. The carbon integral is abstracted to the set of
  GPU counts whose projected emissions fit (`job.clean`); the integral itself is
  in `CarbonEstimates`.
- **`AdmittedRun`** extends it with what becomes of the job after admission: ticks at
  any cadence (`TickAndTrain`) give it the width that some policy asks for, lifted
  to the floor of `DeadlineFloor` (an instance for each curve), and it trains at the
  curve's rate until its deadline; in a `Lapse` it has not those workers, because
  it was paused, scaling failed or no tick has come yet. `idle` is a history of
  such time. This is the promise of the selector's header
  (`deadline_selector.py:3-20`).
- **`DeadlineFloor`**: `DeadlineFloorSelector.evaluate` over any non-decreasing
  curve. Its minimum share is the declarative one; that the binary search returns
  it is `Scheduling_proofs!SearchFindsSmallest`.
- **`EnergyPolicies`**: `decide` of the power-aware and rule-based policies,
  branch by branch, over classes of samples (above, below or between the
  thresholds; dirty or clean grid). MPC and primal-dual pick any width here;
  their arithmetic is in `DeadlineRuns`.
- **`EnergyAwareLoop`**: the loop over the store, the policy, the partition
  cache and the pool; it extends the two modules above. The loop thread is the
  sequence `StartTick` (reads `now`), `ListRunning` and `ListPaused` (the two
  `by_state` calls), then per job `Decide` (policy, floor, repartition: it reads
  the live job and writes only loop-owned state), `Update` (the one
  `store.update`) and `Scale` or `ScaleFails` (the pool), and `EndTick`. Two
  exceptions end a tick before that (`Abort`, `SourceFails`) and leave the rest of
  its jobs undecided: `Crash` is the ValueError of `partition_pipeline` that no
  `except` of the tick catches, raised after the policy has counted the sample; and
  a telemetry or intensity source may raise when it is read.
  `Submit`, `Train`, `Finish` and `Elapse` are the other threads and the clock.
  `depth[j]` is the number of stages of the cached partition and `stagnant[j]`
  the tracker's count (`NoScore` while its best score is infinite). `span` is a
  history variable: how many ticks the current run of counted samples touches.
- **`PipelinePartition`**: `partition_pipeline` (the table of the dynamic
  program, backtracking through it, the builder's feasibility and empty-segment
  errors) and `incremental_partition` as operators on a workload record; no
  state. The reference definition is the best of all partitions by enumeration.
- **`Repartitioning`**: the loop's `_repartition` for one job with the real
  partitioner and tracker (best score, `min_delta`) while the context drifts
  (`Drift`). `Tick` picks a width, and the action taken is `FullDP`, `Slide` or
  `Escape`, or one of their failures.
- **`PartitionCache`**: the abstract promise about one job's cache: its depth and
  the count of calls without progress. `Repartitioning` implements it, with the
  real scores and the real tracker. `EnergyAwareLoop` abstracts the scores to "better
  or not" with the same branches, so that a refinement of it would say nothing.
- **`DeficitRoundRobin`**, **`EnergyAwareWRR`**: `pick` of both round robins, who
  is picked and what the deficits are afterwards, in units of `1/Unit`; and the
  scheduler with live weights (`Scrape` changes a node's telemetry at any time,
  `Dispatch` is one `pick` with its refresh, guard and fallback). `earned` and
  `picks` are histories.
- **`InterBatchScheduler`**: two static round robins and two queues per node.
  `EnqueueForward` and `EnqueueBackward` follow `pick` and its modulo fallback,
  `EnqueueBackwardTo` is the call with a target, `Tick` one `tick()`, which moves
  every node at once. The driver hands back each gradient once, in any order.

### Pools

- **`PoolCalls`**: the loop's side: it calls `scale(job, target)` for each job,
  one call at a time, swallows what the call raises and calls again next tick.
  `Retarget` changes what it wants.
- **`DockerPool`**: the list of names the pool believes in, next to the
  containers that run; `scale()` is split at every docker command. A name may be
  listed twice (after a run that collided), and `list.remove` forgets its first
  occurrence only. Containers exit
  on their own, `docker stop` may fail with the name forgotten all the same,
  `docker run` may collide, docker may be missing, the orchestrator may restart
  with an empty list. `blame` is a history of the faults that parted list and
  daemon.
- **`KnativePool`**: `scale()` as the patch of the annotations, then polls until
  enough pods are ready (or none is left) or time is up; the cluster, which
  starts, readies, evicts and ends pods towards the annotation, is external.
- **`ElasticPool`** composes the loop's calls with either backend.

### Metering

- **`PolledMeter`**: the marginal meter and the NVML source: a poller reads clock
  and power, then integrates under the lock; `stop()` gives up joining after its
  timeout and `start()` clears the flag that every poller watches, so two may
  run. `used` is a history of what a faithful observer saw. Its last part is the
  RAPL source: a hardware counter that wraps, and the `poll` of it.
- **`PodLedger`**: marks and the two attributions, as pure operators.
- **`MeteredEnergy`** composes a source with a ledger whose marks read it.

### Training

- **`HostTrainer`**: model, optimiser, loader, counter and checkpoint file, each
  as the number of iterations it has seen; a file may be torn.
- **`DeferredTraining`**: the three drivers (deferral, serverless, always on) as
  one thread with a program counter, the ledger, a process that `Dies` at any
  point and a `Rerun` over the same file.
- **`Training`** is the abstract specification: weights, momentum and data have
  seen the same iterations of the same run, and their number only grows.
  `DeferredTraining` implements it (`Uninterrupted`).

### Planning

Operators without state of their own, asked by **`Planning`**, whose `kind` and
`problem` say what is asked and whose actions answer it (most once; steering,
simulations, runs, episodes and the first service step by step):

- **`JointPartition`**: the dynamic programs of `joint_partition` and `stochastic_joint_partition` with their throttle levels,
  Pareto frontier and backtracking, over the workloads of `PipelinePartition`.
- **`GreedyAllocation`**: the two greedy allocators of `mss.py`, and the convexity
  checks of `energy_profile.py` that they rely on.
- **`CarbonEstimates`**: `project_emissions_g`, the two piecewise-linear lookups
  and the aggregate of sources that may fail.
- **`BaselineSchedulers`**: Optimus, Pollux and PowerFlow as one greedy loop with
  three worths; ElasticFlow and Zeus as shares and eviction.
- **`PauseMasks`**: `simulate_policy`, `simulate_masked_policy` and the
  break-even window; GREEN's masks and the median thresholds; quantiles, rotation
  and sample offsets of `trace_schedule.py`.
- **`DeadlineRuns`**: MPC's argmin over carbon, lag and switching, the
  primal-dual argmin and dual step; the multiplier search, the receding-horizon and the greedy
  controller, the epoch drivers under six policies, the learning environment's
  episode.
- **`BaselineLoop`**: the hybrid strategy planner and Perseus; `submit_job` and `ControlLoop.tick` over a job store.
- **`Comparisons`**: joint against throttled-afterwards partitions, the
  energy-budgeted scheduler, the trimmed allocation, the permutation test and
  Holm's procedure.

**`MC...`** modules give the constants their values (`MeteredEnergy` needs none:
its configuration does); **`..._proofs`** modules
hold the theorems, **`SumLemmas`** the lemmas on numbers and sums that they share. Operators marked "Slip" in the comments are mutants: plausible
bugs that `PROJECT.json` pairs with the property that must catch them. No action
uses them.

## The runs

| run | module | question | bounds |
|---|---|---|---|
| `mss_search` | `MCEnergyBudgetMSS` | is the answer the smallest acceptable GPU count, does the search end, and what does a job miss its deadline by afterwards? | every non-decreasing curve with four points and rates 0..3, 0..6 iterations, deadlines 0..3, budgets 0..6, three profiles, four forecasts; then any policy, cadence and idle time |
| `loop_floor` | `MCEnergyAwareLoop` | who does a tick touch, and at which width? | two jobs (one with a floor), any width up to 2 from the policy and 3 from the curve, clock 0..2 |
| `loop_partition` | `MCEnergyAwareLoop` | does the partition cache follow the width, and does a width change take three ticks? | one job with three layers, the power-aware policy with `hysteresis_ticks` 3 over widths 1..4, patience 2 |
| `loop_live` | `MCEnergyAwareLoop` | do paused jobs drain and running jobs get served? | two jobs whose models have one and four layers, rule-based policy, widths up to 2, a planner, sources and a pool that fail |
| `partition` | `MCRepartitioning` | do the dynamic program and the window find what they should, and does the loop end at the optimum? | eleven workloads of up to four layers and four stages, both objectives, window 1, one drift |
| `wrr` | `MCEnergyAwareWRR` | is every node paid what its changing weights earned? | three nodes, two efficiencies and saturation per node, derate 0, refresh every second pick, five picks |
| `inter_batch` | `MCInterBatchScheduler` | do the 1F1B rules lose, repeat, reorder or starve a micro-batch? | two nodes of capacity 2:1, five micro-batches, middle and last stage |
| `pools` | `MCElasticPool` | does a job get the replicas it was scaled to, and is a reported drain complete? | a docker job up to width 3; one or two jobs on one Knative service or one each, three pods a service, one eviction |
| `meter` | `MeteredEnergy` | is every joule billed once, in the phase it was spent in? | two pollers, two powers and backgrounds, clock 0..3, one traced sample, two marks; a counter range of 4 with 14 units spent |
| `training` | `MCDeferredTraining` | is a pause invisible to the training, billed rightly, and does the job complete? | four schedules of two to four hours, two thresholds, six iterations in chunks of two, two runs |
| `planning` | `MCPlanning` | do planners, schedulers and estimators answer what they promise? | 27 kinds of question, some 67,000 in all: up to four layers and three stages, three jobs on up to eight GPUs, traces of up to six ticks, runs of up to five hours, families of up to three hypotheses |

Two jobs are enough for the interleaving questions: a tick handles jobs one at a
time and jobs share only the policy (in the pools, only a service). Four GPU
counts give the binary search intervals of four, two and one and both parities of
the midpoint; six iterations in three units of time are more than a truncated
product loses, and need the fastest width or not. Widths up to one above the number
of layers meet the planner's ValueError (in `loop_partition` and `loop_live`),
patience 2 reaches the escape and its reset. The workloads of
`partition` are a uniform one and what upsets it: a heavy or slow end, a
congested link, memory and power limits that leave few or no partitions, a model
that becomes shorter than the pipeline is deep; four layers and window 1 leave
optima the window cannot reach. In `wrr`, `Unit` 60 is divisible by every sum of
weights that occurs, so the arithmetic is exact; the code's floats may leave a
deficit just below one and delay a pick, which the model does not show. Derate 0
with every node saturated meets the fallback. The two-to-one capacities of
`inter_batch` give picks that find nobody due. In `pools`, width 3 gives a
docker scale-up and scale-down of several commands to fail between; three pods
hold an old pod that terminates next to two new ones. In `meter`, two pollers
are one straggler and its successor, and 14 units over a range of 4 wrap three
times. In `training` one schedule never pauses, one has no clean hour at a
threshold, and a second run meets the file of the first. The questions of
`planning` hold every curve in a family that is concave and one that is not,
measured throttle curves and parametric ones, ties, zeros, saturated jobs and
budgets that bind or do not; three stages have a first, a middle and a last one.
The proofs remove the bounds for the properties they cover.

Deadlock checking is off because the programs do stop: the search when it has an
answer, the jobs when they have finished, a stage when everything is drained, a
question when it is answered; the clock, drift, picks, pods, marks and runs are
bounded.

What the runs show, beyond the statements in the modules:

- **Loop.** A planner that finds no partition and a pool call that fails cost no
  other job its turn. A model with fewer layers than the GPUs its job is to get does:
  the ValueError of `energy_aware_control_loop.py:210` leaves `tick`, and since the
  lists come in insertion order every later job goes undecided for as long as it
  recurs. A source that raises (`:157-176`) has the same effect. `EveryJobServed`
  and `PausedReleasesPool` therefore except a job for as long as it keeps being
  dropped by these two (`DropsJob`), and no other.
- **Admission.** The answer is exact from below; from above it may overrun the
  energy budget by less than the one iteration that `int()` loses. A job that had
  the workers of every tick is finished when its deadline comes, whatever the
  policy asked for and however irregular the ticks were (`BehindOnlyByIdling`).
- **Pools.** A docker pool's list and the daemon part only through three faults:
  a container that exits, a stop that fails, a restart. After any of them
  nothing in the code brings list and containers together again, so
  `PoolConverges` excludes such jobs; failed `docker run`s never matter. Two
  jobs on the default shared service overwrite each other for ever.
- **Meter.** `NothingBilledUnmetered` needs its condition that no poller
  overlapped: a poller that outlives the two seconds `stop()` waits for it
  is set going again when `start()` clears the shared flag, and brings an old
  sample back. Energy still adds up between the phases (`LedgerBalances` has no
  such condition). The NVML source, unlike the marginal meter, does not forget its
  last sample when started again and bills the gap (`telemetry.py:282`).
- **Training.** "continues exactly" (`host_trainer.py:82`) holds of weights,
  momentum and count; the order of the data begins anew wherever the loader was
  torn down. The serverless driver marks its phases at transitions only, so that
  an active interval that outlasts a change of the grid is billed at the
  intensity it began with (`exp_serverless_training_ledger.py:78`,
  `pod_ledger.py:58`). The deferral driver ends without saving the final model.
- **Allocators.** The cheapest allocation is optimal where the cost of an added
  iteration climbs (`Climbs`). Convex power and a job that has a GPU give that
  (`ConvexPowerClimbs`); convex energy per iteration gives it past the minimum of
  the energy only (`RisingEnergyClimbs`), see the disagreements below. The step
  from no GPU to the first is seen by neither check. The energy-budgeted
  scheduler checks only the share it admits with: the hand-out that follows may
  raise a job above its own budget (`exp06_eb_mss_vs_elasticflow.py:91`). Eviction
  of the largest first spares as many jobs as any choice could. PowerFlow stops at
  the first GPU that breaks its budget even when a cheaper one fits
  (`powerflow.py:131-133`). Optimus gives nothing to a job that stands still at its
  first GPU. When no point is in time, Zeus returns the smallest point, not the
  cheapest (`zeus.py:58-61` says min-cost; the penalty is infinite for all alike).
  Trimming stays on the frontier (`exp05_eb_mss_vs_powerflow.py:49`) for concave
  rates and convex powers.
- **Planner.** `dp = n // mp` alone misses faster pairs only for large bubbles:
  up to half a stage per bubble there are none (`HybridIsFastest`).
- **Deadlines.** The multiplier found by halving is the smallest that is enough,
  which bounds what the plan costs: against any other plan it pays at most the
  multiplier for each iteration it does more, so it is cheapest among plans that do
  no less than it (`OfflineIsPricedRight`), but not among those that do enough (see
  the disagreements). `carbon_deadline_aware` defers at a slack equal to what remains
  (`exp_endtoend_full_stack.py:263`) and loses up to one epoch; it may emit more
  than training at once. The greedy policy's choice never depends on the
  intensity, which multiplies every action's energy alike. The learning
  environment projects its overshoot from the time before the tick and the
  iterations after it, one tick too hopeful (`rl_env.py:165`): an overshoot of zero
  may hide a deadline missed by what one tick does.
- **Carbon.** `mss.py:17-18` promises a worst-case emission bound where the code
  integrates the forecast. `int()` of every 300-second slice bills nothing for a
  job slower than one iteration a slice (`mss.py:146`). In a cap simulation a
  window below half an iteration never progresses. The band of the summed
  uncertainties holds every reading unless the disagreement is flagged. GREEN's
  online mask does not keep to the pause budget that `green.py:20-21` promises of
  both flavours; the offline one does, and at the median's budget pauses the
  same ticks.
- **Baseline loop.** After a pause every job holds the fewest GPUs whatever it was
  admitted with, medium samples keep it there, and a paused job still holds a GPU
  (`control_loop.py:57`). Nothing in the API ever completes a job.

One run has the expected result *violation*: `loop_shared_hysteresis`. The
docstring says a width changes after "consecutive ticks" (`policy.py:62-66`), but
the counters belong to the policy object and every job of a tick advances them,
so that a width changes within a single tick. With one job the same property
passes (`loop_partition`).

More disagreements have no run of their own:

- The docstring of the cheapest hand-out leaves open a proof of optimality that
  "relies on convex per-iter energy in GPU count" (`mss.py:251`). That is not enough:
  for a U-shaped profile of the tests (`test_energy_profile.py:106-112`) an iteration
  that its second GPU adds costs a little more than the other job's, one that its third
  adds far less, and one GPU at a time all of them go to the other job; another
  allocation of as many GPUs is faster and draws less (`ConvexEnergyIsNotEnough`, an
  assumption of `MCPlanning` that TLC evaluates in `planning`).
  `energy_profile.py:109-112` says so too; only tests call the check it recommends.
- "Pick the per-step action set minimising total emissions while doing exactly
  ``deadline_iters`` of work" (`exp_online_deadline.py:93-94`): one multiplier for all
  hours cannot mix actions in hours that are alike. With rates 1, 2, 4 and energies 4,
  5, 7 in three equal hours its plans do 3, 6 or 12 iterations and none does 4; asked
  for 4 it takes the middle action three times, 6 iterations for 30, where slow, slow,
  middle does 4 for 18 (`NoMultiplierIsExact`, an assumption of `MCPlanning`).
- A truncated float product leaves one iteration unbilled, so that an admitted job
  may exceed its energy budget by less than it (`mss.py:130` against "Binding
  constraint", `:104-105`); `SmallestFit` says by how much.
- A pause scales to zero whatever the floor (`energy_aware_control_loop.py:301`
  against `deadline_selector.py:11-13`), and overwrites the width that `:295-298`
  says is retained. `BehindOnlyByIdling` says what a pause may cost.
- After a failure of the planner the partition in the result has another depth
  than the job (`:239`, `:282-283`).
- When nothing in the window fits, the previous partition is returned although it
  no longer fits (`partitioner.py:361` against `:15-16`).
- `cluster_size` (`energy_aware_control_loop.py:132`) is never read, so the model
  has no such constant. `energy_admit_or_drop` leaves a job ADMITTED, which no
  tick lists; the submitter of the model starts the job, as the API does. A
  finished job's replicas are never scaled down.
- A derate factor of zero "fully excludes" a node (`inter_batch.py:109`), but
  credit from before still gets it picked; `PaidWhatEarned` says how much.

## Fairness

`Spec` has no fairness; safety and action properties are checked under it.
`EnergyAwareLoop!FairSpec` adds weak fairness of the loop thread. That is an
assumption about the loop's caller: the service calls the baseline loop's `tick`
on a fixed cadence for ever and catches what escapes it (`api.py:88-96`), but in
this repository only tests call that of `EnergyAwareControlLoop`. It also adds strong fairness of a job's successful
pool call: a pool that fails now and then is in, one that fails for ever is out.
Nothing is assumed of submitters, trainers, sources or the clock. `EnergyBudgetMSS`
has weak fairness of its only thread, and `AdmittedRun` of the admission only.
`Repartitioning` has weak fairness of its tick under the same assumption, and none of the drift: `EventuallyOptimal` speaks of workloads that come to rest.
`InterBatchScheduler` has weak fairness of `Tick`: a driver that stops calling
`tick()` while `pending()` is positive trains nothing. Submission and the return
of gradients are not fair. `ElasticPool` has weak fairness of the pool's commands
returning (they have timeouts), strong fairness of each job's call beginning and
of its succeeding, because the loop calls `scale` for every job it lists, for
ever, and weak fairness of the cluster, which reconciles services on its own;
nothing is assumed of retargeting, exits, evictions or restarts.
`DeferredTraining` has weak fairness of the driver's own steps and none of dying
or of being run again. `Planning` and `MeteredEnergy` state no liveness.

## What is proved

Every safety invariant and action property that the runs check of admission, the
control loop, the partitioner, the schedulers, the pools, the meters, the ledger
and the training drivers is also a theorem, and so are six of what `Planning`
asks: that shares handed out GPU by GPU are the best, that deadlines are kept, that
steering is steady, that carbon is accounted for, that the tests' verdicts are sound
and that pauses pay just when the closed form says so. They hold for every value of the constants under the named assumptions of the modules. Those
assumptions say that counts are numbers and sets are not empty, and in addition:

| assumption | what it says beyond types | why the code justifies it |
|---|---|---|
| `CurveAssumption` | throughput does not fall with more GPUs | `ScalingCurve`'s docstring, `mss.py:29-47` |
| `ExactShares` | `Unit` is the sum of the capacities | the code divides by that sum, `inter_batch.py:38-43` |
| `ExactWeights` | the weights of any telemetry add up to `Unit` | the code's fractions add up to one, `inter_batch.py:84-87`, `:153-156`; float rounding is left out |
| `RepartitioningAssumption` (`IsWorkload`) | a model has layers, prefix sums do not fall, and there is a profile for every stage | the sums are of non-negative layer profiles, `partitioner.py:206-223` |
| `DeadlineAssumption` (`IsRun`) | a faster action takes more energy | the action set goes "from slow-and-efficient to fast-and-wasteful", `exp_online_deadline.py:55-63` |
| `DeadlineAssumption` (`IsEpochs`) | the throttled epoch takes no more energy, and throttling begins below deferring | `OPTIMAL_CAP_W` is "energy-optimal", `exp_endtoend_full_stack.py:24`, `:77-78`; "Defer at the highest tier; throttle at the middle tier", `:255`, and the default multipliers, `:390-392` |
| `SteeringAssumption` (`IsService`) | a bubble costs at most half a stage; curves are no longer than `MaxGpus` | `pipeline_alpha` is 0.05, `planner.py:78`; both are 16, `api.py:83`, `:124` |
| `CarbonAssumption` | forecasts are long enough; samples are in time order and the first has its time to itself; a source is uncertain by an eighth of its reading at least, and sources that are a fifth apart are flagged | the forecast is a function of time, `mss.py:146`; traces are sorted, `carbon_trace.py:96`, with a row an hour, and so are anchors, `background.py:36`; the sources' fractions, `carbon_sources.py:89`, `:137`, `:196`, and the default threshold, `:276` |
| `AllocationAssumption` (`IsHandOut`) | a job's two curves are equally long, and it holds no more GPUs than they have points | `EnergyProfile.__post_init__`, `energy_profile.py:43-54`; a job is admitted with a share of its curve, `mss.py:57-79` |
| `VerdictAssumption` (`IsVerdict`) | there is a difference at least | without one the test returns 1.0 before it counts, `stats/bootstrap.py:128-129` |
| `MeterAssumption` | `None` is no thread | it stands for Python's |
| `KnativeAssumption` | every setup maps each job to a service | the adapter resolves a pool for any job, `scale_adapter.py:54-55` |
| `DriverAssumption` | schedules are sequences of integers, not empty, and `max_ticks` leaves time for the job (which only `Completes` needs) | the drivers index them modulo their length; in units, intensities are whole |

**`EnergyAwareLoop_proofs`**:

- `TypeCorrect`: widths stay within the curve and the policy's limits.
- `DecidedOnce` and `FinishedIsFinal`, from `TickInv`: while the loop lists jobs
  nobody else pauses one, so the two lists are disjoint, and no job in hand is
  still to be submitted.
- `FloorRespected`, from `FloorInv` (the decided target is at least the floor
  until it is written) and `FloorAntitone`: less work never needs more GPUs. It
  assumes `InfeasibleFloor >= CurveMax`, the selector's default: with a smaller
  ceiling a deadline that becomes feasible may *raise* the floor.
- `CacheIsFresh`, from `CacheInv`: only jobs with a context that have been in
  hand have a cached partition, and it has the depth of the decided target. It
  assumes a planner that always finds a partition; after a failure the old
  partition stays in the result.
- `WidthsTakeTicks` (`HysteresisSpansTicks`), from `SpanInv`: until its job is
  decided a tick has touched the current run of samples once more than the
  counters count, and the two counters never run together. It assumes a single
  job. That is the condition under which the docstring is right: the run
  `loop_shared_hysteresis` violates the property with two.

**`Partition_proofs`**, for any number of layers, stages and drifts:

- `FullPlansAreOptimal` (`FullIsOptimal`). The heart is `TableSolves`: row `s` of
  the table holds, for every prefix of the layers, the least score of any way to
  give it to the first `s` stages, and an entry exactly where there is a way. It is
  proved of abstract rows (`Solves`) by induction over the stages, from what one
  entry is (`CellIsLeast`, where the first of the least ends wins), and a walk
  through the cut points is compared with any other (`NoWalkIsCheaper`): with the
  largest or with the sum, a cheaper prefix never makes the whole dearer
  (`JoinMonotone`). `BacktrackingWalks` follows the stored cuts back, and
  `FeasibleWalks`, `WalksAreFeasible` and `ScoreIsWhole` tie walks to the builder's
  partitions and scores.
- `SlidPlansAreOptimal` (`WindowIsOptimal`): the candidates are exactly the feasible
  cuts in reach (`CandidatesAreReach`), and the first best of them is kept
  (`FirstOfAll`, `IncrementalIsBest`).
- `CacheKeepsPromise` (`ImplementsCache`): with the real scores too, every step of
  `Repartitioning` is a step of `PartitionCache` or a stutter (`StepMovesCache`).
- All three rest on `Inv`: what is cached has as many cuts as its depth takes and a
  finite score.

**`Scheduling_proofs`**: admission first.

- `TypeCorrect`, `SearchFindsSmallest` (`SmallestShare`) and `AdmissionIsExact`
  (`SmallestFit`). The inductive invariant says that everything below `lo` fails,
  everything from `hi` on passes if anything does, and every GPU count the walk has
  left behind was not acceptable. Monotonicity of the curve carries a probe's result
  to all smaller or larger counts.
- `DeadlineSurvivesTicks` (`BehindOnlyByIdling`). Admission gives the invariant at
  submission: an acceptable count does the iterations in time, hence the fastest
  does. A tick keeps it: if the work left is beyond the fastest width, the floor is
  the fastest width; otherwise the floor's rate is enough for all the time left, so
  what is left after part of it is still within reach.
- `FairlyPaid` (`PaidWhatEarned`) and `RarelyEmpty` (`FewEmptyPicks`) of the live
  weights. `CreditIsShort` says that the deficits add up to a unit for each pick
  that found nobody due, and to at most `N - 1` units: when they add up to `N` or
  more somebody is due. `DeficitIsUnpaid` ties each deficit to what the node earned.
- `BackwardNext` (`BackwardFollows`), from `OneActivation`: on the last stage a
  backward queue is empty or holds just the micro-batch the node ran last. Without
  it the queue might hold older work, which would go first.
- `PassesHappenOnce` (`NothingLostOrRepeated`), from `FlowInv`: where a
  micro-batch is queued (one slot of one queue, or none) follows from where it has
  run in each direction.
- `SharesAreFair` (`DispatchProportional`), from `ShareInv`: what a node was
  credited and not charged is its deficit plus the picks the modulo fallback gave
  it. The number of those fallbacks is in no variable, so the invariant quantifies
  over it; the sum of the deficits stays below `N` units and bounds it.

**`Planning_proofs`**: a question is answered by its own actions only
(`OwnAction`), so each kind has an invariant of its own.

- `SharesAreOptimal` (`MarginalSharesAreBest`), from `ShareInv`; it is the proof that
  `mss.py:251` calls pending. The loop keeps a price: for the fastest
  hand-out a number of iterations that every GPU handed out so far gains at least and
  every further one at most (`Level`), for the cheapest a quotient that every GPU handed
  out draws at most for an iteration and every further one at least (`Price`). Picking
  the best next GPU and making its worth the new price keeps that (`LevelKept`,
  `PriceKept`), because the worth of a job's GPUs only falls (`GainsFall`) or their cost
  only climbs (`CostsClimb`). At a fixed price an allocation that keeps to it has the
  greatest surplus job by job (`LevelIsPeak`, `PriceIsPeak`), hence in total
  (`WorthMost`), whatever the other allocation is. Quotients are compared by cross
  multiplication, as in the model. `ConvexPowerClimbs` and `RisingEnergyClimbs` say
  which checked profiles meet the condition.
- `DeadlinesKept` (`DeadlinesAreKept`), from `DeadlineInv`. The receding-horizon
  controller takes an hour of a plan that does at least its part of what remains:
  halving ends on a multiplier that is enough, or on the largest one, at which every
  action is the fastest (`SearchLeadsToEnough`, `OfflineKeepsUp`); and an hour of
  such a plan leaves what remains reachable although the forecast will be another
  one (`HourOfPlan`: were the first hour too slow, the rest of the plan could not
  make up for it). `GreedyKeepsUp` takes the slowest action whose rate is enough,
  or the fastest. The epoch drivers need one strengthening, `SavedEnough`: each
  epoch deferred has saved at least an epoch at the threshold, which pays for
  making it up at any later intensity that is not deferred. An episode needs that
  its last projection is the one of the tick before, and by how much it may have
  worsened since the width was taken (`ProjectionKeeps`).
- `PoliciesAreSteady` (`SteeringIsSteady`), from `SteeringInv`. For MPC the price of
  a switch does not depend on where it goes (`MPCHolds`), so the argmin keeps
  itself. For primal-dual `eta * debt <= lambda <= DebtBound`: above a dual variable
  of intensity times the steepest cost per iteration the fastest width is chosen
  (`LargeDualIsFast`), and an attainable target is met by it. For the service every
  job holds at least twice as much with every clean sample since the dirty one, and
  paused jobs are alike (`JobInv`, `Alike`). That its planner's choice is the fastest of
  *all* pairs, though it looks at one replica count a depth, is `HybridIsFastest`: with
  an unsplit batch extra replicas never pay (`OneReplicaIsAsGood`) and more stages
  do (`DeeperIsAsGood`); with a split batch a pair that is not looked at leaves
  workers idle, and either one more replica is free or one stage more
  (`MoreReplicasPay`, `FewerReplicasPay`, `CountsAround`), but for three workers,
  which are a case of their own. It needs the bubble of at most half a stage.

- `CarbonAccounted` (`CarbonIsAccounted`), from `CarbonInv`. A slice loses the
  remainder of a division (`SliceRounds`, `EstimateIsClose`). The binary search ends
  on neighbours of which just the first is not after the time (`NarrowingFinds`), as
  does `bisect` (`BackgroundIsRight`), and no other pair brackets it
  (`BracketIsOnly`). Of `n` readings within `d` of each other none is further than
  `(n - 1) * d` from `n` times the mean (`ReadingsAreClose`), the root of the sum of
  squares is at least `5 * sqrt(n)` fortieths of the least, and `4 (n - 1)^2 <= n^3`
  (`CubesCover`, `BandCovers`). Ranks are a permutation (`RankedHasRank`), so fewer
  than `k` values lie below the one of rank `k` and `k` at least not above it
  (`SortedCuts`); rotation is one too (`TurnedIsBijection`), and what is sorted is
  determined by such counts (`SortedAsCut`). A window's rounding adds half an
  iteration at most (`CountGrows`).
- `VerdictsStand` (`VerdictsAreSound`), from `VerdictInv`. The identity and the full
  flip of the signs are always extreme; if two differences disagree, a third
  assignment is too (`FloorIsTwo`); negation maps the extreme
  assignments of one side onto those of the other (`SidesAreAlike`, `SumNegated`). For
  the step-down procedure (`HolmIsClosed`): of `n` hypotheses `n + 1 - k` are ranked
  `k` or later, so the least-ranked member of an intersection was tested at a
  threshold no looser than the intersection's own, and all of those ranked `k` or
  later are an intersection with just that threshold.
- `PausesPay` (`PausePaysBeyondBreakEven`), from `PauseInv`. Both simulations have a
  closed form at every window (`Compared`): `TrainedInv` says what `d` dirty windows
  and `x` parts of work emit when all are trained in, `PausedInv` what they emit when
  the dirty ones are paused in, with one resumption once the run is over, and
  `Lockstep` that the simulation that pauses is never ahead, so that it too has left
  the dirty run behind when the other has. Equal work (`TrainingIsWhole`: whole
  iterations are billed as counted) makes the bills comparable, and their difference is
  the closed form's inequality (`BillsCompare`). A last dirty window that the job ends
  in is trained in part only, so the closed form excepts it; `Comparable` does not
  end there.

**`ElasticPool_proofs`**:

- `ListIsTrusted` (`ListMatchesDaemon`), from `ListInv`: names are dense but for
  those of the stop in progress, which are the rest of the surplus in order, and a
  run in progress continues the count.
- `DrainsAreFinal` (`DrainIsFinal`), from `DrainInv`: while a call polls, the
  service's annotation is what that call patched.

**`MeteredEnergy_proofs`**:

- `CounterIsTrusted` (`WrapsAreCounted`), from `RaplInv`: between two polls the
  counter wraps at most once unless a poll was missed, and then the difference is
  right or short by the one unit that the range may leave out.
- `ReportsBalance` (`LedgerBalances`), from `MarksInv`: marks rise with the clock
  and the meter, so no difference is clamped and they telescope.
- `OnlyMeteredIsBilled` (`NothingBilledUnmetered`), from `SessionInv`: as long as
  no `stop()` gave up on its poller, only one poller holds a sample, and what it
  still may bill was metered.
- `TraceIsTheMeter` (`TraceMatchesMeter`), from `MarksInv` and `TraceInv`: in the
  first recorded session the samples rise in time, and their rectangles add up to
  the reading; cutting a slice at a mark leaves its energy the same.

**`DeferredTraining_proofs`**:

- `BillsBalance` (`BilledWhereSpent`), from `LedgerInv`: the phase that runs is the
  one the driver is about to spend on and, unless it is the serverless driver,
  was marked at the intensity of the moment.
- `PausesAreInvisible` (`ImplementsTraining`), from `TrainInv`: whenever the model
  is off the GPU the file is whole, of this run and at the trainer's count. Every
  step of a driver is a step of `Training` or a stutter.

**`SumLemmas`** carries what the proofs share: facts about products, quotients, halving
and rounds of a loop (`RoundsExist`), and the arguments about sums: the community modules define a
sum by a fold over a set in an arbitrary order, and the lemmas show that its value
does not depend on the order (`SumsExist`, `SumsAgree`), how it changes with one
value or one element, that it is bounded, and that differences telescope. The
induction behind them is stated over sets (`Induction`: a set of numbers that holds
0 and with `n` also `n + 1` holds all), since the provers cannot instantiate a
theorem that takes an operator.

To be reasoned about, some definitions were given another shape with the same
values: `PipelinePartition!Table` is a row of cells for each stage,
`DeadlineRuns!Search` and the search of `CarbonEstimates!IntensityAt` are functions
of the pair of ends, and `PauseMasks!Sorted` picks by rank.

While the proofs were written two definitions turned out to be wrong or too narrow
and were corrected: `DockerPool` removed every occurrence of a name where
`list.remove` removes the first (`local_pool.py:42-45`), and `Slots` of
`InterBatchScheduler` only looked at the first `MaxBatches` places of a queue.

Model-checked only:

- Liveness (`Terminates`, `EveryJobServed`, `PausedReleasesPool`,
  `EventuallyOptimal`, `Drains`, `PoolConverges`, `Completes`), which is outside
  the prover's reach.
- One of what `Planning` asks: `PlansAreOptimal`, with `AllocationsAreBest` of the
  schedulers that HASAGI is compared with. It joins several planners and schedulers,
  and some of its parts hold only of the families of curves that their questions are
  drawn from (`Planning` has no assumption that says so in general). The part about
  the strategy planner is proved (`HybridIsFastest`).

## Not modelled, and the plan

What is left is proofs: the joint program's frontier dominates every choice of
throttles, along the lines of `TableSolves` with a set of entries in place of the
least one; the multiplier found by halving prices extra iterations right and is the
smallest that is enough (`OfflineIsPricedRight`); the argument of `SharesAreOptimal`
for Optimus and Pollux, whose worths are fractions too.

Not modelled, and why:

- Worker registry, checkpoint store, Redis store: no program uses them. The
  checkpoint store would lose its index across a restart (it begins with an empty
  one and writes it over the file, `state/checkpoint.py:35`).
- Knative and Docker HTTP workers: they wrap one training call; the service limits
  itself to one request at a time.
- Fake, aggregate and Prometheus telemetry, HTTP transport of the carbon clients,
  CSV loading: they hand data on.
- Details of modelled operators: a link without bandwidth, which makes every
  partition that uses it infinitely slow (`partitioner.py:114-115`), so that the full
  program finds none and the window keeps the previous cuts; float ties where
  `mss.py:163` tests a truncated count against the budget; how the deferral driver's
  ledger integrates its trace up to a mark (`DeferredTraining` hands it the meter's
  reading of that time, `TraceMatchesMeter` relates the two); a cap point that
  measures no throughput and no energy, which equals the point of a pause.
- Curve fitting, calibration, trace generators, bootstrap intervals, the neural
  policy: floating-point or random numerics.
- The other experiments: most of `experiments/` are drivers around measurements
  (hardware caps, wire-level transfers, real training), sweeps, plots and reports,
  whose state is the hardware's. Their control is a loop over a grid of parameters.
- PyTorch, HTTP, metrics and logging: external, or without control.
