---------------------------- MODULE Comparisons ----------------------------
(***************************************************************************)
(* How the experiments compare this system with the others: its joint      *)
(* partitions with partitions that are throttled afterwards, its energy-   *)
(* budgeted scheduler with ElasticFlow and PowerFlow, and the tests that   *)
(* decide whether a difference is one.                                     *)
(***************************************************************************)
EXTENDS BaselineSchedulers, JointPartition, PauseMasks, TLC

(* evaluate_workload.  A level of a joint problem also has its ratio, of   *)
(* which Unthrottled is the whole.                                         *)

Slowest(times) == CHOOSE t \in Range(times) : \A s \in DOMAIN times : times[s] <= t

\* Slip: the ratio is rounded down.
RatioBelow(w, K, cuts, s) ==
  LET times == [r \in 1..K |-> TimeOf(w, K, cuts, r)]
      slower == {r \in DOMAIN w.levels :
                   w.levels[r].ratio * Slowest(times) <= times[s] * Unthrottled}
  IN  IF slower = {} THEN 1 ELSE CHOOSE r \in slower : \A q \in slower : r >= q

\* The lowest ratio at which the stage is not slower than the slowest one.
RatioAbove(w, K, cuts, s) ==
  LET times == [r \in 1..K |-> TimeOf(w, K, cuts, r)]
      fast == {r \in DOMAIN w.levels :
                 w.levels[r].ratio * Slowest(times) >= times[s] * Unthrottled}
  IN  CHOOSE r \in fast : \A q \in fast : r <= q

Untouched(w, K, cuts) == [cuts |-> cuts, levels |-> [s \in 1..K |-> Len(w.levels)]]
Perseus(w, K, cuts) == [cuts |-> cuts, levels |-> [s \in 1..K |-> RatioAbove(w, K, cuts, s)]]

\* pipeline_time <= t_floor
OnTime(w, K, plan) ==
  \A s \in 1..K :
    TimeOf(w, K, plan.cuts, s) * w.levels[plan.levels[s]].time <= w.floor * Unthrottled

Stacked(w, K) ==
  LET bottleneck == PartitionPipeline("bottleneck", w, K)
      energy == PartitionPipeline("energy", w, K)
  IN  [bottleneckOnly |-> Untouched(w, K, bottleneck), energyOnly |-> Untouched(w, K, energy),
       bottleneckPerseus |-> Perseus(w, K, bottleneck), energyPerseus |-> Perseus(w, K, energy),
       joint |-> JointPlanOf(w, K)]

-----------------------------------------------------------------------------
(* The energy-budgeted scheduler.  A job has its budget, and lost is the   *)
(* iteration that int() may drop.                                          *)

\* EnergyBudgetMSS.find with a profile.
BudgetedShare(job) ==
  LET fits == {g \in OperatingPoints(job) :
                 MeetsDeadline(job, g) /\ job.energy[g] * (job.iters - job.lost) <= job.budget}
  IN  IF Share(job) = 0 \/ fits = {} THEN 0 ELSE CHOOSE g \in fits : \A h \in fits : g <= h

\* Curve and cost of a job for greedy_marginal_energy_allocation.
Profiled(job, g) ==
  [rate |-> job.rate, power |-> [h \in DOMAIN job.rate |-> job.energy[h] * job.rate[h]], cur |-> g]

\* schedule_hasagi_eb: who is admitted, in the order of the list, which eviction
\* leaves sorted by share.
Queue(jobs, available) ==
  LET share == [j \in DOMAIN jobs |-> BudgetedShare(jobs[j])]
      listed == SelectSeq([j \in DOMAIN jobs |-> j], LAMBDA j : share[j] # 0)
      byShare == SortSeq(listed, LAMBDA i, j : share[i] > share[j] \/ (share[i] = share[j] /\ i < j))
      total(q) == SumFunction([k \in DOMAIN q |-> share[q[k]]])
      fits == {q \in {SubSeq(byShare, k, Len(byShare)) : k \in 1..(Len(byShare) + 1)} :
                 total(q) <= available}
  IN  IF total(listed) <= available THEN listed
      ELSE CHOOSE q \in fits : \A r \in fits : Len(r) <= Len(q)

HasagiEB(jobs, available) ==
  LET queue == Queue(jobs, available)
      admitted == [k \in DOMAIN queue |-> Profiled(jobs[queue[k]], BudgetedShare(jobs[queue[k]]))]
  IN  [queue |-> queue, admitted |-> admitted, alloc |-> CheapestAllocation(admitted, available)]

\* hasagi_eb_allocate: every job has a GPU, the rest is handed out, and GPUs are
\* taken back, the one with the highest cost per iteration first, while all of
\* them together use more than the budget.
Trimmable(admitted, alloc) ==
  {j \in DOMAIN admitted : alloc[j] > 1 /\ Gain(admitted[j], alloc[j] - 1) > 0}

\* Slip: the cheapest GPU is taken back.
DearestSwapped(admitted, alloc) ==
  LET open == Trimmable(admitted, alloc)
      ratio(j, k) == Cost(admitted[j], alloc[j] - 1) * Gain(admitted[k], alloc[k] - 1)
  IN  CHOOSE j \in open : \A k \in open :
        ratio(j, k) < ratio(k, j) \/ (ratio(j, k) = ratio(k, j) /\ j <= k)

Dearest(admitted, alloc) ==
  LET open == Trimmable(admitted, alloc)
      ratio(j, k) == Cost(admitted[j], alloc[j] - 1) * Gain(admitted[k], alloc[k] - 1)
  IN  CHOOSE j \in open : \A k \in open :
        ratio(j, k) > ratio(k, j) \/ (ratio(j, k) = ratio(k, j) /\ j <= k)

OnePerJob(jobs) == [j \in DOMAIN jobs |-> Profiled(jobs[j], 1)]

Trimmed(jobs, available, budget) ==
  LET admitted == OnePerJob(jobs)
      given == CheapestAllocation(admitted, available)
      after[n \in Nat] ==
        IF n = 0 THEN given
        ELSE LET alloc == after[n - 1] IN
             IF TotalEnergy(jobs, alloc) <= budget \/ Trimmable(admitted, alloc) = {} THEN alloc
             ELSE [alloc EXCEPT ![Dearest(admitted, alloc)] = @ - 1]
  IN  after[SumFunction(given)]

-----------------------------------------------------------------------------
(* Statistics: paired_permutation_pvalue of a sequence of differences, as  *)
(* how many of the 2^n signs are extreme, and holm_bonferroni of p-values. *)

Magnitude(n) == IF n < 0 THEN -n ELSE n

SignedSum(diffs, signs) ==
  SumFunction([k \in DOMAIN diffs |-> IF signs[k] THEN diffs[k] ELSE -diffs[k]])

Extreme(diffs) ==
  LET observed == Magnitude(SumFunction(diffs)) IN
  Cardinality({signs \in [DOMAIN diffs -> BOOLEAN] :
                 observed = 0 \/ Magnitude(SignedSum(diffs, signs)) >= observed})

\* The places of the p-values, the smallest first.
ByPValue(p) == Ranked(p)

\* Slip: what follows a hypothesis that stands is tested all the same.
HolmUnblocked(p, alpha) ==
  {ByPValue(p)[k] : k \in {k \in DOMAIN p : p[ByPValue(p)[k]] * (Len(p) + 1 - k) <= alpha}}

\* The hypotheses that are rejected.
Holm(p, alpha) ==
  {ByPValue(p)[k] : k \in {k \in DOMAIN p :
     \A l \in 1..k : p[ByPValue(p)[l]] * (Len(p) + 1 - l) <= alpha}}

-----------------------------------------------------------------------------
(* What the comparisons are worth.                                         *)

\* The partition for the bottleneck is in time whenever any plan is, and throttling
\* it keeps it so if no level is slower than its ratio.  The joint plan is as good
\* as each of the others that is in time, although only the joint one is held to
\* the caps at its levels; without a partition within the caps at full speed there
\* is no comparison, as partition_pipeline raises.
StackedIsNoBetter(w, K, r) ==
  LET others == {r.bottleneckOnly, r.energyOnly, r.bottleneckPerseus, r.energyPerseus}
      inTime == {p \in others : OnTime(w, K, p)}
      proportional == \A l \in DOMAIN w.levels :
        w.levels[l].time * w.levels[l].ratio <= Unthrottled * Unthrottled
  IN  /\ r.bottleneckOnly \in inTime <=> r.joint # NoPlan
      /\ proportional /\ r.bottleneckOnly \in inTime => r.bottleneckPerseus \in inTime
      /\ proportional /\ r.energyOnly \in inTime => r.energyPerseus \in inTime
      /\ \A p \in inTime : r.joint # NoPlan /\ EnergyOf(w, K, r.joint) <= EnergyOf(w, K, p)

\* Every admitted job meets its deadline and begins within its budget; no set of
\* jobs with a share could have been spared that is larger, none that ElasticFlow
\* would turn away for its number is admitted, and the rest is handed out best.
BudgetedIsBest(jobs, available, r) ==
  LET share == [j \in DOMAIN jobs |-> BudgetedShare(jobs[j])]
      spared == Range(r.queue)
  IN  /\ \A k \in DOMAIN r.queue : LET job == jobs[r.queue[k]] IN
           /\ MeetsDeadline(job, r.alloc[k])
           /\ job.energy[share[r.queue[k]]] * (job.iters - 1) <= job.budget
      /\ \A S \in SUBSET {j \in DOMAIN jobs : share[j] > 0} :
           SumFunctionOnSet(share, S) <= available => Cardinality(S) <= Cardinality(spared)
      /\ Cardinality(spared) <= Cardinality(DOMAIN ElasticFlow(jobs, available))
      /\ spared # {} => CheapestIsBest(r.admitted, available, r.alloc)

\* Trimming ends within the budget unless no GPU can be taken back, gives back
\* nothing that fits, and stays on the frontier of throughput and power.
TrimmedIsBest(jobs, available, budget, alloc) ==
  LET admitted == OnePerJob(jobs)
      given == CheapestAllocation(admitted, available)
  IN  /\ TotalEnergy(jobs, alloc) <= budget \/ Trimmable(admitted, alloc) = {}
      /\ \A j \in DOMAIN jobs : 1 <= alloc[j] /\ alloc[j] <= given[j]
      /\ alloc # given =>
           \E j \in DOMAIN jobs :
             alloc[j] < given[j] /\ TotalEnergy(jobs, [alloc EXCEPT ![j] = @ + 1]) > budget
      /\ (\A j \in DOMAIN jobs : Climbs(admitted[j])) => DrawsLeast(admitted, alloc)

\* What is judged: p-values and differences, both whole for their level; without
\* differences there is no floor (1.0 is returned).
IsVerdict(v) ==
  /\ v.p \in Seq(Nat) /\ v.alpha \in Nat
  /\ v.diffs \in Seq(Int) /\ v.diffs # <<>>

\* A p-value is never below its floor of two signs, however the differences tie,
\* does not depend on which of the two is subtracted, and is at its floor only when
\* all differences agree.  Step-down testing rejects what closed testing rejects:
\* the hypotheses all of whose intersections are rejected by Bonferroni's rule,
\* so that it errs no more often than one test at the level.
VerdictIsRight(p, alpha, diffs, verdict) ==
  /\ verdict.rejected =
       {k \in DOMAIN p : \A S \in SUBSET DOMAIN p :
          k \in S => \E l \in S : p[l] * Cardinality(S) <= alpha}
  /\ verdict.extreme >= 2
  /\ verdict.extreme = Extreme([k \in DOMAIN diffs |-> -diffs[k]])
  /\ verdict.extreme = 2 /\ SumFunction(diffs) # 0 =>
       \A k, l \in DOMAIN diffs : diffs[k] * diffs[l] > 0
=============================================================================
