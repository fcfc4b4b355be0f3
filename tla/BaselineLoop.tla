---------------------------- MODULE BaselineLoop ----------------------------
(***************************************************************************)
(* The service as first built: clients submit jobs to the API, and a       *)
(* periodic tick reads the grid's intensity, lets the rule-based policy    *)
(* scale or pause every job and chooses how it is parallelised.  A problem *)
(* has                                                                     *)
(*   kinds   : the jobs clients may submit (rate, iters, deadline)         *)
(*   maxJobs : bound on how many are                                       *)
(*   model   : the runtime model, a hybrid problem                         *)
(* The state is the job store, in order of submission.  What a job has     *)
(* seen is history, kept for the claims: share is the GPUs it was admitted *)
(* with, clean counts the low samples in a row (past medium ones, and up   *)
(* to MaxGpus), spared and stopped say that there was no dirty sample yet, *)
(* and that there was a pause.                                             *)
(***************************************************************************)
EXTENDS BaselineSchedulers, EnergyPolicies

-----------------------------------------------------------------------------
(* Two choices around a pipeline: how many workers its depth takes and how *)
(* many replicas of it there are (select_hybrid_strategy with the          *)
(* SimpleRuntimeModel), and how far each stage can be slowed down without  *)
(* slowing the pipeline (perseus_throttle).  A hybrid problem has          *)
(*   workers, minReplicas                                                  *)
(*   work    : time of one step's samples on one device                    *)
(*   reduce  : time an all-reduce takes per further replica                *)
(*   bubble  : of a stage, in hundredths                                   *)
(*   split   : are the samples a global batch, split across the replicas?  *)

NoStrategy == [dp |-> 0, mp |-> 0]

\* Slip: the batch is split whatever the convention.
StepWorkSplit(h, dp) == [num |-> h.work, den |-> dp]

\* A replica's share of the work: a fixed batch, or a part of the global one.
StepWork(h, dp) == [num |-> h.work, den |-> IF h.split THEN dp ELSE 1]

\* Compute, all-reduce over the shards and bubbles, as a fraction.
Runtime(h, dp, mp) ==
  LET w == StepWork(h, dp) IN
  [num |-> w.num * (100 + h.bubble * (mp - 1)) + 100 * h.reduce * (dp - 1) * w.den,
   den |-> 100 * w.den * mp]

Faster(h, s, t) ==
  LET p == Runtime(h, s.dp, s.mp)  q == Runtime(h, t.dp, t.mp) IN p.num * q.den < q.num * p.den

\* For each depth as many replicas as the workers allow; the fastest, the
\* shallowest of equals, and an error when none has replicas enough.
HybridStrategy(h) ==
  LET tried == {s \in [dp : 1..h.workers, mp : 1..h.workers] :
                  s.dp = h.workers \div s.mp /\ s.dp >= h.minReplicas}
  IN  IF tried = {} THEN NoStrategy
      ELSE CHOOSE s \in tried : \A t \in tried :
             Faster(h, s, t) \/ (~Faster(h, t, s) /\ s.mp <= t.mp)

-----------------------------------------------------------------------------
(* perseus_throttle: stages with the times and powers of a partition, the  *)
(* exponent of power by speed, and the idle power in tenths.  An           *)
(* infeasible stage has time 0.                                            *)

Bottleneck(times) == CHOOSE t \in Range(times) : \A s \in DOMAIN times : times[s] <= t

\* The share of its speed a stage keeps; an infeasible one is let through.
ThrottleFactor(p, s) ==
  IF p.times[s] = 0 THEN [num |-> 1, den |-> 1]
  ELSE [num |-> p.times[s], den |-> Bottleneck(p.times)]

\* In tenths of the power times the time: at full speed with idling until the
\* bottleneck is done, and throttled to be done with it.
BloatedEnergy(p, s) ==
  IF p.times[s] = 0 THEN 0
  ELSE p.power[s] * (10 * p.times[s] + p.idle * (Bottleneck(p.times) - p.times[s]))

ThrottledEnergy(p, s) ==
  LET r == ThrottleFactor(p, s) IN
  IF p.times[s] = 0 THEN [num |-> 0, den |-> 1]
  ELSE [num |-> 10 * p.power[s] * (r.num ^ p.alpha) * Bottleneck(p.times), den |-> r.den ^ p.alpha]

-----------------------------------------------------------------------------
\* Nothing faster in so many workers is left untried while a bubble costs less
\* than half a stage; and without a split batch replicas never pay, so that all
\* workers make one pipeline.
StrategyIsFastest(h, s) ==
  /\ s = NoStrategy <=> h.minReplicas > h.workers
  /\ s # NoStrategy /\ h.minReplicas = 1 =>
       /\ \A t \in [dp : 1..h.workers, mp : 1..h.workers] :
            t.dp * t.mp <= h.workers => ~Faster(h, t, s)
       /\ ~h.split /\ h.work > 0 => s.dp = 1 /\ s.mp = h.workers

\* No stage runs beyond the bottleneck, and none draws more than before, so that
\* the savings are never negative without being cut off at zero.
ThrottlingSaves(p) ==
  \A s \in DOMAIN p.times :
    LET r == ThrottleFactor(p, s)  e == ThrottledEnergy(p, s) IN
    /\ r.num \in 1..r.den
    /\ p.times[s] * r.den <= Bottleneck(p.times) * r.num \/ p.times[s] = 0
    /\ e.num <= BloatedEnergy(p, s) * e.den

-----------------------------------------------------------------------------

ServiceBegins == <<>>

\* submit_job: the job enters the store when its admission is decided.
Submit(jobs, kind) ==
  LET share == Share(kind) IN
  Append(jobs, [state |-> IF share = 0 THEN "DROPPED" ELSE "RUNNING", gpus |-> share,
                strategy |-> NoStrategy,
                share |-> share, clean |-> 0, spared |-> TRUE, stopped |-> FALSE])

\* Slip: a paused job is left alone.
ListedRunning(job) == job.state = "RUNNING"

\* The tick lists running and paused jobs: one that was dropped stays so.
Listed(job) == job.state \in {"RUNNING", "PAUSED"}

\* One job's part of a tick.
TickJob(p, job, sample) ==
  LET decision == RuleBased(AtLeast(1, job.gpus), sample, 0, 0)
      target == AtLeast(1, decision.target)
  IN  [job EXCEPT !.gpus = target,
                  !.strategy = HybridStrategy([p.model EXCEPT !.workers = target]),
                  !.state = IF decision.pause THEN "PAUSED" ELSE "RUNNING"]

Seen(job, sample) ==
  [job EXCEPT !.clean = CASE sample = "low" -> AtMost(MaxGpus, @ + 1)
                          [] sample = "mid" -> @
                          [] OTHER -> 0,
              !.spared = @ /\ sample \in {"low", "mid"},
              !.stopped = @ \/ sample = "pause"]

BaselineTick(p, jobs, sample) ==
  [j \in DOMAIN jobs |->
     Seen(IF Listed(jobs[j]) THEN TickJob(p, jobs[j], sample) ELSE jobs[j], sample)]

-----------------------------------------------------------------------------
(* What the loop does to the jobs over many ticks.                         *)

\* A runtime model, whose bubble costs half a stage at most.
RuntimeModels ==
  [workers : Nat, minReplicas : {1}, work : Nat, reduce : Nat, bubble : 0..50, split : BOOLEAN]

\* The service's curves go as far as its policy does.
IsService(p) ==
  /\ p.model \in RuntimeModels /\ p.maxJobs \in Nat
  /\ \A k \in p.kinds : /\ k.rate \in Seq(Nat) /\ Len(k.rate) <= MaxGpus
                         /\ k.iters \in Int /\ k.deadline \in Int

\* 2 ^ n.
Doubled[n \in 0..MaxGpus] == IF n = 0 THEN 1 ELSE 2 * Doubled[n - 1]

\* Until a dirty sample a job has no less than its deadline takes, and after one
\* it is back to twice as much with every clean one.  A paused job holds the
\* fewest GPUs, and a pause makes all jobs alike for ever: what they were admitted
\* with is forgotten.  How a job is parallelised fits the GPUs it has.
ServiceRecovers(p, jobs) ==
  \A j \in DOMAIN jobs : LET job == jobs[j] IN
    IF job.share = 0 THEN job.state = "DROPPED" /\ job.gpus = 0
    ELSE /\ job.spared => job.gpus >= job.share
         /\ job.gpus >= AtMost(MaxGpus, Doubled[job.clean])
         /\ job.state = "PAUSED" => job.gpus = MinGpus /\ job.clean = 0
         /\ \A i \in DOMAIN jobs :
              job.stopped /\ jobs[i].stopped /\ jobs[i].share > 0 =>
                job.gpus = jobs[i].gpus /\ job.state = jobs[i].state
         /\ job.strategy # NoStrategy =>
              StrategyIsFastest([p.model EXCEPT !.workers = job.gpus], job.strategy)

=============================================================================
