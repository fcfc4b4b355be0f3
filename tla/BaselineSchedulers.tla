------------------------- MODULE BaselineSchedulers -------------------------
(***************************************************************************)
(* The schedulers HASAGI is compared with, over the jobs of                *)
(* GreedyAllocation with further fields:                                   *)
(*   energy   : per iteration, by GPU count                                *)
(*   iters, deadline : what remains to be done, and by when                *)
(*   batch, noise    : local batch and gradient noise scale (Pollux)       *)
(* Quotients are records [num, den]; den = 0 is an infinite one.           *)
(***************************************************************************)
EXTENDS GreedyAllocation, FiniteSets

CONSTANT Knobs    \* eta_knob is counted in parts of this many

ASSUME KnobsAssumption == Knobs \in Nat \ {0}

Quotient(n, d) == [num |-> n, den |-> d]
More(p, q) == p.num * q.den > q.num * p.den

-----------------------------------------------------------------------------
(* Optimus, Pollux and PowerFlow: what the next GPU is worth to a job.     *)

Worthless == Quotient(0, 1)

\* Seconds saved; nothing for a job that stands still.
TimeSaved(job, g) ==
  LET now == At(job.rate, g)  next == At(job.rate, g + 1) IN
  IF now = 0 \/ next = 0 THEN Worthless
  ELSE Quotient(job.iters * (next - now), now * next)

\* throughput * noise / (noise + batch): useful iterations per second.
Goodput(job, g) == Quotient(At(job.rate, g) * job.noise, job.noise + job.batch * g)

GoodputGained(job, g) ==
  LET now == Goodput(job, g)  next == Goodput(job, g + 1) IN
  Quotient(next.num * now.den - now.num * next.den, now.den * next.den)

\* Relative time saved per relative energy added; infinite when that is free.
RelativePriority(job, g) ==
  LET now == At(job.rate, g)  next == At(job.rate, g + 1)
      added == At(job.energy, g + 1) - At(job.energy, g)
  IN  IF job.iters = 0 \/ now = 0 \/ next <= now THEN Worthless
      ELSE IF added <= 0 \/ At(job.energy, g) = 0 THEN Quotient(1, 0)
      ELSE Quotient((next - now) * At(job.energy, g), next * added)

Worth(scheduler, job, g) ==
  CASE scheduler = "optimus" -> TimeSaved(job, g)
    [] scheduler = "pollux" -> GoodputGained(job, g)
    [] scheduler = "powerflow" -> RelativePriority(job, g)

Takers(scheduler, jobs, alloc) ==
  {j \in WithRoom(jobs, alloc) : Worth(scheduler, jobs[j], alloc[j]).num > 0}

\* The job with the highest positive worth, the first of equals.
PickWorthiest(scheduler, jobs, alloc) ==
  LET worth(j) == Worth(scheduler, jobs[j], alloc[j])
      takers == Takers(scheduler, jobs, alloc)
  IN  IF takers = {} THEN Nobody
      ELSE CHOOSE j \in takers : \A k \in takers :
             More(worth(j), worth(k)) \/ (~More(worth(k), worth(j)) /\ j <= k)

TotalEnergy(jobs, alloc) ==
  SumFunction([j \in DOMAIN jobs |-> At(jobs[j].energy, alloc[j]) * jobs[j].iters])

\* Only PowerFlow has an energy budget.
WithinBudget(scheduler, jobs, alloc, budget) ==
  scheduler = "powerflow" => TotalEnergy(jobs, alloc) <= budget

\* The while loop, which ends at the first GPU that breaks the budget; nothing is
\* allocated when what the jobs have is too much already.
GreedyRounds(scheduler, jobs, available, budget) ==
  LET spare == available - SumFunction(Current(jobs))
      after[n \in Nat] ==
        IF n = 0 THEN [alloc |-> Current(jobs), over |-> FALSE]
        ELSE LET s == after[n - 1]
                 best == PickWorthiest(scheduler, jobs, s.alloc)
                 next == [s.alloc EXCEPT ![best] = @ + 1]
             IN  IF s.over \/ best = Nobody THEN s
                 ELSE IF WithinBudget(scheduler, jobs, next, budget)
                      THEN [s EXCEPT !.alloc = next]
                      ELSE [s EXCEPT !.over = TRUE]
  IN  IF spare < 0 \/ ~WithinBudget(scheduler, jobs, Current(jobs), budget)
      THEN [j \in DOMAIN jobs |-> 0]
      ELSE after[spare].alloc

-----------------------------------------------------------------------------
(* ElasticFlow and Zeus: a share of its own for each job, then eviction.   *)

MeetsDeadline(job, g) == At(job.rate, g) * job.deadline >= job.iters

\* minimum_satisfactory_share, for throughputs that do not fall.
Share(job) ==
  LET enough == {g \in 1..MaxOf(job) : MeetsDeadline(job, g)} IN
  IF job.iters <= 0 \/ job.deadline <= 0 \/ enough = {} THEN 0
  ELSE CHOOSE g \in enough : \A h \in enough : g <= h

\* Slip: the jobs with the smallest shares go first.
FirstOutSmallest(share, j) == \A k \in DOMAIN share : share[j] <= share[k]

FirstOut(share, j) ==
  \A k \in DOMAIN share : share[j] > share[k] \/ (share[j] = share[k] /\ j <= k)

\* Drop the largest share, the first of equals, until the rest fits.
Survivors(share, available) ==
  LET after[n \in Nat] ==
        IF n = 0 THEN share
        ELSE LET s == after[n - 1] IN
             IF SumFunction(s) <= available THEN s
             ELSE LET out == CHOOSE j \in DOMAIN s : FirstOut(s, j)
                  IN  Restrict(s, DOMAIN s \ {out})
  IN  after[Cardinality(DOMAIN share)]

\* The admitted jobs begin with their shares, and the rest goes to the fastest.
ElasticFlow(jobs, available) ==
  LET reachable == {j \in DOMAIN jobs : Share(jobs[j]) # 0}
      admitted == Survivors([j \in reachable |-> Share(jobs[j])], available)
  IN  FastestAllocation([j \in DOMAIN admitted |-> [jobs[j] EXCEPT !.cur = admitted[j]]],
                        available)

OperatingPoints(job) == {g \in 1..MaxOf(job) : job.rate[g] > 0}

\* Time and energy, each against the worst of its kind.
ZeusCost(job, knob, g) ==
  LET slowest == CHOOSE r \in {job.rate[h] : h \in OperatingPoints(job)} :
                   \A h \in OperatingPoints(job) : r <= job.rate[h]
      most == CHOOSE e \in {job.energy[h] : h \in OperatingPoints(job)} :
                \A h \in OperatingPoints(job) : e >= job.energy[h]
      scale == IF most = 0 THEN 1 ELSE most
  IN  Quotient(knob * slowest * scale + (Knobs - knob) * job.energy[g] * job.rate[g],
               job.rate[g] * scale)

InDeadline(job) == {g \in OperatingPoints(job) : MeetsDeadline(job, g)}

\* The cheapest point in time for the deadline.  When none is, all of them cost
\* an infinite penalty alike, and the first is taken.
ZeusPick(job, knob) ==
  LET cost(g) == ZeusCost(job, knob, g)
      best(g) == \A h \in InDeadline(job) :
                   More(cost(h), cost(g)) \/ (~More(cost(g), cost(h)) /\ g <= h)
  IN  IF job.iters <= 0 \/ OperatingPoints(job) = {} THEN 0
      ELSE IF InDeadline(job) = {}
           THEN CHOOSE g \in OperatingPoints(job) : \A h \in OperatingPoints(job) : g <= h
           ELSE CHOOSE g \in InDeadline(job) : best(g)

Zeus(jobs, available, knob) ==
  Survivors([j \in DOMAIN jobs |-> ZeusPick(jobs[j], knob)], available)

-----------------------------------------------------------------------------
(* What the schedulers promise.                                            *)

\* The sum of a quotient over the jobs, over a common denominator.
SumOfQuotients(q) ==
  LET prod(S) == FoldFunctionOnSet(LAMBDA x, y : x * y, 1, [j \in DOMAIN q |-> q[j].den], S)
  IN  Quotient(SumFunction([j \in DOMAIN q |-> q[j].num * prod(DOMAIN q \ {j})]),
               prod(DOMAIN q))

Objective(scheduler, jobs, alloc) ==
  SumOfQuotients([j \in DOMAIN jobs |->
    IF scheduler = "optimus" THEN Quotient(-jobs[j].iters, At(jobs[j].rate, alloc[j]))
                             ELSE Goodput(jobs[j], alloc[j])])

\* From the GPUs it has on the job moves, and each further GPU is worth no more
\* than the one before.
Diminishing(scheduler, job) ==
  /\ \A g \in job.cur..MaxOf(job) : At(job.rate, g) > 0
  /\ \A g \in job.cur..(MaxOf(job) - 2) :
       ~More(Worth(scheduler, job, g + 1), Worth(scheduler, job, g))

\* Optimus and Pollux maximise what they are about over all that fits; PowerFlow
\* stays within its budget and leaves no GPU that is wanted, unless it broke it.
GreedyIsBest(scheduler, jobs, available, budget, alloc) ==
  LET fits == {a \in Allocations(jobs) : SumFunction(a) <= available} IN
  /\ SumFunction(alloc) <= available /\ WithinBudget(scheduler, jobs, alloc, budget)
  /\ alloc \notin Allocations(jobs) =>
       \A a \in Allocations(jobs) :
         a = Current(jobs) => a \notin fits \/ ~WithinBudget(scheduler, jobs, a, budget)
  /\ alloc \in Allocations(jobs) /\ SumFunction(alloc) < available =>
       \/ Takers(scheduler, jobs, alloc) = {}
       \/ \E j \in Takers(scheduler, jobs, alloc) :
            ~WithinBudget(scheduler, jobs, [alloc EXCEPT ![j] = @ + 1], budget)
  /\ /\ scheduler # "powerflow" /\ alloc \in fits
     /\ \A j \in DOMAIN jobs : Diminishing(scheduler, jobs[j])
     => \A a \in fits :
          ~More(Objective(scheduler, jobs, a), Objective(scheduler, jobs, alloc))

\* Eviction spares as many jobs as any choice of those with a share could.
SparesMost(share, available, survivors) ==
  /\ SumFunction(survivors) <= available
  /\ \A S \in SUBSET DOMAIN share :
       SumFunctionOnSet(share, S) <= available => Cardinality(S) <= Cardinality(DOMAIN survivors)

\* As many deadlines are met as can be, and the GPUs left over speed up most.
ElasticFlowIsBest(jobs, available, alloc) ==
  LET admitted == DOMAIN alloc
      begun == [j \in admitted |-> [jobs[j] EXCEPT !.cur = Share(jobs[j])]]
  IN  /\ \A j \in admitted : MeetsDeadline(jobs[j], alloc[j])
      /\ SumFunction(alloc) <= available
      /\ \A a \in [DOMAIN jobs -> 0..available] :
           SumFunction(a) <= available =>
             Cardinality({j \in DOMAIN jobs :
               jobs[j].iters > 0 /\ a[j] \in 1..MaxOf(jobs[j]) /\ MeetsDeadline(jobs[j], a[j])})
               <= Cardinality(admitted)
      /\ admitted # {} => FastestIsBest(begun, available, alloc)

\* Between its ends every knob picks a point of the frontier of time and energy
\* among those in time, and more weight on time never makes a job slower.
ZeusOnFrontier(job, knob) ==
  LET pick == ZeusPick(job, knob) IN
  pick # 0 =>
    /\ knob \in 1..(Knobs - 1) =>
         \A g \in InDeadline(job) :
           ~(/\ job.rate[g] >= job.rate[pick] /\ job.energy[g] <= job.energy[pick]
             /\ job.rate[g] > job.rate[pick] \/ job.energy[g] < job.energy[pick])
    /\ \A k \in knob..Knobs : job.rate[ZeusPick(job, k)] >= job.rate[pick]
=============================================================================
