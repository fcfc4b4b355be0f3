-------------------------- MODULE GreedyAllocation --------------------------
(***************************************************************************)
(* greedy_marginal_allocation and greedy_marginal_energy_allocation: the   *)
(* GPUs left over go one by one to the job with the best next GPU.  An     *)
(* admitted job is a record of                                             *)
(*   rate  : its throughput by GPU count, from 1 on                        *)
(*   power : energy per iteration times throughput, likewise               *)
(*   cur   : the GPUs it has                                               *)
(***************************************************************************)
EXTENDS Integers, Sequences, Functions

\* throughput() and energy_per_iter(): nothing at no GPUs.
At(curve, g) == IF g = 0 THEN 0 ELSE curve[g]

MaxOf(job) == Len(job.rate)
Gain(job, g) == At(job.rate, g + 1) - At(job.rate, g)
Cost(job, g) == At(job.power, g + 1) - At(job.power, g)

Current(admitted) == [j \in DOMAIN admitted |-> admitted[j].cur]
WithRoom(admitted, alloc) == {j \in DOMAIN admitted : alloc[j] < MaxOf(admitted[j])}

Nobody == 0

\* The job with the highest marginal throughput, the first of equals.
PickFastest(admitted, alloc) ==
  LET room == WithRoom(admitted, alloc)
      gain(j) == Gain(admitted[j], alloc[j])
  IN  IF room = {} THEN Nobody
      ELSE CHOOSE j \in room : \A k \in room :
             gain(j) > gain(k) \/ (gain(j) = gain(k) /\ j <= k)

\* Slip: the job whose next GPU draws the least, however little it gains.
PickFrugal(admitted, alloc) ==
  LET open == {j \in WithRoom(admitted, alloc) : Gain(admitted[j], alloc[j]) > 0}
      cost(j) == Cost(admitted[j], alloc[j])
  IN  IF open = {} THEN Nobody
      ELSE CHOOSE j \in open : \A k \in open :
             cost(j) < cost(k) \/ (cost(j) = cost(k) /\ j <= k)

\* The job with the lowest marginal energy per added iteration, Cost / Gain, the
\* first of equals; saturated jobs are skipped.
PickCheapest(admitted, alloc) ==
  LET open == {j \in WithRoom(admitted, alloc) : Gain(admitted[j], alloc[j]) > 0}
      ratio(j, k) == Cost(admitted[j], alloc[j]) * Gain(admitted[k], alloc[k])
  IN  IF open = {} THEN Nobody
      ELSE CHOOSE j \in open : \A k \in open :
             ratio(j, k) < ratio(k, j) \/ (ratio(j, k) = ratio(k, j) /\ j <= k)

\* The while loop: one GPU a round until none is left or nobody takes it.
Allocation(admitted, available, Pick(_, _)) ==
  LET spare == available - SumFunction(Current(admitted))
      after[n \in Nat] ==
        IF n = 0 THEN Current(admitted)
        ELSE LET alloc == after[n - 1]  best == Pick(admitted, alloc)
             IN  IF best = Nobody THEN alloc ELSE [alloc EXCEPT ![best] = @ + 1]
  IN  IF spare <= 0 THEN Current(admitted) ELSE after[spare]

FastestAllocation(admitted, available) == Allocation(admitted, available, PickFastest)
CheapestAllocation(admitted, available) == Allocation(admitted, available, PickCheapest)

-----------------------------------------------------------------------------
(* What an allocation is worth.                                            *)

\* A job's curves and the GPUs it has.
IsPriced(job) ==
  /\ job.rate \in Seq(Nat) /\ job.cur \in 0..MaxOf(job)
  /\ job.power \in Seq(Nat) /\ Len(job.power) = MaxOf(job)

\* The jobs in order, and how many GPUs there are.
IsHandOut(p) ==
  /\ p.available \in Int
  /\ Len(p.admitted) \in Nat /\ DOMAIN p.admitted = 1..Len(p.admitted)
  /\ \A j \in DOMAIN p.admitted : IsPriced(p.admitted[j])

Allocations(admitted) ==
  {a \in [DOMAIN admitted -> UNION {0..MaxOf(admitted[j]) : j \in DOMAIN admitted}] :
     \A j \in DOMAIN admitted : admitted[j].cur <= a[j] /\ a[j] <= MaxOf(admitted[j])}

Total(admitted, alloc, field) ==
  SumFunction([j \in DOMAIN admitted |-> At(admitted[j][field], alloc[j])])

\* From the GPUs it has on, each further one gains no more than the one before.
Concave(job) == \A g \in job.cur..(MaxOf(job) - 2) : Gain(job, g + 1) <= Gain(job, g)

\* Each further one draws no less for an iteration that it adds than the one
\* before, and never a negative amount; after one that adds none, none adds any.
Climbs(job) ==
  \A g \in job.cur..(MaxOf(job) - 1) :
    /\ Cost(job, g) >= 0
    /\ g > job.cur /\ Gain(job, g) > 0 =>
         /\ Gain(job, g - 1) > 0
         /\ Cost(job, g - 1) * Gain(job, g) <= Cost(job, g) * Gain(job, g - 1)

\* validate_power_convexity() and validate_convexity(), the latter over a common
\* denominator: no second difference of the power, or of the energy of an
\* iteration, is negative.
ConvexPower(job) == \A g \in 2..(MaxOf(job) - 1) : Cost(job, g) >= Cost(job, g - 1)
ConvexEnergy(job) ==
  \A g \in 2..(MaxOf(job) - 1) :
    job.power[g + 1] * job.rate[g] * job.rate[g - 1] + job.power[g - 1] * job.rate[g] * job.rate[g + 1]
      >= 2 * job.power[g] * job.rate[g + 1] * job.rate[g - 1]

\* Nobody loses a GPU, none is handed out twice, and one is left over only when
\* nobody takes it.
HandsOut(admitted, available, alloc, takers) ==
  LET given == SumFunction(alloc)  held == SumFunction(Current(admitted)) IN
  /\ alloc \in Allocations(admitted)
  /\ given <= available \/ given = held
  /\ given < available => takers = {}

FastestIsBest(admitted, available, alloc) ==
  /\ HandsOut(admitted, available, alloc, WithRoom(admitted, alloc))
  /\ (\A j \in DOMAIN admitted : Concave(admitted[j])) =>
       \A a \in Allocations(admitted) :
         SumFunction(a) = SumFunction(alloc) =>
           Total(admitted, a, "rate") <= Total(admitted, alloc, "rate")

\* No allocation that is as fast draws less.
DrawsLeast(admitted, alloc) ==
  \A a \in Allocations(admitted) :
    Total(admitted, a, "rate") >= Total(admitted, alloc, "rate") =>
      Total(admitted, a, "power") >= Total(admitted, alloc, "power")

CheapestIsBest(admitted, available, alloc) ==
  /\ HandsOut(admitted, available, alloc,
              {j \in WithRoom(admitted, alloc) : Gain(admitted[j], alloc[j]) > 0})
  /\ (\A j \in DOMAIN admitted : Climbs(admitted[j])) => DrawsLeast(admitted, alloc)
=============================================================================
