-------------------------- MODULE CarbonEstimates --------------------------
(***************************************************************************)
(* What a job is expected to emit: project_emissions_g over the slices of  *)
(* its duration, and the two piecewise-linear series that time is looked   *)
(* up in, CarbonTrace.intensity_at with a binary search of its own and     *)
(* BackgroundModel.at with bisect.  Where intensities come from, they are  *)
(* read from several sources at once (MultiSourceCarbonAggregator).        *)
(***************************************************************************)
EXTENDS Integers, Sequences, FiniteSets, Functions

\* Slip: the last slice is billed as a whole one.
SliceWhole(e, k) == e.step

\* The length of slice k: a whole step, or what is left of the duration.
Slice(e, k) ==
  LET left == e.duration - (k - 1) * e.step IN IF left < e.step THEN left ELSE e.step

Slices(e) == 1..((e.duration + e.step - 1) \div e.step)

\* project_energy_kwh of a slice: with a profile the energy of the iterations it
\* completes, a whole number of them; without, power times time.  A job does rate
\* iterations in per seconds.
SliceEnergy(e, k) ==
  IF e.profiled THEN e.energy * ((e.rate * Slice(e, k)) \div e.per)
                ELSE e.power * Slice(e, k)

\* The forecast is read at the start of each slice; it holds a value per slice.
Emissions(e) ==
  IF e.forecast = <<>> THEN 0
  ELSE SumFunction([k \in Slices(e) |-> SliceEnergy(e, k) * e.forecast[k]])

-----------------------------------------------------------------------------
(* A series is a sequence of records of a time and a value, in time order. *)
(* A looked-up value is a fraction.                                        *)

Exactly(v) == [num |-> v, den |-> 1]

Between(a, b, t) ==
  [num |-> a.v * (b.t - a.t) + (t - a.t) * (b.v - a.v), den |-> b.t - a.t]

\* intensity_at: the binary search keeps series[lo].t <= t < series[hi].t.
IntensityAt(series, t) ==
  LET n == Len(series)
      search[ends \in (1..n) \X (1..n)] ==
        LET lo == ends[1]  hi == ends[2]  mid == (lo + hi) \div 2 IN
        IF lo >= hi - 1 THEN ends
        ELSE IF series[mid].t <= t THEN search[<<mid, hi>>] ELSE search[<<lo, mid>>]
      found == search[<<1, n>>]
  IN  IF t <= series[1].t THEN Exactly(series[1].v)
      ELSE IF t >= series[n].t THEN Exactly(series[n].v)
      ELSE IF series[found[1]].t = series[found[2]].t THEN Exactly(series[found[1]].v)
      ELSE Between(series[found[1]], series[found[2]], t)

\* at(): bisect_right counts the anchors up to t.
BackgroundAt(series, t) ==
  LET n == Len(series)
      i == CHOOSE k \in 0..n : /\ \A j \in 1..k : series[j].t <= t
                               /\ \A j \in (k + 1)..n : series[j].t > t
  IN  IF n = 0 THEN Exactly(0)
      ELSE IF n = 1 \/ t <= series[1].t THEN Exactly(series[1].v)
      ELSE IF t >= series[n].t THEN Exactly(series[n].v)
      ELSE IF series[i].t = series[i + 1].t THEN Exactly(series[i + 1].v)
      ELSE Between(series[i], series[i + 1], t)

-----------------------------------------------------------------------------
(* Sources: a reading has an intensity v and the uncertain part f of it in *)
(* Fortieths (a quarter for the static table, an eighth for                *)
(* ElectricityMaps, a fifth for WattTime).  A source that fails is Failed. *)

Fortieths == 40

Failed == [v |-> -1, f |-> 0]

Alive(sources) == {k \in DOMAIN sources : sources[k] # Failed}
Raised == [sum |-> 0, n |-> 0, lo |-> 0, hi |-> 0, square |-> 0, flagged |-> FALSE]

Square(x) == x * x

\* Slip: the uncertainty of a mean of independent readings.
RootSumSquareOfMean(sources, live) ==
  SumFunctionOnSet([k \in DOMAIN sources |-> Square(sources[k].v * sources[k].f)], live)
    \div Square(Cardinality(live))

\* Its square, in parts of Fortieths squared.
RootSumSquare(sources, live) ==
  SumFunctionOnSet([k \in DOMAIN sources |-> Square(sources[k].v * sources[k].f)], live)

\* The mean sum / n of those that answer, and their range; disagreement beyond
\* the threshold, of which there is one in perUnit, is flagged.
Aggregate(sources, perUnit) ==
  LET live == Alive(sources)
      values == {sources[k].v : k \in live}
      sum == SumFunctionOnSet([k \in DOMAIN sources |-> sources[k].v], live)
      lo == CHOOSE v \in values : \A u \in values : v <= u
      hi == CHOOSE v \in values : \A u \in values : v >= u
  IN  IF live = {} THEN Raised
      ELSE [sum |-> sum, n |-> Cardinality(live), lo |-> lo, hi |-> hi,
            square |-> RootSumSquare(sources, live),
            flagged |-> (hi - lo) * Cardinality(live) * perUnit > sum]

-----------------------------------------------------------------------------
(* What they are for.                                                      *)

\* What they are asked: a forecast that is long enough; samples in time order, the
\* first with its time to itself; and sources whose uncertain part is an eighth at
\* least, with a threshold of a fifth at most.
IsEstimate(e) ==
  /\ {e.rate, e.energy, e.power, e.duration} \subseteq Nat
  /\ {e.per, e.step} \subseteq Nat \ {0} /\ e.profiled \in BOOLEAN
  /\ e.forecast \in Seq(Nat)
  /\ e.forecast = <<>> \/ Slices(e) \subseteq DOMAIN e.forecast

IsLookup(p) ==
  /\ p.series \in Seq([t : Int, v : Int]) /\ p.series # <<>> /\ p.at \in Int
  /\ \A k, l \in DOMAIN p.series : k <= l => p.series[k].t <= p.series[l].t
  /\ \A k \in DOMAIN p.series \ {1} : p.series[1].t < p.series[k].t

IsSources(p) ==
  /\ p.sources \in Seq([v : Nat, f : {n \in Nat : 8 * n >= Fortieths}] \union {Failed})
  /\ p.perUnit \in Nat /\ p.perUnit >= 5

\* Whichever sources fail, nothing is read only when all do; and unless the
\* reading is flagged, the band of its uncertainty around the mean holds every
\* reading that went into it.
BandHoldsAll(sources, a) ==
  /\ a = Raised <=> \A k \in DOMAIN sources : sources[k] = Failed
  /\ a # Raised /\ ~a.flagged =>
       \A k \in Alive(sources) :
         Square((sources[k].v * a.n - a.sum) * Fortieths) <= a.square * a.n * a.n

\* The estimate never exceeds what the energy of the whole duration would emit,
\* and misses less than one iteration of each slice.
EmissionsAreClose(e, estimate) ==
  LET exact == SumFunction([k \in Slices(e) |->
        LET t == IF k * e.step <= e.duration THEN e.step ELSE e.duration % e.step
        IN  IF e.profiled THEN e.energy * e.rate * t * e.forecast[k]
                          ELSE e.per * e.power * t * e.forecast[k]])
      slack == SumFunction([k \in Slices(e) |-> e.energy * e.per * e.forecast[k]])
  IN  IF e.forecast = <<>> THEN estimate = 0
      ELSE /\ e.per * estimate <= exact
           /\ IF e.profiled /\ slack > 0 THEN exact < e.per * estimate + slack
                                         ELSE exact = e.per * estimate

\* Both lookups give the value that lies on the line between the last sample up
\* to t and the first one after it, or that of the nearer end.
LookupIsRight(series, t, value) ==
  /\ value.den > 0
  /\ \A k \in DOMAIN series : \A l \in {k + 1} \intersect DOMAIN series :
       series[k].t <= t /\ t < series[l].t =>
         (value.num - series[k].v * value.den) * (series[l].t - series[k].t)
           = value.den * (series[l].v - series[k].v) * (t - series[k].t)
  /\ t < series[1].t => value.num = series[1].v * value.den
  /\ t >= series[Len(series)].t => value.num = series[Len(series)].v * value.den
=============================================================================
