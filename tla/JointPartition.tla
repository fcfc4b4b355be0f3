--------------------------- MODULE JointPartition ---------------------------
(***************************************************************************)
(* joint_partition: cuts and a throttle level for every stage, at the      *)
(* least energy under a ceiling on the throttled stage times.  Next to the *)
(* fields of PipelinePartition a workload has                              *)
(*   levels : the throttle ratios, ascending, each as a record of its      *)
(*     scales of time and energy, Unthrottled being the scale of r = 1     *)
(*     (a ThrottleCurve, or the parametric model sampled)                  *)
(*   floor  : the ceiling T_floor on a stage's time                        *)
(***************************************************************************)
EXTENDS PipelinePartition, FiniteSetsExt

CONSTANT Unthrottled     \* time_scale and energy_scale of r = 1

ASSUME UnthrottledAssumption == Unthrottled \in Nat \ {0}

MemoryFits(w, s, i, j) == Segment(w.act, i, j) <= w.mem[s]

\* The levels that best_local does not skip: the throttled time is within the
\* ceiling (that of the stages before already is) and the average power
\* within the stage's cap.
Allowed(w, K, s, i, j) ==
  {r \in DOMAIN w.levels :
     /\ StageTime(w, K, s, i, j) * w.levels[r].time <= w.floor * Unthrottled
     /\ w.power[s] * w.levels[r].energy <= w.cap[s] * w.levels[r].time}

LocalEnergy(w, K, s, i, j, r) ==
  w.power[s] * w.levels[r].energy * StageTime(w, K, s, i, j)

\* Slip: the slowest level is taken for the cheapest.
SlowestLevel(w, K, s, i, j) ==
  CHOOSE r \in Allowed(w, K, s, i, j) : \A q \in Allowed(w, K, s, i, j) : r <= q

\* best_local: the cheapest level, the slowest of equals.  Energy may rise again
\* below some ratio, so the slowest level need not be it.
BestLevel(w, K, s, i, j) ==
  CHOOSE r \in Allowed(w, K, s, i, j) :
    \A q \in Allowed(w, K, s, i, j) :
      LET er == LocalEnergy(w, K, s, i, j, r)
          eq == LocalEnergy(w, K, s, i, j, q)
      IN  er < eq \/ (er = eq /\ r <= q)

Usable(w, K, s, i, j) == MemoryFits(w, s, i, j) /\ Allowed(w, K, s, i, j) # {}

NoState == [energy |-> -1, cut |-> 0, level |-> 0]

State(w, K, s, i, j, before) ==
  LET r == BestLevel(w, K, s, i, j)
  IN  [energy |-> before + LocalEnergy(w, K, s, i, j, r), cut |-> i - 1, level |-> r]

\* dp[j][s]: the least energy of layers 1..j on stages 1..s, the last layer of
\* stage s - 1 and the level of stage s; the first of equal candidates wins.
JointTable(w, K) ==
  LET dp[s \in 1..K] == [j \in 1..NumLayers(w) |->
        IF s = 1
        THEN IF Usable(w, K, 1, 1, j) THEN State(w, K, 1, 1, j, 0) ELSE NoState
        ELSE LET states == {State(w, K, s, i + 1, j, dp[s - 1][i].energy) : i \in
                              {i \in PreviousEnds(s, j) :
                                 dp[s - 1][i] # NoState /\ Usable(w, K, s, i + 1, j)}}
             IN  IF states = {} THEN NoState
                 ELSE CHOOSE a \in states : \A b \in states :
                        a.energy < b.energy \/ (a.energy = b.energy /\ a.cut <= b.cut)]
  IN  dp

NoPlan == [cuts |-> <<>>, levels |-> <<>>]

\* Backtracking from the last stage; JointPlan() is the answer without a plan.
JointPlanOf(w, K) ==
  LET dp == JointTable(w, K)
      lastOf[s \in 1..K] ==
        IF s = K THEN NumLayers(w) ELSE dp[s + 1][lastOf[s + 1]].cut
  IN  IF dp[K][NumLayers(w)] = NoState THEN NoPlan
      ELSE [cuts   |-> [s \in 1..(K - 1) |-> lastOf[s]],
            levels |-> [s \in 1..K |-> dp[s][lastOf[s]].level]]

-----------------------------------------------------------------------------
(* What a plan is, said without the algorithm.                             *)

\* The cuts that give every stage a layer and its memory enough room.
Layouts(w, K) ==
  {c \in [1..(K - 1) -> 1..(NumLayers(w) - 1)] :
     \A s \in 1..K :
       /\ First(c, s) <= Last(w, K, c, s)
       /\ MemoryFits(w, s, First(c, s), Last(w, K, c, s))}

\* Which throttle levels respect the ceiling and every cap.
JointPlans(w, K) ==
  {p \in [cuts : Layouts(w, K), levels : [1..K -> DOMAIN w.levels]] :
     \A s \in 1..K :
       LET level == w.levels[p.levels[s]] IN
       /\ TimeOf(w, K, p.cuts, s) * level.time <= w.floor * Unthrottled
       /\ w.power[s] * level.energy <= w.cap[s] * level.time}

EnergyOf(w, K, p) ==
  SumFunction([s \in 1..K |->
    w.power[s] * w.levels[p.levels[s]].energy * TimeOf(w, K, p.cuts, s)])

JointIsOptimal(w, K, answer) ==
  LET plans == JointPlans(w, K) IN
  IF answer = NoPlan THEN plans = {}
  ELSE /\ answer \in plans
       /\ \A p \in plans : EnergyOf(w, K, answer) <= EnergyOf(w, K, p)

-----------------------------------------------------------------------------
(* stochastic_joint_partition: cuts and throttle ratios at the least CVaR  *)
(* of the energy, mean + kappa * standard deviation, when stage times and  *)
(* powers are only known up to a relative spread.  Throttling is the       *)
(* parametric model r ** alpha.  Next to the fields of PipelinePartition a *)
(* workload has                                                            *)
(*   ratios, full : the throttle ratios, ascending, in parts of full       *)
(*   alpha  : voltage_alpha                                                *)
(*   floor  : the ceiling on a stage's time                                *)
(*   margin : theta_inflation and p_inflation, as percentages              *)
(*   kappa  : kappa_beta times the combined spread, a fraction             *)

\* transition_terms: the chance constraints on time and power.
Likely(w, K, s, i, j, r) ==
  /\ StageTime(w, K, s, i, j) * w.margin.time * w.full <= r * w.floor * 100
  /\ w.power[s] * r ^ w.alpha * w.margin.power <= w.cap[s] * w.full ^ w.alpha * 100

\* Its terms: the stage's mean energy (in parts of full ** (alpha - 1)); the
\* variance is the square of the mean, in units of the combined spread.
Mean(w, K, s, i, j, r) == w.power[s] * r ^ (w.alpha - 1) * StageTime(w, K, s, i, j)

\* Slip: only the mean decides which entries are kept.
DominatesMean(a, b) == a.mu <= b.mu /\ (a.mu < b.mu \/ a.var < b.var)

\* _dominates.
Dominates(a, b) ==
  a.mu <= b.mu /\ a.var <= b.var /\ (a.mu < b.mu \/ a.var < b.var)

SamePair(a, b) == a.mu = b.mu /\ a.var = b.var

\* _insert_pareto.
InsertPareto(new, frontier) ==
  IF \E e \in frontier : Dominates(e, new) \/ SamePair(e, new) THEN frontier
  ELSE {e \in frontier : ~Dominates(new, e)} \union {new}

\* An entry extends one of the cell before by a stage; path holds that stage's
\* ratio and last layer after those of the stages before it, which stands for
\* prev_i, prev_r and prev_entry_idx.
Entry(w, K, s, i, j, r, before) ==
  LET mean == Mean(w, K, s, i, j, r) IN
  [mu |-> before.mu + mean, var |-> before.var + mean * mean,
   path |-> Append(before.path, [last |-> j, ratio |-> r])]

NothingYet == [mu |-> 0, var |-> 0, path |-> <<>>]

\* dp[j][s]: the entries of layers 1..j on stages 1..s that none dominates.
\* Which of two entries with an equal pair came first is left open.
Frontier(w, K) ==
  LET dp[s \in 1..K, j \in 1..NumLayers(w)] ==
        LET cells == IF s = 1 THEN {<<0, {NothingYet}>>}
                     ELSE {<<i, dp[s - 1, i]>> : i \in PreviousEnds(s, j)}
            entries == UNION {UNION {{Entry(w, K, s, c[1] + 1, j, r, e) : e \in c[2]} :
                                r \in {r \in Range(w.ratios) :
                                         Likely(w, K, s, c[1] + 1, j, r)}} :
                         c \in {c \in cells : MemoryFits(w, s, c[1] + 1, j)}}
        IN  FoldSet(InsertPareto, {}, entries)
  IN  dp[K, NumLayers(w)]

\* x + kappa * sqrt(u) <= y + kappa * sqrt(v), in integers.
RiskAtMost(kappa, x, u, y, v) ==
  LET gap  == kappa.den * (y - x)          \* num * (sqrt(u) - sqrt(v)) <= gap
      rest == kappa.num ^ 2 * (u + v) - gap ^ 2
      edge == 4 * kappa.num ^ 4 * u * v    \* (num * (sqrt(u) - sqrt(v))) ^ 2 = gap ^ 2
  IN  IF gap >= 0 THEN u <= v \/ rest <= 0 \/ rest ^ 2 <= edge
                  ELSE u <= v /\ rest >= 0 /\ rest ^ 2 >= edge

NoStochasticPlan == [cuts |-> <<>>, ratios |-> <<>>]

\* The entry of the last cell with the least CVaR, and the plan along its path.
StochasticPlanOf(w, K) ==
  LET last == Frontier(w, K)
      best == CHOOSE e \in last :
                \A f \in last : RiskAtMost(w.kappa, e.mu, e.var, f.mu, f.var)
  IN  IF last = {} THEN NoStochasticPlan
      ELSE [cuts |-> [s \in 1..(K - 1) |-> best.path[s].last],
            ratios |-> [s \in 1..K |-> best.path[s].ratio]]

-----------------------------------------------------------------------------
(* What a plan is, said without the algorithm.                             *)

StageMean(w, K, p, s) ==
  w.power[s] * p.ratios[s] ^ (w.alpha - 1) * TimeOf(w, K, p.cuts, s)

StochasticPlans(w, K) ==
  {p \in [cuts : Layouts(w, K), ratios : [1..K -> Range(w.ratios)]] :
     \A s \in 1..K :
       Likely(w, K, s, First(p.cuts, s), Last(w, K, p.cuts, s), p.ratios[s])}

PlanMean(w, K, p) == SumFunction([s \in 1..K |-> StageMean(w, K, p, s)])
PlanVar(w, K, p)  == SumFunction([s \in 1..K |-> StageMean(w, K, p, s) ^ 2])

StochasticIsOptimal(w, K, answer) ==
  LET plans == StochasticPlans(w, K) IN
  IF answer = NoStochasticPlan THEN plans = {}
  ELSE /\ answer \in plans
       /\ \A p \in plans :
            RiskAtMost(w.kappa, PlanMean(w, K, answer), PlanVar(w, K, answer),
                                PlanMean(w, K, p), PlanVar(w, K, p))

=============================================================================
