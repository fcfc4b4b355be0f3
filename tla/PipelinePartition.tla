------------------------- MODULE PipelinePartition -------------------------
(***************************************************************************)
(* The pipeline partitioner as functions: partition_pipeline (the dynamic  *)
(* program and its backtracking) and incremental_partition (every cut      *)
(* slides within a window).  A workload is a record                        *)
(*   work, act : per layer, FLOPs of both passes and activation bytes, as  *)
(*     the sequence of prefix sums, from 0 layers on                       *)
(*   slow, mem, power, cap : per stage, seconds per FLOP, memory, draw and *)
(*     cap of the power                                                    *)
(*   link, latency : per stage but the last, seconds per byte and per      *)
(*     transfer to the next stage                                          *)
(* Layers and stages count from 1; cuts[s] is the last layer of stage s.   *)
(***************************************************************************)
EXTENDS Integers, FiniteSets, Sequences, Functions

CONSTANT Window   \* boundary_window

ASSUME WindowAssumption == Window \in Nat

Objectives == {"bottleneck", "energy"}

NumLayers(w) == Len(w.work) - 1

\* Something for every layer and for as many stages, nothing of it negative.
IsWorkload(w, stages) ==
  /\ NumLayers(w) \in Nat \ {0}
  /\ \A sums \in {w.work, w.act} : \A i, j \in 1..(NumLayers(w) + 1) :
       sums[i] \in Nat /\ (i <= j => sums[i] <= sums[j])
  /\ \A s \in 1..stages : {w.slow[s], w.mem[s], w.power[s], w.cap[s]} \subseteq Nat
  /\ \A s \in 1..(stages - 1) : {w.link[s], w.latency[s]} \subseteq Nat

Larger2(a, b) == IF a >= b THEN a ELSE b
Smaller(a, b) == IF a <= b THEN a ELSE b

\* What the layers i..j add up to.
Segment(sums, i, j) == sums[j + 1] - sums[i]

\* From stage s to the next one, which starts after layer j.
\* (A link without bandwidth, whose transfers are infinite, is not a workload here.)
CommTime(w, s, j) == w.latency[s] + w.link[s] * Segment(w.act, j, j)

\* Twice _exec_time: compute both ways, and the mean of the two transfers.
\* K is the number of stages, i..j the segment.
StageTime(w, K, s, i, j) ==
  2 * w.slow[s] * Segment(w.work, i, j)
  + (IF s < K THEN CommTime(w, s, j) ELSE 0)
  + (IF s > 1 THEN CommTime(w, s - 1, i - 1) ELSE 0)

Fits(w, s, i, j) ==
  /\ Segment(w.act, i, j) <= w.mem[s]
  /\ w.power[s] <= w.cap[s]

-----------------------------------------------------------------------------
(* A partition given by its cuts.                                          *)

First(cuts, s) == IF s = 1 THEN 1 ELSE cuts[s - 1] + 1
Last(w, K, cuts, s) == IF s = K THEN NumLayers(w) ELSE cuts[s]

\* Slip: an empty segment is not an error.
BuildableEmpty(w, K, cuts) ==
  \A s \in 1..K : Fits(w, s, First(cuts, s), Last(w, K, cuts, s))

\* _build_partition raises RuntimeError for any other cuts.
Buildable(w, K, cuts) ==
  \A s \in 1..K :
    /\ First(cuts, s) <= Last(w, K, cuts, s)
    /\ Fits(w, s, First(cuts, s), Last(w, K, cuts, s))

TimeOf(w, K, cuts, s) == StageTime(w, K, s, First(cuts, s), Last(w, K, cuts, s))

\* stage_exec_time's maximum, or energy_per_iter.
Score(obj, w, K, cuts) ==
  IF obj = "bottleneck"
  THEN FoldFunction(Larger2, 0, [s \in 1..K |-> TimeOf(w, K, cuts, s)])
  ELSE SumFunction([s \in 1..K |-> w.power[s] * TimeOf(w, K, cuts, s)])

-----------------------------------------------------------------------------
(* The dynamic program.                                                    *)

Extend(obj, w, K, s, prev, i, j) ==
  IF obj = "bottleneck" THEN Larger2(prev, StageTime(w, K, s, i, j))
                        ELSE prev + w.power[s] * StageTime(w, K, s, i, j)

NoEntry == [score |-> -1, cut |-> 0]    \* (INF, -1)

\* Slip: the range stops one short.
PreviousEndsShort(s, j) == (s - 1)..(j - 2)

\* Slip: the previous stages hold one layer more than they need.
PreviousEndsDeep(s, j) == s..(j - 1)

\* Where stage s - 1 may end when stage s ends at j.
PreviousEnds(s, j) == (s - 1)..(j - 1)

\* dp[j][s]: the best score of layers 1..j on stages 1..s and the last layer of
\* stage s - 1; the first of equal candidates wins.
Table(obj, w, K) ==
  LET dp[s \in 1..K] == [j \in 1..NumLayers(w) |->
        IF s = 1
        THEN IF Fits(w, 1, 1, j)
             THEN [score |-> Extend(obj, w, K, 1, 0, 1, j), cut |-> 0] ELSE NoEntry
        ELSE LET from    == {i \in PreviousEnds(s, j) :
                               dp[s - 1][i] # NoEntry /\ Fits(w, s, i + 1, j)}
                 entries == {[score |-> Extend(obj, w, K, s, dp[s - 1][i].score, i + 1, j),
                              cut |-> i] : i \in from}
             IN  IF from = {} THEN NoEntry
                 ELSE CHOOSE e \in entries : \A f \in entries :
                        e.score < f.score \/ (e.score = f.score /\ e.cut <= f.cut)]
  IN  dp

\* "No feasible partition found." is the RuntimeError of the other case.
Solvable(obj, w, K) == Table(obj, w, K)[K][NumLayers(w)] # NoEntry

\* Backtracking from the last stage.
PartitionPipeline(obj, w, K) ==
  LET dp == Table(obj, w, K)
      lastOf[s \in 1..K] ==
        IF s = K THEN NumLayers(w) ELSE dp[s + 1][lastOf[s + 1]].cut
  IN  [s \in 1..(K - 1) |-> lastOf[s]]

-----------------------------------------------------------------------------
(* The window.                                                             *)

Increasing(cuts) == \A r, s \in DOMAIN cuts : r < s => cuts[r] < cuts[s]

\* prev_valid: the cuts make sense for this number of layers.
ValidCuts(w, cuts) ==
  Increasing(cuts) /\ \A s \in DOMAIN cuts : 1 <= cuts[s] /\ cuts[s] < NumLayers(w)

\* Slip: the window is cut off where the last stages would run empty, once too early.
SlideRangeShort(w, K, c, s) ==
  Larger2(s, c - Window)..Smaller(NumLayers(w) - (K - s) - 1, c + Window)

\* One past the last useful position is tried too; it leaves an empty segment.
SlideRange(w, K, c, s) ==
  Larger2(s, c - Window)..Smaller(NumLayers(w) - (K - s) + 1, c + Window)

Candidates(w, K, cuts) ==
  {c \in [1..(K - 1) -> 1..NumLayers(w)] :
     /\ Increasing(c) /\ c # cuts
     /\ \A s \in 1..(K - 1) : c[s] \in SlideRange(w, K, cuts[s], s)}

\* itertools.product enumerates in this order.
Before(c, d) ==
  \E s \in DOMAIN c : c[s] < d[s] /\ \A r \in DOMAIN c : r < s => c[r] = d[r]

\* Slip: the previous partition competes with the score it was built with.
StaleBaseline(obj, w, K, prev) == prev.score

\* The previous partition competes as rebuilt on the present workload.
Baseline(obj, w, K, prev) == Score(obj, w, K, prev.cuts)

\* What the cache holds of a partition; score is the one it was built with.
Built(obj, w, K, cuts) ==
  [cuts |-> cuts, layers |-> NumLayers(w), score |-> Score(obj, w, K, cuts)]

\* When the previous partition cannot be rebuilt and no candidate can be built
\* either, it is returned as it is.
IncrementalPartition(obj, w, K, prev) ==
  LET rebuilds == ValidCuts(w, prev.cuts) /\ Buildable(w, K, prev.cuts)
      base     == Baseline(obj, w, K, prev)
      better   == {p \in {Built(obj, w, K, c) :
                           c \in {d \in Candidates(w, K, prev.cuts) : Buildable(w, K, d)}} :
                     rebuilds => p.score < base}
  IN  IF better = {} THEN IF rebuilds THEN Built(obj, w, K, prev.cuts) ELSE prev
      ELSE CHOOSE p \in better : \A q \in better \ {p} :
             p.score < q.score \/ (p.score = q.score /\ Before(p.cuts, q.cuts))

-----------------------------------------------------------------------------
(* What the partitioner is for, said without its algorithm.                *)

Feasible(w, K) ==
  {c \in [1..(K - 1) -> 1..(NumLayers(w) - 1)] : Buildable(w, K, c)}

Optimal(obj, w, K, cuts) ==
  /\ cuts \in Feasible(w, K)
  /\ \A c \in Feasible(w, K) : Score(obj, w, K, cuts) <= Score(obj, w, K, c)

\* The cuts that differ from the given ones by at most the window, each.
Reach(w, K, cuts) ==
  {c \in Feasible(w, K) :
     \A s \in 1..(K - 1) : c[s] \in (cuts[s] - Window)..(cuts[s] + Window)}
=============================================================================
