----------------------------- MODULE PauseMasks -----------------------------
(***************************************************************************)
(* Which ticks of a carbon trace a job trains in: GREEN's offline optimum  *)
(* for a fraction of paused ticks, its online rule by the percentile of a  *)
(* rolling window, and the threshold over the median, offline and rolling; *)
(* and how a trace is cut into samples that begin at different hours.      *)
(* A mask problem has the trace, the paused fraction in Parts, the window  *)
(* and the threshold's multiplier of the median in tenths.                 *)
(***************************************************************************)
EXTENDS Integers, Sequences, Functions, TLC, FiniteSets

-----------------------------------------------------------------------------
(* simulate_policy and simulate_masked_policy: a job of a number of        *)
(* iterations runs through the windows of a cycled grid schedule, at one   *)
(* power cap or another, and pauses where its policy says so.  Work within *)
(* a window is counted in parts of an iteration.  A simulation is a record *)
(*   total, schedule, maxWindows : iterations, intensity per window, bound *)
(*   threshold : above it a window is dirty; or mask : active windows,     *)
(*     cycled; kind says which                                             *)
(*   clean, dirty : the measured points of the two caps, each with the     *)
(*     parts a window trains and the energy of a part; dirty is Pause when *)
(*     the policy pauses instead                                           *)
(*   resume, idle : energy of a resumption and of a paused window          *)

CONSTANT Parts            \* parts of an iteration

ASSUME PartsAssumption == Parts \in Nat \ {0}

\* dirty_cap_w is None.  A measured cap without throughput or energy would be the
\* same value; a GPU that trains nothing has no profile.
Pause == [parts |-> 0, energy |-> 0]

\* round(): the nearest whole number of iterations, the even one of two.
Rounded(parts) ==
  LET whole == parts \div Parts  twice == 2 * (parts % Parts) IN
  IF twice > Parts \/ (twice = Parts /\ whole % 2 = 1) THEN whole + 1 ELSE whole

SimInit ==
  [window |-> 0, iters |-> 0, billed |-> 0, carbon |-> 0, paused |-> FALSE, ran |-> 0]

Running(c, sim) == sim.iters < c.total /\ sim.window < c.maxWindows

IntensityIn(c, sim) == c.schedule[(sim.window % Len(c.schedule)) + 1]

Active(c, sim) ==
  IF c.kind = "masked" THEN c.mask[(sim.window % Len(c.mask)) + 1]
                       ELSE IntensityIn(c, sim) <= c.threshold

\* A paused window bills the idle power at its intensity.
PauseWindow(c, sim) ==
  [sim EXCEPT !.window = @ + 1, !.paused = TRUE,
              !.carbon = @ + c.idle * IntensityIn(c, sim)]

\* Slip: every active window pays for a resumption.
ResumeAlways(c, sim) == c.resume * IntensityIn(c, sim)

\* The first active window after a pause pays for the resumption.
Resume(c, sim) == IF sim.paused THEN c.resume * IntensityIn(c, sim) ELSE 0

\* An active window trains at its cap, or less when the job ends in it; its work
\* is billed in full and counted rounded.
TrainWindow(c, sim) ==
  LET point == IF Active(c, sim) THEN c.clean ELSE c.dirty
      left  == (c.total - sim.iters) * Parts
      parts == IF point.parts < left THEN point.parts ELSE left
  IN  [sim EXCEPT !.window = @ + 1, !.paused = FALSE, !.ran = @ + 1,
                  !.iters = @ + Rounded(parts), !.billed = @ + parts,
                  !.carbon = @ + Resume(c, sim)
                               + parts * point.energy * IntensityIn(c, sim)]

SimWindow(c, sim) ==
  IF ~Running(c, sim) THEN sim
  ELSE IF ~Active(c, sim) /\ c.dirty = Pause THEN PauseWindow(c, sim)
  ELSE TrainWindow(c, sim)

-----------------------------------------------------------------------------
(* break_even_window_s: how many dirty windows make a pause worth while.   *)

\* n windows are longer than T*, which is infinite unless the denominator is
\* positive.
BeyondBreakEven(active, idle, resume, dirtyI, cleanI, n) ==
  LET denom == active * (dirtyI - cleanI) - idle * dirtyI
  IN  denom > 0 /\ n * denom > resume * cleanI

-----------------------------------------------------------------------------
(* What the simulations are for.                                           *)

\* What is simulated: measured points and schedules.
IsSimulation(c) ==
  LET point == [parts : Nat, energy : Nat] IN
  /\ c \in [kind : {"threshold", "masked"}, total : Nat, maxWindows : Nat, threshold : Nat,
            schedule : Seq(Nat), mask : Seq(BOOLEAN), clean : point, dirty : point,
            resume : Nat, idle : Nat]
  /\ c.schedule # <<>> /\ c.mask # <<>>

\* Work counted and work billed part by at most half an iteration a window.
CountsWhatItBills(sim) ==
  LET gap == sim.iters * Parts - sim.billed IN
  2 * gap \in (-(sim.ran * Parts))..(sim.ran * Parts)

DirtyWindows(c) == {w \in DOMAIN c.schedule : c.schedule[w] > c.threshold}

\* The schedule is as clean as ever but for one run of equally dirty windows.
OneEpisode(c) ==
  /\ DirtyWindows(c) # {}
  /\ \A v, w \in DirtyWindows(c) : v..w \subseteq DirtyWindows(c)
  /\ \A v, w \in DOMAIN c.schedule :
       (v \in DirtyWindows(c) <=> w \in DirtyWindows(c)) => c.schedule[v] = c.schedule[w]

-----------------------------------------------------------------------------

\* round(pause_fraction * n)
PauseBudget(m) == Rounded(m.fraction * Len(m.trace))

\* The place of a tick by ascending intensity, earlier ticks first.
Rank(trace, t) ==
  Cardinality({u \in DOMAIN trace :
                 trace[u] < trace[t] \/ (trace[u] = trace[t] /\ u <= t)})

\* Slip: the cleanest ticks are paused.
OfflineMaskDirty(trace, paused) == [t \in DOMAIN trace |-> Rank(trace, t) > paused]

\* TRUE where the job trains.
OfflineMask(trace, paused) ==
  [t \in DOMAIN trace |-> Rank(trace, t) <= Len(trace) - paused]

RollingWindow(m, t) == SubSeq(m.trace, IF t > m.window THEN t - m.window + 1 ELSE 1, t)

\* sorted(), the index that has each rank and its value.
Ranked(s) == [k \in DOMAIN s |-> CHOOSE t \in DOMAIN s : Rank(s, t) = k]
Sorted(s) == [k \in DOMAIN s |-> s[Ranked(s)[k]]]

\* ceil((1 - pause_fraction) * n), and at least the first.
ThresholdIndex(m, n) ==
  LET k == ((Parts - m.fraction) * n + Parts - 1) \div Parts IN IF k < 1 THEN 1 ELSE k

\* A single sample tells nothing, so the job trains.
PercentileMask(m) ==
  [t \in DOMAIN m.trace |->
     LET w == RollingWindow(m, t) IN
     Len(w) <= 1 \/ m.trace[t] <= Sorted(w)[ThresholdIndex(m, Len(w))]]

TwiceMedian(s) ==
  LET n == Len(s) IN
  IF n % 2 = 1 THEN 2 * Sorted(s)[(n + 1) \div 2]
               ELSE Sorted(s)[n \div 2] + Sorted(s)[n \div 2 + 1]

BelowMedian(m, s, v) == 20 * v <= TwiceMedian(s) * m.multiplier

MedianMask(m) == [t \in DOMAIN m.trace |-> BelowMedian(m, m.trace, m.trace[t])]

RollingMedianMask(m) ==
  [t \in DOMAIN m.trace |->
     LET w == RollingWindow(m, t) IN Len(w) <= 1 \/ BelowMedian(m, w, m.trace[t])]

Paused(mask) == {t \in DOMAIN mask : ~mask[t]}

\* exp_h5c_vs_green: GREEN's offline mask at the budget of the median's.
SameBudgetMask(m) == OfflineMask(m.trace, Cardinality(Paused(MedianMask(m))))

-----------------------------------------------------------------------------
(* trace_schedule: how a zone's trace is prepared.  Of a mask problem, the *)
(* fraction is a quantile, and the window what a sample needs of a trace.  *)

\* quantile_threshold, Parts times the value interpolated between two ranks.
QuantileThreshold(m) ==
  LET n == Len(m.trace)
      pos == m.fraction * (n - 1)
      lo == pos \div Parts
      hi == IF lo + 1 < n - 1 THEN lo + 1 ELSE n - 1
      at(k) == Sorted(m.trace)[k + 1]
  IN  Parts * at(lo) + (pos % Parts) * (at(hi) - at(lo))

Rotated(trace, offset) ==
  [t \in DOMAIN trace |-> trace[((t - 1 + offset) % Len(trace)) + 1]]

\* Slip: the last sample may run out of trace.
OffsetsToEnd(m, stride) == {o \in 0..(Len(m.trace) - 1) : o % stride = 0}

\* diurnal_offsets: where samples begin.
Offsets(m, stride) ==
  {o \in 0..(IF Len(m.trace) > m.window THEN Len(m.trace) - m.window ELSE 0) : o % stride = 0}

-----------------------------------------------------------------------------
\* What training at every tick of a mask emits.
MaskCarbon(m, mask) ==
  SumFunctionOnSet(m.trace, DOMAIN mask \ Paused(mask))

\* The offline mask emits least of all that pause as often; the online one pauses
\* at just the ticks that are, in their window, within the fraction of the
\* dirtiest; a threshold above the median never pauses half of the ticks, and given
\* its budget GREEN pauses at the same ones.
MasksAreRight(m, masks) ==
  /\ Cardinality(Paused(masks.offline)) = PauseBudget(m)
  /\ \A mask \in [DOMAIN m.trace -> BOOLEAN] :
       Cardinality(Paused(mask)) <= PauseBudget(m) =>
         MaskCarbon(m, mask) >= MaskCarbon(m, masks.offline)
  /\ \A t \in DOMAIN m.trace :
       LET w == RollingWindow(m, t)
           asDirty == Cardinality({u \in DOMAIN w : w[u] >= m.trace[t]})
       IN  t \in Paused(masks.percentile) <=>
             Len(w) > 1 /\ asDirty < Len(w) /\ asDirty * Parts <= m.fraction * Len(w)
  /\ masks.sameBudget = masks.median
  /\ m.multiplier >= 10 => 2 * Cardinality(Paused(masks.median)) <= Len(m.trace)
  /\ m.window >= Len(m.trace) /\ Len(m.trace) > 1 =>
       (Len(m.trace) \in Paused(masks.rolling) <=> Len(m.trace) \in Paused(masks.median))

\* A trace with a quantile, and the length and the stride of its samples.
IsSampled(m) ==
  /\ m.trace \in Seq(Nat) /\ m.trace # <<>> /\ m.fraction \in 0..Parts
  /\ m.window \in Nat /\ m.stride \in Nat \ {0}

\* A quantile leaves no more ticks above it than its share of those but one, from
\* whichever hour the trace begins; a sample that fits the trace ends within it.
SamplesAreRight(m, samples) ==
  LET above(trace) == {t \in DOMAIN trace : Parts * trace[t] > samples.threshold} IN
  /\ \A offset \in DOMAIN samples.rotated :
       /\ Cardinality(above(samples.rotated[offset])) = Cardinality(above(m.trace))
       /\ Sorted(samples.rotated[offset]) = Sorted(m.trace)
  /\ Parts * Cardinality(above(m.trace)) < (Parts - m.fraction) * (Len(m.trace) - 1) + Parts
  /\ samples.offsets # {}
  /\ m.window <= Len(m.trace) =>
       \A o \in samples.offsets : o + m.window <= Len(m.trace)

=============================================================================
