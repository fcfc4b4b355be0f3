-------------------------- MODULE EnergyBudgetMSS --------------------------
(***************************************************************************)
(* Admission of one job: minimum_satisfactory_share (binary search over    *)
(* the throughput curve) and EnergyBudgetMSS.find (walk upward from it to  *)
(* the first GPU count that also fits the energy and carbon budgets).      *)
(*                                                                         *)
(* Rates, energies and budgets are integers: curve[x] iterations per unit  *)
(* of time, so "throughput >= iterations / deadline" is the product        *)
(* comparison of Meets.  The one place where the float arithmetic shows is *)
(* kept: int(throughput * (iterations / throughput)) may lose an iteration.*)
(* Ties of the integers are ties of the floats; a throughput that only     *)
(* rounds to the required rate, which the search takes and find()'s own    *)
(* comparison of the duration may refuse, is not among the curves.         *)
(***************************************************************************)
EXTENDS Integers

CONSTANTS
  MaxGpus,      (* length of the scaling curve                              *)
  Curves,       (* the throughput curves a job may come with                *)
  Profiles,     (* energy-per-iteration profiles                            *)
  CleanSets,    (* GPU counts whose projected emissions fit, per forecast   *)
  MaxIters,     (* bound on iterations_remaining                            *)
  MaxDeadline,  (* bound on deadline_seconds                                *)
  MaxBudget,    (* bound on energy_budget_kwh                               *)
  PowerPerGpu   (* power_per_gpu_w of the linear energy model               *)

Gpus == 1..MaxGpus

ASSUME SizeAssumption == MaxGpus \in Nat \ {0}
\* ScalingCurve's docstring: "must be non-decreasing" for the search to be right.
ASSUME CurveAssumption ==
  \A c \in Curves : c \in [Gpus -> Nat] /\ \A x, y \in Gpus : x <= y => c[x] <= c[y]
ASSUME BudgetAssumption ==
  /\ Profiles \subseteq [Gpus -> Nat]
  /\ CleanSets \subseteq SUBSET Gpus
  /\ {MaxIters, MaxDeadline, MaxBudget, PowerPerGpu} \subseteq Nat

VARIABLES
  job,     (* the request: iterations, deadline, curve, energy model, budgets *)
  phase,   (* "search", "walk" or "done"                                      *)
  lo, hi,  (* bounds of the binary search                                     *)
  x,       (* GPU count the walk looks at                                     *)
  gpus     (* the answer; 0 rejects                                           *)

mssVars == <<job, phase, lo, hi, x, gpus>>

Request ==
  [iters: 0..MaxIters, deadline: 0..MaxDeadline, curve: Curves, linear: BOOLEAN,
   profile: Profiles, budget: 0..MaxBudget, clean: CleanSets]

Meets(g) == job.curve[g] * job.deadline >= job.iters

\* project_energy_kwh at the duration that finishes the job: the linear model
\* bills power * g * iters / throughput, the profile a whole number of iterations.
FitsEnergy(g, billed) ==
  IF job.linear THEN PowerPerGpu * g * job.iters <= job.budget * job.curve[g]
                ELSE job.profile[g] * billed <= job.budget

\* Slip: the duration is cut to whole units as well, and another iteration lost.
BilledItersTwiceCut == {job.iters, job.iters - 1, job.iters - 2}

\* int(throughput * duration), with duration the rounded iters / throughput.
BilledIters == {job.iters, job.iters - 1}

MssInit ==
  /\ job \in Request
  /\ phase = "search"
  /\ lo = 1 /\ hi = MaxGpus
  /\ x = 0 /\ gpus = 0

Finish(answer) == phase' = "done" /\ gpus' = answer

NothingToDo == job.iters = 0 \/ job.deadline = 0

EarlyReturn ==
  /\ phase = "search" /\ NothingToDo
  /\ Finish(0)
  /\ UNCHANGED <<job, lo, hi, x>>

\* Slips of the search: the probe is strict, or the lower half keeps it.
HalveStrictly ==
  /\ phase = "search" /\ ~NothingToDo /\ lo < hi
  /\ LET mid == (lo + hi) \div 2
     IN  IF job.curve[mid] * job.deadline > job.iters THEN hi' = mid /\ lo' = lo
                                                      ELSE lo' = mid + 1 /\ hi' = hi
  /\ UNCHANGED <<job, phase, x, gpus>>

HalveKeepsProbe ==
  /\ phase = "search" /\ ~NothingToDo /\ lo < hi
  /\ LET mid == (lo + hi) \div 2
     IN  IF Meets(mid) THEN hi' = mid /\ lo' = lo
                       ELSE lo' = mid /\ hi' = hi
  /\ UNCHANGED <<job, phase, x, gpus>>

Halve ==
  /\ phase = "search" /\ ~NothingToDo /\ lo < hi
  /\ LET mid == (lo + hi) \div 2
     IN  IF Meets(mid) THEN hi' = mid /\ lo' = lo
                       ELSE lo' = mid + 1 /\ hi' = hi
  /\ UNCHANGED <<job, phase, x, gpus>>

\* Slip: the walk starts above the share, not at it.
ShareFoundAbove ==
  /\ phase = "search" /\ ~NothingToDo /\ lo >= hi
  /\ Meets(lo)
  /\ phase' = "walk" /\ x' = lo + 1
  /\ UNCHANGED <<job, lo, hi, gpus>>

ShareFound ==
  /\ phase = "search" /\ ~NothingToDo /\ lo >= hi
  /\ Meets(lo)
  /\ phase' = "walk" /\ x' = lo
  /\ UNCHANGED <<job, lo, hi, gpus>>

NoShare ==
  /\ phase = "search" /\ ~NothingToDo /\ lo >= hi
  /\ ~Meets(lo)
  /\ Finish(0)
  /\ UNCHANGED <<job, lo, hi, x>>

\* Slips: the carbon check, or the energy check, is left out.
AcceptsDirty(billed) ==
  /\ job.curve[x] > 0
  /\ Meets(x)
  /\ FitsEnergy(x, billed)

AcceptsCostly(billed) ==
  /\ job.curve[x] > 0
  /\ Meets(x)
  /\ x \in job.clean

\* The conditions find() tests at x, with the iterations it happens to bill.
Accepts(billed) ==
  /\ job.curve[x] > 0
  /\ Meets(x)
  /\ FitsEnergy(x, billed)
  /\ x \in job.clean

WalkAccept ==
  /\ phase = "walk" /\ x <= MaxGpus
  /\ \E billed \in BilledIters : Accepts(billed)
  /\ Finish(x)
  /\ UNCHANGED <<job, lo, hi, x>>

WalkSkip ==
  /\ phase = "walk" /\ x <= MaxGpus
  /\ \E billed \in BilledIters : ~Accepts(billed)
  /\ x' = x + 1
  /\ UNCHANGED <<job, phase, lo, hi, gpus>>

WalkExhausted ==
  /\ phase = "walk" /\ x > MaxGpus
  /\ Finish(0)
  /\ UNCHANGED <<job, lo, hi, x>>

MssNext ==
  \/ EarlyReturn \/ Halve \/ ShareFound \/ NoShare
  \/ WalkAccept \/ WalkSkip \/ WalkExhausted

MssSpec == MssInit /\ [][MssNext]_mssVars /\ WF_mssVars(MssNext)

-----------------------------------------------------------------------------
(* Every variable keeps its type; in particular the search never leaves the *)
(* curve (mss.py:70-76).                                                    *)
TypeOK ==
  /\ job \in Request
  /\ phase \in {"search", "walk", "done"}
  /\ lo \in Gpus /\ hi \in Gpus
  /\ x \in 0..(MaxGpus + 1)
  /\ gpus \in 0..MaxGpus

\* What the request asks for, when so many iterations are billed.
Acceptable(g, billed) ==
  /\ ~NothingToDo /\ Meets(g) /\ g \in job.clean
  /\ FitsEnergy(g, billed)

(* The walk starts at the smallest satisfying share: binary search skips no  *)
(* smaller GPU count that meets the deadline (mss.py:62-79, its docstring).  *)
SmallestShare ==
  phase = "walk" => Meets(lo) /\ \A g \in Gpus : g < lo => ~Meets(g)

(* find() returns the smallest GPU count that fits, although energy goes     *)
(* either way with more GPUs (mss.py:156-182): no smaller one than the answer *)
(* is acceptable, none at all for a rejected job, whether the early return,   *)
(* the failed search or the exhausted walk turned it away.  The energy budget *)
(* may be overrun by less than the iteration that int() loses (mss.py:130).   *)
SmallestFit ==
  phase = "done" =>
    /\ \A g \in Gpus : (gpus = 0 \/ g < gpus) => ~Acceptable(g, job.iters)
    /\ gpus # 0 => Acceptable(gpus, job.iters - 1)

(* The search always ends: the interval shrinks at every probe (an lo = mid  *)
(* slip would loop for ever on an interval of two).                          *)
Terminates == <>(phase = "done")
=============================================================================
