--------------------------- MODULE Repartitioning ---------------------------
(***************************************************************************)
(* _repartition of the control loop for one job, with the partitions that  *)
(* the partitioner really computes: the cached partition, the stagnation   *)
(* tracker and a workload that drifts between ticks.                       *)
(***************************************************************************)
EXTENDS PipelinePartition

CONSTANTS
  Workloads,   (* what telemetry may show, a sequence of workload records   *)
  MaxWidth,    (* widest target of the policy                               *)
  Patience,    (* stagnation_patience                                       *)
  MinDelta,    (* min_delta                                                 *)
  MaxDrifts    (* bound on the number of drifts                             *)

ASSUME RepartitioningAssumption ==
  /\ {MaxWidth, Patience} \subseteq Nat \ {0}
  /\ {MinDelta, MaxDrifts} \subseteq Nat
  /\ \A k \in DOMAIN Workloads : IsWorkload(Workloads[k], MaxWidth)

VARIABLES
  objective,   (* RepartitionContext.objective                              *)
  shown,       (* index of what stages, links and layers are now            *)
  drifts,      (* drifts so far                                             *)
  gpus,        (* the job's allocated_gpus                                  *)
  cached,      (* _partitions[job]                                          *)
  best,        (* the tracker's _best_score                                 *)
  stagnant,    (* the tracker's _stagnant_calls, capped at Patience         *)
  how          (* history: where the last tick's partition came from        *)

vars == <<objective, shown, drifts, gpus, cached, best, stagnant, how>>

workload == Workloads[shown]

Nothing == [cuts |-> <<>>, layers |-> 0, score |-> 0]   \* no cached partition
Infinite == -1

Depth == IF cached = Nothing THEN 0 ELSE Cardinality(DOMAIN cached.cuts) + 1

Init ==
  /\ objective \in Objectives
  /\ shown \in DOMAIN Workloads
  /\ drifts = 0
  /\ gpus = 1
  /\ cached = Nothing
  /\ best = Infinite /\ stagnant = 0
  /\ how = "idle"

Drift ==
  /\ drifts < MaxDrifts
  /\ drifts' = drifts + 1
  /\ shown' \in DOMAIN Workloads \ {shown}
  /\ how' = "idle"
  /\ UNCHANGED <<objective, gpus, cached, best, stagnant>>

\* What partition_pipeline answers; nothing if it raises RuntimeError.
Plan(target) ==
  IF Solvable(objective, workload, target)
  THEN {Built(objective, workload, target, PartitionPipeline(objective, workload, target))}
  ELSE {}

-----------------------------------------------------------------------------
(* A tick that ends with the given target.                                 *)

Keep(target) ==
  /\ target = gpus \/ target < 2
  /\ gpus' = target
  /\ how' = "idle"
  /\ UNCHANGED <<objective, shown, drifts, cached, best, stagnant>>

Changes(target) == target # gpus /\ target >= 2
FromNothing(target) == Changes(target) /\ Depth # target

\* ValueError: the tick ends here and the store keeps the old width.
TooDeep(target) ==
  /\ FromNothing(target) /\ target > NumLayers(workload)
  /\ how' = "idle"
  /\ UNCHANGED <<objective, shown, drifts, gpus, cached, best, stagnant>>

\* Slip: reset instead of reset_all.
ForgetCalls == stagnant' = 0 /\ UNCHANGED best

ResetAll == best' = Infinite /\ stagnant' = 0
Reset == stagnant' = 0 /\ UNCHANGED best

FullDP(target) ==
  /\ FromNothing(target) /\ target <= NumLayers(workload)
  /\ cached' \in Plan(target)
  /\ ResetAll
  /\ gpus' = target
  /\ how' = "full"
  /\ UNCHANGED <<objective, shown, drifts>>

\* "keep old partition; caller handles allocation change".
FullDPFails(target) ==
  /\ FromNothing(target) /\ target <= NumLayers(workload)
  /\ Plan(target) = {}                                      \* RuntimeError
  /\ gpus' = target
  /\ how' = "failed"
  /\ UNCHANGED <<objective, shown, drifts, cached, best, stagnant>>

\* Slip: the tracker rewards a score that is as good as the best one.
ImprovesWeakly(score) == best = Infinite \/ score <= best - MinDelta

Improves(score) == best = Infinite \/ score < best - MinDelta

Calls(score) ==
  IF Improves(score) THEN 0 ELSE Smaller(Patience, stagnant + 1)

\* tracker.observe of a partition.
Observe(score) ==
  /\ best' = IF Improves(score) THEN score ELSE best
  /\ stagnant' = Calls(score)

Slide(target, p) ==
  /\ Calls(p.score) < Patience
  /\ Observe(p.score)
  /\ cached' = p
  /\ gpus' = target
  /\ how' = "window"
  /\ UNCHANGED <<objective, shown, drifts>>

\* The window has stagnated.
Escape(target, p) ==
  /\ Calls(p.score) = Patience /\ target <= NumLayers(workload)
  /\ cached' \in Plan(target)
  /\ Reset
  /\ gpus' = target
  /\ how' = "escape"
  /\ UNCHANGED <<objective, shown, drifts>>

\* The slid partition is dropped, although the tracker has observed it.
EscapeFails(target, p) ==
  /\ Calls(p.score) = Patience /\ target <= NumLayers(workload)
  /\ Plan(target) = {}                                      \* RuntimeError
  /\ Observe(p.score)
  /\ gpus' = target
  /\ how' = "failed"
  /\ UNCHANGED <<objective, shown, drifts, cached>>

\* Escaping with fewer layers than stages: ValueError again.
EscapeTooDeep(target, p) ==
  /\ Calls(p.score) = Patience /\ target > NumLayers(workload)
  /\ Observe(p.score)
  /\ how' = "idle"
  /\ UNCHANGED <<objective, shown, drifts, gpus, cached>>

Incremental(target) ==
  /\ Changes(target) /\ Depth = target
  /\ LET p == IncrementalPartition(objective, workload, target, cached)
     IN  \/ Slide(target, p)
         \/ Escape(target, p) \/ EscapeFails(target, p) \/ EscapeTooDeep(target, p)

Tick ==
  \E target \in 1..MaxWidth :
    \/ Keep(target) \/ TooDeep(target)
    \/ FullDP(target) \/ FullDPFails(target)
    \/ Incremental(target)

Next == Tick \/ Drift

Spec == Init /\ [][Next]_vars

\* The loop ticks for ever.
FairSpec == Spec /\ WF_vars(Tick)

-----------------------------------------------------------------------------
(* The dynamic program and its backtracking (partitioner.py:244-307) give a   *)
(* partition that fits every stage and that no other feasible one beats, for  *)
(* both objectives, with transfers, memory and power caps; and a RuntimeError *)
(* means that no partition of the wanted depth exists: the pruning of         *)
(* infeasible segments (:244-255) never loses a feasible one.                 *)
FullIsOptimal ==
  /\ how \in {"full", "escape"} => Optimal(objective, workload, Depth, cached.cuts)
  /\ how = "failed" => Feasible(workload, gpus) = {}

(* incremental_partition (:353-386) returns the best partition within the     *)
(* window on the present workload, whatever the drift since the previous one  *)
(* was scored; only when none within reach fits does it keep the previous.    *)
WindowIsOptimal ==
  [][how' = "window" =>
       LET reach == Reach(workload, Depth, cached.cuts)
       IN  IF reach = {} THEN cached' = cached
           ELSE /\ cached'.cuts \in reach
                /\ cached'.score = Score(objective, workload, Depth, cached'.cuts)
                /\ \A c \in reach : cached'.score <= Score(objective, workload, Depth, c)]_vars

(* Local minima are left (StagnationTracker, :457-463): when the workload has *)
(* stopped drifting and the job is repartitioned again and again, its         *)
(* partition is optimal from some moment on.                                  *)
EventuallyOptimal ==
  []<>(how \in {"full", "window", "escape"}) =>
    <>[](how = "failed" \/ Feasible(workload, Depth) = {}
         \/ Optimal(objective, workload, Depth, cached.cuts))

(* The cache behaves as the loop relies on.                                   *)
Cache == INSTANCE PartitionCache WITH
  MaxDepth <- MaxWidth,
  depth    <- Depth,
  stagnant <- IF best = Infinite THEN -1 ELSE stagnant

ImplementsCache == Cache!Spec
=============================================================================
