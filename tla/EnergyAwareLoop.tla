-------------------------- MODULE EnergyAwareLoop --------------------------
(***************************************************************************)
(* EnergyAwareControlLoop.tick over the shared JobStore, the policies, the *)
(* partition cache and the worker pool.  The loop thread is split where    *)
(* other threads can get in between: at every JobStore call and at the     *)
(* pool call.  Submitters, trainers and the clock run between any two of   *)
(* its steps.  by_state returns live Job objects, so Decide reads the job  *)
(* as it is then, not as it was when it was listed.                        *)
(***************************************************************************)
EXTENDS DeadlineFloor, EnergyPolicies, FiniteSets

CONSTANTS
  Jobs,            (* job ids                                               *)
  Policy,          (* which energy policy the loop was built with           *)
  WithDeadline,    (* jobs with a DeadlineFloorSelector                     *)
  WithContext,     (* jobs with a RepartitionContext                        *)
  Layers,          (* number of layers of the model each job trains         *)
  PartitionFails,  (* whether the full DP may find no feasible partition    *)
  Patience,        (* stagnation_patience                                   *)
  Work,            (* iterations_target of every job                        *)
  Deadline,        (* deadline_s of every job                               *)
  MaxClock         (* bound on the clock                                    *)

ASSUME LoopAssumption ==
  /\ Policy \in PolicyKinds
  /\ Jobs # {} /\ WithDeadline \subseteq Jobs /\ WithContext \subseteq Jobs
  /\ Layers \in [Jobs -> Nat]
  /\ PartitionFails \in BOOLEAN
  /\ {Patience, Work, Deadline} \subseteq Nat \ {0} /\ MaxClock \in Nat

VARIABLES
  jobs,      (* the JobStore: state, allocated_gpus, iterations_done,
                submitted_at of each Job; PENDING until added               *)
  clock,     (* time.time()                                                 *)
  pc,        (* where the loop thread is in tick()                          *)
  now,       (* tick's `now`, read once when the tick starts                *)
  running,   (* what is left of the list by_state(RUNNING) returned         *)
  paused,    (* what is left of the list by_state(PAUSED) returned          *)
  dec,       (* the decision being applied: job, target, pause, reason and
                the depth of the partition reported in TickResult           *)
  above,     (* PowerAwareRulePolicy._ticks_above                           *)
  below,     (* PowerAwareRulePolicy._ticks_below                           *)
  span,      (* history: ticks the current run of counted samples touches   *)
  depth,     (* _partitions: stages of the cached partition, 0 for none     *)
  stagnant,  (* _trackers: _stagnant_calls, NoScore while there is no score *)
  pool       (* replicas the pool runs for each job                         *)

policyVars == <<above, below, span>>
cacheVars == <<depth, stagnant>>
vars == <<jobs, clock, pc, now, running, paused, dec, policyVars, cacheVars, pool>>

Terminal == {"COMPLETED", "FAILED", "DROPPED"}
JobStates == {"PENDING", "RUNNING", "PAUSED"} \union Terminal
Widest == Larger(CurveMax, MaxGpus)

ByState(s) == {j \in Jobs : jobs[j].state = s}
Secs(j, t) == Larger(0, jobs[j].submitted + Deadline - t)
FloorOf(j, t) == Floor(Larger(0, Work - jobs[j].done), Secs(j, t))

NoScore == -1   \* _best_score is still infinite: any score improves on it

\* tick()'s locals are dead between jobs and between ticks.
NoDecision ==
  [job |-> CHOOSE j \in Jobs : TRUE, target |-> 1, pause |-> FALSE,
   reason |-> "hold", partition |-> 0]

Init ==
  /\ jobs = [j \in Jobs |-> [state |-> "PENDING", gpus |-> 0, done |-> 0, submitted |-> 0]]
  /\ clock = 0 /\ now = 0
  /\ pc = "idle"
  /\ running = {} /\ paused = {}
  /\ dec = NoDecision
  /\ above = 0 /\ below = 0 /\ span = 0
  /\ depth = [j \in Jobs |-> 0]
  /\ stagnant = [j \in Jobs |-> NoScore]
  /\ pool = [j \in Jobs |-> 0]

-----------------------------------------------------------------------------
(* The submitter, the trainer and the clock.                               *)

\* energy_admit_or_drop, then the caller starts the job and adds it to the
\* store.  Which of the satisfying GPU counts also fits the energy budget is
\* EnergyBudgetMSS's question; any of them, or a rejection, may come out.
Submit(j) ==
  /\ jobs[j].state = "PENDING"
  /\ \/ \E g \in Satisfying(Work, Deadline) :
          jobs' = [jobs EXCEPT ![j] =
                     [state |-> "RUNNING", gpus |-> g, done |-> 0, submitted |-> clock]]
     \/ jobs' = [jobs EXCEPT ![j].state = "DROPPED"]
  /\ UNCHANGED <<clock, pc, now, running, paused, dec, policyVars, cacheVars, pool>>

\* A worker reports an iteration through store.update(iterations_done=...).
Train(j) ==
  /\ jobs[j].state \in {"RUNNING", "PAUSED"}
  /\ pool[j] > 0 /\ jobs[j].done < Work
  /\ jobs' = [jobs EXCEPT ![j].done = @ + 1]
  /\ UNCHANGED <<clock, pc, now, running, paused, dec, policyVars, cacheVars, pool>>

\* A worker ends the job through store.update(state=...).
Finish(j) ==
  /\ jobs[j].state \in {"RUNNING", "PAUSED"}
  /\ \/ jobs[j].done = Work /\ jobs' = [jobs EXCEPT ![j].state = "COMPLETED"]
     \/ jobs' = [jobs EXCEPT ![j].state = "FAILED"]
  /\ UNCHANGED <<clock, pc, now, running, paused, dec, policyVars, cacheVars, pool>>

Elapse ==
  /\ clock < MaxClock
  /\ clock' = clock + 1
  /\ UNCHANGED <<jobs, pc, now, running, paused, dec, policyVars, cacheVars, pool>>

-----------------------------------------------------------------------------
(* The loop thread.                                                        *)

StartTick ==
  /\ pc = "idle"
  /\ pc' = "list_running"
  /\ now' = clock
  /\ span' = IF above + below > 0 THEN AtMost(Hysteresis, span + 1) ELSE span
  /\ UNCHANGED <<jobs, clock, running, paused, dec, above, below, cacheVars, pool>>

\* Slip: every job that was ever started is listed.
ListEverything ==
  /\ pc = "list_running"
  /\ pc' = "list_paused"
  /\ running' = {j \in Jobs : jobs[j].state # "PENDING"}
  /\ UNCHANGED <<jobs, clock, now, paused, dec, policyVars, cacheVars, pool>>

ListRunning ==
  /\ pc = "list_running"
  /\ pc' = "list_paused"
  /\ running' = ByState("RUNNING")
  /\ UNCHANGED <<jobs, clock, now, paused, dec, policyVars, cacheVars, pool>>

\* Slip: the second listing asks for every live job again.
ListLive ==
  /\ pc = "list_paused"
  /\ pc' = "job"
  /\ paused' = ByState("RUNNING") \union ByState("PAUSED")
  /\ UNCHANGED <<jobs, clock, now, running, dec, policyVars, cacheVars, pool>>

ListPaused ==
  /\ pc = "list_paused"
  /\ pc' = "job"
  /\ paused' = ByState("PAUSED")
  /\ UNCHANGED <<jobs, clock, now, running, dec, policyVars, cacheVars, pool>>

EndTick ==
  /\ pc = "job" /\ running = {} /\ paused = {}
  /\ pc' = "idle" /\ now' = 0
  /\ UNCHANGED <<jobs, clock, running, paused, dec, policyVars, cacheVars, pool>>

\* The for loop takes the RUNNING jobs first.  Python's lists are in insertion
\* order; the order within a list is left open.
NextJobs == IF running # {} THEN running ELSE paused

Dequeue(j) ==
  IF running # {} THEN running' = running \ {j} /\ UNCHANGED paused
                  ELSE paused' = paused \ {j} /\ UNCHANGED running

CurrentGpus(j) == Larger(1, jobs[j].gpus)

\* Slips: the floor is computed from the full deadline, or added to the target.
TargetUnaged(j, d) ==
  IF j \in WithDeadline
  THEN Larger(Larger(1, d.target), Floor(Larger(0, Work - jobs[j].done), Deadline))
  ELSE Larger(1, d.target)

TargetStacked(j, d) ==
  IF j \in WithDeadline THEN d.target + FloorOf(j, now) ELSE Larger(1, d.target)

\* The policy's target, lifted to the deadline floor.
Target(j, d) ==
  IF j \in WithDeadline THEN Larger(Larger(1, d.target), FloorOf(j, now))
                        ELSE Larger(1, d.target)

\* The policy's memory after a decision; span follows the run of samples that
\* the counters count (it starts again when the other counter takes over).
Remember(d) ==
  /\ above' = d.above /\ below' = d.below
  /\ span' = IF d.above + d.below = 0 THEN 0
             ELSE IF (d.above > 0 /\ above > 0) \/ (d.below > 0 /\ below > 0)
             THEN span ELSE 1

\* Slip: a pipeline of two stages is not worth a repartition.
RepartitionsDeep(j, target) ==
  j \in WithContext /\ target # CurrentGpus(j) /\ target > 2

Repartitions(j, target) ==
  j \in WithContext /\ target # CurrentGpus(j) /\ target >= 2

\* Slip: an infeasible DP is not caught either.
TooDeepOrInfeasible(j, target) ==
  Repartitions(j, target) /\ depth[j] # target /\ (target > Layers[j] \/ PartitionFails)

\* partition_pipeline raises ValueError before it computes anything.
TooDeep(j, target) == Repartitions(j, target) /\ depth[j] # target /\ target > Layers[j]

\* _repartition, and the partition it returns.
FullDP(j, target, reported) ==
  /\ depth[j] # target
  /\ \/ /\ depth' = [depth EXCEPT ![j] = target]
        /\ stagnant' = [stagnant EXCEPT ![j] = NoScore]     \* reset_all
        /\ reported = target
     \/ /\ PartitionFails             \* RuntimeError: "keep old partition"
        /\ reported = depth[j]
        /\ UNCHANGED cacheVars

Incremental(j, target, reported) ==
  /\ depth[j] = target
  /\ reported = target
  /\ UNCHANGED depth
  /\ \/ stagnant' = [stagnant EXCEPT ![j] = 0]             \* a better score
     \/ /\ stagnant[j] # NoScore /\ stagnant[j] + 1 < Patience
        /\ stagnant' = [stagnant EXCEPT ![j] = @ + 1]
     \/ /\ stagnant[j] # NoScore /\ stagnant[j] + 1 >= Patience   \* escape
        /\ \/ stagnant' = [stagnant EXCEPT ![j] = 0]
           \/ /\ PartitionFails
              /\ stagnant' = [stagnant EXCEPT ![j] = AtMost(Patience, @ + 1)]

Repartition(j, target, reported) ==
  IF Repartitions(j, target)
  THEN FullDP(j, target, reported) \/ Incremental(j, target, reported)
  ELSE /\ reported = IF target >= 2 /\ target = CurrentGpus(j) THEN depth[j] ELSE 0
       /\ UNCHANGED cacheVars

Decide(j) ==
  /\ pc = "job" /\ j \in NextJobs
  /\ \E sample \in Samples(Policy) :
     \E d \in Decisions(Policy, CurrentGpus(j), sample, above, below) :
       LET target == Target(j, d)
       IN  /\ ~TooDeep(j, target)
           /\ Remember(d)
           /\ Dequeue(j)
           /\ pc' = "update"
           /\ \E reported \in 0..Widest :
                /\ Repartition(j, target, reported)
                /\ dec' = [job |-> j, target |-> target, pause |-> d.pause,
                           reason |-> d.reason, partition |-> reported]
  /\ UNCHANGED <<jobs, clock, now, pool>>

\* The ValueError leaves tick(), once the policy has counted the sample.
Crash(j) ==
  /\ pc = "job" /\ j \in NextJobs
  /\ \E sample \in Samples(Policy) :
     \E d \in Decisions(Policy, CurrentGpus(j), sample, above, below) :
       TooDeep(j, Target(j, d)) /\ Remember(d)
  /\ pc' = "raised" /\ dec' = [NoDecision EXCEPT !.job = j]
  /\ UNCHANGED <<jobs, clock, now, running, paused, cacheVars, pool>>

DropList ==
  /\ pc' = "idle" /\ now' = 0
  /\ running' = {} /\ paused' = {}

\* The rest of the list is not looked at.
Abort ==
  /\ pc = "raised"
  /\ DropList
  /\ dec' = NoDecision
  /\ UNCHANGED <<jobs, clock, policyVars, cacheVars, pool>>

\* Whatever a telemetry or intensity source raises when the policy asks it
\* (:157-176) leaves tick() too; at its start (:246) nothing has happened yet.
SourceFails ==
  /\ pc = "job" /\ NextJobs # {}
  /\ DropList
  /\ UNCHANGED <<jobs, clock, dec, policyVars, cacheVars, pool>>

\* job_store.update of all fields, under the store's lock.
Update ==
  /\ pc = "update"
  /\ pc' = "scale"
  /\ jobs' = [jobs EXCEPT ![dec.job].gpus = dec.target,
                          ![dec.job].state = IF dec.pause THEN "PAUSED" ELSE "RUNNING"]
  /\ UNCHANGED <<clock, now, running, paused, dec, policyVars, cacheVars, pool>>

\* Slip: a pause leaves the replicas running.
PoolTargetKept == dec.target

PoolTarget == IF dec.pause THEN 0 ELSE dec.target

Scale ==
  /\ pc = "scale"
  /\ pc' = "job" /\ dec' = NoDecision
  /\ pool' = [pool EXCEPT ![dec.job] = PoolTarget]
  /\ UNCHANGED <<jobs, clock, now, running, paused, policyVars, cacheVars>>

\* pool_scale_fn raised: logged, and the loop goes on.
ScaleFails ==
  /\ pc = "scale"
  /\ pc' = "job" /\ dec' = NoDecision
  /\ UNCHANGED <<jobs, clock, now, running, paused, policyVars, cacheVars, pool>>

LoopStep ==
  \/ StartTick \/ ListRunning \/ ListPaused \/ EndTick
  \/ \E j \in Jobs : Decide(j) \/ Crash(j)
  \/ Abort \/ SourceFails \/ Update \/ Scale \/ ScaleFails

Next ==
  \/ LoopStep
  \/ \E j \in Jobs : Submit(j) \/ Train(j) \/ Finish(j)
  \/ Elapse

Spec == Init /\ [][Next]_vars

\* Nothing in the repository calls tick() but its tests: that somebody calls it
\* for ever is an assumption, and so is a pool that does not fail for ever.
ScaleFor(j) == Scale /\ dec.job = j
FairSpec ==
  /\ Spec
  /\ WF_vars(LoopStep)
  /\ \A j \in Jobs : SF_vars(ScaleFor(j))

-----------------------------------------------------------------------------
(* Types; the deadline floor and the policy keep every width on the curve or *)
(* within the policy's limits, and the tracker counts at most to Patience.   *)
TypeOK ==
  /\ jobs \in [Jobs -> [state: JobStates, gpus: 0..Widest, done: 0..Work, submitted: 0..MaxClock]]
  /\ clock \in 0..MaxClock /\ now \in 0..MaxClock
  /\ pc \in {"idle", "list_running", "list_paused", "job", "update", "scale", "raised"}
  /\ running \subseteq Jobs /\ paused \subseteq Jobs
  /\ dec \in [job: Jobs, target: 1..Widest, pause: BOOLEAN, reason: Reasons,
              partition: 0..Widest]
  /\ above \in 0..(Hysteresis - 1) /\ below \in 0..(Hysteresis - 1)
  /\ span \in 0..Hysteresis
  /\ depth \in [Jobs -> 0..Widest]
  /\ stagnant \in [Jobs -> NoScore..Patience]
  /\ pool \in [Jobs -> 0..Widest]

InFlight(j) ==
  j \in running \/ j \in paused \/ (pc = "update" /\ dec.job = j)

(* A tick decides each job once, although it lists RUNNING and PAUSED jobs    *)
(* under two separate locks (energy_aware_control_loop.py:249-252): a job     *)
(* listed twice would advance the hysteresis twice and be scaled twice.       *)
WorklistOnce ==
  /\ running \intersect paused = {}
  /\ pc \in {"update", "scale"} => dec.job \notin running \union paused

(* A finished job that no tick has in hand stays finished and out of hand:    *)
(* the unconditional store.update of state (:288-294) can only revive a job   *)
(* that finished between its listing and its update.                          *)
FinishedStaysFinished ==
  [][\A j \in Jobs :
       jobs[j].state \in Terminal /\ ~InFlight(j) =>
         jobs'[j].state = jobs[j].state /\ ~InFlight(j)']_vars

(* The width written to the store is at least the deadline floor of the tick, *)
(* however far training got since the floor was computed (:262-272, with the  *)
(* store written only at :288): progress never raises the floor.              *)
FloorHeld ==
  pc = "scale" /\ dec.job \in WithDeadline =>
    jobs[dec.job].gpus >= FloorOf(dec.job, now)

(* With a planner that always finds a partition, a job wider than one GPU has *)
(* either no cached partition or one of exactly its width, through pauses,    *)
(* drops to one GPU and floors, and the partition a tick reports is one for   *)
(* the width it decided (:276-286, _repartition :205-242).                    *)
PartitionMatchesWidth ==
  /\ \A j \in Jobs :
       depth[j] # 0 /\ jobs[j].gpus >= 2 /\ ~(pc = "update" /\ dec.job = j) =>
         depth[j] = jobs[j].gpus
  /\ pc = "update" /\ dec.partition # 0 => dec.partition = dec.target

(* "consecutive ticks" (policy.py:62-66): a change of width for J/iter comes  *)
(* only after the counted samples spread over hysteresis_ticks ticks.         *)
HysteresisSpansTicks ==
  [][pc = "job" /\ pc' = "update" /\ dec'.reason \in {"inefficient", "efficient"} =>
       Hysteresis = 1 \/ span >= Hysteresis]_vars

\* A tick is cut short, and job j not decided in it, by the two exceptions that
\* nothing catches: a model with fewer layers than it may get GPUs, and a source
\* that raises.
DropsJob(j) ==
  /\ j \in running \union paused
  /\ (Layers[dec.job] < Widest /\ Abort) \/ SourceFails

(* A job that stays paused ends with no replicas, even if scaling fails now   *)
(* and then, as every tick drives the pool again (:301-307): all but a job    *)
(* that such exceptions keep dropping.                                        *)
PausedReleasesPool ==
  \A j \in Jobs :
    \/ []<><<DropsJob(j)>>_vars
    \/ <>[](jobs[j].state = "PAUSED") => <>[](pool[j] = 0)

(* Every job that keeps running is decided again and again, unless such       *)
(* exceptions keep dropping it: a planner that finds no partition, for the    *)
(* job itself or for others, starves nobody (:253, the except of :237-239),   *)
(* and neither do pool calls that fail (:302-307) or a tick cut short before. *)
EveryJobServed ==
  \A j \in Jobs :
    \/ []<><<DropsJob(j)>>_vars
    \/ []<>((pc = "update" /\ dec.job = j) \/ jobs[j].state \notin {"RUNNING", "PAUSED"})
=============================================================================
