---------------------------- MODULE AdmittedRun ----------------------------
(***************************************************************************)
(* What becomes of a job after its admission: it is trained on the GPUs    *)
(* that the ticks of EnergyAwareControlLoop give it, at the rates of the   *)
(* curve it was admitted with, until its deadline.  Admission looks at the *)
(* deadline once; a DeadlineFloorSelector with its default settings looks  *)
(* at what is left of it in every tick and overrides an energy policy that *)
(* asks for less.                                                          *)
(*                                                                         *)
(* EnergyBudgetMSS answers the request; then time passes from tick to tick *)
(* by any number of units, so the cadence may be irregular.                *)
(***************************************************************************)
EXTENDS EnergyBudgetMSS

VARIABLES
  runs,   (* the job was admitted and its deadline is running               *)
  left,   (* iters_remaining()                                              *)
  secs,   (* deadline_seconds_remaining()                                   *)
  idle    (* history: time without the workers of the last tick's width     *)

runVars == <<runs, left, secs, idle>>
allVars == <<mssVars, runVars>>

\* The selector of a job with this curve; min_gpus is 1, infeasible_floor max_gpus.
Selector(curve) == INSTANCE DeadlineFloor WITH
  CurveMax <- MaxGpus, Throughput <- curve, MinFloor <- 1, InfeasibleFloor <- MaxGpus

RunInit ==
  /\ MssInit
  /\ runs = FALSE /\ left = 0 /\ secs = 0 /\ idle = 0

Admission == MssNext /\ UNCHANGED runVars

\* energy_admit_or_drop admits; the deadline has been running since submission.
Submit ==
  /\ phase = "done" /\ gpus # 0 /\ ~runs
  /\ runs' = TRUE
  /\ left' = job.iters /\ secs' = job.deadline
  /\ UNCHANGED <<mssVars, idle>>

\* Slip: the floor is that of the day of submission.
WidthUnaged(asked) ==
  LET floor == Selector(job.curve)!Floor(left, job.deadline)
  IN  IF asked < floor THEN floor ELSE asked

\* The policy's width, lifted to the deadline floor.
Width(asked) ==
  LET floor == Selector(job.curve)!Floor(left, secs)
  IN  IF asked < floor THEN floor ELSE asked

\* A worker's iterations until the next tick; more GPUs than the curve has
\* points are no faster than its last.
Train(done) == left' = IF done < left THEN left - done ELSE 0

Pass(time) == time <= secs /\ secs' = secs - time

\* A tick, whatever the policy asks for, and the time until the next one.
TickAndTrain ==
  /\ runs /\ left > 0
  /\ \E asked \in Gpus, time \in 1..MaxDeadline :
       Pass(time) /\ Train(job.curve[Width(asked)] * time)
  /\ UNCHANGED <<mssVars, runs, idle>>

\* Time in which the job has not the workers of the tick: none has come yet, the
\* policy paused it (a pause wins over the floor), or the pool call failed.
Lapse ==
  /\ runs /\ left > 0
  /\ \E done \in 0..MaxIters, time \in 1..MaxDeadline :
       Pass(time) /\ Train(done) /\ idle' = idle + time
  /\ UNCHANGED <<mssVars, runs>>

RunNext == Admission \/ Submit \/ TickAndTrain \/ Lapse

RunSpec == RunInit /\ [][RunNext]_allVars /\ WF_allVars(Admission)

-----------------------------------------------------------------------------
Peak == job.curve[MaxGpus]

(* The floor closes the gap that admission leaves ("the scheduler is free to  *)
(* throttle or scale down to save energy", deadline_selector.py:3-11): for    *)
(* any policy and cadence an admitted job is behind its deadline by no more   *)
(* than the fastest width would have done while it had no workers; without    *)
(* such time it is finished when the deadline comes.                          *)
BehindOnlyByIdling ==
  runs => left <= Peak * (secs + idle)
=============================================================================
