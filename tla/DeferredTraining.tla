-------------------------- MODULE DeferredTraining --------------------------
(***************************************************************************)
(* The drivers that defer training to cleaner hours: they follow a carbon  *)
(* schedule, pause a HostTrainer above a threshold - checkpoint, release,  *)
(* scale to zero - resume it below, and mark the phases in a ledger.       *)
(*   "deferral"    _run_policy: until total_iters or max_ticks             *)
(*   "serverless"  _carbon_aware_run: once over the schedule               *)
(*   "always_on"   _always_on_run: the same without pauses                 *)
(* The process may die at any point, the checkpoint half written, and be   *)
(* run again over the same file.                                           *)
(***************************************************************************)
EXTENDS HostTrainer, PodLedger

CONSTANTS
  Schedules,     (* carbon intensities by tick                             *)
  Thresholds,    (* pause above                                            *)
  TotalIters,    (* total_iters of the deferral driver                     *)
  MaxTicks,      (* max_ticks                                              *)
  MaxBurst,      (* bound on the iterations of a run without a total       *)
  MaxRuns        (* bound on the runs over one checkpoint file             *)

ASSUME DriverAssumption ==
  /\ Schedules \subseteq Seq(Int)
  /\ \A s \in Schedules : s # <<>> /\ Len(s) * TotalIters <= MaxTicks
  /\ {TotalIters, MaxTicks, MaxBurst, MaxRuns} \subseteq Nat

VARIABLES
  plan,          (* driver, schedule, threshold and number of this run     *)
  pc,            (* where the driver is                                    *)
  trainer,       (* the HostTrainer                                        *)
  ckpt,          (* the file at ckpt_path                                  *)
  running,       (* the driver's flag                                      *)
  ever_started,  (* the driver's flag                                      *)
  ticks,         (* ticks begun                                            *)
  marks,         (* the ledger's marks                                     *)
  kwh,           (* the energy so far: what the meter reads at a mark, and
                    for "deferral", whose ledger has no meter, what the
                    recorded trace integrates to up to the mark's time     *)
  spent          (* history since the first mark: energy by what it went
                    into, and its carbon                                   *)

vars == <<plan, pc, trainer, ckpt, running, ever_started, ticks, marks, kwh, spent>>

Drivers == {"deferral", "serverless", "always_on"}
Plans(r) ==
  {[driver |-> d, schedule |-> s, threshold |-> t, run |-> r] :
     d \in Drivers, s \in Schedules, t \in Thresholds}

Fresh(r) ==
  [pc |-> "tick", trainer |-> NewTrainer(r), spent |-> [work |-> 0, idle |-> 0, carbon |-> 0]]

Init ==
  /\ plan \in Plans(1) /\ pc = "tick" /\ trainer = NewTrainer(1) /\ ckpt = NoFile
  /\ running = FALSE /\ ever_started = FALSE /\ ticks = 0
  /\ marks = <<>> /\ kwh = 0 /\ spent = Fresh(1).spent

\* ticks % len(schedule), counted from the tick before the increment.
IntensityAt(t) == plan.schedule[((t - 1) % Len(plan.schedule)) + 1]
Intensity == IntensityAt(ticks)

\* Slip: a tick at the threshold pauses.
PausesAt(t) == IntensityAt(t) >= plan.threshold

Pauses(t) == IntensityAt(t) > plan.threshold

\* The energy of a step, what it is for and the intensity it is spent at; the
\* ledger knows nothing of the time before its first mark.
SpentMore(e, what) == [spent EXCEPT ![what] = @ + e, !.carbon = @ + e * Intensity]

Spend(e, what) ==
  /\ kwh' = kwh + e
  /\ spent' = IF marks = <<>> THEN spent ELSE SpentMore(e, what)

MarkNow(phase, t) == marks' = Append(marks, Mark(phase, 0, kwh, IntensityAt(t)))

More ==
  IF plan.driver = "deferral"
  THEN trainer.iters_done < TotalIters /\ ticks < MaxTicks
  ELSE ticks < Len(plan.schedule)

\* Slip: the deferral driver marks a phase only when it changes.
MarksTransitions == plan.driver = "always_on"

\* _run_policy and _always_on_run mark every tick, _carbon_aware_run does not.
MarksEveryTick == plan.driver # "serverless"

-----------------------------------------------------------------------------
(* A tick above the threshold, and one below.                              *)

TickPauses ==
  /\ pc = "tick" /\ More /\ plan.driver # "always_on" /\ Pauses(ticks + 1)
  /\ ticks' = ticks + 1
  /\ pc' = IF running THEN "save" ELSE "sleep"
  /\ IF plan.driver = "deferral" THEN MarkNow("idle", ticks + 1) ELSE UNCHANGED marks
  /\ UNCHANGED <<plan, trainer, ckpt, running, ever_started, kwh, spent>>

TickRuns ==
  /\ pc = "tick" /\ More /\ (plan.driver = "always_on" \/ ~Pauses(ticks + 1))
  /\ ticks' = ticks + 1
  /\ pc' = IF running THEN "burst" ELSE "start"
  /\ IF running THEN IF MarksEveryTick THEN MarkNow("active", ticks + 1) ELSE UNCHANGED marks
                ELSE MarkNow("cold_start", ticks + 1)
  /\ UNCHANGED <<plan, trainer, ckpt, running, ever_started, kwh, spent>>

\* What follows a start: the driver is running, and the active phase begins.
Started ==
  /\ running' = TRUE /\ ever_started' = TRUE /\ pc' = "burst"
  /\ marks' = Append(marks, Mark("active", 0, kwh', Intensity))

ColdStart ==
  /\ pc = "start" /\ ~ever_started
  /\ trainer' = ColdInit(trainer)
  /\ \E wait \in 0..1 : Spend(WarmupIters + wait, "work")
  /\ Started
  /\ UNCHANGED <<plan, ckpt, ticks>>

Build ==
  /\ pc = "start" /\ ever_started
  /\ trainer' = Built(trainer) /\ pc' = "load"
  /\ \E wait \in 0..1 : Spend(wait, "work")
  /\ UNCHANGED <<plan, ckpt, running, ever_started, ticks, marks>>

Load ==
  /\ pc = "load" /\ ckpt.kind = "saved"
  /\ trainer' = Resumed(trainer, ckpt)
  /\ Spend(WarmupIters, "work")
  /\ Started
  /\ UNCHANGED <<plan, ckpt, ticks>>

\* _train_until: at least one chunk of a burst, then until its time is over.
Goal == IF plan.driver = "deferral" THEN TotalIters ELSE MaxBurst

Burst ==
  /\ pc = "burst"
  /\ IF trainer.iters_done < Goal
     THEN /\ trainer' = Trained(trainer, Chunk)
          /\ pc' \in {"burst", "tick"}
          /\ Spend(Chunk, "work")
     ELSE pc' = "tick" /\ UNCHANGED <<trainer, kwh, spent>>
  /\ UNCHANGED <<plan, ckpt, running, ever_started, ticks, marks>>

\* torch.save overwrites the file in place.
SaveBegins ==
  /\ pc = "save"
  /\ ckpt' = Torn /\ pc' = "saving"
  /\ UNCHANGED <<plan, trainer, running, ever_started, ticks, marks, kwh, spent>>

\* The deferral driver has marked IDLE by now, the serverless one has not.
SaveEnds ==
  /\ pc = "saving"
  /\ ckpt' = Saved(trainer)
  /\ pc' = "release"
  /\ Spend(1, IF plan.driver = "deferral" THEN "idle" ELSE "work")
  /\ UNCHANGED <<plan, trainer, running, ever_started, ticks, marks>>

Release ==
  /\ pc = "release"
  /\ trainer' = Released(trainer, plan.driver = "deferral")
  /\ IF plan.driver = "serverless" THEN MarkNow("idle", ticks) ELSE UNCHANGED marks
  /\ \E drain \in 0..1 : Spend(drain, "idle")
  /\ running' = FALSE /\ pc' = "sleep"
  /\ UNCHANGED <<plan, ckpt, ever_started, ticks>>

Sleep ==
  /\ pc = "sleep"
  /\ Spend(1, "idle") /\ pc' = "tick"
  /\ UNCHANGED <<plan, trainer, ckpt, running, ever_started, ticks, marks>>

\* The report is taken; then deferral tears down what runs, and always_on saves
\* and tears down.
Ends ==
  /\ pc = "tick" /\ ~More
  /\ trainer' = IF (plan.driver = "deferral" /\ running) \/ plan.driver = "always_on"
                THEN Released(trainer, FALSE) ELSE trainer
  /\ ckpt' = IF plan.driver = "always_on" THEN Saved(trainer) ELSE ckpt
  /\ running' = IF plan.driver = "deferral" THEN FALSE ELSE running
  /\ pc' = "done"
  /\ UNCHANGED <<plan, ever_started, ticks, marks, kwh, spent>>

Drive ==
  \/ TickPauses \/ TickRuns \/ ColdStart \/ Build \/ Load \/ Burst
  \/ SaveBegins \/ SaveEnds \/ Release \/ Sleep \/ Ends

-----------------------------------------------------------------------------
\* An exception or a kill: no driver catches one, and none starts from the file.
Dies ==
  /\ pc \notin {"done", "dead"}
  /\ pc' = "dead"
  /\ UNCHANGED <<plan, trainer, ckpt, running, ever_started, ticks, marks, kwh, spent>>

\* A new run, with a HostTrainer of its own, over the same file.
Rerun ==
  /\ pc \in {"done", "dead"} /\ plan.run < MaxRuns
  /\ plan' \in Plans(plan.run + 1)
  /\ pc' = "tick" /\ trainer' = NewTrainer(plan'.run)
  /\ running' = FALSE /\ ever_started' = FALSE /\ ticks' = 0
  /\ marks' = <<>> /\ kwh' = 0 /\ spent' = Fresh(1).spent
  /\ UNCHANGED ckpt

Next == Drive \/ Dies \/ Rerun

Spec == Init /\ [][Next]_vars
FairSpec == Spec /\ WF_vars(Drive)

-----------------------------------------------------------------------------
(* What a pause leaves of the job.  While the model is off the GPU its state  *)
(* is what the file holds, and what is over is remembered by its count; only  *)
(* the deferral driver keeps its loader, the others' data begins anew.        *)
Over == pc \in {"done", "dead"}
OffGpu == trainer.model = None \/ pc = "load"

Held(part) ==
  IF ~ever_started THEN 0
  ELSE IF Over THEN trainer.iters_done
  ELSE IF OffGpu THEN ckpt[part] ELSE trainer[part]

DataSeen ==
  IF plan.driver = "deferral" /\ ~Over
  THEN IF trainer.loader = None THEN 0 ELSE trainer.loader
  ELSE IF ever_started THEN trainer.iters_done ELSE 0

Uninterrupted ==
  INSTANCE Training WITH run <- trainer.of, weights <- Held("model"),
                         momentum <- Held("optim"), data <- DataSeen

(* Pausing and resuming is invisible to the training: a resumed job continues *)
(* exactly (host_trainer.py:82), from its own run's checkpoint and never from *)
(* one a killed run left half written or a previous run left whole.           *)
ImplementsTraining == Uninterrupted!Spec

(* The ledger's phases bill the training's energy to cold start and active    *)
(* and the pauses' to idle; a driver that marks every tick also bills each    *)
(* joule at the intensity it was spent at (pod_ledger.py:27-29).              *)
BilledWhereSpent ==
  LET report == Report(marks, 0, kwh) IN
  /\ Energy(OfPhase(report, "idle")) = spent.idle
  /\ Energy(report) = spent.work + spent.idle
  /\ plan.driver # "serverless" => Carbon(report) = spent.carbon

(* A deferred job gets its iterations in the end, through any number of       *)
(* pauses, if its schedule has a tick it does not pause at and its max_ticks  *)
(* leaves it time; every other run ends too, unless it dies.                  *)
Completes ==
  pc = "tick" ~>
    \/ pc = "dead"
    \/ /\ pc = "done"
       /\ /\ plan.driver = "deferral"
          /\ (\E t \in 1..Len(plan.schedule) : IntensityAt(t) <= plan.threshold)
          => trainer.iters_done >= TotalIters
=============================================================================
