----------------------- MODULE EnergyAwareLoop_proofs -----------------------
(* Proofs about the control loop for every set of jobs, scaling curve,       *)
(* policy and bound.                                                         *)
EXTENDS EnergyAwareLoop, WellFoundedInduction, TLAPS

-----------------------------------------------------------------------------
(* The deadline floor as a function of the work left.                        *)

LEMMA SmallestExists ==
  ASSUME NEW S \in SUBSET Nat, S # {}
  PROVE  \E m \in S : \A n \in S : m <= n
  <1> DEFINE Less == OpToRel(<, Nat)
  <1>0. \A m, n \in Nat : <<m, n>> \in Less <=> m < n
    BY DEF OpToRel
  <1>a. IsWellFoundedOn(Less, Nat)
    BY NatLessThanWellFounded
  <1> HIDE DEF Less
  <1>1. PICK m \in S : \A n \in S : ~(<<n, m>> \in Less)
    BY <1>a, WFMin
  <1>2. \A n \in S : ~(n < m)
    BY <1>0, <1>1
  <1>3. \A n \in S : m <= n
    BY <1>2
  <1> QED BY <1>3

LEMMA ShareIsSmallest ==
  ASSUME NEW left, NEW secs
  PROVE  /\ Satisfying(left, secs) = {} => MinimumShare(left, secs) = 0
         /\ Satisfying(left, secs) # {} =>
              /\ MinimumShare(left, secs) \in Satisfying(left, secs)
              /\ \A g \in Satisfying(left, secs) : MinimumShare(left, secs) <= g
  <1>1. Satisfying(left, secs) \in SUBSET Nat
    BY CurveAssumption DEF Satisfying, CurveGpus
  <1>2. Satisfying(left, secs) # {} =>
          \E m \in Satisfying(left, secs) : \A n \in Satisfying(left, secs) : m <= n
    BY <1>1, SmallestExists
  <1> QED BY <1>2 DEF MinimumShare

LEMMA FloorType ==
  ASSUME NEW left \in Nat, NEW secs \in Nat
  PROVE  Floor(left, secs) \in CurveGpus
  <1>1. MinimumShare(left, secs) \in CurveGpus \union {0}
    BY ShareIsSmallest DEF Satisfying
  <1> QED BY <1>1, CurveAssumption, FloorAssumption
          DEF Floor, Larger, Smaller, CurveGpus

\* With the default ceiling, having done more never asks for more GPUs.
LEMMA FloorAntitone ==
  ASSUME InfeasibleFloor >= CurveMax,
         NEW less \in Nat, NEW more \in Nat, NEW secs \in Nat, less <= more
  PROVE  Floor(less, secs) <= Floor(more, secs)
  <1>1. Floor(less, secs) \in CurveGpus /\ Floor(more, secs) \in CurveGpus
    BY FloorType
  <1>2. CASE secs = 0 \/ more = 0 \/ less = 0
    BY <1>1, <1>2, CurveAssumption, FloorAssumption
       DEF Floor, Larger, Smaller, CurveGpus
  <1>3. CASE secs > 0 /\ less > 0
    <2>1. Satisfying(more, secs) \subseteq Satisfying(less, secs)
      <3> SUFFICES ASSUME NEW g \in CurveGpus, Throughput[g] * secs >= more
                   PROVE  Throughput[g] * secs >= less
        BY DEF Satisfying
      <3>1. Throughput[g] * secs \in Nat
        BY CurveAssumption
      <3> QED BY <3>1
    <2>2. CASE Satisfying(more, secs) = {}
      <3>1. MinimumShare(more, secs) = 0
        BY <2>2, ShareIsSmallest
      <3>2. Floor(more, secs) = CurveMax
        BY <1>3, <3>1, CurveAssumption, FloorAssumption DEF Floor, Smaller
      <3> QED BY <1>1, <3>2 DEF CurveGpus
    <2>3. CASE Satisfying(more, secs) # {}
      <3>1. /\ MinimumShare(more, secs) \in CurveGpus
            /\ MinimumShare(less, secs) \in CurveGpus
            /\ MinimumShare(less, secs) <= MinimumShare(more, secs)
        BY <2>1, <2>3, ShareIsSmallest DEF Satisfying
      <3> QED BY <1>3, <3>1, FloorAssumption DEF Floor, Larger, CurveGpus
    <2> QED BY <2>2, <2>3
  <1> QED BY <1>2, <1>3

-----------------------------------------------------------------------------
(* What a decision can be.                                                   *)

LEMMA DecisionType ==
  ASSUME NEW cur \in 1..Widest, NEW sample \in Samples(Policy),
         above \in 0..(Hysteresis - 1), below \in 0..(Hysteresis - 1),
         NEW d \in Decisions(Policy, cur, sample, above, below)
  PROVE  /\ d.target \in 1..Widest
         /\ d.pause \in BOOLEAN /\ d.reason \in Reasons
         /\ d.above \in 0..(Hysteresis - 1) /\ d.below \in 0..(Hysteresis - 1)
  <1> USE PolicyAssumption, CurveAssumption
  <1>0. Widest \in Nat /\ MaxGpus <= Widest /\ cur \in Nat /\ cur <= Widest
    BY DEF Widest, Larger
  <1>1. CASE Policy = "power_aware"
    <2>1. d = PowerAware(cur, sample, above, below)
      BY <1>1 DEF Decisions
    <2>2. cur \div 2 \in Nat /\ cur \div 2 <= cur
      BY <1>0
    <2> QED BY <1>0, <2>1, <2>2 DEF PowerAware, Decision, AtLeast, AtMost, Reasons
  <1>2. CASE Policy = "rule_based"
    <2>1. d = RuleBased(cur, sample, above, below)
      BY <1>2 DEF Decisions
    <2>2. cur \div 2 \in Nat /\ cur \div 2 <= cur
      BY <1>0
    <2>3. /\ AtLeast(MinGpus, cur \div 2) \in 1..Widest
          /\ AtMost(MaxGpus, AtLeast(MinGpus + 1, cur * 2)) \in 1..Widest
      BY <1>0, <2>2 DEF AtLeast, AtMost
    <2>4. \E t \in 1..Widest, r \in Reasons : d = Decision(t, r, above, below)
      BY <1>0, <2>1, <2>3 DEF RuleBased, Reasons
    <2> QED BY <2>4 DEF Decision
  <1>3. CASE Policy = "steering"
    <2>1. PICK g \in MinGpus..MaxGpus : d = Decision(g, "steered", above, below)
      BY <1>3 DEF Decisions, Steering
    <2> QED BY <1>0, <2>1 DEF Decision, Reasons
  <1> QED BY <1>1, <1>2, <1>3, LoopAssumption DEF PolicyKinds

-----------------------------------------------------------------------------
(* Types.                                                                    *)

LEMMA Constants ==
  /\ Widest \in Nat \ {0} /\ CurveMax \in Nat \ {0} /\ CurveMax <= Widest
  /\ Patience \in Nat \ {0} /\ Work \in Nat \ {0} /\ Deadline \in Nat \ {0}
  /\ MaxClock \in Nat /\ Hysteresis \in Nat \ {0}
  BY CurveAssumption, PolicyAssumption, LoopAssumption DEF Widest, Larger

LEMMA FloorOfType ==
  ASSUME TypeOK, NEW j \in Jobs, NEW t \in 0..MaxClock
  PROVE  FloorOf(j, t) \in 1..Widest
  <1>1. /\ Work - jobs[j].done \in Int
        /\ jobs[j].submitted + Deadline - t \in Int
    BY Constants DEF TypeOK
  <1>2. Larger(0, Work - jobs[j].done) \in Nat /\ Secs(j, t) \in Nat
    BY <1>1 DEF Larger, Secs
  <1>3. FloorOf(j, t) \in CurveGpus
    BY <1>2, FloorType DEF FloorOf
  <1> QED BY <1>3, Constants DEF CurveGpus

LEMMA TargetType ==
  ASSUME TypeOK, NEW j \in Jobs, NEW sample \in Samples(Policy),
         NEW d \in Decisions(Policy, CurrentGpus(j), sample, above, below)
  PROVE  /\ Target(j, d) \in 1..Widest
         /\ d.pause \in BOOLEAN /\ d.reason \in Reasons
         /\ d.above \in 0..(Hysteresis - 1) /\ d.below \in 0..(Hysteresis - 1)
  <1>1. CurrentGpus(j) \in 1..Widest
    BY Constants DEF CurrentGpus, Larger, TypeOK
  <1>2. /\ d.target \in 1..Widest
        /\ d.pause \in BOOLEAN /\ d.reason \in Reasons
        /\ d.above \in 0..(Hysteresis - 1) /\ d.below \in 0..(Hysteresis - 1)
    BY <1>1, DecisionType DEF TypeOK
  <1>3. FloorOf(j, now) \in 1..Widest
    BY FloorOfType DEF TypeOK
  <1> QED BY <1>2, <1>3, Constants DEF Target, Larger

LEMMA NoDecisionType ==
  NoDecision \in [job: Jobs, target: 1..Widest, pause: BOOLEAN,
                  reason: Reasons, partition: 0..Widest]
  BY Constants, LoopAssumption DEF NoDecision, Reasons

LEMMA InitTypeOK == Init => TypeOK
  <1> SUFFICES ASSUME Init PROVE TypeOK
    OBVIOUS
  <1> QED BY NoDecisionType, Constants DEF Init, TypeOK, JobStates, NoScore

LEMMA RememberType ==
  ASSUME TypeOK, NEW d, Remember(d),
         d.above \in 0..(Hysteresis - 1), d.below \in 0..(Hysteresis - 1)
  PROVE  /\ above' \in 0..(Hysteresis - 1) /\ below' \in 0..(Hysteresis - 1)
         /\ span' \in 0..Hysteresis
  BY Constants DEF TypeOK, Remember

LEMMA RepartitionType ==
  ASSUME TypeOK, NEW j \in Jobs, NEW target \in 1..Widest, NEW reported,
         Repartition(j, target, reported)
  PROVE  depth' \in [Jobs -> 0..Widest] /\ stagnant' \in [Jobs -> NoScore..Patience]
  <1>1. CASE FullDP(j, target, reported)
    BY <1>1, Constants DEF FullDP, TypeOK, cacheVars, NoScore
  <1>2. CASE Incremental(j, target, reported)
    <2>1. stagnant[j] \in NoScore..Patience
      BY DEF TypeOK
    <2>2. PICK k \in NoScore..Patience : stagnant' = [stagnant EXCEPT ![j] = k]
      BY <1>2, <2>1, Constants DEF Incremental, AtMost, NoScore
    <2> QED BY <1>2, <2>2 DEF Incremental, TypeOK
  <1>3. CASE UNCHANGED cacheVars
    BY <1>3 DEF TypeOK, cacheVars
  <1> QED BY <1>1, <1>2, <1>3 DEF Repartition

LEMMA StepTypeOK == TypeOK /\ [Next]_vars => TypeOK'
  <1> SUFFICES ASSUME TypeOK, [Next]_vars PROVE TypeOK'
    OBVIOUS
  <1> USE Constants
  <1>1. ASSUME NEW j \in Jobs, Submit(j) PROVE TypeOK'
    <2>1. ASSUME NEW g \in Satisfying(Work, Deadline) PROVE g \in 0..Widest
      BY DEF Satisfying, CurveGpus
    <2> QED BY <1>1, <2>1, SMTT(30) DEF Submit, TypeOK, JobStates, Terminal, policyVars, cacheVars
  <1>2. ASSUME NEW j \in Jobs, Train(j) PROVE TypeOK'
    BY <1>2 DEF Train, TypeOK, policyVars, cacheVars
  <1>3. ASSUME NEW j \in Jobs, Finish(j) PROVE TypeOK'
    BY <1>3, SMTT(30) DEF Finish, TypeOK, JobStates, Terminal, policyVars, cacheVars
  <1>4. CASE Elapse
    BY <1>4 DEF Elapse, TypeOK, policyVars, cacheVars
  <1>5. CASE StartTick
    BY <1>5 DEF StartTick, TypeOK, AtMost, cacheVars
  <1>6. CASE ListRunning \/ ListPaused \/ EndTick
    BY <1>6 DEF ListRunning, ListPaused, EndTick, TypeOK, ByState, policyVars, cacheVars
  <1>7. ASSUME NEW j \in Jobs, Decide(j) PROVE TypeOK'
    <2>1. PICK sample \in Samples(Policy) :
            \E d \in Decisions(Policy, CurrentGpus(j), sample, above, below) :
              /\ Remember(d) /\ Dequeue(j) /\ pc' = "update"
              /\ \E reported \in 0..Widest :
                   /\ Repartition(j, Target(j, d), reported)
                   /\ dec' = [job |-> j, target |-> Target(j, d), pause |-> d.pause,
                              reason |-> d.reason, partition |-> reported]
      BY <1>7 DEF Decide
    <2>2. PICK d \in Decisions(Policy, CurrentGpus(j), sample, above, below) :
              /\ Remember(d) /\ Dequeue(j) /\ pc' = "update"
              /\ \E reported \in 0..Widest :
                   /\ Repartition(j, Target(j, d), reported)
                   /\ dec' = [job |-> j, target |-> Target(j, d), pause |-> d.pause,
                              reason |-> d.reason, partition |-> reported]
      BY <2>1
    <2>3. /\ Target(j, d) \in 1..Widest
          /\ d.pause \in BOOLEAN /\ d.reason \in Reasons
          /\ d.above \in 0..(Hysteresis - 1) /\ d.below \in 0..(Hysteresis - 1)
      BY TargetType
    <2>4. /\ above' \in 0..(Hysteresis - 1) /\ below' \in 0..(Hysteresis - 1)
          /\ span' \in 0..Hysteresis
      BY <2>2, <2>3, RememberType
    <2>5. depth' \in [Jobs -> 0..Widest] /\ stagnant' \in [Jobs -> NoScore..Patience]
      BY <2>2, <2>3, RepartitionType
    <2>6. dec' \in [job: Jobs, target: 1..Widest, pause: BOOLEAN, reason: Reasons,
                    partition: 0..Widest]
      BY <2>2, <2>3
    <2>7. running' \subseteq Jobs /\ paused' \subseteq Jobs
      BY <2>2 DEF Dequeue, TypeOK
    <2> QED BY <1>7, <2>2, <2>4, <2>5, <2>6, <2>7 DEF Decide, TypeOK
  <1>8. ASSUME NEW j \in Jobs, Crash(j) PROVE TypeOK'
    <2>1. PICK sample \in Samples(Policy) :
            \E d \in Decisions(Policy, CurrentGpus(j), sample, above, below) : Remember(d)
      BY <1>8 DEF Crash
    <2>2. PICK d \in Decisions(Policy, CurrentGpus(j), sample, above, below) : Remember(d)
      BY <2>1
    <2>3. /\ above' \in 0..(Hysteresis - 1) /\ below' \in 0..(Hysteresis - 1)
          /\ span' \in 0..Hysteresis
      BY <2>2, TargetType, RememberType
    <2>4. dec' \in [job: Jobs, target: 1..Widest, pause: BOOLEAN, reason: Reasons,
                    partition: 0..Widest]
      BY <1>8, NoDecisionType DEF Crash
    <2> QED BY <1>8, <2>3, <2>4 DEF Crash, TypeOK, cacheVars
  <1>9. CASE Update
    <2>1. dec.job \in Jobs /\ dec.target \in 0..Widest
      BY DEF TypeOK
    <2>2. [jobs[dec.job] EXCEPT !.gpus = dec.target,
                               !.state = IF dec.pause THEN "PAUSED" ELSE "RUNNING"]
            \in [state: JobStates, gpus: 0..Widest, done: 0..Work, submitted: 0..MaxClock]
      BY <2>1, ZenonT(30) DEF TypeOK, JobStates
    <2> QED BY <1>9, <2>1, <2>2 DEF Update, TypeOK, policyVars, cacheVars
  <1>10. CASE Scale \/ ScaleFails
    <2>1. dec' \in [job: Jobs, target: 1..Widest, pause: BOOLEAN, reason: Reasons,
                    partition: 0..Widest]
      BY <1>10, NoDecisionType DEF Scale, ScaleFails
    <2>2. PoolTarget \in 0..Widest
      BY DEF PoolTarget, TypeOK
    <2> QED BY <1>10, <2>1, <2>2 DEF Scale, ScaleFails, TypeOK, policyVars, cacheVars
  <1>11. CASE Abort \/ SourceFails
    BY <1>11, NoDecisionType
       DEF Abort, SourceFails, DropList, TypeOK, policyVars, cacheVars
  <1>12. CASE UNCHANGED vars
    BY <1>12 DEF vars, TypeOK, policyVars, cacheVars
  <1> QED BY <1>1, <1>2, <1>3, <1>4, <1>5, <1>6, <1>7, <1>8, <1>9, <1>10, <1>11, <1>12
          DEF Next, LoopStep

(* Every variable keeps its type whatever the curve, the policy's limits and *)
(* the interleaving.                                                         *)
THEOREM TypeCorrect == Spec => []TypeOK
  BY InitTypeOK, StepTypeOK, PTL DEF Spec

-----------------------------------------------------------------------------
(* The work lists.                                                           *)

Applying == pc \in {"update", "scale"}
InHand(j) == j \in running \/ j \in paused \/ (Applying /\ dec.job = j)

\* Between the two listings a RUNNING job may finish, but only Update pauses
\* jobs, and there is none: that keeps the two lists disjoint.
TickInv ==
  /\ pc \in {"idle", "list_running"} => running = {}
  /\ pc \in {"idle", "list_running", "list_paused"} => paused = {}
  /\ pc = "list_paused" => \A j \in running : jobs[j].state # "PAUSED"
  /\ WorklistOnce
  /\ \A j \in Jobs : InHand(j) => jobs[j].state # "PENDING"

LEMMA DecideFacts ==
  ASSUME TypeOK, NEW j \in Jobs, Decide(j)
  PROVE  /\ pc = "job" /\ j \in NextJobs /\ Dequeue(j) /\ pc' = "update"
         /\ dec'.job = j /\ dec'.target \in 1..Widest
         /\ UNCHANGED <<jobs, clock, now, pool>>
         /\ j \in WithDeadline => dec'.target >= FloorOf(j, now)
         /\ \E reported \in 0..Widest :
              Repartition(j, dec'.target, reported) /\ dec'.partition = reported
  <1>1. PICK sample \in Samples(Policy) :
          \E d \in Decisions(Policy, CurrentGpus(j), sample, above, below) :
            /\ Dequeue(j) /\ pc' = "update"
            /\ \E reported \in 0..Widest :
                 /\ Repartition(j, Target(j, d), reported)
                 /\ dec' = [job |-> j, target |-> Target(j, d), pause |-> d.pause,
                            reason |-> d.reason, partition |-> reported]
    BY DEF Decide
  <1>2. PICK d \in Decisions(Policy, CurrentGpus(j), sample, above, below) :
            /\ Dequeue(j) /\ pc' = "update"
            /\ \E reported \in 0..Widest :
                 /\ Repartition(j, Target(j, d), reported)
                 /\ dec' = [job |-> j, target |-> Target(j, d), pause |-> d.pause,
                            reason |-> d.reason, partition |-> reported]
    BY <1>1
  <1>3. Target(j, d) \in 1..Widest
    BY TargetType
  <1>4. j \in WithDeadline => Target(j, d) >= FloorOf(j, now)
    <2>1. FloorOf(j, now) \in 1..Widest /\ Widest \in Nat
      BY FloorOfType, Constants DEF TypeOK
    <2>2. d.target \in Int
      <3>1. CurrentGpus(j) \in 1..Widest
        BY Constants DEF CurrentGpus, Larger, TypeOK
      <3> QED BY <3>1, DecisionType, Constants DEF TypeOK
    <2> QED BY <2>1, <2>2 DEF Target, Larger
  <1>5. dec'.job = j /\ dec'.target = Target(j, d)
    BY <1>2
  <1>6. \E reported \in 0..Widest :
          Repartition(j, dec'.target, reported) /\ dec'.partition = reported
    BY <1>2, <1>5
  <1>7. pc = "job" /\ j \in NextJobs /\ UNCHANGED <<jobs, clock, now, pool>>
    BY DEF Decide
  <1> QED BY <1>2, <1>3, <1>4, <1>5, <1>6, <1>7

LEMMA StepTickInv == TypeOK /\ TickInv /\ [Next]_vars => TickInv'
  <1> SUFFICES ASSUME TypeOK, TickInv, [Next]_vars PROVE TickInv'
    OBVIOUS
  <1> USE DEF TickInv, WorklistOnce, InHand, Applying
  <1>1. ASSUME NEW j \in Jobs, Submit(j) \/ Train(j) \/ Finish(j) PROVE TickInv'
    <2>1. \A i \in Jobs : jobs'[i].state = jobs[i].state
                         \/ jobs'[i].state \in {"RUNNING"} \union Terminal
      <3>1. CASE Submit(j)
        BY <3>1 DEF Submit, TypeOK, Terminal
      <3>2. CASE Train(j)
        BY <3>2 DEF Train, TypeOK
      <3>3. CASE Finish(j)
        BY <3>3 DEF Finish, TypeOK, Terminal
      <3> QED BY <1>1, <3>1, <3>2, <3>3
    <2>2. pc' = pc /\ running' = running /\ paused' = paused /\ dec' = dec
      BY <1>1 DEF Submit, Train, Finish
    <2>3. \A i \in running : i \in Jobs
      BY DEF TypeOK
    <2>4. (\A i \in Jobs : InHand(i) => jobs[i].state # "PENDING")'
      BY <2>1, <2>2 DEF Terminal
    <2>5. (pc = "list_paused" => \A i \in running : jobs[i].state # "PAUSED")'
      BY <2>1, <2>2, <2>3 DEF Terminal
    <2>6. WorklistOnce'
      BY <2>2
    <2> QED BY <2>2, <2>4, <2>5, <2>6
  <1>3. CASE Elapse \/ StartTick \/ EndTick
    BY <1>3 DEF Elapse, StartTick, EndTick, TypeOK
  <1>4. CASE ListRunning
    BY <1>4 DEF ListRunning, ByState, TypeOK
  <1>5. CASE ListPaused
    BY <1>5 DEF ListPaused, ByState, TypeOK
  <1>6. ASSUME NEW j \in Jobs, Decide(j) PROVE TickInv'
    <2>1. /\ pc = "job" /\ j \in NextJobs /\ Dequeue(j) /\ pc' = "update"
          /\ dec'.job = j /\ jobs' = jobs
      BY <1>6, DecideFacts
    <2> QED BY <2>1 DEF NextJobs, Dequeue, TypeOK
  <1>7. ASSUME NEW j \in Jobs, Crash(j) PROVE TickInv'
    BY <1>7 DEF Crash, TypeOK
  <1>8. CASE Update
    BY <1>8 DEF Update, TypeOK
  <1>9. CASE Scale \/ ScaleFails
    BY <1>9 DEF Scale, ScaleFails, TypeOK
  <1>10. CASE Abort \/ SourceFails
    BY <1>10 DEF Abort, SourceFails, DropList
  <1>11. CASE UNCHANGED vars
    BY <1>11 DEF vars
  <1> QED BY <1>1, <1>3, <1>4, <1>5, <1>6, <1>7, <1>8, <1>9, <1>10, <1>11
          DEF Next, LoopStep

LEMMA TickInvariance == Spec => [](TypeOK /\ TickInv)
  <1>1. Init => TickInv
    BY DEF Init, TickInv, WorklistOnce, InHand, Applying
  <1> QED BY <1>1, InitTypeOK, StepTypeOK, StepTickInv, PTL DEF Spec

(* A tick decides each listed job exactly once, for any number of jobs and   *)
(* whatever the trainers do between the two listings.                        *)
THEOREM DecidedOnce == Spec => []WorklistOnce
  <1>1. TickInv => WorklistOnce
    BY DEF TickInv
  <1> QED BY <1>1, TickInvariance, PTL

(* No tick revives a job that had finished when the tick listed its jobs.    *)
THEOREM FinishedIsFinal == Spec => FinishedStaysFinished
  <1>1. ASSUME TypeOK, TickInv, [Next]_vars, NEW j \in Jobs,
               jobs[j].state \in Terminal, ~InFlight(j)
        PROVE  jobs'[j].state = jobs[j].state /\ ~InFlight(j)'
    <2> USE <1>1 DEF InFlight, Terminal
    <2>1. ASSUME NEW i \in Jobs, Submit(i) \/ Train(i) \/ Finish(i)
          PROVE  jobs'[j].state = jobs[j].state /\ ~InFlight(j)'
      BY <2>1 DEF Submit, Train, Finish, TypeOK
    <2>2. CASE Elapse \/ StartTick \/ EndTick \/ Scale \/ ScaleFails
      BY <2>2 DEF Elapse, StartTick, EndTick, Scale, ScaleFails
    <2>3. CASE ListRunning \/ ListPaused
      BY <2>3 DEF ListRunning, ListPaused, ByState
    <2>4. ASSUME NEW i \in Jobs, Decide(i)
          PROVE  jobs'[j].state = jobs[j].state /\ ~InFlight(j)'
      <3>1. /\ pc = "job" /\ i \in NextJobs /\ Dequeue(i) /\ pc' = "update"
            /\ dec'.job = i /\ jobs' = jobs
        BY <2>4, DecideFacts
      <3> QED BY <3>1 DEF NextJobs, Dequeue
    <2>5. ASSUME NEW i \in Jobs, Crash(i)
          PROVE  jobs'[j].state = jobs[j].state /\ ~InFlight(j)'
      BY <2>5 DEF Crash
    <2>6. CASE Update
      BY <2>6 DEF Update, TypeOK
    <2>7. CASE Abort \/ SourceFails
      BY <2>7 DEF Abort, SourceFails, DropList
    <2>8. CASE UNCHANGED vars
      BY <2>8 DEF vars
    <2> QED BY <2>1, <2>2, <2>3, <2>4, <2>5, <2>6, <2>7, <2>8 DEF Next, LoopStep
  <1>2. TypeOK /\ TickInv /\ [Next]_vars =>
          [\A j \in Jobs : jobs[j].state \in Terminal /\ ~InFlight(j) =>
             jobs'[j].state = jobs[j].state /\ ~InFlight(j)']_vars
    BY <1>1
  <1> QED BY <1>2, TickInvariance, PTL DEF Spec, FinishedStaysFinished

\* A trainer touches the progress or the state of one job, never its width.
LEMMA TrainerFacts ==
  ASSUME TypeOK, NEW j \in Jobs, Train(j) \/ Finish(j)
  PROVE  \A i \in Jobs : /\ jobs'[i].submitted = jobs[i].submitted
                         /\ jobs'[i].done >= jobs[i].done
                         /\ jobs'[i].gpus = jobs[i].gpus
                         /\ jobs'[i].state = "PENDING" => jobs[i].state = "PENDING"
  <1>0. \A i \in Jobs : jobs[i].done \in Int
    BY DEF TypeOK
  <1>1. CASE Train(j)
    <2>1. jobs' = [jobs EXCEPT ![j].done = @ + 1]
      BY <1>1 DEF Train
    <2> QED BY <1>0, <2>1 DEF TypeOK
  <1>2. CASE Finish(j)
    <2>1. PICK s \in Terminal : jobs' = [jobs EXCEPT ![j].state = s]
      BY <1>2 DEF Finish, Terminal
    <2>2. s # "PENDING"
      BY DEF Terminal
    <2> QED BY <1>0, <2>1, <2>2 DEF TypeOK
  <1> QED BY <1>1, <1>2

-----------------------------------------------------------------------------
(* The deadline floor.                                                       *)

FloorInv ==
  /\ pc = "update" /\ dec.job \in WithDeadline => dec.target >= FloorOf(dec.job, now)
  /\ FloorHeld

\* Within a tick a job's floor never rises: only training moves it, down.
LEMMA FloorNeverRises ==
  ASSUME InfeasibleFloor >= CurveMax, TypeOK, TypeOK', now' = now, NEW j \in Jobs,
         jobs'[j].submitted = jobs[j].submitted, jobs'[j].done >= jobs[j].done
  PROVE  /\ FloorOf(j, now)' <= FloorOf(j, now)
         /\ FloorOf(j, now) \in Int /\ FloorOf(j, now)' \in Int
  <1> DEFINE left == Larger(0, Work - jobs[j].done)
             less == Larger(0, Work - jobs'[j].done)
             secs == Secs(j, now)
  <1>1. jobs[j].done \in 0..Work /\ jobs'[j].done \in 0..Work /\ now \in Nat
        /\ jobs[j].submitted \in Nat /\ Deadline \in Nat /\ Work \in Nat
    BY LoopAssumption DEF TypeOK
  <1>2. left \in Nat /\ less \in Nat /\ less <= left
    BY <1>1 DEF Larger
  <1>3. secs \in Nat
    BY <1>1 DEF Secs, Larger
  <1>4. Secs(j, now)' = secs
    BY DEF Secs
  <1>5. FloorOf(j, now) = Floor(left, secs) /\ FloorOf(j, now)' = Floor(less, secs)
    BY <1>4 DEF FloorOf
  <1>6. Floor(left, secs) \in Int /\ Floor(less, secs) \in Int
    BY <1>2, <1>3, FloorType DEF CurveGpus
  <1> HIDE DEF left, less, secs
  <1>7. Floor(less, secs) <= Floor(left, secs)
    BY <1>2, <1>3, FloorAntitone
  <1> QED BY <1>5, <1>6, <1>7

LEMMA StepFloorInv ==
  ASSUME InfeasibleFloor >= CurveMax, TypeOK, TypeOK', TickInv, FloorInv, [Next]_vars
  PROVE  FloorInv'
  <1> USE DEF FloorInv, FloorHeld
  <1>0. dec.job \in Jobs /\ dec.target \in Int
    BY Constants DEF TypeOK
  <1>1. ASSUME NEW j \in Jobs, Submit(j) PROVE FloorInv'
    <2>1. Applying => dec.job # j
      BY <1>0, <1>1 DEF Submit, TickInv, InHand
    <2>2. pc' = pc /\ dec' = dec /\ now' = now
      BY <1>1 DEF Submit
    <2>3. Applying => jobs'[dec.job] = jobs[dec.job]
      BY <1>0, <1>1, <2>1 DEF Submit, TypeOK
    <2>4. Applying => FloorOf(dec.job, now)' = FloorOf(dec.job, now)
      BY <2>2, <2>3 DEF FloorOf, Secs
    <2> QED BY <2>2, <2>3, <2>4 DEF Applying
  <1>2. ASSUME NEW j \in Jobs, Train(j) \/ Finish(j) PROVE FloorInv'
    <2>1. pc' = pc /\ dec' = dec /\ now' = now
      BY <1>2 DEF Train, Finish
    <2>2. \A i \in Jobs : /\ jobs'[i].submitted = jobs[i].submitted
                          /\ jobs'[i].done >= jobs[i].done
                          /\ jobs'[i].gpus = jobs[i].gpus
      BY <1>2, TrainerFacts
    <2>3. jobs[dec.job].gpus \in Int
      BY <1>0, Constants DEF TypeOK
    <2>4. /\ FloorOf(dec.job, now)' <= FloorOf(dec.job, now)
          /\ FloorOf(dec.job, now) \in Int /\ FloorOf(dec.job, now)' \in Int
      BY <1>0, <2>1, <2>2, FloorNeverRises
    <2> QED BY <1>0, <2>1, <2>2, <2>3, <2>4
  <1>3. CASE Elapse
    <2>1. pc' = pc /\ dec' = dec /\ now' = now /\ jobs' = jobs
      BY <1>3 DEF Elapse
    <2> QED BY <2>1 DEF FloorOf, Secs
  <1>4. CASE StartTick \/ ListRunning \/ ListPaused \/ EndTick \/ Scale \/ ScaleFails
    BY <1>4 DEF StartTick, ListRunning, ListPaused, EndTick, Scale, ScaleFails
  <1>5. ASSUME NEW j \in Jobs, Decide(j) PROVE FloorInv'
    <2>1. /\ pc' = "update" /\ dec'.job = j
          /\ jobs' = jobs /\ now' = now
          /\ j \in WithDeadline => dec'.target >= FloorOf(j, now)
      BY <1>5, DecideFacts
    <2>2. FloorOf(j, now)' = FloorOf(j, now)
      BY <2>1 DEF FloorOf, Secs
    <2> QED BY <2>1, <2>2
  <1>6. ASSUME NEW j \in Jobs, Crash(j) PROVE FloorInv'
    BY <1>6 DEF Crash
  <1>7. CASE Update
    <2>1. pc = "update" /\ pc' = "scale" /\ dec' = dec /\ now' = now
      BY <1>7 DEF Update
    <2>2. /\ jobs'[dec.job].gpus = dec.target
          /\ jobs'[dec.job].done = jobs[dec.job].done
          /\ jobs'[dec.job].submitted = jobs[dec.job].submitted
      BY <1>0, <1>7 DEF Update, TypeOK
    <2>3. FloorOf(dec.job, now)' = FloorOf(dec.job, now)
      BY <2>1, <2>2 DEF FloorOf, Secs
    <2> QED BY <2>1, <2>2, <2>3
  <1>8. CASE Abort \/ SourceFails
    BY <1>8 DEF Abort, SourceFails, DropList
  <1>9. CASE UNCHANGED vars
    <2>1. pc' = pc /\ dec' = dec /\ now' = now /\ jobs' = jobs
      BY <1>9 DEF vars
    <2> QED BY <2>1 DEF FloorOf, Secs
  <1> QED BY <1>1, <1>2, <1>3, <1>4, <1>5, <1>6, <1>7, <1>8, <1>9 DEF Next, LoopStep

(* With the default infeasible floor (the whole curve), the width a tick     *)
(* writes to the store is never below the floor it computed, for any curve,  *)
(* deadline and number of iterations reported meanwhile.                     *)
THEOREM FloorRespected ==
  ASSUME InfeasibleFloor >= CurveMax
  PROVE  Spec => []FloorHeld
  <1>1. Init => FloorInv
    BY DEF Init, FloorInv, FloorHeld
  <1>2. TypeOK /\ TypeOK' /\ TickInv /\ FloorInv /\ [Next]_vars => FloorInv'
    BY StepFloorInv
  <1>3. FloorInv => FloorHeld
    BY DEF FloorInv
  <1> QED BY <1>1, <1>2, <1>3, TickInvariance, PTL DEF Spec

-----------------------------------------------------------------------------
(* The partition cache.                                                      *)

CacheInv ==
  /\ \A j \in Jobs : depth[j] # 0 => j \in WithContext /\ jobs[j].state # "PENDING"
  /\ pc = "update" /\ depth[dec.job] # 0 /\ dec.target >= 2 => depth[dec.job] = dec.target
  /\ PartitionMatchesWidth

LEMMA StepCacheInv ==
  ASSUME ~PartitionFails, TypeOK, TickInv, CacheInv, [Next]_vars
  PROVE  CacheInv'
  <1> USE DEF CacheInv, PartitionMatchesWidth
  <1>0. dec.job \in Jobs
    BY DEF TypeOK
  <1>1. ASSUME NEW j \in Jobs, Submit(j) PROVE CacheInv'
    <2>1. depth[j] = 0 /\ depth' = depth /\ pc' = pc /\ dec' = dec
      BY <1>1 DEF Submit, cacheVars
    <2>2. \A i \in Jobs \ {j} : jobs'[i] = jobs[i]
      BY <1>1 DEF Submit, TypeOK
    <2> QED BY <2>1, <2>2
  <1>2. ASSUME NEW j \in Jobs, Train(j) \/ Finish(j) PROVE CacheInv'
    <2>1. depth' = depth /\ pc' = pc /\ dec' = dec
      BY <1>2 DEF Train, Finish, cacheVars
    <2>2. \A i \in Jobs : jobs'[i].gpus = jobs[i].gpus
                          /\ (jobs'[i].state = "PENDING" => jobs[i].state = "PENDING")
      BY <1>2, TrainerFacts
    <2> QED BY <2>1, <2>2
  <1>3. CASE Elapse \/ StartTick \/ ListRunning \/ ListPaused \/ EndTick \/ Scale \/ ScaleFails
    BY <1>3 DEF Elapse, StartTick, ListRunning, ListPaused, EndTick, Scale, ScaleFails,
                cacheVars
  <1>4. ASSUME NEW j \in Jobs, Decide(j) PROVE CacheInv'
    <2> DEFINE target == dec'.target
    <2>1. /\ pc = "job" /\ j \in NextJobs /\ pc' = "update" /\ dec'.job = j
          /\ target \in 1..Widest /\ jobs' = jobs
      BY <1>4, DecideFacts
    <2>2. PICK reported \in 0..Widest :
            Repartition(j, target, reported) /\ dec'.partition = reported
      BY <1>4, DecideFacts
    <2>3. jobs[j].state # "PENDING"
      BY <2>1 DEF TickInv, InHand, NextJobs
    <2>4. jobs[j].gpus \in Nat /\ Widest \in Nat
      BY Constants DEF TypeOK
    <2> HIDE DEF target
    <2>5. \A i \in Jobs \ {j} : depth'[i] = depth[i]
      BY <2>2 DEF Repartition, FullDP, Incremental, cacheVars, TypeOK
    <2>6. depth'[j] # 0 => j \in WithContext
      BY <2>2 DEF Repartition, Repartitions, FullDP, Incremental, cacheVars
    <2>7. depth'[j] # 0 /\ target >= 2 => depth'[j] = target
      <3>1. CASE Repartitions(j, target)
        BY <2>2, <3>1 DEF Repartition, FullDP, Incremental, TypeOK
      <3>2. CASE ~Repartitions(j, target)
        <4>1. depth' = depth
          BY <2>2, <3>2 DEF Repartition, cacheVars
        <4> QED BY <2>1, <2>4, <3>2, <4>1 DEF Repartitions, CurrentGpus, Larger
      <3> QED BY <3>1, <3>2
    <2>8. reported # 0 => reported = target
      <3>1. CASE Repartitions(j, target)
        BY <2>2, <3>1 DEF Repartition, FullDP, Incremental
      <3>2. CASE ~Repartitions(j, target)
        BY <2>1, <2>2, <2>4, <3>2 DEF Repartition, Repartitions, CurrentGpus, Larger
      <3> QED BY <3>1, <3>2
    <2> QED BY <2>1, <2>2, <2>3, <2>5, <2>6, <2>7, <2>8 DEF target
  <1>5. ASSUME NEW j \in Jobs, Crash(j) PROVE CacheInv'
    BY <1>5 DEF Crash, cacheVars
  <1>6. CASE Update
    <2>1. depth' = depth /\ pc = "update" /\ pc' = "scale" /\ dec' = dec
      BY <1>6 DEF Update, cacheVars
    <2>2. /\ \A i \in Jobs : i # dec.job => jobs'[i] = jobs[i]
          /\ jobs'[dec.job].gpus = dec.target
          /\ jobs'[dec.job].state # "PENDING"
      BY <1>0, <1>6 DEF Update, TypeOK
    <2> QED BY <2>1, <2>2
  <1>7. CASE Abort \/ SourceFails
    BY <1>7 DEF Abort, SourceFails, DropList, cacheVars
  <1>8. CASE UNCHANGED vars
    BY <1>8 DEF vars, cacheVars
  <1> QED BY <1>1, <1>2, <1>3, <1>4, <1>5, <1>6, <1>7, <1>8 DEF Next, LoopStep

(* When the planner always finds a partition, a cached partition always has  *)
(* exactly as many stages as the job has GPUs, whatever its history.         *)
THEOREM CacheIsFresh ==
  ASSUME ~PartitionFails
  PROVE  Spec => []PartitionMatchesWidth
  <1>1. Init => CacheInv
    BY DEF Init, CacheInv, PartitionMatchesWidth
  <1>2. TypeOK /\ TickInv /\ CacheInv /\ [Next]_vars => CacheInv'
    BY StepCacheInv
  <1>3. CacheInv => PartitionMatchesWidth
    BY DEF CacheInv
  <1> QED BY <1>1, <1>2, <1>3, TickInvariance, PTL DEF Spec

-----------------------------------------------------------------------------
(* The hysteresis of a single job.                                           *)

\* What a decision makes of the policy's two counters.
LEMMA CountedSamples ==
  ASSUME TypeOK, NEW cur, NEW sample, NEW d \in Decisions(Policy, cur, sample, above, below)
  PROVE  \/ /\ d.above = above /\ d.below = below
            /\ d.reason \notin {"inefficient", "efficient"}
         \/ /\ d.above = 0 /\ d.below = 0
            /\ d.reason = "inefficient" => above + 1 >= Hysteresis
            /\ d.reason = "efficient" => below + 1 >= Hysteresis
         \/ d.above = above + 1 /\ d.below = 0 /\ d.reason = "hold"
         \/ d.above = 0 /\ d.below = below + 1 /\ d.reason = "hold"
  <1>1. CASE Policy = "power_aware"
    <2>1. d = PowerAware(cur, sample, above, below)
      BY <1>1 DEF Decisions
    <2> QED BY <2>1 DEF PowerAware, Decision
  <1>2. CASE Policy = "rule_based"
    <2>1. d = RuleBased(cur, sample, above, below)
      BY <1>2 DEF Decisions
    <2> QED BY <2>1 DEF RuleBased, Decision
  <1>3. CASE Policy = "steering"
    BY <1>3 DEF Decisions, Steering, Decision
  <1> QED BY <1>1, <1>2, <1>3, LoopAssumption DEF PolicyKinds

\* Is the tick's only job still to be decided?
Undecided == pc \in {"list_running", "list_paused"} \/ (pc = "job" /\ NextJobs # {})

\* The counters never run together, each tick touches a run of counted samples
\* before its job is decided, and a tick decides once.
SpanInv ==
  /\ above = 0 \/ below = 0
  /\ above + below <= span
  /\ Undecided /\ above + below > 0 => above + below < span
  /\ pc \in {"update", "scale"} => NextJobs = {}

LEMMA RememberSpan ==
  ASSUME TypeOK, SpanInv, Undecided, NEW d, Remember(d),
         NEW cur, NEW sample, d \in Decisions(Policy, cur, sample, above, below)
  PROVE  (above' = 0 \/ below' = 0) /\ above' + below' <= span'
  <1>1. /\ above \in Nat /\ below \in Nat /\ span \in Nat
        /\ above = 0 \/ below = 0
        /\ above + below > 0 => above + below < span
    BY Constants DEF TypeOK, SpanInv
  <1>2. /\ above' = d.above /\ below' = d.below
        /\ span' = IF d.above + d.below = 0 THEN 0
                   ELSE IF (d.above > 0 /\ above > 0) \/ (d.below > 0 /\ below > 0)
                   THEN span ELSE 1
    BY DEF Remember
  <1>3. \/ d.above = above /\ d.below = below
        \/ d.above = 0 /\ d.below = 0
        \/ d.above = above + 1 /\ d.below = 0
        \/ d.above = 0 /\ d.below = below + 1
    BY CountedSamples
  <1> QED BY <1>1, <1>2, <1>3

LEMMA StepSpanInv ==
  ASSUME NEW only, Jobs = {only}, TypeOK, TickInv, SpanInv, [Next]_vars
  PROVE  SpanInv'
  <1> USE Constants
  <1>0. above \in Nat /\ below \in Nat /\ span \in Nat /\ above + below < Hysteresis
        /\ Hysteresis \in Nat
    BY DEF TypeOK, SpanInv
  <1>1. ASSUME NEW j \in Jobs, Submit(j) \/ Train(j) \/ Finish(j) PROVE SpanInv'
    BY <1>1 DEF Submit, Train, Finish, SpanInv, Undecided, NextJobs, policyVars
  <1>2. CASE Elapse \/ EndTick \/ ListRunning \/ ListPaused \/ Update
    BY <1>0, <1>2 DEF Elapse, EndTick, ListRunning, ListPaused, Update, SpanInv, Undecided,
                      NextJobs, policyVars, TickInv
  <1>3. CASE StartTick
    BY <1>0, <1>3 DEF StartTick, SpanInv, Undecided, NextJobs, AtMost
  <1>4. ASSUME NEW j \in Jobs, Decide(j) PROVE SpanInv'
    <2>1. PICK sample \in Samples(Policy) :
            \E d \in Decisions(Policy, CurrentGpus(j), sample, above, below) : Remember(d)
      BY <1>4 DEF Decide
    <2>2. Undecided
      BY <1>4 DEF Decide, Undecided
    <2>3. (above' = 0 \/ below' = 0) /\ above' + below' <= span'
      BY <2>1, <2>2, RememberSpan
    <2>4. pc' = "update" /\ pc = "job" /\ j = only /\ j \in NextJobs /\ Dequeue(j)
      BY <1>4, DecideFacts
    <2>5. running \subseteq {only} /\ paused \subseteq {only} /\ running \intersect paused = {}
      BY DEF TypeOK, TickInv, WorklistOnce
    <2>6. NextJobs' = {}
      BY <2>4, <2>5 DEF Dequeue, NextJobs
    <2> QED BY <2>3, <2>4, <2>6 DEF SpanInv, Undecided
  <1>5. ASSUME NEW j \in Jobs, Crash(j) PROVE SpanInv'
    <2>1. PICK sample \in Samples(Policy) :
            \E d \in Decisions(Policy, CurrentGpus(j), sample, above, below) : Remember(d)
      BY <1>5 DEF Crash
    <2>2. Undecided
      BY <1>5 DEF Crash, Undecided
    <2>3. (above' = 0 \/ below' = 0) /\ above' + below' <= span'
      BY <2>1, <2>2, RememberSpan
    <2> QED BY <1>5, <2>3 DEF Crash, SpanInv, Undecided
  <1>6. CASE Scale \/ ScaleFails
    BY <1>6 DEF Scale, ScaleFails, SpanInv, Undecided, NextJobs, policyVars
  <1>7. CASE Abort \/ SourceFails
    BY <1>7 DEF Abort, SourceFails, DropList, SpanInv, Undecided, NextJobs, policyVars
  <1>8. CASE UNCHANGED vars
    BY <1>8 DEF vars, SpanInv, Undecided, NextJobs, policyVars
  <1> QED BY <1>1, <1>2, <1>3, <1>4, <1>5, <1>6, <1>7, <1>8 DEF Next, LoopStep

(* With one job the samples that change a width are "consecutive ticks"        *)
(* (policy.py:62-66), whatever the thresholds and the interleaving; more jobs  *)
(* share the counters.                                                         *)
THEOREM WidthsTakeTicks ==
  ASSUME NEW only, Jobs = {only}
  PROVE  Spec => HysteresisSpansTicks
  <1>1. Init => SpanInv
    BY DEF Init, SpanInv, Undecided, NextJobs
  <1>2. TypeOK /\ TickInv /\ SpanInv /\ [Next]_vars => SpanInv'
    BY StepSpanInv
  <1>3. TypeOK /\ SpanInv /\ [Next]_vars =>
          [pc = "job" /\ pc' = "update" /\ dec'.reason \in {"inefficient", "efficient"} =>
             Hysteresis = 1 \/ span >= Hysteresis]_vars
    <2> SUFFICES ASSUME TypeOK, SpanInv, Next, pc = "job", pc' = "update",
                        dec'.reason \in {"inefficient", "efficient"}, Hysteresis # 1
                 PROVE  span >= Hysteresis
      OBVIOUS
    <2>1. PICK j \in Jobs : Decide(j)
      BY DEF Next, LoopStep, Submit, Train, Finish, Elapse, StartTick, ListRunning,
             ListPaused, EndTick, Crash, Abort, SourceFails, DropList, Update, Scale,
             ScaleFails
    <2>a. PICK sample \in Samples(Policy) :
            \E d \in Decisions(Policy, CurrentGpus(j), sample, above, below) :
              dec'.reason = d.reason
      BY <2>1 DEF Decide
    <2>2. PICK d \in Decisions(Policy, CurrentGpus(j), sample, above, below) :
            dec'.reason = d.reason
      BY <2>a
    <2>3. above + 1 >= Hysteresis \/ below + 1 >= Hysteresis
      BY <2>2, CountedSamples
    <2>4. Undecided
      BY <2>1 DEF Decide, Undecided
    <2> QED BY <2>3, <2>4, Constants DEF TypeOK, SpanInv
  <1> QED BY <1>1, <1>2, <1>3, TickInvariance, PTL DEF Spec, HysteresisSpansTicks
=============================================================================
