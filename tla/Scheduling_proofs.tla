-------------------------- MODULE Scheduling_proofs --------------------------
(* Proofs about what is scheduled: the admission of a job, for every curve    *)
(* and every request, the two schedulers that take turns by deficit, and the  *)
(* micro-batches that the stage's scheduler hands to its nodes, for every     *)
(* number of nodes, all capacities, every telemetry and refresh period and    *)
(* every number of micro-batches.                                             *)
EXTENDS AdmittedRun, EnergyAwareWRR, InterBatchScheduler, SumLemmas, SequenceTheorems

-----------------------------------------------------------------------------
(* Admission: the search and the walk.                                        *)

USE SizeAssumption

\* The bounds of the search: everything below lo misses the deadline, and hi
\* meets it unless hi was never moved.
SearchInv ==
  phase = "search" =>
    /\ lo <= hi
    /\ \A g \in Gpus : g < lo => ~Meets(g)
    /\ hi = MaxGpus \/ Meets(hi)

\* The walk has refused everything below x.
WalkInv ==
  phase = "walk" =>
    /\ ~NothingToDo
    /\ Meets(lo) /\ lo <= x
    /\ \A g \in Gpus : g < lo => ~Meets(g)
    /\ \A g \in Gpus : g < x => ~Acceptable(g, job.iters)

AnswerInv ==
  /\ phase # "done" => gpus = 0
  /\ SmallestFit

MssInv == TypeOK /\ SearchInv /\ WalkInv /\ AnswerInv

LEMMA ProductMonotone ==
  ASSUME NEW a \in Nat, NEW b \in Nat, NEW c \in Nat, a <= b
  PROVE  a * c <= b * c
  BY SMT

\* A smaller GPU count is no faster (ScalingCurve is non-decreasing).
LEMMA MeetsMonotone ==
  ASSUME TypeOK, NEW g \in Gpus, NEW h \in Gpus, g <= h, Meets(g)
  PROVE  Meets(h)
  <1>1. /\ job.curve[g] \in Nat /\ job.curve[h] \in Nat
        /\ job.curve[g] <= job.curve[h]
        /\ job.deadline \in Nat /\ job.iters \in Nat
    BY CurveAssumption, BudgetAssumption, SMTT(30) DEF TypeOK, Request, Gpus
  <1>2. job.curve[g] * job.deadline <= job.curve[h] * job.deadline
    BY <1>1, ProductMonotone
  <1>3. /\ job.curve[g] * job.deadline \in Nat
        /\ job.curve[h] * job.deadline \in Nat
    BY <1>1
  <1> QED BY <1>1, <1>2, <1>3 DEF Meets

LEMMA RequestTypes ==
  ASSUME TypeOK, NEW g \in Gpus
  PROVE  /\ job.iters \in Nat /\ job.deadline \in Nat /\ job.budget \in Nat
         /\ job.curve[g] \in Nat /\ job.profile[g] \in Nat
         /\ job.linear \in BOOLEAN
  BY CurveAssumption, BudgetAssumption DEF TypeOK, Request, Gpus

\* Billing one iteration too few only makes find() accept more: whatever it
\* refuses is not acceptable.
LEMMA RefusedIsUnacceptable ==
  ASSUME TypeOK, x \in Gpus, NEW billed \in BilledIters, ~Accepts(billed)
  PROVE  ~Acceptable(x, job.iters)
  <1> SUFFICES ASSUME Acceptable(x, job.iters) PROVE FALSE
    OBVIOUS
  <1>1. /\ job.iters \in Nat \ {0} /\ job.deadline \in Nat /\ job.budget \in Nat
        /\ job.curve[x] \in Nat /\ job.profile[x] \in Nat
    BY RequestTypes DEF Acceptable, NothingToDo
  <1>2. job.curve[x] > 0
    <2>1. job.curve[x] * job.deadline >= job.iters
      BY DEF Acceptable, Meets
    <2>2. CASE job.curve[x] = 0
      <3>1. job.curve[x] * job.deadline = 0
        BY <1>1, <2>2
      <3> QED BY <2>1, <3>1, <1>1
    <2> QED BY <2>2, <1>1
  <1>3. FitsEnergy(x, billed)
    <2>1. CASE job.linear
      BY <2>1 DEF Acceptable, FitsEnergy
    <2>2. CASE ~job.linear
      <3>1. job.profile[x] * job.iters <= job.budget
        BY <2>2 DEF Acceptable, FitsEnergy
      <3>2. billed \in Nat /\ billed <= job.iters
        BY <1>1 DEF BilledIters
      <3>3. job.profile[x] * billed <= job.profile[x] * job.iters
        BY <1>1, <3>2, ProductMonotone
      <3>4. job.profile[x] * billed \in Nat /\ job.profile[x] * job.iters \in Nat
        BY <1>1, <3>2
      <3> QED BY <2>2, <3>1, <3>3, <3>4, <1>1 DEF FitsEnergy
    <2> QED BY <2>1, <2>2
  <1> QED BY <1>2, <1>3 DEF Accepts, Acceptable

\* Nor does it accept what would not fit with one iteration fewer.
LEMMA AcceptedFits ==
  ASSUME TypeOK, ~NothingToDo, x \in Gpus, NEW billed \in BilledIters, Accepts(billed)
  PROVE  Acceptable(x, job.iters - 1)
  <1>1. /\ job.iters \in Nat \ {0} /\ job.budget \in Nat /\ job.profile[x] \in Nat
    BY RequestTypes DEF NothingToDo
  <1>2. FitsEnergy(x, job.iters - 1)
    <2>1. CASE job.linear
      BY <2>1 DEF Accepts, FitsEnergy
    <2>2. CASE ~job.linear
      <3>1. job.profile[x] * billed <= job.budget
        BY <2>2 DEF Accepts, FitsEnergy
      <3>2. billed \in Nat /\ job.iters - 1 \in Nat /\ job.iters - 1 <= billed
        BY <1>1 DEF BilledIters
      <3>3. job.profile[x] * (job.iters - 1) <= job.profile[x] * billed
        BY <1>1, <3>2, ProductMonotone
      <3>4. job.profile[x] * billed \in Nat /\ job.profile[x] * (job.iters - 1) \in Nat
        BY <1>1, <3>2
      <3> QED BY <2>2, <3>1, <3>3, <3>4, <1>1 DEF FitsEnergy
    <2> QED BY <2>1, <2>2
  <1> QED BY <1>2 DEF Accepts, Acceptable

-----------------------------------------------------------------------------
LEMMA MssInitInv == MssInit => MssInv
  <1> SUFFICES ASSUME MssInit PROVE MssInv
    OBVIOUS
  <1>1. TypeOK
    BY DEF MssInit, TypeOK, Gpus
  <1>2. SearchInv
    BY DEF MssInit, SearchInv, Gpus
  <1>3. WalkInv /\ AnswerInv
    BY DEF MssInit, WalkInv, AnswerInv, SmallestFit
  <1> QED BY <1>1, <1>2, <1>3 DEF MssInv

\* job never changes, so neither do the questions asked about it.
LEMMA SameQuestions ==
  ASSUME job' = job
  PROVE  /\ \A g : Meets(g)' <=> Meets(g)
         /\ \A g, b : Acceptable(g, b)' <=> Acceptable(g, b)
         /\ \A g, b : FitsEnergy(g, b)' <=> FitsEnergy(g, b)
         /\ NothingToDo' <=> NothingToDo
  BY DEF Meets, Acceptable, FitsEnergy, NothingToDo

LEMMA MssStepInv == MssInv /\ [MssNext]_mssVars => MssInv'
  <1> SUFFICES ASSUME MssInv, [MssNext]_mssVars PROVE MssInv'
    OBVIOUS
  <1> USE DEF MssInv
  <1>0. job' = job
    BY DEF mssVars, MssNext, EarlyReturn, Halve, ShareFound, NoShare, WalkAccept,
           WalkSkip, WalkExhausted
  <1>q. /\ \A g : Meets(g)' <=> Meets(g)
        /\ \A g, b : Acceptable(g, b)' <=> Acceptable(g, b)
        /\ \A g, b : FitsEnergy(g, b)' <=> FitsEnergy(g, b)
        /\ NothingToDo' <=> NothingToDo
    BY <1>0, SameQuestions
  <1>1. CASE EarlyReturn
    <2>1. TypeOK'
      BY <1>1 DEF EarlyReturn, Finish, TypeOK
    <2>2. SearchInv' /\ WalkInv'
      BY <1>1 DEF EarlyReturn, Finish, SearchInv, WalkInv
    <2>3. \A g : ~Acceptable(g, job.iters)
      BY <1>1 DEF EarlyReturn, Acceptable
    <2>4. AnswerInv'
      BY <1>1, <1>q, <2>3 DEF EarlyReturn, Finish, AnswerInv, SmallestFit
    <2> QED BY <2>1, <2>2, <2>4
  <1>2. CASE Halve
    <2> DEFINE mid == (lo + hi) \div 2
    <2>1. mid \in Gpus /\ lo <= mid /\ mid < hi
      BY <1>2 DEF Halve, TypeOK, Gpus
    <2>2. CASE Meets(mid)
      <3>1. hi' = mid /\ lo' = lo
        BY <1>2, <2>2 DEF Halve
      <3>2. TypeOK'
        BY <1>2, <2>1, <3>1 DEF Halve, TypeOK
      <3>3. SearchInv'
        BY <1>2, <1>q, <2>1, <2>2, <3>1 DEF Halve, SearchInv
      <3> QED BY <1>2, <3>2, <3>3, <1>q DEF Halve, WalkInv, AnswerInv,
                 SmallestFit
    <2>3. CASE ~Meets(mid)
      <3>1. lo' = mid + 1 /\ hi' = hi
        BY <1>2, <2>3 DEF Halve
      <3>2. TypeOK'
        BY <1>2, <2>1, <3>1 DEF Halve, TypeOK, Gpus
      <3>3. \A g \in Gpus : g < mid + 1 => ~Meets(g)
        <4> SUFFICES ASSUME NEW g \in Gpus, g < mid + 1, Meets(g) PROVE FALSE
          OBVIOUS
        <4>1. g <= mid
          BY <2>1 DEF Gpus
        <4> QED BY <4>1, <2>1, <2>3, MeetsMonotone
      <3>4. SearchInv'
        BY <1>2, <1>q, <2>1, <3>1, <3>3 DEF Halve, SearchInv, Gpus, TypeOK
      <3> QED BY <1>2, <3>2, <3>4, <1>q DEF Halve, WalkInv, AnswerInv,
                 SmallestFit
    <2> QED BY <2>2, <2>3
  <1>3. CASE ShareFound
    <2>1. TypeOK'
      BY <1>3 DEF ShareFound, TypeOK, Gpus
    <2>2. SearchInv' /\ AnswerInv'
      BY <1>3, <1>q DEF ShareFound, SearchInv, AnswerInv, SmallestFit
    <2>3. WalkInv'
      BY <1>3, <1>q DEF ShareFound, SearchInv, WalkInv, Acceptable, TypeOK, Gpus
    <2> QED BY <2>1, <2>2, <2>3
  <1>4. CASE NoShare
    <2>1. TypeOK'
      BY <1>4 DEF NoShare, Finish, TypeOK
    <2>2. lo = MaxGpus
      BY <1>4 DEF NoShare, SearchInv, TypeOK, Gpus
    <2>3. \A g \in Gpus : ~Acceptable(g, job.iters)
      BY <1>4, <2>2 DEF NoShare, SearchInv, Acceptable, Gpus
    <2>4. AnswerInv'
      BY <1>4, <1>q, <2>3 DEF NoShare, Finish, AnswerInv, SmallestFit
    <2> QED BY <1>4, <2>1, <2>4 DEF NoShare, Finish, SearchInv, WalkInv
  <1>5. CASE WalkAccept
    <2>0. x \in Gpus
      BY <1>5 DEF WalkAccept, WalkInv, TypeOK, Gpus
    <2>1. TypeOK'
      BY <1>5, <2>0 DEF WalkAccept, Finish, TypeOK, Gpus
    <2>2. PICK billed \in BilledIters : Accepts(billed)
      BY <1>5 DEF WalkAccept
    <2>3. Acceptable(x, job.iters - 1)
      BY <1>5, <2>0, <2>2, AcceptedFits DEF WalkInv, WalkAccept
    <2>4. AnswerInv'
      BY <1>0, <1>5, <1>q, <2>0, <2>2, <2>3 DEF WalkAccept, Finish, Accepts, WalkInv,
         AnswerInv, SmallestFit, Gpus
    <2> QED BY <1>5, <2>1, <2>4 DEF WalkAccept, Finish, SearchInv, WalkInv
  <1>6. CASE WalkSkip
    <2>0. x \in Gpus
      BY <1>6 DEF WalkSkip, WalkInv, TypeOK, Gpus
    <2>1. TypeOK'
      BY <1>6, <2>0 DEF WalkSkip, TypeOK, Gpus
    <2>2. PICK billed \in BilledIters : ~Accepts(billed)
      BY <1>6 DEF WalkSkip
    <2>3. ~Acceptable(x, job.iters)
      BY <2>0, <2>2, RefusedIsUnacceptable
    <2>4. \A g \in Gpus : g < x + 1 => ~Acceptable(g, job.iters)
      BY <1>6, <2>0, <2>3 DEF WalkSkip, WalkInv, Gpus
    <2>5. WalkInv'
      BY <1>6, <1>q, <2>0, <2>4 DEF WalkSkip, WalkInv, TypeOK, Gpus
    <2>6. SearchInv' /\ AnswerInv'
      BY <1>6, <1>q DEF WalkSkip, SearchInv, AnswerInv, SmallestFit
    <2> QED BY <2>1, <2>5, <2>6
  <1>7. CASE WalkExhausted
    <2>1. TypeOK'
      BY <1>7 DEF WalkExhausted, Finish, TypeOK
    <2>2. \A g \in Gpus : ~Acceptable(g, job.iters)
      BY <1>7 DEF WalkExhausted, WalkInv, TypeOK, Gpus
    <2>3. AnswerInv'
      BY <1>7, <1>q, <2>2 DEF WalkExhausted, Finish, AnswerInv, SmallestFit
    <2> QED BY <1>7, <2>1, <2>3 DEF WalkExhausted, Finish, SearchInv, WalkInv
  <1>8. CASE UNCHANGED mssVars
    BY <1>8, <1>q DEF mssVars, TypeOK, SearchInv, WalkInv, AnswerInv,
       SmallestFit
  <1> QED BY <1>1, <1>2, <1>3, <1>4, <1>5, <1>6, <1>7, <1>8 DEF MssNext

LEMMA MssInvariance == MssSpec => []MssInv
  BY MssInitInv, MssStepInv, PTL DEF MssSpec

-----------------------------------------------------------------------------
(* Types, for every instance: the search and the walk stay on the curve.    *)
THEOREM TypeCorrect == MssSpec => []TypeOK
  BY MssInvariance, PTL DEF MssInv

(* The binary search hands the walk the smallest GPU count that meets the   *)
(* deadline (mss.py:62-79).                                                 *)
THEOREM SearchFindsSmallest == MssSpec => []SmallestShare
  <1>1. MssInv => SmallestShare
    BY DEF MssInv, WalkInv, SmallestShare
  <1> QED BY <1>1, MssInvariance, PTL

(* No acceptable GPU count is passed over, no job that fits is rejected, and  *)
(* the answer fits but for one iteration of its profile (mss.py:151-182).     *)
THEOREM AdmissionIsExact == MssSpec => []SmallestFit
  <1>1. MssInv => SmallestFit
    BY DEF MssInv, AnswerInv
  <1> QED BY <1>1, MssInvariance, PTL

-----------------------------------------------------------------------------
(* The admitted job between the ticks.                                     *)

\* What BehindOnlyByIdling needs to know of the state.
RunInv ==
  /\ MssInv
  /\ left \in Nat /\ secs \in Nat /\ idle \in Nat
  /\ BehindOnlyByIdling

LEMMA CurveFacts ==
  ASSUME TypeOK
  PROVE  /\ MaxGpus \in Gpus /\ Peak \in Nat
         /\ \A g \in Gpus : job.curve[g] \in Nat
         /\ \A g, h \in Gpus : g <= h => job.curve[g] <= job.curve[h]
  <1>1. job.curve \in Curves
    BY DEF TypeOK, Request
  <1>2. /\ job.curve \in [Gpus -> Nat]
        /\ \A g, h \in Gpus : g <= h => job.curve[g] <= job.curve[h]
    BY <1>1, CurveAssumption
  <1>3. MaxGpus \in Gpus
    BY DEF Gpus
  <1> QED BY <1>2, <1>3 DEF Peak

\* A width under the floor is enough for what remains, or the fastest there is.
LEMMA WidthIsEnough ==
  ASSUME TypeOK, left \in Nat \ {0}, secs \in Nat \ {0}, NEW asked \in Gpus
  PROVE  /\ Width(asked) \in Gpus
         /\ Width(asked) = MaxGpus \/ job.curve[Width(asked)] * secs >= left
  <1> DEFINE meets == {g \in Gpus : job.curve[g] * secs >= left}
             floor == Selector(job.curve)!Floor(left, secs)
             share == Selector(job.curve)!MinimumShare(left, secs)
  <1>1. Selector(job.curve)!Satisfying(left, secs) = meets
    BY DEF Selector!Satisfying, Selector!CurveGpus, Gpus
  <1>2. CASE meets = {}
    <2>1. share = 0
      BY <1>1, <1>2 DEF Selector!MinimumShare
    <2>2. floor = MaxGpus
      BY <2>1 DEF Selector!Floor, Selector!Smaller
    <2>3. Width(asked) = MaxGpus
      BY <2>2 DEF Width, Gpus
    <2> QED BY <2>3, CurveFacts
  <1>3. CASE meets # {}
    <2>1. share \in meets
      <3>0. meets \in SUBSET Nat
        BY DEF Gpus
      <3>1. PICK g \in meets : \A h \in meets : g <= h
        BY <1>3, <3>0, SmallestExists
      <3>2. share = CHOOSE n \in meets : \A h \in meets : n <= h
        BY <1>1, <1>3 DEF Selector!MinimumShare
      <3> QED BY <3>1, <3>2
    <2>2. floor = share
      BY <2>1 DEF Selector!Floor, Selector!Larger, Gpus
    <2>3. Width(asked) \in Gpus /\ share <= Width(asked)
      BY <2>1, <2>2 DEF Width, Gpus
    <2>4. job.curve[share] <= job.curve[Width(asked)]
      BY <2>1, <2>3, CurveFacts
    <2>5. /\ job.curve[share] \in Nat /\ job.curve[Width(asked)] \in Nat
          /\ job.curve[share] * secs >= left
      BY <2>1, <2>3, CurveFacts
    <2>6. job.curve[share] * secs <= job.curve[Width(asked)] * secs
      BY <2>4, <2>5, ProductMonotone
    <2>7. job.curve[share] * secs \in Nat /\ job.curve[Width(asked)] * secs \in Nat
      BY <2>5
    <2> QED BY <2>3, <2>5, <2>6, <2>7
  <1> QED BY <1>2, <1>3

\* Training at a rate that is enough, or at the peak, loses no ground.
LEMMA NoGroundLost ==
  ASSUME NEW l \in Nat, NEW s \in Nat, NEW i \in Nat, NEW t \in Nat, t <= s,
         NEW rate \in Nat, NEW peak \in Nat, rate <= peak,
         rate * s >= l \/ (rate = peak /\ l <= peak * (s + i))
  PROVE  l - rate * t <= peak * ((s - t) + i)
  <1>1. rate * (s - t) <= peak * (s - t)
    BY ProductMonotone
  <1>2. rate * (s - t) = rate * s - rate * t /\ peak * ((s - t) + i) = peak * (s - t) + peak * i
    OBVIOUS
  <1>3. peak * (s + i) = peak * s + peak * i /\ peak * (s - t) = peak * s - peak * t
    OBVIOUS
  <1>4. /\ peak * s \in Nat /\ peak * i \in Nat /\ peak * t \in Nat
        /\ rate * s \in Nat /\ rate * t \in Nat
    OBVIOUS
  <1> QED BY <1>1, <1>2, <1>3, <1>4

LEMMA RunStepInv == RunInv /\ [RunNext]_allVars => RunInv'
  <1> SUFFICES ASSUME RunInv, [RunNext]_allVars PROVE RunInv'
    OBVIOUS
  <1> USE DEF RunInv
  <1>0. MssInv'
    BY MssStepInv DEF allVars, RunNext, Admission, Submit, TickAndTrain, Lapse, mssVars
  <1>t. TypeOK /\ Peak \in Nat
    BY CurveFacts DEF MssInv
  <1>p. job' = job => Peak' = Peak
    BY DEF Peak
  <1>1. CASE Admission
    <2>1. job' = job
      BY <1>1 DEF Admission, mssVars, MssNext, EarlyReturn, Halve, ShareFound, NoShare,
             WalkAccept, WalkSkip, WalkExhausted
    <2> QED BY <1>0, <1>1, <1>p, <2>1 DEF Admission, runVars, BehindOnlyByIdling
  <1>2. CASE Submit
    <2>1. Meets(gpus) /\ gpus \in Gpus
      BY <1>2 DEF Submit, MssInv, AnswerInv, SmallestFit, Acceptable, TypeOK, Gpus
    <2>2. /\ job.iters \in Nat /\ job.deadline \in Nat
          /\ job.curve[gpus] \in Nat /\ job.curve[gpus] <= Peak
      BY <2>1, <1>t, RequestTypes, CurveFacts DEF Peak, Gpus
    <2>3. job.curve[gpus] * job.deadline <= Peak * job.deadline
      BY <2>2, <1>t, ProductMonotone
    <2>4. job.iters <= Peak * job.deadline
      BY <2>1, <2>2, <2>3, <1>t DEF Meets
    <2>5. Peak * job.deadline <= Peak * (job.deadline + idle)
      BY <2>2, <1>t, ProductMonotone
    <2>6. Peak * job.deadline \in Nat /\ Peak * (job.deadline + idle) \in Nat
      BY <2>2, <1>t
    <2>7. job.iters <= Peak * (job.deadline + idle)
      BY <2>2, <2>4, <2>5, <2>6
    <2>8. left' = job.iters /\ secs' = job.deadline /\ idle' = idle /\ Peak' = Peak
      BY <1>2, <1>p DEF Submit, mssVars
    <2>9. BehindOnlyByIdling'
      BY <2>7, <2>8 DEF BehindOnlyByIdling
    <2> QED BY <1>0, <2>2, <2>8, <2>9
  <1>3. CASE TickAndTrain
    <2>1. PICK asked \in Gpus, time \in 1..MaxDeadline :
            Pass(time) /\ Train(job.curve[Width(asked)] * time)
      BY <1>3 DEF TickAndTrain
    <2> DEFINE rate == job.curve[Width(asked)]
    <2>2. /\ left \in Nat \ {0} /\ time \in Nat \ {0} /\ time <= secs
          /\ secs \in Nat \ {0} /\ secs' = secs - time
      BY <1>3, <2>1, BudgetAssumption DEF TickAndTrain, Pass
    <2>3. /\ Width(asked) \in Gpus
          /\ Width(asked) = MaxGpus \/ rate * secs >= left
      BY <1>t, <2>2, WidthIsEnough
    <2>4. rate \in Nat /\ rate <= Peak /\ (Width(asked) = MaxGpus => rate = Peak)
      BY <2>3, <1>t, CurveFacts DEF Peak, Gpus
    <2> HIDE DEF rate
    <2>5. left <= Peak * (secs + idle)
      BY <1>3 DEF TickAndTrain, BehindOnlyByIdling
    <2>6. left - rate * time <= Peak * ((secs - time) + idle)
      BY <1>t, <2>2, <2>3, <2>4, <2>5, NoGroundLost
    <2>7. /\ rate * time \in Nat /\ Peak * ((secs - time) + idle) \in Nat
      BY <1>t, <2>2, <2>4
    <2>8. left' = IF rate * time < left THEN left - rate * time ELSE 0
      BY <2>1 DEF Train, rate
    <2>9. left' \in Nat /\ left' <= Peak * ((secs - time) + idle)
      BY <2>2, <2>6, <2>7, <2>8
    <2>10. job' = job /\ idle' = idle
      BY <1>3 DEF TickAndTrain, mssVars
    <2>11. BehindOnlyByIdling'
      BY <2>2, <2>9, <2>10, <1>p DEF BehindOnlyByIdling
    <2> QED BY <1>0, <2>2, <2>9, <2>10, <2>11
  <1>4. CASE Lapse
    <2>1. PICK done \in 0..MaxIters, time \in 1..MaxDeadline :
            Pass(time) /\ Train(done) /\ idle' = idle + time
      BY <1>4 DEF Lapse
    <2>2. /\ time \in Nat /\ time <= secs /\ secs' = secs - time
          /\ done \in Nat /\ job' = job /\ runs' = runs
      BY <1>4, <2>1, BudgetAssumption DEF Lapse, Pass, mssVars
    <2>3. left' \in Nat /\ left' <= left
      BY <2>1, <2>2 DEF Train
    <2>4. secs' + idle' = secs + idle /\ secs' \in Nat /\ idle' \in Nat
      BY <2>1, <2>2
    <2>5. left <= Peak * (secs + idle)
      BY <1>4 DEF Lapse, BehindOnlyByIdling
    <2>6. Peak * (secs + idle) \in Nat
      BY <1>t
    <2>7. Peak' = Peak
      BY <2>2, <1>p
    <2>8. Peak' * (secs' + idle') = Peak * (secs + idle)
      BY <2>4, <2>7, Zenon
    <2>9. left' <= Peak * (secs + idle)
      BY <2>3, <2>5, <2>6
    <2> QED BY <1>0, <2>3, <2>4, <2>8, <2>9 DEF BehindOnlyByIdling
  <1>5. CASE UNCHANGED allVars
    BY <1>0, <1>5, <1>p DEF allVars, mssVars, runVars, BehindOnlyByIdling
  <1> QED BY <1>1, <1>2, <1>3, <1>4, <1>5 DEF RunNext

(* Whatever the energy policy asks for and however irregular the ticks are,   *)
(* a job that was admitted, on any curve and by any walk through the budgets, *)
(* is late by no more than its idle time costs (deadline_selector.py:3-20).   *)
THEOREM DeadlineSurvivesTicks == RunSpec => []BehindOnlyByIdling
  <1>1. RunInit => RunInv
    BY MssInitInv DEF RunInit, RunInv, BehindOnlyByIdling
  <1>2. RunInv => BehindOnlyByIdling
    BY DEF RunInv
  <1> QED BY <1>1, <1>2, RunStepInv, PTL DEF RunSpec

HIDE SizeAssumption
-----------------------------------------------------------------------------
(* One pick.                                                               *)

LEMMA NodesFacts ==
  /\ IsFiniteSet(Nodes) /\ Nodes # {} /\ Cardinality(Nodes) = N
  /\ NoNode \notin Nodes /\ Nodes \subseteq Nat
  <1>1. N \in Nat \ {0} /\ Nodes = 1..N
    BY RoundRobinAssumption DEF Nodes
  <1>2. IsFiniteSet(1..N) /\ Cardinality(1..N) = IF 1 > N THEN 0 ELSE N - 1 + 1
    BY <1>1, FS_Interval
  <1>3. Cardinality(1..N) = N
    BY <1>1, <1>2
  <1> QED BY <1>1, <1>2, <1>3 DEF NoNode

(* Richest is a node that no other exceeds.                                   *)
LEMMA RichestIsRichest ==
  ASSUME NEW f \in [Nodes -> Nat]
  PROVE  Richest(f) \in Nodes /\ \A m \in Nodes : f[m] <= f[Richest(f)]
  <1> DEFINE Top == {n \in Nodes : \A m \in Nodes : f[m] <= f[n]}
  <1>1. Top \in SUBSET Nat /\ Top # {}
    BY NodesFacts, LargestExists
  <1>2. PICK n \in Top : \A m \in Top : n <= m
    BY <1>1, SmallestExists
  <1>3. \A m \in Nodes : f[m] < f[n] \/ (f[m] = f[n] /\ n <= m)
    <2> SUFFICES ASSUME NEW m \in Nodes, ~(f[m] < f[n])
                 PROVE  f[m] = f[n] /\ n <= m
      OBVIOUS
    <2>1. f[m] = f[n]
      BY <1>2
    <2> QED BY <1>2, <2>1
  <1>4. n \in Nodes
    BY <1>2
  <1> HIDE DEF Top
  <1>5. /\ Richest(f) \in Nodes
        /\ \A m \in Nodes : f[m] < f[Richest(f)] \/ (f[m] = f[Richest(f)] /\ Richest(f) <= m)
    BY <1>3, <1>4 DEF Richest
  <1> QED BY <1>5

LEMMA PickTypes ==
  ASSUME NEW d \in [Nodes -> Nat], NEW w \in [Nodes -> Nat]
  PROVE  AfterPick(d, w) \in [Nodes -> Nat] /\ Pick(d, w) \in Nodes \union {NoNode}
  <1> DEFINE c == Credited(d, w)
             r == Richest(c)
  <1>1. c \in [Nodes -> Nat] /\ Unit \in Nat
    BY RoundRobinAssumption DEF Credited
  <1>2. r \in Nodes
    BY <1>1, RichestIsRichest
  <1>3. Pick(d, w) = IF c[r] < Unit THEN NoNode ELSE r
    BY DEF Pick
  <1>4. AfterPick(d, w) = [n \in Nodes |-> IF n = Pick(d, w) THEN c[n] - Unit ELSE c[n]]
    BY DEF AfterPick
  <1> HIDE DEF c, r
  <1>5. \A n \in Nodes : n = Pick(d, w) => c[n] - Unit \in Nat
    <2>1. \A n \in Nodes : c[n] \in Nat /\ (n = Pick(d, w) => ~(c[n] < Unit))
      BY <1>1, <1>3, NodesFacts
    <2> QED BY <1>1, <2>1
  <1> QED BY <1>1, <1>2, <1>3, <1>4, <1>5

(* A pick shares Unit out among the deficits and takes it from the richest    *)
(* node again, unless no node has as much.                                    *)
LEMMA PickFacts ==
  ASSUME NEW d \in [Nodes -> Nat], NEW w \in [Nodes -> Nat], SumFunction(w) = Unit
  PROVE  /\ AfterPick(d, w) \in [Nodes -> Nat]
         /\ Pick(d, w) \in Nodes \union {NoNode}
         /\ \A n \in Nodes :
              AfterPick(d, w)[n] = d[n] + w[n] - (IF n = Pick(d, w) THEN Unit ELSE 0)
         /\ Pick(d, w) \in Nodes => SumFunction(AfterPick(d, w)) = SumFunction(d)
         /\ Pick(d, w) = NoNode =>
              /\ SumFunction(AfterPick(d, w)) = SumFunction(d) + Unit
              /\ SumFunction(AfterPick(d, w)) <= N * (Unit - 1)
  <1> DEFINE c == Credited(d, w)
             r == Richest(c)
             after == AfterPick(d, w)
  <1>0. Unit \in Nat \ {0} /\ N \in Nat \ {0}
    BY RoundRobinAssumption
  <1>1. c \in [Nodes -> Nat] /\ \A n \in Nodes : c[n] = d[n] + w[n]
    BY DEF Credited
  <1>2. r \in Nodes /\ \A n \in Nodes : c[n] <= c[r]
    BY <1>1, RichestIsRichest
  <1>3. SumFunctionOnSet(c, Nodes) = SumFunctionOnSet(d, Nodes) + Unit
    <2>0. \A n \in Nodes : d[n] \in Int /\ w[n] \in Int /\ c[n] = d[n] + w[n]
      BY <1>1
    <2> HIDE DEF c
    <2>1. SumFunctionOnSet(c, Nodes) = SumFunctionOnSet(d, Nodes) + SumFunctionOnSet(w, Nodes)
      BY <2>0, NodesFacts, SumPlus
    <2> QED BY <2>1 DEF SumFunction
  <1>4. SumFunctionOnSet(d, Nodes) \in Int
    <2>1. \A n \in Nodes : d[n] \in Int
      OBVIOUS
    <2> QED BY <2>1, NodesFacts, SumType
  <1>5. CASE c[r] < Unit
    <2>1. Pick(d, w) = NoNode
      BY <1>5 DEF Pick
    <2>2. after = c
      BY <2>1, <1>1, NodesFacts DEF AfterPick
    <2>3. SumFunctionOnSet(c, Nodes) <= N * (Unit - 1)
      <3> DEFINE most == [n \in Nodes |-> Unit - 1]
      <3>0. Unit - 1 \in Int /\ \A n \in Nodes : most[n] = Unit - 1
        BY <1>0
      <3>a. \A n \in Nodes : c[n] \in Int /\ most[n] \in Int /\ c[n] <= most[n]
        BY <1>0, <1>1, <1>2, <1>5
      <3> HIDE DEF most, c, r
      <3>1. SumFunctionOnSet(c, Nodes) <= SumFunctionOnSet(most, Nodes)
        BY <3>a, NodesFacts, SumMonotone
      <3>2. SumFunctionOnSet(most, Nodes) = (Unit - 1) * N
        BY <3>0, NodesFacts, SumConstant
      <3>3. (Unit - 1) * N = N * (Unit - 1)
        BY <1>0
      <3> QED BY <3>1, <3>2, <3>3
    <2> QED BY <1>1, <1>3, <2>1, <2>2, <2>3, NodesFacts DEF SumFunction
  <1>6. CASE ~(c[r] < Unit)
    <2>1. Pick(d, w) = r
      BY <1>6 DEF Pick
    <2>2. after = [n \in Nodes |-> IF n = r THEN c[n] - Unit ELSE c[n]]
      BY <2>1 DEF AfterPick
    <2>3. after \in [Nodes -> Nat]
      BY <1>0, <1>1, <1>2, <1>6, <2>2
    <2>a. /\ \A n \in Nodes : c[n] \in Int
          /\ \A n \in Nodes \ {r} : after[n] = c[n]
          /\ after[r] = c[r] + (0 - Unit) /\ 0 - Unit \in Int
      BY <1>0, <1>1, <1>2, <2>2
    <2>4. SumFunctionOnSet(after, Nodes) = SumFunctionOnSet(c, Nodes) + (0 - Unit)
      <3> DEFINE taken == 0 - Unit
      <3>1. r \in Nodes /\ after[r] = c[r] + taken /\ taken \in Int
        BY <1>2, <2>a
      <3>a. IsFiniteSet(Nodes)
        BY NodesFacts
      <3>b. (\A n \in Nodes : c[n] \in Int) /\ (\A n \in Nodes \ {r} : after[n] = c[n])
        BY <2>a
      <3> HIDE DEF c, r, after, taken
      <3>2. SumFunctionOnSet(after, Nodes) = SumFunctionOnSet(c, Nodes) + taken
        BY <3>a, <3>b, <3>1, SumChanged, ZenonT(30)
      <3> QED BY <3>2 DEF taken
    <2>5. SumFunctionOnSet(after, Nodes) = SumFunctionOnSet(d, Nodes)
      BY <1>0, <1>3, <1>4, <2>4
    <2>6. \A n \in Nodes : after[n] = d[n] + w[n] - (IF n = r THEN Unit ELSE 0)
      BY <1>0, <1>1, <2>2
    <2> QED BY <1>2, <2>1, <2>3, <2>5, <2>6, NodesFacts DEF SumFunction
  <1> QED BY <1>5, <1>6
-----------------------------------------------------------------------------
(* The weights.                                                            *)

LEMMA Quotients ==
  ASSUME NEW a \in Nat, NEW b \in Nat, b # 0
  PROVE  a \div b \in Nat
  OBVIOUS

LEMMA NormalisedType ==
  ASSUME NEW raw \in [Nodes -> Nat]
  PROVE  Normalised(raw) \in [Nodes -> Nat]
  <1>1. \A n \in Nodes : raw[n] \in Nat
    OBVIOUS
  <1>2. SumFunctionOnSet(raw, Nodes) \in Nat
    BY <1>1, NodesFacts, SumBounds
  <1>3. SumFunction(raw) \in Nat
    BY <1>2 DEF SumFunction
  <1>4. \A n \in Nodes : Unit * raw[n] \in Nat
    BY <1>1, RoundRobinAssumption
  <1>5. SumFunction(raw) # 0 => \A n \in Nodes : (Unit * raw[n]) \div SumFunction(raw) \in Nat
    BY <1>3, <1>4, Quotients
  <1> QED BY <1>5 DEF Normalised

LEMMA WeightsType ==
  ASSUME ExactWeights, NEW t \in [Nodes -> Samples]
  PROVE  Weights(t) \in [Nodes -> Nat] /\ SumFunction(Weights(t)) = Unit
  <1>1. EnergyRaw(t) \in [Nodes -> Nat]
    BY SchedulerAssumption, RoundRobinAssumption DEF EnergyRaw, Samples
  <1>2. \A n \in Nodes : Derate * EnergyRaw(t)[n] \in Nat /\ 2 * EnergyRaw(t)[n] \in Nat
    BY <1>1, SchedulerAssumption
  <1>3. Guarded(EnergyRaw(t), t) \in [Nodes -> Nat]
    BY <1>2 DEF Guarded
  <1>4. Capacity \in [Nodes -> Nat]
    BY RoundRobinAssumption
  <1> QED BY <1>3, <1>4, NormalisedType DEF Weights, ExactWeights
-----------------------------------------------------------------------------
(* The energy-aware round robin: a deficit is what a node has earned and not been picked for, *)
(* and all of them together are the picks that found nobody due.               *)

WrrTypes ==
  /\ telemetry \in [Nodes -> Samples]
  /\ weights \in [Nodes -> Nat] /\ SumFunction(weights) = Unit
  /\ deficit \in [Nodes -> Nat] /\ picks \in [Nodes -> Nat] /\ earned \in [Nodes -> Nat]
  /\ calls \in Nat

DeficitIsUnpaid == \A n \in Nodes : deficit[n] = earned[n] - picks[n] * Unit

CreditIsShort ==
  /\ SumFunction(deficit) = (calls - SumFunction(picks)) * Unit
  /\ SumFunction(deficit) <= (N - 1) * Unit

WrrInv == WrrTypes /\ DeficitIsUnpaid /\ CreditIsShort

LEMMA SumOfPicks ==
  ASSUME NEW f \in [Nodes -> Nat]
  PROVE  SumFunction(f) \in Nat /\ \A n \in Nodes : f[n] <= SumFunction(f)
  <1>1. \A n \in Nodes : f[n] \in Nat
    OBVIOUS
  <1>2. /\ SumFunctionOnSet(f, Nodes) \in Nat
        /\ \A n \in Nodes : f[n] <= SumFunctionOnSet(f, Nodes)
    BY <1>1, NodesFacts, SumBounds
  <1> QED BY <1>2 DEF SumFunction

LEMMA WrrInitInv == ExactWeights /\ WrrInit => WrrInv
  <1> SUFFICES ASSUME ExactWeights, WrrInit PROVE WrrInv
    OBVIOUS
  <1> DEFINE zero == [n \in Nodes |-> 0]
  <1>1. SumFunction(zero) = 0
    <2>1. \A n \in Nodes : zero[n] = 0
      OBVIOUS
    <2> HIDE DEF zero
    <2>2. SumFunctionOnSet(zero, Nodes) = 0 * Cardinality(Nodes)
      <3>1. IsFiniteSet(Nodes) /\ 0 \in Int
        BY NodesFacts
      <3> QED BY <2>1, <3>1, SumConstant
    <2> QED BY <2>2, NodesFacts, RoundRobinAssumption DEF SumFunction, zero
  <1>2. WrrTypes
    BY WeightsType DEF WrrInit, WrrTypes
  <1>3. DeficitIsUnpaid
    BY RoundRobinAssumption DEF WrrInit, DeficitIsUnpaid
  <1>4. deficit = zero /\ picks = zero /\ calls = 0
    BY DEF WrrInit
  <1> HIDE DEF zero
  <1>5. (0 - 0) * Unit = 0 /\ 0 <= (N - 1) * Unit
    BY RoundRobinAssumption
  <1>6. CreditIsShort
    BY <1>1, <1>4, <1>5 DEF CreditIsShort
  <1> QED BY <1>2, <1>3, <1>6 DEF WrrInv

LEMMA DispatchInv ==
  ASSUME ExactWeights, WrrInv, Dispatch
  PROVE  WrrInv'
  <1> DEFINE w == PickWeights
             p == Pick(deficit, w)
  <1>0. Unit \in Nat \ {0} /\ N \in Nat \ {0}
    BY RoundRobinAssumption
  <1>1. w \in [Nodes -> Nat] /\ SumFunction(w) = Unit
    BY WeightsType DEF WrrInv, WrrTypes, PickWeights
  <1>2. /\ deficit' \in [Nodes -> Nat]
        /\ p \in Nodes \union {NoNode}
        /\ \A n \in Nodes : deficit'[n] = deficit[n] + w[n] - (IF n = p THEN Unit ELSE 0)
        /\ p \in Nodes => SumFunction(deficit') = SumFunction(deficit)
        /\ p = NoNode => /\ SumFunction(deficit') = SumFunction(deficit) + Unit
                         /\ SumFunction(deficit') <= N * (Unit - 1)
    <2>1. deficit' = AfterPick(deficit, w) /\ deficit \in [Nodes -> Nat]
      BY DEF WrrInv, WrrTypes, Dispatch
    <2> HIDE DEF w
    <2> QED BY <1>1, <2>1, PickFacts
  <1>3. /\ weights' = w /\ calls' = calls + 1 /\ telemetry' = telemetry
        /\ picks' = [n \in Nodes |-> IF n = p THEN picks[n] + 1 ELSE picks[n]]
        /\ earned' = [n \in Nodes |-> earned[n] + w[n]]
    BY DEF Dispatch, Credited
  <1>4. /\ picks \in [Nodes -> Nat] /\ earned \in [Nodes -> Nat] /\ calls \in Nat
        /\ deficit \in [Nodes -> Nat] /\ telemetry \in [Nodes -> Samples]
    BY DEF WrrInv, WrrTypes
  <1> HIDE DEF w, p
  <1>5. WrrTypes'
    BY <1>1, <1>2, <1>3, <1>4 DEF WrrTypes
  <1>6. DeficitIsUnpaid'
    <2> SUFFICES ASSUME NEW n \in Nodes
                 PROVE  deficit'[n] = earned'[n] - picks'[n] * Unit
      BY DEF DeficitIsUnpaid
    <2>1. deficit[n] = earned[n] - picks[n] * Unit
      BY DEF WrrInv, DeficitIsUnpaid
    <2>2. /\ picks[n] \in Nat /\ earned[n] \in Nat /\ w[n] \in Nat
          /\ (picks[n] + 1) * Unit = picks[n] * Unit + Unit /\ picks[n] * Unit \in Nat
      BY <1>0, <1>1, <1>4
    <2> QED BY <1>0, <1>2, <1>3, <2>1, <2>2
  <1>7. CreditIsShort'
    <2>1. /\ SumFunction(deficit) = (calls - SumFunction(picks)) * Unit
          /\ SumFunction(deficit) <= (N - 1) * Unit
      BY DEF WrrInv, CreditIsShort
    <2>2. SumFunction(picks) \in Nat /\ SumFunction(deficit) \in Nat
      BY <1>4, SumOfPicks
    <2> DEFINE empty == calls - SumFunction(picks)
    <2>3. empty \in Int /\ (empty + 1) * Unit = empty * Unit + Unit
      BY <1>0, <1>4, <2>2
    <2>4. CASE p \in Nodes
      <3>1. /\ \A n \in Nodes : picks[n] \in Int
            /\ \A n \in Nodes \ {p} : picks'[n] = picks[n]
            /\ picks'[p] = picks[p] + 1
        BY <1>3, <1>4, <2>4
      <3>2. IsFiniteSet(Nodes) /\ 1 \in Int
        BY NodesFacts
      <3>3. SumFunctionOnSet(picks', Nodes) = SumFunctionOnSet(picks, Nodes) + 1
        BY <2>4, <3>1, <3>2, SumChanged, ZenonT(30)
      <3>4. SumFunction(picks') = SumFunction(picks) + 1
        BY <1>3, <1>4, <3>3 DEF SumFunction
      <3>5. calls' - SumFunction(picks') = calls - SumFunction(picks)
        BY <1>3, <1>4, <2>2, <3>4
      <3> QED BY <1>2, <2>1, <2>4, <3>5 DEF CreditIsShort
    <2>5. CASE p = NoNode
      <3>1. picks' = picks
        BY <1>3, <1>4, <2>5, NodesFacts
      <3>2. calls' - SumFunction(picks') = empty + 1
        BY <1>3, <1>4, <2>2, <3>1
      <3> HIDE DEF empty
      <3>3. SumFunction(deficit') = (empty + 1) * Unit
        BY <1>2, <2>1, <2>3, <2>5 DEF empty
      <3>4. (empty + 1) * Unit <= N * (Unit - 1)
        BY <1>2, <2>5, <3>3
      <3>5. empty + 1 <= N - 1
        <4> SUFFICES ASSUME N <= empty + 1 PROVE FALSE
          BY <1>0, <2>3
        <4>1. N * Unit <= (empty + 1) * Unit
          BY <1>0, <2>3
        <4>2. N * (Unit - 1) < N * Unit
          BY <1>0
        <4>3. N * (Unit - 1) \in Int /\ N * Unit \in Int /\ (empty + 1) * Unit \in Int
          BY <1>0, <2>3
        <4> QED BY <3>4, <4>1, <4>2, <4>3
      <3>6. (empty + 1) * Unit <= (N - 1) * Unit
        BY <1>0, <2>3, <3>5
      <3> QED BY <3>2, <3>3, <3>6 DEF CreditIsShort
    <2> QED BY <1>2, <2>4, <2>5
  <1> QED BY <1>5, <1>6, <1>7 DEF WrrInv

LEMMA WrrStepInv == ExactWeights /\ WrrInv /\ [WrrNext]_wrrVars => WrrInv'
  <1> SUFFICES ASSUME ExactWeights, WrrInv, [WrrNext]_wrrVars PROVE WrrInv'
    OBVIOUS
  <1>1. CASE Dispatch
    BY <1>1, DispatchInv
  <1>2. ASSUME NEW n \in Nodes, Scrape(n) PROVE WrrInv'
    BY <1>2 DEF Scrape, WrrInv, WrrTypes, DeficitIsUnpaid, CreditIsShort
  <1>3. CASE UNCHANGED wrrVars
    BY <1>3 DEF wrrVars, WrrInv, WrrTypes, DeficitIsUnpaid, CreditIsShort
  <1> QED BY <1>1, <1>2, <1>3 DEF WrrNext

LEMMA WrrInvariance ==
  ASSUME ExactWeights
  PROVE  WrrSpec => []WrrInv
  BY WrrInitInv, WrrStepInv, PTL DEF WrrSpec

(* However often the weights are refreshed, a node is picked as often as its  *)
(* weights earned it, short of at most N - 1 picks (inter_batch.py:244-254).  *)
THEOREM FairlyPaid ==
  ASSUME ExactWeights
  PROVE  WrrSpec => []PaidWhatEarned
  <1>1. WrrInv => PaidWhatEarned
    <2> SUFFICES ASSUME WrrInv, NEW n \in Nodes
                 PROVE  /\ picks[n] * Unit <= earned[n]
                        /\ earned[n] - picks[n] * Unit <= (N - 1) * Unit
      BY DEF PaidWhatEarned, NeverOverpaid
    <2>1. deficit[n] = earned[n] - picks[n] * Unit
      BY DEF WrrInv, DeficitIsUnpaid
    <2>2. /\ deficit[n] \in Nat /\ earned[n] \in Nat /\ picks[n] * Unit \in Nat
          /\ (N - 1) * Unit \in Nat
      BY RoundRobinAssumption DEF WrrInv, WrrTypes
    <2>3. deficit[n] <= SumFunction(deficit) /\ SumFunction(deficit) \in Nat
      BY SumOfPicks DEF WrrInv, WrrTypes
    <2>4. SumFunction(deficit) <= (N - 1) * Unit
      BY DEF WrrInv, CreditIsShort
    <2> QED BY <2>1, <2>2, <2>3, <2>4
  <1> QED BY <1>1, WrrInvariance, PTL

(* Fewer than N picks ever find nobody due, also while every node is          *)
(* saturated (inter_batch.py:237-240, :250-252).                              *)
THEOREM RarelyEmpty ==
  ASSUME ExactWeights
  PROVE  WrrSpec => []FewEmptyPicks
  <1>1. WrrInv => FewEmptyPicks
    <2> SUFFICES ASSUME WrrInv PROVE FewEmptyPicks
      OBVIOUS
    <2>a. calls \in Nat /\ SumFunction(picks) \in Nat
      BY SumOfPicks DEF WrrInv, WrrTypes
    <2> SUFFICES ASSUME N <= calls - SumFunction(picks) PROVE FALSE
      BY <2>a, RoundRobinAssumption DEF FewEmptyPicks
    <2> DEFINE empty == calls - SumFunction(picks)
    <2>1. Unit \in Nat \ {0} /\ N \in Nat \ {0} /\ empty \in Int /\ N <= empty
      BY <2>a, RoundRobinAssumption
    <2>2. empty * Unit <= (N - 1) * Unit
      BY DEF WrrInv, CreditIsShort
    <2> HIDE DEF empty
    <2>3. N * Unit <= empty * Unit /\ (N - 1) * Unit < N * Unit
      BY <2>1
    <2>4. N * Unit \in Int /\ (N - 1) * Unit \in Int /\ empty * Unit \in Int
      BY <2>1
    <2> QED BY <2>2, <2>3, <2>4
  <1> QED BY <1>1, WrrInvariance, PTL
-----------------------------------------------------------------------------
(* The last stage of the pipeline.                                          *)

QueueTypes ==
  /\ isLast \in BOOLEAN /\ submitted \in Nat
  /\ fwdQueue \in [Nodes -> Seq(Nat)] /\ bwdQueue \in [Nodes -> Seq(Nat)]
  /\ lastRun \in [Nodes -> [direction: {"none", "fwd", "bwd"}, mb: Nat]]

\* A node of the last stage has at most the backward pass of what it just ran.
OneActivation ==
  \A n \in Nodes : isLast =>
    /\ lastRun[n].direction = "fwd" => bwdQueue[n] = <<lastRun[n].mb>>
    /\ lastRun[n].direction # "fwd" => bwdQueue[n] = <<>>

IInv == QueueTypes /\ OneActivation

LEMMA QueueEnds ==
  ASSUME NEW q \in Seq(Nat), q # <<>>
  PROVE  Head(q) \in Nat /\ Tail(q) \in Seq(Nat)
  OBVIOUS

LEMMA Enqueuing ==
  ASSUME NEW queue \in [Nodes -> Seq(Nat)], NEW n, NEW mb \in Nat
  PROVE  [queue EXCEPT ![n] = Enqueued(@, mb)] \in [Nodes -> Seq(Nat)]
  <1>1. \A m \in Nodes : Append(queue[m], mb) \in Seq(Nat)
    OBVIOUS
  <1> QED BY <1>1 DEF Enqueued

LEMMA Singletons ==
  ASSUME NEW u \in Nat
  PROVE  /\ Append(<<>>, u) = <<u>>
         /\ Head(<<u>>) = u /\ Tail(<<u>>) = <<>>
  OBVIOUS

LEMMA InitIInv == Init => IInv
  BY DEF Init, IInv, QueueTypes, OneActivation, Idle

LEMMA TickTypes ==
  ASSUME QueueTypes, Tick
  PROVE  QueueTypes'
  <1>1. \A n \in Nodes : FwdAfter(n) \in Seq(Nat)
    BY QueueEnds DEF FwdAfter, RunsForward, RunsBackward, QueueTypes
  <1>2. \A n \in Nodes : BwdAfter(n) \in Seq(Nat)
    BY QueueEnds DEF BwdAfter, Enqueued, RunsForward, RunsBackward, QueueTypes
  <1>3. \A n \in Nodes : Event(n) \in [direction: {"none", "fwd", "bwd"}, mb: Nat]
    BY QueueEnds DEF Event, RunsForward, RunsBackward, QueueTypes
  <1> QED BY <1>1, <1>2, <1>3 DEF Tick, QueueTypes

LEMMA TickActivation ==
  ASSUME IInv, Tick
  PROVE  OneActivation'
  <1> SUFFICES ASSUME NEW n \in Nodes, isLast
               PROVE  /\ Event(n).direction = "fwd" => BwdAfter(n) = <<Event(n).mb>>
                      /\ Event(n).direction # "fwd" => BwdAfter(n) = <<>>
    BY DEF Tick, OneActivation
  <1>1. bwdQueue[n] \in Seq(Nat) /\ fwdQueue[n] \in Seq(Nat)
    BY DEF IInv, QueueTypes
  <1>2. bwdQueue[n] # <<>> => bwdQueue[n] = <<lastRun[n].mb>>
    BY DEF IInv, OneActivation
  <1>3. CASE RunsBackward(n)
    <2>1. Event(n).direction = "bwd"
      BY <1>3 DEF Event
    <2>2. BwdAfter(n) = Tail(<<lastRun[n].mb>>)
      BY <1>2, <1>3 DEF BwdAfter, RunsBackward
    <2>3. lastRun[n].mb \in Nat
      BY DEF IInv, QueueTypes
    <2> QED BY <2>1, <2>2, <2>3, Singletons
  <1>4. CASE RunsForward(n)
    <2>1. Event(n) = [direction |-> "fwd", mb |-> Head(fwdQueue[n])]
      BY <1>4 DEF Event, RunsForward
    <2>2. BwdAfter(n) = Append(<<>>, Head(fwdQueue[n]))
      BY <1>4 DEF BwdAfter, Enqueued, RunsForward, RunsBackward
    <2>3. Head(fwdQueue[n]) \in Nat
      BY <1>1, <1>4, QueueEnds DEF RunsForward
    <2> QED BY <2>1, <2>2, <2>3, Singletons
  <1>5. CASE ~RunsBackward(n) /\ ~RunsForward(n)
    BY <1>5 DEF Event, BwdAfter, RunsBackward, IInv, OneActivation
  <1> QED BY <1>3, <1>4, <1>5

LEMMA StepIInv == IInv /\ [Next]_vars => IInv'
  <1> SUFFICES ASSUME IInv, [Next]_vars PROVE IInv'
    OBVIOUS
  <1>1. CASE EnqueueForward
    <2> DEFINE n == Target(Pick(fwdDeficit, Capacity), submitted)
    <2>a. fwdQueue' = [fwdQueue EXCEPT ![n] = Enqueued(@, submitted)]
      BY <1>1 DEF EnqueueForward
    <2> HIDE DEF n
    <2>b. fwdQueue' \in [Nodes -> Seq(Nat)]
      BY <2>a, Enqueuing DEF IInv, QueueTypes
    <2>1. QueueTypes'
      BY <1>1, <2>b DEF EnqueueForward, IInv, QueueTypes
    <2> QED BY <1>1, <2>1 DEF EnqueueForward, IInv, OneActivation
  <1>2. ASSUME NEW mb \in Batches, EnqueueBackwardTo(mb) \/ EnqueueBackward(mb)
        PROVE  IInv'
    <2>1. mb \in Nat
      BY StageAssumption DEF Batches
    <2>a. PICK n : bwdQueue' = [bwdQueue EXCEPT ![n] = Enqueued(@, mb)]
      BY <1>2, Zenon DEF EnqueueBackwardTo, EnqueueBackward
    <2>c. bwdQueue \in [Nodes -> Seq(Nat)]
      BY DEF IInv, QueueTypes
    <2>b. bwdQueue' \in [Nodes -> Seq(Nat)]
      BY <2>1, <2>a, <2>c, Enqueuing
    <2>2. QueueTypes'
      BY <1>2, <2>b DEF EnqueueBackwardTo, EnqueueBackward, IInv, QueueTypes, histories
    <2>3. ~isLast'
      BY <1>2 DEF EnqueueBackwardTo, EnqueueBackward, Returns
    <2> QED BY <2>2, <2>3 DEF IInv, OneActivation
  <1>3. CASE Tick
    BY <1>3, TickTypes, TickActivation DEF IInv
  <1>4. CASE UNCHANGED vars
    BY <1>4 DEF vars, histories, IInv, QueueTypes, OneActivation
  <1> QED BY <1>1, <1>2, <1>3, <1>4 DEF Next

(* A node of the last stage holds the activations of at most one micro-batch  *)
(* and runs its backward pass before anything else (:287-302).                *)
THEOREM BackwardNext == Spec => BackwardFollows
  <1> DEFINE Follows ==
        \A n \in Nodes :
          isLast /\ lastRun[n].direction = "fwd" /\ lastRun'[n] # lastRun[n] =>
            lastRun'[n] = [direction |-> "bwd", mb |-> lastRun[n].mb]
  <1>1. IInv /\ Next => Follows
    <2> SUFFICES ASSUME IInv, Next, NEW n \in Nodes, isLast,
                        lastRun[n].direction = "fwd", lastRun'[n] # lastRun[n]
                 PROVE  lastRun'[n] = [direction |-> "bwd", mb |-> lastRun[n].mb]
      OBVIOUS
    <2>1. Tick
      BY DEF Next, EnqueueForward, EnqueueBackwardTo, EnqueueBackward, histories
    <2>2. bwdQueue[n] = <<lastRun[n].mb>>
      BY DEF IInv, OneActivation
    <2> QED BY <2>1, <2>2 DEF Tick, Event, RunsBackward
  <1>2. IInv /\ [Next]_vars => [Follows]_vars
    BY <1>1
  <1> QED BY <1>2, InitIInv, StepIInv, PTL DEF Spec, BackwardFollows
-----------------------------------------------------------------------------
(* Queues from which some nodes take their head and to which some append.    *)

(* No micro-batch is in two places.                                           *)
Distinct(queue) ==
  \A n, m \in Nodes : \A i \in 1..Len(queue[n]), j \in 1..Len(queue[m]) :
    queue[n][i] = queue[m][j] => n = m /\ i = j

LEMMA QueuedSomewhere ==
  ASSUME NEW queue \in [Nodes -> Seq(Nat)], NEW mb
  PROVE  Queued(queue, mb) <=> \E n \in Nodes : \E i \in 1..Len(queue[n]) : queue[n][i] = mb
  <1>1. \A n \in Nodes : DOMAIN queue[n] = 1..Len(queue[n])
    BY LenProperties
  <1> QED BY <1>1 DEF Queued, Range

LEMMA TakeHeads ==
  ASSUME NEW q \in [Nodes -> Seq(Nat)], Distinct(q),
         NEW D \in SUBSET Nodes, \A n \in D : q[n] # <<>>,
         NEW r \in [Nodes -> Seq(Nat)],
         \A n \in Nodes : r[n] = IF n \in D THEN Tail(q[n]) ELSE q[n]
  PROVE  /\ Distinct(r)
         /\ \A mb : Queued(r, mb) <=> Queued(q, mb) /\ ~(\E n \in D : Head(q[n]) = mb)
  <1> DEFINE shift == [n \in Nodes |-> IF n \in D THEN 1 ELSE 0]
  <1>1. \A n \in Nodes : Len(q[n]) \in Nat /\ q[n] \in Seq(Nat)
    BY LenProperties
  <1>2. ASSUME NEW n \in D
        PROVE  /\ Len(Tail(q[n])) = Len(q[n]) - 1 /\ Head(q[n]) = q[n][1] /\ Len(q[n]) >= 1
               /\ \A i \in 1..(Len(q[n]) - 1) : Tail(q[n])[i] = q[n][i + 1]
    <2>1. q[n] \in Seq(Nat) /\ q[n] # <<>>
      OBVIOUS
    <2> QED BY <2>1, HeadTailProperties
  <1>3. ASSUME NEW n \in Nodes
        PROVE  /\ Len(r[n]) = Len(q[n]) - shift[n]
               /\ \A i \in 1..Len(r[n]) : /\ i + shift[n] \in 1..Len(q[n])
                                          /\ r[n][i] = q[n][i + shift[n]]
    <2>1. CASE n \in D
      <3>1. shift[n] = 1 /\ r[n] = Tail(q[n])
        BY <2>1
      <3> HIDE DEF shift
      <3> QED BY <1>1, <1>2, <2>1, <3>1
    <2>2. CASE n \notin D
      <3>1. shift[n] = 0 /\ r[n] = q[n]
        BY <2>2
      <3>2. \A i \in 1..Len(q[n]) : i + 0 = i
        BY <1>1
      <3> HIDE DEF shift
      <3> QED BY <1>1, <3>1, <3>2
    <2> QED BY <2>1, <2>2
  <1>4. /\ \A n \in Nodes : shift[n] \in {0, 1}
        /\ \A n \in D : shift[n] = 1
    OBVIOUS
  <1>8. \A n \in Nodes : shift[n] = 1 => n \in D
    OBVIOUS
  <1> HIDE DEF shift
  <1>5. Distinct(r)
    <2> SUFFICES ASSUME NEW n \in Nodes, NEW m \in Nodes,
                        NEW i \in 1..Len(r[n]), NEW j \in 1..Len(r[m]), r[n][i] = r[m][j]
                 PROVE  n = m /\ i = j
      BY DEF Distinct
    <2>1. /\ i + shift[n] \in 1..Len(q[n]) /\ j + shift[m] \in 1..Len(q[m])
          /\ q[n][i + shift[n]] = q[m][j + shift[m]]
      BY <1>3
    <2>2. n = m /\ i + shift[n] = j + shift[m]
      BY <2>1 DEF Distinct
    <2>3. i \in Nat /\ j \in Nat
      BY <1>1, <1>3, <1>4
    <2>4. shift[n] \in {0, 1}
      BY <1>4
    <2>5. shift[m] = shift[n]
      BY <2>2
    <2>6. shift[n] \in Nat
      BY <2>4
    <2> QED BY <2>2, <2>3, <2>5, <2>6
  <1>6. ASSUME NEW mb, Queued(r, mb)
        PROVE  Queued(q, mb) /\ ~(\E n \in D : Head(q[n]) = mb)
    <2>0. PICK n \in Nodes : \E i \in 1..Len(r[n]) : r[n][i] = mb
      BY <1>6, QueuedSomewhere
    <2>1. PICK i \in 1..Len(r[n]) : r[n][i] = mb
      BY <2>0
    <2>2. i + shift[n] \in 1..Len(q[n]) /\ q[n][i + shift[n]] = mb
      BY <1>3, <2>1
    <2>3. ASSUME NEW m \in D, Head(q[m]) = mb PROVE FALSE
      <3>1. 1 \in 1..Len(q[m]) /\ q[m][1] = mb
        BY <1>1, <1>2, <2>3
      <3>2. n = m /\ i + shift[n] = 1
        BY <2>2, <3>1, SMTT(30) DEF Distinct
      <3>3. i \in Nat /\ i >= 1 /\ shift[n] = 1
        BY <1>1, <1>3, <1>4, <3>2
      <3> QED BY <3>2, <3>3
    <2> QED BY <2>2, <2>3, QueuedSomewhere
  <1>7. ASSUME NEW mb, Queued(q, mb), ~(\E n \in D : Head(q[n]) = mb)
        PROVE  Queued(r, mb)
    <2>0. PICK n \in Nodes : \E i \in 1..Len(q[n]) : q[n][i] = mb
      BY <1>7, QueuedSomewhere
    <2>1. PICK i \in 1..Len(q[n]) : q[n][i] = mb
      BY <2>0
    <2>2. shift[n] = 1 => i # 1
      BY <1>2, <1>7, <1>8, <2>1
    <2>3. i - shift[n] \in 1..Len(r[n])
      <3>1. shift[n] \in {0, 1} /\ Len(r[n]) = Len(q[n]) - shift[n] /\ Len(q[n]) \in Nat
        BY <1>1, <1>3, <1>4
      <3>2. i \in 1..Len(q[n])
        BY <2>1
      <3> QED BY <2>2, <3>1, <3>2, SMTT(30)
    <2>4. r[n][i - shift[n]] = mb
      <3>1. r[n][i - shift[n]] = q[n][(i - shift[n]) + shift[n]]
        BY <1>3, <2>3
      <3>2. (i - shift[n]) + shift[n] = i
        BY <1>1, <1>4, SMTT(30)
      <3> QED BY <2>1, <3>1, <3>2
    <2> QED BY <2>3, <2>4, QueuedSomewhere
  <1> QED BY <1>5, <1>6, <1>7

Appends(q, E, v, r) ==
  /\ q \in [Nodes -> Seq(Nat)] /\ Distinct(q)
  /\ E \in SUBSET Nodes /\ v \in [E -> Nat]
  /\ \A n, m \in E : v[n] = v[m] => n = m
  /\ \A n \in E : ~Queued(q, v[n])
  /\ r \in [Nodes -> Seq(Nat)]
  /\ \A n \in Nodes : r[n] = IF n \in E THEN Append(q[n], v[n]) ELSE q[n]

LEMMA AppendTo ==
  ASSUME NEW q, NEW E, NEW v, NEW r, Appends(q, E, v, r)
  PROVE  /\ Distinct(r)
         /\ \A mb : Queued(r, mb) <=> Queued(q, mb) \/ \E n \in E : v[n] = mb
  <1> USE DEF Appends
  <1>1. \A n \in Nodes : Len(q[n]) \in Nat /\ q[n] \in Seq(Nat)
    BY LenProperties
  <1>2. ASSUME NEW n \in E
        PROVE  /\ Len(r[n]) = Len(q[n]) + 1 /\ r[n][Len(q[n]) + 1] = v[n]
               /\ \A i \in 1..Len(q[n]) : r[n][i] = q[n][i]
    <2>1. q[n] \in Seq(Nat) /\ v[n] \in Nat /\ r[n] = Append(q[n], v[n])
      OBVIOUS
    <2> QED BY <2>1, AppendProperties
  <1>3. \A n \in Nodes \ E : r[n] = q[n]
    OBVIOUS
  <1>4. ASSUME NEW n \in Nodes, NEW i \in 1..Len(r[n])
        PROVE  \/ i \in 1..Len(q[n]) /\ r[n][i] = q[n][i]
               \/ n \in E /\ i = Len(q[n]) + 1 /\ r[n][i] = v[n]
    BY <1>1, <1>2, <1>3
  <1>5. \A n \in Nodes : \A i \in 1..Len(q[n]) : \A m \in E : q[n][i] # v[m]
    BY QueuedSomewhere
  <1>6. Distinct(r)
    <2> SUFFICES ASSUME NEW n \in Nodes, NEW m \in Nodes,
                        NEW i \in 1..Len(r[n]), NEW j \in 1..Len(r[m]), r[n][i] = r[m][j]
                 PROVE  n = m /\ i = j
      BY DEF Distinct
    <2>1. CASE i \in 1..Len(q[n]) /\ r[n][i] = q[n][i]
      <3>1. j \in 1..Len(q[m]) /\ r[m][j] = q[m][j]
        <4>1. m \in E => r[n][i] # v[m]
          BY <1>5, <2>1
        <4> QED BY <1>4, <4>1
      <3>2. q[n][i] = q[m][j] /\ i \in 1..Len(q[n]) /\ j \in 1..Len(q[m])
        BY <2>1, <3>1
      <3> QED BY <3>2 DEF Distinct
    <2>2. CASE n \in E /\ i = Len(q[n]) + 1 /\ r[n][i] = v[n]
      <3>1. m \in E /\ j = Len(q[m]) + 1 /\ r[m][j] = v[m]
        BY <1>4, <1>5, <2>2, SMTT(30)
      <3>2. n = m
        BY <2>2, <3>1
      <3> QED BY <2>2, <3>1, <3>2
    <2> QED BY <1>4, <2>1, <2>2
  <1>7. ASSUME NEW mb, Queued(r, mb)
        PROVE  Queued(q, mb) \/ \E n \in E : v[n] = mb
    <2>1. PICK n \in Nodes : \E i \in 1..Len(r[n]) : r[n][i] = mb
      BY <1>7, QueuedSomewhere
    <2>2. PICK i \in 1..Len(r[n]) : r[n][i] = mb
      BY <2>1
    <2>3. CASE i \in 1..Len(q[n]) /\ r[n][i] = q[n][i]
      BY <2>2, <2>3, QueuedSomewhere
    <2> QED BY <1>4, <2>2, <2>3
  <1>8. ASSUME NEW mb, Queued(q, mb) PROVE Queued(r, mb)
    <2>0. PICK n \in Nodes : \E i \in 1..Len(q[n]) : q[n][i] = mb
      BY <1>8, QueuedSomewhere
    <2>1. PICK i \in 1..Len(q[n]) : q[n][i] = mb
      BY <2>0
    <2>2. i \in 1..Len(r[n]) /\ r[n][i] = mb
      <3>1. CASE n \in E
        BY <1>1, <1>2, <2>1, <3>1
      <3>2. CASE n \notin E
        BY <1>3, <2>1, <3>2
      <3> QED BY <3>1, <3>2
    <2> QED BY <2>2, QueuedSomewhere
  <1>9. ASSUME NEW n \in E PROVE Queued(r, v[n])
    <2>1. Len(q[n]) + 1 \in 1..Len(r[n]) /\ r[n][Len(q[n]) + 1] = v[n]
      BY <1>1, <1>2
    <2> QED BY <2>1, QueuedSomewhere
  <1> QED BY <1>6, <1>7, <1>8, <1>9
-----------------------------------------------------------------------------
(* Every micro-batch passes once in each direction.                        *)

DeficitTypes ==
  fwdDeficit \in [Nodes -> Nat] /\ bwdDeficit \in [Nodes -> Nat]

PassesOnce ==
  /\ submitted <= MaxBatches
  /\ fwdAt \in [Batches -> Nodes \union {NoNode}]
  /\ bwdAt \in [Batches -> Nodes \union {NoNode}]
  /\ Distinct(fwdQueue) /\ Distinct(bwdQueue)
  /\ \A mb \in Nat : Queued(fwdQueue, mb) <=> mb < submitted /\ fwdAt[mb] = NoNode
  /\ \A mb \in Nat : Queued(bwdQueue, mb) =>
       mb \in Batches /\ fwdAt[mb] # NoNode /\ bwdAt[mb] = NoNode
  /\ \A mb \in Batches : /\ fwdAt[mb] = NoNode => bwdAt[mb] = NoNode
                         /\ mb >= submitted => fwdAt[mb] = NoNode
  /\ isLast => \A mb \in Batches :
       fwdAt[mb] # NoNode /\ bwdAt[mb] = NoNode => Queued(bwdQueue, mb)

FlowInv == QueueTypes /\ DeficitTypes /\ PassesOnce

LEMMA CapacityFacts ==
  /\ Capacity \in [Nodes -> Nat]
  /\ MaxBatches \in Nat /\ Batches \subseteq Nat
  /\ \A mb \in Nat : mb \in Batches <=> mb < MaxBatches
  BY StageAssumption, RoundRobinAssumption DEF Batches

LEMMA TargetIsNode ==
  ASSUME NEW picked \in Nodes \union {NoNode}, NEW mb \in Nat
  PROVE  Target(picked, mb) \in Nodes
  <1>1. mb % N \in 0..(N - 1)
    BY RoundRobinAssumption
  <1> QED BY <1>1, RoundRobinAssumption DEF Target, Nodes

LEMMA InitFlow == Init => FlowInv
  <1> SUFFICES ASSUME Init PROVE FlowInv
    OBVIOUS
  <1>1. QueueTypes
    BY InitIInv DEF IInv
  <1>2. \A n \in Nodes : fwdQueue[n] = <<>> /\ bwdQueue[n] = <<>>
    BY DEF Init
  <1>3. Distinct(fwdQueue) /\ Distinct(bwdQueue)
    BY <1>2 DEF Distinct
  <1>4. \A mb : ~Queued(fwdQueue, mb) /\ ~Queued(bwdQueue, mb)
    BY <1>1, <1>2, QueuedSomewhere DEF QueueTypes
  <1>5. PassesOnce
    <2>1. /\ submitted = 0 /\ submitted <= MaxBatches
          /\ fwdAt \in [Batches -> Nodes \union {NoNode}]
          /\ bwdAt \in [Batches -> Nodes \union {NoNode}]
          /\ \A mb \in Batches : fwdAt[mb] = NoNode /\ bwdAt[mb] = NoNode
      BY CapacityFacts DEF Init
    <2>2. \A mb \in Nat : ~(mb < submitted)
      BY <2>1
    <2> QED BY <1>3, <1>4, <2>1, <2>2 DEF PassesOnce
  <1>6. DeficitTypes
    BY DEF DeficitTypes, Init
  <1> QED BY <1>1, <1>5, <1>6 DEF FlowInv

Enqueues(q, n, mb, r) ==
  /\ q \in [Nodes -> Seq(Nat)] /\ Distinct(q) /\ n \in Nodes /\ mb \in Nat
  /\ ~Queued(q, mb) /\ r = [q EXCEPT ![n] = Enqueued(@, mb)]

LEMMA EnqueueOne ==
  ASSUME NEW q, NEW n, NEW mb, NEW r, Enqueues(q, n, mb, r)
  PROVE  /\ Distinct(r)
         /\ \A u : Queued(r, u) <=> Queued(q, u) \/ u = mb
  <1> DEFINE E == {n}
             v == [m \in E |-> mb]
  <1> USE DEF Enqueues
  <1>1. r \in [Nodes -> Seq(Nat)]
    BY Enqueuing
  <1>2. /\ v \in [E -> Nat] /\ E \in SUBSET Nodes
        /\ \A m \in E : v[m] = mb /\ m = n
    OBVIOUS
  <1>3. \A m \in Nodes : r[m] = IF m \in E THEN Append(q[m], v[m]) ELSE q[m]
    BY DEF Enqueued
  <1> HIDE DEF E, v
  <1>4. /\ Distinct(r)
        /\ \A u : Queued(r, u) <=> Queued(q, u) \/ \E m \in E : v[m] = u
    <2>1. \A m, k \in E : v[m] = v[k] => m = k
      BY <1>2
    <2>2. \A m \in E : ~Queued(q, v[m])
      BY <1>2
    <2>3. Appends(q, E, v, r)
      BY <1>1, <1>2, <1>3, <2>1, <2>2 DEF Appends
    <2> HIDE DEF Enqueues
    <2>4. \A u : Queued(r, u) <=> Queued(q, u) \/ \E k \in E : v[k] = u
      BY <2>3, AppendTo
    <2>5. Distinct(r)
      BY <2>3, AppendTo
    <2> QED BY <2>4, <2>5
  <1>5. \A u : (\E m \in E : v[m] = u) <=> u = mb
    BY DEF E, v
  <1> QED BY <1>4, <1>5

LEMMA ForwardFlow ==
  ASSUME FlowInv, EnqueueForward
  PROVE  PassesOnce' /\ DeficitTypes'
  <1> DEFINE p == Pick(fwdDeficit, Capacity)
             n == Target(p, submitted)
  <1>1. fwdDeficit \in [Nodes -> Nat] /\ submitted \in Nat /\ fwdQueue \in [Nodes -> Seq(Nat)]
    BY DEF FlowInv, QueueTypes, DeficitTypes
  <1>2. AfterPick(fwdDeficit, Capacity) \in [Nodes -> Nat] /\ p \in Nodes \union {NoNode}
    BY <1>1, CapacityFacts, PickTypes
  <1>3. n \in Nodes
    <2> HIDE DEF p
    <2> QED BY <1>1, <1>2, TargetIsNode
  <1>4. fwdQueue' = [fwdQueue EXCEPT ![n] = Enqueued(@, submitted)]
    BY DEF EnqueueForward
  <1>5. /\ submitted' = submitted + 1 /\ submitted < MaxBatches
        /\ isLast' = isLast /\ bwdQueue' = bwdQueue /\ fwdAt' = fwdAt /\ bwdAt' = bwdAt
    BY DEF EnqueueForward
  <1>6. DeficitTypes'
    BY <1>2 DEF EnqueueForward, DeficitTypes, FlowInv
  <1> HIDE DEF n, p
  <1>7. Distinct(fwdQueue) /\ ~Queued(fwdQueue, submitted) /\ submitted \in Batches
    BY <1>1, <1>5, CapacityFacts DEF FlowInv, PassesOnce
  <1>8. /\ Distinct(fwdQueue')
        /\ \A u : Queued(fwdQueue', u) <=> Queued(fwdQueue, u) \/ u = submitted
    <2>1. Enqueues(fwdQueue, n, submitted, fwdQueue')
      BY <1>1, <1>3, <1>4, <1>7 DEF Enqueues
    <2> QED BY <2>1, EnqueueOne, Zenon
  <1>9. \A mb \in Nat : Queued(fwdQueue', mb) <=> mb < submitted + 1 /\ fwdAt[mb] = NoNode
    <2>1. fwdAt[submitted] = NoNode
      BY <1>1, <1>7 DEF FlowInv, PassesOnce
    <2> QED BY <1>1, <1>8, <2>1 DEF FlowInv, PassesOnce
  <1>10. \A mb \in Batches : mb >= submitted + 1 => mb >= submitted
    BY <1>1, CapacityFacts
  <1>11. submitted + 1 <= MaxBatches
    BY <1>1, <1>5, CapacityFacts
  <1> QED BY <1>5, <1>6, <1>8, <1>9, <1>10, <1>11 DEF FlowInv, PassesOnce

LEMMA BackwardFlow ==
  ASSUME FlowInv, NEW mb \in Batches, EnqueueBackwardTo(mb) \/ EnqueueBackward(mb)
  PROVE  PassesOnce' /\ DeficitTypes'
  <1>1. /\ fwdDeficit \in [Nodes -> Nat] /\ bwdDeficit \in [Nodes -> Nat]
        /\ mb \in Nat /\ bwdQueue \in [Nodes -> Seq(Nat)]
    BY CapacityFacts DEF FlowInv, QueueTypes, DeficitTypes
  <1>2. /\ AfterPick(bwdDeficit, Capacity) \in [Nodes -> Nat]
        /\ Pick(bwdDeficit, Capacity) \in Nodes \union {NoNode}
    BY <1>1, CapacityFacts, PickTypes
  <1>3. Target(Pick(bwdDeficit, Capacity), mb) \in Nodes
    BY <1>1, <1>2, TargetIsNode
  <1>4. ~isLast /\ fwdAt[mb] # NoNode /\ bwdAt[mb] = NoNode /\ ~Queued(bwdQueue, mb)
    BY DEF EnqueueBackwardTo, EnqueueBackward, Returns
  <1>5. fwdAt[mb] \in Nodes
    BY <1>4 DEF FlowInv, PassesOnce
  <1>6. PICK n \in Nodes : bwdQueue' = [bwdQueue EXCEPT ![n] = Enqueued(@, mb)]
    BY <1>3, <1>5, Zenon DEF EnqueueBackwardTo, EnqueueBackward
  <1>7. /\ submitted' = submitted /\ isLast' = isLast /\ fwdQueue' = fwdQueue
        /\ fwdAt' = fwdAt /\ bwdAt' = bwdAt /\ fwdDeficit' = fwdDeficit
        /\ bwdDeficit' \in {bwdDeficit, AfterPick(bwdDeficit, Capacity)}
    BY DEF EnqueueBackwardTo, EnqueueBackward, histories
  <1>8. Distinct(bwdQueue)
    BY DEF FlowInv, PassesOnce
  <1>9. /\ Distinct(bwdQueue')
        /\ \A u : Queued(bwdQueue', u) <=> Queued(bwdQueue, u) \/ u = mb
    <2>1. Enqueues(bwdQueue, n, mb, bwdQueue')
      BY <1>1, <1>4, <1>6, <1>8 DEF Enqueues
    <2> QED BY <2>1, EnqueueOne, Zenon
  <1>10. DeficitTypes'
    BY <1>1, <1>2, <1>7 DEF DeficitTypes
  <1> QED BY <1>4, <1>7, <1>9, <1>10 DEF FlowInv, PassesOnce

LEMMA TickFlow ==
  ASSUME FlowInv, QueueTypes', Tick
  PROVE  PassesOnce' /\ DeficitTypes'
  <1> DEFINE F == {n \in Nodes : RunsForward(n)}
             B == {n \in Nodes : RunsBackward(n)}
             E == IF isLast THEN F ELSE {}
             v == [n \in E |-> Head(fwdQueue[n])]
             rest == [n \in Nodes |-> IF n \in B THEN Tail(bwdQueue[n]) ELSE bwdQueue[n]]
  <1>1. /\ fwdQueue \in [Nodes -> Seq(Nat)] /\ bwdQueue \in [Nodes -> Seq(Nat)]
        /\ fwdQueue' \in [Nodes -> Seq(Nat)] /\ bwdQueue' \in [Nodes -> Seq(Nat)]
        /\ submitted \in Nat /\ Distinct(fwdQueue) /\ Distinct(bwdQueue)
    BY DEF FlowInv, QueueTypes, PassesOnce
  <1>2. /\ F \in SUBSET Nodes /\ B \in SUBSET Nodes /\ E \in SUBSET Nodes /\ F \cap B = {}
        /\ \A n \in F : fwdQueue[n] # <<>>
        /\ \A n \in B : bwdQueue[n] # <<>>
    BY DEF RunsForward, RunsBackward
  <1>3. \A n \in F : Head(fwdQueue[n]) \in Nat /\ 1 \in 1..Len(fwdQueue[n])
                    /\ Head(fwdQueue[n]) = fwdQueue[n][1]
    <2> SUFFICES ASSUME NEW n \in F
                 PROVE  /\ Head(fwdQueue[n]) \in Nat /\ 1 \in 1..Len(fwdQueue[n])
                        /\ Head(fwdQueue[n]) = fwdQueue[n][1]
      OBVIOUS
    <2>1. fwdQueue[n] \in Seq(Nat) /\ fwdQueue[n] # <<>>
      BY <1>1, <1>2
    <2> QED BY <2>1
  <1>4. \A n \in F : Queued(fwdQueue, Head(fwdQueue[n]))
    BY <1>1, <1>2, <1>3, QueuedSomewhere, ZenonT(30)
  \* The forward queues.
  <1>5. \A n \in Nodes : fwdQueue'[n] = IF n \in F THEN Tail(fwdQueue[n]) ELSE fwdQueue[n]
    BY DEF Tick, FwdAfter
  <1> HIDE DEF F
  <1>6. /\ Distinct(fwdQueue')
        /\ \A mb : Queued(fwdQueue', mb) <=>
             Queued(fwdQueue, mb) /\ ~(\E n \in F : Head(fwdQueue[n]) = mb)
    BY <1>1, <1>2, <1>5, TakeHeads
  \* The backward queues.
  <1>7. /\ rest \in [Nodes -> Seq(Nat)]
        /\ \A n \in Nodes : rest[n] = IF n \in B THEN Tail(bwdQueue[n]) ELSE bwdQueue[n]
    BY <1>1, <1>2, QueueEnds
  <1>8. /\ v \in [E -> Nat] /\ E \subseteq F
        /\ \A n \in E : v[n] = Head(fwdQueue[n])
    BY <1>3
  <1>9. \A n \in Nodes : bwdQueue'[n] = IF n \in E THEN Append(rest[n], v[n]) ELSE rest[n]
    BY DEF Tick, BwdAfter, Enqueued, RunsForward, F
  <1>a. (isLast => E = F) /\ (~isLast => E = {})
    OBVIOUS
  <1> HIDE DEF E, v, rest, B
  <1>10. /\ Distinct(rest)
         /\ \A mb : Queued(rest, mb) <=>
              Queued(bwdQueue, mb) /\ ~(\E n \in B : Head(bwdQueue[n]) = mb)
    BY <1>1, <1>2, <1>7, TakeHeads
  <1>11. ASSUME NEW n \in E, NEW m \in E, v[n] = v[m]
         PROVE  n = m
    <2>1. n \in Nodes /\ m \in Nodes /\ fwdQueue[n][1] = fwdQueue[m][1]
      BY <1>2, <1>3, <1>8, <1>11
    <2>2. 1 \in 1..Len(fwdQueue[n]) /\ 1 \in 1..Len(fwdQueue[m])
      BY <1>3, <1>8
    <2> QED BY <1>1, <2>1, <2>2 DEF Distinct
  <1>12. \A n \in E : ~Queued(rest, v[n])
    BY <1>3, <1>4, <1>8, <1>10 DEF FlowInv, PassesOnce
  <1>13. /\ Distinct(bwdQueue')
         /\ \A mb : Queued(bwdQueue', mb) <=> Queued(rest, mb) \/ \E n \in E : v[n] = mb
    <2>1. Appends(rest, E, v, bwdQueue')
      BY <1>1, <1>2, <1>7, <1>8, <1>9, <1>10, <1>11, <1>12 DEF Appends
    <2> QED BY <2>1, AppendTo
  \* Where the micro-batches ran.
  <1>14. \A mb \in Batches :
           /\ (\E n \in F : Head(fwdQueue[n]) = mb) => fwdAt'[mb] \in Nodes
           /\ ~(\E n \in F : Head(fwdQueue[n]) = mb) => fwdAt'[mb] = fwdAt[mb]
    BY DEF Tick, F
  <1>15. \A mb \in Batches :
           /\ (\E n \in B : Head(bwdQueue[n]) = mb) => bwdAt'[mb] \in Nodes
           /\ ~(\E n \in B : Head(bwdQueue[n]) = mb) => bwdAt'[mb] = bwdAt[mb]
    BY DEF Tick, B
  <1>16. fwdAt' = [mb \in Batches |-> fwdAt'[mb]] /\ bwdAt' = [mb \in Batches |-> bwdAt'[mb]]
    BY DEF Tick
  <1>17. /\ submitted' = submitted /\ isLast' = isLast
         /\ fwdDeficit' = fwdDeficit /\ bwdDeficit' = bwdDeficit
    BY DEF Tick
  <1>18. DeficitTypes'
    BY <1>17 DEF DeficitTypes, FlowInv
  <1>19. \A n \in B : Head(bwdQueue[n]) \in Nat /\ Queued(bwdQueue, Head(bwdQueue[n]))
    <2> SUFFICES ASSUME NEW n \in B
                 PROVE  Head(bwdQueue[n]) \in Nat /\ Queued(bwdQueue, Head(bwdQueue[n]))
      OBVIOUS
    <2>1. bwdQueue[n] \in Seq(Nat) /\ bwdQueue[n] # <<>> /\ n \in Nodes
      BY <1>1, <1>2
    <2>2. Head(bwdQueue[n]) \in Nat /\ 1 \in 1..Len(bwdQueue[n])
          /\ Head(bwdQueue[n]) = bwdQueue[n][1]
      BY <2>1
    <2> QED BY <1>1, <2>1, <2>2, QueuedSomewhere
  <1>20. fwdAt' \in [Batches -> Nodes \union {NoNode}] /\ bwdAt' \in [Batches -> Nodes \union {NoNode}]
    BY <1>14, <1>15, <1>16 DEF FlowInv, PassesOnce
  <1>21. \A mb \in Nat : Queued(fwdQueue', mb) <=> mb < submitted /\ fwdAt'[mb] = NoNode
    <2> SUFFICES ASSUME NEW mb \in Nat
                 PROVE  Queued(fwdQueue', mb) <=> mb < submitted /\ fwdAt'[mb] = NoNode
      OBVIOUS
    <2>1. Queued(fwdQueue, mb) <=> mb < submitted /\ fwdAt[mb] = NoNode
      BY DEF FlowInv, PassesOnce
    <2>2. mb < submitted => mb \in Batches
      BY <1>1, CapacityFacts DEF FlowInv, PassesOnce
    <2>3. CASE \E n \in F : Head(fwdQueue[n]) = mb
      <3>1. mb < submitted
        BY <1>4, <2>1, <2>3
      <3>2. fwdAt'[mb] # NoNode
        BY <1>14, <2>2, <2>3, <3>1, NodesFacts
      <3> QED BY <1>6, <2>3, <3>2
    <2>4. CASE ~(\E n \in F : Head(fwdQueue[n]) = mb)
      BY <1>6, <1>14, <2>1, <2>2, <2>4
    <2> QED BY <2>3, <2>4
  <1>22. ASSUME NEW mb \in Nat, Queued(bwdQueue', mb)
         PROVE  mb \in Batches /\ fwdAt'[mb] # NoNode /\ bwdAt'[mb] = NoNode
    <2>1. CASE Queued(rest, mb)
      <3>1. Queued(bwdQueue, mb) /\ ~(\E n \in B : Head(bwdQueue[n]) = mb)
        BY <1>10, <2>1
      <3>2. mb \in Batches /\ fwdAt[mb] # NoNode /\ bwdAt[mb] = NoNode
        BY <3>1 DEF FlowInv, PassesOnce
      <3> QED BY <1>14, <1>15, <3>1, <3>2, NodesFacts
    <2>2. CASE \E n \in E : v[n] = mb
      <3>1. PICK n \in F : Head(fwdQueue[n]) = mb
        BY <1>8, <2>2
      <3>2. Queued(fwdQueue, mb)
        BY <1>4, <3>1
      <3>3. mb < submitted /\ fwdAt[mb] = NoNode
        BY <3>2 DEF FlowInv, PassesOnce
      <3>4. mb \in Batches
        BY <1>1, <3>3, CapacityFacts DEF FlowInv, PassesOnce
      <3>5. bwdAt[mb] = NoNode
        BY <3>3, <3>4 DEF FlowInv, PassesOnce
      <3>6. ~(\E m \in B : Head(bwdQueue[m]) = mb)
        BY <1>19, <3>3 DEF FlowInv, PassesOnce
      <3> QED BY <1>14, <1>15, <3>1, <3>4, <3>5, <3>6, NodesFacts
    <2> QED BY <1>13, <1>22, <2>1, <2>2
  <1>23. ASSUME NEW mb \in Batches
         PROVE  /\ fwdAt'[mb] = NoNode => bwdAt'[mb] = NoNode
                /\ mb >= submitted => fwdAt'[mb] = NoNode
    <2>0. /\ mb \in Nat
          /\ fwdAt[mb] = NoNode => bwdAt[mb] = NoNode
          /\ mb >= submitted => fwdAt[mb] = NoNode
      BY CapacityFacts DEF FlowInv, PassesOnce
    <2>1. fwdAt'[mb] = NoNode => fwdAt[mb] = NoNode
      BY <1>14, NodesFacts
    <2>2. fwdAt[mb] = NoNode => ~(\E n \in B : Head(bwdQueue[n]) = mb)
      BY <1>19, <2>0 DEF FlowInv, PassesOnce
    <2>3. mb >= submitted => ~(\E n \in F : Head(fwdQueue[n]) = mb)
      BY <1>1, <1>4, <2>0 DEF FlowInv, PassesOnce
    <2> QED BY <1>14, <1>15, <2>0, <2>1, <2>2, <2>3
  <1>24. ASSUME isLast, NEW mb \in Batches, fwdAt'[mb] # NoNode, bwdAt'[mb] = NoNode
         PROVE  Queued(bwdQueue', mb)
    <2>1. ~(\E n \in B : Head(bwdQueue[n]) = mb)
      BY <1>15, <1>24, NodesFacts
    <2>2. CASE \E n \in F : Head(fwdQueue[n]) = mb
      <3>1. \E n \in E : v[n] = mb
        BY <1>8, <1>a, <1>24, <2>2
      <3> QED BY <1>13, <3>1
    <2>3. CASE ~(\E n \in F : Head(fwdQueue[n]) = mb)
      <3>1. fwdAt[mb] # NoNode /\ bwdAt[mb] = NoNode
        BY <1>14, <1>15, <1>24, <2>1, <2>3
      <3>2. Queued(bwdQueue, mb)
        BY <1>24, <3>1 DEF FlowInv, PassesOnce
      <3> QED BY <1>10, <1>13, <2>1, <3>2
    <2> QED BY <2>2, <2>3
  <1>25. submitted <= MaxBatches
    BY DEF FlowInv, PassesOnce
  <1> QED BY <1>6, <1>13, <1>17, <1>18, <1>20, <1>21, <1>22, <1>23, <1>24, <1>25 DEF PassesOnce

LEMMA StepFlow == IInv /\ FlowInv /\ [Next]_vars => FlowInv'
  <1> SUFFICES ASSUME IInv, FlowInv, [Next]_vars PROVE FlowInv'
    OBVIOUS
  <1>1. QueueTypes'
    BY StepIInv DEF IInv
  <1>2. CASE EnqueueForward
    BY <1>1, <1>2, ForwardFlow DEF FlowInv
  <1>3. ASSUME NEW mb \in Batches, EnqueueBackwardTo(mb) \/ EnqueueBackward(mb)
        PROVE  FlowInv'
    BY <1>1, <1>3, BackwardFlow DEF FlowInv
  <1>4. CASE Tick
    BY <1>1, <1>4, TickFlow DEF FlowInv
  <1>5. CASE UNCHANGED vars
    <2>1. /\ fwdDeficit' = fwdDeficit /\ bwdDeficit' = bwdDeficit /\ submitted' = submitted
          /\ fwdAt' = fwdAt /\ bwdAt' = bwdAt /\ fwdQueue' = fwdQueue
          /\ bwdQueue' = bwdQueue /\ isLast' = isLast
      BY <1>5 DEF vars, histories
    <2> QED BY <1>1, <2>1 DEF FlowInv, DeficitTypes, PassesOnce
  <1> QED BY <1>2, <1>3, <1>4, <1>5 DEF Next

LEMMA SlotsAreCounted ==
  ASSUME NEW queue \in [Nodes -> Seq(Nat)], Distinct(queue), NEW mb \in Nat
  PROVE  Cardinality(Slots(queue, mb)) = IF Queued(queue, mb) THEN 1 ELSE 0
  <1> DEFINE S == Slots(queue, mb)
  <1>1. \A n \in Nodes : DOMAIN queue[n] = 1..Len(queue[n])
    BY LenProperties
  <1>2. \A slot : slot \in S <=>
          \E n \in Nodes : \E i \in 1..Len(queue[n]) : slot = <<n, i>> /\ queue[n][i] = mb
    <2>1. ASSUME NEW slot \in S
          PROVE  \E n \in Nodes : \E i \in 1..Len(queue[n]) :
                   slot = <<n, i>> /\ queue[n][i] = mb
      <3>1. PICK n \in Nodes : slot \in {n} \X DOMAIN queue[n]
        BY DEF Slots
      <3>2. slot[1] = n /\ slot[2] \in 1..Len(queue[n]) /\ slot = <<slot[1], slot[2]>>
        BY <1>1, <3>1
      <3>3. queue[slot[1]][slot[2]] = mb
        BY DEF Slots
      <3> QED BY <3>2, <3>3
    <2>2. ASSUME NEW n \in Nodes, NEW i \in 1..Len(queue[n]), queue[n][i] = mb
          PROVE  <<n, i>> \in S
      <3>1. <<n, i>> \in {n} \X DOMAIN queue[n]
        BY <1>1
      <3> QED BY <2>2, <3>1 DEF Slots
    <2> QED BY <2>1, <2>2
  <1> HIDE DEF S
  <1>3. CASE Queued(queue, mb)
    <2>1. PICK n \in Nodes : \E i \in 1..Len(queue[n]) : queue[n][i] = mb
      BY <1>3, QueuedSomewhere
    <2>2. PICK i \in 1..Len(queue[n]) : queue[n][i] = mb
      BY <2>1
    <2>3. S = {<<n, i>>}
      <3>1. <<n, i>> \in S
        BY <1>2, <2>2
      <3>2. ASSUME NEW slot \in S PROVE slot = <<n, i>>
        BY <1>2, <2>2 DEF Distinct
      <3> QED BY <3>1, <3>2
    <2> QED BY <1>3, <2>3, FS_Singleton DEF S
  <1>4. CASE ~Queued(queue, mb)
    <2>1. S = {}
      BY <1>2, <1>4, QueuedSomewhere
    <2> QED BY <1>4, <2>1, FS_EmptySet DEF S
  <1> QED BY <1>3, <1>4

LEMMA Flow == Spec => [](IInv /\ FlowInv)
  BY InitIInv, InitFlow, StepIInv, StepFlow, PTL DEF Spec

(* No micro-batch is lost, queued twice or run twice in a direction, for      *)
(* every number of nodes and of micro-batches (:271-302).                     *)
THEOREM PassesHappenOnce == Spec => []NothingLostOrRepeated
  <1>1. FlowInv => NothingLostOrRepeated
    <2> SUFFICES ASSUME FlowInv, NEW mb \in 0..(submitted - 1)
                 PROVE  LET fwd == Cardinality(Slots(fwdQueue, mb))
                            bwd == Cardinality(Slots(bwdQueue, mb))
                        IN  \/ fwdAt[mb] = NoNode /\ bwdAt[mb] = NoNode /\ fwd = 1 /\ bwd = 0
                            \/ fwdAt[mb] # NoNode /\ bwdAt[mb] = NoNode /\ fwd = 0
                               /\ IF isLast THEN bwd = 1 ELSE bwd <= 1
                            \/ fwdAt[mb] # NoNode /\ bwdAt[mb] # NoNode /\ fwd = 0 /\ bwd = 0
      BY DEF NothingLostOrRepeated
    <2>1. /\ fwdQueue \in [Nodes -> Seq(Nat)] /\ Distinct(fwdQueue)
          /\ bwdQueue \in [Nodes -> Seq(Nat)] /\ Distinct(bwdQueue)
          /\ submitted \in Nat
      BY DEF FlowInv, QueueTypes, PassesOnce
    <2>2. mb \in Nat /\ mb < submitted /\ mb \in Batches
      BY <2>1, CapacityFacts DEF FlowInv, PassesOnce
    <2>3. /\ Cardinality(Slots(fwdQueue, mb)) = IF Queued(fwdQueue, mb) THEN 1 ELSE 0
          /\ Cardinality(Slots(bwdQueue, mb)) = IF Queued(bwdQueue, mb) THEN 1 ELSE 0
      BY <2>1, <2>2, SlotsAreCounted
    <2>4. /\ Queued(fwdQueue, mb) <=> fwdAt[mb] = NoNode
          /\ Queued(bwdQueue, mb) => fwdAt[mb] # NoNode /\ bwdAt[mb] = NoNode
          /\ fwdAt[mb] = NoNode => bwdAt[mb] = NoNode
          /\ isLast /\ fwdAt[mb] # NoNode /\ bwdAt[mb] = NoNode => Queued(bwdQueue, mb)
      BY <2>2 DEF FlowInv, PassesOnce
    <2> QED BY <2>3, <2>4
  <1> QED BY <1>1, Flow, PTL
-----------------------------------------------------------------------------
(* The forward shares.                                                       *)

\* The fallbacks of each node are what its deficit was never charged for.
Uncharged(fallbacks) ==
  /\ \A n \in Nodes :
       submitted * Capacity[n] + fallbacks[n] * Unit = dispatched[n] * Unit + fwdDeficit[n]
  /\ SumFunctionOnSet(fwdDeficit, Nodes) = SumFunctionOnSet(fallbacks, Nodes) * Unit
  /\ SumFunctionOnSet(fwdDeficit, Nodes) <= N * (Unit - 1)

ShareInv ==
  /\ submitted \in Nat /\ fwdDeficit \in [Nodes -> Nat] /\ dispatched \in [Nodes -> Nat]
  /\ \E fallbacks \in [Nodes -> Nat] : Uncharged(fallbacks)

LEMMA InitShare == Init => ShareInv
  <1> SUFFICES ASSUME Init PROVE ShareInv
    OBVIOUS
  <1> DEFINE zero == [n \in Nodes |-> 0]
  <1>0. Unit \in Nat \ {0} /\ N \in Nat \ {0}
    BY RoundRobinAssumption
  <1>1. zero \in [Nodes -> Nat] /\ \A n \in Nodes : zero[n] = 0
    OBVIOUS
  <1>2. submitted = 0 /\ fwdDeficit = zero /\ dispatched = zero
    BY DEF Init
  <1>3. \A n \in Nodes : Capacity[n] \in Nat
    BY CapacityFacts
  <1> HIDE DEF zero
  <1>4. SumFunctionOnSet(zero, Nodes) = 0 * Cardinality(Nodes)
    <2>1. IsFiniteSet(Nodes)
      BY NodesFacts
    <2>2. 0 \in Int
      OBVIOUS
    <2> QED BY <1>1, <2>1, <2>2, SumConstant
  <1>5. SumFunctionOnSet(zero, Nodes) = 0
    BY <1>0, <1>4, NodesFacts
  <1>6. 0 <= N * (Unit - 1)
    BY <1>0
  <1>7. Uncharged(zero)
    <2>1. \A n \in Nodes : 0 * Capacity[n] + 0 * Unit = 0 * Unit + 0
      BY <1>0, <1>3
    <2>2. SumFunctionOnSet(zero, Nodes) = SumFunctionOnSet(zero, Nodes) * Unit
      BY <1>0, <1>5
    <2>3. SumFunctionOnSet(zero, Nodes) <= N * (Unit - 1)
      BY <1>5, <1>6
    <2>4. \A n \in Nodes :
            submitted * Capacity[n] + zero[n] * Unit = dispatched[n] * Unit + fwdDeficit[n]
      BY <1>1, <1>2, <2>1
    <2> QED BY <1>2, <2>2, <2>3, <2>4 DEF Uncharged
  <1> QED BY <1>1, <1>2, <1>7 DEF ShareInv

LEMMA ForwardShare ==
  ASSUME ExactShares, ShareInv, EnqueueForward
  PROVE  ShareInv'
  <1> DEFINE p == Pick(fwdDeficit, Capacity)
             t == Target(p, submitted)
  <1>0. Unit \in Nat \ {0} /\ N \in Nat \ {0}
    BY RoundRobinAssumption
  <1>1. submitted \in Nat /\ fwdDeficit \in [Nodes -> Nat] /\ dispatched \in [Nodes -> Nat]
    BY DEF ShareInv
  <1>2. PICK fallbacks \in [Nodes -> Nat] : Uncharged(fallbacks)
    BY DEF ShareInv
  <1>3. /\ fwdDeficit' \in [Nodes -> Nat] /\ p \in Nodes \union {NoNode}
        /\ \A n \in Nodes :
             fwdDeficit'[n] = fwdDeficit[n] + Capacity[n] - (IF n = p THEN Unit ELSE 0)
        /\ p \in Nodes => SumFunction(fwdDeficit') = SumFunction(fwdDeficit)
        /\ p = NoNode => /\ SumFunction(fwdDeficit') = SumFunction(fwdDeficit) + Unit
                         /\ SumFunction(fwdDeficit') <= N * (Unit - 1)
    <2>1. fwdDeficit' = AfterPick(fwdDeficit, Capacity)
      BY DEF EnqueueForward
    <2> QED BY <1>1, <2>1, CapacityFacts, PickFacts DEF ExactShares
  <1>4. SumFunction(fwdDeficit) = SumFunctionOnSet(fwdDeficit, Nodes)
        /\ SumFunction(fwdDeficit') = SumFunctionOnSet(fwdDeficit', Nodes)
    BY <1>1, <1>3 DEF SumFunction
  <1>5. t \in Nodes /\ (p \in Nodes => t = p)
    <2>1. t \in Nodes
      <3> HIDE DEF p
      <3> QED BY <1>1, <1>3, TargetIsNode
    <2>2. p \in Nodes => t = p
      BY NodesFacts DEF Target
    <2> QED BY <2>1, <2>2
  <1>6. submitted' = submitted + 1 /\ dispatched' = [dispatched EXCEPT ![t] = @ + 1]
    BY DEF EnqueueForward
  <1> HIDE DEF p, t
  <1>7. /\ dispatched' \in [Nodes -> Nat]
        /\ \A n \in Nodes : dispatched'[n] = dispatched[n] + (IF n = t THEN 1 ELSE 0)
    BY <1>1, <1>5, <1>6
  <1>8. \A n \in Nodes : /\ Capacity[n] \in Nat /\ fallbacks[n] \in Nat
                         /\ dispatched[n] \in Nat /\ fwdDeficit[n] \in Nat
    BY <1>1, CapacityFacts
  <1>9. \A n \in Nodes :
          submitted * Capacity[n] + fallbacks[n] * Unit = dispatched[n] * Unit + fwdDeficit[n]
    BY <1>2 DEF Uncharged
  <1>10. /\ \A n \in Nodes : submitted' * Capacity[n] = submitted * Capacity[n] + Capacity[n]
         /\ \A n \in Nodes : submitted * Capacity[n] \in Nat /\ fallbacks[n] * Unit \in Nat
                             /\ dispatched[n] * Unit \in Nat
         /\ \A n \in Nodes : (dispatched[n] + 1) * Unit = dispatched[n] * Unit + Unit
         /\ \A n \in Nodes : (fallbacks[n] + 1) * Unit = fallbacks[n] * Unit + Unit
    BY <1>0, <1>1, <1>6, <1>8
  <1>11. CASE p \in Nodes
    <2>1. ASSUME NEW n \in Nodes
          PROVE  submitted' * Capacity[n] + fallbacks[n] * Unit
                   = dispatched'[n] * Unit + fwdDeficit'[n]
      <3>0. /\ submitted * Capacity[n] \in Nat /\ fallbacks[n] * Unit \in Nat
            /\ dispatched[n] * Unit \in Nat /\ Capacity[n] \in Nat /\ fwdDeficit[n] \in Nat
            /\ submitted' * Capacity[n] = submitted * Capacity[n] + Capacity[n]
            /\ submitted * Capacity[n] + fallbacks[n] * Unit
                 = dispatched[n] * Unit + fwdDeficit[n]
        BY <1>8, <1>9, <1>10
      <3>1. CASE n = p
        <4>1. dispatched'[n] * Unit = dispatched[n] * Unit + Unit
          BY <1>5, <1>7, <1>10, <1>11, <3>1
        <4>2. fwdDeficit'[n] = fwdDeficit[n] + Capacity[n] - Unit
          BY <1>3, <3>1
        <4> DEFINE u == submitted * Capacity[n]
                   y == dispatched[n] * Unit
                   z == fallbacks[n] * Unit
        <4>3. /\ u \in Nat /\ y \in Nat /\ z \in Nat /\ u + z = y + fwdDeficit[n]
              /\ Capacity[n] \in Nat /\ fwdDeficit[n] \in Nat
          BY <3>0
        <4>4. submitted' * Capacity[n] = u + Capacity[n] /\ fallbacks[n] * Unit = z
          BY <3>0
        <4>5. dispatched'[n] * Unit = y + Unit
          BY <4>1
        <4> HIDE DEF u, y, z
        <4>6. (u + Capacity[n]) + z = (y + Unit) + (fwdDeficit[n] + Capacity[n] - Unit)
          BY <1>0, <4>3
        <4> QED BY <4>2, <4>4, <4>5, <4>6
      <3>2. CASE n # p
        <4>1. dispatched'[n] = dispatched[n]
          BY <1>5, <1>7, <1>8, <1>11, <3>2
        <4>2. fwdDeficit'[n] = fwdDeficit[n] + Capacity[n]
          BY <1>3, <1>8, <3>2
        <4> QED BY <3>0, <4>1, <4>2
      <3> QED BY <3>1, <3>2
    <2>2. Uncharged(fallbacks)'
      BY <1>2, <1>3, <1>4, <1>11, <2>1 DEF Uncharged
    <2> QED BY <1>1, <1>3, <1>6, <1>7, <2>2 DEF ShareInv
  <1>12. CASE p = NoNode
    <2>1. PICK charged \in [Nodes -> Nat] :
            \A n \in Nodes : charged[n] = IF n = t THEN fallbacks[n] + 1 ELSE fallbacks[n]
      <3> DEFINE more == [n \in Nodes |-> IF n = t THEN fallbacks[n] + 1 ELSE fallbacks[n]]
      <3>1. more \in [Nodes -> Nat]
        BY <1>8
      <3>2. \A n \in Nodes : more[n] = IF n = t THEN fallbacks[n] + 1 ELSE fallbacks[n]
        OBVIOUS
      <3> HIDE DEF more
      <3> QED BY <3>1, <3>2
    <2>2. ASSUME NEW n \in Nodes
          PROVE  submitted' * Capacity[n] + charged[n] * Unit
                   = dispatched'[n] * Unit + fwdDeficit'[n]
      <3>0. /\ submitted * Capacity[n] \in Nat /\ fallbacks[n] * Unit \in Nat
            /\ dispatched[n] * Unit \in Nat /\ Capacity[n] \in Nat /\ fwdDeficit[n] \in Nat
            /\ submitted' * Capacity[n] = submitted * Capacity[n] + Capacity[n]
            /\ submitted * Capacity[n] + fallbacks[n] * Unit
                 = dispatched[n] * Unit + fwdDeficit[n]
        BY <1>8, <1>9, <1>10
      <3>1. fwdDeficit'[n] = fwdDeficit[n] + Capacity[n]
        BY <1>3, <1>8, <1>12, NodesFacts
      <3>2. CASE n = t
        <4>1. dispatched'[n] * Unit = dispatched[n] * Unit + Unit
          BY <1>7, <1>10, <3>2
        <4>2. charged[n] * Unit = fallbacks[n] * Unit + Unit
          BY <1>10, <2>1, <3>2
        <4> DEFINE u == submitted * Capacity[n]
                   y == dispatched[n] * Unit
                   z == fallbacks[n] * Unit
        <4>3. /\ u \in Nat /\ y \in Nat /\ z \in Nat /\ u + z = y + fwdDeficit[n]
              /\ Capacity[n] \in Nat /\ fwdDeficit[n] \in Nat
          BY <3>0
        <4>4. submitted' * Capacity[n] = u + Capacity[n]
          BY <3>0
        <4>5. charged[n] * Unit = z + Unit /\ dispatched'[n] * Unit = y + Unit
          BY <4>1, <4>2
        <4> HIDE DEF u, y, z
        <4>6. (u + Capacity[n]) + (z + Unit) = (y + Unit) + (fwdDeficit[n] + Capacity[n])
          BY <1>0, <4>3
        <4> QED BY <3>1, <4>4, <4>5, <4>6
      <3>3. CASE n # t
        <4>1. dispatched'[n] = dispatched[n] /\ charged[n] = fallbacks[n]
          BY <1>7, <1>8, <2>1, <3>3
        <4> QED BY <3>0, <3>1, <4>1
      <3> QED BY <3>2, <3>3
    <2>3. SumFunctionOnSet(charged, Nodes) = SumFunctionOnSet(fallbacks, Nodes) + 1
      <3>1. IsFiniteSet(Nodes)
        BY NodesFacts
      <3>2. \A n \in Nodes : fallbacks[n] \in Int
        BY <1>8
      <3>3. \A n \in Nodes \ {t} : charged[n] = fallbacks[n]
        BY <2>1
      <3>4. t \in Nodes /\ 1 \in Int /\ charged[t] = fallbacks[t] + 1
        BY <1>5, <2>1
      <3> QED BY <3>1, <3>2, <3>3, <3>4, SumChanged
    <2>4. SumFunctionOnSet(fallbacks, Nodes) \in Nat
      BY <1>8, NodesFacts, SumBounds
    <2>5. SumFunctionOnSet(fwdDeficit', Nodes) = SumFunctionOnSet(charged, Nodes) * Unit
      <3>1. SumFunctionOnSet(fwdDeficit, Nodes) = SumFunctionOnSet(fallbacks, Nodes) * Unit
        BY <1>2 DEF Uncharged
      <3>2. SumFunctionOnSet(fwdDeficit', Nodes) = SumFunctionOnSet(fwdDeficit, Nodes) + Unit
        BY <1>3, <1>4, <1>12
      <3>3. (SumFunctionOnSet(fallbacks, Nodes) + 1) * Unit
              = SumFunctionOnSet(fallbacks, Nodes) * Unit + Unit
        BY <1>0, <2>4
      <3> QED BY <2>3, <3>1, <3>2, <3>3
    <2>6. SumFunctionOnSet(fwdDeficit', Nodes) <= N * (Unit - 1)
      BY <1>3, <1>4, <1>12
    <2>7. Uncharged(charged)'
      BY <2>2, <2>5, <2>6 DEF Uncharged
    <2> QED BY <1>1, <1>3, <1>6, <1>7, <2>1, <2>7 DEF ShareInv
  <1> QED BY <1>3, <1>11, <1>12

LEMMA StepShare == ExactShares /\ ShareInv /\ [Next]_vars => ShareInv'
  <1> SUFFICES ASSUME ExactShares, ShareInv, [Next]_vars PROVE ShareInv'
    OBVIOUS
  <1>1. CASE EnqueueForward
    BY <1>1, ForwardShare
  <1>2. CASE ~EnqueueForward
    <2>1. submitted' = submitted /\ fwdDeficit' = fwdDeficit /\ dispatched' = dispatched
      BY <1>2 DEF Next, EnqueueBackwardTo, EnqueueBackward, Tick, vars, histories
    <2> QED BY <2>1 DEF ShareInv, Uncharged
  <1> QED BY <1>1, <1>2

(* A node's share of the micro-batches stays within N - 1 of its share of the *)
(* capacity, whatever the capacities (:271-274).                              *)
THEOREM SharesAreFair ==
  ASSUME ExactShares
  PROVE  Spec => []DispatchProportional
  <1>1. ShareInv => DispatchProportional
    <2> SUFFICES ASSUME ShareInv, NEW n \in Nodes
                 PROVE  LET error == submitted * Capacity[n] - dispatched[n] * Unit
                        IN  error <= (N - 1) * Unit /\ -error <= (N - 1) * Unit
      BY DEF DispatchProportional
    <2>0. Unit \in Nat \ {0} /\ N \in Nat \ {0}
      BY RoundRobinAssumption
    <2>1. PICK fallbacks \in [Nodes -> Nat] : Uncharged(fallbacks)
      BY DEF ShareInv
    <2> DEFINE unpaid == SumFunctionOnSet(fallbacks, Nodes)
    <2>2. \A m \in Nodes : fallbacks[m] \in Nat /\ fwdDeficit[m] \in Nat
      BY DEF ShareInv
    <2>3. unpaid \in Nat /\ fallbacks[n] <= unpaid
      BY <2>2, NodesFacts, SumBounds
    <2>4. fwdDeficit[n] <= SumFunctionOnSet(fwdDeficit, Nodes)
      BY <2>2, NodesFacts, SumBounds
    <2>5. /\ SumFunctionOnSet(fwdDeficit, Nodes) = unpaid * Unit
          /\ SumFunctionOnSet(fwdDeficit, Nodes) <= N * (Unit - 1)
          /\ submitted * Capacity[n] + fallbacks[n] * Unit = dispatched[n] * Unit + fwdDeficit[n]
      BY <2>1 DEF Uncharged
    <2> HIDE DEF unpaid
    <2>6. unpaid <= N - 1
      <3> SUFFICES ASSUME N <= unpaid PROVE FALSE
        BY <2>0, <2>3
      <3>1. N * Unit <= unpaid * Unit
        BY <2>0, <2>3
      <3>2. N * (Unit - 1) < N * Unit
        BY <2>0
      <3>3. N * (Unit - 1) \in Int /\ N * Unit \in Int /\ unpaid * Unit \in Int
        BY <2>0, <2>3
      <3> QED BY <2>5, <3>1, <3>2, <3>3
    <2>7. unpaid * Unit <= (N - 1) * Unit /\ fallbacks[n] * Unit <= unpaid * Unit
      BY <2>0, <2>2, <2>3, <2>6
    <2>8. /\ submitted * Capacity[n] \in Nat /\ dispatched[n] * Unit \in Nat
          /\ fallbacks[n] * Unit \in Nat /\ unpaid * Unit \in Nat /\ (N - 1) * Unit \in Nat
      BY <2>0, <2>2, <2>3, CapacityFacts DEF ShareInv
    <2> QED BY <2>2, <2>4, <2>5, <2>7, <2>8
  <1> QED BY <1>1, InitShare, StepShare, PTL DEF Spec
=============================================================================
