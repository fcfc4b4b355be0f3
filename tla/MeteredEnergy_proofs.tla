------------------------ MODULE MeteredEnergy_proofs ------------------------
(* Proofs that a job is billed for what its meter saw and nothing else, for  *)
(* every device, any number of pollers and of sessions, and every moment at  *)
(* which the job's phases are marked.                                        *)
EXTENDS MeteredEnergy, SumLemmas, SequenceTheorems

-----------------------------------------------------------------------------
(* Types.                                                                  *)

Samples == [t : Nat, watts : Nat]
Hands == [pc : {"off", "top", "power", "integrate", "sleep"}, now : Nat, watts : Nat]
Marked == [phase : {"cold_start", "active", "idle"}, t : Nat, kwh : Nat, intensity : {0}]

TypeOK ==
  /\ source \in {"marginal", "nvml", "rapl"}
  /\ clock \in Nat /\ power \in Nat /\ background \in Nat
  /\ kwh \in [marginal : Nat, device : Nat]
  /\ last_ts \in Nat \union {None}
  /\ record_trace \in BOOLEAN /\ trace \in Seq(Samples)
  /\ stop_event \in BOOLEAN /\ initialized \in BOOLEAN
  /\ thread \in Pollers \union {None} /\ joining \in Nat \union {None}
  /\ poller \in [Pollers -> Hands]
  /\ used \in [threads : SUBSET Pollers, metered : Nat, billed : Nat, overlapped : BOOLEAN]
  /\ marks \in Seq(Marked)

LEMMA InitType == Init => TypeOK
  <1> SUFFICES ASSUME Init PROVE TypeOK
    OBVIOUS
  <1>1. MeterInit /\ marks = <<>>
    BY DEF Init
  <1>2. power \in Nat /\ background \in Nat
    BY <1>1, MeterAssumption DEF MeterInit
  <1>3. poller \in [Pollers -> Hands]
    BY <1>1 DEF MeterInit, Hands, Off
  <1>4. used \in [threads : SUBSET Pollers, metered : Nat, billed : Nat, overlapped : BOOLEAN]
    BY <1>1 DEF MeterInit
  <1>5. trace \in Seq(Samples) /\ marks \in Seq(Marked)
    BY <1>1 DEF MeterInit
  <1>6. record_trace \in BOOLEAN
    BY <1>1 DEF MeterInit
  <1> QED BY <1>1, <1>2, <1>3, <1>4, <1>5, <1>6 DEF TypeOK, MeterInit, None

\* One slice of the meter's integral.
LEMMA Slices ==
  ASSUME NEW w \in Nat, NEW b \in Nat, NEW s \in Nat
  PROVE  Above(w, b) \in Nat /\ Above(w, b) * s \in Nat /\ w * s \in Nat
  <1>1. Above(w, b) \in Nat
    BY DEF Above
  <1>2. \A x \in Nat : x * s \in Nat
    OBVIOUS
  <1> QED BY <1>1, <1>2

LEMMA StepTypes ==
  ASSUME TypeOK, NEW p \in Pollers
  PROVE  TimeStep(poller[p].now) \in Nat /\ Sample(p) \in Nat /\ poller[p] \in Hands
         /\ poller[p].now \in Nat
  <1>1. poller[p] \in Hands /\ last_ts \in Nat \union {None} /\ power \in Nat
    BY DEF TypeOK
  <1>2. poller[p].now \in Nat /\ poller[p].watts \in Nat
    BY <1>1 DEF Hands
  <1>3. TimeStep(poller[p].now) \in Nat
    BY <1>1, <1>2 DEF TimeStep, None
  <1> QED BY <1>1, <1>2, <1>3 DEF Sample

LEMMA HandsTyped ==
  ASSUME TypeOK, NEW p \in Pollers, NEW next \in Hands, PollerStep(p, next)
  PROVE  poller' \in [Pollers -> Hands]
  BY DEF TypeOK, PollerStep

LEMMA StepType == TypeOK /\ [Next]_vars => TypeOK'
  <1> SUFFICES ASSUME TypeOK, [Next]_vars PROVE TypeOK'
    OBVIOUS
  <1>1. CASE UNCHANGED vars
    BY <1>1 DEF TypeOK, vars, meterVars
  <1>2. CASE source = "rapl" /\ RaplNext /\ UNCHANGED <<meterVars, marks>>
    BY <1>2 DEF TypeOK, meterVars
  <1>3. CASE MarkPhase
    <2>1. Reading \in Nat /\ clock \in Nat
      BY DEF TypeOK, Reading
    <2>2. Lifecycle[(Len(marks) % 3) + 1] \in {"cold_start", "active", "idle"}
      <3>1. Len(marks) \in Nat
        BY LenProperties DEF TypeOK
      <3>2. Len(marks) % 3 \in 0..2
        BY <3>1
      <3>3. (Len(marks) % 3) + 1 \in {1, 2, 3}
        BY <3>2
      <3> QED BY <3>3 DEF Lifecycle
    <2>3. Mark(Lifecycle[(Len(marks) % 3) + 1], clock, Reading, 0) \in Marked
      BY <2>1, <2>2 DEF Mark, Marked
    <2>4. marks' \in Seq(Marked)
      BY <1>3, <2>3, AppendProperties DEF MarkPhase, TypeOK
    <2> QED BY <1>3, <2>4 DEF MarkPhase, meterVars, TypeOK
  <1>4. ASSUME MeterNext, UNCHANGED <<raplVars, marks>> PROVE TypeOK'
    <2>1. CASE Elapse
      <3>1. power' \in Nat /\ clock' \in Nat
        BY <2>1, MeterAssumption DEF Elapse, TypeOK
      <3>2. used' \in [threads : SUBSET Pollers, metered : Nat, billed : Nat, overlapped : BOOLEAN]
        BY <2>1, SMTT(30) DEF Elapse, TypeOK
      <3> QED BY <1>4, <2>1, <3>1, <3>2 DEF Elapse, TypeOK
    <2>2. CASE Calibrate
      BY <1>4, <2>2, MeterAssumption DEF Calibrate, TypeOK
    <2>3. CASE Stop
      BY <1>4, <2>3 DEF Stop, TypeOK
    <2>4. CASE StopIdle
      BY <1>4, <2>4 DEF StopIdle, TypeOK
    <2>5. CASE Stopped
      BY <1>4, <2>5 DEF Stopped, TypeOK
    <2>6. ASSUME NEW p \in Pollers, Start(p) PROVE TypeOK'
      <3>1. [Off EXCEPT !.pc = "top"] \in Hands
        BY DEF Off, Hands
      <3>2. poller' \in [Pollers -> Hands]
        BY <2>6, <3>1 DEF Start, TypeOK
      <3>3. used' \in [threads : SUBSET Pollers, metered : Nat, billed : Nat, overlapped : BOOLEAN]
        BY <2>6 DEF Start, TypeOK
      <3>4. last_ts' \in Nat \union {None}
        BY <2>6 DEF Start, FirstStamp, TypeOK
      <3> QED BY <1>4, <2>6, <3>2, <3>3, <3>4 DEF Start, TypeOK
    <2>7. ASSUME NEW p \in Pollers, Poll(p) PROVE TypeOK'
      <3>0. poller[p] \in Hands /\ TimeStep(poller[p].now) \in Nat /\ Sample(p) \in Nat
            /\ poller[p].now \in Nat
        BY StepTypes
      <3>1. CASE ReadClock(p)
        <4>1. [pc |-> "power", now |-> clock, watts |-> 0] \in Hands
          BY DEF TypeOK, Hands
        <4>2. poller' \in [Pollers -> Hands]
          BY <3>1, <4>1, HandsTyped DEF ReadClock
        <4> QED BY <1>4, <3>1, <4>2 DEF ReadClock, PollerStep, TypeOK
      <3>2. CASE Leave(p)
        <4>1. poller' \in [Pollers -> Hands]
          BY <3>2, HandsTyped DEF Leave, Off, Hands
        <4> QED BY <1>4, <3>2, <4>1 DEF Leave, PollerStep, TypeOK
      <3>3. CASE ReadPower(p)
        <4>1. [poller[p] EXCEPT !.pc = "integrate", !.watts = power] \in Hands
          BY <3>0 DEF TypeOK, Hands
        <4>2. poller' \in [Pollers -> Hands]
          BY <3>3, <4>1, HandsTyped DEF ReadPower
        <4> QED BY <1>4, <3>3, <4>2 DEF ReadPower, PollerStep, TypeOK
      <3>4. CASE ReadFails(p)
        <4>1. [poller[p] EXCEPT !.pc = "sleep", !.watts = 0] \in Hands
          BY <3>0 DEF TypeOK, Hands
        <4>2. poller' \in [Pollers -> Hands]
          BY <3>4, <4>1, HandsTyped DEF ReadFails
        <4> QED BY <1>4, <3>4, <4>2 DEF ReadFails, PollerStep, TypeOK
      <3>5. CASE Integrate(p)
        <4>1. [pc |-> "sleep", now |-> poller[p].now, watts |-> 0] \in Hands
          BY <3>0 DEF Hands
        <4>2. poller' \in [Pollers -> Hands]
          BY <3>5, <4>1, HandsTyped DEF Integrate
        <4> DEFINE w == Sample(p)
                   s == TimeStep(poller[p].now)
        <4>3. Above(w, background) * s \in Nat /\ w * s \in Nat
          BY <3>0, Slices DEF TypeOK
        <4>4. kwh' = [marginal |-> kwh.marginal + Above(w, background) * s,
                      device |-> kwh.device + w * s]
          BY <3>5 DEF Integrate
        <4>5. kwh' \in [marginal : Nat, device : Nat]
          <5> HIDE DEF w, s
          <5> QED BY <4>3, <4>4 DEF TypeOK
        <4>6. used' \in [threads : SUBSET Pollers, metered : Nat, billed : Nat, overlapped : BOOLEAN]
          <5>1. used' = [used EXCEPT !.billed = @ + s]
            BY <3>5 DEF Integrate
          <5>2. s \in Nat
            BY <3>0
          <5> HIDE DEF s
          <5>3. used \in [threads : SUBSET Pollers, metered : Nat, billed : Nat, overlapped : BOOLEAN]
            BY DEF TypeOK
          <5>4. used.billed + s \in Nat
            BY <5>2, <5>3
          <5>5. used' = [used EXCEPT !.billed = used.billed + s]
            BY <5>1
          <5> DEFINE more == used.billed + s
          <5> HIDE DEF more
          <5>6. used' = [used EXCEPT !.billed = more] /\ more \in Nat
            BY <5>4, <5>5 DEF more
          <5> QED BY <5>3, <5>6
        <4>7. trace' \in Seq(Samples)
          <5>1. [t |-> poller[p].now, watts |-> w] \in Samples
            BY <3>0 DEF Samples
          <5> QED BY <3>5, <5>1, AppendProperties DEF Integrate, TypeOK
        <4>8. last_ts' \in Nat \union {None}
          BY <3>0, <3>5 DEF Integrate
        <4> QED BY <1>4, <3>5, <4>2, <4>5, <4>6, <4>7, <4>8 DEF Integrate, PollerStep, TypeOK
      <3>6. CASE Wake(p)
        <4>1. [Off EXCEPT !.pc = "top"] \in Hands
          BY DEF Off, Hands
        <4>2. poller' \in [Pollers -> Hands]
          BY <3>6, <4>1, HandsTyped DEF Wake
        <4> QED BY <1>4, <3>6, <4>2 DEF Wake, PollerStep, TypeOK
      <3> QED BY <2>7, <3>1, <3>2, <3>3, <3>4, <3>5, <3>6 DEF Poll
    <2> QED BY <1>4, <2>1, <2>2, <2>3, <2>4, <2>5, <2>6, <2>7 DEF MeterNext
  <1> QED BY <1>1, <1>2, <1>3, <1>4 DEF Next

-----------------------------------------------------------------------------
(* The RAPL counter: between two polls it wraps at most once, and then the    *)
(* difference is short by at most the one unit that the range leaves out.     *)

\* What was spent up to the last poll, and how often the counter wrapped then.
RaplInv ==
  /\ package.modulus \in {MaxRange, MaxRange + 1}
  /\ package.counter \in 0..(package.modulus - 1)
  /\ package \in [modulus : Nat, counter : Nat, spent : Nat, wraps : Nat, unpolled : Nat,
                  missed : BOOLEAN]
  /\ cumulative \in Nat /\ last_uj \in Int
  /\ last_uj = -1 => package.spent = 0 /\ cumulative = 0 /\ package.unpolled = 0
                     /\ package.wraps = 0
  /\ last_uj # -1 =>
       /\ last_uj \in 0..(package.modulus - 1)
       /\ ~package.missed =>
            /\ package.unpolled < MaxRange
            /\ \E wrapped \in 0..1 :
                 /\ last_uj + package.unpolled = package.counter + wrapped * package.modulus
                 /\ cumulative <= package.spent - package.unpolled
                 /\ cumulative >= package.spent - package.unpolled - (package.wraps - wrapped)

LEMMA WrapsOnce ==
  ASSUME NEW m \in Nat \ {0}, NEW c \in Nat, c < 2 * m
  PROVE  /\ c < m => c % m = c /\ c \div m = 0
         /\ c >= m => c % m = c - m /\ c \div m = 1
  <1> DEFINE q == c \div m
             r == c % m
  <1>1. q \in Int /\ r \in 0..(m - 1) /\ c = m * q + r
    OBVIOUS
  <1>2. q >= 0
    <2> SUFFICES ASSUME q < 0 PROVE FALSE
      BY <1>1
    <2> HIDE DEF q, r
    <2>1. q + 1 <= 0 /\ m * (q + 1) <= 0
      BY <1>1
    <2>2. m * (q + 1) = m * q + m
      BY <1>1
    <2> QED BY <1>1, <2>1, <2>2
  <1>3. q < 2
    <2> SUFFICES ASSUME q >= 2 PROVE FALSE
      BY <1>1
    <2> HIDE DEF q, r
    <2>1. m * (q - 2) >= 0
      BY <1>1
    <2>2. m * (q - 2) = m * q - 2 * m
      BY <1>1
    <2> QED BY <1>1, <2>1, <2>2
  <1>4. q = 0 \/ q = 1
    BY <1>1, <1>2, <1>3
  <1> HIDE DEF q, r
  <1>5. CASE q = 0
    BY <1>1, <1>5 DEF q, r
  <1>6. CASE q = 1
    BY <1>1, <1>6 DEF q, r
  <1> QED BY <1>4, <1>5, <1>6

LEMMA InitRapl == Init => RaplInv
  <1> SUFFICES ASSUME Init PROVE RaplInv
    OBVIOUS
  <1>1. PICK m \in {MaxRange, MaxRange + 1} : \E counter \in 0..(m - 1) :
          package = [modulus |-> m, counter |-> counter, spent |-> 0, wraps |-> 0,
                     unpolled |-> 0, missed |-> FALSE]
    BY DEF Init, RaplInit
  <1>2. PICK c \in 0..(m - 1) :
          package = [modulus |-> m, counter |-> c, spent |-> 0, wraps |-> 0,
                     unpolled |-> 0, missed |-> FALSE]
    BY <1>1
  <1>3. m \in Nat /\ c \in Nat
    BY RaplAssumption
  <1>4. last_uj = -1 /\ cumulative = 0
    BY DEF Init, RaplInit
  <1> QED BY <1>2, <1>3, <1>4 DEF RaplInv

LEMMA StepRapl == RaplInv /\ [Next]_vars => RaplInv'
  <1> SUFFICES ASSUME RaplInv, [Next]_vars PROVE RaplInv'
    OBVIOUS
  <1>0. CASE UNCHANGED raplVars
    BY <1>0 DEF RaplInv, raplVars
  <1> DEFINE m == package.modulus
             c == package.counter
             s == package.spent
             n == package.wraps
             u == package.unpolled
  <1>a. /\ m \in Nat \ {0} /\ c \in 0..(m - 1) /\ s \in Nat /\ n \in Nat /\ u \in Nat
        /\ cumulative \in Nat /\ last_uj \in Int
        /\ m \in {MaxRange, MaxRange + 1} /\ MaxRange \in Nat \ {0}
        /\ package.missed \in BOOLEAN
    BY RaplAssumption DEF RaplInv
  <1>1. ASSUME PollRapl PROVE RaplInv'
    <2>1. last_uj' = c /\ package' = [package EXCEPT !.unpolled = 0]
          /\ cumulative' = cumulative + (IF last_uj = -1 THEN 0 ELSE Delta(c))
      BY <1>1 DEF PollRapl
    <2>2. /\ package' \in [modulus : Nat, counter : Nat, spent : Nat, wraps : Nat,
                           unpolled : Nat, missed : BOOLEAN]
          /\ package'.modulus = m /\ package'.counter = c /\ package'.spent = s
          /\ package'.wraps = n /\ package'.unpolled = 0 /\ package'.missed = package.missed
      BY <2>1 DEF RaplInv
    <2>3. last_uj' \in 0..(m - 1) /\ last_uj' \in Int
      BY <1>a, <2>1
    <2>4. cumulative' \in Nat
      <3>1. CASE last_uj = -1
        BY <1>a, <2>1, <3>1
      <3>2. CASE last_uj # -1
        <4>1. last_uj \in 0..(m - 1)
          BY <3>2 DEF RaplInv
        <4>2. Delta(c) \in Nat
          BY <1>a, <4>1 DEF Delta
        <4> QED BY <1>a, <2>1, <4>2
      <3> QED BY <3>1, <3>2
    <2>5. ~package.missed => cumulative' <= s /\ cumulative' >= s - n
      <3> SUFFICES ASSUME ~package.missed PROVE cumulative' <= s /\ cumulative' >= s - n
        OBVIOUS
      <3>1. CASE last_uj = -1
        BY <1>a, <2>1, <3>1 DEF RaplInv
      <3>2. CASE last_uj # -1
        <4>1. last_uj \in 0..(m - 1) /\ u < MaxRange
          BY <3>2 DEF RaplInv
        <4>2. PICK wrapped \in 0..1 :
                 /\ last_uj + u = c + wrapped * m
                 /\ cumulative <= s - u
                 /\ cumulative >= s - u - (n - wrapped)
          BY <3>2 DEF RaplInv
        <4>3. CASE wrapped = 0
          <5>1. Delta(c) = u
            BY <1>a, <4>1, <4>2, <4>3 DEF Delta
          <5> QED BY <1>a, <2>1, <3>2, <4>2, <4>3, <5>1
        <4>4. CASE wrapped = 1
          <5>1. Delta(c) = u - m + MaxRange
            BY <1>a, <4>1, <4>2, <4>4 DEF Delta
          <5>2. Delta(c) \in (u - 1)..u
            BY <1>a, <5>1
          <5> HIDE DEF m, c, s, n, u
          <5> QED BY <1>a, <2>1, <3>2, <4>2, <4>4, <5>2
        <4> QED BY <4>3, <4>4
      <3> QED BY <3>1, <3>2
    <2>6. ~package'.missed =>
            /\ package'.unpolled < MaxRange
            /\ \E wrapped \in 0..1 :
                 /\ last_uj' + package'.unpolled = package'.counter + wrapped * package'.modulus
                 /\ cumulative' <= package'.spent - package'.unpolled
                 /\ cumulative' >= package'.spent - package'.unpolled - (package'.wraps - wrapped)
      <3> SUFFICES ASSUME ~package'.missed
                   PROVE  /\ package'.unpolled < MaxRange
                          /\ last_uj' + package'.unpolled = package'.counter + 0 * package'.modulus
                          /\ cumulative' <= package'.spent - package'.unpolled
                          /\ cumulative' >= package'.spent - package'.unpolled - (package'.wraps - 0)
        OBVIOUS
      <3> HIDE DEF m, c, s, n, u
      <3> QED BY <1>a, <2>1, <2>2, <2>4, <2>5
    <2> QED BY <1>a, <2>2, <2>3, <2>4, <2>6 DEF RaplInv
  <1>2. ASSUME NEW e \in 1..MaxRange, Spend(e) PROVE RaplInv'
    <2> DEFINE t == c + e
    <2>1. /\ last_uj # -1 /\ last_uj' = last_uj /\ cumulative' = cumulative
          /\ package' = [package EXCEPT !.counter = t % m,
                           !.spent = @ + e,
                           !.wraps = @ + t \div m,
                           !.unpolled = @ + e,
                           !.missed = @ \/ u + e >= MaxRange]
      BY <1>2 DEF Spend
    <2>2. t \in Nat /\ t < 2 * m /\ e \in Nat /\ e > 0
      BY <1>a
    <2>3. /\ t < m => t % m = t /\ t \div m = 0
          /\ t >= m => t % m = t - m /\ t \div m = 1
      <3>1. m \in Nat \ {0}
        BY <1>a
      <3> HIDE DEF t, m
      <3> QED BY <2>2, <3>1, WrapsOnce
    <2>4. PICK q \in 0..1 : t \div m = q /\ t % m = t - q * m /\ t % m \in 0..(m - 1)
      <3>1. CASE t < m
        <4>1. t \div m = 0 /\ t % m = t - 0 * m /\ t % m \in 0..(m - 1)
          BY <1>a, <2>2, <2>3, <3>1
        <4> QED BY <4>1
      <3>2. CASE t >= m
        <4>1. t \div m = 1 /\ t % m = t - m
          BY <2>3, <3>2
        <4>2. t - m = t - 1 * m /\ t - m \in 0..(m - 1)
          BY <1>a, <2>2, <3>2
        <4> QED BY <4>1, <4>2
      <3> QED BY <1>a, <2>2, <3>1, <3>2
    <2> DEFINE next == t - q * m
               late == package.missed \/ u + e >= MaxRange
    <2>5. /\ package'.modulus = m /\ package'.counter = t - q * m /\ package'.spent = s + e
          /\ package'.wraps = n + q /\ package'.unpolled = u + e
          /\ package'.missed = late
          /\ DOMAIN package' = DOMAIN package
      BY <2>1, <2>4 DEF RaplInv
    <2>6. t - q * m \in 0..(m - 1)
      BY <2>4
    <2>7. package' \in [modulus : Nat, counter : Nat, spent : Nat, wraps : Nat,
                        unpolled : Nat, missed : BOOLEAN]
      <3>1. /\ next \in Nat /\ s + e \in Nat /\ n + q \in Nat /\ u + e \in Nat
            /\ late \in BOOLEAN
        <4>1. late \in BOOLEAN
          BY Zenon
        <4>2. next \in Nat
          BY <1>a, <2>6
        <4> HIDE DEF next, late, m, c, s, n, u
        <4>3. s + e \in Nat /\ n + q \in Nat /\ u + e \in Nat
          BY <1>a, <2>2
        <4> QED BY <4>1, <4>2, <4>3
      <3>2. package' = [package EXCEPT !.counter = next, !.spent = s + e, !.wraps = n + q,
                                       !.unpolled = u + e, !.missed = late]
        BY <2>1, <2>4
      <3> DEFINE se == s + e  nq == n + q  ue == u + e
      <3>3. package' = [package EXCEPT !.counter = next, !.spent = se, !.wraps = nq,
                                       !.unpolled = ue, !.missed = late]
        BY <3>2
      <3>4. se \in Nat /\ nq \in Nat /\ ue \in Nat
        BY <3>1
      <3> HIDE DEF next, late, se, nq, ue
      <3> QED BY <3>1, <3>3, <3>4 DEF RaplInv
    <2>8. ASSUME ~package'.missed
          PROVE  /\ package'.unpolled < MaxRange
                 /\ \E wrapped \in 0..1 :
                      /\ last_uj' + package'.unpolled = package'.counter + wrapped * package'.modulus
                      /\ cumulative' <= package'.spent - package'.unpolled
                      /\ cumulative' >= package'.spent - package'.unpolled - (package'.wraps - wrapped)
      <3>1. ~package.missed /\ u + e < MaxRange
        <4>1. ~late
          BY <2>5, <2>8
        <4> QED BY <1>a, <2>2, <4>1
      <3>2. last_uj \in 0..(m - 1)
        BY <2>1 DEF RaplInv
      <3>3. PICK wrapped \in 0..1 :
               /\ last_uj + u = c + wrapped * m
               /\ cumulative <= s - u
               /\ cumulative >= s - u - (n - wrapped)
        BY <2>1, <3>1 DEF RaplInv
      <3> HIDE DEF m, c, s, n, u
      <3>4. wrapped + q \in 0..1
        <4> SUFFICES ASSUME wrapped = 1, q = 1 PROVE FALSE
          OBVIOUS
        <4> QED BY <1>a, <2>2, <2>6, <3>1, <3>2, <3>3
      <3>5. last_uj + (u + e) = (t - q * m) + (wrapped + q) * m
        <4>1. wrapped = 0 \/ wrapped = 1
          OBVIOUS
        <4>2. q = 0 \/ q = 1
          OBVIOUS
        <4> QED BY <1>a, <2>2, <3>2, <3>3, <3>4, <4>1, <4>2
      <3>6. /\ cumulative <= (s + e) - (u + e)
            /\ cumulative >= (s + e) - (u + e) - ((n + q) - (wrapped + q))
        BY <1>a, <2>2, <3>3
      <3> QED BY <2>1, <2>5, <3>1, <3>4, <3>5, <3>6
    <2>9. last_uj' \in 0..(package'.modulus - 1)
      BY <2>1, <2>5 DEF RaplInv
    <2> QED BY <1>a, <2>1, <2>5, <2>6, <2>7, <2>8, <2>9 DEF RaplInv
  <1> QED BY <1>0, <1>1, <1>2 DEF Next, RaplNext, MarkPhase, vars

(* A counter that is polled before a whole range is spent bills what the      *)
(* package spent, short of at most one unit a wrap and never more             *)
(* (telemetry.py:422), however often it wraps and whichever of its two        *)
(* moduli it has.                                                             *)
THEOREM CounterIsTrusted == Spec => []WrapsAreCounted
  <1>1. RaplInv => WrapsAreCounted
    <2> SUFFICES ASSUME RaplInv, package.unpolled = 0, ~package.missed
                 PROVE  cumulative \in (package.spent - package.wraps)..package.spent
      BY DEF WrapsAreCounted
    <2>1. cumulative \in Nat /\ package.spent \in Nat /\ package.wraps \in Nat
      BY DEF RaplInv
    <2>2. CASE last_uj = -1
      BY <2>1, <2>2 DEF RaplInv
    <2>3. CASE last_uj # -1
      <3>1. PICK wrapped \in 0..1 :
               /\ cumulative <= package.spent - 0
               /\ cumulative >= package.spent - 0 - (package.wraps - wrapped)
        BY <2>3 DEF RaplInv
      <3> QED BY <2>1, <3>1
    <2> QED BY <2>2, <2>3
  <1> QED BY <1>1, InitRapl, StepRapl, PTL DEF Spec

-----------------------------------------------------------------------------
(* The marks of the phases rise with the clock and with the meter.         *)

Ordered(ms, k, now) ==
  /\ \A i, j \in 1..Len(ms) : i <= j => ms[i].kwh <= ms[j].kwh /\ ms[i].t <= ms[j].t
  /\ \A i \in 1..Len(ms) : ms[i].kwh <= k /\ ms[i].t <= now

MarksInv == Ordered(marks, Reading, clock)

\* The clock and both integrals only grow.
LEMMA OnlyGrows ==
  ASSUME TypeOK, [Next]_vars
  PROVE  /\ source' = source /\ record_trace' = record_trace /\ clock' >= clock
         /\ kwh'.marginal >= kwh.marginal /\ kwh'.device >= kwh.device
  <1>0. clock \in Nat /\ kwh.marginal \in Nat /\ kwh.device \in Nat
    BY DEF TypeOK
  <1>1. CASE UNCHANGED meterVars
    BY <1>0, <1>1 DEF meterVars
  <1>2. CASE Elapse
    BY <1>0, <1>2 DEF Elapse
  <1>3. CASE Calibrate \/ Stop \/ StopIdle \/ Stopped
    BY <1>0, <1>3 DEF Calibrate, Stop, StopIdle, Stopped
  <1>4. ASSUME NEW p \in Pollers, Start(p)
        PROVE  /\ source' = source /\ record_trace' = record_trace /\ clock' >= clock
               /\ kwh'.marginal >= kwh.marginal /\ kwh'.device >= kwh.device
    BY <1>0, <1>4 DEF Start
  <1>5. ASSUME NEW p \in Pollers, Poll(p)
        PROVE  /\ source' = source /\ record_trace' = record_trace /\ clock' >= clock
               /\ kwh'.marginal >= kwh.marginal /\ kwh'.device >= kwh.device
    <2>1. CASE Integrate(p)
      <3> DEFINE w == Sample(p)
                 s == TimeStep(poller[p].now)
      <3>1. Above(w, background) * s \in Nat /\ w * s \in Nat
        BY StepTypes, Slices DEF TypeOK
      <3>2. kwh' = [marginal |-> kwh.marginal + Above(w, background) * s,
                    device |-> kwh.device + w * s]
        BY <2>1 DEF Integrate
      <3>3. source' = source /\ record_trace' = record_trace /\ clock' = clock
        BY <2>1 DEF Integrate, PollerStep
      <3> HIDE DEF w, s
      <3> QED BY <1>0, <3>1, <3>2, <3>3
    <2>2. CASE ~Integrate(p)
      BY <1>0, <1>5, <2>2
         DEF Poll, ReadClock, Leave, ReadPower, ReadFails, Wake, PollerStep
    <2> QED BY <2>1, <2>2
  <1> QED BY <1>1, <1>2, <1>3, <1>4, <1>5 DEF Next, MeterNext, MarkPhase, vars

LEMMA InitMarks == Init => MarksInv
  BY DEF Init, MarksInv, Ordered

LEMMA StepMarks == TypeOK /\ MarksInv /\ [Next]_vars => MarksInv'
  <1> SUFFICES ASSUME TypeOK, MarksInv, [Next]_vars PROVE MarksInv'
    OBVIOUS
  <1>1. Reading' >= Reading /\ clock' >= clock
    BY OnlyGrows DEF Reading
  <1>2. TypeOK'
    BY StepType
  <1>3. /\ Reading \in Nat /\ clock \in Nat /\ marks \in Seq(Marked)
        /\ Reading' \in Nat /\ clock' \in Nat
    BY <1>2 DEF TypeOK, Reading
  <1>4. \A i \in 1..Len(marks) : marks[i].kwh \in Nat /\ marks[i].t \in Nat
    <2>1. \A i \in 1..Len(marks) : marks[i] \in Marked
      BY <1>3, ElementOfSeq
    <2> QED BY <2>1 DEF Marked
  <1>5. CASE marks' = marks
    BY <1>1, <1>3, <1>4, <1>5 DEF MarksInv, Ordered
  <1>6. CASE MarkPhase
    <2> DEFINE n == Len(marks)
               new == Mark(Lifecycle[(n % 3) + 1], clock, Reading, 0)
    <2>1. marks' = Append(marks, new) /\ Reading' = Reading /\ clock' = clock
      BY <1>6 DEF MarkPhase, meterVars, Reading
    <2>2. new.t = clock /\ new.kwh = Reading
      BY DEF Mark
    <2> HIDE DEF new
    <2>3. /\ n \in Nat /\ Len(marks') = n + 1 /\ marks'[n + 1] = new
          /\ \A i \in 1..n : marks'[i] = marks[i]
      BY <1>3, <2>1, LenProperties
    <2>4. \A i \in 1..n : marks[i].kwh <= Reading /\ marks[i].t <= clock
      BY DEF MarksInv, Ordered
    <2>5. \A i \in 1..(n + 1) : i \in 1..n \/ i = n + 1
      BY <2>3
    <2>6. \A i \in 1..(n + 1) : marks'[i].kwh <= Reading /\ marks'[i].t <= clock
      BY <1>3, <2>2, <2>3, <2>4, <2>5
    <2>7. ASSUME NEW i \in 1..(n + 1), NEW j \in 1..(n + 1), i <= j
          PROVE  marks'[i].kwh <= marks'[j].kwh /\ marks'[i].t <= marks'[j].t
      <3>1. CASE j = n + 1
        BY <2>2, <2>3, <2>6, <3>1
      <3>2. CASE j # n + 1
        <4>1. i \in 1..n /\ j \in 1..n
          BY <2>3, <2>7, <3>2
        <4> QED BY <2>3, <2>7, <4>1 DEF MarksInv, Ordered
      <3> QED BY <3>1, <3>2
    <2> QED BY <2>1, <2>3, <2>6, <2>7 DEF MarksInv, Ordered
  <1> QED BY <1>5, <1>6 DEF Next, vars

\* Shares between growing levels add up to the difference of the outer ones.
LEMMA GainsAddUp ==
  ASSUME NEW ms \in Seq(Marked), ms # <<>>, NEW k \in Nat, NEW now \in Nat, Ordered(ms, k, now)
  PROVE  Energy(Report(ms, now, k)) = k - ms[1].kwh
  <1> DEFINE n == Len(ms)
             end == Mark("__end__", now, k, 0)
             sealed == Append(ms, end)
             h == [i \in 1..(n + 1) |-> sealed[i].kwh]
             f == [i \in 1..n |-> NonNegative(sealed[i + 1].kwh - sealed[i].kwh)]
             report == Report(ms, now, k)
  <1>1. n \in Nat /\ n # 0 /\ \A i \in 1..n : ms[i].kwh \in Nat
    <2>1. Len(ms) \in Nat /\ Len(ms) # 0
      BY LenProperties, EmptySeq
    <2>2. \A i \in 1..Len(ms) : ms[i] \in Marked
      BY ElementOfSeq
    <2> QED BY <2>1, <2>2 DEF Marked
  <1>2. end.kwh = k
    BY DEF Mark
  <1>3. sealed[n + 1] = end /\ \A i \in 1..n : sealed[i] = ms[i]
    <2> HIDE DEF end
    <2> QED BY <1>1
  <1>4. DOMAIN report = 1..n /\ \A i \in 1..n : report[i].kwh = f[i]
    <2>1. report = [i \in 1..n |->
                      Interval(sealed[i], sealed[i + 1],
                               NonNegative(sealed[i + 1].kwh - sealed[i].kwh))]
      BY DEF Report
    <2> HIDE DEF sealed, report
    <2> QED BY <2>1 DEF Interval
  <1>5. Energy(report) = SumFunctionOnSet(f, 1..n)
    <2>1. [i \in DOMAIN report |-> report[i].kwh] = f
      BY <1>4
    <2> HIDE DEF report
    <2>2. DOMAIN f = 1..n
      OBVIOUS
    <2> HIDE DEF f
    <2> QED BY <2>1, <2>2 DEF Energy, SumFunction
  <1>6. \A i \in 1..(n + 1) : h[i] \in Int
    <2>1. \A i \in 1..(n + 1) : i \in 1..n \/ i = n + 1
      BY <1>1
    <2> HIDE DEF sealed, end
    <2> QED BY <1>1, <1>2, <1>3, <2>1
  <1>7. \A i \in 1..n : f[i] = h[i + 1] - h[i]
    <2> SUFFICES ASSUME NEW i \in 1..n PROVE f[i] = h[i + 1] - h[i]
      OBVIOUS
    <2>1. i \in 1..(n + 1) /\ i + 1 \in 1..(n + 1)
      BY <1>1
    <2>2. h[i + 1] >= h[i]
      <3>1. CASE i = n
        BY <1>1, <1>2, <1>3, <2>1, <3>1 DEF Ordered
      <3>2. CASE i # n
        <4>1. i + 1 \in 1..n
          BY <1>1, <3>2
        <4>2. ms[i].kwh <= ms[i + 1].kwh
          BY <1>1, <4>1 DEF Ordered
        <4>3. sealed[i] = ms[i] /\ sealed[i + 1] = ms[i + 1]
          BY <1>3, <4>1
        <4> HIDE DEF sealed
        <4> QED BY <1>1, <2>1, <4>1, <4>2, <4>3
      <3> QED BY <3>1, <3>2
    <2>3. h[i] \in Int /\ h[i + 1] \in Int
      BY <1>6, <2>1
    <2>4. f[i] = NonNegative(h[i + 1] - h[i])
      BY <2>1
    <2> HIDE DEF h, f
    <2> QED BY <2>2, <2>3, <2>4 DEF NonNegative
  <1>8. h[n + 1] = k /\ h[1] = ms[1].kwh
    <2>1. 1 \in 1..n /\ 1 \in 1..(n + 1) /\ n + 1 \in 1..(n + 1)
      BY <1>1
    <2> HIDE DEF sealed, end
    <2> QED BY <1>2, <1>3, <2>1
  <1>9. SumFunctionOnSet(f, 1..n) = h[n + 1] - h[1]
    <2> HIDE DEF h, f, n
    <2> QED BY <1>1, <1>6, <1>7, Telescope
  <1> QED BY <1>5, <1>8, <1>9

(* Whatever two pollers do to one meter and whenever the phases are marked,   *)
(* the report shares out what the meter gained since the first mark, and      *)
(* clamps nothing (pod_ledger.py:180).                                        *)
THEOREM ReportsBalance == Spec => []LedgerBalances
  <1>1. TypeOK /\ MarksInv => LedgerBalances
    <2> SUFFICES ASSUME TypeOK, MarksInv, marks # <<>>
                 PROVE  Energy(Report(marks, clock, Reading)) = Reading - marks[1].kwh
      BY DEF LedgerBalances
    <2>1. marks \in Seq(Marked) /\ Reading \in Nat /\ clock \in Nat
      BY DEF TypeOK, Reading
    <2> QED BY <2>1, GainsAddUp DEF MarksInv
  <1> QED BY <1>1, InitType, StepType, InitMarks, StepMarks, PTL DEF Spec

-----------------------------------------------------------------------------
(* As long as no straggler outlives its session, one poller at most holds a   *)
(* sample, and what it has not billed yet was metered.                        *)

HasSample(p) == poller[p].pc \in {"power", "integrate"}

\* Nobody polls between two sessions, but a straggler that was told to stop.
Session ==
  /\ \A p, q \in Running : p = q
  /\ thread # None => Running \subseteq {thread}
  /\ thread = None /\ Running # {} => stop_event
  /\ joining # None => stop_event

\* What is still to be billed was metered.
Owed ==
  /\ used.billed <= used.metered
  /\ last_ts # None /\ thread # None =>
       last_ts <= clock /\ used.billed + (clock - last_ts) <= used.metered
  /\ last_ts # None => last_ts <= clock
  /\ \A p \in Running : HasSample(p) =>
       LET now == poller[p].now IN
       /\ now <= clock
       /\ thread # None => used.billed + (clock - now) <= used.metered
       /\ last_ts # None => last_ts <= now /\ used.billed + (now - last_ts) <= used.metered

SessionInv == source = "marginal" /\ ~used.overlapped => Session /\ Owed

LEMMA InitSession == Init => SessionInv
  <1> SUFFICES ASSUME Init PROVE SessionInv
    OBVIOUS
  <1>1. \A p \in Pollers : poller[p].pc = "off"
    BY DEF Init, MeterInit, Off
  <1>2. Running = {}
    BY <1>1 DEF Running
  <1>3. used.billed = 0 /\ used.metered = 0 /\ last_ts = None /\ thread = None /\ joining = None
    BY DEF Init, MeterInit
  <1> QED BY <1>2, <1>3 DEF SessionInv, Session, Owed

\* What a poller does to the pollers, when it is the only one.
LEMMA OnlyPoller ==
  ASSUME TypeOK, Session, NEW p \in Pollers, poller[p].pc # "off", NEW next, PollerStep(p, next)
  PROVE  /\ poller'[p] = next /\ Running = {p} /\ Running' = Running' \cap {p}
         /\ next.pc # "off" => Running' = {p}
         /\ thread # None => thread = p
         /\ thread = None => stop_event
  <1>1. Running = {p}
    BY DEF Running, Session
  <1>2. poller'[p] = next /\ \A q \in Pollers \ {p} : poller'[q] = poller[q]
    BY DEF PollerStep, TypeOK
  <1>3. \A q \in Pollers \ {p} : poller'[q].pc = "off"
    BY <1>1, <1>2 DEF Running
  <1> QED BY <1>1, <1>2, <1>3 DEF Running, Session

\* A step of a poller that bills nothing.
Moves(p, next) ==
  /\ PollerStep(p, next) /\ poller[p].pc # "off" /\ UNCHANGED <<kwh, last_ts, trace, used>>
  /\ \/ next.pc \notin {"power", "integrate"}
     \/ next.now = poller[p].now /\ HasSample(p)
     \/ next.now = clock /\ ~stop_event

LEMMA PollMoves ==
  ASSUME TypeOK, NEW p \in Pollers, Poll(p)
  PROVE  Integrate(p) \/ \E next : Moves(p, next)
  <1>1. CASE ReadClock(p)
    <2> DEFINE next == [pc |-> "power", now |-> clock, watts |-> 0]
    <2>1. Moves(p, next)
      BY <1>1 DEF ReadClock, Moves
    <2> HIDE DEF next
    <2> QED BY <2>1
  <1>2. CASE Leave(p)
    <2> DEFINE next == Off
    <2>1. /\ PollerStep(p, next) /\ poller[p].pc # "off"
          /\ UNCHANGED <<kwh, last_ts, trace, used>>
      BY <1>2 DEF Leave
    <2>2. next.pc = "off"
      BY <1>2 DEF Off
    <2> HIDE DEF next
    <2>3. Moves(p, next)
      BY <2>1, <2>2 DEF Moves
    <2> QED BY <2>3
  <1>3. CASE ReadPower(p)
    <2> DEFINE next == [poller[p] EXCEPT !.pc = "integrate", !.watts = power]
    <2>1. /\ PollerStep(p, next) /\ poller[p].pc # "off"
          /\ UNCHANGED <<kwh, last_ts, trace, used>>
      BY <1>3 DEF ReadPower
    <2>2. next.now = poller[p].now /\ HasSample(p)
      BY <1>3, StepTypes DEF ReadPower, HasSample, Hands
    <2> HIDE DEF next
    <2>3. Moves(p, next)
      BY <2>1, <2>2 DEF Moves
    <2> QED BY <2>3
  <1>4. CASE ReadFails(p)
    <2> DEFINE next == [poller[p] EXCEPT !.pc = "sleep", !.watts = 0]
    <2>1. /\ PollerStep(p, next) /\ poller[p].pc # "off"
          /\ UNCHANGED <<kwh, last_ts, trace, used>>
      BY <1>4 DEF ReadFails
    <2>2. next.pc = "sleep"
      BY <1>4, StepTypes DEF Hands
    <2> HIDE DEF next
    <2>3. Moves(p, next)
      BY <2>1, <2>2 DEF Moves
    <2> QED BY <2>3
  <1>5. CASE Wake(p)
    <2> DEFINE next == [Off EXCEPT !.pc = "top"]
    <2>1. /\ PollerStep(p, next) /\ poller[p].pc # "off"
          /\ UNCHANGED <<kwh, last_ts, trace, used>>
      BY <1>5 DEF Wake
    <2>2. next.pc = "top"
      BY <1>5 DEF Off
    <2> HIDE DEF next
    <2>3. Moves(p, next)
      BY <2>1, <2>2 DEF Moves
    <2> QED BY <2>3
  <1> QED BY <1>1, <1>2, <1>3, <1>4, <1>5 DEF Poll

LEMMA StepSession == TypeOK /\ SessionInv /\ [Next]_vars => SessionInv'
  <1> SUFFICES ASSUME TypeOK, SessionInv, [Next]_vars, source' = "marginal", ~used'.overlapped
               PROVE  Session' /\ Owed'
    BY DEF SessionInv
  <1>1. CASE UNCHANGED meterVars
    BY <1>1 DEF SessionInv, Session, Owed, Running, HasSample, meterVars
  <1>t. /\ TypeOK' /\ clock \in Nat /\ clock' \in Nat /\ source = "marginal"
        /\ last_ts \in Nat \union {None}
        /\ used.billed \in Nat /\ used.metered \in Nat
        /\ \A p \in Pollers : poller[p].now \in Nat
        /\ thread \in Pollers \union {None} /\ None \notin Pollers
    <2>1. TypeOK' /\ source = "marginal"
      BY StepType, OnlyGrows
    <2>2. clock' \in Nat
      BY <2>1 DEF TypeOK
    <2> QED BY <2>1, <2>2, StepTypes, MeterAssumption DEF TypeOK
  <1>2. ASSUME MeterNext PROVE Session' /\ Owed'
    <2>0. ~used.overlapped /\ Session /\ Owed
      <3>1. CASE \E p \in Pollers : Start(p)
        <4>1. PICK p \in Pollers : Start(p)
          BY <3>1
        <4>2. used' = [used EXCEPT !.threads = @ \union {p},
                                   !.overlapped = @ \/ Running # {}]
          BY <4>1 DEF Start
        <4>3. used'.overlapped = (used.overlapped \/ Running # {})
          BY <4>2 DEF TypeOK
        <4> QED BY <1>t, <4>3 DEF SessionInv
      <3>2. CASE \E p \in Pollers : Poll(p)
        <4>1. used'.overlapped = used.overlapped
          BY <3>2 DEF Poll, ReadClock, Leave, ReadPower, ReadFails, Integrate, Wake, TypeOK
        <4> QED BY <1>t, <4>1 DEF SessionInv
      <3>3. CASE Elapse \/ Calibrate \/ Stop \/ StopIdle \/ Stopped
        <4>1. used'.overlapped = used.overlapped
          BY <3>3 DEF Elapse, Calibrate, Stop, StopIdle, Stopped, TypeOK
        <4> QED BY <1>t, <4>1 DEF SessionInv
      <3> QED BY <1>2, <3>1, <3>2, <3>3 DEF MeterNext
    <2>1. CASE Elapse
      <3>1. /\ clock' = clock + 1 /\ last_ts' = last_ts /\ thread' = thread /\ poller' = poller
            /\ stop_event' = stop_event /\ joining' = joining
            /\ used'.billed = used.billed
            /\ used'.metered = IF thread = None THEN used.metered ELSE used.metered + 1
        BY <2>1 DEF Elapse, TypeOK
      <3>2. Running' = Running /\ (\A p \in Pollers : HasSample(p)' <=> HasSample(p))
        BY <3>1 DEF Running, HasSample
      <3>3. Session'
        BY <2>0, <3>1, <3>2 DEF Session
      <3>4. ASSUME NEW p \in Running', HasSample(p)'
            PROVE  /\ poller'[p].now <= clock'
                   /\ thread' # None => used'.billed + (clock' - poller'[p].now) <= used'.metered
                   /\ last_ts' # None => last_ts' <= poller'[p].now
                         /\ used'.billed + (poller'[p].now - last_ts') <= used'.metered
        <4>1. p \in Running /\ HasSample(p) /\ p \in Pollers
          BY <3>2, <3>4 DEF Running
        <4> QED BY <1>t, <2>0, <3>1, <4>1 DEF Owed
      <3>5. /\ used'.billed <= used'.metered
            /\ last_ts' # None /\ thread' # None =>
                 last_ts' <= clock' /\ used'.billed + (clock' - last_ts') <= used'.metered
            /\ last_ts' # None => last_ts' <= clock'
        BY <1>t, <2>0, <3>1 DEF Owed, None
      <3> QED BY <3>3, <3>4, <3>5 DEF Owed
    <2>2. CASE Calibrate \/ Stop \/ StopIdle
      <3>1. /\ UNCHANGED <<clock, last_ts, thread, poller, used>>
            /\ stop_event' = stop_event \/ stop_event' = TRUE
            /\ joining' = joining \/ stop_event' = TRUE
        BY <2>2 DEF Calibrate, Stop, StopIdle
      <3> QED BY <2>0, <3>1 DEF Session, Owed, Running, HasSample
    <2>3. CASE Stopped
      <3>1. /\ UNCHANGED <<clock, last_ts, stop_event, poller, used>>
            /\ thread' = None /\ joining' = None /\ stop_event
        BY <2>0, <2>3 DEF Stopped, Session
      <3> QED BY <2>0, <3>1 DEF Session, Owed, Running, HasSample
    <2>4. ASSUME NEW p \in Pollers, Start(p) PROVE Session' /\ Owed'
      <3>1. /\ last_ts' = None /\ thread' = p /\ joining' = None
            /\ poller' = [poller EXCEPT ![p] = [Off EXCEPT !.pc = "top"]]
            /\ used' = [used EXCEPT !.threads = @ \union {p},
                                    !.overlapped = @ \/ Running # {}]
        BY <1>t, <2>4 DEF Start, FirstStamp
      <3>2. used'.overlapped = (used.overlapped \/ Running # {})
            /\ used'.billed = used.billed /\ used'.metered = used.metered
        BY <3>1 DEF TypeOK
      <3>3. Running = {}
        BY <3>2
      <3>4. /\ poller'[p].pc = "top"
            /\ \A q \in Pollers \ {p} : poller'[q].pc = "off"
        BY <3>1, <3>3 DEF Running, TypeOK, Off
      <3>5. Running' = {p} /\ ~HasSample(p)'
        BY <3>4 DEF Running, HasSample
      <3> QED BY <1>t, <2>0, <3>1, <3>2, <3>5 DEF Session, Owed
    <2>5. ASSUME NEW p \in Pollers, NEW next, Moves(p, next) PROVE Session' /\ Owed'
      <3> USE DEF Moves
      <3>1. /\ poller'[p] = next /\ Running = {p} /\ Running' \subseteq {p}
            /\ thread # None => thread = p
            /\ thread = None => stop_event
        BY <2>0, <2>5, OnlyPoller
      <3>2. UNCHANGED <<clock, stop_event, thread, joining, last_ts, used>>
        BY <2>5 DEF PollerStep
      <3>3. Session'
        BY <2>0, <3>1, <3>2 DEF Session
      <3>4. ASSUME HasSample(p)'
            PROVE  /\ next.now <= clock
                   /\ thread # None => used.billed + (clock - next.now) <= used.metered
                   /\ last_ts # None => last_ts <= next.now
                         /\ used.billed + (next.now - last_ts) <= used.metered
        <4>1. CASE next.now = poller[p].now /\ HasSample(p)
          BY <2>0, <3>1, <4>1 DEF Owed
        <4>2. CASE next.now = clock /\ ~stop_event
          BY <1>t, <2>0, <3>1, <4>2 DEF Owed
        <4> QED BY <2>5, <3>1, <3>4, <4>1, <4>2 DEF HasSample
      <3> QED BY <2>0, <3>1, <3>2, <3>3, <3>4 DEF Owed
    <2>6. ASSUME NEW p \in Pollers, Integrate(p) PROVE Session' /\ Owed'
      <3> DEFINE now == poller[p].now
                 next == [pc |-> "sleep", now |-> now, watts |-> 0]
                 s == TimeStep(now)
      <3>1. HasSample(p) /\ poller[p].pc # "off" /\ PollerStep(p, next) /\ last_ts' = now
            /\ used' = [used EXCEPT !.billed = @ + s]
        BY <1>t, <2>6 DEF Integrate, HasSample
      <3>2. /\ poller'[p] = next /\ Running = {p} /\ Running' \subseteq {p}
            /\ thread # None => thread = p
            /\ thread = None => stop_event
        BY <2>0, <3>1, OnlyPoller
      <3>3. used'.billed = used.billed + s /\ used'.metered = used.metered
        BY <3>1 DEF TypeOK
      <3>4. UNCHANGED <<clock, stop_event, thread, joining>>
        BY <3>1 DEF PollerStep
      <3>5. Session'
        BY <2>0, <3>2, <3>4 DEF Session
      <3>6. ~HasSample(p)'
        BY <3>2 DEF HasSample
      <3>7. /\ now <= clock /\ now \in Nat
            /\ thread # None => used.billed + (clock - now) <= used.metered
            /\ last_ts # None => last_ts <= now
                  /\ used.billed + (now - last_ts) <= used.metered
            /\ last_ts # None /\ thread # None => used.billed + (clock - last_ts) <= used.metered
            /\ used.billed <= used.metered
        BY <1>t, <2>0, <3>1, <3>2 DEF Owed
      <3>8. s = IF last_ts = None THEN 0 ELSE now - last_ts
        BY <1>t, <3>7 DEF TimeStep, None
      <3>9. last_ts' # None
        BY <3>1, <3>7 DEF None
      <3> HIDE DEF now, next, s
      <3>10. used'.billed <= used'.metered
             /\ (thread # None => used'.billed + (clock - now) <= used'.metered)
        <4>1. CASE last_ts = None
          BY <1>t, <3>3, <3>7, <3>8, <4>1
        <4>2. CASE last_ts # None
          BY <1>t, <3>3, <3>7, <3>8, <4>2
        <4> QED BY <4>1, <4>2
      <3> QED BY <3>1, <3>2, <3>4, <3>5, <3>6, <3>7, <3>9, <3>10 DEF Owed
    <2>7. ASSUME NEW p \in Pollers, Poll(p) PROVE Session' /\ Owed'
      <3>1. Integrate(p) \/ \E next : Moves(p, next)
        BY <2>7, PollMoves
      <3> QED BY <2>5, <2>6, <3>1
    <2> QED BY <1>2, <2>1, <2>2, <2>3, <2>4, <2>7 DEF MeterNext
  <1> QED BY <1>1, <1>2 DEF Next, MarkPhase, vars

(* No joule is billed for time in which the meter was not running, over any   *)
(* number of sessions, as long as stop() outlasted its pollers                *)
(* (marginal_meter.py:145).                                                   *)
THEOREM OnlyMeteredIsBilled == Spec => []NothingBilledUnmetered
  <1>1. SessionInv => NothingBilledUnmetered
    BY DEF SessionInv, Owed, NothingBilledUnmetered
  <1> QED BY <1>1, InitType, StepType, InitSession, StepSession, PTL DEF Spec

-----------------------------------------------------------------------------
(* The trace of a first session adds up to what the meter integrated.      *)

Slice(tr, b) ==
  [i \in 1..(Len(tr) - 1) |-> Above(tr[i + 1].watts, b) * (tr[i + 1].t - tr[i].t)]
Integral(tr, b) == SumFunctionOnSet(Slice(tr, b), 1..(Len(tr) - 1))
Sorted(tr) == \A i, j \in 1..Len(tr) : i <= j => tr[i].t <= tr[j].t

Unused ==
  /\ trace = <<>> /\ kwh.marginal = 0 /\ last_ts = None
  /\ \A p \in Pollers : poller[p].pc = "off"

Traced ==
  IF trace = <<>> THEN last_ts = None /\ kwh.marginal = 0
  ELSE /\ last_ts = trace[Len(trace)].t
       /\ Sorted(trace) /\ kwh.marginal = Integral(trace, background)

First == source = "marginal" /\ record_trace /\ thread # None /\ used.threads = {thread}

Follows ==
  /\ \A p \in Pollers : p # thread => poller[p].pc = "off"
  /\ HasSample(thread) => poller[thread].now <= clock
                          /\ (last_ts # None => last_ts <= poller[thread].now)
  /\ last_ts # None => last_ts <= clock

TraceInv ==
  /\ IsFiniteSet(used.threads)
  /\ used.threads = {} => Unused
  /\ thread # None => thread \in used.threads
  /\ ~record_trace => trace = <<>>
  /\ First => Follows /\ Traced

LEMMA InitTrace == Init => TraceInv
  <1> SUFFICES ASSUME Init PROVE TraceInv
    OBVIOUS
  <1>1. \A p \in Pollers : poller[p].pc = "off"
    BY DEF Init, MeterInit, Off
  <1> QED BY <1>1, FS_EmptySet DEF Init, MeterInit, TraceInv, Unused, First

\* A sample more is a slice more.
LEMMA SliceMore ==
  ASSUME NEW tr \in Seq(Samples), tr # <<>>, NEW x \in Samples, NEW b \in Nat, Sorted(tr),
         tr[Len(tr)].t <= x.t
  PROVE  /\ Sorted(Append(tr, x))
         /\ Integral(Append(tr, x), b) = Integral(tr, b) + Above(x.watts, b) * (x.t - tr[Len(tr)].t)
  <1> DEFINE n == Len(tr)
             more == Append(tr, x)
  <1>1. n \in Nat \ {0} /\ \A i \in 1..n : tr[i].t \in Nat /\ tr[i].watts \in Nat
    <2>1. n \in Nat /\ n # 0
      BY LenProperties, EmptySeq
    <2>2. \A i \in 1..n : tr[i] \in Samples
      BY ElementOfSeq
    <2> QED BY <2>1, <2>2 DEF Samples
  <1>2. Len(more) = n + 1 /\ more[n + 1] = x /\ \A i \in 1..n : more[i] = tr[i]
    BY <1>1
  <1>3. x.t \in Nat /\ x.watts \in Nat
    BY DEF Samples
  <1>4. Sorted(more)
    <2>1. \A i \in 1..n : tr[i].t <= tr[n].t
      BY <1>1 DEF Sorted
    <2>2. \A i \in 1..(n + 1) : i \in 1..n \/ i = n + 1
      BY <1>1
    <2>3. \A i \in 1..(n + 1) : more[i].t <= x.t
      <3> SUFFICES ASSUME NEW i \in 1..(n + 1) PROVE more[i].t <= x.t
        OBVIOUS
      <3>1. CASE i \in 1..n
        <4>1. tr[i].t <= tr[n].t /\ tr[i].t \in Nat /\ tr[n].t \in Nat /\ more[i] = tr[i]
          BY <1>1, <1>2, <2>1, <3>1
        <4> HIDE DEF more
        <4> QED BY <1>3, <4>1
      <3>2. CASE i = n + 1
        BY <1>2, <1>3, <3>2
      <3> QED BY <2>2, <3>1, <3>2
    <2> SUFFICES ASSUME NEW i \in 1..(n + 1), NEW j \in 1..(n + 1), i <= j
                 PROVE  more[i].t <= more[j].t
      BY <1>2 DEF Sorted
    <2> HIDE DEF more
    <2>4. CASE j = n + 1
      BY <1>2, <2>3, <2>4
    <2>5. CASE j # n + 1
      <3>1. i \in 1..n /\ j \in 1..n
        BY <1>1, <2>5
      <3> QED BY <1>2, <3>1 DEF Sorted
    <2> QED BY <2>4, <2>5
  <1> DEFINE f == Slice(tr, b)
             g == Slice(more, b)
             last == Above(x.watts, b) * (x.t - tr[n].t)
  <1>5. n - 1 \in Nat /\ Len(tr) - 1 = n - 1 /\ Len(more) - 1 = (n - 1) + 1
    BY <1>1, <1>2
  <1>6. \A i \in 1..(n - 1) : g[i] = f[i] /\ f[i] \in Int
    <2> SUFFICES ASSUME NEW i \in 1..(n - 1) PROVE g[i] = f[i] /\ f[i] \in Int
      OBVIOUS
    <2>1. i \in 1..n /\ i + 1 \in 1..n /\ i \in 1..n
      BY <1>1
    <2>2. f[i] = Above(tr[i + 1].watts, b) * (tr[i + 1].t - tr[i].t)
      BY DEF Slice
    <2>3. g[i] = Above(more[i + 1].watts, b) * (more[i + 1].t - more[i].t)
      BY <1>2, <2>1 DEF Slice
    <2>4. tr[i].t <= tr[i + 1].t
      BY <2>1 DEF Sorted
    <2>5. tr[i + 1].t - tr[i].t \in Nat /\ tr[i + 1].watts \in Nat
      BY <1>1, <2>1, <2>4
    <2>6. more[i] = tr[i] /\ more[i + 1] = tr[i + 1]
      BY <1>2, <2>1
    <2>7. Above(tr[i + 1].watts, b) * (tr[i + 1].t - tr[i].t) \in Nat
      <3> DEFINE w == tr[i + 1].watts
                 s == tr[i + 1].t - tr[i].t
      <3>1. w \in Nat /\ s \in Nat
        BY <2>5
      <3> HIDE DEF w, s
      <3>2. Above(w, b) * s \in Nat
        BY <3>1, Slices
      <3> QED BY <3>2 DEF w, s
    <2> HIDE DEF f, g, more
    <2> QED BY <2>2, <2>3, <2>6, <2>7
  <1>7. g[n] = last /\ last \in Int
    <2>1. n \in 1..n /\ n \in 1..(Len(more) - 1)
      BY <1>1, <1>2
    <2>2. g[n] = Above(more[n + 1].watts, b) * (more[n + 1].t - more[n].t)
      BY <2>1 DEF Slice
    <2>3. more[n + 1] = x /\ more[n] = tr[n]
      BY <1>2, <2>1
    <2>4. x.t - tr[n].t \in Nat
      BY <1>1, <1>3, <2>1
    <2> DEFINE s == x.t - tr[n].t
               w == x.watts
    <2>5. Above(w, b) * s \in Nat
      <3>1. w \in Nat /\ s \in Nat
        BY <1>3, <2>4
      <3> HIDE DEF w, s
      <3> QED BY <3>1, Slices
    <2> HIDE DEF g, more
    <2> QED BY <2>2, <2>3, <2>5
  <1>8. /\ SumFunctionOnSet(g, 1..((n - 1) + 1)) = SumFunctionOnSet(g, 1..(n - 1)) + g[(n - 1) + 1]
        /\ SumFunctionOnSet(g, 1..(n - 1)) = SumFunctionOnSet(f, 1..(n - 1))
    <2> DEFINE k == n - 1
    <2>1. k \in Nat /\ k + 1 = n /\ IsFiniteSet(1..k)
      <3>1. k \in Nat /\ k + 1 = n
        BY <1>1
      <3>2. k \in Int /\ 1 \in Int
        BY <3>1
      <3> HIDE DEF k
      <3> QED BY <3>1, <3>2, FS_Interval
    <2>2. \A i \in 1..k : f[i] \in Int /\ g[i] = f[i]
      BY <1>6
    <2>3. \A i \in 1..(k + 1) : g[i] \in Int
      <3>1. \A i \in 1..(k + 1) : i \in 1..k \/ i = n
        BY <1>1
      <3> HIDE DEF f, g, k, last
      <3> QED BY <1>7, <2>2, <3>1
    <2> HIDE DEF f, g, k
    <2>4. SumFunctionOnSet(g, 1..(k + 1)) = SumFunctionOnSet(g, 1..k) + g[k + 1]
      BY <2>1, <2>3, SumUpto
    <2>5. SumFunctionOnSet(f, 1..k) = SumFunctionOnSet(g, 1..k)
      BY <2>1, <2>2, SumSame
    <2> QED BY <2>4, <2>5 DEF k
  <1>9. (n - 1) + 1 = n
    BY <1>1
  <1> HIDE DEF more, f, g, last
  <1>10. Integral(more, b) = SumFunctionOnSet(g, 1..((n - 1) + 1))
         /\ Integral(tr, b) = SumFunctionOnSet(f, 1..(n - 1))
    BY <1>5 DEF Integral, f, g
  <1> QED BY <1>4, <1>7, <1>8, <1>9, <1>10 DEF more, last

LEMMA StepTrace == TypeOK /\ TraceInv /\ [Next]_vars => TraceInv'
  <1> SUFFICES ASSUME TypeOK, TraceInv, [Next]_vars PROVE TraceInv'
    OBVIOUS
  <1>t. /\ TypeOK' /\ clock \in Nat /\ clock' \in Nat /\ source' = source
        /\ last_ts \in Nat \union {None} /\ record_trace' = record_trace
        /\ \A p \in Pollers : poller[p].now \in Nat
        /\ thread \in Pollers \union {None} /\ None \notin Pollers
        /\ trace \in Seq(Samples) /\ background \in Nat /\ kwh.marginal \in Nat
    <2>1. TypeOK' /\ source' = source /\ record_trace' = record_trace
      BY StepType, OnlyGrows
    <2>2. clock' \in Nat
      BY <2>1 DEF TypeOK
    <2> QED BY <2>1, <2>2, StepTypes, MeterAssumption DEF TypeOK
  <1>1. CASE UNCHANGED meterVars
    BY <1>1 DEF TraceInv, Unused, First, Follows, Traced, Integral, Slice, Sorted, HasSample, meterVars
  <1>2. ASSUME MeterNext PROVE TraceInv'
    <2>1. CASE Elapse
      <3>1. /\ clock' = clock + 1 /\ UNCHANGED <<last_ts, thread, poller, trace, kwh, background>>
            /\ used'.threads = used.threads
        BY <2>1 DEF Elapse, TypeOK
      <3>2. First' => First
        BY <1>t, <3>1 DEF First
      <3>3. First' => Traced'
        BY <3>1, <3>2 DEF TraceInv, Traced, Integral, Slice, Sorted
      <3>4. First' => Follows'
        <4> SUFFICES ASSUME First' PROVE Follows'
          OBVIOUS
        <4>1. Follows /\ thread \in Pollers
          BY <1>t, <3>2 DEF TraceInv, First
        <4> QED BY <1>t, <3>1, <4>1 DEF Follows, HasSample, None
      <3> QED BY <1>t, <3>1, <3>3, <3>4 DEF TraceInv, Unused
    <2>2. CASE Calibrate \/ StopIdle
      <3>1. /\ UNCHANGED <<last_ts, thread, poller, trace, kwh, used>> /\ thread = None
        BY <2>2 DEF Calibrate, StopIdle
      <3> QED BY <1>t, <3>1 DEF TraceInv, Unused, First
    <2>3. CASE Stopped
      <3>1. /\ UNCHANGED <<last_ts, poller, trace, kwh, used>> /\ thread' = None
        BY <2>3 DEF Stopped
      <3> QED BY <1>t, <3>1 DEF TraceInv, Unused, First
    <2>4. CASE Stop
      <3>1. UNCHANGED <<clock, last_ts, thread, poller, trace, kwh, used, background>>
        BY <2>4 DEF Stop
      <3> QED BY <1>t, <3>1
          DEF TraceInv, Unused, First, Follows, Traced, Integral, Slice, Sorted, HasSample
    <2>5. ASSUME NEW p \in Pollers, Start(p) PROVE TraceInv'
      <3>1. /\ p \notin used.threads /\ thread' = p /\ last_ts' = FirstStamp
            /\ UNCHANGED <<trace, kwh>>
            /\ poller' = [poller EXCEPT ![p] = [Off EXCEPT !.pc = "top"]]
            /\ used' = [used EXCEPT !.threads = @ \union {p},
                                    !.overlapped = @ \/ Running # {}]
        BY <2>5 DEF Start
      <3>2. used'.threads = used.threads \union {p}
        BY <3>1 DEF TypeOK
      <3>3. ~record_trace' => trace' = <<>>
        BY <1>t, <3>1 DEF TraceInv
      <3>4. First' => Follows' /\ Traced'
        <4> SUFFICES ASSUME First' PROVE Follows' /\ Traced'
          OBVIOUS
        <4>1. used.threads = {}
          BY <3>1, <3>2 DEF First
        <4>2. Unused
          BY <4>1 DEF TraceInv
        <4>3. last_ts' = None
          BY <1>t, <3>1 DEF First, FirstStamp
        <4>4. poller'[p].pc = "top" /\ \A q \in Pollers \ {p} : poller'[q].pc = "off"
          BY <3>1, <4>2 DEF Unused, TypeOK, Off
        <4> QED BY <3>1, <4>2, <4>3, <4>4 DEF Unused, Follows, Traced, HasSample
      <3>5. IsFiniteSet(used'.threads)
        BY <3>2, FS_AddElement DEF TraceInv
      <3> QED BY <3>1, <3>2, <3>3, <3>4, <3>5 DEF TraceInv
    <2>6. ASSUME NEW p \in Pollers, NEW next, Moves(p, next) PROVE TraceInv'
      <3>1. /\ poller[p].pc # "off" /\ poller' = [poller EXCEPT ![p] = next]
            /\ UNCHANGED <<clock, last_ts, thread, trace, kwh, used, background>>
        BY <2>6 DEF Moves, PollerStep
      <3>2. used.threads # {}
        BY <3>1 DEF TraceInv, Unused
      <3>3. First' => Follows' /\ Traced'
        <4> SUFFICES ASSUME First' PROVE Follows' /\ Traced'
          OBVIOUS
        <4>1. First /\ Follows /\ Traced
          BY <1>t, <3>1 DEF First, TraceInv
        <4>2. p = thread
          BY <3>1, <4>1 DEF Follows
        <4>3. poller'[p] = next /\ \A q \in Pollers \ {p} : poller'[q] = poller[q]
          BY <3>1 DEF TypeOK
        <4>4. Traced'
          BY <3>1, <4>1 DEF Traced, Integral, Slice, Sorted
        <4>5. HasSample(p)' => next.now <= clock /\ (last_ts # None => last_ts <= next.now)
          <5> SUFFICES ASSUME HasSample(p)'
                       PROVE  next.now <= clock /\ (last_ts # None => last_ts <= next.now)
            OBVIOUS
          <5>1. next.pc \in {"power", "integrate"}
            BY <4>3 DEF HasSample
          <5>2. CASE next.now = poller[p].now /\ HasSample(p)
            BY <4>1, <4>2, <5>2 DEF Follows
          <5>3. CASE next.now = clock
            BY <1>t, <4>1, <5>3 DEF Follows
          <5> QED BY <2>6, <5>1, <5>2, <5>3 DEF Moves
        <4> QED BY <3>1, <4>1, <4>2, <4>3, <4>4, <4>5 DEF Follows, HasSample
      <3> QED BY <1>t, <3>1, <3>2, <3>3 DEF TraceInv
    <2>7. ASSUME NEW p \in Pollers, Integrate(p) PROVE TraceInv'
      <3> DEFINE now == poller[p].now
                 w == Sample(p)
                 s == TimeStep(now)
                 next == [pc |-> "sleep", now |-> now, watts |-> 0]
                 x == [t |-> now, watts |-> w]
      <3>1. /\ HasSample(p) /\ poller[p].pc # "off" /\ PollerStep(p, next) /\ last_ts' = now
            /\ used' = [used EXCEPT !.billed = @ + s]
            /\ kwh' = [marginal |-> kwh.marginal + Above(w, background) * s,
                       device |-> kwh.device + w * s]
            /\ trace' = IF record_trace THEN Append(trace, x) ELSE trace
        BY <2>7 DEF Integrate, HasSample
      <3>2. used'.threads = used.threads /\ thread' = thread /\ clock' = clock
            /\ background' = background
        BY <3>1 DEF TypeOK, PollerStep
      <3>3. used.threads # {}
        BY <3>1 DEF TraceInv, Unused
      <3>4. poller'[p] = next /\ \A q \in Pollers \ {p} : poller'[q] = poller[q]
        BY <3>1 DEF PollerStep, TypeOK
      <3>5. ~record_trace' => trace' = <<>>
        BY <1>t, <3>1 DEF TraceInv
      <3>6. w \in Nat /\ s \in Nat /\ now \in Nat /\ x \in Samples /\ x.t = now /\ x.watts = w
        BY StepTypes DEF Samples
      <3>7. kwh'.marginal = kwh.marginal + Above(w, background) * s
        BY <3>1
      <3>8. s = (IF last_ts = None \/ now < last_ts THEN 0 ELSE now - last_ts)
        BY DEF TimeStep
      <3>a. next.pc = "sleep"
        OBVIOUS
      <3> HIDE DEF now, w, s, next, x
      <3>9. First' => Follows' /\ Traced'
        <4> SUFFICES ASSUME First' PROVE Follows' /\ Traced'
          OBVIOUS
        <4>1. First /\ Follows /\ Traced
          BY <1>t, <3>2 DEF First, TraceInv
        <4>2. p = thread
          BY <3>1, <4>1 DEF Follows
        <4>3. ~HasSample(p)'
          BY <3>4, <3>a DEF HasSample
        <4>4. now <= clock /\ (last_ts # None => last_ts <= now)
          BY <3>1, <4>1, <4>2 DEF Follows, now
        <4>5. Follows'
          BY <3>1, <3>2, <3>4, <4>1, <4>2, <4>3, <4>4 DEF Follows
        <4>6. trace' = Append(trace, x)
          BY <3>1, <4>1 DEF First
        <4>7. CASE trace = <<>>
          <5>1. last_ts = None /\ kwh.marginal = 0
            BY <4>1, <4>7 DEF Traced
          <5>2. s = 0 /\ Above(w, background) * 0 = 0
            <6>1. Above(w, background) \in Nat
              BY <1>t, <3>6, Slices
            <6> QED BY <3>8, <5>1, <6>1
          <5>3. kwh'.marginal = 0
            BY <3>7, <5>1, <5>2
          <5>4. trace' = <<x>>
            BY <4>6, <4>7
          <5>5. trace' # <<>> /\ Len(trace') = 1 /\ trace'[Len(trace')] = x /\ Sorted(trace')
            BY <3>6, <5>4 DEF Sorted
          <5>6. Integral(trace', background') = 0
            <6>1. 1..(Len(trace') - 1) = {}
              BY <5>5
            <6> QED BY <6>1, SumEmpty DEF Integral
          <5> QED BY <3>1, <3>6, <4>5, <5>3, <5>5, <5>6 DEF Traced
        <4>8. CASE trace # <<>>
          <5>1. /\ last_ts = trace[Len(trace)].t /\ Sorted(trace)
                /\ kwh.marginal = Integral(trace, background)
            BY <4>1, <4>8 DEF Traced
          <5>2. Len(trace) \in Nat \ {0}
            <6>1. Len(trace) \in Nat /\ Len(trace) # 0
              BY <1>t, <4>8, LenProperties, EmptySeq
            <6> QED BY <6>1
          <5>3. last_ts # None /\ last_ts \in Nat
            <6>1. trace[Len(trace)] \in Samples
              BY <1>t, <5>2, ElementOfSeq
            <6> QED BY <5>1, <6>1 DEF Samples, None
          <5>4. s = x.t - trace[Len(trace)].t /\ trace[Len(trace)].t <= x.t
            BY <3>6, <3>8, <4>4, <5>1, <5>3
          <5>5. /\ Sorted(Append(trace, x))
                /\ Integral(Append(trace, x), background)
                     = Integral(trace, background)
                         + Above(x.watts, background) * (x.t - trace[Len(trace)].t)
            BY <1>t, <3>6, <4>8, <5>1, <5>4, SliceMore
          <5>6. /\ Append(trace, x) # <<>>
                /\ Append(trace, x)[Len(Append(trace, x))] = x
            BY <1>t, <3>6, AppendProperties
          <5>7. kwh'.marginal = Integral(trace', background')
            BY <3>2, <3>6, <3>7, <4>6, <5>1, <5>4, <5>5
          <5> QED BY <3>1, <3>2, <3>6, <4>5, <4>6, <5>5, <5>6, <5>7 DEF Traced
        <4> QED BY <4>7, <4>8
      <3> QED BY <1>t, <3>2, <3>3, <3>5, <3>9 DEF TraceInv
    <2>8. ASSUME NEW p \in Pollers, Poll(p) PROVE TraceInv'
      <3>1. Integrate(p) \/ \E next : Moves(p, next)
        BY <2>8, PollMoves
      <3> QED BY <2>6, <2>7, <3>1
    <2> QED BY <1>2, <2>1, <2>2, <2>3, <2>4, <2>5, <2>8 DEF MeterNext
  <1> QED BY <1>1, <1>2 DEF Next, MarkPhase, vars

-----------------------------------------------------------------------------
(* Attributing a trace to intervals.                                       *)

Weight(tr, b, i) == NonNegative(SliceSample(tr, i).watts - b)
Parts(tr, b, start, end) ==
  [i \in 1..(Len(tr) - 1) |-> Weight(tr, b, i) * Overlap(tr[i].t, tr[i + 1].t, start, end)]

LEMMA SamplesTyped ==
  ASSUME NEW tr \in Seq(Samples), NEW b \in Nat
  PROVE  /\ Len(tr) - 1 \in Int /\ IsFiniteSet(1..(Len(tr) - 1))
         /\ \A i \in 1..(Len(tr) - 1) :
              /\ i \in 1..Len(tr) /\ i + 1 \in 1..Len(tr)
              /\ tr[i].t \in Nat /\ tr[i + 1].t \in Nat /\ tr[i + 1].watts \in Nat
              /\ Weight(tr, b, i) \in Nat /\ Weight(tr, b, i) = Above(tr[i + 1].watts, b)
  <1>1. Len(tr) \in Nat /\ \A i \in 1..Len(tr) : tr[i].t \in Nat /\ tr[i].watts \in Nat
    <2>1. \A i \in 1..Len(tr) : tr[i] \in Samples
      BY ElementOfSeq
    <2> QED BY <2>1, LenProperties DEF Samples
  <1>2. Len(tr) - 1 \in Int
    BY <1>1
  <1>3. IsFiniteSet(1..(Len(tr) - 1))
    BY <1>2, FS_Interval
  <1>4. ASSUME NEW i \in 1..(Len(tr) - 1)
        PROVE  i \in 1..Len(tr) /\ i + 1 \in 1..Len(tr)
    BY <1>1
  <1>5. ASSUME NEW i \in 1..(Len(tr) - 1)
        PROVE  Weight(tr, b, i) \in Nat /\ Weight(tr, b, i) = Above(tr[i + 1].watts, b)
    <2>1. tr[i + 1].watts \in Nat
      BY <1>1, <1>4
    <2>2. Weight(tr, b, i) = NonNegative(tr[i + 1].watts - b)
      BY DEF Weight, SliceSample
    <2> QED BY <2>1, <2>2 DEF NonNegative, Above
  <1> QED BY <1>1, <1>2, <1>3, <1>4, <1>5

LEMMA IsSumOfParts ==
  ASSUME NEW tr, NEW b, NEW start, NEW end
  PROVE  MarginalFromTrace(tr, b, start, end)
           = SumFunctionOnSet(Parts(tr, b, start, end), 1..(Len(tr) - 1))
  BY DEF MarginalFromTrace, SumFunction, Parts, Weight

LEMMA WeightDistributes ==
  ASSUME NEW w \in Nat, NEW x \in Nat, NEW y \in Nat
  PROVE  w * (x + y) = w * x + w * y /\ w * x \in Nat /\ w * y \in Nat /\ w * (x + y) \in Nat
         /\ w * 0 = 0
  OBVIOUS

LEMMA TraceIsAdditive ==
  ASSUME NEW tr \in Seq(Samples), NEW b \in Nat,
         NEW a \in Int, NEW m \in Int, NEW z \in Int, a <= m, m <= z
  PROVE  /\ MarginalFromTrace(tr, b, a, z)
              = MarginalFromTrace(tr, b, a, m) + MarginalFromTrace(tr, b, m, z)
         /\ MarginalFromTrace(tr, b, a, a) = 0
         /\ MarginalFromTrace(tr, b, a, m) \in Nat /\ MarginalFromTrace(tr, b, m, z) \in Nat
  <1> DEFINE S == 1..(Len(tr) - 1)
             f == Parts(tr, b, a, m)
             g == Parts(tr, b, m, z)
             h == Parts(tr, b, a, z)
             o == Parts(tr, b, a, a)
  <1>1. IsFiniteSet(S) /\ \A i \in S : tr[i].t \in Int /\ tr[i + 1].t \in Int /\ Weight(tr, b, i) \in Nat
    <2>1. /\ IsFiniteSet(S)
          /\ \A i \in S : tr[i].t \in Nat /\ tr[i + 1].t \in Nat /\ Weight(tr, b, i) \in Nat
      BY SamplesTyped
    <2> HIDE DEF S
    <2> QED BY <2>1
  <1>2. ASSUME NEW i \in S
        PROVE  f[i] \in Nat /\ g[i] \in Nat /\ h[i] \in Nat /\ h[i] = f[i] + g[i] /\ o[i] = 0
    <2> DEFINE w == Weight(tr, b, i)
               x == Overlap(tr[i].t, tr[i + 1].t, a, m)
               y == Overlap(tr[i].t, tr[i + 1].t, m, z)
    <2> DEFINE t1 == tr[i].t
               t2 == tr[i + 1].t
    <2>1. w \in Nat /\ x \in Nat /\ y \in Nat
          /\ Overlap(tr[i].t, tr[i + 1].t, a, z) = x + y /\ Overlap(tr[i].t, tr[i + 1].t, a, a) = 0
      <3>1. t1 \in Int /\ t2 \in Int /\ w \in Nat
        BY <1>1
      <3> HIDE DEF t1, t2, w
      <3>2. /\ Overlap(t1, t2, a, z) = Overlap(t1, t2, a, m) + Overlap(t1, t2, m, z)
            /\ Overlap(t1, t2, a, a) = 0 /\ Overlap(t1, t2, a, m) \in Nat
            /\ Overlap(t1, t2, m, z) \in Nat
        BY <3>1 DEF Overlap, NonNegative
      <3> QED BY <3>1, <3>2 DEF t1, t2
    <2>2. f[i] = w * x /\ g[i] = w * y /\ h[i] = w * (x + y) /\ o[i] = w * 0
      BY <2>1 DEF Parts
    <2> HIDE DEF f, g, h, o, w, x, y
    <2> QED BY <2>1, <2>2, WeightDistributes
  <1>3. /\ MarginalFromTrace(tr, b, a, m) = SumFunctionOnSet(f, S)
        /\ MarginalFromTrace(tr, b, m, z) = SumFunctionOnSet(g, S)
        /\ MarginalFromTrace(tr, b, a, z) = SumFunctionOnSet(h, S)
        /\ MarginalFromTrace(tr, b, a, a) = SumFunctionOnSet(o, S)
    BY IsSumOfParts
  <1>a. IsFiniteSet(S)
    BY <1>1
  <1> HIDE DEF f, g, h, o, S
  <1>4. SumFunctionOnSet(h, S) = SumFunctionOnSet(f, S) + SumFunctionOnSet(g, S)
    <2>1. \A i \in S : f[i] \in Int /\ g[i] \in Int /\ h[i] = f[i] + g[i]
      BY <1>2
    <2> QED BY <1>a, <2>1, SumPlus
  <1>5. SumFunctionOnSet(o, S) = 0
    <2>1. SumFunctionOnSet(o, S) = 0 * Cardinality(S)
      BY <1>a, <1>2, SumConstant
    <2> QED BY <1>a, <2>1, FS_CardinalityType
  <1>6. SumFunctionOnSet(f, S) \in Nat /\ SumFunctionOnSet(g, S) \in Nat
    BY <1>a, <1>2, SumBounds
  <1> QED BY <1>3, <1>4, <1>5, <1>6

LEMMA WholeTrace ==
  ASSUME NEW tr \in Seq(Samples), tr # <<>>, Sorted(tr), NEW b \in Nat
  PROVE  MarginalFromTrace(tr, b, tr[1].t, tr[Len(tr)].t) = Integral(tr, b)
  <1> DEFINE S == 1..(Len(tr) - 1)
             n == Len(tr)
             f == Slice(tr, b)
             g == Parts(tr, b, tr[1].t, tr[n].t)
  <1>1. n \in Nat \ {0} /\ 1 \in 1..n /\ n \in 1..n
    <2>1. n \in Nat /\ n # 0
      BY LenProperties, EmptySeq
    <2> QED BY <2>1
  <1>2. tr[1].t \in Nat /\ tr[n].t \in Nat
    <2>1. tr[1] \in Samples /\ tr[n] \in Samples
      BY <1>1, ElementOfSeq
    <2> QED BY <2>1 DEF Samples
  <1>3. ASSUME NEW i \in S PROVE f[i] \in Int /\ g[i] = f[i]
    <2>1. /\ i \in 1..n /\ i + 1 \in 1..n /\ tr[i].t \in Nat /\ tr[i + 1].t \in Nat
          /\ Weight(tr, b, i) \in Nat /\ Weight(tr, b, i) = Above(tr[i + 1].watts, b)
      BY SamplesTyped
    <2>2. tr[1].t <= tr[i].t /\ tr[i].t <= tr[i + 1].t /\ tr[i + 1].t <= tr[n].t
      BY <1>1, <2>1 DEF Sorted
    <2>3. Overlap(tr[i].t, tr[i + 1].t, tr[1].t, tr[n].t) = tr[i + 1].t - tr[i].t
      BY <1>2, <2>1, <2>2 DEF Overlap, NonNegative
    <2> DEFINE w == Weight(tr, b, i)
               d == tr[i + 1].t - tr[i].t
    <2>4. f[i] = w * d /\ g[i] = w * d
      BY <2>1, <2>3 DEF Slice, Parts
    <2>5. w \in Nat /\ d \in Nat
      BY <2>1, <2>2
    <2> HIDE DEF w, d, f, g
    <2> QED BY <2>4, <2>5
  <1>4. IsFiniteSet(S)
    BY SamplesTyped
  <1>5. /\ MarginalFromTrace(tr, b, tr[1].t, tr[n].t) = SumFunctionOnSet(g, S)
        /\ Integral(tr, b) = SumFunctionOnSet(f, S)
    BY IsSumOfParts DEF Integral
  <1> HIDE DEF S, f, g
  <1>6. SumFunctionOnSet(f, S) = SumFunctionOnSet(g, S)
    BY <1>3, <1>4, SumSame
  <1> QED BY <1>5, <1>6

LEMMA SharesOfTrace ==
  ASSUME NEW ms \in Seq(Marked), ms # <<>>, NEW end \in Nat,
         \A i, j \in 1..Len(ms) : i <= j => ms[i].t <= ms[j].t,
         ms[Len(ms)].t <= end,
         NEW tr \in Seq(Samples), NEW b \in Nat
  PROVE  Energy(ReportFromTrace(ms, tr, b, end)) = MarginalFromTrace(tr, b, ms[1].t, end)
  <1> DEFINE n == Len(ms)
             mark == Mark("__end__", end, 0, 0)
             sealed == Append(ms, mark)
             first == ms[1].t
             h == [i \in 1..(n + 1) |-> MarginalFromTrace(tr, b, first, sealed[i].t)]
             f == [i \in 1..n |-> MarginalFromTrace(tr, b, sealed[i].t, sealed[i + 1].t)]
             report == ReportFromTrace(ms, tr, b, end)
  <1>1. n \in Nat /\ n # 0 /\ \A i \in 1..n : ms[i].t \in Nat
    <2>1. Len(ms) \in Nat /\ Len(ms) # 0
      BY LenProperties, EmptySeq
    <2>2. \A i \in 1..Len(ms) : ms[i] \in Marked
      BY ElementOfSeq
    <2> QED BY <2>1, <2>2 DEF Marked
  <1>2. mark.t = end
    BY DEF Mark
  <1>3. sealed[n + 1] = mark /\ \A i \in 1..n : sealed[i] = ms[i]
    <2> HIDE DEF mark
    <2> QED BY <1>1
  <1>4. DOMAIN report = 1..n /\ \A i \in 1..n : report[i].kwh = f[i]
    <2>1. report = [i \in 1..n |->
                      Interval(sealed[i], sealed[i + 1],
                               MarginalFromTrace(tr, b, sealed[i].t, sealed[i + 1].t))]
      BY DEF ReportFromTrace
    <2> HIDE DEF sealed, report
    <2> QED BY <2>1 DEF Interval
  <1>5. Energy(report) = SumFunctionOnSet(f, 1..n)
    <2>1. [i \in DOMAIN report |-> report[i].kwh] = f
      BY <1>4
    <2>2. DOMAIN f = 1..n
      OBVIOUS
    <2> HIDE DEF f, report
    <2> QED BY <2>1, <2>2 DEF Energy, SumFunction
  <1>6. /\ 1 \in 1..n /\ 1 \in 1..(n + 1) /\ n + 1 \in 1..(n + 1) /\ n \in 1..n /\ first \in Int
        /\ \A i \in 1..(n + 1) : i \in 1..n \/ i = n + 1
    BY <1>1
  <1> HIDE DEF sealed, mark, report
  <1>7. \A i \in 1..(n + 1) : sealed[i].t \in Int /\ first <= sealed[i].t /\ sealed[i].t <= end
    <2>1. ASSUME NEW i \in 1..n PROVE first <= ms[i].t /\ ms[i].t <= end
      <3>1. i <= n /\ 1 <= i
        BY <1>1
      <3>2. ms[1].t <= ms[i].t /\ ms[i].t <= ms[n].t /\ ms[n].t <= end
        BY <1>6, <3>1
      <3>3. ms[i].t \in Nat /\ ms[n].t \in Nat
        BY <1>1, <1>6
      <3> QED BY <3>2, <3>3
    <2>2. first <= end
      BY <1>1, <1>6, <2>1
    <2> SUFFICES ASSUME NEW i \in 1..(n + 1)
                 PROVE  sealed[i].t \in Int /\ first <= sealed[i].t /\ sealed[i].t <= end
      OBVIOUS
    <2>3. CASE i \in 1..n
      BY <1>1, <1>3, <2>1, <2>3
    <2>4. CASE i = n + 1
      BY <1>2, <1>3, <2>2, <2>4
    <2> QED BY <1>6, <2>3, <2>4
  <1>8. ASSUME NEW i \in 1..n PROVE f[i] = h[i + 1] - h[i]
    <2>1. i \in 1..(n + 1) /\ i + 1 \in 1..(n + 1)
      BY <1>1
    <2>2. sealed[i].t <= sealed[i + 1].t
      <3>1. CASE i = n
        BY <1>2, <1>3, <1>7, <2>1, <3>1
      <3>2. CASE i # n
        <4>1. i + 1 \in 1..n /\ i <= i + 1
          BY <1>1, <3>2
        <4>2. ms[i].t <= ms[i + 1].t
          BY <4>1
        <4> QED BY <1>3, <4>1, <4>2
      <3> QED BY <3>1, <3>2
    <2> DEFINE x == sealed[i].t
               y == sealed[i + 1].t
    <2>3. x \in Int /\ y \in Int /\ first <= x /\ x <= y /\ first \in Int
      BY <1>6, <1>7, <2>1, <2>2
    <2>4. f[i] = MarginalFromTrace(tr, b, x, y) /\ h[i] = MarginalFromTrace(tr, b, first, x)
          /\ h[i + 1] = MarginalFromTrace(tr, b, first, y)
      BY <2>1
    <2> HIDE DEF x, y, first, f, h
    <2>5. /\ MarginalFromTrace(tr, b, first, y)
               = MarginalFromTrace(tr, b, first, x) + MarginalFromTrace(tr, b, x, y)
          /\ MarginalFromTrace(tr, b, first, x) \in Nat /\ MarginalFromTrace(tr, b, x, y) \in Nat
      BY <2>3, TraceIsAdditive, ZenonT(30)
    <2> QED BY <2>4, <2>5
  <1>9. \A i \in 1..(n + 1) : h[i] \in Int
    <2> SUFFICES ASSUME NEW i \in 1..(n + 1) PROVE h[i] \in Int
      OBVIOUS
    <2> DEFINE x == sealed[i].t
    <2>1. x \in Int /\ first <= x /\ first \in Int /\ x <= x
      BY <1>6, <1>7
    <2>2. h[i] = MarginalFromTrace(tr, b, first, x)
      OBVIOUS
    <2> HIDE DEF x, first, h
    <2>3. MarginalFromTrace(tr, b, first, x) \in Nat
      BY <2>1, TraceIsAdditive
    <2> QED BY <2>2, <2>3
  <1>10. SumFunctionOnSet(f, 1..n) = h[n + 1] - h[1]
    <2> HIDE DEF h, f, n
    <2> QED BY <1>1, <1>8, <1>9, Telescope
  <1>11. h[n + 1] = MarginalFromTrace(tr, b, first, end) /\ h[1] = MarginalFromTrace(tr, b, first, first)
    BY <1>2, <1>3, <1>6
  <1>12. MarginalFromTrace(tr, b, first, first) = 0 /\ MarginalFromTrace(tr, b, first, end) \in Nat
    <2>1. first \in Int /\ end \in Int /\ first <= end /\ first <= first
      BY <1>2, <1>3, <1>6, <1>7
    <2> HIDE DEF first
    <2> QED BY <2>1, TraceIsAdditive
  <1> HIDE DEF f, h
  <1> QED BY <1>5, <1>10, <1>11, <1>12 DEF report

(* The trace that a session recorded gives again what the meter integrated as *)
(* it went (background.py:79), and the marks share all of it out from the     *)
(* first one on, whatever their number and the poll interval.                 *)
THEOREM TraceIsTheMeter == Spec => []TraceMatchesMeter
  <1>1. TypeOK /\ MarksInv /\ TraceInv => TraceMatchesMeter
    <2> SUFFICES ASSUME TypeOK, MarksInv, TraceInv, OneSession, trace # <<>>
                 PROVE  LET end == trace[Len(trace)].t IN
                        /\ MarginalFromTrace(trace, background, trace[1].t, end) = kwh.marginal
                        /\ marks # <<>> /\ marks[Len(marks)].t <= end =>
                             Energy(ReportFromTrace(marks, trace, background, end))
                               = MarginalFromTrace(trace, background, marks[1].t, end)
      BY DEF TraceMatchesMeter
    <2> DEFINE end == trace[Len(trace)].t
    <2>1. trace \in Seq(Samples) /\ background \in Nat /\ marks \in Seq(Marked)
      BY DEF TypeOK
    <2>2. used.threads = {thread}
      <3>1. Cardinality(used.threads) = 1 /\ thread \in used.threads
        BY DEF OneSession, TraceInv
      <3>2. IsFiniteSet(used.threads)
        BY DEF TraceInv
      <3> QED BY <3>1, <3>2, FS_Singleton
    <2>3. First
      BY <2>2 DEF First, OneSession, TraceInv, TypeOK
    <2>4. Sorted(trace) /\ kwh.marginal = Integral(trace, background)
      BY <2>3 DEF TraceInv, Traced
    <2>5. MarginalFromTrace(trace, background, trace[1].t, end) = kwh.marginal
      BY <2>1, <2>4, WholeTrace
    <2>6. ASSUME marks # <<>>, marks[Len(marks)].t <= end
          PROVE  Energy(ReportFromTrace(marks, trace, background, end))
                   = MarginalFromTrace(trace, background, marks[1].t, end)
      <3>1. end \in Nat
        <4>1. Len(trace) \in 1..Len(trace)
          <5>1. Len(trace) \in Nat /\ Len(trace) # 0
            BY <2>1, LenProperties, EmptySeq
          <5> QED BY <5>1
        <4>2. trace[Len(trace)] \in Samples
          BY <2>1, <4>1, ElementOfSeq
        <4> QED BY <4>2 DEF Samples
      <3>2. \A i, j \in 1..Len(marks) : i <= j => marks[i].t <= marks[j].t
        BY DEF MarksInv, Ordered
      <3> HIDE DEF end
      <3> QED BY <2>1, <2>6, <3>1, <3>2, SharesOfTrace
    <2> QED BY <2>5, <2>6
  <1> QED BY <1>1, InitType, StepType, InitMarks, StepMarks, InitTrace, StepTrace, PTL DEF Spec
=============================================================================
