----------------------- MODULE DeferredTraining_proofs -----------------------
(* Proofs that deferring a training job to cleaner hours is invisible to the *)
(* training, and that the ledger bills each joule to what it was spent on,   *)
(* for every schedule, every threshold and any number of runs.               *)
EXTENDS DeferredTraining, SumLemmas, SequenceTheorems

-----------------------------------------------------------------------------
(* Reports of a ledger whose readings never fall.                          *)

Phases == {"cold_start", "active", "idle", "__end__"}
Marked == [phase: Phases, t: Int, kwh: Nat, intensity: Int]

\* What the meter gained in an interval.
Gain(ms, k, i) == (IF i = Len(ms) THEN k ELSE ms[i + 1].kwh) - ms[i].kwh

Rises(ms, k) ==
  /\ ms \in Seq(Marked) /\ k \in Nat
  /\ \A i \in 1..Len(ms) : Gain(ms, k, i) >= 0

LEMMA Entries ==
  ASSUME NEW ms, NEW k, Rises(ms, k)
  PROVE  /\ Len(ms) \in Nat
         /\ DOMAIN Report(ms, 0, k) = 1..Len(ms)
         /\ \A i \in 1..Len(ms) :
              /\ ms[i] \in Marked
              /\ Report(ms, 0, k)[i].phase = ms[i].phase
              /\ Report(ms, 0, k)[i].intensity = ms[i].intensity
              /\ Report(ms, 0, k)[i].kwh = Gain(ms, k, i)
              /\ Gain(ms, k, i) \in Nat /\ ms[i].intensity \in Int
  <1> DEFINE end == Mark("__end__", 0, k, 0)
             sealed == Append(ms, end)
             n == Len(ms)
  <1>1. ms \in Seq(Marked) /\ k \in Nat /\ n \in Nat
    BY LenProperties DEF Rises
  <1>2. end \in Marked /\ end.kwh = k
    BY <1>1 DEF Mark, Marked, Phases
  <1>3. /\ Len(sealed) = n + 1 /\ sealed[n + 1] = end
        /\ \A i \in 1..n : sealed[i] = ms[i]
    <2> HIDE DEF end
    <2> QED BY <1>1, <1>2, AppendProperties
  <1>4. \A i \in 1..n : ms[i] \in Marked
    BY <1>1, ElementOfSeq
  <1>5. \A i \in 1..n :
          /\ Report(ms, 0, k)[i] =
               Interval(sealed[i], sealed[i + 1],
                        NonNegative(sealed[i + 1].kwh - sealed[i].kwh))
    BY DEF Report
  <1>6. DOMAIN Report(ms, 0, k) = 1..n
    BY DEF Report
  <1>7. ASSUME NEW i \in 1..n
        PROVE  /\ sealed[i + 1].kwh - sealed[i].kwh = Gain(ms, k, i)
               /\ Gain(ms, k, i) \in Nat /\ ms[i].intensity \in Int
    <2>1. Gain(ms, k, i) >= 0 /\ ms[i].kwh \in Nat /\ ms[i].intensity \in Int
      BY <1>4 DEF Rises, Marked
    <2>2. CASE i = n
      BY <1>1, <1>2, <1>3, <2>1, <2>2 DEF Gain
    <2>3. CASE i # n
      <3>1. i + 1 \in 1..n
        BY <1>1, <2>3
      <3>2. ms[i + 1].kwh \in Nat /\ sealed[i + 1] = ms[i + 1]
        BY <1>3, <1>4, <3>1 DEF Marked
      <3> QED BY <1>3, <2>1, <2>3, <3>2 DEF Gain
    <2> QED BY <2>2, <2>3
  <1>8. ASSUME NEW i \in 1..n
        PROVE  /\ Report(ms, 0, k)[i].phase = ms[i].phase
               /\ Report(ms, 0, k)[i].intensity = ms[i].intensity
               /\ Report(ms, 0, k)[i].kwh = Gain(ms, k, i)
    <2>1. NonNegative(sealed[i + 1].kwh - sealed[i].kwh) = Gain(ms, k, i)
      BY <1>7 DEF NonNegative
    <2>2. Report(ms, 0, k)[i] = Interval(sealed[i], sealed[i + 1], Gain(ms, k, i))
      BY <1>5, <2>1
    <2>3. sealed[i] = ms[i]
      BY <1>3
    <2> HIDE DEF sealed
    <2> QED BY <2>2, <2>3 DEF Interval
  <1> QED BY <1>1, <1>4, <1>6, <1>7, <1>8

\* The three totals of a report, as sums over the marks.
Bills(ms, k) == [i \in 1..Len(ms) |-> Gain(ms, k, i)]
Grams(ms, k) == [i \in 1..Len(ms) |-> Gain(ms, k, i) * ms[i].intensity]
Those(ms, phase) == {i \in 1..Len(ms) : ms[i].phase = phase}

LEMMA Totals ==
  ASSUME NEW ms, NEW k, Rises(ms, k), NEW phase
  PROVE  /\ Energy(Report(ms, 0, k)) = SumFunctionOnSet(Bills(ms, k), 1..Len(ms))
         /\ Energy(OfPhase(Report(ms, 0, k), phase))
              = SumFunctionOnSet(Bills(ms, k), Those(ms, phase))
         /\ Carbon(Report(ms, 0, k)) = SumFunctionOnSet(Grams(ms, k), 1..Len(ms))
  <1> DEFINE report == Report(ms, 0, k)
             part == OfPhase(report, phase)
  <1>1. /\ DOMAIN report = 1..Len(ms) /\ Len(ms) \in Nat
        /\ \A i \in 1..Len(ms) : /\ report[i].phase = ms[i].phase
                                 /\ report[i].intensity = ms[i].intensity
                                 /\ report[i].kwh = Gain(ms, k, i)
                                 /\ Gain(ms, k, i) \in Nat
    BY Entries
  <1> HIDE DEF report
  <1>2. [i \in DOMAIN report |-> report[i].kwh] = Bills(ms, k)
    BY <1>1 DEF Bills
  <1>3. [i \in DOMAIN report |-> report[i].kwh * report[i].intensity] = Grams(ms, k)
    BY <1>1 DEF Grams
  <1>4. Energy(report) = SumFunctionOnSet(Bills(ms, k), 1..Len(ms))
    BY <1>2 DEF Energy, SumFunction, Bills
  <1>5. Carbon(report) = SumFunctionOnSet(Grams(ms, k), 1..Len(ms))
    BY <1>3 DEF Carbon, SumFunction, Grams
  <1>6. Energy(part) = SumFunctionOnSet(Bills(ms, k), Those(ms, phase))
    <2> DEFINE T == Those(ms, phase)
               f == [i \in DOMAIN part |-> part[i].kwh]
    <2>1. DOMAIN part = T /\ \A i \in T : part[i] = report[i]
      BY <1>1 DEF OfPhase, Restrict, Those
    <2>2. T \subseteq 1..Len(ms) /\ IsFiniteSet(T)
      <3>1. T \subseteq 1..Len(ms)
        BY DEF Those
      <3>2. IsFiniteSet(1..Len(ms))
        BY <1>1, FS_Interval
      <3> QED BY <3>1, <3>2, FS_Subset
    <2>3. DOMAIN f = T /\ \A i \in T : f[i] = Bills(ms, k)[i] /\ f[i] \in Int
      BY <1>1, <2>1, <2>2 DEF Bills
    <2>4. Energy(part) = SumFunctionOnSet(f, T)
      BY <2>3 DEF Energy, SumFunction
    <2> HIDE DEF f, T
    <2>5. SumFunctionOnSet(f, T) = SumFunctionOnSet(Bills(ms, k), T)
      BY <2>2, <2>3, SumSame
    <2> QED BY <2>4, <2>5 DEF T
  <1> QED BY <1>4, <1>5, <1>6 DEF report

LEMMA NothingMarked ==
  ASSUME NEW k \in Nat, NEW phase
  PROVE  /\ Rises(<<>>, k)
         /\ Energy(Report(<<>>, 0, k)) = 0 /\ Carbon(Report(<<>>, 0, k)) = 0
         /\ Energy(OfPhase(Report(<<>>, 0, k), phase)) = 0
  <1>1. <<>> \in Seq(Marked) /\ Len(<<>>) = 0 /\ 1..0 = {}
    OBVIOUS
  <1>2. Rises(<<>>, k)
    BY <1>1 DEF Rises
  <1>3. Those(<<>>, phase) = {} /\ 1..Len(<<>>) = {}
    BY <1>1 DEF Those
  <1> QED BY <1>2, <1>3, Totals, SumEmpty

\* The phase that is running bills what the meter gains.
Latest(ms) == ms[Len(ms)]

LEMMA SpendingIsBilled ==
  ASSUME NEW ms, NEW k, Rises(ms, k), NEW e \in Nat, ms # <<>>, NEW phase
  PROVE  /\ Rises(ms, k + e)
         /\ Energy(Report(ms, 0, k + e)) = Energy(Report(ms, 0, k)) + e
         /\ Energy(OfPhase(Report(ms, 0, k + e), phase))
              = Energy(OfPhase(Report(ms, 0, k), phase)) + (IF Latest(ms).phase = phase THEN e ELSE 0)
         /\ Carbon(Report(ms, 0, k + e)) = Carbon(Report(ms, 0, k)) + e * Latest(ms).intensity
  <1> DEFINE n == Len(ms)
             S == 1..n
             T == Those(ms, phase)
  <1>1. ms \in Seq(Marked) /\ k \in Nat /\ k + e \in Nat /\ n \in Nat /\ n \in S
    <2>1. ms \in Seq(Marked) /\ k \in Nat
      BY DEF Rises
    <2>2. Len(ms) \in Nat /\ Len(ms) # 0
      BY <2>1, EmptySeq, LenProperties
    <2> QED BY <2>1, <2>2
  <1>2. \A i \in S : /\ ms[i].kwh \in Nat /\ ms[i].intensity \in Int
                     /\ Gain(ms, k, i) \in Nat
    <2>1. \A i \in S : ms[i] \in Marked /\ Gain(ms, k, i) \in Nat
      BY Entries
    <2> QED BY <2>1 DEF Marked
  <1>3. /\ \A i \in S \ {n} : Gain(ms, k + e, i) = Gain(ms, k, i)
        /\ Gain(ms, k + e, n) = Gain(ms, k, n) + e
    <2>1. \A i \in S \ {n} : Gain(ms, k + e, i) = Gain(ms, k, i)
      BY DEF Gain
    <2>2. ms[n].kwh \in Nat
      BY <1>1, <1>2
    <2>3. Gain(ms, k + e, n) = (k + e) - ms[n].kwh /\ Gain(ms, k, n) = k - ms[n].kwh
      BY <1>1, <2>2 DEF Gain
    <2>4. (k + e) - ms[n].kwh = (k - ms[n].kwh) + e
      BY <1>1, <2>2
    <2> QED BY <2>1, <2>3, <2>4
  <1>4. Rises(ms, k + e)
    BY <1>1, <1>2, <1>3 DEF Rises
  <1>5. IsFiniteSet(S)
    BY <1>1, FS_Interval
  <1>6. SumFunctionOnSet(Bills(ms, k + e), S) = SumFunctionOnSet(Bills(ms, k), S) + e
    <2>1. \A i \in S : Bills(ms, k)[i] \in Int
      BY <1>2 DEF Bills
    <2>2. \A i \in S \ {n} : Bills(ms, k + e)[i] = Bills(ms, k)[i]
      BY <1>3 DEF Bills
    <2>3. n \in S /\ e \in Int /\ Bills(ms, k + e)[n] = Bills(ms, k)[n] + e
      BY <1>1, <1>3 DEF Bills
    <2> HIDE DEF S, n
    <2> QED BY <1>5, <2>1, <2>2, <2>3, SumChanged
  <1>7. SumFunctionOnSet(Grams(ms, k + e), S)
          = SumFunctionOnSet(Grams(ms, k), S) + e * Latest(ms).intensity
    <2> DEFINE d == e * Latest(ms).intensity
    <2>1. \A i \in S : Grams(ms, k)[i] \in Int
      BY <1>2 DEF Grams
    <2>2. \A i \in S \ {n} : Grams(ms, k + e)[i] = Grams(ms, k)[i]
      BY <1>3 DEF Grams
    <2>3. n \in S /\ d \in Int /\ Grams(ms, k + e)[n] = Grams(ms, k)[n] + d
      <3>1. Latest(ms).intensity = ms[n].intensity /\ ms[n].intensity \in Int
        BY <1>1, <1>2 DEF Latest
      <3>2. (Gain(ms, k, n) + e) * ms[n].intensity
              = Gain(ms, k, n) * ms[n].intensity + e * ms[n].intensity
        BY <1>1, <1>2, <3>1
      <3> QED BY <1>1, <1>3, <3>1, <3>2 DEF Grams
    <2> HIDE DEF S, n, d
    <2>4. SumFunctionOnSet(Grams(ms, k + e), S) = SumFunctionOnSet(Grams(ms, k), S) + d
      BY <1>5, <2>1, <2>2, <2>3, SumChanged
    <2> QED BY <2>4 DEF d
  <1>8. SumFunctionOnSet(Bills(ms, k + e), T)
          = SumFunctionOnSet(Bills(ms, k), T) + (IF Latest(ms).phase = phase THEN e ELSE 0)
    <2>1. IsFiniteSet(T) /\ T \subseteq S
      BY <1>5, FS_Subset DEF Those
    <2>2. \A i \in T : Bills(ms, k)[i] \in Int
      BY <1>2, <2>1 DEF Bills
    <2>3. \A i \in T \ {n} : Bills(ms, k + e)[i] = Bills(ms, k)[i]
      BY <1>3, <2>1 DEF Bills
    <2>4. CASE Latest(ms).phase = phase
      <3>1. n \in T /\ e \in Int /\ Bills(ms, k + e)[n] = Bills(ms, k)[n] + e
        BY <1>1, <1>3, <2>4 DEF Bills, Those, Latest
      <3>2. IsFiniteSet(T)
        BY <2>1
      <3> HIDE DEF T, n
      <3>3. SumFunctionOnSet(Bills(ms, k + e), T) = SumFunctionOnSet(Bills(ms, k), T) + e
        BY <2>2, <2>3, <3>1, <3>2, SumChanged
      <3> QED BY <2>4, <3>3
    <2>5. CASE Latest(ms).phase # phase
      <3>1. n \notin T
        BY <2>5 DEF Those, Latest
      <3>2. \A i \in T : Bills(ms, k)[i] \in Int /\ Bills(ms, k + e)[i] = Bills(ms, k)[i]
        BY <2>2, <2>3, <3>1
      <3>3. IsFiniteSet(T)
        BY <2>1
      <3> HIDE DEF T, n
      <3>4. /\ SumFunctionOnSet(Bills(ms, k), T) = SumFunctionOnSet(Bills(ms, k + e), T)
            /\ SumFunctionOnSet(Bills(ms, k), T) \in Int
        BY <3>2, <3>3, SumSame, SumType
      <3> QED BY <2>5, <3>4
    <2> QED BY <2>4, <2>5
  <1> QED BY <1>4, <1>6, <1>7, <1>8, Totals

LEMMA ZeroAdds ==
  ASSUME NEW R, IsFiniteSet(R), NEW f, NEW g,
         \A i \in R : f[i] \in Int /\ g[i] = f[i],
         NEW x, x \notin R, g[x] = 0
  PROVE  /\ SumFunctionOnSet(g, R) = SumFunctionOnSet(f, R)
         /\ SumFunctionOnSet(g, R \union {x}) = SumFunctionOnSet(f, R)
  <1>1. SumFunctionOnSet(g, R) = SumFunctionOnSet(f, R) /\ SumFunctionOnSet(f, R) \in Int
    BY SumSame, SumType
  <1>2. \A i \in R \union {x} : g[i] \in Int
    OBVIOUS
  <1>3. SumFunctionOnSet(g, R \union {x}) = SumFunctionOnSet(g, R) + g[x]
    BY <1>2, SumWith
  <1> QED BY <1>1, <1>3

IsMarked(ms, k, p, v, ns) ==
  Rises(ms, k) /\ p \in Phases /\ v \in Int /\ ns = Append(ms, Mark(p, 0, k, v))

LEMMA MarkingBillsNothing ==
  ASSUME NEW ms, NEW k, NEW p, NEW v, NEW ns, IsMarked(ms, k, p, v, ns), NEW phase
  PROVE  /\ Rises(ns, k) /\ ns # <<>>
         /\ Latest(ns).phase = p /\ Latest(ns).intensity = v
         /\ Energy(Report(ns, 0, k)) = Energy(Report(ms, 0, k))
         /\ Energy(OfPhase(Report(ns, 0, k), phase)) = Energy(OfPhase(Report(ms, 0, k), phase))
         /\ Carbon(Report(ns, 0, k)) = Carbon(Report(ms, 0, k))
  <1> USE DEF IsMarked
  <1> DEFINE n == Len(ms)
             S == 1..n
             T == Those(ms, phase)
             new == Mark(p, 0, k, v)
  <1>1. ms \in Seq(Marked) /\ k \in Nat /\ n \in Nat /\ new \in Marked
    <2>1. ms \in Seq(Marked) /\ k \in Nat
      BY DEF Rises
    <2> QED BY <2>1, LenProperties DEF Mark, Marked
  <1>2. \A i \in S : ms[i] \in Marked /\ Gain(ms, k, i) \in Nat
    BY Entries
  <1>3. /\ ns \in Seq(Marked) /\ Len(ns) = n + 1 /\ ns[n + 1] = new
        /\ \A i \in S : ns[i] = ms[i]
    <2> HIDE DEF new
    <2>1. ns = Append(ms, new)
      BY DEF new
    <2> QED BY <1>1, <2>1, AppendProperties
  <1>a. new.kwh = k /\ new.phase = p /\ new.intensity = v
    BY DEF Mark
  <1>4. ns # <<>> /\ Latest(ns) = new
    BY <1>1, <1>3 DEF Latest
  <1> HIDE DEF new
  <1>5. Gain(ns, k, n + 1) = 0 /\ \A i \in S : Gain(ns, k, i) = Gain(ms, k, i)
    <2>1. Gain(ns, k, n + 1) = 0
      BY <1>1, <1>3, <1>a DEF Gain
    <2>2. ASSUME NEW i \in S PROVE Gain(ns, k, i) = Gain(ms, k, i)
      <3>1. ns[i] = ms[i] /\ i # n + 1
        BY <1>1, <1>3
      <3>2. CASE i = n
        BY <1>3, <1>a, <3>1, <3>2 DEF Gain
      <3>3. CASE i # n
        <4>1. i + 1 \in S
          BY <1>1, <3>3
        <4>2. ns[i + 1] = ms[i + 1]
          BY <1>3, <4>1
        <4> QED BY <1>3, <3>1, <3>3, <4>2 DEF Gain
      <3> QED BY <3>2, <3>3
    <2> QED BY <2>1, <2>2
  <1>6. 1..Len(ns) = S \union {n + 1} /\ n + 1 \notin S
    BY <1>1, <1>3
  <1>7. Rises(ns, k)
    BY <1>1, <1>2, <1>3, <1>5, <1>6 DEF Rises
  <1>8. IsFiniteSet(S)
    BY <1>1, FS_Interval
  <1>9. /\ \A i \in S : Bills(ms, k)[i] \in Int /\ Bills(ns, k)[i] = Bills(ms, k)[i]
        /\ Bills(ns, k)[n + 1] = 0
    BY <1>2, <1>5, <1>6 DEF Bills
  <1>10. /\ \A i \in S : Grams(ms, k)[i] \in Int /\ Grams(ns, k)[i] = Grams(ms, k)[i]
         /\ Grams(ns, k)[n + 1] = 0
    <2>1. \A i \in S : ms[i].intensity \in Int /\ ns[i].intensity = ms[i].intensity
      BY <1>2, <1>3 DEF Marked
    <2>2. 0 * v = 0
      OBVIOUS
    <2>3. Grams(ns, k)[n + 1] = 0
      BY <1>3, <1>5, <1>6, <1>a, <2>2 DEF Grams
    <2> QED BY <1>2, <1>5, <1>6, <2>1, <2>3 DEF Grams
  <1> DEFINE x == n + 1
  <1>11. /\ x \notin S /\ 1..Len(ns) = S \union {x}
         /\ Bills(ns, k)[x] = 0 /\ Grams(ns, k)[x] = 0
    BY <1>6, <1>9, <1>10
  <1>12. SumFunctionOnSet(Bills(ns, k), 1..Len(ns)) = SumFunctionOnSet(Bills(ms, k), S)
    <2> HIDE DEF S, x
    <2>1. \A i \in S : Bills(ms, k)[i] \in Int /\ Bills(ns, k)[i] = Bills(ms, k)[i]
      BY <1>9
    <2>2. x \notin S /\ Bills(ns, k)[x] = 0
      BY <1>11
    <2>3. SumFunctionOnSet(Bills(ns, k), S \union {x}) = SumFunctionOnSet(Bills(ms, k), S)
      BY <1>8, <2>1, <2>2, ZeroAdds
    <2> QED BY <1>11, <2>3
  <1>13. SumFunctionOnSet(Grams(ns, k), 1..Len(ns)) = SumFunctionOnSet(Grams(ms, k), S)
    <2> HIDE DEF S, x
    <2> QED BY <1>8, <1>10, <1>11, ZeroAdds, SMTT(30)
  <1>14. SumFunctionOnSet(Bills(ns, k), Those(ns, phase)) = SumFunctionOnSet(Bills(ms, k), T)
    <2>1. T \subseteq S
      BY DEF Those
    <2>2. Those(ns, phase) = T \/ Those(ns, phase) = T \union {x}
      <3>1. \A i \in S : i \in Those(ns, phase) <=> i \in T
        BY <1>3, <1>6 DEF Those
      <3>2. Those(ns, phase) \subseteq S \union {x}
        BY <1>6 DEF Those
      <3> HIDE DEF T, S, x
      <3> QED BY <2>1, <3>1, <3>2
    <2>3. IsFiniteSet(T)
      BY <1>8, <2>1, FS_Subset
    <2> HIDE DEF T, S, x
    <2>4. \A i \in T : Bills(ms, k)[i] \in Int /\ Bills(ns, k)[i] = Bills(ms, k)[i]
      BY <1>9, <2>1
    <2>5. x \notin T
      BY <1>11, <2>1
    <2>6. /\ SumFunctionOnSet(Bills(ns, k), T) = SumFunctionOnSet(Bills(ms, k), T)
          /\ SumFunctionOnSet(Bills(ns, k), T \union {x}) = SumFunctionOnSet(Bills(ms, k), T)
      <3> DEFINE f == Bills(ms, k)
                 g == Bills(ns, k)
      <3>1. g[x] = 0
        BY <1>11
      <3>2. \A i \in T : f[i] \in Int /\ g[i] = f[i]
        BY <2>4
      <3> HIDE DEF f, g
      <3>3. SumFunctionOnSet(g, T) = SumFunctionOnSet(f, T)
        BY <2>3, <2>5, <3>1, <3>2, ZeroAdds
      <3>4. SumFunctionOnSet(g, T \union {x}) = SumFunctionOnSet(f, T)
        BY <2>3, <2>5, <3>1, <3>2, ZeroAdds
      <3> QED BY <3>3, <3>4 DEF f, g
    <2> QED BY <2>2, <2>6
  <1>15. /\ Energy(Report(ns, 0, k)) = Energy(Report(ms, 0, k))
         /\ Carbon(Report(ns, 0, k)) = Carbon(Report(ms, 0, k))
    BY <1>7, <1>12, <1>13, Totals
  <1>16. Energy(OfPhase(Report(ns, 0, k), phase)) = Energy(OfPhase(Report(ms, 0, k), phase))
    BY <1>7, <1>14, Totals
  <1> QED BY <1>4, <1>7, <1>15, <1>16, <1>a

-----------------------------------------------------------------------------
(* The bill balances at every step of a driver.                            *)

Purposes == [work: Int, idle: Int, carbon: Int]

\* The bill of driver d after it spent sp.
Billed(ms, k, sp, d) ==
  /\ Rises(ms, k) /\ sp \in Purposes
  /\ Energy(OfPhase(Report(ms, 0, k), "idle")) = sp.idle
  /\ Energy(Report(ms, 0, k)) = sp.work + sp.idle
  /\ d # "serverless" => Carbon(Report(ms, 0, k)) = sp.carbon

\* What sp becomes: SpentMore at intensity v.
Spending(sp, e, what, v) == [sp EXCEPT ![what] = @ + e, !.carbon = @ + e * v]

\* A driver may spend if the phase that runs is what it spends on.
Suits(ms, d, what, v) ==
  ms # <<>> => /\ Latest(ms).phase = "idle" <=> what = "idle"
               /\ d # "serverless" => Latest(ms).intensity = v

LEMMA SpendKeepsBill ==
  ASSUME NEW ms, NEW k, NEW sp, NEW d, Billed(ms, k, sp, d),
         NEW e \in Nat, NEW what \in {"work", "idle"}, NEW v \in Int, Suits(ms, d, what, v),
         NEW sq,
         sq = IF ms = <<>> THEN sp ELSE Spending(sp, e, what, v)
  PROVE  Billed(ms, k + e, sq, d)
  <1>1. Rises(ms, k) /\ sp \in Purposes /\ k \in Nat
    BY DEF Billed, Rises
  <1>2. CASE ms = <<>>
    <2>1. k + e \in Nat /\ sq = sp
      BY <1>1, <1>2
    <2> DEFINE l == k + e
    <2>2. l \in Nat
      BY <2>1
    <2> HIDE DEF l
    <2>3. /\ Rises(<<>>, l) /\ Energy(Report(<<>>, 0, l)) = 0 /\ Carbon(Report(<<>>, 0, l)) = 0
          /\ Energy(OfPhase(Report(<<>>, 0, l), "idle")) = 0
      BY <2>2, NothingMarked
    <2>4. /\ Energy(Report(<<>>, 0, k)) = 0 /\ Carbon(Report(<<>>, 0, k)) = 0
          /\ Energy(OfPhase(Report(<<>>, 0, k), "idle")) = 0
      BY <1>1, NothingMarked
    <2>5. Billed(ms, l, sq, d)
      BY <1>1, <1>2, <2>1, <2>3, <2>4 DEF Billed
    <2> QED BY <2>5 DEF l
  <1>3. CASE ms # <<>>
    <2> DEFINE l == k + e
               g == e * v
    <2>1. /\ Rises(ms, k + e)
          /\ Energy(Report(ms, 0, k + e)) = Energy(Report(ms, 0, k)) + e
          /\ Energy(OfPhase(Report(ms, 0, k + e), "idle"))
               = Energy(OfPhase(Report(ms, 0, k), "idle"))
                   + (IF Latest(ms).phase = "idle" THEN e ELSE 0)
          /\ Carbon(Report(ms, 0, k + e)) = Carbon(Report(ms, 0, k)) + e * Latest(ms).intensity
      <3> DEFINE idle == "idle"
      <3> HIDE DEF idle
      <3>1. /\ Rises(ms, k + e)
            /\ Energy(Report(ms, 0, k + e)) = Energy(Report(ms, 0, k)) + e
            /\ Energy(OfPhase(Report(ms, 0, k + e), idle))
                 = Energy(OfPhase(Report(ms, 0, k), idle))
                     + (IF Latest(ms).phase = idle THEN e ELSE 0)
            /\ Carbon(Report(ms, 0, k + e)) = Carbon(Report(ms, 0, k)) + e * Latest(ms).intensity
        BY <1>1, <1>3, SpendingIsBilled
      <3> QED BY <3>1 DEF idle
    <2>0. g \in Int
      OBVIOUS
    <2>2. /\ sp.work \in Int /\ sp.idle \in Int /\ sp.carbon \in Int
          /\ sp = [work |-> sp.work, idle |-> sp.idle, carbon |-> sp.carbon]
      BY <1>1 DEF Purposes
    <2>3. sq = [sp EXCEPT ![what] = @ + e, !.carbon = @ + g]
      BY <1>3 DEF Spending
    <2>4. d # "serverless" => Carbon(Report(ms, 0, l)) = Carbon(Report(ms, 0, k)) + g
      BY <1>3, <2>1 DEF Suits
    <2>5. Latest(ms).phase = "idle" <=> what = "idle"
      BY <1>3 DEF Suits
    <2>6. /\ Rises(ms, l) /\ Energy(Report(ms, 0, l)) = Energy(Report(ms, 0, k)) + e
          /\ Energy(OfPhase(Report(ms, 0, l), "idle"))
               = Energy(OfPhase(Report(ms, 0, k), "idle")) + (IF what = "idle" THEN e ELSE 0)
      BY <2>1, <2>5
    <2>a. /\ Energy(OfPhase(Report(ms, 0, k), "idle")) = sp.idle
          /\ Energy(Report(ms, 0, k)) = sp.work + sp.idle
          /\ d # "serverless" => Carbon(Report(ms, 0, k)) = sp.carbon
      BY DEF Billed
    <2> HIDE DEF l, g
    <2>7. CASE what = "idle"
      <3>1. /\ sq \in Purposes /\ sq.work = sp.work /\ sq.idle = sp.idle + e
            /\ sq.carbon = sp.carbon + g
        <4>1. sq = [work |-> sp.work, idle |-> sp.idle + e, carbon |-> sp.carbon + g]
          BY <2>2, <2>3, <2>7
        <4> QED BY <2>0, <2>2, <4>1 DEF Purposes
      <3>2. Energy(Report(ms, 0, l)) = sq.work + sq.idle
        BY <2>2, <2>6, <2>a, <3>1
      <3>3. Energy(OfPhase(Report(ms, 0, l), "idle")) = sq.idle
        BY <2>6, <2>7, <2>a, <3>1
      <3>4. d # "serverless" => Carbon(Report(ms, 0, l)) = sq.carbon
        BY <2>4, <2>a, <3>1
      <3>5. Billed(ms, l, sq, d)
        BY <2>6, <3>1, <3>2, <3>3, <3>4 DEF Billed
      <3> QED BY <3>5 DEF l
    <2>8. CASE what = "work"
      <3>1. /\ sq \in Purposes /\ sq.work = sp.work + e /\ sq.idle = sp.idle
            /\ sq.carbon = sp.carbon + g
        <4>1. sq = [work |-> sp.work + e, idle |-> sp.idle, carbon |-> sp.carbon + g]
          BY <2>2, <2>3, <2>8
        <4> QED BY <2>0, <2>2, <4>1 DEF Purposes
      <3>2. Energy(Report(ms, 0, l)) = sq.work + sq.idle
        BY <2>2, <2>6, <2>a, <3>1
      <3>3. Energy(OfPhase(Report(ms, 0, l), "idle")) = sq.idle
        BY <2>2, <2>6, <2>8, <2>a, <3>1
      <3>4. d # "serverless" => Carbon(Report(ms, 0, l)) = sq.carbon
        BY <2>4, <2>a, <3>1
      <3>5. Billed(ms, l, sq, d)
        BY <2>6, <3>1, <3>2, <3>3, <3>4 DEF Billed
      <3> QED BY <3>5 DEF l
    <2> QED BY <2>7, <2>8
  <1> QED BY <1>2, <1>3

LEMMA MarkKeepsBill ==
  ASSUME NEW ms, NEW k, NEW sp, NEW d, Billed(ms, k, sp, d),
         NEW p, NEW v, NEW ns, IsMarked(ms, k, p, v, ns)
  PROVE  /\ Billed(ns, k, sp, d) /\ ns # <<>>
         /\ Latest(ns).phase = p /\ Latest(ns).intensity = v
  <1>1. /\ Rises(ns, k) /\ ns # <<>>
        /\ Latest(ns).phase = p /\ Latest(ns).intensity = v
        /\ Energy(Report(ns, 0, k)) = Energy(Report(ms, 0, k))
        /\ Energy(OfPhase(Report(ns, 0, k), "idle")) = Energy(OfPhase(Report(ms, 0, k), "idle"))
        /\ Carbon(Report(ns, 0, k)) = Carbon(Report(ms, 0, k))
    <2> DEFINE idle == "idle"
    <2> HIDE DEF idle
    <2>1. /\ Rises(ns, k) /\ ns # <<>>
          /\ Latest(ns).phase = p /\ Latest(ns).intensity = v
          /\ Energy(Report(ns, 0, k)) = Energy(Report(ms, 0, k))
          /\ Energy(OfPhase(Report(ns, 0, k), idle)) = Energy(OfPhase(Report(ms, 0, k), idle))
          /\ Carbon(Report(ns, 0, k)) = Carbon(Report(ms, 0, k))
      BY MarkingBillsNothing
    <2> QED BY <2>1 DEF idle
  <1> QED BY <1>1 DEF Billed

LEMMA IntensityType ==
  ASSUME NEW t \in Nat, plan.schedule \in Schedules
  PROVE  IntensityAt(t) \in Int
  <1>1. plan.schedule \in Seq(Int) /\ plan.schedule # <<>>
    BY DriverAssumption
  <1>2. Len(plan.schedule) \in Nat \ {0}
    BY <1>1, EmptySeq, LenProperties
  <1>3. ((t - 1) % Len(plan.schedule)) + 1 \in 1..Len(plan.schedule)
    <2> DEFINE L == Len(plan.schedule)
    <2>1. L \in Nat \ {0}
      BY <1>2
    <2> HIDE DEF L
    <2>2. (t - 1) % L \in 0..(L - 1)
      BY <2>1
    <2>3. ((t - 1) % L) + 1 \in 1..L
      BY <2>1, <2>2
    <2> QED BY <2>3 DEF L
  <1> QED BY <1>1, <1>3, ElementOfSeq DEF IntensityAt

Places ==
  {"tick", "start", "load", "burst", "save", "saving", "release", "sleep", "done", "dead"}

\* The phase that runs is what the driver is about to spend on.
PhaseFits ==
  /\ pc \in {"start", "load", "burst"} \/ (pc = "tick" /\ running) =>
       marks # <<>> /\ Latest(marks).phase # "idle"
  /\ pc = "sleep" \/ (pc = "tick" /\ ~running) =>
       marks = <<>> \/ Latest(marks).phase = "idle"
  /\ pc \in {"save", "saving", "release"} =>
       /\ plan.driver # "always_on"
       /\ marks # <<>> /\ (Latest(marks).phase = "idle" <=> plan.driver = "deferral")
  /\ pc \in {"burst", "save", "saving", "release"} => running
  /\ pc = "sleep" => ~running
  /\ pc \notin {"tick", "done", "dead"} /\ plan.driver # "serverless" =>
       marks # <<>> /\ Latest(marks).intensity = Intensity

LedgerInv ==
  /\ plan.schedule \in Schedules /\ plan.driver \in Drivers
  /\ pc \in Places /\ running \in BOOLEAN /\ ticks \in Nat
  /\ Billed(marks, kwh, spent, plan.driver)
  /\ PhaseFits

LEMMA DriverSpends ==
  ASSUME LedgerInv, NEW e \in Nat, NEW what \in {"work", "idle"}, Spend(e, what),
         Suits(marks, plan.driver, what, Intensity)
  PROVE  Billed(marks, kwh', spent', plan.driver)
  <1>1. Billed(marks, kwh, spent, plan.driver) /\ Intensity \in Int
    BY IntensityType DEF LedgerInv, Intensity
  <1>2. kwh' = kwh + e
    BY DEF Spend
  <1>3. spent' = IF marks = <<>> THEN spent ELSE Spending(spent, e, what, Intensity)
    <2>1. SpentMore(e, what) = Spending(spent, e, what, Intensity)
      BY DEF SpentMore, Spending
    <2> QED BY <2>1 DEF Spend
  <1> DEFINE v == Intensity
             sq == spent'
  <1>4. v \in Int /\ Suits(marks, plan.driver, what, v)
        /\ sq = IF marks = <<>> THEN spent ELSE Spending(spent, e, what, v)
    BY <1>1, <1>3
  <1> HIDE DEF v, sq
  <1>5. Billed(marks, kwh + e, sq, plan.driver)
    BY <1>1, <1>4, SpendKeepsBill
  <1> QED BY <1>2, <1>5 DEF sq

LEMMA InitLedger == Init => LedgerInv
  <1> SUFFICES ASSUME Init PROVE LedgerInv
    OBVIOUS
  <1>1. /\ marks = <<>> /\ kwh = 0 /\ spent = [work |-> 0, idle |-> 0, carbon |-> 0]
        /\ pc = "tick" /\ running = FALSE /\ ticks = 0 /\ plan \in Plans(1)
    BY DEF Init, Fresh
  <1>2. plan.schedule \in Schedules /\ plan.driver \in Drivers
    BY <1>1 DEF Plans
  <1>3. Rises(<<>>, 0) /\ Energy(Report(<<>>, 0, 0)) = 0 /\ Carbon(Report(<<>>, 0, 0)) = 0
        /\ Energy(OfPhase(Report(<<>>, 0, 0), "idle")) = 0
    BY NothingMarked
  <1>4. spent \in Purposes /\ spent.work = 0 /\ spent.idle = 0 /\ spent.carbon = 0
    BY <1>1 DEF Purposes
  <1>5. Billed(marks, kwh, spent, plan.driver)
    BY <1>1, <1>3, <1>4 DEF Billed
  <1>6. PhaseFits
    BY <1>1 DEF PhaseFits
  <1> QED BY <1>1, <1>2, <1>5, <1>6 DEF LedgerInv, Places

LEMMA TicksKeepLedger ==
  ASSUME LedgerInv, TickPauses \/ TickRuns
  PROVE  LedgerInv'
  <1> DEFINE v == IntensityAt(ticks + 1)
             d == plan.driver
  <1>1. /\ pc = "tick" /\ ticks' = ticks + 1 /\ plan' = plan /\ running' = running
        /\ kwh' = kwh /\ spent' = spent
    BY DEF TickPauses, TickRuns
  <1>2. /\ plan.schedule \in Schedules /\ plan.driver \in Drivers /\ running \in BOOLEAN
        /\ ticks \in Nat /\ Billed(marks, kwh, spent, d) /\ PhaseFits
    BY DEF LedgerInv
  <1>3. ticks + 1 \in Nat /\ v \in Int
    BY <1>2, IntensityType
  <1>4. Intensity' = v
    BY <1>1 DEF Intensity, IntensityAt
  <1>5. ASSUME NEW p \in {"cold_start", "active", "idle"}, MarkNow(p, ticks + 1)
        PROVE  /\ Billed(marks', kwh, spent, d) /\ marks' # <<>>
               /\ Latest(marks').phase = p /\ Latest(marks').intensity = v
    <2> DEFINE ns == marks'
    <2>1. ns = Append(marks, Mark(p, 0, kwh, v))
      BY <1>5 DEF MarkNow
    <2> HIDE DEF ns, v, d
    <2>2. /\ Billed(ns, kwh, spent, d) /\ ns # <<>>
          /\ Latest(ns).phase = p /\ Latest(ns).intensity = v
      <3>1. IsMarked(marks, kwh, p, v, ns)
        BY <1>2, <1>3, <2>1 DEF IsMarked, Billed, Phases
      <3> QED BY <1>2, <3>1, MarkKeepsBill
    <2> QED BY <2>2 DEF ns
  <1> HIDE DEF v
  <1>6. CASE TickPauses
    <2>0. d # "always_on" /\ pc' = (IF running THEN "save" ELSE "sleep")
      BY <1>6 DEF TickPauses
    <2>1. CASE d = "deferral"
      <3>1. MarkNow("idle", ticks + 1)
        BY <1>6, <2>1 DEF TickPauses
      <3>2. /\ Billed(marks', kwh, spent, d) /\ marks' # <<>>
            /\ Latest(marks').phase = "idle" /\ Latest(marks').intensity = v
        BY <1>5, <3>1
      <3>3. PhaseFits'
        BY <1>1, <1>2, <1>4, <2>0, <2>1, <3>2 DEF PhaseFits
      <3> QED BY <1>1, <1>2, <1>3, <2>0, <3>2, <3>3 DEF LedgerInv, Places
    <2>2. CASE d # "deferral"
      <3>1. marks' = marks /\ d = "serverless"
        BY <1>2, <1>6, <2>0, <2>2 DEF TickPauses, Drivers
      <3>2. PhaseFits'
        BY <1>1, <1>2, <2>0, <3>1 DEF PhaseFits
      <3> QED BY <1>1, <1>2, <1>3, <2>0, <3>1, <3>2 DEF LedgerInv, Places
    <2> QED BY <2>1, <2>2
  <1>7. CASE TickRuns
    <2>1. CASE running /\ d = "serverless"
      <3>1. marks' = marks /\ pc' = "burst"
        BY <1>7, <2>1 DEF TickRuns, MarksEveryTick
      <3>2. PhaseFits'
        BY <1>1, <1>2, <2>1, <3>1 DEF PhaseFits
      <3> QED BY <1>1, <1>2, <1>3, <3>1, <3>2 DEF LedgerInv, Places
    <2>2. CASE ~(running /\ d = "serverless")
      <3>1. PICK p \in {"cold_start", "active"} : MarkNow(p, ticks + 1)
        BY <1>7, <2>2 DEF TickRuns, MarksEveryTick
      <3>2. pc' = IF running THEN "burst" ELSE "start"
        BY <1>7 DEF TickRuns
      <3>3. /\ Billed(marks', kwh, spent, d) /\ marks' # <<>>
            /\ Latest(marks').phase = p /\ Latest(marks').intensity = v
        BY <1>5, <3>1
      <3>4. PhaseFits'
        BY <1>1, <1>2, <1>4, <3>2, <3>3 DEF PhaseFits
      <3> QED BY <1>1, <1>2, <1>3, <3>2, <3>3, <3>4 DEF LedgerInv, Places
    <2> QED BY <2>1, <2>2
  <1> QED BY <1>6, <1>7

LEMMA StartsKeepLedger ==
  ASSUME LedgerInv, ColdStart \/ Load
  PROVE  LedgerInv'
  <1> DEFINE d == plan.driver
             v == Intensity
             ns == marks'
             k == kwh'
             sp == spent'
  <1>1. /\ pc \in {"start", "load"} /\ pc' = "burst" /\ running' = TRUE
        /\ plan' = plan /\ ticks' = ticks
        /\ ns = Append(marks, Mark("active", 0, k, v))
    BY DEF ColdStart, Load, Started
  <1>2. PICK e \in Nat : Spend(e, "work")
    BY TrainerAssumption DEF ColdStart, Load
  <1>3. /\ plan.schedule \in Schedules /\ plan.driver \in Drivers /\ ticks \in Nat /\ PhaseFits
    BY DEF LedgerInv
  <1>4. Suits(marks, d, "work", v)
    BY <1>1, <1>3 DEF Suits, PhaseFits
  <1>5. Billed(marks, k, sp, d)
    BY <1>2, <1>4, DriverSpends
  <1>6. v \in Int
    BY <1>3, IntensityType DEF Intensity
  <1>a. Intensity' = v
    BY <1>1 DEF Intensity, IntensityAt
  <1> HIDE DEF d, v, ns, k, sp
  <1>7. /\ Billed(ns, k, sp, d) /\ ns # <<>>
        /\ Latest(ns).phase = "active" /\ Latest(ns).intensity = v
    <2> DEFINE p == "active"
    <2>1. IsMarked(marks, k, p, v, ns)
      BY <1>1, <1>5, <1>6 DEF IsMarked, Billed, Phases
    <2> HIDE DEF p
    <2>2. /\ Billed(ns, k, sp, d) /\ ns # <<>>
          /\ Latest(ns).phase = p /\ Latest(ns).intensity = v
      BY <1>5, <2>1, MarkKeepsBill
    <2> QED BY <2>2 DEF p
  <1>8. PhaseFits'
    BY <1>1, <1>7, <1>a DEF PhaseFits, ns, v
  <1> QED BY <1>1, <1>3, <1>7, <1>8 DEF LedgerInv, Places, ns, k, sp, d

LEMMA BurstsKeepLedger ==
  ASSUME LedgerInv, Build \/ Burst
  PROVE  LedgerInv'
  <1>1. /\ pc \in {"start", "burst"} /\ plan' = plan /\ ticks' = ticks /\ marks' = marks
        /\ running' = running
        /\ (pc = "start" /\ pc' = "load") \/ (pc = "burst" /\ pc' \in {"burst", "tick"})
    BY DEF Build, Burst
  <1>2. /\ plan.schedule \in Schedules /\ plan.driver \in Drivers /\ ticks \in Nat /\ PhaseFits
        /\ running \in BOOLEAN /\ Billed(marks, kwh, spent, plan.driver)
    BY DEF LedgerInv
  <1>3. Suits(marks, plan.driver, "work", Intensity)
    BY <1>1, <1>2 DEF Suits, PhaseFits
  <1>4. Billed(marks, kwh', spent', plan.driver)
    <2>1. (\E e \in Nat : Spend(e, "work")) \/ (kwh' = kwh /\ spent' = spent)
      BY TrainerAssumption DEF Build, Burst
    <2>2. CASE \E e \in Nat : Spend(e, "work")
      BY <1>3, <2>2, DriverSpends
    <2>3. CASE kwh' = kwh /\ spent' = spent
      BY <1>2, <2>3
    <2> QED BY <2>1, <2>2, <2>3
  <1>5. Intensity' = Intensity
    BY <1>1 DEF Intensity, IntensityAt
  <1>6. PhaseFits'
    BY <1>1, <1>2, <1>5 DEF PhaseFits
  <1> QED BY <1>1, <1>2, <1>4, <1>6 DEF LedgerInv, Places

LEMMA PausesKeepLedger ==
  ASSUME LedgerInv, SaveBegins \/ SaveEnds \/ Sleep
  PROVE  LedgerInv'
  <1>1. /\ pc \in {"save", "saving", "sleep"} /\ plan' = plan /\ ticks' = ticks
        /\ marks' = marks /\ running' = running
        /\ \/ pc = "save" /\ pc' = "saving"
           \/ pc = "saving" /\ pc' = "release"
           \/ pc = "sleep" /\ pc' = "tick"
    BY DEF SaveBegins, SaveEnds, Sleep
  <1>2. /\ plan.schedule \in Schedules /\ plan.driver \in Drivers /\ ticks \in Nat /\ PhaseFits
        /\ running \in BOOLEAN /\ Billed(marks, kwh, spent, plan.driver)
    BY DEF LedgerInv
  <1>3. Billed(marks, kwh', spent', plan.driver)
    <2>1. CASE SaveBegins
      BY <1>2, <2>1 DEF SaveBegins
    <2>2. CASE SaveEnds
      <3> DEFINE what == IF plan.driver = "deferral" THEN "idle" ELSE "work"
      <3>1. Spend(1, what) /\ pc = "saving"
        BY <2>2 DEF SaveEnds
      <3>2. what \in {"work", "idle"} /\ Suits(marks, plan.driver, what, Intensity)
        BY <1>2, <3>1 DEF Suits, PhaseFits
      <3> HIDE DEF what
      <3> QED BY <3>1, <3>2, DriverSpends
    <2>3. CASE Sleep
      <3>1. Spend(1, "idle") /\ pc = "sleep"
        BY <2>3 DEF Sleep
      <3>2. Suits(marks, plan.driver, "idle", Intensity)
        BY <1>2, <3>1 DEF Suits, PhaseFits
      <3> QED BY <3>1, <3>2, DriverSpends
    <2> QED BY <2>1, <2>2, <2>3
  <1>4. Intensity' = Intensity
    BY <1>1 DEF Intensity, IntensityAt
  <1>5. PhaseFits'
    BY <1>1, <1>2, <1>4 DEF PhaseFits
  <1> QED BY <1>1, <1>2, <1>3, <1>5 DEF LedgerInv, Places

LEMMA ReleaseKeepsLedger ==
  ASSUME LedgerInv, Release
  PROVE  LedgerInv'
  <1> DEFINE d == plan.driver
             v == Intensity
             ns == marks'
  <1>1. /\ pc = "release" /\ pc' = "sleep" /\ running' = FALSE
        /\ plan' = plan /\ ticks' = ticks
        /\ IF d = "serverless" THEN ns = Append(marks, Mark("idle", 0, kwh, v)) ELSE ns = marks
    BY DEF Release, MarkNow, Intensity
  <1>2. PICK e \in 0..1 : Spend(e, "idle")
    BY DEF Release
  <1>3. /\ plan.schedule \in Schedules /\ plan.driver \in Drivers /\ ticks \in Nat /\ PhaseFits
        /\ Billed(marks, kwh, spent, d)
    BY DEF LedgerInv
  <1>4. v \in Int /\ Intensity' = v
    BY <1>1, <1>3, IntensityType DEF Intensity, IntensityAt
  <1>5. marks # <<>> /\ (d # "serverless" => Latest(marks).intensity = v)
        /\ (Latest(marks).phase = "idle" <=> d = "deferral")
        /\ (d # "serverless" => d = "deferral")
    <2>1. running
      BY <1>1, <1>3 DEF PhaseFits
    <2> QED BY <1>1, <1>3 DEF PhaseFits, Drivers
  <1>6. /\ Billed(ns, kwh, spent, d) /\ ns # <<>> /\ Latest(ns).phase = "idle"
        /\ (d # "serverless" => Latest(ns).intensity = v)
    <2>1. CASE d = "serverless"
      <3> DEFINE p == "idle"
      <3>1. IsMarked(marks, kwh, p, v, ns)
        BY <1>1, <1>3, <1>4, <2>1 DEF IsMarked, Billed, Phases
      <3> HIDE DEF p, d, v, ns
      <3>2. Billed(ns, kwh, spent, d) /\ ns # <<>> /\ Latest(ns).phase = p
        BY <1>3, <3>1, MarkKeepsBill
      <3> QED BY <2>1, <3>2 DEF p
    <2>2. CASE d # "serverless"
      BY <1>1, <1>3, <1>5, <2>2
    <2> QED BY <2>1, <2>2
  <1>7. Billed(ns, kwh', spent', d)
    <2> DEFINE sq == spent'
               what == "idle"
    <2>1. e \in Nat /\ kwh' = kwh + e
      BY <1>2 DEF Spend
    <2>2. SpentMore(e, what) = Spending(spent, e, what, v)
      BY DEF SpentMore, Spending
    <2>3. sq = IF ns = <<>> THEN spent ELSE Spending(spent, e, what, v)
      BY <1>2, <1>5, <1>6, <2>2 DEF Spend
    <2>4. Suits(ns, d, what, v)
      BY <1>6 DEF Suits
    <2>5. what \in {"work", "idle"}
      OBVIOUS
    <2> HIDE DEF what, sq, ns, d, v
    <2>6. Billed(ns, kwh + e, sq, d)
      BY <1>4, <1>6, <2>1, <2>3, <2>4, <2>5, SpendKeepsBill
    <2> QED BY <2>1, <2>6 DEF sq
  <1>8. PhaseFits'
    BY <1>1, <1>4, <1>6 DEF PhaseFits
  <1> QED BY <1>1, <1>3, <1>7, <1>8 DEF LedgerInv, Places

LEMMA StepLedger == LedgerInv /\ [Next]_vars => LedgerInv'
  <1> SUFFICES ASSUME LedgerInv, [Next]_vars PROVE LedgerInv'
    OBVIOUS
  <1>1. CASE TickPauses \/ TickRuns
    BY <1>1, TicksKeepLedger
  <1>2. CASE ColdStart \/ Load
    BY <1>2, StartsKeepLedger
  <1>3. CASE Build \/ Burst
    BY <1>3, BurstsKeepLedger
  <1>4. CASE SaveBegins \/ SaveEnds \/ Sleep
    BY <1>4, PausesKeepLedger
  <1>5. CASE Release
    BY <1>5, ReleaseKeepsLedger
  <1>6. CASE Ends \/ Dies
    <2>1. /\ pc' \in {"done", "dead"} /\ plan' = plan /\ ticks' = ticks /\ marks' = marks
          /\ kwh' = kwh /\ spent' = spent /\ (running' = running \/ running' = FALSE)
      BY <1>6 DEF Ends, Dies
    <2>2. PhaseFits'
      BY <2>1 DEF PhaseFits
    <2> QED BY <2>1, <2>2 DEF LedgerInv, Places
  <1>7. CASE Rerun
    <2>1. /\ marks' = <<>> /\ kwh' = 0 /\ spent' = [work |-> 0, idle |-> 0, carbon |-> 0]
          /\ pc' = "tick" /\ running' = FALSE /\ ticks' = 0 /\ plan' \in Plans(plan.run + 1)
      BY <1>7 DEF Rerun, Fresh
    <2>2. plan'.schedule \in Schedules /\ plan'.driver \in Drivers
      BY <2>1 DEF Plans
    <2>3. Rises(<<>>, 0) /\ Energy(Report(<<>>, 0, 0)) = 0 /\ Carbon(Report(<<>>, 0, 0)) = 0
          /\ Energy(OfPhase(Report(<<>>, 0, 0), "idle")) = 0
      BY NothingMarked
    <2>4. spent' \in Purposes /\ spent'.work = 0 /\ spent'.idle = 0 /\ spent'.carbon = 0
      BY <2>1 DEF Purposes
    <2>5. Billed(marks', kwh', spent', plan'.driver)
      BY <2>1, <2>3, <2>4 DEF Billed
    <2>6. PhaseFits'
      BY <2>1 DEF PhaseFits
    <2> QED BY <2>1, <2>2, <2>5, <2>6 DEF LedgerInv, Places
  <1>8. CASE UNCHANGED vars
    <2>1. /\ pc' = pc /\ plan' = plan /\ ticks' = ticks /\ marks' = marks
          /\ kwh' = kwh /\ spent' = spent /\ running' = running
      BY <1>8 DEF vars
    <2>2. Intensity' = Intensity
      BY <2>1 DEF Intensity, IntensityAt
    <2> QED BY <2>1, <2>2 DEF LedgerInv, PhaseFits
  <1> QED BY <1>1, <1>2, <1>3, <1>4, <1>5, <1>6, <1>7, <1>8 DEF Next, Drive

(* Each joule of a run is billed to the phase and at the intensity it was     *)
(* spent in, whatever the schedule and the threshold (pod_ledger.py:27-29).   *)
THEOREM BillsBalance == Spec => []BilledWhereSpent
  <1>1. LedgerInv => BilledWhereSpent
    BY DEF LedgerInv, Billed, BilledWhereSpent
  <1> QED BY <1>1, InitLedger, StepLedger, PTL DEF Spec

-----------------------------------------------------------------------------
(* A pause is invisible to the training.                                   *)

IsTrainer(t) ==
  /\ DOMAIN t = {"of", "model", "optim", "loader", "iters_done"}
  /\ t.of \in Nat /\ t.iters_done \in Nat
  /\ t.model \in Int /\ t.optim \in Int /\ t.loader \in Int

LEMMA TrainedFacts ==
  ASSUME NEW t, IsTrainer(t), NEW n \in Nat, NEW u, u = Trained(t, n)
  PROVE  /\ IsTrainer(u) /\ u.of = t.of
         /\ u.model = t.model + n /\ u.optim = t.optim + n
         /\ u.loader = t.loader + n /\ u.iters_done = t.iters_done + n
  <1>1. /\ u.of = t.of /\ u.model = t.model + n /\ u.optim = t.optim + n
        /\ u.loader = t.loader + n /\ u.iters_done = t.iters_done + n
    BY DEF IsTrainer, Trained
  <1>2. DOMAIN u = DOMAIN t
    BY DEF IsTrainer, Trained
  <1>3. /\ t.of \in Nat /\ t.iters_done + n \in Nat /\ t.model + n \in Int
        /\ t.optim + n \in Int /\ t.loader + n \in Int
    BY DEF IsTrainer
  <1> QED BY <1>1, <1>2, <1>3, Zenon DEF IsTrainer

LEMMA LoaderFacts ==
  ASSUME NEW t, IsTrainer(t), NEW u, u = WithLoader(t)
  PROVE  /\ IsTrainer(u) /\ u.of = t.of
         /\ u.model = t.model /\ u.optim = t.optim
         /\ u.loader = (IF t.loader = None THEN 0 ELSE t.loader) /\ u.iters_done = t.iters_done
  BY DEF IsTrainer, WithLoader

LEMMA BuiltFacts ==
  ASSUME NEW t, IsTrainer(t), NEW u, u = Built(t)
  PROVE  /\ IsTrainer(u) /\ u.of = t.of /\ u.model = 0 /\ u.optim = 0
         /\ u.loader = t.loader /\ u.iters_done = t.iters_done
  BY DEF IsTrainer, Built

LEMMA ReleasedFacts ==
  ASSUME NEW t, IsTrainer(t), NEW keep \in BOOLEAN, NEW u, u = Released(t, keep)
  PROVE  /\ IsTrainer(u) /\ u.of = t.of /\ u.model = None
         /\ u.loader = (IF keep THEN t.loader ELSE None) /\ u.iters_done = t.iters_done
  BY DEF IsTrainer, Released, None

\* The checkpoint of r's training after n iterations.
FileOf(r, n) == [kind |-> "saved", of |-> r, model |-> n, optim |-> n, iters_done |-> n]

LEMMA ColdFacts ==
  ASSUME NEW t, IsTrainer(t), NEW u, u = ColdInit(t)
  PROVE  /\ IsTrainer(u) /\ u.of = t.of /\ u.model = WarmupIters /\ u.optim = WarmupIters
         /\ u.loader = (IF t.loader = None THEN 0 ELSE t.loader) + WarmupIters
         /\ u.iters_done = t.iters_done + WarmupIters
  <1> DEFINE b == Built(t)
             l == WithLoader(b)
  <1>1. /\ IsTrainer(b) /\ b.of = t.of /\ b.model = 0 /\ b.optim = 0
        /\ b.loader = t.loader /\ b.iters_done = t.iters_done
    BY BuiltFacts
  <1> HIDE DEF b
  <1>2. /\ IsTrainer(l) /\ l.of = t.of /\ l.model = 0 /\ l.optim = 0
        /\ l.loader = (IF t.loader = None THEN 0 ELSE t.loader) /\ l.iters_done = t.iters_done
    BY <1>1, LoaderFacts
  <1> HIDE DEF l
  <1>3. u = Trained(l, WarmupIters) /\ WarmupIters \in Nat
    BY TrainerAssumption DEF ColdInit, l, b
  <1>4. /\ IsTrainer(u) /\ u.of = l.of
        /\ u.model = l.model + WarmupIters /\ u.optim = l.optim + WarmupIters
        /\ u.loader = l.loader + WarmupIters /\ u.iters_done = l.iters_done + WarmupIters
    BY <1>2, <1>3, TrainedFacts
  <1> QED BY <1>2, <1>3, <1>4

Resumes(t, r, n, f, u) ==
  IsTrainer(t) /\ r \in Nat /\ n \in Nat /\ f = FileOf(r, n) /\ u = Resumed(t, f)

LEMMA ResumedFacts ==
  ASSUME NEW t, NEW r, NEW n, NEW f, NEW u, Resumes(t, r, n, f, u)
  PROVE  /\ IsTrainer(u) /\ u.of = r /\ u.model = n + WarmupIters /\ u.optim = n + WarmupIters
         /\ u.loader = (IF t.loader = None THEN 0 ELSE t.loader) + WarmupIters
         /\ u.iters_done = n + WarmupIters
  <1> USE DEF Resumes
  <1> DEFINE b == Restored(t, f)
             l == WithLoader(b)
  <1>2. /\ IsTrainer(b) /\ b.of = r /\ b.model = n /\ b.optim = n
        /\ b.loader = t.loader /\ b.iters_done = n
    BY DEF Restored, FileOf, IsTrainer
  <1> HIDE DEF b
  <1>3. /\ IsTrainer(l) /\ l.of = r /\ l.model = n /\ l.optim = n
        /\ l.loader = (IF t.loader = None THEN 0 ELSE t.loader) /\ l.iters_done = n
    BY <1>2, LoaderFacts
  <1> HIDE DEF l
  <1>4. u = Trained(l, WarmupIters) /\ WarmupIters \in Nat
    BY TrainerAssumption DEF Resumed, l, b
  <1>5. /\ IsTrainer(u) /\ u.of = l.of
        /\ u.model = l.model + WarmupIters /\ u.optim = l.optim + WarmupIters
        /\ u.loader = l.loader + WarmupIters /\ u.iters_done = l.iters_done + WarmupIters
    BY <1>3, <1>4, TrainedFacts
  <1> QED BY <1>3, <1>4, <1>5

\* The checkpoint stands for the model whenever the model is off the GPU.
TrainInv ==
  LET n == trainer.iters_done IN
  /\ plan.run \in Nat /\ plan.driver \in Drivers
  /\ pc \in Places /\ running \in BOOLEAN /\ ever_started \in BOOLEAN
  /\ IsTrainer(trainer) /\ trainer.of = plan.run
  /\ ~ever_started => /\ trainer.model = None /\ trainer.loader = None /\ n = 0
                      /\ ~running /\ pc \in {"tick", "start", "sleep", "done", "dead"}
  /\ ever_started /\ running /\ ~Over => trainer.model = n /\ trainer.optim = n
  /\ ever_started /\ ~running /\ ~Over =>
       /\ ckpt = FileOf(plan.run, n)
       /\ pc = "load" \/ trainer.model = None
  /\ ever_started /\ ~Over /\ plan.driver = "deferral" => trainer.loader = n
  /\ pc \in {"burst", "save", "saving", "release"} => running
  /\ pc \in {"start", "load", "sleep"} => ~running
  /\ pc = "release" => ckpt = FileOf(plan.run, n)

LEMMA WhatIsHeld ==
  ASSUME TrainInv
  PROVE  /\ Held("model") = trainer.iters_done /\ Held("optim") = trainer.iters_done
         /\ DataSeen = trainer.iters_done
  <1> DEFINE n == trainer.iters_done
  <1>1. n \in Nat /\ None # n /\ running \in BOOLEAN
    BY DEF TrainInv, IsTrainer, None
  <1>2. ever_started /\ ~running /\ ~Over => ckpt["model"] = n /\ ckpt["optim"] = n
    BY DEF TrainInv, FileOf
  <1>3. pc = "load" => ~running
    BY DEF TrainInv
  <1>4. CASE ~ever_started
    BY <1>4 DEF TrainInv, Held, DataSeen
  <1>5. CASE ever_started /\ Over
    BY <1>5 DEF Held, DataSeen
  <1>6. CASE ever_started /\ ~Over
    <2>1. DataSeen = n
      BY <1>1, <1>6 DEF TrainInv, DataSeen
    <2>2. CASE running
      <3>1. ~OffGpu /\ trainer["model"] = n /\ trainer["optim"] = n
        BY <1>1, <1>3, <1>6, <2>2 DEF TrainInv, OffGpu
      <3> QED BY <1>6, <2>1, <3>1 DEF Held
    <2>3. CASE ~running
      <3>1. OffGpu
        BY <1>6, <2>3 DEF TrainInv, OffGpu
      <3> QED BY <1>2, <1>6, <2>1, <2>3, <3>1 DEF Held
    <2> QED BY <2>2, <2>3
  <1> QED BY <1>4, <1>5, <1>6

Goes ==
  \/ trainer'.of = trainer.of /\ trainer'.iters_done >= trainer.iters_done
  \/ trainer'.of = trainer.of + 1 /\ trainer'.iters_done = 0

LEMMA NewTrainerFacts ==
  ASSUME NEW r \in Nat, NEW u, u = NewTrainer(r)
  PROVE  /\ IsTrainer(u) /\ u.of = r /\ u.model = None /\ u.loader = None
         /\ u.iters_done = 0
  BY DEF IsTrainer, NewTrainer, None

LEMMA InitTrain == Init => TrainInv
  <1> SUFFICES ASSUME Init PROVE TrainInv
    OBVIOUS
  <1>1. /\ plan.run = 1 /\ plan.driver \in Drivers /\ pc = "tick" /\ running = FALSE
        /\ ever_started = FALSE /\ trainer = NewTrainer(1)
    BY DEF Init, Plans
  <1>2. /\ IsTrainer(trainer) /\ trainer.of = 1 /\ trainer.model = None
        /\ trainer.loader = None /\ trainer.iters_done = 0
    BY <1>1, NewTrainerFacts
  <1>a. ~ever_started /\ ~running
    BY <1>1
  <1>b. running \in BOOLEAN /\ ever_started \in BOOLEAN
    BY <1>1
  <1>3. plan.run \in Nat /\ pc \in Places
    BY <1>1 DEF Places
  <1>4. pc \in {"tick", "start", "sleep", "done", "dead"}
        /\ pc \notin {"burst", "save", "saving", "release"} /\ pc # "release"
    BY <1>1
  <1> QED BY <1>1, <1>2, <1>3, <1>4, <1>a, <1>b DEF TrainInv

\* The steps that leave the trainer alone.
LEMMA OthersKeepTraining ==
  ASSUME TrainInv, TickPauses \/ TickRuns \/ SaveBegins \/ Sleep \/ Dies
  PROVE  TrainInv' /\ Goes
  <1>1. /\ plan' = plan /\ trainer' = trainer /\ running' = running
        /\ ever_started' = ever_started
        /\ \/ pc = "tick" /\ pc' \in {"save", "burst"} /\ running /\ ckpt' = ckpt
           \/ pc = "tick" /\ pc' \in {"sleep", "start"} /\ ~running /\ ckpt' = ckpt
           \/ pc = "save" /\ pc' = "saving"
           \/ pc = "sleep" /\ pc' = "tick" /\ ckpt' = ckpt
           \/ pc' = "dead" /\ ckpt' = ckpt
    BY DEF TickPauses, TickRuns, SaveBegins, Sleep, Dies, TrainInv
  <1>2. Goes
    BY <1>1 DEF Goes, TrainInv, IsTrainer
  <1>3. TrainInv'
    <2>1. /\ plan.run \in Nat /\ plan.driver \in Drivers
          /\ running \in BOOLEAN /\ ever_started \in BOOLEAN
          /\ IsTrainer(trainer) /\ trainer.of = plan.run /\ pc' \in Places
      BY <1>1 DEF TrainInv, Places
    <2>2. CASE pc' = "dead"
      BY <1>1, <2>1, <2>2 DEF TrainInv, Over
    <2>3. CASE pc' # "dead"
      <3>1. ~Over /\ ~Over' /\ pc' # "load" /\ pc' # "release" /\ pc # "load"
        BY <1>1, <2>3 DEF Over
      <3>2. running => trainer.model = trainer.iters_done /\ trainer.optim = trainer.iters_done
        BY <3>1 DEF TrainInv
      <3>3. ever_started /\ ~running =>
              ckpt' = FileOf(plan.run, trainer.iters_done) /\ trainer.model = None
        BY <1>1, <3>1 DEF TrainInv
      <3>4. /\ pc' \in {"burst", "save", "saving", "release"} => running
            /\ pc' \in {"start", "load", "sleep"} => ~running
        BY <1>1 DEF TrainInv
      <3>5. ~ever_started =>
              /\ trainer.model = None /\ trainer.loader = None /\ trainer.iters_done = 0
              /\ ~running /\ pc' \in {"tick", "start", "sleep", "done", "dead"}
        BY <1>1 DEF TrainInv
      <3>6. ever_started /\ plan.driver = "deferral" => trainer.loader = trainer.iters_done
        BY <3>1 DEF TrainInv
      <3> QED BY <1>1, <2>1, <3>1, <3>2, <3>3, <3>4, <3>5, <3>6 DEF TrainInv
    <2> QED BY <2>2, <2>3
  <1> QED BY <1>2, <1>3

LEMMA ColdKeepsTraining ==
  ASSUME TrainInv, ColdStart
  PROVE  TrainInv' /\ Goes
  <1>1. /\ ~ever_started /\ trainer' = ColdInit(trainer) /\ running' = TRUE
        /\ ever_started' = TRUE /\ pc' = "burst" /\ plan' = plan
    BY DEF ColdStart, Started
  <1>2. /\ IsTrainer(trainer) /\ trainer.of = plan.run /\ plan.run \in Nat
        /\ plan.driver \in Drivers /\ trainer.loader = None /\ trainer.iters_done = 0
    BY <1>1 DEF TrainInv
  <1> DEFINE u == trainer'
  <1>3. /\ IsTrainer(u) /\ u.of = trainer.of /\ u.model = WarmupIters /\ u.optim = WarmupIters
        /\ u.loader = (IF trainer.loader = None THEN 0 ELSE trainer.loader) + WarmupIters
        /\ u.iters_done = trainer.iters_done + WarmupIters
    <2> HIDE DEF u
    <2>1. u = ColdInit(trainer)
      BY <1>1 DEF u
    <2> QED BY <1>2, <2>1, ColdFacts
  <1>4. u.loader = WarmupIters /\ u.iters_done = WarmupIters /\ WarmupIters \in Nat
    BY <1>2, <1>3, TrainerAssumption
  <1>5. Goes
    BY <1>2, <1>3, <1>4 DEF Goes
  <1>6. TrainInv'
    BY <1>1, <1>2, <1>3, <1>4 DEF TrainInv, Places, Over
  <1> QED BY <1>5, <1>6

LEMMA BuildKeepsTraining ==
  ASSUME TrainInv, Build
  PROVE  TrainInv' /\ Goes
  <1>1. /\ pc = "start" /\ ever_started /\ trainer' = Built(trainer) /\ pc' = "load"
        /\ plan' = plan /\ ckpt' = ckpt /\ running' = running /\ ever_started' = ever_started
    BY DEF Build
  <1>2. /\ IsTrainer(trainer) /\ trainer.of = plan.run /\ plan.run \in Nat
        /\ plan.driver \in Drivers /\ ~running /\ ckpt = FileOf(plan.run, trainer.iters_done)
        /\ plan.driver = "deferral" => trainer.loader = trainer.iters_done
    BY <1>1 DEF TrainInv, Over
  <1> DEFINE u == trainer'
  <1>3. /\ IsTrainer(u) /\ u.of = trainer.of /\ u.model = 0 /\ u.optim = 0
        /\ u.loader = trainer.loader /\ u.iters_done = trainer.iters_done
    <2> HIDE DEF u
    <2>1. u = Built(trainer)
      BY <1>1 DEF u
    <2> QED BY <1>2, <2>1, BuiltFacts
  <1>4. Goes
    BY <1>2, <1>3 DEF Goes, IsTrainer
  <1>5. TrainInv'
    BY <1>1, <1>2, <1>3 DEF TrainInv, Places, Over
  <1> QED BY <1>4, <1>5

LEMMA LoadKeepsTraining ==
  ASSUME TrainInv, Load
  PROVE  TrainInv' /\ Goes
  <1>1. /\ pc = "load" /\ trainer' = Resumed(trainer, ckpt) /\ pc' = "burst"
        /\ running' = TRUE /\ ever_started' = TRUE /\ plan' = plan
    BY DEF Load, Started
  <1> DEFINE u == trainer'
             n == trainer.iters_done
  <1>2. /\ IsTrainer(trainer) /\ trainer.of = plan.run /\ plan.run \in Nat
        /\ plan.driver \in Drivers /\ ever_started /\ ~running
        /\ ckpt = FileOf(plan.run, n) /\ n \in Nat
        /\ plan.driver = "deferral" => trainer.loader = n
    BY <1>1 DEF TrainInv, Over, IsTrainer
  <1>3. /\ IsTrainer(u) /\ u.of = plan.run
        /\ u.model = n + WarmupIters /\ u.optim = n + WarmupIters
        /\ u.loader = (IF trainer.loader = None THEN 0 ELSE trainer.loader) + WarmupIters
        /\ u.iters_done = n + WarmupIters
    <2> DEFINE r == plan.run
    <2>1. u = Resumed(trainer, ckpt) /\ ckpt = FileOf(r, n)
      BY <1>1, <1>2
    <2> HIDE DEF u, r, n
    <2>2. /\ IsTrainer(u) /\ u.of = r
          /\ u.model = n + WarmupIters /\ u.optim = n + WarmupIters
          /\ u.loader = (IF trainer.loader = None THEN 0 ELSE trainer.loader) + WarmupIters
          /\ u.iters_done = n + WarmupIters
      <3>1. IsTrainer(trainer) /\ r \in Nat /\ n \in Nat
        BY <1>2 DEF n, r
      <3>2. Resumes(trainer, r, n, ckpt, u)
        BY <2>1, <3>1 DEF Resumes
      <3> QED BY <3>2, ResumedFacts
    <2> QED BY <2>2 DEF r
  <1>4. WarmupIters \in Nat /\ (plan.driver = "deferral" => u.loader = n + WarmupIters)
    BY <1>2, <1>3, TrainerAssumption DEF None
  <1>5. Goes
    BY <1>2, <1>3, <1>4 DEF Goes
  <1>6. TrainInv'
    BY <1>1, <1>2, <1>3, <1>4 DEF TrainInv, Places, Over
  <1> QED BY <1>5, <1>6

LEMMA BurstKeepsTraining ==
  ASSUME TrainInv, Burst
  PROVE  TrainInv' /\ Goes
  <1>1. /\ pc = "burst" /\ pc' \in {"burst", "tick"} /\ plan' = plan /\ ckpt' = ckpt
        /\ running' = running /\ ever_started' = ever_started
        /\ trainer' = Trained(trainer, Chunk) \/ trainer' = trainer
    BY DEF Burst
  <1> DEFINE u == trainer'
             n == trainer.iters_done
  <1>2. /\ IsTrainer(trainer) /\ trainer.of = plan.run /\ plan.run \in Nat
        /\ plan.driver \in Drivers /\ running /\ ever_started /\ n \in Nat
        /\ trainer.model = n /\ trainer.optim = n
        /\ plan.driver = "deferral" => trainer.loader = n
    BY <1>1 DEF TrainInv, Over, IsTrainer
  <1>3. PICK c \in Nat :
          /\ IsTrainer(u) /\ u.of = trainer.of
          /\ u.model = n + c /\ u.optim = n + c /\ u.iters_done = n + c
          /\ plan.driver = "deferral" => u.loader = n + c
    <2>1. CASE u = Trained(trainer, Chunk)
      <3>0. IsTrainer(trainer)
        BY <1>2
      <3>1. Chunk \in Nat
        BY TrainerAssumption
      <3> HIDE DEF u
      <3>2. /\ IsTrainer(u) /\ u.of = trainer.of
            /\ u.model = trainer.model + Chunk /\ u.optim = trainer.optim + Chunk
            /\ u.loader = trainer.loader + Chunk /\ u.iters_done = trainer.iters_done + Chunk
        BY <2>1, <3>0, <3>1, TrainedFacts
      <3> QED BY <1>2, <3>1, <3>2
    <2>2. CASE u = trainer
      BY <1>2, <2>2
    <2> QED BY <1>1, <2>1, <2>2
  <1>4. Goes
    BY <1>2, <1>3 DEF Goes
  <1>5. TrainInv'
    BY <1>1, <1>2, <1>3 DEF TrainInv, Places, Over
  <1> QED BY <1>4, <1>5

LEMMA SaveKeepsTraining ==
  ASSUME TrainInv, SaveEnds
  PROVE  TrainInv' /\ Goes
  <1>1. /\ pc = "saving" /\ pc' = "release" /\ plan' = plan /\ ckpt' = Saved(trainer)
        /\ running' = running /\ ever_started' = ever_started /\ trainer' = trainer
    BY DEF SaveEnds
  <1>2. /\ trainer.of = plan.run /\ running /\ ever_started
        /\ trainer.model = trainer.iters_done /\ trainer.optim = trainer.iters_done
    BY <1>1 DEF TrainInv, Over
  <1>3. ckpt' = FileOf(plan.run, trainer.iters_done)
    BY <1>1, <1>2 DEF Saved, FileOf
  <1>4. Goes
    BY <1>1 DEF Goes, TrainInv, IsTrainer
  <1>5. TrainInv'
    BY <1>1, <1>2, <1>3 DEF TrainInv, Places, Over
  <1> QED BY <1>4, <1>5

LEMMA ReleaseKeepsTraining ==
  ASSUME TrainInv, Release
  PROVE  TrainInv' /\ Goes
  <1> DEFINE u == trainer'
             n == trainer.iters_done
             keep == plan.driver = "deferral"
  <1>1. /\ pc = "release" /\ pc' = "sleep" /\ plan' = plan /\ ckpt' = ckpt
        /\ running' = FALSE /\ ever_started' = ever_started /\ u = Released(trainer, keep)
    BY DEF Release
  <1>2. /\ IsTrainer(trainer) /\ trainer.of = plan.run /\ plan.run \in Nat
        /\ plan.driver \in Drivers /\ running /\ ever_started
        /\ ckpt = FileOf(plan.run, n)
        /\ keep => trainer.loader = n
    BY <1>1 DEF TrainInv, Over
  <1>3. /\ IsTrainer(u) /\ u.of = trainer.of /\ u.model = None
        /\ u.loader = (IF keep THEN trainer.loader ELSE None) /\ u.iters_done = n
    <2>0. IsTrainer(trainer) /\ keep \in BOOLEAN
      BY <1>2
    <2> HIDE DEF u, keep
    <2>1. u = Released(trainer, keep)
      BY <1>1
    <2> QED BY <2>0, <2>1, ReleasedFacts
  <1>4. Goes
    BY <1>2, <1>3 DEF Goes, IsTrainer
  <1>5. TrainInv'
    BY <1>1, <1>2, <1>3 DEF TrainInv, Places, Over
  <1> QED BY <1>4, <1>5

LEMMA EndKeepsTraining ==
  ASSUME TrainInv, Ends
  PROVE  TrainInv' /\ Goes
  <1> DEFINE u == trainer'
             no == FALSE
  <1>1. /\ pc = "tick" /\ pc' = "done" /\ plan' = plan
        /\ running' = (IF plan.driver = "deferral" THEN FALSE ELSE running)
        /\ ever_started' = ever_started
    BY DEF Ends
  <1>2. u = trainer \/ u = Released(trainer, no)
    BY DEF Ends
  <1>3. /\ IsTrainer(trainer) /\ trainer.of = plan.run /\ plan.run \in Nat
        /\ plan.driver \in Drivers /\ running \in BOOLEAN /\ ever_started \in BOOLEAN
        /\ ~ever_started => trainer.model = None /\ trainer.loader = None
                            /\ trainer.iters_done = 0 /\ ~running
    BY <1>1 DEF TrainInv
  <1>4. /\ IsTrainer(u) /\ u.of = trainer.of /\ u.iters_done = trainer.iters_done
        /\ ~ever_started => u.model = None /\ u.loader = None
    <2>1. CASE u = trainer
      BY <1>3, <2>1
    <2>2. CASE u = Released(trainer, no)
      <3>1. no \in BOOLEAN /\ ~no /\ IsTrainer(trainer)
        BY <1>3
      <3> HIDE DEF u, no
      <3>2. /\ IsTrainer(u) /\ u.of = trainer.of /\ u.model = None
            /\ u.loader = (IF no THEN trainer.loader ELSE None)
            /\ u.iters_done = trainer.iters_done
        BY <2>2, <3>1, ReleasedFacts
      <3> QED BY <3>1, <3>2
    <2> QED BY <1>2, <2>1, <2>2
  <1>5. Goes
    BY <1>3, <1>4 DEF Goes, IsTrainer
  <1>6. running' \in BOOLEAN /\ (~ever_started => ~running')
    BY <1>1, <1>3
  <1>7. TrainInv'
    BY <1>1, <1>3, <1>4, <1>6 DEF TrainInv, Places, Over
  <1> QED BY <1>5, <1>7

LEMMA RerunKeepsTraining ==
  ASSUME TrainInv, Rerun
  PROVE  TrainInv' /\ Goes
  <1> DEFINE u == trainer'
             r == plan'.run
  <1>1. /\ plan' \in Plans(plan.run + 1) /\ pc' = "tick" /\ u = NewTrainer(r)
        /\ running' = FALSE /\ ever_started' = FALSE
    BY DEF Rerun
  <1>2. plan.run \in Nat /\ trainer.of = plan.run
    BY DEF TrainInv
  <1>3. r = plan.run + 1 /\ plan'.driver \in Drivers
    BY <1>1 DEF Plans
  <1>4. r \in Nat
    BY <1>2, <1>3
  <1> HIDE DEF u, r
  <1>5. /\ IsTrainer(u) /\ u.of = r /\ u.model = None /\ u.loader = None /\ u.iters_done = 0
    BY <1>1, <1>4, NewTrainerFacts
  <1>6. Goes
    BY <1>2, <1>3, <1>5 DEF Goes, u
  <1>a. ~ever_started' /\ ~running'
    BY <1>1
  <1>b. running' \in BOOLEAN /\ ever_started' \in BOOLEAN
    BY <1>1
  <1>7. TrainInv'
    BY <1>1, <1>3, <1>4, <1>5, <1>a, <1>b DEF TrainInv, Places, u, r
  <1> QED BY <1>6, <1>7

LEMMA StepTrain ==
  ASSUME TrainInv, [Next]_vars
  PROVE  TrainInv' /\ (Goes \/ UNCHANGED vars)
  <1>1. CASE UNCHANGED vars
    BY <1>1 DEF vars, TrainInv, Over, IsTrainer
  <1>2. CASE Next
    BY <1>2, OthersKeepTraining, ColdKeepsTraining, BuildKeepsTraining, LoadKeepsTraining,
       BurstKeepsTraining, SaveKeepsTraining, ReleaseKeepsTraining, EndKeepsTraining,
       RerunKeepsTraining DEF Next, Drive
  <1> QED BY <1>1, <1>2

(* Pausing, saving, releasing and resuming are invisible: a deferred training *)
(* is an uninterrupted one, whatever the schedule, the threshold and the      *)
(* moments at which runs die (host_trainer.py:82).                            *)
THEOREM PausesAreInvisible == Spec => ImplementsTraining
  <1> DEFINE w == Held("model")
             m == Held("optim")
             d == DataSeen
             r == trainer.of
             n == trainer.iters_done
  <1>0. TrainInv => w = n /\ m = n /\ d = n /\ n \in Nat /\ r \in Nat
    BY WhatIsHeld DEF TrainInv, IsTrainer
  <1>1. Init => Uninterrupted!Init
    <2> SUFFICES ASSUME Init PROVE Uninterrupted!Init
      OBVIOUS
    <2>1. TrainInv
      BY InitTrain
    <2>2. w = n /\ m = n /\ d = n
      BY <2>1, WhatIsHeld
    <2>3. n = 0 /\ r \in Nat
      BY DEF Init, NewTrainer
    <2> QED BY <2>2, <2>3 DEF Uninterrupted!Init
  <1>2. TrainInv /\ [Next]_vars => [Uninterrupted!Next]_<<r, w, m, d>>
    <2> SUFFICES ASSUME TrainInv, [Next]_vars
                 PROVE  [Uninterrupted!Next]_<<r, w, m, d>>
      OBVIOUS
    <2>1. TrainInv' /\ (Goes \/ UNCHANGED vars)
      BY StepTrain
    <2>2. w = n /\ m = n /\ d = n /\ n \in Nat /\ r \in Nat
      BY <1>0
    <2>3. w' = n' /\ m' = n' /\ d' = n' /\ n' \in Nat /\ r' \in Nat
      <3>1. (w = n /\ m = n /\ d = n /\ n \in Nat /\ r \in Nat)'
        BY <1>0, <2>1, PTL
      <3> QED BY <3>1
    <2>4. (r' = r /\ n' >= n) \/ (r' = r + 1 /\ n' = 0)
      BY <2>1, <2>2 DEF Goes, vars
    <2>5. CASE r' = r /\ n' = n
      BY <2>2, <2>3, <2>5
    <2>6. CASE r' = r /\ n' > n
      <3>1. n' - n \in Nat \ {0} /\ n' = n + (n' - n)
        BY <2>2, <2>3, <2>6
      <3> QED BY <2>2, <2>3, <2>6, <3>1 DEF Uninterrupted!Next, Uninterrupted!Train
    <2>7. CASE r' = r + 1 /\ n' = 0
      BY <2>2, <2>3, <2>7 DEF Uninterrupted!Next, Uninterrupted!Rerun
    <2> QED BY <2>2, <2>3, <2>4, <2>5, <2>6, <2>7
  <1> QED BY <1>1, <1>2, InitTrain, StepTrain, PTL
          DEF Spec, ImplementsTraining, Uninterrupted!Spec, Uninterrupted!trainingVars
=============================================================================
