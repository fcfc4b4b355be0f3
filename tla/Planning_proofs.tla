---------------------------- MODULE Planning_proofs ----------------------------
(* Proofs about the policies that answer step by step: the runs towards a     *)
(* deadline, the epoch drivers and the agent's episodes, the steering         *)
(* policies and the first service, the estimates of carbon, the tests, the    *)
(* pauses and the greedy allocators, for every number of hours, ticks, jobs,  *)
(* GPUs and windows, every rate, curve and intensity, forecast or choice.     *)
EXTENDS Planning, SumLemmas, SequenceTheorems

-----------------------------------------------------------------------------
(* Choosing what costs least.                                                *)

\* g is the first of the cheapest of S.
IsCheapest(S, c, g) ==
  g \in S /\ \A h \in S : c[g] < c[h] \/ (c[g] = c[h] /\ g <= h)

LEMMA CheapestExists ==
  ASSUME NEW S \in SUBSET Nat, IsFiniteSet(S), S # {}, NEW c \in [S -> Int]
  PROVE  \E g : IsCheapest(S, c, g)
  <1> DEFINE size == [g \in S |-> IF c[g] >= 0 THEN c[g] ELSE -c[g]]
             total == SumFunctionOnSet(size, S)
             a == [g \in S |-> c[g] + total]
             b == [g \in S |-> g]
  <1>1. \A g \in S : c[g] \in Int
    OBVIOUS
  <1>2. \A g \in S : size[g] \in Nat /\ 0 <= c[g] + size[g]
    BY <1>1
  <1> HIDE DEF size
  <1>3. total \in Nat /\ \A g \in S : size[g] <= total
    BY <1>2, SumBounds
  <1> HIDE DEF total
  <1>4. a \in [S -> Nat] /\ b \in [S -> Nat]
    BY <1>1, <1>2, <1>3
  <1> HIDE DEF a, b
  <1>5. PICK g \in S : \A h \in S : a[g] < a[h] \/ (a[g] = a[h] /\ b[g] <= b[h])
    BY <1>4, LeastOfEquals, ZenonT(30)
  <1>6. \A h \in S : c[g] < c[h] \/ (c[g] = c[h] /\ g <= h)
    BY <1>1, <1>3, <1>5 DEF a, b
  <1> QED BY <1>6 DEF IsCheapest

LEMMA RateFacts ==
  ASSUME NEW rate \in Seq(Nat), rate # <<>>
  PROVE  /\ DOMAIN rate = 1..Len(rate) /\ Len(rate) \in Nat \ {0} /\ Len(rate) \in DOMAIN rate
         /\ DOMAIN rate \in SUBSET Nat /\ IsFiniteSet(DOMAIN rate) /\ DOMAIN rate # {}
         /\ \A a \in DOMAIN rate : rate[a] \in Nat
  <1>1. DOMAIN rate = 1..Len(rate) /\ Len(rate) \in Nat /\ Len(rate) # 0
    OBVIOUS
  <1>2. IsFiniteSet(1..Len(rate))
    BY <1>1, FS_Interval
  <1>3. Len(rate) \in Nat \ {0} /\ Len(rate) \in 1..Len(rate) /\ 1..Len(rate) \in SUBSET Nat
    BY <1>1
  <1>4. \A a \in 1..Len(rate) : rate[a] \in Nat
    OBVIOUS
  <1> QED BY <1>1, <1>2, <1>3, <1>4, Zenon

(* PrimalChoice picks a width.                                                *)
LEMMA PrimalChoiceType ==
  ASSUME NEW d, d.rate \in Seq(Nat), d.rate # <<>>, d.energy \in [DOMAIN d.rate -> Nat],
         NEW lambda \in Nat, NEW intensity \in Nat
  PROVE  /\ PrimalChoice(d, lambda, intensity) \in DOMAIN d.rate
         /\ \A g \in DOMAIN d.rate :
              \/ Lagrangian(d, lambda, intensity, PrimalChoice(d, lambda, intensity))
                    < Lagrangian(d, lambda, intensity, g)
              \/ /\ Lagrangian(d, lambda, intensity, PrimalChoice(d, lambda, intensity))
                       = Lagrangian(d, lambda, intensity, g)
                 /\ PrimalChoice(d, lambda, intensity) <= g
  <1> DEFINE S == DOMAIN d.rate
             c == [g \in S |-> Lagrangian(d, lambda, intensity, g)]
             chosen == PrimalChoice(d, lambda, intensity)
  <1>1. S \in SUBSET Nat /\ IsFiniteSet(S) /\ S # {} /\ \A g \in S : d.rate[g] \in Nat
    BY RateFacts
  <1>2. \A g \in S : Lagrangian(d, lambda, intensity, g) \in Int
    BY <1>1, SMTT(30) DEF Lagrangian
  <1>3. c \in [S -> Int]
    BY <1>2
  <1>4. chosen = CHOOSE g \in S : \A h \in S :
                   Lagrangian(d, lambda, intensity, g) < Lagrangian(d, lambda, intensity, h)
                   \/ (Lagrangian(d, lambda, intensity, g) = Lagrangian(d, lambda, intensity, h)
                       /\ g <= h)
    BY DEF PrimalChoice, Cheapest
  <1>5. \A g \in S : c[g] = Lagrangian(d, lambda, intensity, g)
    OBVIOUS
  <1> HIDE DEF c, S
  <1>6. PICK g : IsCheapest(S, c, g)
    BY <1>1, <1>3, CheapestExists
  <1>7. /\ chosen \in S
        /\ \A h \in S :
             Lagrangian(d, lambda, intensity, chosen) < Lagrangian(d, lambda, intensity, h)
             \/ (Lagrangian(d, lambda, intensity, chosen) = Lagrangian(d, lambda, intensity, h)
                 /\ chosen <= h)
    BY <1>4, <1>5, <1>6, Zenon DEF IsCheapest
  <1> QED BY <1>7, Zenon DEF chosen, S

-----------------------------------------------------------------------------
(* The search by halving: for a set E of multipliers that are enough, a range *)
(* whose upper end is enough leads to one that is.                            *)

Ends == (0..LambdaHi) \X (0..LambdaHi)
Middle(ends) == (ends[1] + ends[2]) \div 2

\* One step of the search f over E.
Halved(f, E, ends) ==
  IF ends[2] - ends[1] <= 1 THEN ends[2]
  ELSE IF Middle(ends) \in E THEN f[<<ends[1], Middle(ends)>>]
  ELSE f[<<Middle(ends), ends[2]>>]

Searches(f, E) == \A ends \in Ends : f[ends] = Halved(f, E, ends)

LEMMA HalvesAreShorter ==
  ASSUME NEW ends \in Ends
  PROVE  /\ ends[1] \in 0..LambdaHi /\ ends[2] \in 0..LambdaHi /\ ends = <<ends[1], ends[2]>>
         /\ ends[2] - ends[1] > 1 =>
              /\ Middle(ends) \in 0..LambdaHi /\ ends[1] < Middle(ends) /\ Middle(ends) < ends[2]
              /\ <<ends[1], Middle(ends)>> \in Ends /\ <<Middle(ends), ends[2]>> \in Ends
  <1>1. LambdaHi \in Nat
    BY LambdaAssumption
  <1>2. ends[1] \in 0..LambdaHi /\ ends[2] \in 0..LambdaHi /\ ends = <<ends[1], ends[2]>>
    BY DEF Ends
  <1>3. ASSUME ends[2] - ends[1] > 1
        PROVE  Middle(ends) \in 0..LambdaHi /\ ends[1] < Middle(ends) /\ Middle(ends) < ends[2]
    <2> PICK lo \in 0..LambdaHi, hi \in 0..LambdaHi : lo = ends[1] /\ hi = ends[2]
      BY <1>2
    <2>1. lo \in Int /\ hi \in Int /\ hi - lo > 1 /\ lo >= 0 /\ hi <= LambdaHi
      BY <1>1, <1>3
    <2>2. (lo + hi) \div 2 \in Int /\ lo < (lo + hi) \div 2 /\ (lo + hi) \div 2 < hi
      BY <2>1
    <2> QED BY <1>1, <2>1, <2>2 DEF Middle
  <1>4. ends[2] - ends[1] > 1 =>
          <<ends[1], Middle(ends)>> \in Ends /\ <<Middle(ends), ends[2]>> \in Ends
    BY <1>2, <1>3 DEF Ends
  <1> QED BY <1>2, <1>3, <1>4

LEMMA EndsType ==
  \A ends \in Ends :
    /\ ends[1] \in Int /\ ends[2] \in Int
    /\ ends[2] - ends[1] <= LambdaHi
  <1> SUFFICES ASSUME NEW ends \in Ends
               PROVE  /\ ends[1] \in Int /\ ends[2] \in Int
                      /\ ends[2] - ends[1] <= LambdaHi
    OBVIOUS
  <1>1. ends[1] \in 0..LambdaHi /\ ends[2] \in 0..LambdaHi
    BY HalvesAreShorter
  <1> QED BY <1>1, LambdaAssumption

LEMMA SearchExists ==
  ASSUME NEW E
  PROVE  \E f : f = [ends \in Ends |-> Halved(f, E, ends)]
  <1> DEFINE Upto(n, f) == \A ends \in Ends : ends[2] - ends[1] <= n => f[ends] = Halved(f, E, ends)
             P == {n \in Nat : \E f : Upto(n, f)}
             none == [ends \in Ends |-> ends[2]]
  <1>1. \A ends \in Ends : ends[1] \in Int /\ ends[2] \in Int
    BY EndsType
  <1>2. Upto(0, none)
    BY <1>1 DEF Halved
  <1>3. 0 \in P
    BY <1>2
  <1>4. ASSUME NEW n \in Nat, n \in P PROVE n + 1 \in P
    <2>1. PICK f : Upto(n, f)
      BY <1>4
    <2> DEFINE g == [ends \in Ends |-> Halved(f, E, ends)]
    <2>2. ASSUME NEW ends \in Ends, ends[2] - ends[1] <= n + 1 PROVE g[ends] = Halved(g, E, ends)
      <3>1. CASE ends[2] - ends[1] <= 1
        BY <3>1 DEF Halved
      <3>2. CASE ~(ends[2] - ends[1] <= 1)
        <4> DEFINE low == <<ends[1], Middle(ends)>>
                   high == <<Middle(ends), ends[2]>>
        <4>1. /\ low \in Ends /\ high \in Ends /\ Middle(ends) \in Int
              /\ ends[1] < Middle(ends) /\ Middle(ends) < ends[2]
          BY <1>1, <3>2, HalvesAreShorter
        <4>2. low[1] = ends[1] /\ low[2] = Middle(ends) /\ high[1] = Middle(ends) /\ high[2] = ends[2]
          OBVIOUS
        <4> HIDE DEF low, high
        <4>3. low[2] - low[1] <= n /\ high[2] - high[1] <= n
          BY <1>1, <2>2, <4>1, <4>2
        <4>4. g[low] = f[low] /\ g[high] = f[high]
          BY <2>1, <4>1, <4>3
        <4>5. /\ Halved(f, E, ends) = IF Middle(ends) \in E THEN f[low] ELSE f[high]
              /\ Halved(g, E, ends) = IF Middle(ends) \in E THEN g[low] ELSE g[high]
          BY <3>2, Zenon DEF Halved, low, high
        <4>6. g[ends] = Halved(f, E, ends)
          OBVIOUS
        <4> QED BY <4>4, <4>5, <4>6, Zenon
      <3> QED BY <3>1, <3>2
    <2>3. Upto(n + 1, g)
      BY <2>2
    <2> HIDE DEF Upto
    <2> QED BY <2>3
  <1> HIDE DEF P
  <1>5. \A n \in Nat : n \in P
    BY <1>3, <1>4, Induction
  <1>6. LambdaHi \in P
    BY <1>5, LambdaAssumption
  <1>7. PICK f : Upto(LambdaHi, f)
    BY <1>6 DEF P
  <1>8. \A ends \in Ends : f[ends] = Halved(f, E, ends)
    BY <1>7, EndsType
  <1> DEFINE h == [ends \in Ends |-> f[ends]]
  <1>9. ASSUME NEW ends \in Ends PROVE h[ends] = Halved(h, E, ends)
    <2>1. h[ends] = Halved(f, E, ends)
      BY <1>8
    <2>2. CASE ends[2] - ends[1] <= 1
      BY <2>1, <2>2 DEF Halved
    <2>3. CASE ~(ends[2] - ends[1] <= 1)
      <3>1. <<ends[1], Middle(ends)>> \in Ends /\ <<Middle(ends), ends[2]>> \in Ends
        BY <1>1, <2>3, HalvesAreShorter
      <3>2. /\ h[<<ends[1], Middle(ends)>>] = f[<<ends[1], Middle(ends)>>]
            /\ h[<<Middle(ends), ends[2]>>] = f[<<Middle(ends), ends[2]>>]
        BY <3>1
      <3> HIDE DEF h
      <3> QED BY <2>1, <2>3, <3>2 DEF Halved
    <2> QED BY <2>2, <2>3
  <1>10. h = [ends \in Ends |-> Halved(h, E, ends)]
    BY <1>9
  <1> QED BY <1>10, Zenon

LEMMA SearchLeadsToEnough ==
  ASSUME NEW E, NEW f, Searches(f, E), LambdaHi \in E
  PROVE  f[<<0, LambdaHi>>] \in E
  <1> DEFINE P == {n \in Nat : \A ends \in Ends :
                     /\ ends[2] - ends[1] <= n /\ ends[1] < ends[2] /\ ends[2] \in E
                     => f[ends] \in E}
  <1>1. \A ends \in Ends : ends[1] \in Int /\ ends[2] \in Int
    BY EndsType
  <1>2. 0 \in P
    BY <1>1
  <1>3. ASSUME NEW n \in Nat, n \in P PROVE n + 1 \in P
    <2>1. ASSUME NEW ends \in Ends, ends[2] - ends[1] <= n + 1, ends[1] < ends[2], ends[2] \in E
          PROVE  f[ends] \in E
      <3>1. f[ends] = Halved(f, E, ends)
        BY DEF Searches
      <3>2. CASE ends[2] - ends[1] <= 1
        BY <2>1, <3>1, <3>2 DEF Halved
      <3>3. CASE ~(ends[2] - ends[1] <= 1)
        <4> DEFINE low == <<ends[1], Middle(ends)>>
                   high == <<Middle(ends), ends[2]>>
        <4>1. /\ low \in Ends /\ high \in Ends /\ Middle(ends) \in Int
              /\ ends[1] < Middle(ends) /\ Middle(ends) < ends[2]
          BY <1>1, <3>3, HalvesAreShorter
        <4>2. low[1] = ends[1] /\ low[2] = Middle(ends) /\ high[1] = Middle(ends) /\ high[2] = ends[2]
          OBVIOUS
        <4> HIDE DEF low, high
        <4>3. low[2] - low[1] <= n /\ high[2] - high[1] <= n
          BY <1>1, <2>1, <4>1, <4>2
        <4>4. f[ends] = IF Middle(ends) \in E THEN f[low] ELSE f[high]
          BY <3>1, <3>3, Zenon DEF Halved, low, high
        <4>5. CASE Middle(ends) \in E
          BY <1>3, <4>1, <4>2, <4>3, <4>4, <4>5
        <4>6. CASE Middle(ends) \notin E
          BY <1>3, <2>1, <4>1, <4>2, <4>3, <4>4, <4>6
        <4> QED BY <4>5, <4>6
      <3> QED BY <3>2, <3>3
    <2> QED BY <2>1
  <1> HIDE DEF P
  <1>4. LambdaHi \in P
    BY <1>2, <1>3, Induction, LambdaAssumption
  <1>5. <<0, LambdaHi>> \in Ends /\ LambdaHi - 0 <= LambdaHi /\ 0 < LambdaHi
    BY LambdaAssumption DEF Ends
  <1> QED BY <1>4, <1>5 DEF P

(* The offline search ends at a multiplier whose plan does what is needed.    *)
LEMMA SearchIsEnough ==
  ASSUME NEW w, NEW trace, NEW need,
         Done(w, PlanAt(w, trace, LambdaHi)) * need.den >= need.num
  PROVE  /\ Search(w, trace, need) \in 0..LambdaHi
         /\ Done(w, PlanAt(w, trace, Search(w, trace, need))) * need.den >= need.num
  <1> DEFINE Enough(lambda) == Done(w, PlanAt(w, trace, lambda)) * need.den >= need.num
             E == {lambda \in 0..LambdaHi : Enough(lambda)}
             Step(f, ends) ==
               LET lo == ends[1]  hi == ends[2]  mid == (lo + hi) \div 2 IN
               IF hi - lo <= 1 THEN hi
               ELSE IF Enough(mid) THEN f[<<lo, mid>>] ELSE f[<<mid, hi>>]
             Is(f) == f = [ends \in (0..LambdaHi) \X (0..LambdaHi) |-> Step(f, ends)]
             search == CHOOSE f : Is(f)
  <1>1. Search(w, trace, need) = search[<<0, LambdaHi>>]
    BY DEF Search
  <1>2. ASSUME NEW f, NEW ends \in Ends PROVE Step(f, ends) = Halved(f, E, ends)
    <2>1. CASE ends[2] - ends[1] <= 1
      BY <2>1 DEF Halved
    <2>2. CASE ~(ends[2] - ends[1] <= 1)
      <3>1. Middle(ends) \in 0..LambdaHi
        <4>1. ends[2] - ends[1] > 1
          BY <2>2, EndsType
        <4> QED BY <4>1, HalvesAreShorter
      <3>2. Enough(Middle(ends)) <=> Middle(ends) \in E
        BY <3>1
      <3>3. Step(f, ends) = IF Enough(Middle(ends)) THEN f[<<ends[1], Middle(ends)>>]
                            ELSE f[<<Middle(ends), ends[2]>>]
        BY <2>2, Zenon DEF Middle
      <3> HIDE DEF Step, Enough, E
      <3> QED BY <2>2, <3>2, <3>3 DEF Halved
    <2> QED BY <2>1, <2>2
  <1> HIDE DEF Step, Enough, E
  <1>3. \E f : Is(f)
    <2>1. PICK f : f = [ends \in Ends |-> Halved(f, E, ends)]
      BY SearchExists
    <2>2. f = [ends \in Ends |-> Step(f, ends)]
      BY <1>2, <2>1
    <2> QED BY <2>2 DEF Ends
  <1>4. Is(search)
    BY <1>3, Zenon
  <1> HIDE DEF search
  <1>5. Searches(search, E)
    BY <1>2, <1>4 DEF Searches, Ends
  <1>6. LambdaHi \in E
    BY LambdaAssumption DEF E, Enough
  <1>7. Search(w, trace, need) \in E
    BY <1>1, <1>5, <1>6, SearchLeadsToEnough
  <1> QED BY <1>7 DEF E, Enough

-----------------------------------------------------------------------------
(* A run towards a deadline.                                                  *)

LEMMA FastestFacts ==
  ASSUME NEW w, IsRun(w)
  PROVE  /\ Fastest(w) \in Nat /\ Len(w.rate) \in DOMAIN w.rate /\ 1 \in DOMAIN w.rate
         /\ \A a \in DOMAIN w.rate :
              w.rate[a] \in Nat /\ w.rate[a] <= Fastest(w) /\ 1 <= a /\ a <= Len(w.rate)
  <1>1. /\ DOMAIN w.rate = 1..Len(w.rate) /\ Len(w.rate) \in Nat \ {0} /\ Len(w.rate) \in DOMAIN w.rate
        /\ \A a \in DOMAIN w.rate : w.rate[a] \in Nat
    BY RateFacts DEF IsRun
  <1>2. 1 \in DOMAIN w.rate /\ \A a \in DOMAIN w.rate : 1 <= a /\ a <= Len(w.rate)
    BY <1>1
  <1>3. \A a \in DOMAIN w.rate : w.rate[a] <= w.rate[Len(w.rate)]
    BY <1>1, <1>2 DEF IsRun
  <1> QED BY <1>1, <1>2, <1>3 DEF Fastest

(* What a plan does is at most its first hour, and then the fastest rate.     *)
LEMMA DoneBound ==
  ASSUME NEW w, IsRun(w), NEW n \in Nat \ {0}, NEW plan \in [1..n -> DOMAIN w.rate]
  PROVE  /\ Done(w, plan) \in Nat
         /\ Done(w, plan) <= w.rate[plan[1]] + (n - 1) * Fastest(w)
  <1> DEFINE rates == [t \in 1..n |-> w.rate[plan[t]]]
             most == [t \in 1..n |-> Fastest(w)]
             S == 1..n
  <1>1. /\ Fastest(w) \in Int
        /\ \A t \in S : rates[t] \in Nat /\ rates[t] <= Fastest(w)
    BY FastestFacts
  <1>2. IsFiniteSet(S) /\ 1 \in S /\ Cardinality(S) = n
    BY FS_Interval
  <1>3. Done(w, plan) = SumFunctionOnSet(rates, S)
    BY DEF Done, SumFunction
  <1>4. rates[1] = w.rate[plan[1]] /\ \A t \in S : most[t] = Fastest(w)
    BY <1>2
  <1> HIDE DEF rates, most, S
  <1>5. IsFiniteSet(S \ {1}) /\ Cardinality(S \ {1}) = n - 1
    BY <1>2, RemovalShrinks
  <1>6. SumFunctionOnSet(rates, S) = rates[1] + SumFunctionOnSet(rates, S \ {1})
    <2>1. \A t \in S : rates[t] \in Int
      BY <1>1
    <2> QED BY <1>2, <2>1, SumWithout
  <1>7. SumFunctionOnSet(rates, S) \in Nat /\ SumFunctionOnSet(rates, S \ {1}) \in Nat
    BY <1>1, <1>2, <1>5, SumBounds
  <1>8. SumFunctionOnSet(rates, S \ {1}) <= SumFunctionOnSet(most, S \ {1})
    <2>1. \A t \in S \ {1} : rates[t] \in Int /\ most[t] \in Int /\ rates[t] <= most[t]
      BY <1>1, <1>4
    <2> QED BY <1>5, <2>1, SumMonotone
  <1>9. SumFunctionOnSet(most, S \ {1}) = Fastest(w) * (n - 1)
    <2>1. \A t \in S \ {1} : most[t] = Fastest(w)
      BY <1>4
    <2> QED BY <1>1, <1>5, <2>1, SumConstant
  <1>10. Fastest(w) * (n - 1) = (n - 1) * Fastest(w)
    BY <1>1
  <1>11. rates[1] \in Nat
    BY <1>1, <1>2
  <1> QED BY <1>1, <1>3, <1>4, <1>6, <1>7, <1>8, <1>9, <1>10, <1>11

Enough(w, plan, need) == Done(w, plan) * need.den >= need.num

(* The plans that the search looks at.                                        *)
LEMMA PlanAtType ==
  ASSUME NEW w, IsRun(w), NEW n \in Nat \ {0}, NEW trace \in [1..n -> Nat], NEW lambda \in Nat
  PROVE  PlanAt(w, trace, lambda) \in [1..n -> DOMAIN w.rate]
  <1>1. \A t \in 1..n : trace[t] \in Nat
    OBVIOUS
  <1>2. \A t \in 1..n : PrimalChoice(w, lambda, trace[t]) \in DOMAIN w.rate
    BY <1>1, PrimalChoiceType DEF IsRun
  <1> QED BY <1>2 DEF PlanAt

(* Where iterations are worth nothing, the slowest action is chosen.          *)
LEMMA SlowestAtZero ==
  ASSUME NEW w, IsRun(w), NEW n \in Nat \ {0}, NEW trace \in [1..n -> Nat]
  PROVE  PlanAt(w, trace, 0) = [t \in 1..n |-> 1]
  <1>1. ASSUME NEW t \in 1..n PROVE PrimalChoice(w, 0, trace[t]) = 1
    <2> PICK b \in Nat : b = trace[t]
      OBVIOUS
    <2> DEFINE g == PrimalChoice(w, 0, b)
    <2>1. /\ g \in DOMAIN w.rate
          /\ Lagrangian(w, 0, b, g) < Lagrangian(w, 0, b, 1)
             \/ (Lagrangian(w, 0, b, g) = Lagrangian(w, 0, b, 1) /\ g <= 1)
      <3>1. w.rate \in Seq(Nat) /\ w.rate # <<>> /\ w.energy \in [DOMAIN w.rate -> Nat]
        BY DEF IsRun
      <3>2. 1 \in DOMAIN w.rate /\ 0 \in Nat
        BY FastestFacts
      <3>3. /\ g \in DOMAIN w.rate
            /\ \A h \in DOMAIN w.rate :
                 \/ Lagrangian(w, 0, b, g) < Lagrangian(w, 0, b, h)
                 \/ Lagrangian(w, 0, b, g) = Lagrangian(w, 0, b, h) /\ g <= h
        BY <3>1, <3>2, PrimalChoiceType, SMTT(30)
      <3> HIDE DEF g
      <3> QED BY <3>2, <3>3, Zenon
    <2> HIDE DEF g
    <2>2. /\ 1 <= g /\ 1 \in DOMAIN w.rate /\ DOMAIN w.rate \subseteq Nat
          /\ w.rate[1] \in Nat /\ w.rate[g] \in Nat /\ w.energy[1] \in Nat /\ w.energy[g] \in Nat
      BY <2>1, FastestFacts, RateFacts DEF IsRun
    <2>3. w.rate[1] <= w.rate[g] /\ w.energy[1] <= w.energy[g]
      BY <2>1, <2>2 DEF IsRun
    <2>4. /\ Lagrangian(w, 0, b, 1) \in Nat /\ Lagrangian(w, 0, b, g) \in Nat
          /\ Lagrangian(w, 0, b, 1) <= Lagrangian(w, 0, b, g)
      <3> PICK r1 \in Nat, r \in Nat, e1 \in Nat, e \in Nat :
            r1 = w.rate[1] /\ r = w.rate[g] /\ e1 = w.energy[1] /\ e = w.energy[g]
        BY <2>2
      <3>1. e1 * b \in Nat /\ e * b \in Nat /\ e1 * b <= e * b
        BY <2>3, ProductsGrow, SMTT(30)
      <3>2. PICK x \in Nat, y \in Nat : x = e1 * b /\ y = e * b
        BY <3>1
      <3>3. x * r1 \in Nat /\ y * r \in Nat /\ x * r1 <= y * r
        BY <2>3, <3>1, <3>2, ProductsGrow
      <3>4. x - 0 = x /\ y - 0 = y
        OBVIOUS
      <3>5. Lagrangian(w, 0, b, 1) = (x - 0) * r1 /\ Lagrangian(w, 0, b, g) = (y - 0) * r
        BY <3>2, Zenon DEF Lagrangian
      <3> QED BY <3>3, <3>4, <3>5
    <2> QED BY <2>1, <2>2, <2>4 DEF g
  <1> QED BY <1>1 DEF PlanAt

IsNeed(need) == need.num \in Int /\ need.den \in Nat

\* The plan does what is needed, or works at the fastest rate throughout.
KeepsUp(w, n, need, plan) ==
  /\ plan \in [1..n -> DOMAIN w.rate]
  /\ Enough(w, plan, need) \/ \A t \in 1..n : plan[t] = Len(w.rate)

(* The offline plan does what is needed, if that can be done.                 *)
LEMMA OfflineKeepsUp ==
  ASSUME NEW w, IsRun(w), NEW n \in Nat \ {0}, NEW trace \in [1..n -> Nat], NEW need, IsNeed(need)
  PROVE  KeepsUp(w, n, need, OfflinePlan(w, trace, need))
  <1> DEFINE always(a) == [t \in 1..n |-> a]
  <1>1. DOMAIN trace = 1..n /\ LambdaHi \in Nat /\ 0 \in Nat
    BY LambdaAssumption
  <1>2. 1 \in DOMAIN w.rate /\ Len(w.rate) \in DOMAIN w.rate
    BY FastestFacts
  <1>3. OfflinePlan(w, trace, need) =
          IF ~Enough(w, PlanAt(w, trace, LambdaHi), need) THEN always(Len(w.rate))
          ELSE IF Enough(w, PlanAt(w, trace, 0), need) THEN always(1)
          ELSE PlanAt(w, trace, Search(w, trace, need))
    BY <1>1, Zenon DEF OfflinePlan, Enough
  <1>4. PlanAt(w, trace, 0) = always(1)
    BY SlowestAtZero
  <1>5. CASE ~Enough(w, PlanAt(w, trace, LambdaHi), need)
    BY <1>2, <1>3, <1>5 DEF KeepsUp
  <1>6. CASE /\ Enough(w, PlanAt(w, trace, LambdaHi), need)
             /\ Enough(w, PlanAt(w, trace, 0), need)
    <2>1. OfflinePlan(w, trace, need) = always(1)
      BY <1>3, <1>6, Zenon
    <2>2. Enough(w, always(1), need)
      BY <1>4, <1>6
    <2> QED BY <1>2, <2>1, <2>2 DEF KeepsUp
  <1>7. CASE /\ Enough(w, PlanAt(w, trace, LambdaHi), need)
             /\ ~Enough(w, PlanAt(w, trace, 0), need)
    <2>1. OfflinePlan(w, trace, need) = PlanAt(w, trace, Search(w, trace, need))
      BY <1>3, <1>7, Zenon
    <2>2. /\ Search(w, trace, need) \in 0..LambdaHi
          /\ Enough(w, PlanAt(w, trace, Search(w, trace, need)), need)
      BY <1>7, SearchIsEnough DEF Enough
    <2>3. PlanAt(w, trace, Search(w, trace, need)) \in [1..n -> DOMAIN w.rate]
      <3>1. Search(w, trace, need) \in Nat
        BY <1>1, <2>2
      <3> QED BY <3>1, PlanAtType
    <2> QED BY <2>1, <2>2, <2>3 DEF KeepsUp
  <1> QED BY <1>5, <1>6, <1>7

(* Arithmetic of an hour: D is what remains, H the hours, F the fastest rate  *)
(* and r the rate that is chosen.                                             *)
LEMMA HourAtRate ==
  ASSUME NEW D \in Int, NEW H \in Nat \ {0}, NEW F \in Nat, NEW r \in Nat,
         r <= F, D <= H * F, D <= r * H \/ r = F
  PROVE  D - r <= (H - 1) * F
  <1> PICK h \in Nat : H = h + 1
    <2>1. H - 1 \in Nat /\ H = (H - 1) + 1
      OBVIOUS
    <2> QED BY <2>1
  <1>1. h * F \in Nat /\ H * F = h * F + F /\ h * r \in Nat /\ r * H = h * r + r
    OBVIOUS
  <1>2. h * r <= h * F
    BY ProductsGrow
  <1>3. (H - 1) * F = h * F
    OBVIOUS
  <1> QED BY <1>1, <1>2, <1>3

LEMMA HourOfPlan ==
  ASSUME NEW D \in Int, NEW H \in Nat \ {0}, NEW F \in Nat, NEW r \in Nat, NEW n \in Nat \ {0},
         NEW planned \in Nat, r <= F, D <= H * F, n <= H,
         planned <= r + (n - 1) * F, planned * H >= D * n
  PROVE  D - r <= (H - 1) * F
  <1> SUFFICES ASSUME D >= r + (H - 1) * F + 1 PROVE FALSE
    <2>1. (H - 1) * F \in Int
      OBVIOUS
    <2> QED BY <2>1
  <1> DEFINE low == r + (H - 1) * F + 1
             high == r + (n - 1) * F
  <1>1. low \in Nat /\ high \in Nat
    <2>1. H - 1 \in Nat /\ n - 1 \in Nat
      OBVIOUS
    <2>2. (H - 1) * F \in Nat /\ (n - 1) * F \in Nat
      BY <2>1
    <2> QED BY <2>2
  <1>2. D \in Nat /\ low <= D
    BY <1>1
  <1>3. low * n <= D * n /\ planned * H <= high * H
    BY <1>1, <1>2, ProductsGrow
  <1>4. low * n = r * n + (H * F) * n - F * n + n /\ high * H = r * H + (n * F) * H - F * H
    OBVIOUS
  <1>5. (H * F) * n = (n * F) * H /\ r * n \in Nat /\ r * H \in Nat /\ F * n \in Nat /\ F * H \in Nat
        /\ (H * F) * n \in Nat /\ D * n \in Nat /\ planned * H \in Nat
    BY <1>2
  <1>6. r * (H - n) <= F * (H - n)
    <2>1. H - n \in Nat
      OBVIOUS
    <2> QED BY <2>1, ProductsGrow
  <1>7. r * (H - n) = r * H - r * n /\ F * (H - n) = F * H - F * n
    OBVIOUS
  <1> HIDE DEF low, high
  <1> QED BY <1>3, <1>4, <1>5, <1>6, <1>7

RunInv(w, run) ==
  /\ run.hour \in Nat /\ run.done \in Nat /\ run.hour <= w.hours
  /\ Reachable(w) => StillReachable(w, run)

(* An hour at an action that keeps up, or at the fastest one.                 *)
LEMMA HourKeepsUp ==
  ASSUME NEW w, IsRun(w), NEW run, RunInv(w, run), run.hour < w.hours, NEW a \in DOMAIN w.rate,
         Reachable(w) => (w.target - run.done) - w.rate[a] <= (w.hours - run.hour - 1) * Fastest(w)
  PROVE  RunInv(w, After(w, run, a))
  <1>1. w.hours \in Nat /\ w.target \in Nat /\ w.rate[a] \in Nat /\ Fastest(w) \in Nat
    BY FastestFacts DEF IsRun
  <1>2. run.hour \in Nat /\ run.done \in Nat
    BY DEF RunInv
  <1>3. After(w, run, a).hour = run.hour + 1 /\ After(w, run, a).done = run.done + w.rate[a]
    BY DEF After
  <1>4. /\ w.target - (run.done + w.rate[a]) = (w.target - run.done) - w.rate[a]
        /\ w.hours - (run.hour + 1) = w.hours - run.hour - 1
    BY <1>1, <1>2
  <1> QED BY <1>1, <1>2, <1>3, <1>4 DEF RunInv, StillReachable

LEMMA GreedyKeepsUp ==
  ASSUME NEW w, IsRun(w), NEW run, RunInv(w, run), run.hour < w.hours, NEW intensity \in Nat
  PROVE  RunInv(w, After(w, run, GreedyChoice(w, run, intensity)))
  <1> DEFINE D == w.target - run.done
             H == w.hours - run.hour
             enough == {a \in DOMAIN w.rate : w.rate[a] * H >= NonNegative(D)}
             c == [a \in enough |-> w.energy[a] * intensity]
             chosen == GreedyChoice(w, run, intensity)
  <1>1. /\ DOMAIN w.rate \in SUBSET Nat /\ IsFiniteSet(DOMAIN w.rate)
        /\ w.energy \in [DOMAIN w.rate -> Nat] /\ w.hours \in Nat /\ w.target \in Nat
    BY RateFacts DEF IsRun
  <1>2. D \in Int /\ H \in Nat \ {0} /\ Fastest(w) \in Nat
    BY <1>1, FastestFacts, SMTT(30) DEF RunInv
  <1>3. chosen = IF enough = {} THEN Len(w.rate)
                 ELSE CHOOSE a \in enough : \A b \in enough :
                        w.energy[a] * intensity < w.energy[b] * intensity
                        \/ (w.energy[a] * intensity = w.energy[b] * intensity /\ a <= b)
    BY DEF GreedyChoice, Cheapest
  <1>4. enough \in SUBSET Nat /\ IsFiniteSet(enough) /\ enough \subseteq DOMAIN w.rate
    BY <1>1, FS_Subset
  <1>5. c \in [enough -> Int] /\ \A a \in enough : c[a] = w.energy[a] * intensity
    BY <1>1
  <1>6. \A a \in enough : w.rate[a] * H >= NonNegative(D)
    OBVIOUS
  <1> HIDE DEF enough, c, chosen
  <1>7. CASE enough = {}
    <2>1. chosen = Len(w.rate) /\ chosen \in DOMAIN w.rate /\ w.rate[chosen] = Fastest(w)
      BY <1>3, <1>7, FastestFacts DEF Fastest
    <2>2. Reachable(w) => D - w.rate[chosen] <= (H - 1) * Fastest(w)
      <3>1. Reachable(w) => D <= H * Fastest(w)
        BY DEF RunInv, StillReachable
      <3> QED BY <1>2, <2>1, <3>1, HourAtRate
    <2> QED BY <2>1, <2>2, HourKeepsUp DEF chosen
  <1>8. CASE enough # {}
    <2>1. PICK least : IsCheapest(enough, c, least)
      BY <1>4, <1>5, <1>8, CheapestExists
    <2>2. chosen \in enough
      BY <1>3, <1>5, <1>8, <2>1, Zenon DEF IsCheapest
    <2>3. /\ chosen \in DOMAIN w.rate /\ w.rate[chosen] \in Nat /\ w.rate[chosen] <= Fastest(w)
          /\ w.rate[chosen] * H >= NonNegative(D)
      BY <1>4, <1>6, <2>2, FastestFacts
    <2>4. D <= w.rate[chosen] * H
      <3>1. w.rate[chosen] * H \in Int
        BY <1>2, <2>3
      <3> HIDE DEF H, D
      <3> QED BY <1>2, <2>3, <3>1 DEF NonNegative
    <2>5. Reachable(w) => D - w.rate[chosen] <= (H - 1) * Fastest(w)
      <3>1. Reachable(w) => D <= H * Fastest(w)
        BY DEF RunInv, StillReachable
      <3> HIDE DEF H, D
      <3> QED BY <1>2, <2>3, <2>4, <3>1, HourAtRate
    <2> QED BY <2>3, <2>5, HourKeepsUp DEF chosen
  <1> QED BY <1>7, <1>8

LEMMA RecedingKeepsUp ==
  ASSUME NEW w, IsRun(w), NEW run, RunInv(w, run), run.hour < w.hours,
         NEW n \in Nat \ {0}, n <= w.hours - run.hour, NEW forecast \in [1..n -> Nat]
  PROVE  RunInv(w, After(w, run, RecedingChoice(w, run, forecast)))
  <1> DEFINE D == w.target - run.done
             H == w.hours - run.hour
             need == [num |-> D * n, den |-> H]
             plan == OfflinePlan(w, forecast, need)
             chosen == plan[1]
  <1>1. D \in Int /\ H \in Nat \ {0} /\ Fastest(w) \in Nat
    <2>1. w.target \in Nat /\ w.hours \in Nat /\ run.hour \in Nat /\ run.done \in Nat
      BY DEF IsRun, RunInv
    <2>2. Fastest(w) \in Nat
      BY FastestFacts
    <2>3. D \in Int
      BY <2>1
    <2>4. H \in Nat \ {0}
      <3> DEFINE hours == w.hours
                 hour == run.hour
      <3>1. hours \in Nat /\ hour \in Nat /\ hour < hours
        BY <2>1
      <3> HIDE DEF hours, hour
      <3>2. hours - hour \in Nat \ {0}
        BY <3>1
      <3> QED BY <3>2 DEF hours, hour
    <2> QED BY <2>2, <2>3, <2>4
  <1>2. IsNeed(need) /\ need.num = D * n /\ need.den = H
    BY <1>1 DEF IsNeed
  <1>3. RecedingChoice(w, run, forecast) = chosen
    <2>1. Len(forecast) = n
      <3>1. forecast \in Seq(Nat) /\ DOMAIN forecast = 1..n
        BY SeqDef
      <3>2. Len(forecast) \in Nat /\ 1..Len(forecast) = 1..n
        BY <3>1
      <3> QED BY <3>2
    <2> QED BY <2>1, Zenon DEF RecedingChoice
  <1> HIDE DEF need
  <1>4. KeepsUp(w, n, need, plan)
    BY <1>2, OfflineKeepsUp
  <1> HIDE DEF plan
  <1>5. chosen \in DOMAIN w.rate /\ w.rate[chosen] \in Nat /\ w.rate[chosen] <= Fastest(w)
    BY <1>4, FastestFacts DEF KeepsUp
  <1>6. Done(w, plan) \in Nat /\ Done(w, plan) <= w.rate[chosen] + (n - 1) * Fastest(w)
    BY <1>4, DoneBound DEF KeepsUp
  <1>7. Reachable(w) => D - w.rate[chosen] <= (H - 1) * Fastest(w)
    <2>1. Reachable(w) => D <= H * Fastest(w)
      BY DEF RunInv, StillReachable
    <2>2. n <= H
      OBVIOUS
    <2> HIDE DEF H, D
    <2>3. CASE Enough(w, plan, need)
      <3>1. Done(w, plan) * H >= D * n
        BY <1>2, <2>3 DEF Enough
      <3> QED BY <1>1, <1>5, <1>6, <2>1, <2>2, <3>1, HourOfPlan
    <2>4. CASE \A t \in 1..n : plan[t] = Len(w.rate)
      <3>1. w.rate[chosen] = Fastest(w)
        BY <2>4 DEF Fastest
      <3> QED BY <1>1, <1>5, <2>1, <3>1, HourAtRate
    <2> QED BY <1>4, <2>3, <2>4 DEF KeepsUp
  <1> QED BY <1>3, <1>5, <1>7, HourKeepsUp

-----------------------------------------------------------------------------
(* The epoch drivers.                                                         *)

\* What deferring saves is as much as the epochs it is behind will cost at most.
SavedEnough(e, runs) ==
  runs.of["carbon_defer"].carbon
    + (e.deferAbove * e.maxEnergy)
        * (runs.of["static_max"].done - runs.of["carbon_defer"].done)
  <= runs.of["static_max"].carbon

EpochsType(e, runs) ==
  /\ runs.hour \in Nat
  /\ \A policy \in EpochPolicies :
       runs.of[policy].done \in 0..e.epochs /\ runs.of[policy].carbon \in Nat

EpochsInv(e, runs) ==
  /\ EpochsType(e, runs) /\ EpochsAreKept(e, runs) /\ SavedEnough(e, runs)
  /\ runs.of["static_optimal"].done = runs.of["static_max"].done

\* What an hour does to the count of a policy that decided to act.
Ran(e, r, act, intensity, next) ==
  /\ r.done = e.epochs \/ act = "defer" => next.done = r.done /\ next.carbon = r.carbon
  /\ r.done # e.epochs /\ act = "max" =>
       next.done = r.done + 1 /\ next.carbon = r.carbon + intensity * e.maxEnergy
  /\ r.done # e.epochs /\ act = "optimal" =>
       next.done = r.done + 1 /\ next.carbon = r.carbon + intensity * e.optimalEnergy

\* An hour of all policies, as facts about each of them.
RanAll(e, runs, intensity, next) ==
  LET ran(policy, act) == Ran(e, runs.of[policy], act, intensity, next.of[policy])
      dirty == intensity > e.deferAbove
  IN  /\ next.hour = runs.hour + 1
      /\ ran("static_max", "max") /\ ran("static_optimal", "optimal")
      /\ ran("carbon_defer", IF dirty THEN "defer" ELSE "max")
      /\ ran("carbon_throttle", IF dirty THEN "optimal" ELSE "max")
      /\ ran("carbon_joint", IF dirty THEN "defer"
                             ELSE IF intensity > e.throttleAbove THEN "optimal" ELSE "max")
      /\ ran("carbon_deadline_aware",
             IF dirty /\ e.deadline - runs.hour
                           >= e.epochs - runs.of["carbon_deadline_aware"].done
             THEN "defer" ELSE "max")

LEMMA EpochHourRan ==
  ASSUME NEW e, NEW runs, NEW intensity
  PROVE  RanAll(e, runs, intensity, EpochHour(e, runs, intensity))
  <1> DEFINE next == EpochHour(e, runs, intensity)
             act(policy) == Decide(e, policy, intensity, e.deadline - runs.hour,
                                   e.epochs - runs.of[policy].done)
  <1>1. ASSUME NEW policy \in EpochPolicies
        PROVE  Ran(e, runs.of[policy], act(policy), intensity, next.of[policy])
    <2>1. next.of[policy] =
            IF runs.of[policy].done = e.epochs \/ act(policy) = "defer" THEN runs.of[policy]
            ELSE [done |-> runs.of[policy].done + 1,
                  carbon |-> runs.of[policy].carbon + intensity *
                               IF act(policy) = "max" THEN e.maxEnergy ELSE e.optimalEnergy]
      BY DEF EpochHour
    <2> HIDE DEF next, act
    <2> QED BY <2>1 DEF Ran
  <1>2. next.hour = runs.hour + 1
    BY DEF EpochHour
  <1>3. /\ act("static_max") = "max" /\ act("static_optimal") = "optimal"
        /\ act("carbon_defer") = IF intensity > e.deferAbove THEN "defer" ELSE "max"
        /\ act("carbon_throttle") = IF intensity > e.deferAbove THEN "optimal" ELSE "max"
        /\ act("carbon_joint") =
             IF intensity > e.deferAbove THEN "defer"
             ELSE IF intensity > e.throttleAbove THEN "optimal" ELSE "max"
        /\ act("carbon_deadline_aware") =
             IF /\ intensity > e.deferAbove
                /\ e.deadline - runs.hour >= e.epochs - runs.of["carbon_deadline_aware"].done
             THEN "defer" ELSE "max"
    BY DEF Decide
  <1> HIDE DEF next, act
  <1> QED BY <1>1, <1>2, <1>3 DEF RanAll, EpochPolicies, next

LEMMA EpochsTypes ==
  ASSUME NEW e, IsEpochs(e)
  PROVE  /\ e.epochs \in Nat /\ e.hours \in Nat /\ e.deadline \in Nat
         /\ e.maxEnergy \in Nat /\ e.optimalEnergy \in Nat /\ e.optimalEnergy <= e.maxEnergy
         /\ e.deferAbove \in Nat /\ e.throttleAbove \in Nat /\ e.throttleAbove <= e.deferAbove
  BY DEF IsEpochs

(* The carbon of an hour, at either cap.                                      *)
LEMMA HourCarbon ==
  ASSUME NEW e, IsEpochs(e), NEW i \in Nat
  PROVE  /\ i * e.maxEnergy \in Nat /\ i * e.optimalEnergy \in Nat
         /\ i * e.optimalEnergy <= i * e.maxEnergy
         /\ e.deferAbove * e.maxEnergy \in Nat
         /\ i > e.deferAbove => e.deferAbove * e.maxEnergy <= i * e.maxEnergy
         /\ ~(i > e.deferAbove) => i * e.maxEnergy <= e.deferAbove * e.maxEnergy
  <1>1. /\ e.maxEnergy \in Nat /\ e.optimalEnergy \in Nat /\ e.optimalEnergy <= e.maxEnergy
        /\ e.deferAbove \in Nat
    BY EpochsTypes
  <1>2. i > e.deferAbove => e.deferAbove * e.maxEnergy <= i * e.maxEnergy
    BY <1>1, ProductsGrow
  <1>3. ~(i > e.deferAbove) => i * e.maxEnergy <= e.deferAbove * e.maxEnergy
    BY <1>1, ProductsGrow
  <1>4. i * e.optimalEnergy <= i * e.maxEnergy
    BY <1>1, ProductsGrow
  <1> QED BY <1>1, <1>2, <1>3, <1>4

LEMMA EpochsStep ==
  ASSUME NEW e, IsEpochs(e), NEW runs, EpochsInv(e, runs), InTime(e, runs.hour),
         NEW i \in Nat, NEW next, RanAll(e, runs, i, next)
  PROVE  EpochsInv(e, next)
  <1> DEFINE max == i * e.maxEnergy
             opt == i * e.optimalEnergy
             save == e.deferAbove * e.maxEnergy
             dirty == i > e.deferAbove
             d(policy) == runs.of[policy].done
             c(policy) == runs.of[policy].carbon
             dn(policy) == next.of[policy].done
             cn(policy) == next.of[policy].carbon
             ran(policy, act) ==
               /\ d(policy) = e.epochs \/ act = "defer" => dn(policy) = d(policy) /\ cn(policy) = c(policy)
               /\ d(policy) # e.epochs /\ act = "max" =>
                    dn(policy) = d(policy) + 1 /\ cn(policy) = c(policy) + max
               /\ d(policy) # e.epochs /\ act = "optimal" =>
                    dn(policy) = d(policy) + 1 /\ cn(policy) = c(policy) + opt
  <1>1. /\ max \in Nat /\ opt \in Nat /\ opt <= max /\ save \in Nat
        /\ dirty => save <= max
        /\ ~dirty => max <= save
    BY HourCarbon
  <1>2. e.epochs \in Nat /\ e.hours \in Nat /\ e.deadline \in Nat /\ runs.hour \in Nat
    BY EpochsTypes DEF EpochsInv, EpochsType
  <1>3. \A policy \in EpochPolicies :
          d(policy) \in Nat /\ d(policy) <= e.epochs /\ c(policy) \in Nat
    BY <1>2 DEF EpochsInv, EpochsType
  <1>4. /\ ran("static_max", "max") /\ ran("static_optimal", "optimal")
        /\ dirty => ran("carbon_defer", "defer")
        /\ ~dirty => ran("carbon_defer", "max")
        /\ dirty => ran("carbon_throttle", "optimal")
        /\ ~dirty => ran("carbon_throttle", "max")
        /\ dirty => ran("carbon_joint", "defer")
        /\ ~dirty => ran("carbon_joint", "optimal") \/ ran("carbon_joint", "max")
        /\ dirty /\ e.deadline - runs.hour >= e.epochs - d("carbon_deadline_aware") =>
             ran("carbon_deadline_aware", "defer")
        /\ ~(dirty /\ e.deadline - runs.hour >= e.epochs - d("carbon_deadline_aware")) =>
             ran("carbon_deadline_aware", "max")
    BY DEF RanAll, Ran
  <1>5. next.hour = runs.hour + 1
    BY DEF RanAll
  <1>6. /\ d("carbon_joint") = d("carbon_defer") /\ d("carbon_defer") <= d("carbon_deadline_aware")
        /\ d("carbon_deadline_aware") <= d("static_max") /\ d("carbon_throttle") = d("static_max")
        /\ d("static_optimal") = d("static_max")
        /\ c("carbon_joint") <= c("carbon_defer") /\ c("static_optimal") <= c("carbon_throttle")
        /\ c("carbon_throttle") <= c("static_max")
        /\ c("carbon_defer") + save * (d("static_max") - d("carbon_defer")) <= c("static_max")
        /\ e.epochs <= e.deadline /\ e.deadline <= e.hours =>
             e.epochs - d("carbon_deadline_aware") <= e.deadline - runs.hour + 1
    BY DEF EpochsInv, EpochsAreKept, SavedEnough
  <1>7. {"static_max", "static_optimal", "carbon_defer", "carbon_throttle", "carbon_joint",
         "carbon_deadline_aware"} = EpochPolicies
    BY DEF EpochPolicies
  <1>8. runs.hour < e.deadline
    BY DEF InTime
  <1>9. \A x \in Int : /\ save * x \in Int /\ save * (x + 1) = save * x + save
                       /\ save * (x - 1) = save * x - save
                       /\ x >= 0 => save * x >= 0
    <2> HIDE DEF save
    <2> SUFFICES ASSUME NEW x \in Int
                 PROVE  /\ save * x \in Int /\ save * (x + 1) = save * x + save
                        /\ save * (x - 1) = save * x - save
                        /\ x >= 0 => save * x >= 0
      OBVIOUS
    <2>1. /\ save * x \in Int /\ save * (x + 1) = save * x + save
          /\ save * (x - 1) = save * x - save
      BY <1>1
    <2>2. x >= 0 => save * x >= 0
      BY <1>1, ProductsGrow
    <2> QED BY <2>1, <2>2
  <1> HIDE DEF max, opt, save, dirty, d, c, dn, cn
  <1>10. /\ d("static_max") \in Nat /\ d("static_max") <= e.epochs /\ c("static_max") \in Nat
         /\ d("static_optimal") \in Nat /\ c("static_optimal") \in Nat
         /\ d("carbon_defer") \in Nat /\ d("carbon_defer") <= e.epochs /\ c("carbon_defer") \in Nat
         /\ d("carbon_throttle") \in Nat /\ c("carbon_throttle") \in Nat
         /\ d("carbon_joint") \in Nat /\ c("carbon_joint") \in Nat
         /\ d("carbon_deadline_aware") \in Nat /\ d("carbon_deadline_aware") <= e.epochs
         /\ c("carbon_deadline_aware") \in Nat
    BY <1>3, <1>7
  <1>11. \A policy \in EpochPolicies : dn(policy) \in 0..e.epochs /\ cn(policy) \in Nat
    <2>1. ASSUME NEW policy \in EpochPolicies,
                 ran(policy, "max") \/ ran(policy, "optimal") \/ ran(policy, "defer")
          PROVE  dn(policy) \in 0..e.epochs /\ cn(policy) \in Nat
      BY <1>1, <1>2, <1>3, <2>1
    <2>2. \A policy \in EpochPolicies :
            ran(policy, "max") \/ ran(policy, "optimal") \/ ran(policy, "defer")
      <3> HIDE DEF ran
      <3> QED BY <1>4, Zenon DEF EpochPolicies
    <2> QED BY <2>1, <2>2
  <1>12. /\ dn("carbon_joint") = dn("carbon_defer")
         /\ dn("carbon_defer") <= dn("carbon_deadline_aware")
         /\ dn("carbon_deadline_aware") <= dn("static_max")
    BY <1>2, <1>4, <1>6, <1>10
  <1>13. /\ dn("carbon_throttle") = dn("static_max") /\ dn("static_optimal") = dn("static_max")
         /\ cn("static_optimal") <= cn("carbon_throttle")
         /\ cn("carbon_throttle") <= cn("static_max")
    BY <1>1, <1>4, <1>6, <1>10
  <1>14. cn("carbon_joint") <= cn("carbon_defer")
    BY <1>1, <1>4, <1>6, <1>10
  <1>15. cn("carbon_defer") + save * (dn("static_max") - dn("carbon_defer")) <= cn("static_max")
    <2> DEFINE gap == d("static_max") - d("carbon_defer")
               late == dn("static_max") - dn("carbon_defer")
    <2>1. gap \in Int /\ save * gap \in Int /\ c("carbon_defer") + save * gap <= c("static_max")
      BY <1>6, <1>9, <1>10
    <2>2. CASE dirty /\ d("static_max") # e.epochs
      <3>1. late = gap + 1 /\ cn("carbon_defer") = c("carbon_defer") /\ cn("static_max") = c("static_max") + max
        BY <1>4, <1>10, <2>2
      <3> HIDE DEF gap, late
      <3>2. save * late = save * gap + save
        BY <1>9, <2>1, <3>1
      <3> QED BY <1>1, <1>10, <2>1, <2>2, <3>1, <3>2 DEF late
    <2>3. CASE dirty /\ d("static_max") = e.epochs
      <3>1. late = gap /\ cn("carbon_defer") = c("carbon_defer") /\ cn("static_max") = c("static_max")
        BY <1>4, <1>10, <2>3
      <3> HIDE DEF gap
      <3> QED BY <2>1, <3>1
    <2>4. CASE ~dirty /\ d("static_max") # e.epochs /\ d("carbon_defer") # e.epochs
      <3>1. /\ late = gap /\ cn("carbon_defer") = c("carbon_defer") + max
            /\ cn("static_max") = c("static_max") + max
        BY <1>4, <1>10, <2>4
      <3> HIDE DEF gap
      <3> QED BY <1>1, <1>10, <2>1, <3>1
    <2>5. CASE ~dirty /\ d("static_max") = e.epochs /\ d("carbon_defer") # e.epochs
      <3>1. /\ late = gap - 1 /\ cn("carbon_defer") = c("carbon_defer") + max
            /\ cn("static_max") = c("static_max")
        BY <1>4, <1>10, <2>5
      <3> HIDE DEF gap, late
      <3>2. save * late = save * gap - save
        BY <1>9, <2>1, <3>1
      <3> QED BY <1>1, <1>10, <2>1, <2>5, <3>1, <3>2 DEF late
    <2>6. CASE ~dirty /\ d("carbon_defer") = e.epochs
      <3>1. d("static_max") = e.epochs
        BY <1>2, <1>6, <1>10, <2>6
      <3>2. late = gap /\ cn("carbon_defer") = c("carbon_defer") /\ cn("static_max") = c("static_max")
        BY <1>4, <1>10, <2>6, <3>1
      <3> HIDE DEF gap
      <3> QED BY <2>1, <3>2
    <2> QED BY <2>2, <2>3, <2>4, <2>5, <2>6
  <1>16. cn("carbon_defer") <= cn("static_max")
    <2>1. \A policy \in EpochPolicies : dn(policy) \in Int /\ cn(policy) \in Int
      BY <1>2, <1>11
    <2>2. /\ dn("static_max") - dn("carbon_defer") \in Int
          /\ dn("static_max") - dn("carbon_defer") >= 0
          /\ cn("carbon_defer") \in Int /\ cn("static_max") \in Int
      BY <1>7, <1>12, <2>1
    <2> QED BY <1>9, <1>15, <2>2
  <1>17. e.epochs <= e.deadline /\ e.deadline <= e.hours =>
           e.epochs - dn("carbon_deadline_aware") <= e.deadline - next.hour + 1
    BY <1>2, <1>4, <1>5, <1>6, <1>8, <1>10
  <1>18. EpochsAreKept(e, next)
    BY <1>12, <1>13, <1>14, <1>16, <1>17 DEF EpochsAreKept, dn, cn
  <1>19. EpochsType(e, next)
    BY <1>2, <1>5, <1>11 DEF EpochsType, dn, cn
  <1>20. SavedEnough(e, next)
    BY <1>15 DEF SavedEnough, dn, cn, save
  <1> QED BY <1>13, <1>18, <1>19, <1>20 DEF EpochsInv, dn

LEMMA EpochsBegin ==
  ASSUME NEW e, IsEpochs(e)
  PROVE  EpochsInv(e, Epochs(e))
  <1>1. Epochs(e).hour = 0 /\ \A policy \in EpochPolicies : Epochs(e).of[policy] = [done |-> 0, carbon |-> 0]
    BY DEF Epochs
  <1>2. \A policy \in EpochPolicies : Epochs(e).of[policy].done = 0 /\ Epochs(e).of[policy].carbon = 0
    BY <1>1
  <1>3. {"static_max", "static_optimal", "carbon_defer", "carbon_throttle", "carbon_joint",
         "carbon_deadline_aware"} = EpochPolicies
    BY DEF EpochPolicies
  <1>4. e.epochs \in Nat /\ e.deadline \in Nat /\ e.deferAbove * e.maxEnergy \in Nat
    BY EpochsTypes, HourCarbon, 0 \in Nat
  <1>5. EpochsType(e, Epochs(e))
    BY <1>1, <1>2, <1>4 DEF EpochsType
  <1>6. EpochsAreKept(e, Epochs(e))
    BY <1>1, <1>2, <1>3, <1>4 DEF EpochsAreKept
  <1>7. SavedEnough(e, Epochs(e))
    <2> PICK save \in Nat : save = e.deferAbove * e.maxEnergy
      BY <1>4
    <2>1. 0 + save * (0 - 0) <= 0
      OBVIOUS
    <2> QED BY <1>2, <1>3, <2>1 DEF SavedEnough
  <1> QED BY <1>2, <1>3, <1>5, <1>6, <1>7 DEF EpochsInv

-----------------------------------------------------------------------------
(* An agent's episode.                                                        *)

\* What was projected was projected at the beginning of the last tick; the first
\* of the ticks at a width is its own yardstick.
EpisodeInv(n, ep) ==
  /\ {ep.t, ep.done, ep.energy, ep.spent, ep.behind, ep.held, ep.from} \subseteq Nat
  /\ EpisodeIsHonest(n, ep)
  /\ ep.t = 0 => ep = EpisodeBegins
  /\ ep.t > 0 =>
       /\ ep.gpus \in DOMAIN n.rate
       /\ ep.behind = Projected(n, ep.t - n.tick, ep.done, ep.gpus)
       /\ ep.behind <= ep.from + ep.held * (n.per - 1)

(* int() drops less than an iteration.                                        *)
LEMMA FractionsDropped ==
  ASSUME NEW x \in Nat, NEW per \in Nat \ {0}
  PROVE  x \div per \in Nat /\ (x \div per) * per <= x /\ x <= (x \div per) * per + (per - 1)
  <1>1. x \div per \in Nat
    OBVIOUS
  <1>2. x = per * (x \div per) + (x % per) /\ x % per \in 0..(per - 1)
    OBVIOUS
  <1> QED BY <1>1, <1>2

(* A tick at the same width makes the projection worse by less than an        *)
(* iteration.                                                                 *)
LEMMA ProjectionKeeps ==
  ASSUME NEW left \in Int, NEW r \in Nat, NEW per \in Nat \ {0}, NEW tick \in Nat,
         NEW open \in Nat, NEW q \in Nat, r * tick <= q * per + (per - 1)
  PROVE  NonNegative((-open) * r + NonNegative(left - q) * per)
           <= NonNegative((-open - tick) * r + NonNegative(left) * per) + (per - 1)
  <1> DEFINE was == (-open - tick) * r + NonNegative(left) * per
             is == (-open) * r + NonNegative(left - q) * per
  <1>1. (-open - tick) * r = -(open * r) - r * tick /\ (-open) * r = -(open * r)
        /\ open * r \in Nat /\ r * tick \in Nat
    OBVIOUS
  <1>2. CASE left >= q
    <2>1. NonNegative(left) = left /\ NonNegative(left - q) = left - q
      BY <1>2 DEF NonNegative
    <2>2. (left - q) * per = left * per - q * per /\ left * per \in Int /\ q * per \in Int
      OBVIOUS
    <2>3. is = was + r * tick - q * per /\ was \in Int /\ is \in Int
      BY <1>1, <2>1, <2>2
    <2> HIDE DEF was, is
    <2>4. is <= was + (per - 1)
      BY <1>1, <2>2, <2>3
    <2>5. NonNegative(is) <= NonNegative(was) + (per - 1)
      BY <2>3, <2>4 DEF NonNegative
    <2> QED BY <2>5 DEF was, is
  <1>3. CASE left < q
    <2>1. NonNegative(left - q) * per = 0
      BY <1>3 DEF NonNegative
    <2>2. is \in Int /\ is <= 0
      BY <1>1, <2>1
    <2>3. was \in Int
      <3>1. NonNegative(left) \in Int
        BY DEF NonNegative
      <3> QED BY <3>1
    <2> HIDE DEF was, is
    <2>4. NonNegative(is) <= NonNegative(was) + (per - 1)
      BY <2>2, <2>3 DEF NonNegative
    <2> QED BY <2>4 DEF was, is
  <1> QED BY <1>2, <1>3

(* An episode that ends on track misses what one tick would have done.        *)
LEMMA OnTrackAtTheEnd ==
  ASSUME NEW left \in Int, NEW r \in Nat, NEW per \in Nat \ {0}, NEW tick \in Nat,
         NEW past \in Int, past + tick >= 0,
         NonNegative(past * r + NonNegative(left) * per) = 0
  PROVE  left * per <= r * tick
  <1>1. NonNegative(left) \in Nat /\ left <= NonNegative(left)
    BY DEF NonNegative
  <1>2. PICK m \in Nat : m = NonNegative(left)
    BY <1>1
  <1>3. m * per \in Nat /\ past * r \in Int
    BY <1>1
  <1>4. past * r + m * per <= 0
    BY <1>2, <1>3 DEF NonNegative
  <1>5. (past + tick) * r >= 0 /\ (past + tick) * r = past * r + r * tick /\ r * tick \in Nat
    <2>1. past + tick \in Nat
      OBVIOUS
    <2>2. (past + tick) * r \in Nat
      BY <2>1
    <2> QED BY <2>2
  <1>6. (m - left) * per >= 0 /\ (m - left) * per = m * per - left * per /\ left * per \in Int
    <2>1. m - left \in Nat
      BY <1>1, <1>2
    <2>2. (m - left) * per \in Nat
      BY <2>1
    <2> QED BY <2>2
  <1> QED BY <1>3, <1>4, <1>5, <1>6

LEMMA EpisodeTypes ==
  ASSUME NEW n, IsEpisode(n)
  PROVE  /\ n.latency \in Nat /\ n.power \in Nat /\ n.switch \in Nat
         /\ n.per \in Nat \ {0} /\ n.tick \in Nat \ {0} /\ n.target \in Nat \ {0}
         /\ n.deadline \in Nat \ {0} /\ n.budget \in Nat \ {0}
         /\ DOMAIN n.rate \subseteq Nat \ {0}
         /\ \A g \in DOMAIN n.rate : n.rate[g] \in Nat
  <1>1. n.rate \in Seq(Nat \ {0})
    BY DEF IsEpisode
  <1>2. DOMAIN n.rate = 1..Len(n.rate) /\ Len(n.rate) \in Nat
        /\ \A g \in DOMAIN n.rate : n.rate[g] \in Nat \ {0}
    BY <1>1, LenProperties
  <1> QED BY <1>2 DEF IsEpisode

LEMMA EpisodeStarts ==
  ASSUME NEW n, IsEpisode(n)
  PROVE  EpisodeInv(n, EpisodeBegins)
  <1>1. n.deadline \in Nat \ {0} /\ n.budget \in Nat \ {0}
    BY EpisodeTypes
  <1> QED BY <1>1 DEF EpisodeInv, EpisodeIsHonest, EpisodeBegins

LEMMA EpisodeStep ==
  ASSUME NEW n, IsEpisode(n), NEW ep, EpisodeInv(n, ep), ~EpisodeEnded(n, ep),
         NEW g \in DOMAIN n.rate
  PROVE  EpisodeInv(n, EpisodeTick(n, ep, g))
  <1> DEFINE next == EpisodeTick(n, ep, g)
             switched == g # ep.gpus
             fresh == switched \/ ep.t = 0
             gained == (n.rate[g] * Useful(n, switched)) \div n.per
             left == n.target - ep.done
  <1>1. /\ n.latency \in Nat /\ n.power \in Nat /\ n.switch \in Nat
        /\ n.per \in Nat \ {0} /\ n.tick \in Nat \ {0} /\ n.target \in Nat \ {0}
        /\ n.deadline \in Nat \ {0} /\ n.budget \in Nat \ {0}
        /\ g \in Nat /\ n.rate[g] \in Nat
    BY EpisodeTypes
  <1>2. /\ ep.t \in Nat /\ ep.done \in Nat /\ ep.energy \in Nat /\ ep.spent \in Nat
        /\ ep.behind \in Nat /\ ep.held \in Nat /\ ep.from \in Nat
    BY DEF EpisodeInv
  <1>3. ep.energy < n.budget /\ ep.t < n.deadline
    <2>1. CASE ep.t = 0
      BY <1>1, <2>1 DEF EpisodeInv, EpisodeBegins
    <2>2. CASE ep.t > 0
      BY <1>1, <1>2, <2>2 DEF EpisodeEnded
    <2> QED BY <1>2, <2>1, <2>2
  <1>4. Useful(n, switched) \in Nat /\ (~switched => Useful(n, switched) = n.tick)
    BY <1>1 DEF Useful, NonNegative
  <1>5. gained \in Nat /\ (~switched => n.rate[g] * n.tick <= gained * n.per + (n.per - 1))
    <2> PICK u \in Nat : u = Useful(n, switched)
      BY <1>4
    <2>1. n.rate[g] * u \in Nat
      BY <1>1
    <2>2. /\ (n.rate[g] * u) \div n.per \in Nat
          /\ n.rate[g] * u <= ((n.rate[g] * u) \div n.per) * n.per + (n.per - 1)
      BY <1>1, <2>1, FractionsDropped
    <2> QED BY <1>4, <2>2
  <1>6. /\ next.t = ep.t + n.tick /\ next.done = ep.done + gained
        /\ next.spent = n.power * g + (IF switched THEN n.switch ELSE 0)
        /\ next.energy = ep.energy + next.spent /\ next.gpus = g
        /\ next.behind = Projected(n, ep.t, ep.done + gained, g)
        /\ fresh => next.held = 0 /\ next.from = next.behind
        /\ ~fresh => next.held = ep.held + 1 /\ next.from = ep.from
    BY DEF EpisodeTick
  <1> HIDE DEF gained, next
  <1>7. next.spent \in Nat
    <2>1. n.power * g \in Nat
      BY <1>1
    <2> QED BY <1>1, <1>6, <2>1
  <1>8. next.t > 0 /\ next.t - n.tick = ep.t /\ next.t \in Nat
    BY <1>1, <1>2, <1>6
  <1>9. n.target - (ep.done + gained) = left - gained /\ left \in Int /\ left - gained \in Int
    BY <1>1, <1>2, <1>5
  <1>10. next.behind = NonNegative((ep.t - n.deadline) * n.rate[g]
                                     + NonNegative(left - gained) * n.per)
         /\ next.behind \in Nat
    <2>1. next.behind = NonNegative((ep.t - n.deadline) * n.rate[g]
                                      + NonNegative(left - gained) * n.per)
      BY <1>6, <1>9 DEF Projected
    <2>2. NonNegative(left - gained) \in Int
      BY <1>9 DEF NonNegative
    <2>3. (ep.t - n.deadline) * n.rate[g] + NonNegative(left - gained) * n.per \in Int
      BY <1>1, <1>2, <2>2
    <2> QED BY <2>1, <2>3 DEF NonNegative
  <1>11. next.held \in Nat /\ next.from \in Nat /\ next.behind <= next.from + next.held * (n.per - 1)
    <2>1. CASE fresh
      <3>1. 0 * (n.per - 1) = 0
        BY <1>1
      <3> QED BY <1>6, <1>10, <2>1, <3>1
    <2>2. CASE ~fresh
      <3>1. ep.t > 0 /\ ep.gpus = g /\ ~switched
        BY <1>2, <2>2
      <3>2. /\ ep.behind = Projected(n, ep.t - n.tick, ep.done, g)
            /\ ep.behind <= ep.from + ep.held * (n.per - 1)
        BY <3>1 DEF EpisodeInv
      <3> DEFINE open == n.deadline - ep.t
      <3>3. open \in Nat /\ ep.t - n.deadline = -open /\ (ep.t - n.tick) - n.deadline = -open - n.tick
        BY <1>1, <1>2, <1>3
      <3>4. ep.behind = NonNegative((-open - n.tick) * n.rate[g] + NonNegative(left) * n.per)
        BY <3>2, <3>3 DEF Projected
      <3>5. next.behind = NonNegative((-open) * n.rate[g] + NonNegative(left - gained) * n.per)
        BY <1>10, <3>3
      <3> HIDE DEF open, left
      <3>6. next.behind <= ep.behind + (n.per - 1)
        <4>1. /\ left \in Int /\ n.rate[g] \in Nat /\ n.per \in Nat \ {0} /\ n.tick \in Nat
              /\ open \in Nat /\ gained \in Nat
              /\ n.rate[g] * n.tick <= gained * n.per + (n.per - 1)
          BY <1>1, <1>5, <1>9, <3>1, <3>3
        <4>2. NonNegative((-open) * n.rate[g] + NonNegative(left - gained) * n.per)
                <= NonNegative((-open - n.tick) * n.rate[g] + NonNegative(left) * n.per) + (n.per - 1)
          BY <4>1, ProjectionKeeps, Zenon
        <4> QED BY <3>4, <3>5, <4>2, Zenon
      <3>7. (ep.held + 1) * (n.per - 1) = ep.held * (n.per - 1) + (n.per - 1)
            /\ ep.held * (n.per - 1) \in Nat
        BY <1>1, <1>2
      <3> QED BY <1>1, <1>2, <1>6, <1>10, <2>2, <3>2, <3>6, <3>7
    <2> QED BY <2>1, <2>2
  <1>12. EpisodeIsHonest(n, next)
    <2>1. next.energy - next.spent < n.budget
      BY <1>1, <1>2, <1>3, <1>6, <1>7
    <2>2. next.t >= n.deadline /\ next.behind = 0 =>
            (n.target - next.done) * n.per <= n.rate[next.gpus] * n.tick
      <3> SUFFICES ASSUME next.t >= n.deadline, next.behind = 0
                   PROVE  (left - gained) * n.per <= n.rate[g] * n.tick
        BY <1>6, <1>9
      <3> DEFINE past == ep.t - n.deadline
      <3>1. past \in Int /\ past + n.tick >= 0
        BY <1>1, <1>2, <1>8
      <3>2. NonNegative(past * n.rate[g] + NonNegative(left - gained) * n.per) = 0
        BY <1>10
      <3> HIDE DEF past, left
      <3> QED BY <1>1, <1>9, <3>1, <3>2, OnTrackAtTheEnd
    <2> QED BY <1>11, <2>1, <2>2 DEF EpisodeIsHonest
  <1>13. {next.t, next.done, next.energy, next.spent, next.behind, next.held, next.from} \subseteq Nat
    BY <1>2, <1>5, <1>6, <1>7, <1>8, <1>10, <1>11
  <1> QED BY <1>6, <1>8, <1>11, <1>12, <1>13 DEF EpisodeInv, next

-----------------------------------------------------------------------------
(* MPCPolicy: what a width costs is its own, and the price of a switch to it. *)

OwnCost(m, g) ==
  m.carbonWeight * (m.power * g * ForecastSum(m.forecast)) + m.lagWeight * Lag(m, g)
SwitchPrice(m) ==
  m.carbonWeight * (m.switchEnergy * (IF m.forecast = <<>> THEN 0 ELSE m.forecast[1]))
  + m.lagWeight * m.switchLatency

LEMMA MPCCostTypes ==
  ASSUME NEW m, IsForecast(m)
  PROVE  /\ SwitchPrice(m) \in Nat
         /\ \A g \in m.widths : OwnCost(m, g) \in Nat
         /\ \A cur : \A g \in m.widths :
              MPCCost(m, m.forecast, cur, g) = OwnCost(m, g) + IF g = cur THEN 0 ELSE SwitchPrice(m)
  <1> DEFINE now == IF m.forecast = <<>> THEN 0 ELSE m.forecast[1]
             sum == ForecastSum(m.forecast)
  <1>1. /\ m.widths \subseteq Nat /\ m.done \in [m.widths -> Nat] /\ m.pace \in [m.widths -> Nat]
        /\ m.forecast \in Seq(Nat) /\ m.remaining \in Nat /\ m.deadline \in Nat
        /\ m.carbonWeight \in Nat /\ m.lagWeight \in Nat /\ m.power \in Nat
        /\ m.switchLatency \in Nat /\ m.switchEnergy \in Nat
    BY DEF IsForecast
  <1>2. now \in Nat
    <2>1. m.forecast # <<>> => m.forecast[1] \in Nat
      BY <1>1
    <2> QED BY <2>1
  <1>3. sum \in Nat
    <2>1. DOMAIN m.forecast = 1..Len(m.forecast) /\ Len(m.forecast) \in Nat
          /\ \A t \in DOMAIN m.forecast : m.forecast[t] \in Nat
      BY <1>1, LenProperties
    <2>2. IsFiniteSet(DOMAIN m.forecast)
      BY <2>1, FS_Interval
    <2> QED BY <2>1, <2>2, SumBounds DEF ForecastSum, SumFunction
  <1> HIDE DEF now, sum
  <1>4. m.switchEnergy * now \in Nat /\ m.lagWeight * m.switchLatency \in Nat
    BY <1>1, <1>2
  <1>5. m.carbonWeight * (m.switchEnergy * now) \in Nat
    BY <1>1, <1>4, Distributes
  <1>6. SwitchPrice(m) = m.carbonWeight * (m.switchEnergy * now) + m.lagWeight * m.switchLatency
    BY DEF SwitchPrice, now
  <1>7. SwitchPrice(m) \in Nat
    BY <1>4, <1>5, <1>6
  <1>8. ASSUME NEW g \in m.widths
        PROVE  /\ m.power * g * sum \in Nat /\ m.carbonWeight * (m.power * g * sum) \in Nat
               /\ Lag(m, g) \in Nat /\ m.lagWeight * Lag(m, g) \in Nat
    <2>1. g \in Nat /\ m.done[g] \in Nat /\ m.pace[g] \in Nat
      BY <1>1
    <2>2. m.power * g * sum \in Nat
      BY <1>1, <1>3, <2>1, SMTT(30)
    <2>3. m.carbonWeight * (m.power * g * sum) \in Nat
      BY <1>1, <2>2
    <2>4. NonNegative(m.remaining - m.done[g]) \in Nat
      BY <1>1, <2>1 DEF NonNegative
    <2>5. NonNegative(m.remaining - m.done[g]) * m.pace[g] \in Nat
      BY <2>1, <2>4
    <2>6. Lag(m, g) \in Nat
      BY <1>1, <2>5 DEF Lag, NonNegative
    <2> QED BY <1>1, <2>2, <2>3, <2>6, SMTT(30)
  <1>9. ASSUME NEW g \in m.widths, NEW cur
        PROVE  MPCCost(m, m.forecast, cur, g) = OwnCost(m, g) + IF g = cur THEN 0 ELSE SwitchPrice(m)
    <2> PICK x \in Nat, y \in Nat : x = m.power * g * sum /\ y = m.switchEnergy * now
      BY <1>4, <1>8
    <2> PICK l \in Nat : l = Lag(m, g)
      BY <1>8
    <2>1. MPCCost(m, m.forecast, cur, g) =
            m.carbonWeight * (x + IF g = cur THEN 0 ELSE y)
            + m.lagWeight * (l + IF g = cur THEN 0 ELSE m.switchLatency)
      BY DEF MPCCost, now, sum
    <2>2. OwnCost(m, g) = m.carbonWeight * x + m.lagWeight * l
      BY DEF OwnCost, sum
    <2>3. SwitchPrice(m) = m.carbonWeight * y + m.lagWeight * m.switchLatency
      BY <1>6
    <2>4. /\ m.carbonWeight * (x + y) = m.carbonWeight * x + m.carbonWeight * y
          /\ m.carbonWeight * x \in Nat /\ m.carbonWeight * y \in Nat
      <3>1. m.carbonWeight \in Nat
        BY <1>1
      <3> QED BY <3>1, Distributes, SMTT(30)
    <2>8. /\ m.lagWeight * (l + m.switchLatency) = m.lagWeight * l + m.lagWeight * m.switchLatency
          /\ m.lagWeight * l \in Nat /\ m.lagWeight * m.switchLatency \in Nat
      <3> PICK weight \in Nat, latency \in Nat : weight = m.lagWeight /\ latency = m.switchLatency
        BY <1>1
      <3>1. /\ weight * (l + latency) = weight * l + weight * latency
            /\ weight * l \in Nat /\ weight * latency \in Nat
        BY Distributes
      <3> QED BY <3>1, Zenon
    <2>5. x + 0 = x /\ l + 0 = l
      OBVIOUS
    <2>6. CASE g = cur
      BY <2>1, <2>2, <2>4, <2>5, <2>6, <2>8
    <2>7. CASE g # cur
      BY <2>1, <2>2, <2>3, <2>4, <2>7, <2>8
    <2> QED BY <2>6, <2>7
  <1>10. \A g \in m.widths : OwnCost(m, g) \in Nat
    BY <1>8 DEF OwnCost, sum
  <1> QED BY <1>7, <1>9, <1>10

LEMMA MPCDecides ==
  ASSUME NEW m, IsForecast(m), NEW cur
  PROVE  LET g == MPCDecide(m, m.forecast, cur)
             cost(h) == OwnCost(m, h) + IF h = cur THEN 0 ELSE SwitchPrice(m)
         IN  /\ g \in m.widths
             /\ \A h \in m.widths : cost(g) < cost(h) \/ (cost(g) = cost(h) /\ g <= h)
  <1> DEFINE g == MPCDecide(m, m.forecast, cur)
             cost(h) == OwnCost(m, h) + IF h = cur THEN 0 ELSE SwitchPrice(m)
             c == [h \in m.widths |-> cost(h)]
  <1>1. m.widths \in SUBSET Nat /\ IsFiniteSet(m.widths) /\ m.widths # {}
    BY DEF IsForecast
  <1>2. \A h \in m.widths : cost(h) \in Int /\ MPCCost(m, m.forecast, cur, h) = cost(h)
    BY MPCCostTypes
  <1>3. c \in [m.widths -> Int] /\ \A h \in m.widths : c[h] = cost(h)
    BY <1>2
  <1>4. g = CHOOSE x \in m.widths : \A h \in m.widths :
              MPCCost(m, m.forecast, cur, x) < MPCCost(m, m.forecast, cur, h)
              \/ (MPCCost(m, m.forecast, cur, x) = MPCCost(m, m.forecast, cur, h) /\ x <= h)
    BY DEF MPCDecide, Cheapest
  <1> HIDE DEF c, cost
  <1>5. PICK x : IsCheapest(m.widths, c, x)
    BY <1>1, <1>3, CheapestExists
  <1>6. \A h \in m.widths : MPCCost(m, m.forecast, cur, h) = c[h]
    BY <1>2, <1>3
  <1>7. /\ g \in m.widths
        /\ \A h \in m.widths :
             MPCCost(m, m.forecast, cur, g) < MPCCost(m, m.forecast, cur, h)
             \/ (MPCCost(m, m.forecast, cur, g) = MPCCost(m, m.forecast, cur, h) /\ g <= h)
    BY <1>4, <1>5, <1>6, Zenon DEF IsCheapest
  <1> HIDE DEF g
  <1>8. \A h \in m.widths : cost(g) < cost(h) \/ (cost(g) = cost(h) /\ g <= h)
    BY <1>2, <1>7
  <1> QED BY <1>7, <1>8 DEF g, cost

(* The width that was chosen is the one that is held.                         *)
LEMMA MPCHolds ==
  ASSUME NEW m, IsForecast(m), NEW cur
  PROVE  LET g == MPCDecide(m, m.forecast, cur) IN MPCDecide(m, m.forecast, g) = g
  <1> DEFINE g == MPCDecide(m, m.forecast, cur)
             k == MPCDecide(m, m.forecast, g)
             own(h) == OwnCost(m, h)
             price == SwitchPrice(m)
  <1>1. price \in Nat /\ m.widths \subseteq Nat /\ \A h \in m.widths : own(h) \in Nat
    BY MPCCostTypes DEF IsForecast
  <1>2. /\ g \in m.widths
        /\ \A h \in m.widths :
             own(g) + (IF g = cur THEN 0 ELSE price) < own(h) + (IF h = cur THEN 0 ELSE price)
             \/ (own(g) + (IF g = cur THEN 0 ELSE price) = own(h) + (IF h = cur THEN 0 ELSE price)
                 /\ g <= h)
    BY MPCDecides
  <1>3. /\ k \in m.widths
        /\ \A h \in m.widths :
             own(k) + (IF k = g THEN 0 ELSE price) < own(h) + (IF h = g THEN 0 ELSE price)
             \/ (own(k) + (IF k = g THEN 0 ELSE price) = own(h) + (IF h = g THEN 0 ELSE price)
                 /\ k <= h)
    BY MPCDecides
  <1> HIDE DEF g, k, own, price
  <1>4. g \in Nat /\ k \in Nat /\ own(g) \in Nat /\ own(k) \in Nat
    BY <1>1, <1>2, <1>3
  <1>5. \/ own(g) + (IF g = cur THEN 0 ELSE price) < own(k) + (IF k = cur THEN 0 ELSE price)
        \/ /\ own(g) + (IF g = cur THEN 0 ELSE price) = own(k) + (IF k = cur THEN 0 ELSE price)
           /\ g <= k
    BY <1>2, <1>3
  <1>6. \/ own(k) + (IF k = g THEN 0 ELSE price) < own(g)
        \/ own(k) + (IF k = g THEN 0 ELSE price) = own(g) /\ k <= g
    BY <1>2, <1>3, <1>4
  <1>7. k = g
    BY <1>1, <1>4, <1>5, <1>6
  <1> QED BY <1>7 DEF g, k

-----------------------------------------------------------------------------
(* OnlinePrimalDualPolicy: beyond a bound of the dual variable the fastest    *)
(* width is chosen, so that the variable stays below it and a step.           *)

FastestWidth(d) == CHOOSE g \in DOMAIN d.rate : \A h \in DOMAIN d.rate : d.rate[h] <= d.rate[g]

LEMMA FastestWidthIs ==
  ASSUME NEW d, IsDual(d)
  PROVE  /\ FastestWidth(d) \in DOMAIN d.rate
         /\ \A g \in DOMAIN d.rate : d.rate[g] \in Nat /\ d.energy[g] \in Nat
                                     /\ d.rate[g] <= d.rate[FastestWidth(d)]
         /\ IsFiniteSet(DOMAIN d.rate) /\ DOMAIN d.rate \in SUBSET Nat
  <1>1. /\ DOMAIN d.rate \in SUBSET Nat /\ IsFiniteSet(DOMAIN d.rate) /\ DOMAIN d.rate # {}
        /\ \A g \in DOMAIN d.rate : d.rate[g] \in Nat
    BY RateFacts DEF IsDual
  <1>2. \A g \in DOMAIN d.rate : d.energy[g] \in Nat
    BY DEF IsDual
  <1>3. \E g \in DOMAIN d.rate : \A h \in DOMAIN d.rate : d.rate[h] <= d.rate[g]
    BY <1>1, LargestExists
  <1>4. /\ FastestWidth(d) \in DOMAIN d.rate
        /\ \A h \in DOMAIN d.rate : d.rate[h] <= d.rate[FastestWidth(d)]
    BY <1>3, Zenon DEF FastestWidth
  <1> QED BY <1>1, <1>2, <1>4

\* What the fastest width costs more than g, per iteration per second, rounded up.
ExtraCost(d, g) ==
  d.energy[FastestWidth(d)] * d.rate[FastestWidth(d)] - d.energy[g] * d.rate[g]
PerRate(d, g) ==
  NonNegative(ExtraCost(d, g)) \div (d.rate[FastestWidth(d)] - d.rate[g]) + 1
Slower(d) == {g \in DOMAIN d.rate : d.rate[g] < d.rate[FastestWidth(d)]}

LEMMA PerRateCovers ==
  ASSUME NEW d, IsDual(d), NEW g \in Slower(d)
  PROVE  /\ PerRate(d, g) \in Nat /\ ExtraCost(d, g) \in Int
         /\ ExtraCost(d, g) <= PerRate(d, g) * (d.rate[FastestWidth(d)] - d.rate[g])
  <1>1. /\ FastestWidth(d) \in DOMAIN d.rate /\ g \in DOMAIN d.rate
        /\ d.rate[g] < d.rate[FastestWidth(d)]
        /\ d.rate[g] \in Nat /\ d.rate[FastestWidth(d)] \in Nat
        /\ d.energy[g] \in Nat /\ d.energy[FastestWidth(d)] \in Nat
    BY FastestWidthIs DEF Slower
  <1>2. PICK gap \in Nat \ {0} : gap = d.rate[FastestWidth(d)] - d.rate[g]
    <2>1. d.rate[FastestWidth(d)] - d.rate[g] \in Nat \ {0}
      BY <1>1
    <2> QED BY <2>1
  <1>3. ExtraCost(d, g) \in Int
    <2>1. d.energy[g] * d.rate[g] \in Nat /\ d.energy[FastestWidth(d)] * d.rate[FastestWidth(d)] \in Nat
      BY <1>1, Distributes
    <2> QED BY <2>1 DEF ExtraCost
  <1>4. PICK x \in Nat : x = NonNegative(ExtraCost(d, g)) /\ ExtraCost(d, g) <= x
    BY <1>3 DEF NonNegative
  <1>5. x \div gap \in Nat /\ x <= (x \div gap) * gap + (gap - 1)
    BY FractionsDropped
  <1>6. (x \div gap + 1) * gap = (x \div gap) * gap + gap /\ (x \div gap) * gap \in Nat
    BY <1>5
  <1>7. PerRate(d, g) = x \div gap + 1
    BY <1>2, <1>4 DEF PerRate
  <1> QED BY <1>2, <1>3, <1>4, <1>5, <1>6, <1>7

LEMMA SteepestCovers ==
  ASSUME NEW d, IsDual(d)
  PROVE  SteepestCost(d) \in Nat /\ \A g \in Slower(d) : PerRate(d, g) <= SteepestCost(d)
  <1> DEFINE S == Slower(d)
             f == [g \in S |-> PerRate(d, g)]
  <1>1. SteepestCost(d) = IF S = {} THEN 0
                          ELSE CHOOSE n \in {PerRate(d, g) : g \in S} : \A g \in S : PerRate(d, g) <= n
    BY DEF SteepestCost, Slower, PerRate, ExtraCost, FastestWidth
  <1>2. IsFiniteSet(S)
    <2>1. S \subseteq DOMAIN d.rate
      BY DEF Slower
    <2> QED BY <2>1, FastestWidthIs, FS_Subset
  <1>3. \A g \in S : PerRate(d, g) \in Nat /\ f[g] = PerRate(d, g)
    BY PerRateCovers
  <1> HIDE DEF S, f
  <1>4. CASE S = {}
    BY <1>1, <1>4 DEF S
  <1>5. CASE S # {}
    <2>1. PICK g \in S : \A h \in S : f[h] <= f[g]
      BY <1>2, <1>3, <1>5, LargestExists
    <2>2. \E n \in {PerRate(d, h) : h \in S} : \A h \in S : PerRate(d, h) <= n
      BY <1>3, <2>1
    <2>3. /\ SteepestCost(d) \in {PerRate(d, h) : h \in S}
          /\ \A h \in S : PerRate(d, h) <= SteepestCost(d)
      BY <1>1, <1>5, <2>2, Zenon
    <2> QED BY <1>3, <2>3 DEF S
  <1> QED BY <1>4, <1>5

(* A large dual variable takes the fastest width, whatever the intensity.     *)
LEMMA PerIteration ==
  ASSUME NEW e \in Nat, NEW i \in Nat, NEW l \in Nat, NEW r \in Nat
  PROVE  (e * i - l) * r = i * (e * r) - l * r
  OBVIOUS

LEMMA LargeDualIsFast ==
  ASSUME NEW d, IsDual(d), NEW dirtiest \in Nat, NEW i \in Nat, i <= dirtiest,
         NEW lambda \in Nat, lambda > dirtiest * SteepestCost(d)
  PROVE  d.rate[PrimalChoice(d, lambda, i)] = d.rate[FastestWidth(d)]
  <1> DEFINE f == FastestWidth(d)
             g == PrimalChoice(d, lambda, i)
  <1>1. /\ f \in DOMAIN d.rate /\ g \in DOMAIN d.rate
        /\ Lagrangian(d, lambda, i, g) < Lagrangian(d, lambda, i, f)
           \/ Lagrangian(d, lambda, i, g) = Lagrangian(d, lambda, i, f)
    <2>1. d.rate \in Seq(Nat) /\ d.rate # <<>> /\ d.energy \in [DOMAIN d.rate -> Nat]
      BY DEF IsDual
    <2> QED BY <2>1, PrimalChoiceType, FastestWidthIs, ZenonT(30)
  <1> HIDE DEF g
  <1>2. SUFFICES ASSUME d.rate[g] # d.rate[f] PROVE FALSE
    BY DEF g
  <1>3. g \in Slower(d) /\ d.rate[g] \in Nat /\ d.rate[f] \in Nat /\ d.energy[g] \in Nat
        /\ d.energy[f] \in Nat
    BY <1>1, <1>2, FastestWidthIs DEF Slower
  <1> HIDE DEF f
  <1>4. PICK gap \in Nat \ {0} : gap = d.rate[f] - d.rate[g]
    <2>1. d.rate[f] - d.rate[g] \in Nat \ {0}
      BY <1>3, FastestWidthIs DEF Slower, f
    <2> QED BY <2>1
  <1>5. PICK extra \in Int, per \in Nat, steep \in Nat :
          /\ extra = ExtraCost(d, g) /\ per = PerRate(d, g) /\ steep = SteepestCost(d)
          /\ extra <= per * gap /\ per <= steep
    <2>1. /\ PerRate(d, g) \in Nat /\ ExtraCost(d, g) \in Int
          /\ ExtraCost(d, g) <= PerRate(d, g) * gap
      BY <1>3, <1>4, PerRateCovers DEF f
    <2>2. SteepestCost(d) \in Nat /\ PerRate(d, g) <= SteepestCost(d)
      BY <1>3, SteepestCovers
    <2> QED BY <2>1, <2>2
  \* The difference of the two costs is extra at this intensity less lambda per rate.
  <1>6. Lagrangian(d, lambda, i, f) - Lagrangian(d, lambda, i, g) = i * extra - lambda * gap
    <2> PICK ef \in Nat, eg \in Nat, rf \in Nat, rg \in Nat :
          ef = d.energy[f] /\ eg = d.energy[g] /\ rf = d.rate[f] /\ rg = d.rate[g]
      BY <1>3
    <2>1. /\ Lagrangian(d, lambda, i, f) = (ef * i - lambda) * rf
          /\ Lagrangian(d, lambda, i, g) = (eg * i - lambda) * rg
      BY DEF Lagrangian
    <2>2. extra = ef * rf - eg * rg /\ gap = rf - rg
      BY <1>4, <1>5 DEF ExtraCost, f
    <2> PICK x \in Nat, y \in Nat : x = ef * rf /\ y = eg * rg
      BY Distributes
    <2>3. /\ (ef * i - lambda) * rf = i * x - lambda * rf
          /\ (eg * i - lambda) * rg = i * y - lambda * rg
      BY PerIteration
    <2>4. i * (x - y) = i * x - i * y
      OBVIOUS
    <2>6. lambda * (rf - rg) = lambda * rf - lambda * rg
      OBVIOUS
    <2>5. i * x \in Nat /\ i * y \in Nat /\ lambda * rf \in Nat /\ lambda * rg \in Nat
      BY Distributes
    <2> QED BY <2>1, <2>2, <2>3, <2>4, <2>5, <2>6
  <1>7. i * extra <= (dirtiest * steep) * gap
    <2>1. per * gap \in Nat /\ steep * gap \in Nat /\ per * gap <= steep * gap
      BY <1>5, ProductsGrow
    <2>2. PICK z \in Nat : z = steep * gap
      BY <2>1
    <2>3. extra <= z
      BY <1>5, <2>1, <2>2
    <2>4. i * extra <= i * z
      <3>1. z - extra \in Nat
        BY <2>3
      <3>2. i * (z - extra) \in Nat /\ i * (z - extra) = i * z - i * extra
        BY <3>1
      <3> QED BY <3>2
    <2>5. i * z <= dirtiest * z
      BY ProductsGrow
    <2>6. dirtiest * z = (dirtiest * steep) * gap
      BY <2>2
    <2> QED BY <2>4, <2>5, <2>6
  <1>8. lambda * gap > (dirtiest * steep) * gap
    <2> PICK x \in Nat : x = dirtiest * steep
      OBVIOUS
    <2>1. lambda - x \in Nat \ {0}
      BY <1>5
    <2>2. (lambda - x) * gap \in Nat \ {0} /\ (lambda - x) * gap = lambda * gap - x * gap
      BY <2>1
    <2> QED BY <2>2
  <1>9. Lagrangian(d, lambda, i, f) \in Int /\ Lagrangian(d, lambda, i, g) \in Int
    BY <1>3 DEF Lagrangian
  <1> QED BY <1>1, <1>6, <1>7, <1>8, <1>9

\* The dual variable is as large as the debt makes it, and bounded where the target
\* can be attained.
DualInv(d, a) ==
  /\ a.lambda \in Nat /\ a.debt \in Nat /\ d.eta * a.debt <= a.lambda
  /\ Attainable(d) =>
       \E dirtiest \in d.intensities :
         /\ \A b \in d.intensities : b <= dirtiest
         /\ a.lambda <= DebtBound(d, dirtiest)

AfterDual(d, a, g) ==
  [lambda |-> DualStep(d, a.lambda, g), debt |-> NonNegative(a.debt + d.target - d.rate[g])]

LEMMA DirtiestExists ==
  ASSUME NEW d, IsDual(d)
  PROVE  \E dirtiest \in d.intensities : \A b \in d.intensities : b <= dirtiest
  <1> DEFINE f == [b \in d.intensities |-> b]
  <1>1. d.intensities \subseteq Nat /\ IsFiniteSet(d.intensities) /\ d.intensities # {}
    BY DEF IsDual
  <1>2. \A b \in d.intensities : f[b] = b /\ f[b] \in Nat
    BY <1>1
  <1> HIDE DEF f
  <1>3. PICK x \in d.intensities : \A b \in d.intensities : f[b] <= f[x]
    BY <1>1, <1>2, LargestExists
  <1> QED BY <1>2, <1>3

LEMMA DualBegins ==
  ASSUME NEW d, IsDual(d)
  PROVE  DualInv(d, [lambda |-> 0, debt |-> 0])
  <1>1. PICK dirtiest \in d.intensities : \A b \in d.intensities : b <= dirtiest
    BY DirtiestExists
  <1>2. /\ dirtiest \in Nat /\ SteepestCost(d) \in Nat /\ d.eta \in Nat /\ d.target \in Nat
    BY SteepestCovers DEF IsDual
  <1>3. dirtiest * SteepestCost(d) \in Nat /\ d.eta * d.target \in Nat
    <2>1. dirtiest * SteepestCost(d) \in Nat
      BY <1>2, Distributes, Zenon
    <2>2. d.eta * d.target \in Nat
      BY <1>2, Distributes, Zenon
    <2> QED BY <2>1, <2>2
  <1>4. 0 <= DebtBound(d, dirtiest)
    BY <1>3 DEF DebtBound
  <1>5. d.eta * 0 = 0
    BY <1>2
  <1> QED BY <1>1, <1>4, <1>5 DEF DualInv

LEMMA DualInvNext ==
  ASSUME NEW d, IsDual(d), NEW a, DualInv(d, a), NEW i \in d.intensities
  PROVE  DualInv(d, AfterDual(d, a, PrimalChoice(d, a.lambda, i)))
  <1> DEFINE g == PrimalChoice(d, a.lambda, i)
             next == AfterDual(d, a, g)
  <1>1. /\ i \in Nat /\ d.eta \in Nat /\ d.target \in Nat /\ d.intensities \subseteq Nat
        /\ a.lambda \in Nat /\ a.debt \in Nat /\ d.eta * a.debt <= a.lambda
    BY DEF IsDual, DualInv
  <1>2. g \in DOMAIN d.rate /\ d.rate[g] \in Nat
    <2>1. d.rate \in Seq(Nat) /\ d.rate # <<>> /\ d.energy \in [DOMAIN d.rate -> Nat]
      BY DEF IsDual
    <2> QED BY <1>1, <2>1, PrimalChoiceType, FastestWidthIs
  <1>3. next.lambda = DualStep(d, a.lambda, g) /\ next.debt = NonNegative(a.debt + d.target - d.rate[g])
    BY DEF AfterDual
  <1> HIDE DEF g, next
  <1> PICK eta \in Nat, target \in Nat, rate \in Nat, lambda \in Nat, debt \in Nat :
        /\ eta = d.eta /\ target = d.target /\ rate = d.rate[g]
        /\ lambda = a.lambda /\ debt = a.debt
    BY <1>1, <1>2
  <1>4. PICK push \in Int : push = eta * (target - rate)
    <2>1. eta * (target - rate) \in Int
      OBVIOUS
    <2> QED BY <2>1
  <1>5. next.lambda = NonNegative(lambda + push) /\ next.debt = NonNegative(debt + target - rate)
    BY <1>3, <1>4 DEF DualStep
  <1>6. next.lambda \in Nat /\ next.debt \in Nat
    BY <1>5 DEF NonNegative
  <1>7. eta * debt \in Nat /\ eta * debt <= lambda
    BY <1>1
  <1>8. eta * next.debt <= next.lambda
    <2>1. CASE debt + target - rate > 0
      <3>1. next.debt = debt + (target - rate)
        BY <1>5, <2>1 DEF NonNegative
      <3>2. eta * (debt + (target - rate)) = eta * debt + eta * (target - rate)
        OBVIOUS
      <3>3. eta * next.debt <= lambda + push
        BY <1>4, <1>7, <3>1, <3>2
      <3>4. lambda + push <= next.lambda
        BY <1>5 DEF NonNegative
      <3>5. eta * next.debt \in Int
        BY <1>6
      <3> QED BY <1>6, <3>3, <3>4, <3>5
    <2>2. CASE ~(debt + target - rate > 0)
      <3>1. next.debt = 0 /\ eta * 0 = 0
        BY <1>5, <2>2 DEF NonNegative
      <3> QED BY <1>6, <3>1
    <2> QED BY <2>1, <2>2
  <1>9. ASSUME Attainable(d)
        PROVE  \E dirtiest \in d.intensities :
                 (\A b \in d.intensities : b <= dirtiest) /\ next.lambda <= DebtBound(d, dirtiest)
    <2>1. PICK dirtiest \in d.intensities :
            (\A b \in d.intensities : b <= dirtiest) /\ lambda <= DebtBound(d, dirtiest)
      BY <1>9 DEF DualInv
    <2>2. dirtiest \in Nat /\ SteepestCost(d) \in Nat /\ i <= dirtiest
      BY <1>1, <2>1, SteepestCovers
    <2>3. PICK far \in Nat : far = dirtiest * SteepestCost(d)
      BY <2>2, Distributes
    <2>4. PICK more \in Nat : more = eta * target /\ push <= more
      <3>1. eta * target \in Nat /\ eta * rate \in Nat
        BY Distributes
      <3>2. push = eta * target - eta * rate
        BY <1>4, DistributesOver
      <3> QED BY <3>1, <3>2
    <2>5. DebtBound(d, dirtiest) = far + more
      BY <2>3, <2>4 DEF DebtBound
    <2>6. next.lambda <= far + more
      <3>1. CASE lambda <= far
        BY <1>5, <2>4, <3>1 DEF NonNegative
      <3>2. CASE lambda > far
        <4>1. d.rate[g] = d.rate[FastestWidth(d)]
          BY <1>1, <2>2, <2>3, <3>2, LargeDualIsFast DEF g
        <4>2. target <= rate
          <5>1. PICK h \in DOMAIN d.rate : d.rate[h] >= d.target
            BY <1>9 DEF Attainable
          <5>2. d.rate[h] <= d.rate[FastestWidth(d)] /\ d.rate[h] \in Nat
            BY FastestWidthIs
          <5> QED BY <4>1, <5>1, <5>2
        <4>3. push <= 0
          <5>1. PICK extra \in Nat : rate = target + extra
            <6>1. rate - target \in Nat /\ rate = target + (rate - target)
              BY <4>2
            <6> QED BY <6>1
          <5>2. eta * (target + extra) = eta * target + eta * extra
            BY Distributes
          <5>3. push = eta * target - eta * rate
            BY <1>4, DistributesOver
          <5>4. eta * extra \in Nat /\ eta * target \in Nat
            BY Distributes
          <5> QED BY <5>1, <5>2, <5>3, <5>4
        <4>4. lambda <= far + more
          BY <2>1, <2>5
        <4> QED BY <1>5, <4>3, <4>4 DEF NonNegative
      <3> QED BY <3>1, <3>2
    <2> QED BY <2>1, <2>5, <2>6
  <1> QED BY <1>6, <1>8, <1>9 DEF DualInv, next, g

-----------------------------------------------------------------------------
(* The hybrid planner: one count of replicas per depth is enough.             *)

LEMMA FractionsCompose ==
  ASSUME NEW p1 \in Nat, NEW p2 \in Nat, NEW p3 \in Nat,
         NEW q1 \in Nat \ {0}, NEW q2 \in Nat \ {0}, NEW q3 \in Nat \ {0},
         p1 * q2 <= p2 * q1, p2 * q3 <= p3 * q2
  PROVE  /\ p1 * q3 <= p3 * q1
         /\ p1 * q2 < p2 * q1 \/ p2 * q3 < p3 * q2 => p1 * q3 < p3 * q1
  <1>1. PICK a \in Nat, b \in Nat, c \in Nat, d \in Nat, x \in Nat, y \in Nat :
          /\ a = p1 * q2 /\ b = p2 * q1 /\ c = p2 * q3 /\ d = p3 * q2
          /\ x = p1 * q3 /\ y = p3 * q1
    <2>1. /\ p1 * q2 \in Nat /\ p2 * q1 \in Nat /\ p2 * q3 \in Nat /\ p3 * q2 \in Nat
          /\ p1 * q3 \in Nat /\ p3 * q1 \in Nat
      OBVIOUS
    <2> QED BY <2>1
  <1>2. a * q3 = x * q2 /\ b * q3 = c * q1 /\ d * q1 = y * q2
    <2>1. a * q3 = x * q2
      BY <1>1
    <2>2. b * q3 = c * q1
      BY <1>1
    <2>3. d * q1 = y * q2
      BY <1>1
    <2> QED BY <2>1, <2>2, <2>3
  <1>3. /\ a * q3 <= b * q3 /\ c * q1 <= d * q1
        /\ a < b => a * q3 < b * q3
        /\ c < d => c * q1 < d * q1
    <2>1. a * q3 <= b * q3 /\ c * q1 <= d * q1
      BY <1>1, ProductsGrow
    <2>2. ASSUME a < b PROVE a * q3 < b * q3
      <3>1. (b - a) * q3 \in Nat \ {0}
        <4>1. b - a \in Nat \ {0}
          BY <2>2
        <4> QED BY <4>1
      <3>2. (b - a) * q3 = b * q3 - a * q3 /\ b * q3 \in Nat /\ a * q3 \in Nat
        OBVIOUS
      <3> QED BY <3>1, <3>2
    <2>3. ASSUME c < d PROVE c * q1 < d * q1
      <3>1. (d - c) * q1 \in Nat \ {0}
        <4>1. d - c \in Nat \ {0}
          BY <2>3
        <4> QED BY <4>1
      <3>2. (d - c) * q1 = d * q1 - c * q1 /\ d * q1 \in Nat /\ c * q1 \in Nat
        OBVIOUS
      <3> QED BY <3>1, <3>2
    <2> QED BY <2>1, <2>2, <2>3
  <1>4. x * q2 \in Nat /\ y * q2 \in Nat /\ c * q1 \in Nat
    OBVIOUS
  <1>5. x > y => x * q2 > y * q2
    <2>1. SUFFICES ASSUME x > y PROVE x * q2 > y * q2
      OBVIOUS
    <2>2. x - y \in Nat \ {0}
      BY <2>1
    <2>3. (x - y) * q2 \in Nat \ {0} /\ (x - y) * q2 = x * q2 - y * q2
      BY <2>2
    <2> QED BY <1>4, <2>3
  <1>6. x <= y
    BY <1>2, <1>3, <1>4, <1>5
  <1>7. a < b \/ c < d => x # y
    <2>1. a < b \/ c < d => x * q2 < y * q2
      BY <1>2, <1>3, <1>4
    <2> QED BY <1>4, <2>1
  <1> QED BY <1>1, <1>6, <1>7

\* Of fractions p / q, s comes before t, or is as good and at no later a place.
ComesBefore(p, q, place, s, t) ==
  p[s] * q[t] < p[t] * q[s] \/ (~(p[t] * q[s] < p[s] * q[t]) /\ place[s] <= place[t])

LEMMA FirstFractionExists ==
  ASSUME NEW S, IsFiniteSet(S), S # {}, NEW p \in [S -> Nat], NEW q \in [S -> Nat \ {0}],
         NEW place \in [S -> Nat]
  PROVE  \E s \in S : \A t \in S : ComesBefore(p, q, place, s, t)
  <1> DEFINE Precedes(s, t) == ComesBefore(p, q, place, s, t)
             P == {T \in SUBSET S : T = {} \/ \E s \in T : \A t \in T : Precedes(s, t)}
  <1>1. \A s, t \in S : /\ p[s] \in Nat /\ q[s] \in Nat \ {0} /\ place[s] \in Nat
                        /\ p[s] * q[t] \in Nat
    <2> SUFFICES ASSUME NEW s \in S, NEW t \in S
                 PROVE  /\ p[s] \in Nat /\ q[s] \in Nat \ {0} /\ place[s] \in Nat
                        /\ p[s] * q[t] \in Nat
      OBVIOUS
    <2>1. p[s] \in Nat /\ q[t] \in Nat /\ q[s] \in Nat \ {0} /\ place[s] \in Nat
      OBVIOUS
    <2> QED BY <2>1, Distributes
  <1>2. \A s, t \in S : Precedes(s, t) \/ Precedes(t, s)
    BY <1>1 DEF ComesBefore
  <1>3. ASSUME NEW s \in S, NEW t \in S, NEW u \in S, Precedes(s, t), Precedes(t, u)
        PROVE  Precedes(s, u)
    <2> PICK ps \in Nat, pt \in Nat, pu \in Nat, qs \in Nat \ {0}, qt \in Nat \ {0}, qu \in Nat \ {0},
             ls \in Nat, lt \in Nat, lu \in Nat :
          /\ ps = p[s] /\ pt = p[t] /\ pu = p[u] /\ qs = q[s] /\ qt = q[t] /\ qu = q[u]
          /\ ls = place[s] /\ lt = place[t] /\ lu = place[u]
      BY <1>1
    <2>1. /\ ps * qt \in Nat /\ pt * qs \in Nat /\ pt * qu \in Nat /\ pu * qt \in Nat
          /\ ps * qu \in Nat /\ pu * qs \in Nat
      BY Distributes
    <2>2. /\ ps * qt < pt * qs \/ (~(pt * qs < ps * qt) /\ ls <= lt)
          /\ pt * qu < pu * qt \/ (~(pu * qt < pt * qu) /\ lt <= lu)
      BY <1>3 DEF ComesBefore
    <2>3. ps * qt <= pt * qs /\ pt * qu <= pu * qt
      BY <2>1, <2>2
    <2>4. /\ ps * qu <= pu * qs
          /\ ps * qt < pt * qs \/ pt * qu < pu * qt => ps * qu < pu * qs
      BY <2>3, FractionsCompose
    <2>5. ps * qu < pu * qs \/ (~(pu * qs < ps * qu) /\ ls <= lu)
      BY <2>1, <2>2, <2>4
    <2> QED BY <2>5 DEF ComesBefore
  <1>4. \A s \in S : Precedes(s, s)
    BY <1>2
  <1> HIDE DEF Precedes
  <1>5. ASSUME NEW T \in SUBSET S,
               \A U \in SUBSET S : Cardinality(U) < Cardinality(T) => U \in P
        PROVE  T \in P
    <2>1. CASE T = {}
      BY <2>1
    <2>2. CASE T # {}
      <3>1. PICK x \in T : TRUE
        BY <2>2
      <3>2. IsFiniteSet(T)
        BY FS_Subset
      <3>3. T \ {x} \in SUBSET S /\ Cardinality(T \ {x}) < Cardinality(T)
        BY <3>1, <3>2, RemovalShrinks
      <3>4. T \ {x} \in P
        BY <1>5, <3>3
      <3>5. CASE T \ {x} = {}
        BY <1>4, <3>1, <3>5
      <3>6. CASE T \ {x} # {}
        <4>1. PICK s \in T \ {x} : \A t \in T \ {x} : Precedes(s, t)
          BY <3>4, <3>6
        <4>2. CASE Precedes(s, x)
          BY <4>1, <4>2
        <4>3. CASE Precedes(x, s)
          <5>1. \A t \in T : Precedes(x, t)
            BY <1>3, <1>4, <4>1, <4>3
          <5> QED BY <3>1, <5>1
        <4> QED BY <1>2, <4>1, <4>2, <4>3
      <3> QED BY <3>5, <3>6
    <2> QED BY <2>1, <2>2
  <1> HIDE DEF P
  <1>6. S \in P
    BY <1>5, SubsetInduction
  <1> QED BY <1>6 DEF P, Precedes

\* The time of a step, as it is compared: s takes no longer than t.
NoSlower(h, s, t) == ~Faster(h, t, s)

Time(h, dp, mp) == Runtime(h, dp, mp).num
Unit(h, dp, mp) == Runtime(h, dp, mp).den

\* The compute of a stage with its bubbles, times its share of the stages.
Bubbled(h, mp) == 100 + h.bubble * (mp - 1)

LEMMA RuntimeIs ==
  ASSUME NEW h \in RuntimeModels, NEW dp \in Nat \ {0}, NEW mp \in Nat \ {0}
  PROVE  /\ Bubbled(h, mp) \in Nat \ {0}
         /\ ~h.split => /\ Time(h, dp, mp) = h.work * Bubbled(h, mp) + 100 * h.reduce * (dp - 1)
                        /\ Unit(h, dp, mp) = 100 * mp
         /\ h.split => /\ Time(h, dp, mp) = h.work * Bubbled(h, mp) + 100 * h.reduce * (dp - 1) * dp
                       /\ Unit(h, dp, mp) = 100 * dp * mp
         /\ Time(h, dp, mp) \in Nat /\ Unit(h, dp, mp) \in Nat \ {0}
  <1>1. /\ h.work \in Nat /\ h.reduce \in Nat /\ h.bubble \in Nat /\ h.bubble <= 50
        /\ h.split \in BOOLEAN
    BY DEF RuntimeModels
  <1>2. Bubbled(h, mp) \in Nat \ {0}
    <2>1. h.bubble * (mp - 1) \in Nat
      <3>1. mp - 1 \in Nat
        OBVIOUS
      <3> QED BY <1>1, <3>1, Distributes
    <2> QED BY <2>1 DEF Bubbled
  <1>3. /\ Time(h, dp, mp) = h.work * Bubbled(h, mp)
                               + 100 * h.reduce * (dp - 1) * (IF h.split THEN dp ELSE 1)
        /\ Unit(h, dp, mp) = 100 * (IF h.split THEN dp ELSE 1) * mp
    BY DEF Time, Unit, Runtime, StepWork, Bubbled
  <1>4. PICK c \in Nat, w \in Nat, r \in Nat : c = Bubbled(h, mp) /\ w = h.work /\ r = h.reduce
    BY <1>1, <1>2
  <1>5. w * c \in Nat
    BY Distributes
  <1>6. dp - 1 \in Nat /\ 100 * r \in Nat
    OBVIOUS
  <1>7. 100 * r * (dp - 1) \in Nat /\ 100 * dp \in Nat \ {0}
    BY <1>6, Distributes
  <1>8. 100 * r * (dp - 1) * dp \in Nat /\ 100 * dp * mp \in Nat \ {0} /\ 100 * mp \in Nat \ {0}
    <2>1. 100 * r * (dp - 1) * dp \in Nat
      BY <1>7, Distributes
    <2>2. 100 * dp * mp \in Nat \ {0}
      BY <1>7
    <2> QED BY <2>1, <2>2
  <1>9. CASE h.split
    BY <1>2, <1>3, <1>4, <1>5, <1>7, <1>8, <1>9
  <1>10. CASE ~h.split
    <2>1. /\ 100 * r * (dp - 1) * 1 = 100 * r * (dp - 1)
          /\ 100 * 1 * mp = 100 * mp
      BY <1>7
    <2> QED BY <1>2, <1>3, <1>4, <1>5, <1>7, <1>8, <1>10, <2>1
  <1> QED BY <1>1, <1>9, <1>10

LEMMA SplitRuntimeIs ==
  ASSUME NEW h \in RuntimeModels, h.split, NEW dp \in Nat \ {0}, NEW mp \in Nat \ {0}
  PROVE  /\ Time(h, dp, mp) = h.work * Bubbled(h, mp) + 100 * h.reduce * (dp - 1) * dp
         /\ Unit(h, dp, mp) = 100 * dp * mp
  <1>1. Time(h, dp, mp) = h.work * Bubbled(h, mp) + 100 * h.reduce * (dp - 1) * dp
    BY RuntimeIs
  <1>2. Unit(h, dp, mp) = 100 * dp * mp
    BY RuntimeIs
  <1> QED BY <1>1, <1>2

(* More stages do not make the pipeline's share of the compute larger, where  *)
(* a bubble costs no more than a stage.                                       *)
LEMMA StagesShare ==
  ASSUME NEW h \in RuntimeModels, NEW m \in Nat \ {0}, NEW n \in Nat \ {0}, m <= n
  PROVE  /\ Bubbled(h, n) * m <= Bubbled(h, m) * n
         /\ m < n => Bubbled(h, n) * m < Bubbled(h, m) * n
  <1> PICK b \in 0..50 : b = h.bubble
    BY DEF RuntimeModels
  <1>1. Bubbled(h, m) = (100 - b) + b * m /\ Bubbled(h, n) = (100 - b) + b * n
    BY DEF Bubbled
  <1>2. /\ ((100 - b) + b * n) * m = (100 - b) * m + (b * n) * m
        /\ ((100 - b) + b * m) * n = (100 - b) * n + (b * m) * n
        /\ (b * n) * m = (b * m) * n
    OBVIOUS
  <1>3. (100 - b) * n = (100 - b) * m + (100 - b) * (n - m)
    OBVIOUS
  <1>4. (100 - b) * (n - m) \in Nat /\ (m < n => (100 - b) * (n - m) > 0)
    <2>1. 100 - b \in Nat \ {0} /\ n - m \in Nat /\ (m < n => n - m \in Nat \ {0})
      OBVIOUS
    <2> QED BY <2>1
  <1>5. (100 - b) * m \in Nat /\ (b * n) * m \in Nat
    BY SMTT(30)
  <1> QED BY <1>1, <1>2, <1>3, <1>4, <1>5

\* The time of s against the time of t, cross-multiplied.
AsGood(h, d1, m1, d2, m2) == Time(h, d1, m1) * Unit(h, d2, m2) <= Time(h, d2, m2) * Unit(h, d1, m1)

LEMMA AsGoodComposes ==
  ASSUME NEW h \in RuntimeModels,
         NEW d1 \in Nat \ {0}, NEW m1 \in Nat \ {0}, NEW d2 \in Nat \ {0}, NEW m2 \in Nat \ {0},
         NEW d3 \in Nat \ {0}, NEW m3 \in Nat \ {0},
         AsGood(h, d1, m1, d2, m2), AsGood(h, d2, m2, d3, m3)
  PROVE  AsGood(h, d1, m1, d3, m3)
  <1>1. /\ Time(h, d1, m1) \in Nat /\ Unit(h, d1, m1) \in Nat \ {0}
        /\ Time(h, d2, m2) \in Nat /\ Unit(h, d2, m2) \in Nat \ {0}
        /\ Time(h, d3, m3) \in Nat /\ Unit(h, d3, m3) \in Nat \ {0}
    BY RuntimeIs
  <1> QED BY <1>1, FractionsCompose DEF AsGood

(* More stages for as many replicas are never slower.                         *)
LEMMA DeeperIsAsGood ==
  ASSUME NEW h \in RuntimeModels, NEW d \in Nat \ {0}, NEW m \in Nat \ {0}, NEW n \in Nat \ {0},
         m <= n
  PROVE  AsGood(h, d, n, d, m)
  <1> PICK w \in Nat, r \in Nat, am \in Nat, an \in Nat :
        w = h.work /\ r = h.reduce /\ am = Bubbled(h, m) /\ an = Bubbled(h, n)
    <2>1. h.work \in Nat /\ h.reduce \in Nat
      BY DEF RuntimeModels
    <2> QED BY <2>1, RuntimeIs
  <1>1. an * m <= am * n
    BY StagesShare
  <1>2. w * (an * m) <= w * (am * n)
    BY <1>1, ProductsGrow, Distributes
  <1>3. ASSUME NEW e \in Nat PROVE (w * an + e) * m <= (w * am + e) * n
    <2>1. (w * an + e) * m = w * (an * m) + e * m
      OBVIOUS
    <2>2. (w * am + e) * n = w * (am * n) + e * n
      OBVIOUS
    <2>3. e * m <= e * n
      BY ProductsGrow
    <2>4. e * m \in Nat /\ e * n \in Nat /\ w * (an * m) \in Nat /\ w * (am * n) \in Nat
      <3>1. an * m \in Nat /\ am * n \in Nat
        OBVIOUS
      <3> QED BY <3>1, Distributes
    <2>5. PICK p \in Nat, q \in Nat, u \in Nat, v \in Nat :
            p = e * m /\ q = e * n /\ u = w * (an * m) /\ v = w * (am * n)
      BY <2>4
    <2>7. u <= v /\ p <= q
      BY <1>2, <2>3, <2>5, Zenon
    <2>6. u + p <= v + q
      BY <2>7
    <2> QED BY <2>1, <2>2, <2>5, <2>6
  <1>4. ASSUME NEW e \in Nat, NEW k \in Nat PROVE (w * an + e) * (k * m) <= (w * am + e) * (k * n)
    <2> PICK x \in Nat, y \in Nat : x = w * an + e /\ y = w * am + e
      <3>1. w * an \in Nat /\ w * am \in Nat
        BY Distributes
      <3> QED BY <3>1
    <2>1. x * m <= y * n /\ x * m \in Nat /\ y * n \in Nat
      BY <1>3, Distributes
    <2>2. k * (x * m) <= k * (y * n)
      BY <2>1, ProductsGrow
    <2>3. k * (x * m) = x * (k * m) /\ k * (y * n) = y * (k * n)
      OBVIOUS
    <2> QED BY <2>2, <2>3
  <1>5. CASE h.split
    <2> PICK e \in Nat : e = 100 * r * (d - 1) * d
      <3>1. d - 1 \in Nat /\ 100 * r \in Nat
        OBVIOUS
      <3>2. 100 * r * (d - 1) \in Nat
        BY <3>1, Distributes
      <3> QED BY <3>2, Distributes
    <2>1. /\ Time(h, d, n) = w * an + e /\ Time(h, d, m) = w * am + e
          /\ Unit(h, d, n) = (100 * d) * n /\ Unit(h, d, m) = (100 * d) * m
      <3>1. /\ Time(h, d, n) = h.work * Bubbled(h, n) + 100 * h.reduce * (d - 1) * d
            /\ Unit(h, d, n) = 100 * d * n
        BY <1>5, SplitRuntimeIs, ZenonT(30)
      <3>2. /\ Time(h, d, m) = h.work * Bubbled(h, m) + 100 * h.reduce * (d - 1) * d
            /\ Unit(h, d, m) = 100 * d * m
        BY <1>5, SplitRuntimeIs, ZenonT(30)
      <3> QED BY <3>1, <3>2, Zenon
    <2>2. 100 * d \in Nat
      OBVIOUS
    <2> QED BY <1>4, <2>1, <2>2 DEF AsGood
  <1>6. CASE ~h.split
    <2> PICK e \in Nat : e = 100 * r * (d - 1)
      <3>1. d - 1 \in Nat /\ 100 * r \in Nat
        OBVIOUS
      <3> QED BY <3>1, Distributes
    <2>1. /\ Time(h, d, n) = w * an + e /\ Time(h, d, m) = w * am + e
          /\ Unit(h, d, n) = 100 * n /\ Unit(h, d, m) = 100 * m
      <3>1. /\ Time(h, d, n) = h.work * Bubbled(h, n) + 100 * h.reduce * (d - 1)
            /\ Unit(h, d, n) = 100 * n
        BY <1>6, RuntimeIs
      <3>2. /\ Time(h, d, m) = h.work * Bubbled(h, m) + 100 * h.reduce * (d - 1)
            /\ Unit(h, d, m) = 100 * m
        BY <1>6, RuntimeIs
      <3> QED BY <3>1, <3>2, Zenon
    <2> QED BY <1>4, <2>1 DEF AsGood
  <1> QED BY <1>5, <1>6

(* Without a split batch replicas never pay.                                  *)
LEMMA OneReplicaIsAsGood ==
  ASSUME NEW h \in RuntimeModels, ~h.split, NEW d \in Nat \ {0}, NEW m \in Nat \ {0}
  PROVE  AsGood(h, 1, m, d, m)
  <1> PICK e \in Nat, x \in Nat :
        e = 100 * h.reduce * (d - 1) /\ x = h.work * Bubbled(h, m)
    <2>1. h.reduce \in Nat /\ h.work \in Nat /\ Bubbled(h, m) \in Nat /\ d - 1 \in Nat
      BY RuntimeIs DEF RuntimeModels
    <2>2. 100 * h.reduce \in Nat
      BY <2>1
    <2>3. 100 * h.reduce * (d - 1) \in Nat
      BY <2>1, <2>2, Distributes
    <2>4. h.work * Bubbled(h, m) \in Nat
      BY <2>1, Distributes
    <2> QED BY <2>3, <2>4
  <1>1. /\ Time(h, d, m) = x + e /\ Unit(h, d, m) = 100 * m /\ Unit(h, 1, m) = 100 * m
        /\ Time(h, 1, m) = x + 100 * h.reduce * (1 - 1)
    <2>1. /\ Time(h, d, m) = h.work * Bubbled(h, m) + 100 * h.reduce * (d - 1)
          /\ Unit(h, d, m) = 100 * m
      BY RuntimeIs, ZenonT(30)
    <2>2. /\ Time(h, 1, m) = h.work * Bubbled(h, m) + 100 * h.reduce * (1 - 1)
          /\ Unit(h, 1, m) = 100 * m
      BY RuntimeIs, 1 \in Nat \ {0}
    <2> QED BY <2>1, <2>2, Zenon
  <1>2. 100 * h.reduce * (1 - 1) = 0
    <2> PICK r \in Nat : r = h.reduce
      BY DEF RuntimeModels
    <2> QED OBVIOUS
  <1>3. x * (100 * m) <= (x + e) * (100 * m)
    <2>1. 100 * m \in Nat
      OBVIOUS
    <2> QED BY <2>1, ProductsGrow
  <1> QED BY <1>1, <1>2, <1>3 DEF AsGood

(* With a split batch, where compute outweighs the all-reduce more replicas   *)
(* pay, and where it does not fewer replicas of a deeper pipeline do.         *)
MoreReplicas(c, x, d, d1, k) ==
  (c + x * (d1 - 1) * d1) * (100 * d * k) <= (c + x * (d - 1) * d) * (100 * d1 * k)

LEMMA MoreReplicasPay ==
  ASSUME NEW c \in Nat, NEW x \in Nat, NEW d \in Nat \ {0}, NEW d1 \in Nat \ {0}, NEW k \in Nat,
         d <= d1, x * (d * d1) <= c
  PROVE  MoreReplicas(c, x, d, d1, k)
  <1> PICK g \in Nat, z \in Nat, e \in Nat : g = d1 - d /\ z = x * (d * d1) /\ e = d - 1
    <2>1. d * d1 \in Nat /\ d1 - d \in Nat /\ d - 1 \in Nat
      OBVIOUS
    <2>2. x * (d * d1) \in Nat
      BY <2>1, Distributes
    <2> QED BY <2>1, <2>2
  <1>1. z * g <= c * g /\ z * g \in Nat /\ c * g \in Nat
    BY ProductsGrow
  <1>2. (c + x * (d1 - 1) * d1) * d = c * d + z * (e + g)
    <2>1. d1 - 1 = e + g
      OBVIOUS
    <2>2. (x * (d1 - 1) * d1) * d = z * (d1 - 1)
      OBVIOUS
    <2>3. x * (d1 - 1) * d1 \in Int
      OBVIOUS
    <2>4. (c + x * (d1 - 1) * d1) * d = c * d + (x * (d1 - 1) * d1) * d
      BY <2>3
    <2> QED BY <2>1, <2>2, <2>4
  <1>3. (c + x * (d - 1) * d) * d1 = c * d1 + z * e
    <2>1. (x * (d - 1) * d) * d1 = z * (d - 1)
      OBVIOUS
    <2>2. (c + x * (d - 1) * d) * d1 = c * d1 + (x * (d - 1) * d) * d1
      OBVIOUS
    <2> QED BY <2>1, <2>2
  <1>4. z * (e + g) = z * e + z * g /\ z * e \in Nat
    BY Distributes
  <1>5. c * d1 = c * d + c * g /\ c * d \in Nat
    <2>1. d1 = d + g
      OBVIOUS
    <2> QED BY <2>1, Distributes
  <1>6. PICK p \in Int, q \in Int :
          p = c + x * (d1 - 1) * d1 /\ q = c + x * (d - 1) * d
    <2>1. c + x * (d1 - 1) * d1 \in Int /\ c + x * (d - 1) * d \in Int
      OBVIOUS
    <2> QED BY <2>1
  <1>7. p * d <= q * d1 /\ p * d \in Nat /\ q * d1 \in Nat
    <2>1. p * d = c * d + z * (e + g) /\ q * d1 = c * d1 + z * e
      BY <1>2, <1>3, <1>6, Zenon
    <2>2. c * d + z * e + z * g <= c * d + c * g + z * e
      BY <1>1
    <2>3. c * d + (z * e + z * g) \in Nat /\ c * d + c * g + z * e \in Nat
      BY <1>1, <1>4, <1>5
    <2> QED BY <1>1, <1>4, <1>5, <2>1, <2>2, <2>3
  <1>8. (p * d) * (100 * k) <= (q * d1) * (100 * k)
    <2>1. 100 * k \in Nat
      OBVIOUS
    <2> QED BY <1>7, <2>1, ProductsGrow
  <1>9. (p * d) * (100 * k) = p * (100 * d * k) /\ (q * d1) * (100 * k) = q * (100 * d1 * k)
    <2>1. (p * d) * (100 * k) = p * (100 * d * k)
      OBVIOUS
    <2>2. (q * d1) * (100 * k) = q * (100 * d1 * k)
      OBVIOUS
    <2> QED BY <2>1, <2>2
  <1> QED BY <1>6, <1>8, <1>9 DEF MoreReplicas

FewerReplicas(c, wb, x, d, d2, m) ==
  (c + wb + x * (d2 - 1) * d2) * (100 * d * m) <= (c + x * (d - 1) * d) * (100 * d2 * (m + 1))

LEMMA FewerReplicasPay ==
  ASSUME NEW c \in Nat, NEW wb \in Nat, NEW x \in Nat, NEW d \in Nat \ {0}, NEW d1 \in Nat \ {0},
         NEW d2 \in Nat \ {0}, NEW m \in Nat \ {0},
         d2 < d, c <= x * (d * d1), wb * (m + 1) <= c, d * m <= d2 * (m + 1),
         m * ((d - d2) * (d1 - d2)) <= d2 * (d - 1)
  PROVE  FewerReplicas(c, wb, x, d, d2, m)
  <1> PICK e \in Nat, f \in Nat, y \in Nat, g \in Nat :
        e = d2 * (m + 1) - d * m /\ f = d - d2 /\ y = x * d /\ g = d2 - 1
    <2>1. d2 * (m + 1) - d * m \in Nat /\ d - d2 \in Nat /\ d2 - 1 \in Nat
      OBVIOUS
    <2>2. x * d \in Nat
      BY Distributes
    <2> QED BY <2>1, <2>2
  \* What the bubble of one more stage costs.
  <1>1. wb * (d * m) <= c * e + c * (m * f)
    <2>1. wb * (d * m) = (wb * (m + 1)) * e + (wb * (m + 1)) * (m * f) - wb * e
      <3>1. d * m = (m + 1) * e + (m + 1) * (m * f) - e
        OBVIOUS
      <3>2. PICK u \in Int, v \in Int : u = (m + 1) * e /\ v = (m + 1) * (m * f)
        <4>1. (m + 1) * e \in Int /\ (m + 1) * (m * f) \in Int
          OBVIOUS
        <4> QED BY <4>1
      <3>3. wb * (d * m) = wb * (u + v - e)
        BY <3>1, <3>2
      <3>4. wb * (u + v - e) = wb * u + wb * v - wb * e
        OBVIOUS
      <3>5. wb * u = (wb * (m + 1)) * e /\ wb * v = (wb * (m + 1)) * (m * f)
        <4>1. wb * ((m + 1) * e) = (wb * (m + 1)) * e
          OBVIOUS
        <4>2. wb * ((m + 1) * (m * f)) = (wb * (m + 1)) * (m * f)
          OBVIOUS
        <4> QED BY <3>2, <4>1, <4>2
      <3> QED BY <3>3, <3>4, <3>5
    <2>2. PICK w1 \in Nat, mf \in Nat : w1 = wb * (m + 1) /\ mf = m * f /\ w1 <= c
      <3>1. wb * (m + 1) \in Nat /\ m * f \in Nat
        OBVIOUS
      <3> QED BY <3>1
    <2>3. w1 * e <= c * e /\ w1 * mf <= c * mf
      BY <2>2, ProductsGrow
    <2>4. wb * e \in Nat /\ w1 * e \in Nat /\ w1 * mf \in Nat /\ c * e \in Nat /\ c * mf \in Nat
      BY Distributes
    <2>5. wb * (d * m) = w1 * e + w1 * mf - wb * e
      BY <2>1, <2>2, Zenon
    <2> QED BY <2>2, <2>3, <2>4, <2>5
  \* What the all-reduce of f replicas less saves.
  <1>2. c * (m * f) <= y * (d2 * (f * m + (d - 1)))
    <2>1. PICK mf \in Nat, yd \in Nat : mf = m * f /\ yd = y * d1 /\ c <= yd
      <3>1. m * f \in Nat /\ y * d1 \in Nat
        BY Distributes
      <3>2. x * (d * d1) = y * d1
        OBVIOUS
      <3> QED BY <3>1, <3>2
    <2>2. c * mf <= yd * mf
      BY <2>1, ProductsGrow
    <2>3. yd * mf = y * (d1 * mf)
      BY <2>1
    <2>4. d1 * mf <= d2 * (f * m + (d - 1))
      <3>1. d1 * mf = d2 * mf + m * ((d - d2) * (d1 - d2))
        <4>1. m * ((d - d2) * (d1 - d2)) = mf * (d1 - d2)
          BY <2>1
        <4>2. mf * (d1 - d2) = d1 * mf - d2 * mf
          OBVIOUS
        <4> QED BY <4>1, <4>2
      <3>2. d2 * (f * m + (d - 1)) = d2 * mf + d2 * (d - 1)
        BY <2>1
      <3> QED BY <3>1, <3>2
    <2>5. d1 * mf \in Nat /\ d2 * (f * m + (d - 1)) \in Nat
      <3>1. d1 * mf \in Nat
        BY Distributes
      <3>2. f * m + (d - 1) \in Nat
        OBVIOUS
      <3> QED BY <3>1, <3>2, Distributes
    <2>6. y * (d1 * mf) <= y * (d2 * (f * m + (d - 1)))
      BY <2>4, <2>5, ProductsGrow
    <2>7. c * mf \in Nat /\ y * (d1 * mf) \in Nat /\ y * (d2 * (f * m + (d - 1))) \in Nat
      BY <2>5, Distributes
    <2> QED BY <2>1, <2>2, <2>3, <2>6, <2>7
  \* The two times, in hundredths, are these apart.
  <1>3. /\ (c + wb + x * (d2 - 1) * d2) * (d * m)
             = c * (d * m) + wb * (d * m) + (x * (d2 - 1) * d2) * (d * m)
        /\ (c + x * (d - 1) * d) * (d2 * (m + 1))
             = c * (d2 * (m + 1)) + (x * (d - 1) * d) * (d2 * (m + 1))
    <2>1. (c + wb + x * (d2 - 1) * d2) * (d * m)
             = c * (d * m) + wb * (d * m) + (x * (d2 - 1) * d2) * (d * m)
      OBVIOUS
    <2>2. (c + x * (d - 1) * d) * (d2 * (m + 1))
             = c * (d2 * (m + 1)) + (x * (d - 1) * d) * (d2 * (m + 1))
      OBVIOUS
    <2> QED BY <2>1, <2>2
  <1>4. c * (d2 * (m + 1)) = c * (d * m) + c * e
    OBVIOUS
  <1>5. (x * (d - 1) * d) * (d2 * (m + 1))
          = (x * (d2 - 1) * d2) * (d * m) + y * (d2 * (f * m + (d - 1)))
    <2>1. (x * (d - 1) * d) * (d2 * (m + 1)) = y * (d2 * ((d - 1) * (m + 1)))
      OBVIOUS
    <2>2. (x * (d2 - 1) * d2) * (d * m) = y * (d2 * ((d2 - 1) * m))
      OBVIOUS
    <2>3. (d - 1) * (m + 1) = (d2 - 1) * m + (f * m + (d - 1))
      OBVIOUS
    <2>4. d2 * ((d2 - 1) * m + (f * m + (d - 1))) = d2 * ((d2 - 1) * m) + d2 * (f * m + (d - 1))
      OBVIOUS
    <2>5. PICK u \in Int, v \in Int : u = d2 * ((d2 - 1) * m) /\ v = d2 * (f * m + (d - 1))
      <3>1. d2 * ((d2 - 1) * m) \in Int /\ d2 * (f * m + (d - 1)) \in Int
        OBVIOUS
      <3> QED BY <3>1
    <2>6. y * (u + v) = y * u + y * v
      OBVIOUS
    <2> QED BY <2>1, <2>2, <2>3, <2>4, <2>5, <2>6
  <1>6. (c + wb + x * (d2 - 1) * d2) * (d * m) <= (c + x * (d - 1) * d) * (d2 * (m + 1))
    <2> PICK t1 \in Int, t2 \in Int, t3 \in Int, t4 \in Int, t5 \in Int, t6 \in Int :
          /\ t1 = c * (d * m) /\ t2 = wb * (d * m) /\ t3 = (x * (d2 - 1) * d2) * (d * m)
          /\ t4 = c * e /\ t5 = c * (m * f) /\ t6 = y * (d2 * (f * m + (d - 1)))
      <3>1. /\ c * (d * m) \in Int /\ wb * (d * m) \in Int /\ (x * (d2 - 1) * d2) * (d * m) \in Int
            /\ c * e \in Int /\ c * (m * f) \in Int /\ y * (d2 * (f * m + (d - 1))) \in Int
        OBVIOUS
      <3> QED BY <3>1
    <2>1. t2 <= t4 + t5 /\ t5 <= t6
      BY <1>1, <1>2, Zenon
    <2>2. /\ (c + wb + x * (d2 - 1) * d2) * (d * m) = t1 + t2 + t3
          /\ (c + x * (d - 1) * d) * (d2 * (m + 1)) = (t1 + t4) + (t3 + t6)
      BY <1>3, <1>4, <1>5, Zenon
    <2>3. t1 + t2 + t3 <= (t1 + t4) + (t3 + t6)
      BY <2>1
    <2> QED BY <2>2, <2>3, Zenon
  <1> PICK p \in Int, q \in Int :
          p = c + wb + x * (d2 - 1) * d2 /\ q = c + x * (d - 1) * d
    <2>1. c + wb + x * (d2 - 1) * d2 \in Int /\ c + x * (d - 1) * d \in Int
      OBVIOUS
    <2> QED BY <2>1
  <1>7. p * (d * m) <= q * (d2 * (m + 1)) /\ p * (d * m) \in Int /\ q * (d2 * (m + 1)) \in Int
    <2>1. p * (d * m) <= q * (d2 * (m + 1))
      BY <1>6, Zenon
    <2>2. p * (d * m) \in Int /\ q * (d2 * (m + 1)) \in Int
      OBVIOUS
    <2> QED BY <2>1, <2>2
  <1>8. p * (100 * d * m) = 100 * (p * (d * m)) /\ q * (100 * d2 * (m + 1)) = 100 * (q * (d2 * (m + 1)))
    <2>1. p * (100 * d * m) = 100 * (p * (d * m))
      OBVIOUS
    <2>2. q * (100 * d2 * (m + 1)) = 100 * (q * (d2 * (m + 1)))
      OBVIOUS
    <2> QED BY <2>1, <2>2
  <1>9. p * (100 * d * m) <= q * (100 * d2 * (m + 1))
    <2> PICK u \in Int, v \in Int : u = p * (d * m) /\ v = q * (d2 * (m + 1))
      BY <1>7
    <2>1. u <= v
      BY <1>7, Zenon
    <2>2. 100 * u <= 100 * v
      BY <2>1
    <2> QED BY <1>8, <2>2, Zenon
  <1> QED BY <1>9, Zenon DEF FewerReplicas

-----------------------------------------------------------------------------
\* How many of size n there are in total, and that one more would not fit.
MostFit(q, t, n) ==
  /\ q * n <= t /\ t < (q + 1) * n
  /\ \A k \in Nat : k * n <= t => k <= q

LEMMA QuotientFits ==
  ASSUME NEW t \in Nat, NEW n \in Nat \ {0}
  PROVE  t \div n \in Nat /\ MostFit(t \div n, t, n)
  <1>1. PICK q \in Nat, r \in Nat : q = t \div n /\ t = q * n + r /\ r < n
    <2>1. t = n * (t \div n) + (t % n) /\ t % n \in Nat /\ t % n < n /\ t \div n \in Nat
      OBVIOUS
    <2>2. n * (t \div n) = (t \div n) * n
      BY <2>1
    <2> QED BY <2>1, <2>2
  <1>2. (q + 1) * n = q * n + n /\ q * n \in Nat
    OBVIOUS
  <1>3. ASSUME NEW k \in Nat, k * n <= t PROVE k <= q
    <2>1. CASE k > q
      <3>1. (q + 1) * n <= k * n
        BY <2>1, ProductsGrow
      <3>2. k * n \in Nat
        BY Distributes
      <3> QED BY <1>1, <1>2, <1>3, <3>1, <3>2
    <2> QED BY <2>1
  <1>4. q * n <= t /\ t < (q + 1) * n
    BY <1>1, <1>2
  <1>5. MostFit(q, t, n)
    BY <1>3, <1>4 DEF MostFit
  <1> QED BY <1>1, <1>5, Zenon

(* Where the workers do not divide: the counts of replicas around d that as   *)
(* many stages, and one more, leave.                                          *)
Around(W, d, m, d1, d2) ==
  /\ d < d1 /\ d2 < d /\ d2 \in Nat \ {0} /\ m + 1 <= W
  /\ d * m <= d2 * (m + 1)
  /\ d2 >= 2 => m * ((d - d2) * (d1 - d2)) <= d2 * (d - 1)
  /\ d2 = 1 => W = 3 /\ d = 2 /\ m = 1 /\ d1 = 3

LEMMA CountsAround ==
  ASSUME NEW W \in Nat, NEW d \in Nat \ {0}, NEW m \in Nat \ {0},
         NEW d1 \in Nat, NEW d2 \in Nat,
         m = W \div d, d1 = W \div m, d2 = W \div (m + 1), d # d1
  PROVE  Around(W, d, m, d1, d2)
  <1>1. /\ m * d <= W /\ W < (m + 1) * d
        /\ d1 * m <= W /\ W < (d1 + 1) * m
        /\ d2 * (m + 1) <= W /\ W < (d2 + 1) * (m + 1)
        /\ \A k \in Nat : k * m <= W => k <= d1
        /\ \A k \in Nat : k * (m + 1) <= W => k <= d2
    <2>1. MostFit(m, W, d)
      BY QuotientFits, Zenon
    <2>3. MostFit(d1, W, m)
      BY QuotientFits, Zenon
    <2>2. MostFit(d2, W, m + 1)
      <3>1. m + 1 \in Nat \ {0}
        OBVIOUS
      <3>2. MostFit(W \div (m + 1), W, m + 1)
        BY <3>1, QuotientFits, Zenon
      <3> QED BY <3>2, Zenon
    <2> QED BY <2>1, <2>2, <2>3 DEF MostFit
  <1>2. d < d1
    <2>1. d * m <= W
      BY <1>1
    <2> QED BY <1>1, <2>1
  <1>3. d2 < d
    <2>1. CASE d2 >= d
      <3>1. d * (m + 1) <= d2 * (m + 1)
        BY <2>1, ProductsGrow
      <3>2. d * (m + 1) = (m + 1) * d /\ (m + 1) * d \in Nat /\ d2 * (m + 1) \in Nat
        OBVIOUS
      <3> QED BY <1>1, <3>1, <3>2
    <2> QED BY <2>1
  <1>4. d1 * m = (d1 - 1) * m + m /\ d * m <= (d1 - 1) * m /\ d1 * m \in Nat /\ d * m \in Nat
        /\ (d1 - 1) * m \in Nat
    <2>1. d1 * m = (d1 - 1) * m + m
      OBVIOUS
    <2>2. d1 - 1 \in Nat /\ d <= d1 - 1
      BY <1>2
    <2> QED BY <2>1, <2>2, ProductsGrow
  <1>5. d * m <= W - m
    BY <1>1, <1>4
  <1>6. (d2 + 1) * (m + 1) = d2 * (m + 1) + m + 1 /\ d2 * (m + 1) = d2 * m + d2
        /\ d2 * (m + 1) \in Nat /\ d2 * m \in Nat
    OBVIOUS
  <1>7. d * m <= d2 * (m + 1)
    BY <1>1, <1>5, <1>6
  <1>8. d * m \in Nat \ {0} /\ m + 1 <= W
    <2>1. d * m \in Nat \ {0}
      OBVIOUS
    <2>2. 1 * m <= d * m
      BY ProductsGrow
    <2> QED BY <1>5, <2>1, <2>2
  <1>9. d2 \in Nat \ {0}
    <2>1. 1 * (m + 1) <= W
      BY <1>8
    <2> QED BY <1>1, <2>1
  <1> PICK f \in Nat, g \in Nat : f = d - d2 /\ g = d1 - d2 /\ f \in 1..(g - 1)
    <2>1. d - d2 \in Nat /\ d1 - d2 \in Nat /\ d - d2 \in 1..((d1 - d2) - 1)
      BY <1>2, <1>3
    <2> QED BY <2>1
  <1>10. m * (g - 1) <= d2 /\ m * (g - 1) \in Nat
    <2>1. m * (g - 1) = d1 * m - d2 * m - m
      OBVIOUS
    <2>2. g - 1 \in Nat
      OBVIOUS
    <2>3. m * (g - 1) \in Nat
      BY <2>2, Distributes
    <2> QED BY <1>1, <1>4, <1>6, <2>1, <2>3
  <1>11. m * f <= d2 /\ m * f \in Nat \ {0}
    <2>1. m * f <= m * (g - 1)
      <3>1. g - 1 \in Nat /\ f <= g - 1
        OBVIOUS
      <3> QED BY <3>1, ProductsGrow
    <2>2. m * f \in Nat \ {0}
      <3>1. f \in Nat \ {0}
        OBVIOUS
      <3> QED BY <3>1
    <2> QED BY <1>10, <2>1, <2>2
  <1>12. ASSUME d2 >= 2 PROVE m * (f * g) <= d2 * (d - 1)
    <2>1. m * (f * g) = (m * (g - 1)) * f + m * f
      OBVIOUS
    <2>2. (m * (g - 1)) * f <= d2 * f /\ (m * (g - 1)) * f \in Nat /\ d2 * f \in Nat
      BY <1>10, ProductsGrow
    <2>3. d2 * (d - 1) = d2 * f + d2 * (d2 - 1)
      <3>1. d - 1 = f + (d2 - 1)
        OBVIOUS
      <3>2. d2 * (f + (d2 - 1)) = d2 * f + d2 * (d2 - 1)
        OBVIOUS
      <3> QED BY <3>1, <3>2
    <2>4. d2 * 1 <= d2 * (d2 - 1) /\ d2 * (d2 - 1) \in Nat
      <3>1. 1 <= d2 - 1 /\ d2 - 1 \in Nat
        BY <1>12
      <3> QED BY <3>1, ProductsGrow
    <2> QED BY <1>11, <2>1, <2>2, <2>3, <2>4
  <1>13. ASSUME d2 = 1 PROVE W = 3 /\ d = 2 /\ m = 1 /\ d1 = 3
    <2>1. m = 1
      <3>1. CASE m >= 2
        <4>1. 2 * 1 <= m * f
          BY <3>1, ProductsGrow
        <4> QED BY <1>11, <1>13, <4>1
      <3> QED BY <3>1
    <2>2. f = 1 /\ g = 2
      <3>1. m * f = f /\ m * (g - 1) = g - 1
        BY <2>1
      <3> QED BY <1>10, <1>11, <1>13, <3>1
    <2>3. W = 3
      <3>1. d1 * m = 3 /\ (d2 + 1) * (m + 1) = 4 /\ (d1 + 1) * m = 4
        <4>1. d1 = 3 /\ d2 = 1
          BY <1>13, <2>2
        <4>2. 3 * 1 = 3 /\ (1 + 1) * (1 + 1) = 4 /\ (3 + 1) * 1 = 4
          OBVIOUS
        <4> QED BY <2>1, <4>1, <4>2, Zenon
      <3> QED BY <1>1, <3>1
    <2> QED BY <1>13, <2>1, <2>2, <2>3
  <1> QED BY <1>2, <1>3, <1>7, <1>8, <1>9, <1>12, <1>13 DEF Around

LEMMA MoreReplicasAreAsGood ==
  ASSUME NEW h \in RuntimeModels, h.split, NEW m \in Nat \ {0}, NEW d \in Nat \ {0},
         NEW d1 \in Nat \ {0}, d <= d1,
         (100 * h.reduce) * (d * d1) <= h.work * Bubbled(h, m)
  PROVE  AsGood(h, d1, m, d, m)
  <1> PICK c \in Nat, x \in Nat : c = h.work * Bubbled(h, m) /\ x = 100 * h.reduce
    <2>1. h.work \in Nat /\ h.reduce \in Nat /\ Bubbled(h, m) \in Nat
      BY RuntimeIs DEF RuntimeModels
    <2>2. h.work * Bubbled(h, m) \in Nat
      BY <2>1, Distributes
    <2> QED BY <2>1, <2>2
  <1>1. MoreReplicas(c, x, d, d1, m)
    BY MoreReplicasPay
  <1>2. /\ Time(h, d, m) = c + x * (d - 1) * d /\ Unit(h, d, m) = 100 * d * m
        /\ Time(h, d1, m) = c + x * (d1 - 1) * d1 /\ Unit(h, d1, m) = 100 * d1 * m
    <2>1. /\ Time(h, d, m) = h.work * Bubbled(h, m) + 100 * h.reduce * (d - 1) * d
          /\ Unit(h, d, m) = 100 * d * m
      BY SplitRuntimeIs, ZenonT(30)
    <2>2. /\ Time(h, d1, m) = h.work * Bubbled(h, m) + 100 * h.reduce * (d1 - 1) * d1
          /\ Unit(h, d1, m) = 100 * d1 * m
      BY SplitRuntimeIs, ZenonT(30)
    <2> QED BY <2>1, <2>2, Zenon
  <1> QED BY <1>1, <1>2, Zenon DEF MoreReplicas, AsGood

LEMMA FewerReplicasAreAsGood ==
  ASSUME NEW h \in RuntimeModels, h.split, NEW m \in Nat \ {0}, NEW d \in Nat \ {0},
         NEW d1 \in Nat \ {0}, NEW d2 \in Nat \ {0}, d2 < d,
         h.work * Bubbled(h, m) <= (100 * h.reduce) * (d * d1),
         d * m <= d2 * (m + 1),
         m * ((d - d2) * (d1 - d2)) <= d2 * (d - 1)
  PROVE  AsGood(h, d2, m + 1, d, m)
  <1>7. /\ Time(h, d, m) = h.work * Bubbled(h, m) + 100 * h.reduce * (d - 1) * d
        /\ Unit(h, d, m) = 100 * d * m
    BY SplitRuntimeIs
  <1>9. m + 1 \in Nat \ {0}
    OBVIOUS
  <1>8. /\ Time(h, d2, m + 1) = h.work * Bubbled(h, m + 1) + 100 * h.reduce * (d2 - 1) * d2
        /\ Unit(h, d2, m + 1) = 100 * d2 * (m + 1)
    BY <1>9, SplitRuntimeIs
  <1> PICK w \in Nat, b \in 0..50, r \in Nat : w = h.work /\ b = h.bubble /\ r = h.reduce
    BY DEF RuntimeModels
  <1>1. Bubbled(h, m) = 100 + b * (m - 1) /\ Bubbled(h, m + 1) = 100 + b * m
    <2>1. (m + 1) - 1 = m
      OBVIOUS
    <2> QED BY <2>1 DEF Bubbled
  <1>2. 100 + b * m = (100 + b * (m - 1)) + b /\ 100 + b * (m - 1) \in Nat
    <2>1. b * (m - 1) \in Nat
      <3>1. m - 1 \in Nat /\ b \in Nat
        OBVIOUS
      <3> QED BY <3>1, Distributes
    <2>2. b * m = b * (m - 1) + b
      OBVIOUS
    <2> QED BY <2>1, <2>2
  <1> PICK a \in Nat : a = Bubbled(h, m) /\ Bubbled(h, m + 1) = a + b
    BY <1>1, <1>2
  <1> PICK c \in Nat, x \in Nat, wb \in Nat : c = w * a /\ x = 100 * r /\ wb = w * b
    <2>1. b \in Nat
      OBVIOUS
    <2>2. w * a \in Nat /\ w * b \in Nat /\ 100 * r \in Nat
      BY <2>1, Distributes
    <2> QED BY <2>2
  <1>3. wb * (m + 1) <= c
    <2>1. b * (m + 1) <= a
      <3>1. b * (m + 1) = b * (m - 1) + 2 * b
        OBVIOUS
      <3>2. b * (m - 1) \in Int
        OBVIOUS
      <3> QED BY <1>1, <3>1, <3>2
    <2>2. b * (m + 1) \in Nat
      <3>1. b \in Nat
        BY SMTT(30)
      <3> QED BY <1>9, <3>1, Distributes
    <2>3. w * (b * (m + 1)) <= w * a
      BY <2>1, <2>2, ProductsGrow
    <2>4. w * (b * (m + 1)) = (w * b) * (m + 1)
      OBVIOUS
    <2> QED BY <2>3, <2>4, Zenon
  <1>4. FewerReplicas(c, wb, x, d, d2, m)
    <2>1. c <= x * (d * d1)
      BY Zenon
    <2> QED BY <1>3, <2>1, FewerReplicasPay
  <1>5. w * (a + b) = c + wb
    <2>1. b \in Nat
      BY SMTT(30)
    <2> QED BY <2>1, Distributes
  <1>6. /\ Time(h, d, m) = c + x * (d - 1) * d /\ Unit(h, d, m) = 100 * d * m
        /\ Time(h, d2, m + 1) = c + wb + x * (d2 - 1) * d2 /\ Unit(h, d2, m + 1) = 100 * d2 * (m + 1)
    BY <1>5, <1>7, <1>8, Zenon
  <1> QED BY <1>4, <1>6, Zenon DEF FewerReplicas, AsGood

\* The only count of workers that leaves one replica of the deeper pipeline.
LEMMA ThreeWorkers ==
  ASSUME NEW h \in RuntimeModels, h.split,
         h.work * Bubbled(h, 1) <= (100 * h.reduce) * (2 * 3)
  PROVE  AsGood(h, 1, 3, 2, 1)
  <1> PICK w \in Nat, b \in 0..50, r \in Nat : w = h.work /\ b = h.bubble /\ r = h.reduce
    BY DEF RuntimeModels
  <1>1. Bubbled(h, 1) = 100 /\ Bubbled(h, 3) = 100 + b * 2
    <2>1. b * (1 - 1) = 0 /\ b * (3 - 1) = b * 2
      OBVIOUS
    <2> QED BY <2>1 DEF Bubbled
  <1>2. Time(h, 1, 3) = w * (100 + b * 2) /\ Unit(h, 1, 3) = 300
    <2>1. /\ Time(h, 1, 3) = h.work * Bubbled(h, 3) + 100 * h.reduce * (1 - 1) * 1
          /\ Unit(h, 1, 3) = 100 * 1 * 3
      BY SplitRuntimeIs, 1 \in Nat \ {0}, 3 \in Nat \ {0}, ZenonT(30)
    <2>2. 100 * r * (1 - 1) * 1 = 0 /\ 100 * 1 * 3 = 300 /\ w * (100 + b * 2) + 0 = w * (100 + b * 2)
      OBVIOUS
    <2>5. Time(h, 1, 3) = w * (100 + b * 2) + 100 * r * (1 - 1) * 1
      BY <1>1, <2>1, Zenon
    <2>6. 100 * r * (1 - 1) * 1 = 0 /\ w * (100 + b * 2) + 0 = w * (100 + b * 2)
      BY <2>2, Zenon
    <2>7. Time(h, 1, 3) = w * (100 + b * 2) + 0
      BY <2>5, <2>6, Zenon
    <2>8. Time(h, 1, 3) = w * (100 + b * 2)
      BY <2>6, <2>7, Zenon
    <2>9. Unit(h, 1, 3) = 300
      BY <2>1, <2>2, Zenon
    <2> QED BY <2>8, <2>9
  <1>3. Time(h, 2, 1) = w * 100 + 200 * r /\ Unit(h, 2, 1) = 200
    <2>1. /\ Time(h, 2, 1) = h.work * Bubbled(h, 1) + 100 * h.reduce * (2 - 1) * 2
          /\ Unit(h, 2, 1) = 100 * 2 * 1
      BY SplitRuntimeIs, 1 \in Nat \ {0}, 2 \in Nat \ {0}, ZenonT(30)
    <2>2. 100 * r * (2 - 1) * 2 = 200 * r /\ 100 * 2 * 1 = 200
      OBVIOUS
    <2> QED BY <1>1, <2>1, <2>2, Zenon
  <1>4. w * 100 <= (100 * r) * (2 * 3)
    BY <1>1, Zenon
  <1>5. w * (100 + b * 2) * 200 = 20000 * w + 400 * (w * b)
    OBVIOUS
  <1>6. w * b <= w * 50 /\ w * b \in Nat
    <2>1. b \in Nat /\ b <= 50
      OBVIOUS
    <2> QED BY <2>1, ProductsGrow
  <1>7. w * (100 + b * 2) * 200 <= (w * 100 + 200 * r) * 300
    BY <1>4, <1>5, <1>6
  <1> QED BY <1>2, <1>3, <1>7, Zenon DEF AsGood

\* What the planner tries.
TriedStrategies(h) ==
  {s \in [dp : 1..h.workers, mp : 1..h.workers] :
     s.dp = h.workers \div s.mp /\ s.dp >= h.minReplicas}

(* For every parallelisation that fits, one that is tried is as good.         *)
LEMMA TriedIsAsGood ==
  ASSUME NEW h \in RuntimeModels, NEW d \in Nat \ {0}, NEW m \in Nat \ {0}, d * m <= h.workers
  PROVE  \E s \in TriedStrategies(h) : AsGood(h, s.dp, s.mp, d, m)
  <1> PICK W \in Nat : W = h.workers
    BY DEF RuntimeModels
  <1>1. h.minReplicas = 1
    BY DEF RuntimeModels
  <1>2. ASSUME NEW e \in Nat \ {0}, NEW n \in Nat \ {0}, e = W \div n, AsGood(h, e, n, d, m)
        PROVE  \E s \in TriedStrategies(h) : AsGood(h, s.dp, s.mp, d, m)
    <2>1. e * n <= W
      <3>1. MostFit(W \div n, W, n)
        BY QuotientFits, Zenon
      <3> QED BY <1>2, <3>1 DEF MostFit
    <2>2. 1 * n <= e * n /\ e * 1 <= e * n /\ e * n \in Nat
      <3>1. 1 * n <= e * n /\ e * n \in Nat
        BY ProductsGrow
      <3>2. e * 1 <= e * n
        BY ProductsGrow
      <3> QED BY <3>1, <3>2
    <2>3. e \in 1..W /\ n \in 1..W
      BY <2>1, <2>2
    <2> DEFINE s == [dp |-> e, mp |-> n]
    <2>4. s \in TriedStrategies(h) /\ s.dp = e /\ s.mp = n
      BY <1>1, <1>2, <2>3 DEF TriedStrategies
    <2> QED BY <1>2, <2>4
  <1> DEFINE m1 == W \div d
  <1>3. m1 \in Nat \ {0} /\ m <= m1 /\ m1 * d <= W
    <2>1. m1 \in Nat /\ MostFit(m1, W, d)
      BY QuotientFits, Zenon
    <2>2. m * d <= W
      <3>1. m * d = d * m
        OBVIOUS
      <3> QED BY <3>1
    <2>3. m <= m1 /\ m1 * d <= W
      BY <2>1, <2>2 DEF MostFit
    <2> HIDE DEF m1
    <2> QED BY <2>1, <2>3
  <1> DEFINE d1 == W \div m1
             d2 == W \div (m1 + 1)
  <1>4. AsGood(h, d, m1, d, m)
    <2> HIDE DEF m1
    <2> QED BY <1>3, DeeperIsAsGood
  <1>5. d1 \in Nat /\ MostFit(d1, W, m1)
    <2> HIDE DEF m1
    <2> QED BY <1>3, QuotientFits, Zenon
  <1>6. d2 \in Nat
    <2> HIDE DEF m1
    <2>1. m1 + 1 \in Nat \ {0}
      BY <1>3
    <2> QED BY <2>1, QuotientFits, Zenon
  <1>7. d <= d1
    <2>1. d * m1 = m1 * d
      BY <1>3
    <2> QED BY <1>3, <1>5, <2>1 DEF MostFit
  <1> PICK n1 \in Nat \ {0}, e1 \in Nat \ {0}, e2 \in Nat :
        /\ n1 = W \div d /\ e1 = W \div n1 /\ e2 = W \div (n1 + 1) /\ d <= e1 /\ m <= n1
        /\ AsGood(h, d, n1, d, m)
    <2> HIDE DEF d1, d2
    <2>1. d1 \in Nat \ {0}
      BY <1>5, <1>7
    <2>2. m1 = W \div d /\ d1 = W \div m1 /\ d2 = W \div (m1 + 1)
      BY Zenon DEF m1, d1, d2
    <2> HIDE DEF m1
    <2> QED BY <1>3, <1>4, <1>6, <1>7, <2>1, <2>2
  <1> HIDE DEF m1, d1, d2
  <1>8. CASE ~h.split
    <2>1. W \div W = 1 /\ W \in Nat \ {0} /\ m <= W
      <3>1. 1 * m <= d * m /\ 1 * m = m
        BY ProductsGrow
      <3>2. m <= W
        BY <3>1
      <3>3. W \in Nat \ {0}
        BY <3>2
      <3>4. MostFit(W \div W, W, W) /\ W \div W \in Nat
        BY <3>3, QuotientFits, Zenon
      <3>5. PICK q \in Nat : q = W \div W
        BY <3>4
      <3>6. q * W <= W /\ W < (q + 1) * W
        BY <3>4, <3>5 DEF MostFit
      <3>7. CASE q >= 2
        <4>1. 2 * W <= q * W /\ q * W \in Nat
          BY <3>7, ProductsGrow
        <4> QED BY <3>3, <3>6, <4>1
      <3>8. CASE q = 0
        <4>1. (0 + 1) * W = W
          OBVIOUS
        <4> QED BY <3>6, <3>8, <4>1
      <3> QED BY <3>2, <3>3, <3>5, <3>7, <3>8
    <2>2. AsGood(h, 1, W, 1, m)
      BY <2>1, DeeperIsAsGood, 1 \in Nat \ {0}
    <2>3. AsGood(h, 1, m, d, m)
      BY <1>8, OneReplicaIsAsGood
    <2>4. AsGood(h, 1, W, d, m)
      BY <2>1, <2>2, <2>3, AsGoodComposes, 1 \in Nat \ {0}
    <2> QED BY <1>2, <2>1, <2>4
  <1>9. CASE h.split /\ e1 = d
    BY <1>2, <1>9
  <1>10. CASE h.split /\ e1 # d
    <2> DEFINE c == h.work * Bubbled(h, n1)
               y == (100 * h.reduce) * (d * e1)
    <2>1. c \in Nat /\ y \in Nat
      <3>1. h.work \in Nat /\ 100 * h.reduce \in Nat /\ Bubbled(h, n1) \in Nat /\ d * e1 \in Nat
        <4>1. h.work \in Nat /\ h.reduce \in Nat
          BY DEF RuntimeModels
        <4>2. Bubbled(h, n1) \in Nat
          BY RuntimeIs
        <4> QED BY <4>1, <4>2
      <3> QED BY <3>1, Distributes
    <2>2. CASE y <= c
      <3>1. AsGood(h, e1, n1, d, n1)
        BY <1>10, <2>2, MoreReplicasAreAsGood
      <3>2. AsGood(h, e1, n1, d, m)
        BY <3>1, AsGoodComposes
      <3> QED BY <1>2, <3>2
    <2>3. CASE c <= y
      <3>1. /\ d < e1 /\ e2 < d /\ e2 \in Nat \ {0} /\ n1 + 1 <= W
            /\ d * n1 <= e2 * (n1 + 1)
            /\ e2 >= 2 => n1 * ((d - e2) * (e1 - e2)) <= e2 * (d - 1)
            /\ e2 = 1 => W = 3 /\ d = 2 /\ n1 = 1 /\ e1 = 3
        <4>1. d # e1 /\ e1 \in Nat
          BY <1>10
        <4>2. Around(W, d, n1, e1, e2)
          BY <4>1, CountsAround
        <4> QED BY <4>2 DEF Around
      <3>2. CASE e2 >= 2
        <4>1. AsGood(h, e2, n1 + 1, d, n1)
          BY <1>10, <2>3, <3>1, <3>2, FewerReplicasAreAsGood, ZenonT(30)
        <4>2. n1 + 1 \in Nat \ {0}
          OBVIOUS
        <4>3. AsGood(h, e2, n1 + 1, d, m)
          BY <3>1, <4>1, <4>2, AsGoodComposes
        <4> QED BY <1>2, <3>1, <4>2, <4>3
      <3>3. CASE e2 = 1
        <4>1. W = 3 /\ d = 2 /\ n1 = 1 /\ e1 = 3
          BY <3>1, <3>3
        <4>2. AsGood(h, 1, 3, 2, 1)
          BY <1>10, <2>3, <4>1, ThreeWorkers
        <4>3. m = 1
          BY <4>1
        <4>4. 1 = W \div 3
          BY <4>1
        <4> QED BY <1>2, <4>1, <4>2, <4>3, <4>4, 1 \in Nat \ {0}, 3 \in Nat \ {0}
      <3> QED BY <3>1, <3>2, <3>3
    <2> QED BY <2>1, <2>2, <2>3
  <1> QED BY <1>8, <1>9, <1>10

LEMMA TriedIsFinite ==
  ASSUME NEW h \in RuntimeModels
  PROVE  /\ IsFiniteSet(TriedStrategies(h))
         /\ \A s \in TriedStrategies(h) :
              /\ s.dp \in Nat \ {0} /\ s.mp \in Nat \ {0} /\ s = [dp |-> s.dp, mp |-> s.mp]
              /\ s.mp <= h.workers /\ s.dp = h.workers \div s.mp
  <1> PICK W \in Nat : W = h.workers
    BY DEF RuntimeModels
  <1>1. IsFiniteSet(1..W)
    BY FS_Interval
  <1>2. IsFiniteSet((1..W) \X (1..W))
    BY <1>1, FS_Product
  <1> DEFINE pair == [s \in TriedStrategies(h) |-> <<s.dp, s.mp>>]
  <1>3. pair \in Injection(TriedStrategies(h), (1..W) \X (1..W))
    <2>1. pair \in [TriedStrategies(h) -> (1..W) \X (1..W)]
      BY DEF TriedStrategies
    <2>2. ASSUME NEW s \in TriedStrategies(h), NEW t \in TriedStrategies(h), pair[s] = pair[t]
          PROVE  s = t
      BY <2>2 DEF TriedStrategies
    <2> QED BY <2>1, <2>2 DEF Injection, IsInjective
  <1>4. IsFiniteSet(TriedStrategies(h))
    BY <1>2, <1>3, FS_Injection
  <1> QED BY <1>4 DEF TriedStrategies

\* The fastest is one of those that are tried, if any is.
LEMMA ChosenStrategy ==
  ASSUME NEW h \in RuntimeModels, TriedStrategies(h) # {}
  PROVE  /\ HybridStrategy(h) \in TriedStrategies(h)
         /\ \A t \in TriedStrategies(h) : ~Faster(h, t, HybridStrategy(h))
  <1> DEFINE T == TriedStrategies(h)
             p == [s \in T |-> Time(h, s.dp, s.mp)]
             q == [s \in T |-> Unit(h, s.dp, s.mp)]
             place == [s \in T |-> s.mp]
             Foremost(s) == \A t \in T : Faster(h, s, t) \/ (~Faster(h, t, s) /\ s.mp <= t.mp)
  <1>1. \A s \in T : s.dp \in Nat \ {0} /\ s.mp \in Nat \ {0}
    BY TriedIsFinite
  <1>2. \A s \in T : Time(h, s.dp, s.mp) \in Nat /\ Unit(h, s.dp, s.mp) \in Nat \ {0}
    BY <1>1, RuntimeIs
  <1>3. p \in [T -> Nat] /\ q \in [T -> Nat \ {0}] /\ place \in [T -> Nat]
    BY <1>1, <1>2
  <1>4. \A s, t \in T : Faster(h, s, t) <=> p[s] * q[t] < p[t] * q[s]
    BY DEF Faster, Time, Unit
  <1>5. \A s, t \in T : place[s] = s.mp
    OBVIOUS
  <1>6. IsFiniteSet(T)
    BY TriedIsFinite
  <1> HIDE DEF p, q, place, T
  <1>7. PICK s \in T : \A t \in T : ComesBefore(p, q, place, s, t)
    <2>1. T # {}
      BY DEF T
    <2> QED BY <1>3, <1>6, <2>1, FirstFractionExists
  <1>8. Foremost(s)
    BY <1>4, <1>5, <1>7 DEF ComesBefore
  <1>9. HybridStrategy(h) = CHOOSE x \in T : Foremost(x)
    <2>1. T # {}
      BY <1>7
    <2> QED BY <2>1 DEF HybridStrategy, T, TriedStrategies
  <1>10. HybridStrategy(h) \in T /\ Foremost(HybridStrategy(h))
    <2> HIDE DEF Foremost
    <2> QED BY <1>8, <1>9
  <1>11. \A t \in T : ~Faster(h, t, HybridStrategy(h))
    <2> SUFFICES ASSUME NEW t \in T, Faster(h, t, HybridStrategy(h)) PROVE FALSE
      OBVIOUS
    <2> DEFINE c == HybridStrategy(h)
    <2>1. Faster(h, c, t)
      BY <1>10
    <2>2. p[t] \in Nat /\ q[t] \in Nat /\ p[c] \in Nat /\ q[c] \in Nat
      BY <1>3, <1>10
    <2>3. p[t] * q[c] \in Nat /\ p[c] * q[t] \in Nat
      BY <2>2, Distributes
    <2> HIDE DEF c
    <2>4. c \in T /\ Faster(h, t, c)
      BY <1>10 DEF c
    <2>5. p[t] * q[c] < p[c] * q[t] /\ p[c] * q[t] < p[t] * q[c]
      BY <1>4, <2>1, <2>4
    <2> QED BY <2>3, <2>5
  <1> QED BY <1>10, <1>11 DEF T

LEMMA UnsplitRuntimeIs ==
  ASSUME NEW h \in RuntimeModels, ~h.split, NEW m \in Nat \ {0}
  PROVE  /\ Time(h, 1, m) = h.work * Bubbled(h, m) + 100 * h.reduce * (1 - 1)
         /\ Unit(h, 1, m) = 100 * m
  BY RuntimeIs, 1 \in Nat \ {0}, ZenonT(30)

(* Nothing faster in so many workers is left untried (planner.py:24-49).      *)
LEMMA HybridIsFastest ==
  ASSUME NEW h \in RuntimeModels
  PROVE  StrategyIsFastest(h, HybridStrategy(h))
  <1> DEFINE s == HybridStrategy(h)
  <1> PICK W \in Nat : W = h.workers
    BY DEF RuntimeModels
  <1>1. h.minReplicas = 1 /\ h.work \in Nat
    BY DEF RuntimeModels
  <1>2. CASE W = 0
    <2>1. TriedStrategies(h) = {}
      BY <1>2 DEF TriedStrategies
    <2>2. s = NoStrategy
      BY <2>1 DEF HybridStrategy, TriedStrategies
    <2> QED BY <1>1, <1>2, <2>2 DEF StrategyIsFastest
  <1>3. CASE W # 0
    <2>1. \E x \in TriedStrategies(h) : AsGood(h, x.dp, x.mp, 1, 1)
      <3>1. 1 * 1 <= W
        BY <1>3
      <3> QED BY <3>1, TriedIsAsGood, 1 \in Nat \ {0}
    <2>2. s \in TriedStrategies(h) /\ \A t \in TriedStrategies(h) : ~Faster(h, t, s)
      BY <2>1, ChosenStrategy
    <2> HIDE DEF s
    <2>3. /\ s.dp \in Nat \ {0} /\ s.mp \in Nat \ {0} /\ s = [dp |-> s.dp, mp |-> s.mp]
          /\ s.mp <= W /\ s.dp = W \div s.mp
      BY <2>2, TriedIsFinite
    <2>4. s # NoStrategy
      BY <2>3 DEF NoStrategy
    <2>5. ASSUME NEW t \in [dp : 1..W, mp : 1..W], t.dp * t.mp <= W PROVE ~Faster(h, t, s)
      <3>1. t.dp \in Nat \ {0} /\ t.mp \in Nat \ {0}
        OBVIOUS
      <3>2. PICK x \in TriedStrategies(h) : AsGood(h, x.dp, x.mp, t.dp, t.mp)
        BY <2>5, <3>1, TriedIsAsGood
      <3>3. x.dp \in Nat \ {0} /\ x.mp \in Nat \ {0}
        BY TriedIsFinite
      <3>4. AsGood(h, s.dp, s.mp, x.dp, x.mp)
        <4>1. ~(Time(h, x.dp, x.mp) * Unit(h, s.dp, s.mp) < Time(h, s.dp, s.mp) * Unit(h, x.dp, x.mp))
          BY <2>2 DEF Faster, Time, Unit
        <4>2. /\ Time(h, x.dp, x.mp) \in Nat /\ Unit(h, s.dp, s.mp) \in Nat
              /\ Time(h, s.dp, s.mp) \in Nat /\ Unit(h, x.dp, x.mp) \in Nat
          BY <2>3, <3>3, RuntimeIs
        <4>3. /\ Time(h, x.dp, x.mp) * Unit(h, s.dp, s.mp) \in Nat
              /\ Time(h, s.dp, s.mp) * Unit(h, x.dp, x.mp) \in Nat
          BY <4>2, Distributes
        <4> QED BY <4>1, <4>3 DEF AsGood
      <3>5. AsGood(h, s.dp, s.mp, t.dp, t.mp)
        BY <2>3, <3>1, <3>2, <3>3, <3>4, AsGoodComposes
      <3>6. /\ Time(h, s.dp, s.mp) * Unit(h, t.dp, t.mp) \in Nat
            /\ Time(h, t.dp, t.mp) * Unit(h, s.dp, s.mp) \in Nat
        <4>1. /\ Time(h, t.dp, t.mp) \in Nat /\ Unit(h, s.dp, s.mp) \in Nat
              /\ Time(h, s.dp, s.mp) \in Nat /\ Unit(h, t.dp, t.mp) \in Nat
          BY <2>3, <3>1, RuntimeIs
        <4> QED BY <4>1, Distributes
      <3>7. ~(Time(h, t.dp, t.mp) * Unit(h, s.dp, s.mp) < Time(h, s.dp, s.mp) * Unit(h, t.dp, t.mp))
        BY <3>5, <3>6 DEF AsGood
      <3> QED BY <3>7 DEF Faster, Time, Unit
    <2>6. ASSUME ~h.split, h.work > 0 PROVE s.dp = 1 /\ s.mp = W
      <3>1. s.mp = W
        <4>1. SUFFICES ASSUME s.mp < W PROVE FALSE
          BY <2>3
        <4> PICK m \in Nat \ {0} : m = s.mp
          BY <2>3
        <4> DEFINE one == [dp |-> 1, mp |-> W]
        <4>2. one \in [dp : 1..W, mp : 1..W] /\ one.dp * one.mp <= W /\ one.dp = 1 /\ one.mp = W
          BY <1>3
        <4>3. ~Faster(h, one, s)
          BY <2>5, <4>2
        <4>4. Bubbled(h, W) * m < Bubbled(h, m) * W
          BY <1>3, <4>1, StagesShare
        <4> PICK w \in Nat \ {0}, am \in Nat, aw \in Nat :
              w = h.work /\ am = Bubbled(h, m) /\ aw = Bubbled(h, W)
          <5>1. Bubbled(h, m) \in Nat /\ Bubbled(h, W) \in Nat
            BY <1>3, RuntimeIs, 1 \in Nat \ {0}
          <5> QED BY <1>1, <2>6, <5>1
        <4>5. /\ Time(h, 1, m) = w * am /\ Unit(h, 1, m) = 100 * m
              /\ Time(h, 1, W) = w * aw /\ Unit(h, 1, W) = 100 * W
          <5>1. /\ Time(h, 1, m) = h.work * Bubbled(h, m) + 100 * h.reduce * (1 - 1)
                /\ Unit(h, 1, m) = 100 * m
            BY <2>6, UnsplitRuntimeIs
          <5>2. /\ Time(h, 1, W) = h.work * Bubbled(h, W) + 100 * h.reduce * (1 - 1)
                /\ Unit(h, 1, W) = 100 * W
            BY <1>3, <2>6, UnsplitRuntimeIs
          <5>3. 100 * h.reduce * (1 - 1) = 0
            <6> PICK r \in Nat : r = h.reduce
              BY DEF RuntimeModels
            <6> QED OBVIOUS
          <5>4. w * am + 0 = w * am /\ w * aw + 0 = w * aw
            <6>1. w * am \in Nat /\ w * aw \in Nat
              BY Distributes
            <6> QED BY <6>1
          <5> QED BY <5>1, <5>2, <5>3, <5>4, Zenon
        <4>6. (w * aw) * (100 * m) < (w * am) * (100 * W)
          <5> PICK u \in Nat, v \in Nat : u = aw * m /\ v = am * W /\ u < v
            <6>1. aw * m \in Nat /\ am * W \in Nat
              BY Distributes
            <6> QED BY <4>4, <6>1
          <5>1. (100 * w) * (v - u) \in Nat \ {0}
            <6>1. v - u \in Nat \ {0} /\ 100 * w \in Nat \ {0}
              OBVIOUS
            <6> QED BY <6>1
          <5>2. (100 * w) * (v - u) = (100 * w) * v - (100 * w) * u
                /\ (100 * w) * v \in Nat /\ (100 * w) * u \in Nat
            OBVIOUS
          <5>3. (100 * w) * (aw * m) = (w * aw) * (100 * m)
            OBVIOUS
          <5>4. (100 * w) * (am * W) = (w * am) * (100 * W)
            OBVIOUS
          <5>5. (100 * w) * u < (100 * w) * v
            BY <5>1, <5>2
          <5> QED BY <5>3, <5>4, <5>5, Zenon
        <4>7. Time(h, 1, W) * Unit(h, 1, m) < Time(h, 1, m) * Unit(h, 1, W)
          BY <4>5, <4>6, Zenon
        <4>8. AsGood(h, 1, m, s.dp, m)
          BY <2>3, <2>6, OneReplicaIsAsGood
        <4>9. Time(h, 1, W) * Unit(h, s.dp, m) < Time(h, s.dp, m) * Unit(h, 1, W)
          <5>1. /\ Time(h, 1, W) \in Nat /\ Unit(h, 1, W) \in Nat \ {0}
                /\ Time(h, 1, m) \in Nat /\ Unit(h, 1, m) \in Nat \ {0}
                /\ Time(h, s.dp, m) \in Nat /\ Unit(h, s.dp, m) \in Nat \ {0}
            BY <1>3, <2>3, RuntimeIs, 1 \in Nat \ {0}, ZenonT(30)
          <5>2. Time(h, 1, m) * Unit(h, s.dp, m) <= Time(h, s.dp, m) * Unit(h, 1, m)
            BY <4>8 DEF AsGood
          <5>3. Time(h, 1, W) * Unit(h, 1, m) <= Time(h, 1, m) * Unit(h, 1, W)
            <6>1. Time(h, 1, W) * Unit(h, 1, m) \in Nat /\ Time(h, 1, m) * Unit(h, 1, W) \in Nat
              BY <5>1, Distributes
            <6> QED BY <4>7, <6>1
          <5> QED BY <4>7, <5>1, <5>2, <5>3, FractionsCompose
        <4> QED BY <4>2, <4>3, <4>9 DEF Faster, Time, Unit
      <3>2. W \div W = 1
        <4>1. W \in Nat \ {0}
          BY <1>3
        <4> QED BY <4>1
      <3> QED BY <2>3, <3>1, <3>2
    <2> QED BY <1>1, <1>3, <2>4, <2>5, <2>6 DEF StrategyIsFastest, s
  <1> QED BY <1>2, <1>3

-----------------------------------------------------------------------------
(* The first service.                                                         *)

LEMMA DoubledIs ==
  /\ Doubled[0] = 1
  /\ \A n \in 0..MaxGpus : Doubled[n] \in Nat \ {0}
  /\ \A n \in 0..MaxGpus : n + 1 <= MaxGpus => Doubled[n + 1] = 2 * Doubled[n]
  <1> DEFINE Powers(f, n) == IF n = 0 THEN 1 ELSE 2 * f[n - 1]
             Upto(n, f) == \A k \in 0..MaxGpus : k <= n => f[k] = Powers(f, k)
             P == {n \in Nat : \E f : Upto(n, f)}
  <1>0. MaxGpus \in Nat
    BY PolicyAssumption
  <1>1. 0 \in P
    <2>1. Upto(0, [k \in 0..MaxGpus |-> 1])
      OBVIOUS
    <2> HIDE DEF Upto
    <2> QED BY <2>1
  <1>2. ASSUME NEW n \in Nat, n \in P PROVE n + 1 \in P
    <2>1. PICK f : Upto(n, f)
      BY <1>2
    <2> DEFINE g == [k \in 0..MaxGpus |-> Powers(f, k)]
    <2>2. ASSUME NEW k \in 0..MaxGpus, k <= n + 1 PROVE g[k] = Powers(g, k)
      <3>1. CASE k = 0
        BY <3>1
      <3>2. CASE k # 0
        <4>1. k - 1 \in 0..MaxGpus /\ k - 1 <= n
          BY <1>0, <2>2, <3>2
        <4>2. f[k - 1] = Powers(f, k - 1)
          BY <2>1, <4>1
        <4>3. g[k - 1] = Powers(f, k - 1)
          BY <4>1
        <4>4. g[k] = 2 * f[k - 1]
          BY <3>2
        <4> QED BY <3>2, <4>2, <4>3, <4>4
      <3> QED BY <3>1, <3>2
    <2>3. Upto(n + 1, g)
      BY <2>2
    <2> HIDE DEF Upto
    <2> QED BY <2>3
  <1> HIDE DEF P
  <1>3. \A n \in Nat : n \in P
    BY <1>1, <1>2, Induction
  <1>4. PICK f : Upto(MaxGpus, f)
    BY <1>0, <1>3 DEF P
  <1> DEFINE h == [k \in 0..MaxGpus |-> f[k]]
             Is(e) == e = [n \in 0..MaxGpus |-> IF n = 0 THEN 1 ELSE 2 * e[n - 1]]
  <1>5. Is(h)
    <2>1. ASSUME NEW k \in 0..MaxGpus PROVE h[k] = IF k = 0 THEN 1 ELSE 2 * h[k - 1]
      <3>1. h[k] = Powers(f, k)
        BY <1>0, <1>4
      <3>2. k # 0 => k - 1 \in 0..MaxGpus
        BY <1>0
      <3> QED BY <3>1, <3>2
    <2> QED BY <2>1
  <1> HIDE DEF h
  <1>6. Doubled = CHOOSE e : Is(e)
    BY Zenon DEF Doubled
  <1>7. Is(Doubled)
    <2> HIDE DEF Is
    <2> QED BY <1>5, <1>6, Zenon
  <1>8. Doubled[0] = 1 /\ \A n \in 0..MaxGpus : n # 0 => Doubled[n] = 2 * Doubled[n - 1]
    BY <1>0, <1>7
  <1> DEFINE Q == {n \in Nat : n <= MaxGpus => Doubled[n] \in Nat \ {0}}
  <1>9. 0 \in Q
    BY <1>8
  <1>10. ASSUME NEW n \in Nat, n \in Q PROVE n + 1 \in Q
    <2>1. n + 1 <= MaxGpus => Doubled[n + 1] = 2 * Doubled[n] /\ Doubled[n] \in Nat \ {0}
      <3>1. n + 1 <= MaxGpus => n + 1 \in 0..MaxGpus /\ n + 1 # 0 /\ (n + 1) - 1 = n /\ n <= MaxGpus
        BY <1>0
      <3> QED BY <1>8, <1>10, <3>1
    <2> QED BY <2>1
  <1> HIDE DEF Q
  <1>11. \A n \in Nat : n \in Q
    BY <1>9, <1>10, Induction
  <1>12. \A n \in 0..MaxGpus : Doubled[n] \in Nat \ {0}
    BY <1>0, <1>11 DEF Q
  <1>13. ASSUME NEW n \in 0..MaxGpus, n + 1 <= MaxGpus PROVE Doubled[n + 1] = 2 * Doubled[n]
    <2>1. n + 1 \in 0..MaxGpus /\ n + 1 # 0 /\ (n + 1) - 1 = n
      BY <1>0, <1>13
    <2> QED BY <1>8, <2>1
  <1> QED BY <1>8, <1>12, <1>13

\* The fewest GPUs that are enough, no more than the policy's curves go to.
LEMMA ShareType ==
  ASSUME NEW k, k.rate \in Seq(Nat), Len(k.rate) <= MaxGpus
  PROVE  Share(k) \in 0..MaxGpus
  <1> DEFINE enough == {g \in 1..MaxOf(k) : MeetsDeadline(k, g)}
             share == CHOOSE g \in enough : \A x \in enough : g <= x
  <1>1. MaxGpus \in Nat /\ MaxOf(k) \in Nat /\ MaxOf(k) <= MaxGpus
    BY PolicyAssumption DEF MaxOf
  <1>2. Share(k) = IF k.iters <= 0 \/ k.deadline <= 0 \/ enough = {} THEN 0 ELSE share
    BY DEF Share
  <1>3. enough \subseteq Nat /\ enough \subseteq 0..MaxGpus
    BY <1>1
  <1> HIDE DEF enough
  <1>4. enough # {} => share \in enough
    <2> SUFFICES ASSUME enough # {} PROVE share \in enough
      OBVIOUS
    <2>1. \E g \in enough : \A x \in enough : g <= x
      BY <1>3, SmallestExists
    <2> QED BY <2>1
  <1> HIDE DEF share
  <1>5. Share(k) = 0 \/ (enough # {} /\ Share(k) = share)
    BY <1>2, Zenon
  <1>6. 0 \in 0..MaxGpus
    BY <1>1
  <1> QED BY <1>3, <1>4, <1>5, <1>6, Zenon

\* A job in the store, and how it is parallelised.
JobRecords ==
  [state : {"DROPPED", "RUNNING", "PAUSED"}, gpus : Nat, strategy : [dp : Nat, mp : Nat],
   share : 0..MaxGpus, clean : 0..MaxGpus, spared : BOOLEAN, stopped : BOOLEAN]

JobInv(p, job) ==
  /\ job.share = 0 => job.state = "DROPPED" /\ job.gpus = 0
  /\ job.share > 0 =>
       /\ job.state \in {"RUNNING", "PAUSED"} /\ job.gpus > 0
       /\ job.spared => job.gpus >= job.share
       /\ job.gpus >= AtMost(MaxGpus, Doubled[job.clean])
       /\ job.state = "PAUSED" => job.gpus = MinGpus /\ job.clean = 0
       /\ job.strategy # NoStrategy =>
            job.strategy = HybridStrategy([p.model EXCEPT !.workers = job.gpus])

\* Two jobs that were paused are alike.
Alike(job, other) ==
  job.stopped /\ other.stopped /\ job.share > 0 /\ other.share > 0 =>
    job.gpus = other.gpus /\ job.state = other.state

ServiceInv(p, jobs) ==
  /\ jobs \in Seq(JobRecords)
  /\ \A j \in DOMAIN jobs : JobInv(p, jobs[j])
  /\ \A i, j \in DOMAIN jobs : Alike(jobs[i], jobs[j])

LEMMA ServiceBeginsWell ==
  ASSUME NEW p
  PROVE  ServiceInv(p, ServiceBegins)
  BY DEF ServiceInv, ServiceBegins

LEMMA SubmitStep ==
  ASSUME NEW p, IsService(p), NEW jobs, ServiceInv(p, jobs), NEW k \in p.kinds
  PROVE  ServiceInv(p, Submit(jobs, k))
  <1> DEFINE share == Share(k)
             job == [state |-> IF share = 0 THEN "DROPPED" ELSE "RUNNING", gpus |-> share,
                     strategy |-> NoStrategy,
                     share |-> share, clean |-> 0, spared |-> TRUE, stopped |-> FALSE]
             n == Len(jobs) + 1
  <1>1. MaxGpus \in Nat \ {0}
    BY PolicyAssumption
  <1>2. share \in 0..MaxGpus
    BY ShareType DEF IsService
  <1>3. Submit(jobs, k) = Append(jobs, job)
    BY DEF Submit
  <1> HIDE DEF share
  <1>4. job \in JobRecords
    BY <1>1, <1>2 DEF JobRecords, NoStrategy
  <1>5. JobInv(p, job)
    <2>1. Doubled[job.clean] = 1
      BY DoubledIs
    <2>2. AtMost(MaxGpus, 1) = 1
      BY <1>1 DEF AtMost
    <2> QED BY <1>2, <2>1, <2>2 DEF JobInv
  <1>6. ~job.stopped
    OBVIOUS
  <1> HIDE DEF job
  <1>7. jobs \in Seq(JobRecords) /\ Len(jobs) \in Nat /\ DOMAIN jobs = 1..Len(jobs)
    BY DEF ServiceInv
  <1>8. /\ Append(jobs, job) \in Seq(JobRecords) /\ DOMAIN Append(jobs, job) = 1..n
        /\ \A j \in 1..n : Append(jobs, job)[j] = IF j = n THEN job ELSE jobs[j]
        /\ \A j \in 1..n : j # n => j \in DOMAIN jobs
    BY <1>4, <1>7
  <1> DEFINE after == Append(jobs, job)
  <1>9. \A j \in 1..n : JobInv(p, after[j])
    BY <1>5, <1>8 DEF ServiceInv
  <1>10. \A i, j \in 1..n : Alike(after[i], after[j])
    BY <1>6, <1>8 DEF ServiceInv, Alike
  <1> QED BY <1>3, <1>8, <1>9, <1>10 DEF ServiceInv

\* What a job has after a tick, if it is listed.
Target(job, sample) == AtLeast(1, RuleBased(AtLeast(1, job.gpus), sample, 0, 0).target)

LEMMA TargetIs ==
  ASSUME NEW job, job.gpus \in Nat \ {0}, NEW sample \in IntensitySamples
  PROVE  /\ Target(job, sample) \in Nat \ {0}
         /\ sample = "pause" => Target(job, sample) = MinGpus
         /\ sample = "mid" => Target(job, sample) = job.gpus
         /\ sample = "low" => Target(job, sample) >= AtMost(MaxGpus, 2 * job.gpus)
         /\ RuleBased(AtLeast(1, job.gpus), sample, 0, 0).pause <=> sample = "pause"
  <1>1. MaxGpus \in Nat \ {0} /\ MinGpus \in Nat \ {0} /\ MinGpus <= MaxGpus
    BY PolicyAssumption
  <1>2. AtLeast(1, job.gpus) = job.gpus
    BY DEF AtLeast
  <1> PICK g \in Nat \ {0} : g = job.gpus
    OBVIOUS
  <1> DEFINE d == RuleBased(g, sample, 0, 0)
  <1>3. CASE sample = "pause"
    <2>1. d.target = MinGpus /\ d.pause
      BY <1>3, Zenon DEF RuleBased, Decision
    <2>2. AtLeast(1, MinGpus) = MinGpus
      BY <1>1 DEF AtLeast
    <2> QED BY <1>1, <1>2, <1>3, <2>1, <2>2 DEF Target
  <1>4. CASE sample = "high"
    <2>1. d.target = AtLeast(MinGpus, g \div 2) /\ ~d.pause
      BY <1>4 DEF RuleBased, Decision
    <2>2. AtLeast(1, AtLeast(MinGpus, g \div 2)) \in Nat \ {0}
      <3>1. g \div 2 \in Nat
        OBVIOUS
      <3> QED BY <1>1, <3>1 DEF AtLeast
    <2> QED BY <1>1, <1>2, <1>4, <2>1, <2>2 DEF Target
  <1>5. CASE sample = "low"
    <2>1. d.target = AtMost(MaxGpus, AtLeast(MinGpus + 1, g * 2)) /\ ~d.pause
      BY <1>5 DEF RuleBased, Decision
    <2>2. /\ AtLeast(1, AtMost(MaxGpus, AtLeast(MinGpus + 1, g * 2))) \in Nat \ {0}
          /\ AtLeast(1, AtMost(MaxGpus, AtLeast(MinGpus + 1, g * 2))) >= AtMost(MaxGpus, 2 * g)
      BY <1>1 DEF AtLeast, AtMost
    <2> QED BY <1>1, <1>2, <1>5, <2>1, <2>2 DEF Target
  <1>6. CASE sample = "mid"
    <2>1. d.target = g /\ ~d.pause
      BY <1>6 DEF RuleBased, Decision
    <2>2. AtLeast(1, g) = g
      BY DEF AtLeast
    <2> QED BY <1>1, <1>2, <1>6, <2>1, <2>2 DEF Target
  <1> QED BY <1>3, <1>4, <1>5, <1>6 DEF IntensitySamples

\* The strategy is a record of naturals.
LEMMA StrategyType ==
  ASSUME NEW h \in RuntimeModels
  PROVE  HybridStrategy(h) \in [dp : Nat, mp : Nat]
  <1>1. CASE TriedStrategies(h) = {}
    BY <1>1 DEF HybridStrategy, TriedStrategies, NoStrategy
  <1>2. CASE TriedStrategies(h) # {}
    <2>1. HybridStrategy(h) \in TriedStrategies(h)
      BY <1>2, ChosenStrategy
    <2> QED BY <2>1, TriedIsFinite
  <1> QED BY <1>1, <1>2

\* A tick of one job, with what it has seen.
Ticked(p, job, sample) ==
  Seen(IF Listed(job) THEN TickJob(p, job, sample) ELSE job, sample)

LEMMA SeenIs ==
  ASSUME NEW job \in JobRecords, NEW sample \in IntensitySamples
  PROVE  LET after == Seen(job, sample) IN
         /\ after \in JobRecords
         /\ after.gpus = job.gpus /\ after.state = job.state /\ after.share = job.share
         /\ after.strategy = job.strategy
         /\ after.clean = IF sample = "low" THEN AtMost(MaxGpus, job.clean + 1)
                          ELSE IF sample = "mid" THEN job.clean ELSE 0
         /\ after.spared = (job.spared /\ sample \in {"low", "mid"})
         /\ after.stopped = (job.stopped \/ sample = "pause")
  <1> DEFINE after == Seen(job, sample)
             clean == IF sample = "low" THEN AtMost(MaxGpus, job.clean + 1)
                      ELSE IF sample = "mid" THEN job.clean ELSE 0
  <1>1. MaxGpus \in Nat /\ job.clean \in 0..MaxGpus
    BY PolicyAssumption DEF JobRecords
  <1>2. clean \in 0..MaxGpus
    BY <1>1 DEF AtMost
  <1>3. after = [job EXCEPT !.clean = clean,
                            !.spared = job.spared /\ sample \in {"low", "mid"},
                            !.stopped = job.stopped \/ sample = "pause"]
    BY DEF Seen, IntensitySamples
  <1> HIDE DEF clean
  <1>4. /\ after.gpus = job.gpus /\ after.state = job.state /\ after.share = job.share
        /\ after.strategy = job.strategy /\ after.clean = clean
        /\ after.spared = (job.spared /\ sample \in {"low", "mid"})
        /\ after.stopped = (job.stopped \/ sample = "pause")
    BY <1>3 DEF JobRecords
  <1>5. after \in JobRecords
    BY <1>2, <1>3 DEF JobRecords
  <1> QED BY <1>4, <1>5 DEF clean

TickOf(p, job, sample, after) ==
  /\ after \in JobRecords /\ after.share = job.share
  /\ after.clean = IF sample = "low" THEN AtMost(MaxGpus, job.clean + 1)
                   ELSE IF sample = "mid" THEN job.clean ELSE 0
  /\ after.spared = (job.spared /\ sample \in {"low", "mid"})
  /\ after.stopped = (job.stopped \/ sample = "pause")
  /\ job.share = 0 => after.gpus = job.gpus /\ after.state = job.state
  /\ job.share > 0 =>
       /\ after.gpus = Target(job, sample)
       /\ after.state = IF sample = "pause" THEN "PAUSED" ELSE "RUNNING"
       /\ after.strategy = HybridStrategy([p.model EXCEPT !.workers = after.gpus])

LEMMA TickedIs ==
  ASSUME NEW p, IsService(p), NEW job \in JobRecords, JobInv(p, job),
         NEW sample \in IntensitySamples
  PROVE  TickOf(p, job, sample, Ticked(p, job, sample))
  <1> DEFINE after == Ticked(p, job, sample)
             tick == TickJob(p, job, sample)
  <1>1. CASE job.share = 0
    <2>1. ~Listed(job)
      BY <1>1 DEF JobInv, Listed
    <2>2. after = Seen(job, sample)
      BY <2>1 DEF Ticked
    <2> PICK seen \in JobRecords : seen = Seen(job, sample)
      BY SeenIs
    <2>3. /\ seen.gpus = job.gpus /\ seen.state = job.state /\ seen.share = job.share
          /\ seen.clean = IF sample = "low" THEN AtMost(MaxGpus, job.clean + 1)
                          ELSE IF sample = "mid" THEN job.clean ELSE 0
          /\ seen.spared = (job.spared /\ sample \in {"low", "mid"})
          /\ seen.stopped = (job.stopped \/ sample = "pause")
      BY SeenIs
    <2> QED BY <1>1, <2>2, <2>3 DEF TickOf
  <1>2. CASE job.share # 0
    <2>1. job.share > 0 /\ job.gpus \in Nat \ {0} /\ Listed(job)
      BY <1>2 DEF JobInv, JobRecords, Listed
    <2> DEFINE t == Target(job, sample)
               h == [p.model EXCEPT !.workers = t]
    <2>2. /\ t \in Nat \ {0}
          /\ RuleBased(AtLeast(1, job.gpus), sample, 0, 0).pause <=> sample = "pause"
      BY <2>1, TargetIs
    <2>3. tick = [job EXCEPT !.gpus = t, !.strategy = HybridStrategy(h),
                             !.state = IF sample = "pause" THEN "PAUSED" ELSE "RUNNING"]
      BY <2>2, Zenon DEF TickJob, Target
    <2>4. h \in RuntimeModels
      BY <2>2 DEF IsService, RuntimeModels
    <2>5. HybridStrategy(h) \in [dp : Nat, mp : Nat]
      <3> HIDE DEF h
      <3> QED BY <2>4, StrategyType
    <2>6. after = Seen(tick, sample)
      BY <2>1 DEF Ticked
    <2> PICK strategy \in [dp : Nat, mp : Nat], g \in Nat \ {0} :
          strategy = HybridStrategy(h) /\ g = t
      <3> HIDE DEF h, t
      <3> QED BY <2>2, <2>5
    <2> PICK state \in {"RUNNING", "PAUSED"} :
          state = IF sample = "pause" THEN "PAUSED" ELSE "RUNNING"
      OBVIOUS
    <2>7. tick = [job EXCEPT !.gpus = g, !.strategy = strategy, !.state = state]
      BY <2>3, Zenon
    <2> HIDE DEF tick, h, t
    <2>8. /\ tick \in JobRecords /\ tick.share = job.share /\ tick.clean = job.clean
          /\ tick.spared = job.spared /\ tick.stopped = job.stopped
          /\ tick.gpus = g /\ tick.strategy = strategy /\ tick.state = state
      BY <2>7 DEF JobRecords
    <2>9. LET a == Seen(tick, sample) IN
          /\ a \in JobRecords
          /\ a.gpus = tick.gpus /\ a.state = tick.state /\ a.share = tick.share
          /\ a.strategy = tick.strategy
          /\ a.clean = IF sample = "low" THEN AtMost(MaxGpus, tick.clean + 1)
                       ELSE IF sample = "mid" THEN tick.clean ELSE 0
          /\ a.spared = (tick.spared /\ sample \in {"low", "mid"})
          /\ a.stopped = (tick.stopped \/ sample = "pause")
      BY <2>8, SeenIs
    <2>10. after.gpus = t /\ after.strategy = HybridStrategy([p.model EXCEPT !.workers = after.gpus])
      <3>1. after.gpus = t /\ after.strategy = HybridStrategy(h)
        BY <2>6, <2>8, <2>9
      <3> QED BY <3>1, Zenon DEF h
    <2> QED BY <1>2, <2>6, <2>8, <2>9, <2>10 DEF t, TickOf
  <1> QED BY <1>1, <1>2

\* Every clean sample doubles what a job has.
LEMMA TickedKeeps ==
  ASSUME NEW p, IsService(p), NEW job \in JobRecords, JobInv(p, job),
         NEW sample \in IntensitySamples
  PROVE  JobInv(p, Ticked(p, job, sample))
  <1> PICK after \in JobRecords : after = Ticked(p, job, sample) /\ TickOf(p, job, sample, after)
    BY TickedIs DEF TickOf
  <1>1. CASE job.share = 0
    <2>1. after.share = job.share /\ after.gpus = job.gpus /\ after.state = job.state
      BY <1>1 DEF TickOf
    <2> QED BY <1>1, <2>1 DEF JobInv
  <1>2. CASE job.share # 0
    <2>1. job.share \in 1..MaxGpus /\ job.gpus \in Nat \ {0} /\ job.clean \in 0..MaxGpus
      BY <1>2 DEF JobInv, JobRecords
    <2>2. /\ after.share = job.share
          /\ after.clean = IF sample = "low" THEN AtMost(MaxGpus, job.clean + 1)
                           ELSE IF sample = "mid" THEN job.clean ELSE 0
          /\ after.spared = (job.spared /\ sample \in {"low", "mid"})
          /\ after.gpus = Target(job, sample)
          /\ after.state = IF sample = "pause" THEN "PAUSED" ELSE "RUNNING"
          /\ after.strategy = HybridStrategy([p.model EXCEPT !.workers = after.gpus])
      BY <1>2, <2>1 DEF TickOf
    <2>3. /\ after.gpus \in Nat \ {0}
          /\ sample = "pause" => after.gpus = MinGpus
          /\ sample = "mid" => after.gpus = job.gpus
          /\ sample = "low" => after.gpus >= AtMost(MaxGpus, 2 * job.gpus)
      BY <2>1, <2>2, TargetIs
    <2>4. MaxGpus \in Nat \ {0}
      BY PolicyAssumption
    <2>5. /\ job.spared => job.gpus >= job.share
          /\ job.gpus >= AtMost(MaxGpus, Doubled[job.clean])
      BY <1>2, <2>1 DEF JobInv
    <2>6. after.spared => after.gpus >= after.share
      <3>1. ASSUME after.spared PROVE job.spared /\ sample \in {"low", "mid"}
        BY <2>2, <3>1, Zenon
      <3>2. CASE sample = "mid"
        BY <2>2, <2>3, <2>5, <3>1, <3>2
      <3>3. CASE sample = "low"
        <4>1. ASSUME job.gpus >= job.share PROVE after.gpus >= job.share
          BY <2>1, <2>3, <2>4, <3>3, <4>1 DEF AtMost
        <4> QED BY <2>2, <2>5, <3>1, <4>1
      <3> QED BY <3>1, <3>2, <3>3
    <2>7. after.gpus >= AtMost(MaxGpus, Doubled[after.clean])
      <3>1. Doubled[job.clean] \in Nat \ {0}
        BY <2>1, DoubledIs
      <3>2. CASE sample = "low" /\ job.clean + 1 <= MaxGpus
        <4>1. after.clean = job.clean + 1 /\ Doubled[job.clean + 1] = 2 * Doubled[job.clean]
          BY <2>1, <2>2, <3>2, DoubledIs DEF AtMost
        <4> QED BY <2>1, <2>3, <2>4, <2>5, <3>1, <3>2, <4>1 DEF AtMost
      <3>3. CASE sample = "low" /\ ~(job.clean + 1 <= MaxGpus)
        <4>1. after.clean = job.clean
          BY <2>1, <2>2, <2>4, <3>3 DEF AtMost
        <4> QED BY <2>1, <2>3, <2>4, <2>5, <3>1, <3>3, <4>1 DEF AtMost
      <3>4. CASE sample = "mid"
        BY <2>2, <2>3, <2>5, <3>4
      <3>5. CASE sample \notin {"low", "mid"}
        <4>1. Doubled[after.clean] = 1
          BY <2>2, <3>5, DoubledIs
        <4> QED BY <2>3, <2>4, <4>1 DEF AtMost
      <3> QED BY <3>2, <3>3, <3>4, <3>5
    <2>8. after.state = "PAUSED" => after.gpus = MinGpus /\ after.clean = 0
      BY <2>2, <2>3
    <2>9. after.state \in {"RUNNING", "PAUSED"}
      BY <2>2
    <2> QED BY <2>1, <2>2, <2>3, <2>6, <2>7, <2>8, <2>9 DEF JobInv
  <1> QED BY <1>1, <1>2

LEMMA TickStep ==
  ASSUME NEW p, IsService(p), NEW jobs, ServiceInv(p, jobs), NEW sample \in IntensitySamples
  PROVE  ServiceInv(p, BaselineTick(p, jobs, sample))
  <1> DEFINE after == [j \in DOMAIN jobs |-> Ticked(p, jobs[j], sample)]
  <1>1. BaselineTick(p, jobs, sample) = after
    BY DEF BaselineTick, Ticked
  <1>2. /\ jobs \in Seq(JobRecords) /\ DOMAIN jobs = 1..Len(jobs) /\ Len(jobs) \in Nat
        /\ \A j \in DOMAIN jobs : jobs[j] \in JobRecords /\ JobInv(p, jobs[j])
    BY DEF ServiceInv
  <1>3. \A j \in DOMAIN jobs : after[j] \in JobRecords /\ JobInv(p, after[j])
    BY <1>2, TickedIs, TickedKeeps DEF TickOf
  <1>4. after \in Seq(JobRecords) /\ DOMAIN after = DOMAIN jobs
    BY <1>2, <1>3
  <1>5. ASSUME NEW i \in DOMAIN jobs, NEW j \in DOMAIN jobs PROVE Alike(after[i], after[j])
    <2> PICK a \in JobRecords, b \in JobRecords : a = jobs[i] /\ b = jobs[j]
      BY <1>2
    <2>1. JobInv(p, a) /\ JobInv(p, b) /\ Alike(a, b)
      BY <1>2, <1>5 DEF ServiceInv
    <2> PICK c \in JobRecords, d \in JobRecords :
          /\ c = Ticked(p, a, sample) /\ d = Ticked(p, b, sample)
          /\ TickOf(p, a, sample, c) /\ TickOf(p, b, sample, d)
      <3>1. TickOf(p, a, sample, Ticked(p, a, sample))
        BY <2>1, TickedIs
      <3>2. TickOf(p, b, sample, Ticked(p, b, sample))
        BY <2>1, TickedIs
      <3>3. Ticked(p, a, sample) \in JobRecords /\ Ticked(p, b, sample) \in JobRecords
        BY <3>1, <3>2 DEF TickOf
      <3> QED BY <3>1, <3>2, <3>3
    <2>2. SUFFICES ASSUME c.stopped, d.stopped, c.share > 0, d.share > 0
                   PROVE  c.gpus = d.gpus /\ c.state = d.state
      <3>1. after[i] = c /\ after[j] = d
        OBVIOUS
      <3> QED BY <3>1 DEF Alike
    <2>3. /\ c.share = a.share /\ c.gpus = Target(a, sample)
          /\ c.state = (IF sample = "pause" THEN "PAUSED" ELSE "RUNNING")
          /\ a.stopped \/ sample = "pause"
      BY <2>1, <2>2 DEF TickOf
    <2>4. /\ d.share = b.share /\ d.gpus = Target(b, sample)
          /\ d.state = (IF sample = "pause" THEN "PAUSED" ELSE "RUNNING")
          /\ b.stopped \/ sample = "pause"
      BY <2>1, <2>2 DEF TickOf
    <2>5. a.gpus \in Nat \ {0} /\ b.gpus \in Nat \ {0} /\ a.share > 0 /\ b.share > 0
      BY <2>1, <2>2, <2>3, <2>4 DEF JobInv, JobRecords
    <2>6. CASE sample = "pause"
      BY <2>3, <2>4, <2>5, <2>6, TargetIs
    <2>7. CASE sample # "pause"
      <3>1. a.gpus = b.gpus
        BY <2>1, <2>3, <2>4, <2>5, <2>7 DEF Alike
      <3> QED BY <2>3, <2>4, <3>1 DEF Target
    <2> QED BY <2>6, <2>7
  <1> HIDE DEF after
  <1> QED BY <1>1, <1>3, <1>4, <1>5 DEF ServiceInv

LEMMA ServiceIsRecovering ==
  ASSUME NEW p, IsService(p), NEW jobs, ServiceInv(p, jobs)
  PROVE  ServiceRecovers(p, jobs)
  <1> SUFFICES ASSUME NEW j \in DOMAIN jobs, jobs[j].share # 0
               PROVE  /\ jobs[j].spared => jobs[j].gpus >= jobs[j].share
                      /\ jobs[j].gpus >= AtMost(MaxGpus, Doubled[jobs[j].clean])
                      /\ jobs[j].state = "PAUSED" => jobs[j].gpus = MinGpus /\ jobs[j].clean = 0
                      /\ \A i \in DOMAIN jobs :
                           jobs[j].stopped /\ jobs[i].stopped /\ jobs[i].share > 0 =>
                             jobs[j].gpus = jobs[i].gpus /\ jobs[j].state = jobs[i].state
                      /\ jobs[j].strategy # NoStrategy =>
                           StrategyIsFastest([p.model EXCEPT !.workers = jobs[j].gpus], jobs[j].strategy)
    BY DEF ServiceInv, JobInv, ServiceRecovers
  <1>1. jobs[j] \in JobRecords /\ JobInv(p, jobs[j]) /\ jobs[j].share > 0
    <2>1. jobs[j] \in JobRecords /\ JobInv(p, jobs[j])
      BY DEF ServiceInv
    <2>2. jobs[j].share \in Nat
      BY <2>1, PolicyAssumption DEF JobRecords
    <2> QED BY <2>1, <2>2
  <1> DEFINE h == [p.model EXCEPT !.workers = jobs[j].gpus]
  <1>2. h \in RuntimeModels
    BY <1>1 DEF JobRecords, IsService, RuntimeModels
  <1>3. StrategyIsFastest(h, HybridStrategy(h))
    <2> HIDE DEF h
    <2> QED BY <1>2, HybridIsFastest
  <1>4. jobs[j].strategy # NoStrategy => StrategyIsFastest(h, jobs[j].strategy)
    BY <1>1, <1>3, Zenon DEF JobInv
  <1>5. \A i \in DOMAIN jobs : Alike(jobs[j], jobs[i])
    BY DEF ServiceInv
  <1> QED BY <1>1, <1>4, <1>5 DEF JobInv, Alike

-----------------------------------------------------------------------------
(* The specification: each kind of question goes on by its own action.        *)

ProblemInv == kind \in DOMAIN Problems /\ problem \in Problems[kind]

DeadlineInv ==
  /\ ProblemInv
  /\ kind \in {"greedy", "receding"} => RunInv(problem, answer)
  /\ kind = "epochs" => EpochsInv(problem, answer)
  /\ kind = "episode" => EpisodeInv(problem, answer)

\* The only actions of each kind.
LEMMA OwnAction ==
  ASSUME Next
  PROVE  /\ kind' = kind /\ problem' = problem
         /\ kind = "greedy" => RunGreedy
         /\ kind = "receding" => RunReceding
         /\ kind = "epochs" => TrainEpoch
         /\ kind = "episode" => ActEpisode \/ ResetEpisode
         /\ kind = "fastest" => AllocateFastest
         /\ kind = "cheapest" => AllocateCheapest
         /\ kind = "mpc" => SteerMPC
         /\ kind = "dual" => SteerDual
         /\ kind = "service" => SubmitJob \/ TickService
         /\ kind = "emissions" => ProjectEmissions
         /\ kind = "lookup" => LookUp
         /\ kind = "sources" => ReadSources
         /\ kind = "samples" => CutSamples
         /\ kind = "simulation" => Simulate
         /\ kind = "verdict" => Judge
  BY DEF Next, Once, Again, PlanJointly, PlanForRisk, AllocateFastest, AllocateCheapest,
         AllocateBaseline, AllocateElasticFlow, AllocateZeus, CompareStacked, AllocateBudgeted,
         AllocateTrimmed, Judge, ChooseStrategy, ThrottleStages, MaskTicks, CutSamples,
         PlanOffline, ReadSources, ProjectEmissions, LookUp, SteerMPC, SteerDual, Simulate,
         RunGreedy, RunReceding, TrainEpoch, ActEpisode, ResetEpisode, SubmitJob, TickService

LEMMA QuestionTypes ==
  ASSUME ProblemInv
  PROVE  /\ kind \in {"greedy", "receding"} => IsRun(problem) /\ problem.horizon \in Nat \ {0}
         /\ kind = "epochs" => IsEpochs(problem)
         /\ kind = "episode" => IsEpisode(problem)
  BY DeadlineAssumption DEF ProblemInv

LEMMA DeadlineInvInit == Init => DeadlineInv
  <1> SUFFICES ASSUME Init PROVE DeadlineInv
    OBVIOUS
  <1>1. ProblemInv /\ answer = FirstAnswer(kind, problem)
    BY DEF Init, ProblemInv
  <1>2. CASE kind \in {"greedy", "receding"}
    <2>1. answer = RunBegins
      BY <1>1, <1>2 DEF FirstAnswer
    <2>2. IsRun(problem)
      BY <1>1, <1>2, QuestionTypes
    <2>3. problem.hours \in Nat /\ problem.target \in Nat /\ Fastest(problem) \in Nat
      BY <2>2, FastestFacts DEF IsRun
    <2>4. RunInv(problem, RunBegins)
      BY <2>3 DEF RunInv, RunBegins, Reachable, StillReachable
    <2> QED BY <1>1, <1>2, <2>1, <2>4 DEF DeadlineInv
  <1>3. CASE kind = "epochs"
    <2>1. answer = Epochs(problem)
      BY <1>1, <1>3 DEF FirstAnswer
    <2> QED BY <1>1, <1>3, <2>1, QuestionTypes, EpochsBegin DEF DeadlineInv
  <1>4. CASE kind = "episode"
    <2>1. answer = EpisodeBegins
      BY <1>1, <1>4 DEF FirstAnswer
    <2> QED BY <1>1, <1>4, <2>1, QuestionTypes, EpisodeStarts DEF DeadlineInv
  <1>5. CASE kind \notin {"greedy", "receding", "epochs", "episode"}
    BY <1>1, <1>5 DEF DeadlineInv
  <1> QED BY <1>2, <1>3, <1>4, <1>5

LEMMA DeadlineInvNext == DeadlineInv /\ [Next]_vars => DeadlineInv'
  <1> SUFFICES ASSUME DeadlineInv, [Next]_vars PROVE DeadlineInv'
    OBVIOUS
  <1>1. CASE UNCHANGED vars
    BY <1>1 DEF DeadlineInv, ProblemInv, vars
  <1>2. CASE Next
    <2>1. kind' = kind /\ problem' = problem /\ ProblemInv /\ ProblemInv'
      BY <1>2, OwnAction DEF DeadlineInv, ProblemInv
    <2>2. CASE kind = "greedy"
      <3>1. /\ RunGreedy /\ RunInv(problem, answer) /\ IsRun(problem)
        BY <1>2, <2>1, <2>2, OwnAction, QuestionTypes DEF DeadlineInv
      <3>2. PICK intensity \in problem.intensities :
              /\ answer.hour < problem.hours
              /\ answer' = After(problem, answer, GreedyChoice(problem, answer, intensity))
        BY <3>1 DEF RunGreedy
      <3>3. intensity \in Nat
        BY <3>1 DEF IsRun
      <3>4. RunInv(problem, answer')
        BY <3>1, <3>2, <3>3, GreedyKeepsUp
      <3> QED BY <2>1, <2>2, <3>4 DEF DeadlineInv
    <2>3. CASE kind = "receding"
      <3>1. RunReceding /\ RunInv(problem, answer) /\ IsRun(problem) /\ problem.horizon \in Nat \ {0}
        BY <1>2, <2>1, <2>3, OwnAction, QuestionTypes DEF DeadlineInv
      <3> DEFINE n == Smaller(problem.horizon, problem.hours - answer.hour)
      <3>2. PICK forecast \in [1..n -> problem.intensities] :
              answer' = After(problem, answer, RecedingChoice(problem, answer, forecast))
        BY <3>1 DEF RunReceding
      <3>3. answer.hour < problem.hours
        BY <3>1 DEF RunReceding
      <3>4. n \in Nat \ {0} /\ n <= problem.hours - answer.hour
        <4>1. problem.hours \in Nat /\ answer.hour \in Nat
          BY <3>1 DEF IsRun, RunInv
        <4> QED BY <3>1, <3>3, <4>1 DEF Smaller
      <3> HIDE DEF n
      <3>5. forecast \in [1..n -> Nat]
        BY <3>1 DEF IsRun
      <3>6. RunInv(problem, answer')
        BY <3>1, <3>2, <3>3, <3>4, <3>5, RecedingKeepsUp
      <3> QED BY <2>1, <2>3, <3>6 DEF DeadlineInv
    <2>4. CASE kind = "epochs"
      <3>1. TrainEpoch /\ EpochsInv(problem, answer) /\ IsEpochs(problem)
        BY <1>2, <2>1, <2>4, OwnAction, QuestionTypes DEF DeadlineInv
      <3>2. PICK intensity \in problem.intensities :
              /\ InTime(problem, answer.hour)
              /\ answer' = EpochHour(problem, answer, intensity)
        BY <3>1 DEF TrainEpoch
      <3>3. intensity \in Nat
        BY <3>1 DEF IsEpochs
      <3>4. EpochsInv(problem, answer')
        BY <3>1, <3>2, <3>3, EpochHourRan, EpochsStep
      <3> QED BY <2>1, <2>4, <3>4 DEF DeadlineInv
    <2>5. CASE kind = "episode"
      <3>1. EpisodeInv(problem, answer) /\ IsEpisode(problem)
        BY <2>1, <2>5, QuestionTypes DEF DeadlineInv
      <3>2. EpisodeInv(problem, answer')
        <4>1. CASE ActEpisode
          BY <3>1, <4>1, EpisodeStep DEF ActEpisode
        <4>2. CASE ResetEpisode
          BY <3>1, <4>2, EpisodeStarts DEF ResetEpisode
        <4> QED BY <1>2, <2>5, <4>1, <4>2, OwnAction
      <3> QED BY <2>1, <2>5, <3>2 DEF DeadlineInv
    <2>6. CASE kind \notin {"greedy", "receding", "epochs", "episode"}
      BY <2>1, <2>6 DEF DeadlineInv
    <2> QED BY <2>2, <2>3, <2>4, <2>5, <2>6
  <1> QED BY <1>1, <1>2

(* A deadline that can be met is met, whatever the forecasts of the receding- *)
(* horizon controller and the intensities of the greedy policy; the epoch     *)
(* drivers keep to theirs but for one epoch and never emit more for deferring *)
(* or throttling; an episode overruns its budget by one tick at most and its  *)
(* projection hides no miss (exp_online_deadline.py:150-276,                  *)
(* exp_endtoend_full_stack.py:232-351, rl_env.py:134-183).                    *)
THEOREM DeadlinesKept == Spec => []DeadlinesAreKept
  <1>1. DeadlineInv => DeadlinesAreKept
    <2>1. EpochsInv(problem, answer) => EpochsAreKept(problem, answer)
      BY DEF EpochsInv
    <2>2. EpisodeInv(problem, answer) => EpisodeIsHonest(problem, answer)
      BY DEF EpisodeInv
    <2>3. RunInv(problem, answer) => (Reachable(problem) => StillReachable(problem, answer))
      BY DEF RunInv
    <2> QED BY <2>1, <2>2, <2>3 DEF DeadlineInv, DeadlinesAreKept
  <1> QED BY <1>1, DeadlineInvInit, DeadlineInvNext, PTL DEF Spec

-----------------------------------------------------------------------------
(* The steering policies and the service, each by its own action.             *)

SteeringInv ==
  /\ ProblemInv
  /\ kind = "mpc" =>
       /\ asked \in 0..1
       /\ asked > 0 => answer = MPCDecide(problem, problem.forecast, problem.cur)
  /\ kind = "dual" => DualInv(problem, answer)
  /\ kind = "service" => ServiceInv(problem, answer)

LEMMA SteeringTypes ==
  ASSUME ProblemInv
  PROVE  /\ kind = "mpc" => IsForecast(problem)
         /\ kind = "dual" => IsDual(problem)
         /\ kind = "service" => IsService(problem)
  BY SteeringAssumption DEF ProblemInv

LEMMA SteeringInvInit == Init => SteeringInv
  <1> SUFFICES ASSUME Init PROVE SteeringInv
    OBVIOUS
  <1>1. ProblemInv /\ asked = 0 /\ answer = FirstAnswer(kind, problem)
    BY DEF Init, ProblemInv
  <1>2. CASE kind = "dual"
    <2>1. answer = [lambda |-> 0, debt |-> 0]
      BY <1>1, <1>2 DEF FirstAnswer
    <2>2. DualInv(problem, answer)
      BY <1>1, <1>2, <2>1, SteeringTypes, DualBegins
    <2> QED BY <1>1, <1>2, <2>2 DEF SteeringInv
  <1>3. CASE kind = "service"
    <2>1. answer = ServiceBegins
      BY <1>1, <1>3 DEF FirstAnswer
    <2> QED BY <1>1, <1>3, <2>1, ServiceBeginsWell DEF SteeringInv
  <1>4. CASE kind \notin {"dual", "service"}
    BY <1>1, <1>4 DEF SteeringInv
  <1> QED BY <1>2, <1>3, <1>4

LEMMA SteeringInvNext == SteeringInv /\ [Next]_vars => SteeringInv'
  <1> SUFFICES ASSUME SteeringInv, [Next]_vars PROVE SteeringInv'
    OBVIOUS
  <1>1. CASE UNCHANGED vars
    BY <1>1 DEF SteeringInv, ProblemInv, vars
  <1>2. CASE Next
    <2>1. kind' = kind /\ problem' = problem /\ ProblemInv /\ ProblemInv'
      BY <1>2, OwnAction DEF SteeringInv, ProblemInv
    <2>2. CASE kind = "mpc"
      <3>1. SteerMPC
        BY <1>2, <2>2, OwnAction
      <3>2. asked' = 1 /\ answer' = MPCDecide(problem, problem.forecast, problem.cur)
        BY <3>1 DEF SteerMPC, Once
      <3> QED BY <2>1, <2>2, <3>2 DEF SteeringInv
    <2>3. CASE kind = "dual"
      <3>1. SteerDual /\ DualInv(problem, answer) /\ IsDual(problem)
        BY <1>2, <2>1, <2>3, OwnAction, SteeringTypes DEF SteeringInv
      <3>2. PICK intensity \in problem.intensities :
              answer' = AfterDual(problem, answer, PrimalChoice(problem, answer.lambda, intensity))
        BY <3>1 DEF SteerDual, AfterDual
      <3>3. DualInv(problem, answer')
        BY <3>1, <3>2, DualInvNext
      <3> QED BY <2>1, <2>3, <3>3 DEF SteeringInv
    <2>4. CASE kind = "service"
      <3>1. ServiceInv(problem, answer) /\ IsService(problem)
        BY <2>1, <2>4, SteeringTypes DEF SteeringInv
      <3>2. ServiceInv(problem, answer')
        <4>1. CASE SubmitJob
          BY <3>1, <4>1, SubmitStep DEF SubmitJob
        <4>2. CASE TickService
          BY <3>1, <4>2, TickStep DEF TickService
        <4> QED BY <1>2, <2>4, <4>1, <4>2, OwnAction
      <3> QED BY <2>1, <2>4, <3>2 DEF SteeringInv
    <2>5. CASE kind \notin {"mpc", "dual", "service"}
      BY <2>1, <2>5 DEF SteeringInv
    <2> QED BY <2>2, <2>3, <2>4, <2>5
  <1> QED BY <1>1, <1>2

(* No steering policy runs away: the width that MPC chose is the one it holds *)
(* under the same forecast; primal-dual decisions fall behind an attainable   *)
(* target by no more than a fixed amount over any stretch; and the first      *)
(* service scales every job back up after dirty hours, leaves the paused ones *)
(* alike and parallelises each in the fastest way (policy.py:183-190,         *)
(* 361-366, control_loop.py:47-73, planner.py:24-49).                         *)
THEOREM PoliciesAreSteady == Spec => []SteeringIsSteady
  <1>1. SteeringInv => SteeringIsSteady
    <2> SUFFICES ASSUME SteeringInv PROVE SteeringIsSteady
      OBVIOUS
    <2>1. ProblemInv
      BY DEF SteeringInv
    <2>2. kind = "mpc" /\ asked > 0 => MPCDecide(problem, problem.forecast, answer) = answer
      BY <2>1, SteeringTypes, MPCHolds DEF SteeringInv
    <2>3. ASSUME kind = "dual", Attainable(problem)
          PROVE  \E dirtiest \in problem.intensities :
                   /\ \A b \in problem.intensities : b <= dirtiest
                   /\ problem.eta * answer.debt <= DebtBound(problem, dirtiest)
      <3>1. IsDual(problem) /\ DualInv(problem, answer)
        BY <2>1, <2>3, SteeringTypes DEF SteeringInv
      <3>2. PICK dirtiest \in problem.intensities :
              /\ \A b \in problem.intensities : b <= dirtiest
              /\ answer.lambda <= DebtBound(problem, dirtiest)
        BY <2>3, <3>1 DEF DualInv
      <3>3. DebtBound(problem, dirtiest) \in Nat
        <4>1. /\ dirtiest \in Nat /\ SteepestCost(problem) \in Nat
              /\ problem.eta \in Nat /\ problem.target \in Nat
          BY <3>1, SteepestCovers DEF IsDual
        <4>2. dirtiest * SteepestCost(problem) \in Nat /\ problem.eta * problem.target \in Nat
          <5>1. dirtiest * SteepestCost(problem) \in Nat
            BY <4>1, Distributes, Zenon
          <5>2. problem.eta * problem.target \in Nat
            BY <4>1, Distributes, Zenon
          <5> QED BY <5>1, <5>2
        <4> QED BY <4>2 DEF DebtBound
      <3>4. problem.eta * answer.debt \in Nat /\ answer.lambda \in Nat
        <4>1. problem.eta \in Nat /\ answer.debt \in Nat /\ answer.lambda \in Nat
          BY <3>1 DEF IsDual, DualInv
        <4>2. problem.eta * answer.debt \in Nat
          BY <4>1, Distributes, Zenon
        <4> QED BY <4>1, <4>2
      <3>5. problem.eta * answer.debt <= answer.lambda
        BY <3>1 DEF DualInv
      <3>6. problem.eta * answer.debt <= DebtBound(problem, dirtiest)
        BY <3>2, <3>3, <3>4, <3>5
      <3> QED BY <3>2, <3>6
    <2>4. kind = "service" => ServiceRecovers(problem, answer)
      BY <2>1, SteeringTypes, ServiceIsRecovering DEF SteeringInv
    <2> QED BY <2>2, <2>3, <2>4 DEF SteeringIsSteady
  <1> QED BY <1>1, SteeringInvInit, SteeringInvNext, PTL DEF Spec

-----------------------------------------------------------------------------
(* The emissions of an estimate, slice by slice.                              *)

LEMMA DistributesSum ==
  ASSUME NEW a \in Nat, NEW b \in Nat, NEW c \in Nat
  PROVE  a * (b + c) = a * b + a * c
  OBVIOUS

LEMMA SliceIs ==
  ASSUME NEW e, IsEstimate(e), NEW k \in Slices(e)
  PROVE  LET t == IF k * e.step <= e.duration THEN e.step ELSE e.duration % e.step
         IN  k \in Nat \ {0} /\ t \in Nat /\ Slice(e, k) = t
  <1> PICK s \in Nat \ {0}, d \in Nat : s = e.step /\ d = e.duration
    BY DEF IsEstimate
  <1>1. k \in Nat \ {0} /\ k <= (d + s - 1) \div s
    BY DEF Slices
  <1> PICK q \in Nat : q = (d + s - 1) \div s /\ q * s <= d + s - 1
    <2> PICK x \in Nat : x = d + s - 1
      OBVIOUS
    <2>1. x \div s \in Nat /\ x % s \in 0..(s - 1) /\ x = (x \div s) * s + (x % s)
          /\ (x \div s) * s \in Nat
      BY DivisionFacts
    <2> QED BY <2>1
  <1> PICK j \in Nat : k = j + 1
    <2>1. k - 1 \in Nat /\ k = (k - 1) + 1
      BY <1>1
    <2> QED BY <2>1
  <1>2. j * s \in Nat /\ j * s + s <= q * s /\ q * s \in Nat
    <2> PICK y \in Nat : q = j + 1 + y
      <3>1. q - (j + 1) \in Nat /\ q = j + 1 + (q - (j + 1))
        BY <1>1
      <3> QED BY <3>1
    <2>1. j * s \in Nat /\ y * s \in Nat
      OBVIOUS
    <2>2. (j + 1 + y) * s = j * s + s + y * s
      OBVIOUS
    <2> QED BY <2>1, <2>2
  <1> PICK left \in Nat : left = d - j * s
    BY <1>2
  <1>3. Slice(e, k) = IF left < s THEN left ELSE s
    BY DEF Slice
  <1>4. k * s = j * s + s
    <2>1. (j + 1) * s = j * s + s
      BY NextMultiple, s \in Nat
    <2> QED BY <2>1
  <1>5. CASE k * s <= d
    BY <1>2, <1>3, <1>4, <1>5, <1>1
  <1>6. CASE ~(k * s <= d)
    <2>1. left \in 0..(s - 1) /\ d = j * s + left
      BY <1>2, <1>4, <1>6
    <2>2. (j * s + left) % s = left
      <3>1. j \in Nat /\ s \in Nat \ {0} /\ left \in 0..(s - 1)
        BY <2>1
      <3> QED BY ONLY <3>1, DivisionIs, Zenon
    <2>3. d % s = left
      BY <2>1, <2>2
    <2> QED BY <1>3, <1>1, <1>6, <2>1, <2>3
  <1> QED BY <1>5, <1>6

\* Only the fraction of an iteration is lost: what is billed, q iterations, and
\* what the energy of the whole slice would be.
BilledOf(en, f, q) == (en * q) * f
WholeOf(en, r, t, f) == ((en * r) * t) * f
Loses(en, r, t, f, per, q) ==
  /\ BilledOf(en, f, q) \in Nat /\ WholeOf(en, r, t, f) \in Nat /\ (en * per) * f \in Nat
  /\ per * BilledOf(en, f, q) <= WholeOf(en, r, t, f)
  /\ WholeOf(en, r, t, f) <= per * BilledOf(en, f, q) + (en * per) * f
  /\ (en * per) * f > 0 => WholeOf(en, r, t, f) < per * BilledOf(en, f, q) + (en * per) * f
  /\ (en * per) * f = 0 => WholeOf(en, r, t, f) = per * BilledOf(en, f, q)

LEMMA SliceRounds ==
  ASSUME NEW en \in Nat, NEW r \in Nat, NEW t \in Nat, NEW f \in Nat, NEW per \in Nat \ {0},
         NEW q, q = (r * t) \div per
  PROVE  Loses(en, r, t, f, per, q)
  <1> PICK w \in Nat, x \in Nat : w = en * f /\ x = r * t
    <2>1. en * f \in Nat /\ r * t \in Nat
      OBVIOUS
    <2> QED BY <2>1
  <1> PICK m \in Nat : q \in Nat /\ x = q * per + m /\ m <= per - 1 /\ q * per \in Nat
    <2>1. q \in Nat /\ q * per \in Nat /\ x % per \in 0..(per - 1) /\ x = q * per + (x % per)
      BY DivisionFacts, Zenon
    <2> QED BY <2>1
  <1>1. (en * q) * f = w * q /\ per * ((en * q) * f) = w * (q * per) /\ (en * per) * f = w * per
    <2>1. /\ (en * q) * f = (en * f) * q /\ per * ((en * q) * f) = (en * f) * (q * per)
          /\ (en * per) * f = (en * f) * per
      OBVIOUS
    <2> QED BY <2>1
  <1>2. ((en * r) * t) * f = w * x
    <2>1. ((en * r) * t) * f = (en * f) * (r * t)
      OBVIOUS
    <2> QED BY <2>1
  <1>3. w * (q * per + m) = w * (q * per) + w * m
    <2>1. w \in Nat /\ q * per \in Nat /\ m \in Nat
      OBVIOUS
    <2> QED BY ONLY <2>1, DistributesSum, Zenon
  <1>4. w * m \in Nat /\ w * per \in Nat /\ w * (q * per) \in Nat /\ w * q \in Nat
    OBVIOUS
  <1>5. w * m + w <= w * per
    <2> PICK y \in Nat : per = m + 1 + y
      <3>1. per - (m + 1) \in Nat /\ per = m + 1 + (per - (m + 1))
        OBVIOUS
      <3> QED BY <3>1
    <2>1. w * (m + 1 + y) = w * m + w + w * y /\ w * y \in Nat
      OBVIOUS
    <2> QED BY <2>1
  <1>6. w * x = w * (q * per) + w * m
    BY <1>3, Zenon
  <1>7. w = 0 => w * m = 0 /\ w * per = 0
    OBVIOUS
  <1>8. w > 0 => w * per > 0
    <2>1. ASSUME w > 0 PROVE w * per >= w
      BY <1>5, <1>4
    <2> QED BY <2>1, <1>4
  <1> QED BY <1>1, <1>2, <1>4, <1>5, <1>6, <1>7, <1>8 DEF Loses, BilledOf, WholeOf

LEMMA SumLess ==
  ASSUME NEW S, IsFiniteSet(S), NEW f, NEW g, NEW y \in S,
         \A x \in S : f[x] \in Int /\ g[x] \in Int /\ f[x] <= g[x],
         f[y] < g[y]
  PROVE  SumFunctionOnSet(f, S) < SumFunctionOnSet(g, S)
  <1>1. /\ SumFunctionOnSet(f, S) = f[y] + SumFunctionOnSet(f, S \ {y})
        /\ SumFunctionOnSet(g, S) = g[y] + SumFunctionOnSet(g, S \ {y})
    BY SumWithout
  <1>2. IsFiniteSet(S \ {y})
    BY RemovalShrinks
  <1>3. /\ SumFunctionOnSet(f, S \ {y}) \in Int /\ SumFunctionOnSet(g, S \ {y}) \in Int
        /\ SumFunctionOnSet(f, S \ {y}) <= SumFunctionOnSet(g, S \ {y})
    BY <1>2, SumType, SumMonotone
  <1> QED BY <1>1, <1>3

(* The carbon of an admission estimate misses less than an iteration a slice. *)
LEMMA EstimateIsClose ==
  ASSUME NEW e, IsEstimate(e)
  PROVE  EmissionsAreClose(e, Emissions(e))
  <1> DEFINE S == Slices(e)
             length(k) == IF k * e.step <= e.duration THEN e.step ELSE e.duration % e.step
             est == [k \in S |-> SliceEnergy(e, k) * e.forecast[k]]
             exact == [k \in S |->
               LET t == IF k * e.step <= e.duration THEN e.step ELSE e.duration % e.step
               IN  IF e.profiled THEN e.energy * e.rate * t * e.forecast[k]
                                 ELSE e.per * e.power * t * e.forecast[k]]
             slack == [k \in S |-> e.energy * e.per * e.forecast[k]]
             scaled == [k \in S |-> e.per * est[k]]
             above == [k \in S |-> scaled[k] + slack[k]]
  <1>1. /\ e.rate \in Nat /\ e.energy \in Nat /\ e.power \in Nat /\ e.duration \in Nat
        /\ e.per \in Nat \ {0} /\ e.step \in Nat \ {0} /\ e.profiled \in BOOLEAN
    BY DEF IsEstimate
  <1>2. CASE e.forecast = <<>>
    BY <1>2 DEF EmissionsAreClose, Emissions
  <1>3. CASE e.forecast # <<>>
    <2>1. IsFiniteSet(S) /\ \A k \in S : e.forecast[k] \in Nat
      <3>1. S \subseteq DOMAIN e.forecast /\ e.forecast \in Seq(Nat)
        BY <1>3 DEF IsEstimate
      <3>2. IsFiniteSet(S)
        <4>1. (e.duration + e.step - 1) \div e.step \in Nat
          <5>1. e.duration + e.step - 1 \in Nat
            BY <1>1
          <5> QED BY ONLY <5>1, <1>1, DivisionFacts, Zenon
        <4> QED BY <4>1, FS_Interval DEF Slices
      <3> QED BY <3>1, <3>2
    <2>2. ASSUME NEW k \in S
          PROVE  /\ {est[k], exact[k], slack[k], scaled[k], above[k]} \subseteq Nat
                 /\ scaled[k] = e.per * est[k]
                 /\ above[k] = scaled[k] + slack[k]
                 /\ scaled[k] <= exact[k]
                 /\ ~e.profiled \/ slack[k] = 0 => exact[k] = scaled[k]
                 /\ e.profiled => exact[k] <= above[k]
                 /\ e.profiled /\ slack[k] > 0 => exact[k] < above[k]
      <3> PICK t \in Nat, f \in Nat : t = length(k) /\ f = e.forecast[k] /\ Slice(e, k) = t
        BY <2>1, SliceIs
      <3> PICK en \in Nat, r \in Nat, w \in Nat, per \in Nat \ {0} :
            en = e.energy /\ r = e.rate /\ w = e.power /\ per = e.per
        BY <1>1
      <3>1. slack[k] = (en * per) * f /\ scaled[k] = per * est[k] /\ above[k] = scaled[k] + slack[k]
        OBVIOUS
      <3>2. CASE e.profiled
        <4> PICK q : q = (r * t) \div per
          OBVIOUS
        <4>1. est[k] = BilledOf(en, f, q) /\ exact[k] = WholeOf(en, r, t, f)
          BY <3>2 DEF SliceEnergy, BilledOf, WholeOf
        <4> HIDE DEF est, exact, slack, scaled, above
        <4>2. Loses(en, r, t, f, per, q)
          <5>1. /\ en \in Nat /\ r \in Nat /\ t \in Nat /\ f \in Nat /\ per \in Nat \ {0}
                /\ q = (r * t) \div per
            OBVIOUS
          <5> QED BY ONLY <5>1, SliceRounds, Zenon
        <4>3. per * est[k] \in Nat
          BY <4>1, <4>2 DEF Loses
        <4> QED BY <3>1, <3>2, <4>1, <4>2, <4>3 DEF Loses
      <3>3. CASE ~e.profiled
        <4>1. est[k] = (w * t) * f /\ exact[k] = ((per * w) * t) * f
          BY <3>3 DEF SliceEnergy
        <4> HIDE DEF est, exact, slack, scaled, above
        <4>2. (w * t) * f \in Nat /\ (en * per) * f \in Nat
          OBVIOUS
        <4>3. ((per * w) * t) * f = per * ((w * t) * f) /\ per * ((w * t) * f) \in Nat
          OBVIOUS
        <4> QED BY <3>1, <3>3, <4>1, <4>2, <4>3
      <3> QED BY <1>1, <3>2, <3>3
    <2> DEFINE Sum(x) == SumFunctionOnSet(x, S)
    <2> HIDE DEF est, exact, slack, scaled, above
    <2>3. Sum(scaled) = e.per * Sum(est) /\ Sum(est) \in Nat
      <3>1. e.per \in Int
        BY <1>1
      <3> QED BY <2>1, <2>2, <3>1, SumTimes, SumBounds
    <2>4. Sum(scaled) <= Sum(exact) /\ Sum(scaled) \in Int /\ Sum(exact) \in Int /\ Sum(slack) \in Nat
      BY <2>1, <2>2, SumMonotone, SumType, SumBounds
    <2>5. Sum(above) = Sum(scaled) + Sum(slack)
      BY <2>1, <2>2, SumPlus
    <2>6. ~e.profiled \/ Sum(slack) = 0 => Sum(exact) = Sum(scaled)
      <3>1. ASSUME ~e.profiled \/ Sum(slack) = 0, NEW k \in S
            PROVE  exact[k] = scaled[k] /\ scaled[k] \in Int
        <4>1. Sum(slack) = 0 => slack[k] = 0
          BY <2>1, <2>2, SumBounds
        <4> QED BY <2>2, <3>1, <4>1
      <3> QED BY <2>1, <3>1, SumSame
    <2>7. e.profiled /\ Sum(slack) > 0 => Sum(exact) < Sum(above)
      <3> SUFFICES ASSUME e.profiled, Sum(slack) > 0 PROVE Sum(exact) < Sum(above)
        OBVIOUS
      <3>1. PICK k \in S : slack[k] > 0
        <4> SUFFICES ASSUME \A k \in S : ~(slack[k] > 0) PROVE FALSE
          OBVIOUS
        <4>1. \A k \in S : slack[k] = 0
          BY <2>2
        <4>2. Sum(slack) = 0 * Cardinality(S)
          BY <2>1, <4>1, SumConstant
        <4>3. Cardinality(S) \in Nat
          BY <2>1, FS_CardinalityType
        <4> QED BY <4>2, <4>3
      <3>2. \A x \in S : exact[x] \in Int /\ above[x] \in Int /\ exact[x] <= above[x]
        BY <2>2
      <3>3. exact[k] < above[k]
        BY <2>2, <3>1
      <3> QED BY <2>1, <3>1, <3>2, <3>3, SumLess
    <2>8. Emissions(e) = Sum(est)
      BY <1>3 DEF Emissions, SumFunction, est
    <2>9. SumFunction(exact) = Sum(exact) /\ SumFunction(slack) = Sum(slack)
      BY DEF SumFunction, exact, slack
    <2>10. /\ e.per * Sum(est) <= Sum(exact)
           /\ IF e.profiled /\ Sum(slack) > 0 THEN Sum(exact) < e.per * Sum(est) + Sum(slack)
                                               ELSE Sum(exact) = e.per * Sum(est)
      BY <1>1, <2>3, <2>4, <2>5, <2>6, <2>7
    <2>11. EmissionsAreClose(e, Emissions(e)) <=>
             /\ e.per * Emissions(e) <= SumFunction(exact)
             /\ IF e.profiled /\ SumFunction(slack) > 0
                THEN SumFunction(exact) < e.per * Emissions(e) + SumFunction(slack)
                ELSE SumFunction(exact) = e.per * Emissions(e)
      BY <1>3 DEF EmissionsAreClose, exact, slack
    <2> HIDE DEF Sum
    <2> QED BY <2>8, <2>9, <2>10, <2>11
  <1> QED BY <1>2, <1>3

-----------------------------------------------------------------------------
(* Lookups.                                                                   *)

LEMMA SampleTypes ==
  ASSUME NEW series \in Seq([t : Int, v : Int]), NEW k \in 1..Len(series)
  PROVE  series[k].t \in Int /\ series[k].v \in Int
  <1>1. series[k] \in [t : Int, v : Int]
    BY ElementOfSeq, Zenon
  <1> QED BY ONLY <1>1

LEMMA SeriesTypes ==
  ASSUME NEW series \in Seq([t : Int, v : Int]), series # <<>>
  PROVE  /\ Len(series) \in Nat \ {0} /\ DOMAIN series = 1..Len(series)
         /\ \A k \in 1..Len(series) : series[k].t \in Int /\ series[k].v \in Int
  <1>1. Len(series) \in Nat /\ DOMAIN series = 1..Len(series)
    OBVIOUS
  <1>2. Len(series) # 0
    OBVIOUS
  <1>3. \A k \in 1..Len(series) : series[k].t \in Int /\ series[k].v \in Int
    BY SampleTypes, Zenon
  <1> QED BY <1>1, <1>2, <1>3, Zenon

\* The axes of a series that is asked for a time.
Axes(p, n, T, V) ==
  /\ n \in Nat \ {0} /\ T \in [1..n -> Int] /\ V \in [1..n -> Int] /\ p.at \in Int
  /\ Len(p.series) = n /\ DOMAIN p.series = 1..n
  /\ \A k \in 1..n : p.series[k].t = T[k] /\ p.series[k].v = V[k]
  /\ \A k, l \in 1..n : k <= l => T[k] <= T[l]
  /\ \A k \in 2..n : T[1] < T[k]

LEMMA HasAxes ==
  ASSUME NEW p, IsLookup(p)
  PROVE  \E n, T, V : Axes(p, n, T, V)
  <1> DEFINE n == Len(p.series)
             T == [k \in 1..n |-> p.series[k].t]
             V == [k \in 1..n |-> p.series[k].v]
  <1>1. /\ n \in Nat \ {0} /\ DOMAIN p.series = 1..n
        /\ \A k \in 1..n : p.series[k].t \in Int /\ p.series[k].v \in Int
    BY SeriesTypes, Zenon DEF IsLookup
  <1>2. T \in [1..n -> Int] /\ V \in [1..n -> Int]
    BY <1>1, Zenon
  <1>3. \A k, l \in 1..n : k <= l => T[k] <= T[l]
    BY <1>1, Zenon DEF IsLookup
  <1>4. \A k \in 2..n : T[1] < T[k]
    <2>1. \A k \in 2..n : k \in DOMAIN p.series \ {1} /\ k \in 1..n /\ 1 \in 1..n
      BY <1>1
    <2> QED BY <2>1, Zenon DEF IsLookup
  <1> HIDE DEF n, T, V
  <1>5. Axes(p, n, T, V)
    <2>1. p.at \in Int
      BY DEF IsLookup
    <2>2. Len(p.series) = n /\ \A k \in 1..n : p.series[k].t = T[k] /\ p.series[k].v = V[k]
      BY Zenon DEF n, T, V
    <2> QED BY <1>1, <1>2, <1>3, <1>4, <2>1, <2>2, Zenon DEF Axes
  <1> QED BY <1>5

LookupFits(n, T, V, t, value) ==
  /\ value.den > 0
  /\ \A k \in 1..n : \A l \in {k + 1} \intersect (1..n) :
       T[k] <= t /\ t < T[l] =>
         (value.num - V[k] * value.den) * (T[l] - T[k]) = value.den * (V[l] - V[k]) * (t - T[k])
  /\ t < T[1] => value.num = V[1] * value.den
  /\ t >= T[n] => value.num = V[n] * value.den

LEMMA FitsIsRight ==
  ASSUME NEW p, NEW n, NEW T, NEW V, Axes(p, n, T, V), NEW value, LookupFits(n, T, V, p.at, value)
  PROVE  LookupIsRight(p.series, p.at, value)
  <1>1. 1 \in 1..n /\ n \in 1..n /\ Len(p.series) = n /\ DOMAIN p.series = 1..n
    BY DEF Axes
  <1>2. \A k \in 1..n : p.series[k].t = T[k] /\ p.series[k].v = V[k]
    BY Zenon DEF Axes
  <1>3. /\ p.series[1].t = T[1] /\ p.series[1].v = V[1]
        /\ p.series[Len(p.series)].t = T[n] /\ p.series[Len(p.series)].v = V[n]
    BY <1>1, <1>2, Zenon
  <1>4. \A k \in DOMAIN p.series : \A l \in {k + 1} \intersect DOMAIN p.series :
         p.series[k].t <= p.at /\ p.at < p.series[l].t =>
           (value.num - p.series[k].v * value.den) * (p.series[l].t - p.series[k].t)
             = value.den * (p.series[l].v - p.series[k].v) * (p.at - p.series[k].t)
    <2> SUFFICES ASSUME NEW k \in 1..n, NEW l \in {k + 1} \intersect (1..n),
                        p.series[k].t <= p.at, p.at < p.series[l].t
                 PROVE  (value.num - p.series[k].v * value.den) * (p.series[l].t - p.series[k].t)
                          = value.den * (p.series[l].v - p.series[k].v) * (p.at - p.series[k].t)
      BY <1>1, Zenon
    <2>1. /\ p.series[k].t = T[k] /\ p.series[k].v = V[k]
          /\ p.series[l].t = T[l] /\ p.series[l].v = V[l]
      BY <1>2, Zenon
    <2>2. T[k] <= p.at /\ p.at < T[l] =>
            (value.num - V[k] * value.den) * (T[l] - T[k]) = value.den * (V[l] - V[k]) * (p.at - T[k])
      BY Zenon DEF LookupFits
    <2> QED BY <2>1, <2>2, Zenon
  <1> QED BY <1>3, <1>4, Zenon DEF LookupIsRight, LookupFits

LEMMA LineFits ==
  ASSUME NEW a \in Int, NEW b \in Int, NEW c \in Int, NEW d \in Int
  PROVE  ((a * b + c * d) - a * b) * b = b * d * c
  OBVIOUS

Brackets(n, T, t, k) == k \in 1..(n - 1) /\ T[k] <= t /\ t < T[k + 1]

LEMMA BracketIsOnly ==
  ASSUME NEW p, NEW n, NEW T, NEW V, Axes(p, n, T, V), NEW k, Brackets(n, T, p.at, k)
  PROVE  /\ k \in 1..n /\ k + 1 \in 1..n /\ T[1] <= p.at /\ p.at < T[n]
         /\ \A i \in 1..n : \A l \in {i + 1} \intersect (1..n) :
              T[i] <= p.at /\ p.at < T[l] => i = k /\ l = k + 1
  <1> PICK t \in Int : t = p.at
    BY DEF Axes
  <1>1. /\ n \in Nat \ {0} /\ T \in [1..n -> Int]
        /\ \A i, j \in 1..n : i <= j => T[i] <= T[j]
    BY DEF Axes
  <1>2. k \in 1..n /\ k + 1 \in 1..n /\ T[k] <= t /\ t < T[k + 1] /\ 1 \in 1..n /\ n \in 1..n
    BY <1>1 DEF Brackets
  <1>3. \A i \in 1..n : T[i] \in Int
    BY <1>1
  <1>4. T[1] <= T[k] /\ T[k + 1] <= T[n]
    <2>1. 1 <= k /\ k + 1 <= n
      BY <1>1, <1>2
    <2> QED BY <1>1, <1>2, <2>1
  <1>5. ASSUME NEW i \in 1..n, i + 1 \in 1..n, T[i] <= t, t < T[i + 1]
        PROVE  i = k
    <2>1. i < k => T[i + 1] <= T[k]
      <3>1. i < k => i + 1 <= k
        BY <1>1, <1>2
      <3> QED BY <1>1, <1>2, <1>5, <3>1
    <2>2. k < i => T[k + 1] <= T[i]
      <3>1. k < i => k + 1 <= i
        BY <1>1, <1>2
      <3> QED BY <1>1, <1>2, <1>5, <3>1
    <2>3. T[i] \in Int /\ T[i + 1] \in Int /\ T[k] \in Int /\ T[k + 1] \in Int
      BY <1>2, <1>3, <1>5
    <2>4. ~(i < k) /\ ~(k < i)
      BY <1>2, <1>5, <2>1, <2>2, <2>3
    <2> QED BY <1>1, <1>2, <2>4
  <1>6. T[1] <= t /\ t < T[n]
    <2>1. T[1] \in Int /\ T[k] \in Int /\ T[k + 1] \in Int /\ T[n] \in Int
      BY <1>2, <1>3
    <2> QED BY <1>2, <1>4, <2>1
  <1>7. \A i \in 1..n : \A l \in {i + 1} \intersect (1..n) :
          T[i] <= t /\ t < T[l] => i = k /\ l = k + 1
    <2>1. \A i \in 1..n : \A l \in {i + 1} \intersect (1..n) : l = i + 1 /\ i + 1 \in 1..n
      BY Zenon
    <2> QED BY <1>5, <2>1, Zenon
  <1> QED BY <1>2, <1>6, <1>7, Zenon

LEMMA LineIsRight ==
  ASSUME NEW p, NEW n, NEW T, NEW V, Axes(p, n, T, V), NEW k, Brackets(n, T, p.at, k)
  PROVE  LookupIsRight(p.series, p.at, Between(p.series[k], p.series[k + 1], p.at))
  <1> PICK t \in Int : t = p.at
    BY DEF Axes
  <1>1. /\ k \in 1..n /\ k + 1 \in 1..n /\ T[1] <= t /\ t < T[n]
        /\ \A i \in 1..n : \A l \in {i + 1} \intersect (1..n) :
              T[i] <= t /\ t < T[l] => i = k /\ l = k + 1
    BY BracketIsOnly, Zenon
  <1>2. /\ n \in Nat \ {0} /\ 1 \in 1..n /\ n \in 1..n
        /\ \A i \in 1..n : T[i] \in Int /\ V[i] \in Int
    BY DEF Axes
  <1> DEFINE value == Between(p.series[k], p.series[k + 1], p.at)
  <1> PICK a \in Int, b \in Int, c \in Int, d \in Int :
        a = V[k] /\ b = T[k + 1] - T[k] /\ c = t - T[k] /\ d = V[k + 1] - V[k]
    <2>1. {V[k], V[k + 1], T[k], T[k + 1]} \subseteq Int
      BY <1>1, <1>2
    <2> QED BY <2>1
  <1>3. value.num = a * b + c * d /\ value.den = b
    <2>1. /\ p.series[k].t = T[k] /\ p.series[k].v = V[k]
          /\ p.series[k + 1].t = T[k + 1] /\ p.series[k + 1].v = V[k + 1]
      BY <1>1, Zenon DEF Axes
    <2> QED BY <2>1 DEF Between
  <1>4. b > 0
    <2>1. T[k] <= t /\ t < T[k + 1] /\ T[k] \in Int /\ T[k + 1] \in Int
      BY <1>1, <1>2 DEF Brackets
    <2> QED BY <2>1
  <1>5. ((a * b + c * d) - a * b) * b = b * d * c
    <2>1. a \in Int /\ b \in Int /\ c \in Int /\ d \in Int
      OBVIOUS
    <2> QED BY ONLY <2>1, LineFits
  <1>6. (value.num - V[k] * value.den) * (T[k + 1] - T[k])
          = value.den * (V[k + 1] - V[k]) * (t - T[k])
    BY <1>3, <1>5, Zenon
  <1>7. ~(t < T[1]) /\ ~(t >= T[n])
    <2>1. T[1] \in Int /\ T[n] \in Int
      BY <1>2
    <2> QED BY <1>1, <2>1
  <1> HIDE DEF value
  <1>8. value.den > 0
    BY <1>3, <1>4
  <1>9. LookupFits(n, T, V, t, value)
    BY <1>1, <1>6, <1>7, <1>8, Zenon DEF LookupFits
  <1>10. LookupIsRight(p.series, p.at, value)
    BY <1>9, FitsIsRight, Zenon
  <1> QED BY <1>10 DEF value

LEMMA FirstIsRight ==
  ASSUME NEW p, NEW n, NEW T, NEW V, Axes(p, n, T, V), p.at <= p.series[1].t
  PROVE  LookupIsRight(p.series, p.at, Exactly(p.series[1].v))
  <1> PICK t \in Int : t = p.at
    BY DEF Axes
  <1>1. /\ n \in Nat \ {0} /\ 1 \in 1..n /\ n \in 1..n
        /\ \A i \in 1..n : T[i] \in Int /\ V[i] \in Int
        /\ \A i \in 2..n : T[1] < T[i]
    BY DEF Axes
  <1>2. p.series[1].t = T[1] /\ p.series[1].v = V[1] /\ t <= T[1]
    <2>1. p.series[1].t = T[1] /\ p.series[1].v = V[1]
      BY <1>1, Zenon DEF Axes
    <2> QED BY <2>1
  <1> PICK a \in Int : a = V[1]
    BY <1>1
  <1> DEFINE value == Exactly(p.series[1].v)
  <1>3. value.num = a /\ value.den = 1 /\ value.num = a * value.den /\ value.den > 0
    BY <1>2 DEF Exactly
  <1> HIDE DEF value
  <1>4. ASSUME NEW i \in 1..n, NEW l \in {i + 1} \intersect (1..n), T[i] <= t, t < T[l]
        PROVE  (value.num - V[i] * value.den) * (T[l] - T[i]) = value.den * (V[l] - V[i]) * (t - T[i])
    <2>1. i = 1 /\ t = T[1]
      <3>1. T[1] \in Int /\ T[i] \in Int
        BY <1>1
      <3>2. i \in 2..n => FALSE
        BY <1>1, <1>2, <1>4, <3>1
      <3>3. i = 1
        BY <1>1, <3>2
      <3> QED BY <1>2, <1>4, <3>1, <3>3
    <2> PICK x \in Int, y \in Int : x = T[l] - T[i] /\ y = V[l] - V[i]
      BY <1>1
    <2>2. value.num - V[i] * value.den = 0 /\ t - T[i] = 0 /\ value.den = 1
      <3>1. a - a * 1 = 0 /\ t - t = 0
        OBVIOUS
      <3> QED BY <1>3, <2>1, <3>1, Zenon
    <2>3. 0 * x = 1 * y * 0
      OBVIOUS
    <2> QED BY <2>2, <2>3, Zenon
  <1>5. t >= T[n] => n = 1
    <2>1. n \in 2..n => T[1] < T[n] /\ T[1] \in Int /\ T[n] \in Int
      BY <1>1
    <2>2. t >= T[n] => ~(n \in 2..n)
      BY <1>2, <2>1
    <2> QED BY <1>1, <2>2
  <1>6. t < T[1] => value.num = V[1] * value.den
    BY <1>3, Zenon
  <1>7. t >= T[n] => value.num = V[n] * value.den
    BY <1>3, <1>5, Zenon
  <1>8. LookupFits(n, T, V, t, value)
    BY <1>3, <1>4, <1>6, <1>7, Zenon DEF LookupFits
  <1>9. LookupIsRight(p.series, p.at, value)
    BY <1>8, FitsIsRight, Zenon
  <1> QED BY <1>9 DEF value

LEMMA LastIsRight ==
  ASSUME NEW p, NEW n, NEW T, NEW V, Axes(p, n, T, V),
         ~(p.at <= p.series[1].t), p.at >= p.series[n].t
  PROVE  LookupIsRight(p.series, p.at, Exactly(p.series[n].v))
  <1> PICK t \in Int : t = p.at
    BY DEF Axes
  <1>1. /\ n \in Nat \ {0} /\ 1 \in 1..n /\ n \in 1..n
        /\ \A i \in 1..n : T[i] \in Int /\ V[i] \in Int
        /\ \A i, j \in 1..n : i <= j => T[i] <= T[j]
    BY DEF Axes
  <1>2. T[1] \in Int /\ T[n] \in Int /\ ~(t <= T[1]) /\ t >= T[n] /\ p.series[n].v = V[n]
    <2>1. p.series[1].t = T[1] /\ p.series[n].t = T[n] /\ p.series[n].v = V[n]
      BY <1>1, Zenon DEF Axes
    <2> QED BY <1>1, <2>1
  <1> PICK a \in Int : a = V[n]
    BY <1>1
  <1> DEFINE value == Exactly(p.series[n].v)
  <1>3. value.num = a * value.den /\ value.den > 0
    BY <1>2 DEF Exactly
  <1> HIDE DEF value
  <1>4. ASSUME NEW i \in 1..n, NEW l \in {i + 1} \intersect (1..n), T[i] <= t, t < T[l]
        PROVE  FALSE
    <2>1. l \in 1..n /\ l <= n /\ T[l] \in Int
      BY <1>1
    <2>2. T[l] <= T[n]
      BY <1>1, <2>1
    <2> QED BY <1>2, <1>4, <2>1, <2>2
  <1>5. ~(t < T[1])
    BY <1>2
  <1>6. LookupFits(n, T, V, t, value)
    BY <1>3, <1>4, <1>5, Zenon DEF LookupFits
  <1>7. LookupIsRight(p.series, p.at, value)
    BY <1>6, FitsIsRight, Zenon
  <1> QED BY <1>7 DEF value

LEMMA IntensityIsRight ==
  ASSUME NEW p, IsLookup(p)
  PROVE  LookupIsRight(p.series, p.at, IntensityAt(p.series, p.at))
  <1> DEFINE n == Len(p.series)
  <1> PICK T, V : Axes(p, n, T, V)
    <2>1. PICK m, T, V : Axes(p, m, T, V)
      BY HasAxes
    <2>2. m = n
      BY <2>1 DEF Axes
    <2> QED BY <2>1, <2>2, Zenon
  <1> PICK t \in Int : t = p.at
    BY DEF Axes
  <1>1. /\ n \in Nat \ {0} /\ Len(p.series) = n /\ 1 \in 1..n /\ n \in 1..n
        /\ \A k \in 1..n : T[k] \in Int /\ p.series[k].t = T[k]
    BY DEF Axes
  <1>2. CASE t <= p.series[1].t
    <2>1. IntensityAt(p.series, p.at) = Exactly(p.series[1].v)
      BY <1>2 DEF IntensityAt
    <2> QED BY <1>2, <2>1, FirstIsRight
  <1>3. CASE ~(t <= p.series[1].t) /\ t >= p.series[n].t
    <2>1. IntensityAt(p.series, p.at) = Exactly(p.series[n].v)
      BY <1>1, <1>3 DEF IntensityAt
    <2> QED BY <1>3, <2>1, LastIsRight
  <1>4. CASE ~(t <= p.series[1].t) /\ ~(t >= p.series[n].t)
    <2> DEFINE E == {k \in 1..n : p.series[k].t <= p.at}
               Step(f, ends) ==
                 LET lo == ends[1]  hi == ends[2]  mid == (lo + hi) \div 2 IN
                 IF lo >= hi - 1 THEN ends
                 ELSE IF p.series[mid].t <= p.at THEN f[<<mid, hi>>] ELSE f[<<lo, mid>>]
               Is(f) == f = [ends \in (1..n) \X (1..n) |-> Step(f, ends)]
               search == CHOOSE f : Is(f)
               found == search[<<1, n>>]
    <2>0. /\ ~(p.at <= p.series[1].t) /\ ~(p.at >= p.series[n].t) /\ Len(p.series) = n
      BY <1>1, <1>4
    <2>1. IntensityAt(p.series, p.at) =
            IF p.series[found[1]].t = p.series[found[2]].t THEN Exactly(p.series[found[1]].v)
            ELSE Between(p.series[found[1]], p.series[found[2]], p.at)
      BY <2>0, Zenon DEF IntensityAt
    <2>2. ASSUME NEW f, NEW ends \in Pairs(n) PROVE Step(f, ends) = Narrowed(f, E, ends)
      <3>1. CASE ends[1] >= ends[2] - 1
        BY <3>1 DEF Narrowed
      <3>2. CASE ~(ends[1] >= ends[2] - 1)
        <4>1. MiddleOf(ends) \in 1..n
          BY <1>1, <3>2, PairsAreNarrowed
        <4>2. p.series[MiddleOf(ends)].t <= p.at <=> MiddleOf(ends) \in E
          BY <4>1
        <4>3. Step(f, ends) = IF p.series[MiddleOf(ends)].t <= p.at
                              THEN f[<<MiddleOf(ends), ends[2]>>] ELSE f[<<ends[1], MiddleOf(ends)>>]
          BY <3>2, Zenon DEF MiddleOf
        <4> HIDE DEF Step, E
        <4> QED BY <3>2, <4>2, <4>3, Zenon DEF Narrowed
      <3> QED BY <3>1, <3>2
    <2> HIDE DEF Step
    <2>3. 1 \in E /\ n \notin E
      BY <1>1, <1>4
    <2>4. \A k \in 1..n : k \in E <=> T[k] <= t
      BY <1>1
    <2> HIDE DEF E
    <2>5. \E f : Is(f)
      <3>1. PICK f : f = [ends \in Pairs(n) |-> Narrowed(f, E, ends)]
        <4>1. n \in Nat
          BY <1>1
        <4> QED BY <4>1, NarrowingExists, Zenon
      <3>2. f = [ends \in Pairs(n) |-> Step(f, ends)]
        BY <2>2, <3>1
      <3> QED BY <3>2 DEF Pairs
    <2>6. Is(search)
      BY <2>5, Zenon
    <2> HIDE DEF search
    <2>7. \A ends \in Pairs(n) : search[ends] = Narrowed(search, E, ends)
      BY <2>2, <2>6 DEF Pairs
    <2>8. /\ found[1] \in 1..(n - 1) /\ found[2] = found[1] + 1
          /\ found[1] \in E /\ found[2] \notin E
      BY <1>1, <2>3, <2>7, NarrowingFinds, Zenon
    <2> PICK k \in 1..(n - 1) : k = found[1] /\ found[2] = k + 1
      BY <2>8
    <2>9. k \in 1..n /\ k + 1 \in 1..n
      BY <1>1
    <2>10. T[k] \in Int /\ T[k + 1] \in Int /\ T[k] <= t /\ ~(T[k + 1] <= t)
      BY <1>1, <2>4, <2>8, <2>9
    <2>11. Brackets(n, T, p.at, k)
      BY <2>10 DEF Brackets
    <2>12. p.series[k].t # p.series[k + 1].t
      <3>1. p.series[k].t = T[k] /\ p.series[k + 1].t = T[k + 1] /\ T[k] # T[k + 1]
        BY <1>1, <2>9, <2>10
      <3> QED BY <3>1, Zenon
    <2>13. IntensityAt(p.series, p.at) = Between(p.series[k], p.series[k + 1], p.at)
      BY <2>1, <2>12, Zenon
    <2> QED BY <2>11, <2>13, LineIsRight, Zenon
  <1> QED BY <1>2, <1>3, <1>4

LEMMA BackgroundIsRight ==
  ASSUME NEW p, IsLookup(p)
  PROVE  LookupIsRight(p.series, p.at, BackgroundAt(p.series, p.at))
  <1> PICK n, T, V : Axes(p, n, T, V)
    BY HasAxes
  <1> PICK t \in Int : t = p.at
    BY DEF Axes
  <1>1. /\ n \in Nat \ {0} /\ Len(p.series) = n /\ 1 \in 1..n /\ n \in 1..n
        /\ \A k \in 1..n : T[k] \in Int /\ p.series[k].t = T[k]
    BY DEF Axes
  <1>2. CASE t <= p.series[1].t
    <2>1. BackgroundAt(p.series, p.at) = Exactly(p.series[1].v)
      BY <1>1, <1>2 DEF BackgroundAt
    <2> QED BY <1>2, <2>1, FirstIsRight
  <1>3. CASE ~(t <= p.series[1].t) /\ t >= p.series[n].t
    <2>1. BackgroundAt(p.series, p.at) = Exactly(p.series[n].v)
      BY <1>1, <1>3 DEF BackgroundAt
    <2> QED BY <1>3, <2>1, LastIsRight
  <1>4. CASE ~(t <= p.series[1].t) /\ ~(t >= p.series[n].t)
    <2> DEFINE Is(k) == /\ \A j \in 1..k : p.series[j].t <= p.at
                        /\ \A j \in (k + 1)..n : p.series[j].t > p.at
               i == CHOOSE k \in 0..n : Is(k)
    <2>1. T[1] \in Int /\ T[n] \in Int /\ ~(t <= T[1]) /\ ~(t >= T[n])
      BY <1>1, <1>4
    <2>2. n # 1
      BY <2>1
    <2>3. BackgroundAt(p.series, p.at) =
            IF p.series[i].t = p.series[i + 1].t THEN Exactly(p.series[i + 1].v)
            ELSE Between(p.series[i], p.series[i + 1], p.at)
      BY <1>1, <1>4, <2>2 DEF BackgroundAt
    <2>4. \E k \in 0..n : Is(k)
      <3> DEFINE Late == {k \in Nat : k \in 1..n /\ T[k] > t}
      <3>1. n \in Late
        BY <1>1, <2>1
      <3>2. PICK l \in Late : \A k \in Late : l <= k
        <4>1. Late \subseteq Nat
          OBVIOUS
        <4> QED BY <3>1, <4>1, SmallestExists
      <3>3. l - 1 \in 0..n
        BY <1>1, <3>2
      <3>4. \A j \in 1..(l - 1) : p.series[j].t <= p.at
        <4> SUFFICES ASSUME NEW j \in 1..(l - 1) PROVE p.series[j].t <= p.at
          OBVIOUS
        <4>1. j \in 1..n /\ j < l /\ j \in Nat /\ l \in Nat
          BY <1>1, <3>2
        <4>2. j \notin Late
          BY <3>2, <4>1
        <4>3. T[j] \in Int /\ p.series[j].t = T[j]
          BY <1>1, <4>1
        <4>4. ~(T[j] > t)
          BY <4>1, <4>2
        <4> QED BY <4>3, <4>4
      <3>5. \A j \in l..n : p.series[j].t > p.at
        <4> SUFFICES ASSUME NEW j \in l..n PROVE p.series[j].t > p.at
          OBVIOUS
        <4>1. j \in 1..n /\ l \in 1..n /\ l <= j /\ T[l] > t
          BY <1>1, <3>2
        <4>2. T[l] <= T[j]
          BY <4>1 DEF Axes
        <4>3. T[j] \in Int /\ T[l] \in Int /\ p.series[j].t = T[j]
          BY <1>1, <4>1
        <4> QED BY <4>1, <4>2, <4>3
      <3>6. (l - 1) + 1 = l
        BY <3>2
      <3> QED BY <3>3, <3>4, <3>5, <3>6
    <2>5. i \in 0..n /\ Is(i)
      <3> HIDE DEF Is
      <3> QED BY <2>4, Zenon
    <2> HIDE DEF i
    <2>6. i # 0
      <3>1. i = 0 => 1 \in (i + 1)..n
        BY <1>1
      <3> QED BY <1>1, <2>1, <2>5, <3>1
    <2>7. i # n
      <3>1. i = n => n \in 1..i
        BY <1>1
      <3> QED BY <1>1, <2>1, <2>5, <3>1
    <2>8. i \in 1..(n - 1) /\ i \in 1..n /\ i + 1 \in 1..n /\ i \in 1..i /\ i + 1 \in (i + 1)..n
      BY <1>1, <2>5, <2>6, <2>7
    <2>9. p.series[i].t = T[i] /\ p.series[i + 1].t = T[i + 1] /\ T[i] \in Int /\ T[i + 1] \in Int
      BY <1>1, <2>8
    <2>10. T[i] <= t /\ T[i + 1] > t
      BY <2>5, <2>8, <2>9
    <2>11. Brackets(n, T, p.at, i)
      BY <2>8, <2>9, <2>10 DEF Brackets
    <2>12. p.series[i].t # p.series[i + 1].t
      BY <2>9, <2>10
    <2>13. BackgroundAt(p.series, p.at) = Between(p.series[i], p.series[i + 1], p.at)
      BY <2>3, <2>12, Zenon
    <2> QED BY <2>11, <2>13, LineIsRight, Zenon
  <1> QED BY <1>2, <1>3, <1>4

-----------------------------------------------------------------------------
(* Sources.                                                                   *)

LEMMA SquaresGrow ==
  ASSUME NEW x \in Int, NEW y \in Nat, -y <= x, x <= y
  PROVE  x * x \in Nat /\ x * x <= y * y
  <1>1. CASE x >= 0
    <2>1. x \in Nat
      BY <1>1
    <2> QED BY <2>1, ProductsGrow
  <1>2. CASE ~(x >= 0)
    <2> PICK z \in Nat : z = -x /\ z <= y
      BY <1>2
    <2>1. z * z \in Nat /\ z * z <= y * y
      BY ProductsGrow
    <2>2. x * x = z * z
      <3>1. (-z) * (-z) = z * z
        OBVIOUS
      <3>2. x = -z
        OBVIOUS
      <3> QED BY <3>1, <3>2
    <2> QED BY <2>1, <2>2
  <1> QED BY <1>1, <1>2

\* 4 (n - 1)^2 <= n^3, for m = n - 1.
CubeCovers(m) == 4 * (m * m) <= ((m + 1) * (m + 1)) * (m + 1)

LEMMA CubeIs ==
  ASSUME NEW m \in Nat
  PROVE  /\ m * m \in Nat /\ (m * m) * m \in Nat
         /\ ((m + 1) * (m + 1)) * (m + 1) = (m * m) * m + 3 * (m * m) + 3 * m + 1
  OBVIOUS

LEMMA CubesCover ==
  ASSUME NEW m \in Nat
  PROVE  CubeCovers(m)
  <1>1. /\ m * m \in Nat /\ (m * m) * m \in Nat
        /\ ((m + 1) * (m + 1)) * (m + 1) = (m * m) * m + 3 * (m * m) + 3 * m + 1
    BY CubeIs
  <1>2. m * m <= (m * m) * m + 3 * m + 1
    <2>1. CASE m = 0
      BY <2>1
    <2>2. CASE m # 0
      <3>1. (m * m) * 1 <= (m * m) * m
        <4>1. m * m \in Nat /\ 1 \in Nat /\ m * m <= m * m /\ 1 <= m
          BY <1>1, <2>2
        <4> QED BY ONLY <4>1, m \in Nat, ProductsGrow
      <3> QED BY <1>1, <3>1
    <2> QED BY <2>1, <2>2
  <1> QED BY <1>1, <1>2 DEF CubeCovers

LEMMA ScaledSquares ==
  ASSUME NEW x \in Int, NEW n \in Int, NEW a \in Int, NEW m \in Int
  PROVE  /\ (x * 40) * (x * 40) = 1600 * (x * x)
         /\ (4 * x) * (4 * x) = 16 * (x * x)
         /\ (m * a) * (m * a) = (m * m) * (a * a)
         /\ ((n * (25 * (16 * x))) * n) * n = 400 * (((n * n) * n) * x)
  OBVIOUS

\* The band: m sources but one, readings at most d apart and each at least lo.
InBand(m, x, q) == (x * 40) * (x * 40) <= (q * (m + 1)) * (m + 1)

LEMMA BandCovers ==
  ASSUME NEW m \in Nat, NEW d \in Nat, NEW lo \in Nat, NEW x \in Int, NEW q \in Nat,
         -(m * d) <= x, x <= m * d, 4 * d <= lo, (m + 1) * (25 * (lo * lo)) <= q
  PROVE  InBand(m, x, q)
  <1> PICK n \in Nat : n = m + 1
    OBVIOUS
  <1> PICK dd \in Nat, ll \in Nat, mm \in Nat, c \in Nat :
        dd = d * d /\ ll = lo * lo /\ mm = m * m /\ c = (n * n) * n
    <2>1. d * d \in Nat /\ lo * lo \in Nat /\ m * m \in Nat
      OBVIOUS
    <2>2. n * n \in Nat
      OBVIOUS
    <2>3. (n * n) * n \in Nat
      BY <2>2
    <2> QED BY <2>1, <2>3
  <1>1. x * x \in Nat /\ x * x <= mm * dd /\ mm * dd \in Nat
    <2>1. m * d \in Nat
      OBVIOUS
    <2>2. x * x \in Nat /\ x * x <= (m * d) * (m * d)
      BY <2>1, SquaresGrow
    <2>3. (m * d) * (m * d) = (m * m) * (d * d)
      BY ScaledSquares
    <2>4. mm * dd \in Nat
      OBVIOUS
    <2> QED BY <2>2, <2>3, <2>4
  <1>2. 16 * dd <= ll
    <2>1. 4 * d \in Nat
      OBVIOUS
    <2>2. (4 * d) * (4 * d) <= lo * lo
      BY <2>1, ProductsGrow
    <2>3. (4 * d) * (4 * d) = 16 * (d * d)
      BY ScaledSquares
    <2> QED BY <2>2, <2>3
  <1>3. 4 * mm <= c
    BY CubesCover DEF CubeCovers
  <1>4. 4 * (mm * dd) <= c * dd /\ c * dd \in Nat
    <2>1. 4 * mm \in Nat /\ dd <= dd
      OBVIOUS
    <2>2. (4 * mm) * dd <= c * dd /\ c * dd \in Nat
      BY ONLY <1>3, <2>1, c \in Nat, dd \in Nat, ProductsGrow
    <2>3. (4 * mm) * dd = 4 * (mm * dd)
      OBVIOUS
    <2> QED BY <2>2, <2>3
  <1>5. (x * 40) * (x * 40) <= 400 * (c * dd)
    <2>1. (x * 40) * (x * 40) = 1600 * (x * x)
      BY ScaledSquares
    <2> QED BY <1>1, <1>4, <2>1
  <1>6. n * (25 * (16 * dd)) <= q /\ n * (25 * (16 * dd)) \in Nat
    <2>1. 25 * (16 * dd) <= 25 * ll /\ 25 * (16 * dd) \in Nat /\ 25 * ll \in Nat
      BY <1>2
    <2>2. n * (25 * (16 * dd)) <= n * (25 * ll) /\ n * (25 * (16 * dd)) \in Nat /\ n * (25 * ll) \in Nat
      BY ONLY <2>1, n \in Nat, n <= n, ProductsGrow
    <2> QED BY <2>2
  <1>7. ((n * (25 * (16 * dd))) * n) * n <= (q * n) * n
    <2> PICK a \in Nat : a = n * (25 * (16 * dd))
      BY <1>6
    <2>1. n <= n /\ a <= q
      BY <1>6
    <2>2. a * n <= q * n /\ a * n \in Nat /\ q * n \in Nat
      BY ONLY <2>1, a \in Nat, q \in Nat, n \in Nat, ProductsGrow
    <2>3. (a * n) * n <= (q * n) * n
      BY ONLY <2>1, <2>2, n \in Nat, ProductsGrow
    <2> QED BY <2>3
  <1>8. ((n * (25 * (16 * dd))) * n) * n = 400 * (c * dd)
    <2>1. n \in Int /\ dd \in Int
      OBVIOUS
    <2> QED BY <2>1, ScaledSquares
  <1>9. (x * 40) * (x * 40) \in Int /\ (q * n) * n \in Int
    <2>1. q * n \in Int /\ x * 40 \in Int
      OBVIOUS
    <2> QED BY <2>1
  <1> QED BY <1>4, <1>5, <1>7, <1>8, <1>9 DEF InBand

LEMMA AliveAnswer ==
  ASSUME NEW p, IsSources(p)
  PROVE  /\ IsFiniteSet(Alive(p.sources))
         /\ \A k \in Alive(p.sources) :
              /\ k \in DOMAIN p.sources /\ p.sources[k].v \in Nat /\ p.sources[k].f \in Nat
              /\ p.sources[k].f >= 5
  <1> DEFINE R == [v : Nat, f : {n \in Nat : 8 * n >= Fortieths}] \union {Failed}
  <1>1. p.sources \in Seq(R)
    BY DEF IsSources
  <1>2. /\ Len(p.sources) \in Nat /\ DOMAIN p.sources = 1..Len(p.sources)
        /\ \A k \in DOMAIN p.sources : p.sources[k] \in R
    <2> HIDE DEF R
    <2> QED BY <1>1, ElementOfSeq
  <1>3. IsFiniteSet(Alive(p.sources))
    <2>1. IsFiniteSet(DOMAIN p.sources)
      BY <1>2, FS_Interval
    <2> QED BY <2>1, FS_Subset DEF Alive
  <1>4. ASSUME NEW k \in Alive(p.sources)
        PROVE  /\ k \in DOMAIN p.sources /\ p.sources[k].v \in Nat /\ p.sources[k].f \in Nat
               /\ p.sources[k].f >= 5
    <2>1. k \in DOMAIN p.sources /\ p.sources[k] # Failed
      BY DEF Alive
    <2>2. p.sources[k] \in [v : Nat, f : {n \in Nat : 8 * n >= Fortieths}]
      BY <1>2, <2>1
    <2>3. \A n \in Nat : 8 * n >= Fortieths => n >= 5
      BY DEF Fortieths
    <2> QED BY <2>1, <2>2, <2>3
  <1> QED BY <1>3, <1>4

\* Readings of several sources, and how far each of them may be from their mean.
LEMMA ReadingsAreClose ==
  ASSUME NEW S, IsFiniteSet(S), NEW k \in S, NEW v, NEW lo \in Nat, NEW hi \in Nat,
         \A x \in S : v[x] \in Nat /\ lo <= v[x] /\ v[x] <= hi
  PROVE  LET n == Cardinality(S)
             x == v[k] * n - SumFunctionOnSet(v, S)
         IN  /\ n \in Nat \ {0} /\ x \in Int /\ (n - 1) * (hi - lo) \in Nat
             /\ -((n - 1) * (hi - lo)) <= x /\ x <= (n - 1) * (hi - lo)
             /\ SumFunctionOnSet(v, S) \in Nat
             /\ SumFunctionOnSet(v, S) <= hi * n
  <1> DEFINE others == S \ {k}
             low == [x \in S |-> lo]
             high == [x \in S |-> hi]
  <1>1. /\ IsFiniteSet(others) /\ Cardinality(S) \in Nat /\ Cardinality(others) \in Nat
        /\ Cardinality(others) = Cardinality(S) - 1
    BY RemovalShrinks
  <1> PICK m \in Nat : m = Cardinality(others) /\ Cardinality(S) = m + 1
    BY <1>1
  <1> PICK a \in Nat : a = v[k] /\ lo <= a /\ a <= hi
    OBVIOUS
  <1> PICK r \in Int : r = SumFunctionOnSet(v, others)
    <2>1. SumFunctionOnSet(v, others) \in Int
      BY <1>1, SumType
    <2> QED BY <2>1
  <1>2. SumFunctionOnSet(v, S) = a + r
    BY SumWithout
  <1>3. SumFunctionOnSet(low, others) = lo * m /\ SumFunctionOnSet(high, others) = hi * m
    BY <1>1, SumConstant
  <1>4. SumFunctionOnSet(low, others) <= r /\ r <= SumFunctionOnSet(high, others)
    BY <1>1, SumMonotone
  <1> PICK d \in Nat : d = hi - lo
    OBVIOUS
  <1>5. lo * m <= r /\ r <= hi * m /\ lo * m \in Nat /\ hi * m \in Nat
    <2>1. lo * m \in Nat /\ hi * m \in Nat
      OBVIOUS
    <2> QED BY <1>3, <1>4, <2>1
  <1>6. lo * m <= a * m /\ a * m <= hi * m /\ a * m \in Nat
    BY ProductsGrow
  <1>7. hi * m = lo * m + m * d /\ m * d \in Nat
    <2>1. (lo + d) * m = lo * m + m * d /\ m * d \in Nat
      OBVIOUS
    <2>2. hi = lo + d
      OBVIOUS
    <2> QED BY <2>1, <2>2
  <1>8. v[k] * Cardinality(S) = a * m + a
    BY <1>6
  <1>9. hi * (m + 1) = hi * m + hi
    OBVIOUS
  <1>10. SumFunctionOnSet(v, S) \in Nat /\ SumFunctionOnSet(v, S) <= hi * Cardinality(S)
    BY <1>2, <1>5, <1>9
  <1>11. (Cardinality(S) - 1) * (hi - lo) = m * d
    OBVIOUS
  <1> QED BY <1>2, <1>5, <1>6, <1>7, <1>8, <1>10, <1>11

(* The band of a reading that is not flagged holds all that went into it.     *)
LEMMA BandIsRight ==
  ASSUME NEW p, IsSources(p)
  PROVE  BandHoldsAll(p.sources, Aggregate(p.sources, p.perUnit))
  <1> DEFINE live == Alive(p.sources)
             values == {p.sources[k].v : k \in live}
             v == [k \in DOMAIN p.sources |-> p.sources[k].v]
             n == Cardinality(live)
             sum == SumFunctionOnSet(v, live)
             lo == CHOOSE x \in values : \A u \in values : x <= u
             hi == CHOOSE x \in values : \A u \in values : x >= u
             sq == [k \in DOMAIN p.sources |-> Square(p.sources[k].v * p.sources[k].f)]
             a == Aggregate(p.sources, p.perUnit)
  <1>1. /\ IsFiniteSet(live)
        /\ \A k \in live :
             /\ k \in DOMAIN p.sources /\ p.sources[k].v \in Nat /\ p.sources[k].f \in Nat
             /\ p.sources[k].f >= 5
    BY AliveAnswer
  <1>2. live = {} <=> \A k \in DOMAIN p.sources : p.sources[k] = Failed
    BY DEF Alive
  <1>3. CASE live = {}
    <2>1. a = Raised
      BY <1>3 DEF Aggregate
    <2> QED BY <1>2, <1>3, <2>1 DEF BandHoldsAll
  <1>4. CASE live # {}
    <2>1. a = [sum |-> sum, n |-> n, lo |-> lo, hi |-> hi, square |-> RootSumSquare(p.sources, live),
               flagged |-> (hi - lo) * n * p.perUnit > sum]
      BY <1>4, Zenon DEF Aggregate
    <2>2. \A k \in live : v[k] = p.sources[k].v /\ v[k] \in Nat
      BY <1>1
    <2>3. lo \in values /\ \A u \in values : lo <= u
      <3>1. values \in SUBSET Nat /\ values # {}
        BY <1>1, <1>4
      <3>2. \E x \in values : \A u \in values : x <= u
        <4> HIDE DEF values
        <4> QED BY <3>1, SmallestExists
      <3> HIDE DEF values
      <3> QED BY <3>2, Zenon
    <2>4. hi \in values /\ \A u \in values : hi >= u
      <3>1. PICK x \in live : \A y \in live : v[y] <= v[x]
        BY <1>1, <1>4, <2>2, LargestExists
      <3>2. \E y \in values : \A u \in values : y >= u
        BY <2>2, <3>1
      <3> HIDE DEF values
      <3> QED BY <3>2, Zenon
    <2>5. lo \in Nat /\ hi \in Nat /\ \A k \in live : lo <= v[k] /\ v[k] <= hi
      <3> HIDE DEF lo, hi
      <3> QED BY <1>1, <2>2, <2>3, <2>4
    <2>6. RootSumSquare(p.sources, live) = SumFunctionOnSet(sq, live)
      BY DEF RootSumSquare
    <2>7. \A k \in live : sq[k] \in Nat /\ 25 * (lo * lo) <= sq[k]
      <3> SUFFICES ASSUME NEW k \in live PROVE sq[k] \in Nat /\ 25 * (lo * lo) <= sq[k]
        OBVIOUS
      <3> PICK x \in Nat, f \in Nat, l \in Nat :
            x = p.sources[k].v /\ f = p.sources[k].f /\ l = lo /\ f >= 5 /\ l <= x
        BY <1>1, <2>2, <2>5
      <3>1. sq[k] = (x * f) * (x * f)
        BY <1>1 DEF Square
      <3>2. l * 5 <= x * f /\ l * 5 \in Nat /\ x * f \in Nat
        BY ProductsGrow
      <3>3. (l * 5) * (l * 5) <= (x * f) * (x * f) /\ (x * f) * (x * f) \in Nat
        BY <3>2, ProductsGrow
      <3>4. (l * 5) * (l * 5) = 25 * (l * l)
        OBVIOUS
      <3> QED BY <3>1, <3>3, <3>4
    <2>8. ASSUME ~a.flagged, NEW k \in live
          PROVE  Square((p.sources[k].v * a.n - a.sum) * Fortieths) <= a.square * a.n * a.n
      <3> HIDE DEF v, sq, lo, hi, live
      <3> PICK l \in Nat, h \in Nat : l = lo /\ h = hi
        BY <2>5
      <3> DEFINE x == v[k] * n - sum
      <3>1. /\ n \in Nat \ {0} /\ x \in Int
            /\ -((n - 1) * (h - l)) <= x /\ x <= (n - 1) * (h - l)
            /\ sum \in Nat /\ sum <= h * n
        BY <1>1, <2>2, <2>5, ReadingsAreClose
      <3> PICK m \in Nat, d \in Nat : n = m + 1 /\ d = h - l
        <4>1. l <= h
          BY <2>2, <2>5
        <4>2. n - 1 \in Nat /\ n = (n - 1) + 1
          BY <3>1
        <4> QED BY <4>1, <4>2
      <3>2. 4 * d <= l
        <4> PICK c \in Nat, w \in Nat, b \in Nat, g \in Nat :
               c = d * n /\ w = l * n /\ b = h * n /\ g = d * n * p.perUnit
          <5>1. d * n \in Nat /\ l * n \in Nat /\ h * n \in Nat /\ p.perUnit \in Nat
            BY <3>1 DEF IsSources
          <5>2. d * n * p.perUnit \in Nat
            BY <5>1
          <5> QED BY <5>1, <5>2
        <4>1. g <= sum
          <5>1. a.flagged = ((hi - lo) * n * p.perUnit > sum)
            BY <2>1
          <5>2. ~((hi - lo) * n * p.perUnit > sum)
            BY <2>8, <5>1, Zenon
          <5>3. (hi - lo) * n * p.perUnit = g
            <6>1. hi - lo = d
              OBVIOUS
            <6> QED BY <6>1, Zenon
          <5> HIDE DEF a, n, sum
          <5> QED BY <3>1, <5>2, <5>3
        <4>2. c * 5 <= g
          <5>1. p.perUnit \in Nat /\ 5 <= p.perUnit /\ c <= c
            BY DEF IsSources
          <5> QED BY <5>1, ProductsGrow
        <4>3. b = w + c
          <5>1. h = l + d /\ n \in Nat
            BY <3>1
          <5>2. (l + d) * n = l * n + d * n
            BY <5>1
          <5> QED BY <5>1, <5>2
        <4>4. 4 * c <= w
          BY <3>1, <4>1, <4>2, <4>3
        <4> SUFFICES ASSUME l < 4 * d PROVE FALSE
          OBVIOUS
        <4>5. (l + 1) * n <= (4 * d) * n
          <5>1. l + 1 <= 4 * d /\ l + 1 \in Nat /\ 4 * d \in Nat /\ n \in Nat /\ n <= n
            BY <3>1
          <5> QED BY ONLY <5>1, ProductsGrow
        <4>6. (l + 1) * n = l * n + n /\ (4 * d) * n = 4 * (d * n) /\ n > 0
          BY <3>1
        <4> QED BY <3>1, <4>4, <4>5, <4>6
      <3> PICK q \in Nat : q = a.square /\ (m + 1) * (25 * (l * l)) <= q
        <4> DEFINE base == [y \in live |-> 25 * (l * l)]
        <4>1. 25 * (l * l) \in Int
          OBVIOUS
        <4>2. SumFunctionOnSet(base, live) = (25 * (l * l)) * n
          BY <1>1, <4>1, SumConstant
        <4>3. SumFunctionOnSet(base, live) <= SumFunctionOnSet(sq, live)
          BY <1>1, <2>7, <4>1, SumMonotone
        <4>4. SumFunctionOnSet(sq, live) \in Nat
          BY <1>1, <2>7, SumBounds
        <4>5. a.square = SumFunctionOnSet(sq, live)
          BY <2>1, <2>6
        <4>6. (25 * (l * l)) * n = (m + 1) * (25 * (l * l))
          <5> PICK z \in Nat : z = 25 * (l * l)
            BY <4>1
          <5>1. z * n = n * z
            BY <3>1
          <5> QED BY <5>1
        <4> HIDE DEF base
        <4> QED BY <4>2, <4>3, <4>4, <4>5, <4>6
      <3>3. -(m * d) <= x /\ x <= m * d
        <4>1. n - 1 = m
          BY <3>1
        <4> HIDE DEF x
        <4> QED BY <3>1, <4>1
      <3>4. InBand(m, x, q)
        <4> HIDE DEF x, n
        <4> QED BY <3>1, <3>2, <3>3, BandCovers
      <3>5. p.sources[k].v * a.n - a.sum = x /\ a.n = m + 1 /\ a.square = q
        BY <2>1, <2>2
      <3> HIDE DEF x, n, a
      <3> QED BY <3>4, <3>5, Zenon DEF InBand, Square, Fortieths
    <2>9. a # Raised
      <3>1. a.n = n /\ Raised.n = 0
        BY <2>1 DEF Raised
      <3>2. n # 0
        BY <1>1, <1>4, FS_EmptySet
      <3> HIDE DEF a, n
      <3> QED BY <3>1, <3>2
    <2> HIDE DEF a, live
    <2>10. a = Raised <=> \A k \in DOMAIN p.sources : p.sources[k] = Failed
      BY <1>2, <1>4, <2>9, Zenon
    <2>11. BandHoldsAll(p.sources, a)
      BY <2>8, <2>10, Zenon DEF BandHoldsAll, live
    <2> QED BY <2>11 DEF a
  <1> QED BY <1>3, <1>4

-----------------------------------------------------------------------------
(* Sorting by rank.                                                           *)

\* What is sorted: n whole numbers.
IsValues(s, n) == n \in Nat /\ DOMAIN s = 1..n /\ \A k \in 1..n : s[k] \in Int

ComesFirst(s, u, t) == s[u] < s[t] \/ (s[u] = s[t] /\ u <= t)
UpTo(s, t) == {u \in DOMAIN s : s[u] < s[t] \/ (s[u] = s[t] /\ u <= t)}

LEMMA RankIsPlace ==
  ASSUME NEW n, NEW s, IsValues(s, n), NEW t \in 1..n
  PROVE  /\ IsFiniteSet(UpTo(s, t)) /\ Rank(s, t) = Cardinality(UpTo(s, t))
         /\ Rank(s, t) \in 1..n /\ t \in UpTo(s, t)
  <1>1. n \in Nat /\ DOMAIN s = 1..n /\ s[t] \in Int
    BY DEF IsValues
  <1>2. IsFiniteSet(1..n) /\ Cardinality(1..n) = n
    BY <1>1, FS_Interval
  <1>3. UpTo(s, t) \in SUBSET (1..n) /\ t \in UpTo(s, t)
    BY <1>1 DEF UpTo
  <1>4. /\ IsFiniteSet(UpTo(s, t)) /\ Cardinality(UpTo(s, t)) <= n
        /\ Cardinality(UpTo(s, t)) \in Nat /\ Cardinality(UpTo(s, t)) # 0
    BY <1>2, <1>3, FS_Subset, FS_CardinalityType, FS_EmptySet
  <1>5. Rank(s, t) = Cardinality(UpTo(s, t))
    BY DEF Rank, UpTo
  <1> QED BY <1>1, <1>3, <1>4, <1>5

LEMMA RankIsStrict ==
  ASSUME NEW n, NEW s, IsValues(s, n), NEW t \in 1..n, NEW u \in 1..n, t # u, ComesFirst(s, t, u)
  PROVE  Rank(s, t) < Rank(s, u)
  <1>1. /\ n \in Nat /\ DOMAIN s = 1..n /\ \A k \in 1..n : s[k] \in Int
    BY DEF IsValues
  <1>2. /\ IsFiniteSet(UpTo(s, u)) /\ Rank(s, u) = Cardinality(UpTo(s, u)) /\ u \in UpTo(s, u)
        /\ Rank(s, t) = Cardinality(UpTo(s, t))
    BY RankIsPlace
  <1>3. u \notin UpTo(s, t)
    BY <1>1 DEF UpTo, ComesFirst
  <1>4. UpTo(s, t) \subseteq UpTo(s, u)
    <2> SUFFICES ASSUME NEW x \in UpTo(s, t) PROVE x \in UpTo(s, u)
      OBVIOUS
    <2>1. x \in 1..n /\ ComesFirst(s, x, t)
      BY <1>1 DEF UpTo, ComesFirst
    <2>2. s[x] \in Int /\ s[t] \in Int /\ s[u] \in Int
      BY <1>1, <2>1
    <2>3. ComesFirst(s, x, u)
      BY <2>1, <2>2 DEF ComesFirst
    <2> QED BY <1>1, <2>1, <2>3 DEF UpTo, ComesFirst
  <1>5. /\ IsFiniteSet(UpTo(s, t)) /\ Cardinality(UpTo(s, t)) <= Cardinality(UpTo(s, u))
        /\ Cardinality(UpTo(s, u)) = Cardinality(UpTo(s, t)) => UpTo(s, u) = UpTo(s, t)
        /\ Cardinality(UpTo(s, t)) \in Nat /\ Cardinality(UpTo(s, u)) \in Nat
    BY <1>2, <1>4, FS_Subset, FS_CardinalityType
  <1> QED BY <1>2, <1>3, <1>5

LEMMA RankedHasRank ==
  ASSUME NEW n, NEW s, IsValues(s, n), NEW k \in 1..n
  PROVE  Ranked(s)[k] \in 1..n /\ Rank(s, Ranked(s)[k]) = k
  <1> DEFINE f == [t \in 1..n |-> Rank(s, t)]
  <1>1. /\ n \in Nat /\ DOMAIN s = 1..n /\ \A i \in 1..n : s[i] \in Int
    BY DEF IsValues
  <1>2. \A t \in 1..n : f[t] \in 1..n /\ f[t] = Rank(s, t)
    BY RankIsPlace
  <1>3. f \in [1..n -> 1..n]
    BY <1>2
  <1>4. \A t, u \in 1..n : t # u => f[t] # f[u]
    <2> SUFFICES ASSUME NEW t \in 1..n, NEW u \in 1..n, t # u PROVE f[t] # f[u]
      OBVIOUS
    <2>1. ComesFirst(s, t, u) \/ ComesFirst(s, u, t)
      BY <1>1 DEF ComesFirst
    <2>2. Rank(s, t) < Rank(s, u) \/ Rank(s, u) < Rank(s, t)
      BY <2>1, RankIsStrict
    <2>3. f[t] \in Int /\ f[u] \in Int /\ f[t] = Rank(s, t) /\ f[u] = Rank(s, u)
      BY <1>2
    <2> HIDE DEF f
    <2> QED BY <2>2, <2>3
  <1> HIDE DEF f
  <1>5. f \in Injection(1..n, 1..n)
    BY <1>3, <1>4 DEF Injection, IsInjective
  <1>6. f \in Surjection(1..n, 1..n)
    <2>1. IsFiniteSet(1..n)
      BY <1>1, FS_Interval
    <2> QED BY <1>5, <2>1, FS_Injection
  <1>7. PICK t \in 1..n : f[t] = k
    BY <1>6 DEF Surjection
  <1>8. \E x \in DOMAIN s : Rank(s, x) = k
    BY <1>1, <1>2, <1>7
  <1>9. Ranked(s)[k] = CHOOSE x \in DOMAIN s : Rank(s, x) = k
    BY <1>1 DEF Ranked
  <1> QED BY <1>1, <1>8, <1>9

Below(s, v) == {u \in DOMAIN s : s[u] < v}
NotAbove(s, v) == {u \in DOMAIN s : s[u] <= v}
Above(s, v) == {u \in DOMAIN s : s[u] > v}

LEMMA CutsAreFinite ==
  ASSUME NEW n, NEW s, IsValues(s, n), NEW v \in Int
  PROVE  /\ IsFiniteSet(Below(s, v)) /\ IsFiniteSet(NotAbove(s, v)) /\ IsFiniteSet(Above(s, v))
         /\ Cardinality(Below(s, v)) \in Nat /\ Cardinality(NotAbove(s, v)) \in Nat
         /\ Cardinality(Above(s, v)) \in Nat
         /\ Cardinality(Above(s, v)) = n - Cardinality(NotAbove(s, v))
  <1>1. n \in Nat /\ DOMAIN s = 1..n /\ \A i \in 1..n : s[i] \in Int
    BY DEF IsValues
  <1>2. IsFiniteSet(1..n) /\ Cardinality(1..n) = n
    BY <1>1, FS_Interval
  <1>3. IsFiniteSet(Below(s, v)) /\ IsFiniteSet(NotAbove(s, v)) /\ IsFiniteSet(Above(s, v))
    BY <1>1, <1>2, FS_Subset DEF Below, NotAbove, Above
  <1>4. Above(s, v) = (1..n) \ NotAbove(s, v) /\ (1..n) \intersect NotAbove(s, v) = NotAbove(s, v)
    BY <1>1 DEF Above, NotAbove
  <1>5. Cardinality((1..n) \ NotAbove(s, v)) = Cardinality(1..n) - Cardinality((1..n) \intersect NotAbove(s, v))
    BY <1>2, FS_Difference, Zenon
  <1> QED BY <1>2, <1>3, <1>4, <1>5, FS_CardinalityType

\* Fewer than k lie below the value of rank k, and k at least do not lie above it.
LEMMA SortedCuts ==
  ASSUME NEW n, NEW s, IsValues(s, n), NEW k \in 1..n
  PROVE  LET v == Sorted(s)[k] IN
         /\ v \in Int /\ v = s[Ranked(s)[k]]
         /\ Cardinality(Below(s, v)) < k /\ k <= Cardinality(NotAbove(s, v))
  <1>1. n \in Nat /\ DOMAIN s = 1..n /\ \A i \in 1..n : s[i] \in Int
    BY DEF IsValues
  <1> PICK t \in 1..n : t = Ranked(s)[k] /\ Rank(s, t) = k
    BY RankedHasRank
  <1>2. Sorted(s)[k] = s[t]
    BY <1>1 DEF Sorted
  <1> PICK v \in Int : v = s[t]
    BY <1>1
  <1>3. /\ IsFiniteSet(UpTo(s, t)) /\ k = Cardinality(UpTo(s, t)) /\ t \in UpTo(s, t)
    BY RankIsPlace
  <1>4. Below(s, v) \subseteq UpTo(s, t) /\ t \notin Below(s, v) /\ UpTo(s, t) \subseteq NotAbove(s, v)
    BY <1>1 DEF Below, UpTo, NotAbove
  <1>5. /\ IsFiniteSet(Below(s, v)) /\ IsFiniteSet(NotAbove(s, v))
        /\ Cardinality(Below(s, v)) \in Nat /\ Cardinality(NotAbove(s, v)) \in Nat
    BY CutsAreFinite
  <1>6. Cardinality(Below(s, v)) <= k /\ (k = Cardinality(Below(s, v)) => UpTo(s, t) = Below(s, v))
    BY <1>3, <1>4, FS_Subset
  <1>7. k <= Cardinality(NotAbove(s, v))
    BY <1>3, <1>4, <1>5, FS_Subset
  <1>8. Cardinality(Below(s, v)) < k
    BY <1>1, <1>3, <1>4, <1>5, <1>6
  <1> QED BY <1>2, <1>7, <1>8

LEMMA SortedAscends ==
  ASSUME NEW n, NEW s, IsValues(s, n), NEW k \in 1..n, NEW l \in 1..n, k <= l
  PROVE  Sorted(s)[k] <= Sorted(s)[l]
  <1> PICK v \in Int, w \in Int :
        /\ v = Sorted(s)[k] /\ w = Sorted(s)[l]
        /\ Cardinality(Below(s, v)) < k /\ l <= Cardinality(NotAbove(s, w))
    BY SortedCuts
  <1> SUFFICES ASSUME w < v PROVE FALSE
    OBVIOUS
  <1>1. NotAbove(s, w) \subseteq Below(s, v)
    BY DEF NotAbove, Below, IsValues
  <1>2. Cardinality(NotAbove(s, w)) <= Cardinality(Below(s, v))
    BY <1>1, CutsAreFinite, FS_Subset
  <1>3. Cardinality(NotAbove(s, w)) \in Nat /\ Cardinality(Below(s, v)) \in Nat
    BY CutsAreFinite
  <1>4. n \in Nat
    BY DEF IsValues
  <1> QED BY <1>2, <1>3, <1>4

LEMMA SortedAsCut ==
  ASSUME NEW n, NEW s, IsValues(s, n), NEW r, IsValues(r, n),
         \A v \in Int : /\ Cardinality(Below(r, v)) = Cardinality(Below(s, v))
                        /\ Cardinality(NotAbove(r, v)) = Cardinality(NotAbove(s, v))
  PROVE  Sorted(r) = Sorted(s)
  <1>1. n \in Nat /\ DOMAIN s = 1..n /\ DOMAIN r = 1..n
    BY DEF IsValues
  <1>2. ASSUME NEW k \in 1..n PROVE Sorted(r)[k] = Sorted(s)[k]
    <2> PICK v \in Int, w \in Int :
          /\ v = Sorted(s)[k] /\ Cardinality(Below(s, v)) < k /\ k <= Cardinality(NotAbove(s, v))
          /\ w = Sorted(r)[k] /\ Cardinality(Below(r, w)) < k /\ k <= Cardinality(NotAbove(r, w))
      BY SortedCuts
    <2>1. /\ Cardinality(Below(s, w)) < k /\ k <= Cardinality(NotAbove(s, w))
          /\ Cardinality(Below(s, w)) \in Nat /\ Cardinality(NotAbove(s, w)) \in Nat
          /\ Cardinality(Below(s, v)) \in Nat /\ Cardinality(NotAbove(s, v)) \in Nat
      BY CutsAreFinite
    <2>2. ~(w < v)
      <3> SUFFICES ASSUME w < v PROVE FALSE
        OBVIOUS
      <3>1. NotAbove(s, w) \subseteq Below(s, v)
        BY DEF NotAbove, Below, IsValues
      <3>2. Cardinality(NotAbove(s, w)) <= Cardinality(Below(s, v))
        BY <3>1, CutsAreFinite, FS_Subset
      <3> QED BY <1>1, <2>1, <3>2
    <2>3. ~(v < w)
      <3> SUFFICES ASSUME v < w PROVE FALSE
        OBVIOUS
      <3>1. NotAbove(s, v) \subseteq Below(s, w)
        BY DEF NotAbove, Below, IsValues
      <3>2. Cardinality(NotAbove(s, v)) <= Cardinality(Below(s, w))
        BY <3>1, CutsAreFinite, FS_Subset
      <3> QED BY <1>1, <2>1, <3>2
    <2> QED BY <2>2, <2>3
  <1>3. /\ Sorted(s) = [k \in 1..n |-> Sorted(s)[k]]
        /\ Sorted(r) = [k \in 1..n |-> Sorted(r)[k]]
    BY <1>1 DEF Sorted
  <1>4. [k \in 1..n |-> Sorted(r)[k]] = [k \in 1..n |-> Sorted(s)[k]]
    BY <1>2
  <1> QED BY <1>3, <1>4, Zenon

-----------------------------------------------------------------------------
(* Rotation.                                                                  *)

LEMMA SamePlaceTwice ==
  ASSUME NEW n \in Nat \ {0}, NEW a \in Nat, NEW b \in Nat, a < b, b < a + n
  PROVE  a % n # b % n
  <1> PICK p \in Nat, q \in Nat, x \in 0..(n - 1), y \in 0..(n - 1) :
        /\ p = a \div n /\ q = b \div n /\ x = a % n /\ y = b % n
        /\ a = p * n + x /\ b = q * n + y /\ p * n \in Nat /\ q * n \in Nat
    BY DivisionFacts
  <1> SUFFICES ASSUME x = y PROVE FALSE
    OBVIOUS
  <1>1. p * n < q * n /\ q * n < p * n + n
    OBVIOUS
  <1>2. ASSUME NEW c \in Nat, NEW d \in Nat, c < d PROVE c * n + n <= d * n
    <2> PICK e \in Nat : d = c + 1 + e
      <3>1. d - c - 1 \in Nat /\ d = c + 1 + (d - c - 1)
        BY <1>2
      <3> QED BY <3>1
    <2>1. (c + 1 + e) * n = c * n + n + e * n /\ e * n \in Nat /\ c * n \in Nat
      OBVIOUS
    <2> QED BY <2>1
  <1>3. p < q => p * n + n <= q * n
    BY <1>2
  <1>4. q < p => q * n + n <= p * n
    BY <1>2
  <1> QED BY <1>1, <1>3, <1>4

Turned(n, offset) == [t \in 1..n |-> ((t - 1 + offset) % n) + 1]

LEMMA TurnedIsBijection ==
  ASSUME NEW n \in Nat \ {0}, NEW offset \in Nat
  PROVE  Turned(n, offset) \in Bijection(1..n, 1..n)
  <1> DEFINE f == Turned(n, offset)
  <1>1. ASSUME NEW t \in 1..n
        PROVE  t - 1 + offset \in Nat /\ (t - 1 + offset) % n \in 0..(n - 1) /\ f[t] \in 1..n
    <2>1. t - 1 + offset \in Nat
      OBVIOUS
    <2>2. (t - 1 + offset) % n \in 0..(n - 1)
      BY <2>1, DivisionFacts
    <2> QED BY <2>1, <2>2 DEF Turned
  <1>2. f \in [1..n -> 1..n]
    BY <1>1 DEF Turned
  <1>3. ASSUME NEW t \in 1..n, NEW u \in 1..n, t < u PROVE f[t] # f[u]
    <2>1. t - 1 + offset < u - 1 + offset /\ u - 1 + offset < (t - 1 + offset) + n
      BY <1>3
    <2>2. (t - 1 + offset) % n # (u - 1 + offset) % n
      BY <1>1, <2>1, SamePlaceTwice
    <2>3. f[t] = ((t - 1 + offset) % n) + 1 /\ f[u] = ((u - 1 + offset) % n) + 1
      BY DEF Turned
    <2>4. (t - 1 + offset) % n \in Int /\ (u - 1 + offset) % n \in Int
      BY <1>1
    <2> PICK x \in Int, y \in Int : x = (t - 1 + offset) % n /\ y = (u - 1 + offset) % n
      BY <2>4
    <2> QED BY <2>2, <2>3
  <1>4. \A t, u \in 1..n : f[t] = f[u] => t = u
    BY <1>3
  <1> HIDE DEF f
  <1>5. f \in Injection(1..n, 1..n)
    BY <1>2, <1>4 DEF Injection, IsInjective
  <1>6. IsFiniteSet(1..n)
    BY FS_Interval
  <1>7. f \in Surjection(1..n, 1..n)
    BY <1>5, <1>6, FS_Injection
  <1> QED BY <1>5, <1>7 DEF Bijection, f

\* A rotated trace has as many values of any kind.
HasAsMany(n, s, r, P) ==
  /\ IsValues(r, n) /\ DOMAIN r = 1..n
  /\ Cardinality({t \in 1..n : r[t] \in P}) = Cardinality({u \in 1..n : s[u] \in P})

LEMMA RotatedCounts ==
  ASSUME NEW n \in Nat \ {0}, NEW s, IsValues(s, n), Len(s) = n, NEW offset \in Nat, NEW P
  PROVE  HasAsMany(n, s, Rotated(s, offset), P)
  <1> DEFINE r == Rotated(s, offset)
             f == Turned(n, offset)
             U == {u \in 1..n : s[u] \in P}
  <1>1. n \in Nat /\ DOMAIN s = 1..n /\ \A i \in 1..n : s[i] \in Int
    BY DEF IsValues
  <1>2. f \in Bijection(1..n, 1..n)
    BY TurnedIsBijection
  <1>3. \A t \in 1..n : f[t] \in 1..n
    BY <1>2 DEF Bijection, Injection
  <1>4. DOMAIN r = 1..n /\ \A t \in 1..n : r[t] = s[f[t]]
    BY <1>1 DEF Rotated, Turned
  <1> HIDE DEF r, f
  <1>5. IsValues(r, n)
    BY <1>1, <1>3, <1>4 DEF IsValues
  <1>6. {t \in 1..n : r[t] \in P} = {t \in 1..n : f[t] \in U}
    BY <1>3, <1>4
  <1>7. Cardinality({t \in 1..n : f[t] \in U}) = Cardinality(U)
    <2>1. U \in SUBSET (1..n)
      OBVIOUS
    <2> HIDE DEF U
    <2> QED BY <1>2, <2>1, BijectionCounts
  <1> QED BY <1>4, <1>5, <1>6, <1>7, Zenon DEF HasAsMany, r

-----------------------------------------------------------------------------
(* Samples of a trace.                                                        *)

\* The quantile's place among n: index lo, a remainder r, and the next index.
QuantilePlace(fraction, n, lo, r) ==
  /\ lo \in 0..(n - 1) /\ r \in 0..(Parts - 1)
  /\ fraction * (n - 1) \in Nat /\ Parts * lo \in Nat
  /\ fraction * (n - 1) = Parts * lo + r

LEMMA QuantilePlaceIs ==
  ASSUME NEW fraction \in 0..Parts, NEW n \in Nat \ {0}
  PROVE  LET pos == fraction * (n - 1) IN QuantilePlace(fraction, n, pos \div Parts, pos % Parts)
  <1>1. Parts \in Nat \ {0}
    BY PartsAssumption
  <1> PICK w \in Nat : w = n - 1 /\ n = w + 1
    <2>1. n - 1 \in Nat /\ n = (n - 1) + 1
      OBVIOUS
    <2> QED BY <2>1
  <1> PICK pos \in Nat : pos = fraction * w
    <2>1. fraction \in Nat
      BY <1>1
    <2>2. fraction * w \in Nat
      BY <2>1
    <2> QED BY <2>2 DEF HasAsMany
  <1>2. pos <= Parts * w /\ Parts * w \in Nat
    <2>1. fraction \in Nat /\ Parts \in Nat /\ fraction <= Parts /\ w <= w
      BY <1>1
    <2> QED BY ONLY <2>1, w \in Nat, pos = fraction * w, ProductsGrow
  <1> PICK lo \in Nat, r \in 0..(Parts - 1) :
        /\ lo = pos \div Parts /\ r = pos % Parts /\ lo * Parts \in Nat
        /\ pos = lo * Parts + r
    <2>1. /\ pos \div Parts \in Nat /\ pos % Parts \in 0..(Parts - 1) /\ (pos \div Parts) * Parts \in Nat
          /\ pos = (pos \div Parts) * Parts + (pos % Parts)
      BY <1>1, DivisionFacts, Zenon
    <2> QED BY <2>1
  <1>3. Parts * lo = lo * Parts
    BY <1>1
  <1>4. lo <= w
    <2> SUFFICES ASSUME w < lo PROVE FALSE
      OBVIOUS
    <2> PICK y \in Nat : lo = w + 1 + y
      <3>1. lo - w - 1 \in Nat /\ lo = w + 1 + (lo - w - 1)
        OBVIOUS
      <3> QED BY <3>1
    <2>1. (w + 1 + y) * Parts = Parts * w + Parts + y * Parts /\ y * Parts \in Nat
      BY <1>1
    <2>2. r >= 0 /\ Parts > 0 /\ lo * Parts = (w + 1 + y) * Parts
      BY <1>1
    <2> PICK a \in Nat, b \in Nat, c \in Nat : a = lo * Parts /\ b = Parts * w /\ c = y * Parts
      BY <1>2, <2>1
    <2>3. a = b + Parts + c /\ pos = a + r /\ pos <= b
      BY <1>2, <2>1, <2>2
    <2> QED BY <1>1, <2>2, <2>3
  <1>5. QuantilePlace(fraction, n, lo, r)
    <2>1. lo \in 0..(n - 1)
      BY <1>4
    <2>2. fraction * (n - 1) = pos
      OBVIOUS
    <2> QED BY <1>3, <2>1, <2>2 DEF QuantilePlace
  <1>6. fraction * (n - 1) = pos
    OBVIOUS
  <1> QED BY <1>5, <1>6, Zenon

\* c values lie above index lo at most.
LeavesFew(fraction, n, c) == Parts * c < (Parts - fraction) * (n - 1) + Parts

LEMMA QuantileLeavesFew ==
  ASSUME NEW fraction \in 0..Parts, NEW n \in Nat \ {0}, NEW lo, NEW r,
         QuantilePlace(fraction, n, lo, r), NEW c \in Nat, c <= n - (lo + 1)
  PROVE  LeavesFew(fraction, n, c)
  <1>1. Parts \in Nat \ {0}
    BY PartsAssumption
  <1> PICK w \in Nat : w = n - 1 /\ n = w + 1
    <2>1. n - 1 \in Nat /\ n = (n - 1) + 1
      OBVIOUS
    <2> QED BY <2>1
  <1>2. lo \in Nat /\ lo <= w /\ c <= w - lo /\ r < Parts /\ r \in Nat /\ fraction * w = Parts * lo + r
    BY <1>1 DEF QuantilePlace
  <1> PICK d \in Nat : d = w - lo
    BY <1>2
  <1>3. Parts * c <= Parts * d /\ Parts * c \in Nat /\ Parts * d \in Nat
    <2>1. Parts \in Nat /\ c \in Nat /\ d \in Nat /\ c <= d /\ Parts <= Parts
      BY <1>1, <1>2
    <2> QED BY ONLY <2>1, ProductsGrow
  <1>4. Parts * w = Parts * lo + Parts * d /\ Parts * lo \in Nat
    <2>0. Parts \in Nat /\ lo \in Nat /\ d \in Nat
      BY <1>1, <1>2
    <2>1. Parts * (lo + d) = Parts * lo + Parts * d /\ Parts * lo \in Nat
      BY ONLY <2>0, Distributes, Zenon
    <2>2. w = lo + d
      BY <1>2
    <2> QED BY <2>1, <2>2
  <1>5. (Parts - fraction) * w = Parts * w - fraction * w
    <2>1. Parts \in Int /\ fraction \in Int /\ w \in Int
      BY <1>1
    <2> QED BY ONLY <2>1
  <1>6. (Parts - fraction) * (n - 1) = (Parts - fraction) * w
    OBVIOUS
  <1>7. Parts * c < (Parts - fraction) * w + Parts
    BY <1>1, <1>2, <1>3, <1>4, <1>5
  <1> QED BY <1>6, <1>7 DEF LeavesFew

LEMMA TraceIsValues ==
  ASSUME NEW m, IsSampled(m)
  PROVE  /\ IsValues(m.trace, Len(m.trace)) /\ Len(m.trace) \in Nat \ {0}
         /\ m.fraction \in 0..Parts /\ m.window \in Nat /\ m.stride \in Nat \ {0}
  <1>1. m.trace \in Seq(Nat) /\ m.trace # <<>>
    BY DEF IsSampled
  <1>2. Len(m.trace) \in Nat /\ DOMAIN m.trace = 1..Len(m.trace) /\ Len(m.trace) # 0
    BY <1>1
  <1>3. \A k \in 1..Len(m.trace) : m.trace[k] \in Int
    BY <1>1
  <1> QED BY <1>2, <1>3 DEF IsValues, IsSampled

\* The quantile is no less than the value at its lower index.
LEMMA QuantileIsAbove ==
  ASSUME NEW m, IsSampled(m)
  PROVE  \E k \in 1..Len(m.trace) :
           /\ QuantileThreshold(m) \in Int /\ Sorted(m.trace)[k] \in Int
           /\ Parts * Sorted(m.trace)[k] <= QuantileThreshold(m)
           /\ \A c \in Nat : c <= Len(m.trace) - k => LeavesFew(m.fraction, Len(m.trace), c)
  <1> DEFINE n == Len(m.trace)
             pos == m.fraction * (n - 1)
             lo == pos \div Parts
             r == pos % Parts
             hi == IF lo + 1 < n - 1 THEN lo + 1 ELSE n - 1
             at(k) == Sorted(m.trace)[k + 1]
  <1>1. IsValues(m.trace, n) /\ n \in Nat \ {0} /\ m.fraction \in 0..Parts
    BY TraceIsValues
  <1>2. QuantilePlace(m.fraction, n, lo, r)
    <2> HIDE DEF n
    <2> QED BY <1>1, QuantilePlaceIs, Zenon
  <1>3. QuantileThreshold(m) = Parts * at(lo) + r * (at(hi) - at(lo))
    BY DEF QuantileThreshold
  <1> HIDE DEF lo, r, n, pos
  <1>4. lo \in 0..(n - 1) /\ r \in 0..(Parts - 1)
    BY <1>2 DEF QuantilePlace
  <1>5. lo + 1 \in 1..n /\ hi + 1 \in 1..n /\ lo + 1 <= hi + 1
    BY <1>1, <1>4
  <1>6. at(lo) \in Int /\ at(hi) \in Int /\ at(lo) <= at(hi)
    BY <1>1, <1>5, SortedCuts, SortedAscends, Zenon
  <1>7. Parts * at(lo) <= QuantileThreshold(m) /\ QuantileThreshold(m) \in Int
    <2> PICK a \in Int, d \in Nat : a = at(lo) /\ d = at(hi) - at(lo)
      BY <1>6
    <2>1. Parts \in Nat /\ r \in Nat
      BY <1>4, PartsAssumption
    <2>2. Parts * a \in Int /\ r * d \in Nat
      BY <2>1
    <2>3. QuantileThreshold(m) = Parts * a + r * d
      BY <1>3, Zenon
    <2> HIDE DEF at, hi
    <2> QED BY <2>2, <2>3
  <1>8. ASSUME NEW c \in Nat, c <= n - (lo + 1) PROVE LeavesFew(m.fraction, n, c)
    BY <1>1, <1>2, <1>8, QuantileLeavesFew
  <1> DEFINE k == lo + 1
  <1>9. k \in 1..n /\ Sorted(m.trace)[k] = at(lo)
    BY <1>5
  <1> HIDE DEF k, at, hi
  <1>10. /\ QuantileThreshold(m) \in Int /\ Sorted(m.trace)[k] \in Int
         /\ Parts * Sorted(m.trace)[k] <= QuantileThreshold(m)
         /\ \A c \in Nat : c <= n - k => LeavesFew(m.fraction, n, c)
    BY <1>6, <1>7, <1>8, <1>9 DEF k
  <1> QED BY <1>9, <1>10, Zenon DEF n

(* Samples fit the trace and keep its distribution.                           *)
LEMMA SamplesFit ==
  ASSUME NEW m, IsSampled(m), NEW s,
         s.threshold = QuantileThreshold(m),
         s.rotated = [o \in 0..2 |-> Rotated(m.trace, o)],
         s.offsets = Offsets(m, m.stride)
  PROVE  SamplesAreRight(m, s)
  <1> DEFINE n == Len(m.trace)
             High == {v \in Int : Parts * v > s.threshold}
             above(trace) == {t \in DOMAIN trace : Parts * trace[t] > s.threshold}
  <1>1. /\ IsValues(m.trace, n) /\ n \in Nat \ {0} /\ m.fraction \in 0..Parts
        /\ m.window \in Nat /\ m.stride \in Nat \ {0}
    BY TraceIsValues
  <1> HIDE DEF n
  <1>2. ASSUME NEW trace, IsValues(trace, n)
        PROVE  above(trace) = {t \in 1..n : trace[t] \in High}
    BY <1>2 DEF IsValues
  <1>3. ASSUME NEW offset \in DOMAIN s.rotated
        PROVE  /\ Cardinality(above(s.rotated[offset])) = Cardinality(above(m.trace))
               /\ Sorted(s.rotated[offset]) = Sorted(m.trace)
    <2>1. offset \in Nat /\ s.rotated[offset] = Rotated(m.trace, offset)
      OBVIOUS
    <2> DEFINE r == Rotated(m.trace, offset)
    <2>2. ASSUME NEW P PROVE HasAsMany(n, m.trace, r, P)
      <3>1. n \in Nat \ {0} /\ IsValues(m.trace, n) /\ Len(m.trace) = n /\ offset \in Nat
        BY <1>1, <2>1 DEF n
      <3> QED BY ONLY <3>1, RotatedCounts, Zenon
    <2> HIDE DEF r
    <2>3. IsValues(r, n)
      BY <2>2 DEF HasAsMany
    <2>4. Cardinality(above(r)) = Cardinality(above(m.trace))
      <3> HIDE DEF above, High
      <3> QED BY <1>1, <1>2, <2>2, <2>3 DEF HasAsMany
    <2>5. ASSUME NEW v \in Int
          PROVE  /\ Cardinality(Below(r, v)) = Cardinality(Below(m.trace, v))
                 /\ Cardinality(NotAbove(r, v)) = Cardinality(NotAbove(m.trace, v))
      <3> DEFINE L == {x \in Int : x < v}
                 G == {x \in Int : x <= v}
      <3>1. ASSUME NEW trace, IsValues(trace, n)
            PROVE  /\ Below(trace, v) = {t \in 1..n : trace[t] \in L}
                   /\ NotAbove(trace, v) = {t \in 1..n : trace[t] \in G}
        BY <3>1 DEF IsValues, Below, NotAbove
      <3> HIDE DEF L, G
      <3> QED BY <1>1, <2>2, <2>3, <3>1 DEF HasAsMany
    <2>6. Sorted(r) = Sorted(m.trace)
      BY <1>1, <2>3, <2>5, SortedAsCut
    <2> HIDE DEF above
    <2> QED BY <2>1, <2>4, <2>6, Zenon DEF r
  <1>4. Parts * Cardinality(above(m.trace)) < (Parts - m.fraction) * (n - 1) + Parts
    <2> PICK k \in 1..n :
           /\ s.threshold \in Int /\ Sorted(m.trace)[k] \in Int
           /\ Parts * Sorted(m.trace)[k] <= s.threshold
           /\ \A c \in Nat : c <= n - k => LeavesFew(m.fraction, n, c)
      BY QuantileIsAbove, Zenon DEF n
    <2> PICK v \in Int : v = Sorted(m.trace)[k]
      OBVIOUS
    <2>1. k <= Cardinality(NotAbove(m.trace, v))
      BY <1>1, SortedCuts, Zenon
    <2>2. /\ IsFiniteSet(Above(m.trace, v)) /\ Cardinality(Above(m.trace, v)) \in Nat
          /\ Cardinality(NotAbove(m.trace, v)) \in Nat
          /\ Cardinality(Above(m.trace, v)) = n - Cardinality(NotAbove(m.trace, v))
      BY <1>1, CutsAreFinite
    <2>3. above(m.trace) \subseteq Above(m.trace, v)
      <3> SUFFICES ASSUME NEW t \in above(m.trace) PROVE t \in Above(m.trace, v)
        OBVIOUS
      <3>1. t \in DOMAIN m.trace /\ m.trace[t] \in Int /\ Parts * m.trace[t] > s.threshold
        BY <1>1 DEF IsValues
      <3> PICK x \in Int : x = m.trace[t]
        BY <3>1
      <3>2. Parts \in Nat \ {0}
        BY PartsAssumption
      <3>3. Parts * v < Parts * x
        <4>1. Parts * v \in Int /\ Parts * x \in Int
          BY <3>2
        <4> QED BY <3>1, <4>1
      <3>4. v < x
        BY <3>2, <3>3, ProductsOrder
      <3> QED BY <3>1, <3>4 DEF Above
    <2>4. Cardinality(above(m.trace)) \in Nat /\ Cardinality(above(m.trace)) <= Cardinality(Above(m.trace, v))
      <3> HIDE DEF above
      <3> QED BY <2>2, <2>3, FS_Subset, FS_CardinalityType
    <2> HIDE DEF above
    <2>5. Cardinality(above(m.trace)) <= n - k
      BY <1>1, <2>1, <2>2, <2>4
    <2>6. LeavesFew(m.fraction, n, Cardinality(above(m.trace)))
      BY <2>4, <2>5
    <2> QED BY <2>6 DEF LeavesFew
  <1>5. s.offsets # {}
    <2>1. 0 % m.stride = 0
      <3>1. 0 * m.stride + 0 = 0 /\ 0 \in 0..(m.stride - 1)
        BY <1>1
      <3>2. (0 * m.stride + 0) % m.stride = 0
        BY <1>1, <3>1, DivisionIs
      <3> QED BY <3>1, <3>2
    <2>2. 0 \in s.offsets
      BY <1>1, <2>1 DEF Offsets, n
    <2> QED BY <2>2 DEF HasAsMany
  <1>6. ASSUME m.window <= Len(m.trace), NEW o \in s.offsets PROVE o + m.window <= Len(m.trace)
    BY <1>1, <1>6 DEF Offsets, n
  <1> QED BY <1>3, <1>4, <1>5, <1>6, Zenon DEF SamplesAreRight, n

-----------------------------------------------------------------------------
(* A simulation.                                                              *)

RoundsWell(x, y) == y \in Nat /\ 2 * (y * Parts - x) \in (-Parts)..Parts

LEMMA RoundedIs ==
  ASSUME NEW x \in Nat
  PROVE  RoundsWell(x, Rounded(x))
  <1>1. Parts \in Nat \ {0}
    BY PartsAssumption
  <1> PICK q \in Nat, r \in 0..(Parts - 1), z \in Nat :
        q = x \div Parts /\ r = x % Parts /\ z = q * Parts /\ x = z + r
    <2>1. /\ x \div Parts \in Nat /\ x % Parts \in 0..(Parts - 1) /\ (x \div Parts) * Parts \in Nat
          /\ x = (x \div Parts) * Parts + (x % Parts)
      BY <1>1, DivisionFacts, Zenon
    <2> QED BY <2>1
  <1>2. (q + 1) * Parts = z + Parts
    BY <1>1, NextMultiple
  <1>3. Rounded(x) = IF 2 * r > Parts \/ (2 * r = Parts /\ q % 2 = 1) THEN q + 1 ELSE q
    BY DEF Rounded
  <1>4. CASE 2 * r > Parts \/ (2 * r = Parts /\ q % 2 = 1)
    <2>1. Rounded(x) = q + 1 /\ 2 * r >= Parts
      BY <1>1, <1>3, <1>4
    <2>2. Rounded(x) * Parts = z + Parts
      BY <1>2, <2>1
    <2> QED BY <1>1, <2>1, <2>2 DEF RoundsWell
  <1>5. CASE ~(2 * r > Parts \/ (2 * r = Parts /\ q % 2 = 1))
    <2>1. Rounded(x) = q
      BY <1>3, <1>5
    <2>2. 2 * r <= Parts
      BY <1>1, <1>5
    <2> QED BY <1>1, <2>1, <2>2 DEF RoundsWell
  <1> QED BY <1>4, <1>5

SimType == [window : Nat, iters : Nat, billed : Nat, carbon : Nat, paused : BOOLEAN, ran : Nat]

SimInv(sim) == sim \in SimType /\ CountsWhatItBills(sim)

LEMMA SimBegins == SimInv(SimInit)
  <1>1. 0 * Parts - 0 = 0 /\ 0 * Parts = 0
    BY PartsAssumption
  <1>2. SimInit \in SimType /\ SimInit.iters = 0 /\ SimInit.billed = 0 /\ SimInit.ran = 0
    BY DEF SimInit, SimType
  <1>3. CountsWhatItBills(SimInit)
    BY <1>1, <1>2 DEF CountsWhatItBills
  <1> QED BY <1>2, <1>3 DEF SimInv

LEMMA IntensityType ==
  ASSUME NEW c, IsSimulation(c), NEW sim \in SimType
  PROVE  IntensityIn(c, sim) \in Nat
  <1>1. c.schedule \in Seq(Nat) /\ Len(c.schedule) \in Nat \ {0} /\ sim.window \in Nat
    BY DEF IsSimulation, SimType
  <1>2. sim.window % Len(c.schedule) \in 0..(Len(c.schedule) - 1)
    BY <1>1, DivisionFacts, Zenon
  <1>3. (sim.window % Len(c.schedule)) + 1 \in 1..Len(c.schedule)
    BY <1>1, <1>2
  <1> QED BY <1>1, <1>3, ElementOfSeq DEF IntensityIn

\* The work of one more window, x parts counted as y iterations.
LEMMA CountGrows ==
  ASSUME NEW i \in Nat, NEW b \in Nat, NEW r \in Nat, NEW x \in Nat, NEW y, RoundsWell(x, y),
         2 * (i * Parts - b) \in (-(r * Parts))..(r * Parts)
  PROVE  2 * ((i + y) * Parts - (b + x)) \in (-((r + 1) * Parts))..((r + 1) * Parts)
  <1>1. Parts \in Nat \ {0} /\ y \in Nat /\ 2 * (y * Parts - x) \in (-Parts)..Parts
    BY PartsAssumption DEF RoundsWell
  <1> PICK u \in Nat, w \in Nat, v \in Nat : u = i * Parts /\ w = y * Parts /\ v = r * Parts
    <2>1. i * Parts \in Nat /\ y * Parts \in Nat /\ r * Parts \in Nat
      BY <1>1
    <2> QED BY <2>1
  <1>2. (i + y) * Parts = u + w /\ (r + 1) * Parts = v + Parts
    <2>1. (i + y) * Parts = i * Parts + y * Parts /\ (r + 1) * Parts = r * Parts + Parts
      BY <1>1
    <2> QED BY <2>1
  <1> QED BY <1>1, <1>2

LEMMA SimStep ==
  ASSUME NEW c, IsSimulation(c), NEW sim, SimInv(sim)
  PROVE  SimInv(SimWindow(c, sim))
  <1>1. sim \in SimType /\ CountsWhatItBills(sim) /\ IntensityIn(c, sim) \in Nat
    BY IntensityType DEF SimInv
  <1>2. /\ sim.window \in Nat /\ sim.iters \in Nat /\ sim.billed \in Nat /\ sim.carbon \in Nat
        /\ sim.paused \in BOOLEAN /\ sim.ran \in Nat
    BY <1>1 DEF SimType
  <1>3. /\ c.total \in Nat /\ c.resume \in Nat /\ c.idle \in Nat
        /\ c.clean \in [parts : Nat, energy : Nat] /\ c.dirty \in [parts : Nat, energy : Nat]
    BY DEF IsSimulation
  <1> PICK I \in Nat : I = IntensityIn(c, sim)
    BY <1>1
  <1>4. CASE SimWindow(c, sim) = sim
    BY <1>4
  <1>5. CASE SimWindow(c, sim) = PauseWindow(c, sim)
    <2> PICK g \in Nat : g = c.idle * I
      <3>1. c.idle * I \in Nat
        BY <1>3
      <3> QED BY <3>1
    <2>1. SimWindow(c, sim) = [sim EXCEPT !.window = @ + 1, !.paused = TRUE, !.carbon = @ + g]
      BY <1>5 DEF PauseWindow
    <2>2. SimWindow(c, sim) \in SimType
      <3>1. SimWindow(c, sim) =
              [window |-> sim.window + 1, iters |-> sim.iters, billed |-> sim.billed,
               carbon |-> sim.carbon + g, paused |-> TRUE, ran |-> sim.ran]
        BY <1>1, <2>1 DEF SimType
      <3> QED BY <1>2, <3>1 DEF SimType
    <2>3. /\ SimWindow(c, sim).iters = sim.iters /\ SimWindow(c, sim).billed = sim.billed
          /\ SimWindow(c, sim).ran = sim.ran
      BY <1>1, <2>1 DEF SimType
    <2> QED BY <1>1, <2>2, <2>3, Zenon DEF SimInv, CountsWhatItBills
  <1>6. CASE Running(c, sim) /\ SimWindow(c, sim) = TrainWindow(c, sim)
    <2> DEFINE point == IF Active(c, sim) THEN c.clean ELSE c.dirty
               left == (c.total - sim.iters) * Parts
               parts == IF point.parts < left THEN point.parts ELSE left
    <2>1. parts \in Nat /\ point.energy \in Nat
      <3>1. c.total - sim.iters \in Nat
        BY <1>2, <1>3, <1>6 DEF Running
      <3>2. left \in Nat
        BY <3>1, PartsAssumption
      <3>3. point \in [parts : Nat, energy : Nat]
        BY <1>3
      <3>4. point.parts \in Nat /\ point.energy \in Nat
        BY <3>3
      <3> QED BY <3>2, <3>4
    <2> PICK x \in Nat : x = parts
      BY <2>1
    <2> PICK y \in Nat : y = Rounded(x) /\ RoundsWell(x, y)
      BY RoundedIs DEF RoundsWell
    <2> PICK g \in Nat : g = parts * point.energy * I
      <3>1. parts * point.energy \in Nat
        <4> HIDE DEF parts, point
        <4> QED BY <2>1
      <3>2. parts * point.energy * I \in Nat
        <4> HIDE DEF parts, point
        <4> QED BY <3>1
      <3> QED BY <3>2
    <2> PICK h \in Nat : h = Resume(c, sim)
      <3>1. c.resume * I \in Nat
        BY <1>3
      <3> QED BY <3>1 DEF Resume
    <2>2. TrainWindow(c, sim) =
            [sim EXCEPT !.window = @ + 1, !.paused = FALSE, !.ran = @ + 1,
                        !.iters = @ + y, !.billed = @ + x, !.carbon = @ + h + g]
      BY Zenon DEF TrainWindow
    <2> HIDE DEF parts, left, point
    <2>3. TrainWindow(c, sim) \in SimType
      <3>1. TrainWindow(c, sim) =
              [window |-> sim.window + 1, iters |-> sim.iters + y, billed |-> sim.billed + x,
               carbon |-> sim.carbon + h + g, paused |-> FALSE, ran |-> sim.ran + 1]
        BY <1>1, <2>2 DEF SimType
      <3> QED BY <1>2, <3>1 DEF SimType
    <2>4. /\ TrainWindow(c, sim).iters = sim.iters + y /\ TrainWindow(c, sim).billed = sim.billed + x
          /\ TrainWindow(c, sim).ran = sim.ran + 1
      BY <1>1, <2>2 DEF SimType
    <2>5. CountsWhatItBills(TrainWindow(c, sim))
      <3>1. 2 * (sim.iters * Parts - sim.billed) \in (-(sim.ran * Parts))..(sim.ran * Parts)
        BY <1>1 DEF CountsWhatItBills
      <3>2. 2 * ((sim.iters + y) * Parts - (sim.billed + x))
              \in (-((sim.ran + 1) * Parts))..((sim.ran + 1) * Parts)
        BY <1>2, <3>1, CountGrows
      <3> QED BY <2>4, <3>2, Zenon DEF CountsWhatItBills
    <2> QED BY <1>6, <2>3, <2>5 DEF SimInv
  <1> QED BY <1>1, <1>4, <1>5, <1>6, Zenon DEF SimWindow, SimInv

-----------------------------------------------------------------------------
(* The estimators of carbon, each by its own action.                          *)

CarbonInv ==
  /\ ProblemInv
  /\ kind = "simulation" => SimInv(answer.given)
  /\ asked > 0 =>
       /\ kind = "emissions" => answer = Emissions(problem)
       /\ kind = "lookup" =>
            answer = [trace |-> IntensityAt(problem.series, problem.at),
                      background |-> BackgroundAt(problem.series, problem.at)]
       /\ kind = "sources" => answer = Aggregate(problem.sources, problem.perUnit)
       /\ kind = "samples" =>
            answer = [threshold |-> QuantileThreshold(problem),
                      rotated |-> [o \in 0..2 |-> Rotated(problem.trace, o)],
                      offsets |-> Offsets(problem, problem.stride)]

LEMMA CarbonTypes ==
  ASSUME ProblemInv
  PROVE  /\ kind = "emissions" => IsEstimate(problem)
         /\ kind = "lookup" => IsLookup(problem)
         /\ kind = "sources" => IsSources(problem)
         /\ kind = "samples" => IsSampled(problem)
         /\ kind = "simulation" => IsSimulation(problem)
  BY CarbonAssumption DEF ProblemInv

LEMMA CarbonInvInit == Init => CarbonInv
  <1> SUFFICES ASSUME Init PROVE CarbonInv
    OBVIOUS
  <1>1. ProblemInv /\ asked = 0 /\ answer = FirstAnswer(kind, problem)
    BY DEF Init, ProblemInv
  <1>2. kind = "simulation" => SimInv(answer.given)
    BY <1>1, SimBegins DEF FirstAnswer
  <1> QED BY <1>1, <1>2 DEF CarbonInv

LEMMA CarbonInvNext == CarbonInv /\ [Next]_vars => CarbonInv'
  <1> SUFFICES ASSUME CarbonInv, [Next]_vars PROVE CarbonInv'
    OBVIOUS
  <1>1. CASE UNCHANGED vars
    BY <1>1 DEF CarbonInv, ProblemInv, vars
  <1>2. CASE Next
    <2>1. kind' = kind /\ problem' = problem /\ ProblemInv /\ ProblemInv'
      BY <1>2, OwnAction DEF CarbonInv, ProblemInv
    <2>2. CASE kind = "emissions"
      <3>1. answer' = Emissions(problem)
        BY <1>2, <2>2, OwnAction DEF ProjectEmissions, Once
      <3> QED BY <2>1, <2>2, <3>1 DEF CarbonInv
    <2>3. CASE kind = "lookup"
      <3>1. answer' = [trace |-> IntensityAt(problem.series, problem.at),
                       background |-> BackgroundAt(problem.series, problem.at)]
        BY <1>2, <2>3, OwnAction DEF LookUp, Once
      <3> QED BY <2>1, <2>3, <3>1 DEF CarbonInv
    <2>4. CASE kind = "sources"
      <3>1. answer' = Aggregate(problem.sources, problem.perUnit)
        BY <1>2, <2>4, OwnAction DEF ReadSources, Once
      <3> QED BY <2>1, <2>4, <3>1 DEF CarbonInv
    <2>5. CASE kind = "samples"
      <3>1. answer' = [threshold |-> QuantileThreshold(problem),
                       rotated |-> [o \in 0..2 |-> Rotated(problem.trace, o)],
                       offsets |-> Offsets(problem, problem.stride)]
        BY <1>2, <2>5, OwnAction DEF CutSamples, Once
      <3> QED BY <2>1, <2>5, <3>1 DEF CarbonInv
    <2>6. CASE kind = "simulation"
      <3>1. Simulate /\ IsSimulation(problem) /\ SimInv(answer.given)
        BY <1>2, <2>1, <2>6, OwnAction, CarbonTypes DEF CarbonInv
      <3>2. answer'.given = SimWindow(problem, answer.given)
        BY <3>1 DEF Simulate
      <3>3. SimInv(answer'.given)
        BY <3>1, <3>2, SimStep
      <3> QED BY <2>1, <2>6, <3>3 DEF CarbonInv
    <2>7. CASE kind \notin {"emissions", "lookup", "sources", "samples", "simulation"}
      BY <2>1, <2>7 DEF CarbonInv
    <2> QED BY <2>2, <2>3, <2>4, <2>5, <2>6, <2>7
  <1> QED BY <1>1, <1>2

(* The carbon of an admission estimate misses less than an iteration of each  *)
(* slice; a lookup gives the value on the line between its neighbours; the    *)
(* band of an unflagged reading of several sources holds all that went into   *)
(* it; rotated samples keep the distribution of their trace, and those that   *)
(* fit end within it; and a simulation bills what it counts but for half an   *)
(* iteration a window (mss.py:119-149, carbon_trace.py:56-75,                 *)
(* background.py:38-54, carbon_sources.py:278-315, trace_schedule.py:37-78,   *)
(* throttle_pareto.py:140-148).                                               *)
THEOREM CarbonAccounted == Spec => []CarbonIsAccounted
  <1>1. CarbonInv => CarbonIsAccounted
    <2> SUFFICES ASSUME CarbonInv PROVE CarbonIsAccounted
      OBVIOUS
    <2>1. ProblemInv
      BY DEF CarbonInv
    <2>2. kind = "emissions" /\ asked > 0 => EmissionsAreClose(problem, answer)
      BY <2>1, CarbonTypes, EstimateIsClose, Zenon DEF CarbonInv
    <2>3. ASSUME kind = "lookup", asked > 0
          PROVE  /\ LookupIsRight(problem.series, problem.at, answer.trace)
                 /\ LookupIsRight(problem.series, problem.at, answer.background)
      <3>1. /\ answer.trace = IntensityAt(problem.series, problem.at)
            /\ answer.background = BackgroundAt(problem.series, problem.at)
        BY <2>3 DEF CarbonInv
      <3>2. IsLookup(problem)
        BY <2>1, <2>3, CarbonTypes
      <3> QED BY <3>1, <3>2, IntensityIsRight, BackgroundIsRight, Zenon
    <2>4. kind = "sources" /\ asked > 0 => BandHoldsAll(problem.sources, answer)
      BY <2>1, CarbonTypes, BandIsRight, Zenon DEF CarbonInv
    <2>5. ASSUME kind = "samples", asked > 0 PROVE SamplesAreRight(problem, answer)
      <3>1. /\ answer.threshold = QuantileThreshold(problem)
            /\ answer.rotated = [o \in 0..2 |-> Rotated(problem.trace, o)]
            /\ answer.offsets = Offsets(problem, problem.stride)
        BY <2>5 DEF CarbonInv
      <3> QED BY <2>1, <2>5, <3>1, CarbonTypes, SamplesFit
    <2>6. kind = "simulation" => CountsWhatItBills(answer.given)
      BY DEF CarbonInv, SimInv
    <2> QED BY <2>2, <2>3, <2>4, <2>5, <2>6 DEF CarbonIsAccounted
  <1> QED BY <1>1, CarbonInvInit, CarbonInvNext, PTL DEF Spec

-----------------------------------------------------------------------------
(* The tests.                                                                 *)

\* What is ranked next is not smaller.
LEMMA RankOrders ==
  ASSUME NEW n, NEW s, IsValues(s, n), NEW t \in 1..n, NEW u \in 1..n, Rank(s, t) <= Rank(s, u)
  PROVE  s[t] <= s[u]
  <1> SUFFICES ASSUME s[u] < s[t] PROVE FALSE
    BY DEF IsValues
  <1>1. Rank(s, u) \in 1..n /\ Rank(s, t) \in 1..n /\ n \in Nat /\ s[u] \in Int /\ s[t] \in Int
    BY RankIsPlace DEF IsValues
  <1>2. Rank(s, u) < Rank(s, t)
    BY <1>1, RankIsStrict DEF ComesFirst
  <1> QED BY <1>1, <1>2

LEMMA RankedOfRank ==
  ASSUME NEW n, NEW s, IsValues(s, n), NEW t \in 1..n
  PROVE  Ranked(s)[Rank(s, t)] = t /\ Rank(s, t) \in 1..n
  <1>1. Rank(s, t) \in 1..n /\ n \in Nat /\ \A k \in 1..n : s[k] \in Int
    BY RankIsPlace DEF IsValues
  <1> PICK u \in 1..n : u = Ranked(s)[Rank(s, t)] /\ Rank(s, u) = Rank(s, t)
    BY <1>1, RankedHasRank
  <1> SUFFICES ASSUME t # u PROVE FALSE
    BY <1>1
  <1>2. s[t] \in Int /\ s[u] \in Int
    BY <1>1
  <1>3. ComesFirst(s, t, u) \/ ComesFirst(s, u, t)
    BY <1>2 DEF ComesFirst
  <1>4. Rank(s, t) < Rank(s, u) \/ Rank(s, u) < Rank(s, t)
    BY <1>3, RankIsStrict
  <1> QED BY <1>1, <1>4

\* What has rank k or a later one.
From(s, k) == {u \in DOMAIN s : k <= Rank(s, u)}

LEMMA FromCounts ==
  ASSUME NEW n, NEW s, IsValues(s, n), NEW k \in 1..n
  PROVE  /\ IsFiniteSet(From(s, k)) /\ Cardinality(From(s, k)) = n + 1 - k
         /\ From(s, k) \in SUBSET DOMAIN s
  <1>1. n \in Nat /\ DOMAIN s = 1..n
    BY DEF IsValues
  <1> DEFINE f == [l \in k..n |-> Ranked(s)[l]]
             F == From(s, k)
  <1>2. \A l \in k..n : f[l] \in F /\ Rank(s, f[l]) = l
    BY <1>1, RankedHasRank DEF From
  <1>3. f \in [k..n -> F]
    BY <1>2
  <1>4. \A u \in F : Rank(s, u) \in k..n /\ f[Rank(s, u)] = u
    BY <1>1, RankedOfRank DEF From
  <1> HIDE DEF f, F
  <1>5. \A l, m \in k..n : f[l] = f[m] => l = m
    BY <1>2
  <1>6. f \in Injection(k..n, F) /\ f \in Surjection(k..n, F)
    BY <1>3, <1>4, <1>5 DEF Injection, IsInjective, Surjection
  <1>7. ExistsBijection(k..n, F)
    BY <1>6 DEF ExistsBijection, Bijection
  <1>8. IsFiniteSet(k..n) /\ Cardinality(k..n) = n + 1 - k
    BY <1>1, FS_Interval
  <1>9. IsFiniteSet(F) /\ Cardinality(F) = n + 1 - k
    BY <1>7, <1>8, FS_Bijection
  <1> QED BY <1>9 DEF F, From

\* t is rejected by all of the intersections it takes part in.
ClosedRejects(p, alpha, t) ==
  \A S \in SUBSET DOMAIN p : t \in S => \E l \in S : p[l] * Cardinality(S) <= alpha
\* The hypotheses up to rank k pass the thresholds of the steps.
StepsReject(p, alpha, k) ==
  \A l \in 1..k : p[Ranked(p)[l]] * (Len(p) + 1 - l) <= alpha

LEMMA StepsAreClosed ==
  ASSUME NEW p \in Seq(Nat), NEW alpha \in Nat, NEW t \in DOMAIN p
  PROVE  StepsReject(p, alpha, Rank(p, t)) <=> ClosedRejects(p, alpha, t)
  <1> DEFINE n == Len(p)
  <1>1. n \in Nat /\ DOMAIN p = 1..n /\ IsValues(p, n) /\ \A k \in 1..n : p[k] \in Nat
    BY DEF IsValues
  <1> HIDE DEF n
  <1>2. Rank(p, t) \in 1..n
    BY <1>1, RankIsPlace
  <1>3. ASSUME StepsReject(p, alpha, Rank(p, t)), NEW S \in SUBSET DOMAIN p, t \in S
        PROVE  \E l \in S : p[l] * Cardinality(S) <= alpha
    <2> DEFINE R == {Rank(p, u) : u \in S}
    <2>1. R \in SUBSET Nat /\ R # {} /\ Rank(p, t) \in R
      BY <1>1, <1>3, RankIsPlace
    <2>2. PICK l \in R : \A m \in R : l <= m
      BY <2>1, SmallestExists
    <2>3. PICK u \in S : l = Rank(p, u)
      BY <2>2
    <2>4. l <= Rank(p, t) /\ l \in 1..n /\ Ranked(p)[l] = u /\ p[u] \in Nat
      <3>1. u \in 1..n /\ p[u] \in Nat
        BY <1>1
      <3>2. Ranked(p)[Rank(p, u)] = u /\ Rank(p, u) \in 1..n
        BY <1>1, <3>1, RankedOfRank
      <3>3. l <= Rank(p, t)
        BY <2>1, <2>2
      <3> QED BY <2>3, <3>1, <3>2, <3>3
    <2>5. S \subseteq From(p, l)
      BY <2>2 DEF From
    <2>6. /\ IsFiniteSet(From(p, l)) /\ Cardinality(From(p, l)) = n + 1 - l
      BY <1>1, <2>4, FromCounts
    <2>7. /\ Cardinality(S) <= n + 1 - l /\ Cardinality(S) \in Nat
      BY <2>5, <2>6, FS_Subset, FS_CardinalityType
    <2>8. p[u] * (n + 1 - l) <= alpha
      <3>1. l \in 1..Rank(p, t)
        BY <1>2, <2>4
      <3> QED BY <1>3, <2>4, <3>1 DEF StepsReject, n
    <2>9. n + 1 - l \in Nat
      BY <1>1, <2>4
    <2>10. p[u] * Cardinality(S) <= p[u] * (n + 1 - l) /\ p[u] * Cardinality(S) \in Nat
           /\ p[u] * (n + 1 - l) \in Nat
      <3> PICK c \in Nat : c = n + 1 - l
        BY <2>9
      <3>1. p[u] \in Nat /\ p[u] <= p[u] /\ Cardinality(S) \in Nat /\ Cardinality(S) <= c
        BY <2>4, <2>7
      <3>2. p[u] * Cardinality(S) <= p[u] * c /\ p[u] * Cardinality(S) \in Nat /\ p[u] * c \in Nat
        BY ONLY <3>1, c \in Nat, ProductsGrow, Zenon
      <3> QED BY <3>2
    <2> QED BY <2>3, <2>8, <2>10
  <1>4. ASSUME ClosedRejects(p, alpha, t), NEW l \in 1..Rank(p, t)
        PROVE  p[Ranked(p)[l]] * (n + 1 - l) <= alpha
    <2>1. l \in 1..n /\ l <= Rank(p, t) /\ n + 1 - l \in Nat
      BY <1>1, <1>2
    <2>2. /\ Cardinality(From(p, l)) = n + 1 - l
          /\ From(p, l) \in SUBSET DOMAIN p
      BY <1>1, <2>1, FromCounts
    <2>3. t \in From(p, l)
      BY <2>1 DEF From
    <2>4. PICK u \in From(p, l) : p[u] * (n + 1 - l) <= alpha
      BY <1>4, <2>2, <2>3 DEF ClosedRejects
    <2>5. PICK v \in 1..n : v = Ranked(p)[l] /\ Rank(p, v) = l
      <3>1. IsValues(p, n) /\ l \in 1..n
        BY <1>1, <2>1
      <3>2. Ranked(p)[l] \in 1..n /\ Rank(p, Ranked(p)[l]) = l
        BY <3>1, RankedHasRank, Zenon
      <3> QED BY <3>2
    <2>6. u \in 1..n /\ l <= Rank(p, u)
      BY <1>1, <2>2 DEF From
    <2>7. p[v] <= p[u] /\ p[v] \in Nat /\ p[u] \in Nat
      BY <1>1, <2>5, <2>6, RankOrders
    <2>8. p[v] * (n + 1 - l) <= p[u] * (n + 1 - l) /\ p[v] * (n + 1 - l) \in Nat
          /\ p[u] * (n + 1 - l) \in Nat
      <3> PICK c \in Nat : c = n + 1 - l
        BY <2>1
      <3>1. c <= c
        OBVIOUS
      <3>2. p[v] * c <= p[u] * c /\ p[v] * c \in Nat /\ p[u] * c \in Nat
        BY ONLY <2>7, <3>1, c \in Nat, ProductsGrow, Zenon
      <3> QED BY <3>2
    <2> QED BY <2>4, <2>5, <2>8
  <1> QED BY <1>3, <1>4 DEF StepsReject, ClosedRejects, n

LEMMA HolmIsClosed ==
  ASSUME NEW p \in Seq(Nat), NEW alpha \in Nat
  PROVE  Holm(p, alpha) = {t \in DOMAIN p : ClosedRejects(p, alpha, t)}
  <1> DEFINE n == Len(p)
  <1>1. n \in Nat /\ DOMAIN p = 1..n /\ IsValues(p, n)
    BY DEF IsValues
  <1> HIDE DEF n
  <1>2. Holm(p, alpha) = {Ranked(p)[k] : k \in {k \in DOMAIN p : StepsReject(p, alpha, k)}}
    BY DEF Holm, ByPValue, StepsReject
  <1>3. ASSUME NEW k \in DOMAIN p, StepsReject(p, alpha, k)
        PROVE  Ranked(p)[k] \in DOMAIN p /\ ClosedRejects(p, alpha, Ranked(p)[k])
    BY <1>1, <1>3, RankedHasRank, StepsAreClosed
  <1>4. ASSUME NEW t \in DOMAIN p, ClosedRejects(p, alpha, t)
        PROVE  \E k \in DOMAIN p : StepsReject(p, alpha, k) /\ t = Ranked(p)[k]
    <2>1. Rank(p, t) \in DOMAIN p /\ t = Ranked(p)[Rank(p, t)]
      BY <1>1, RankedOfRank
    <2> QED BY <1>4, <2>1, StepsAreClosed
  <1> QED BY <1>2, <1>3, <1>4
-----------------------------------------------------------------------------
Signs(diffs) == [DOMAIN diffs -> BOOLEAN]
Signed(diffs, signs) == [k \in DOMAIN diffs |-> IF signs[k] THEN diffs[k] ELSE -diffs[k]]
Opposite(diffs) == [k \in DOMAIN diffs |-> -diffs[k]]
IsExtreme(diffs, signs) ==
  \/ Magnitude(SumFunction(diffs)) = 0
  \/ Magnitude(SignedSum(diffs, signs)) >= Magnitude(SumFunction(diffs))

\* Differences, one at least.
AreDiffs(diffs, n) ==
  /\ n \in Nat \ {0} /\ DOMAIN diffs = 1..n /\ \A k \in 1..n : diffs[k] \in Int

LEMMA MagnitudeIs ==
  ASSUME NEW n \in Int
  PROVE  /\ Magnitude(n) \in Nat /\ Magnitude(-n) = Magnitude(n)
         /\ Magnitude(n) = 0 <=> n = 0
  BY DEF Magnitude

LEMMA SignedSums ==
  ASSUME NEW n, NEW diffs, AreDiffs(diffs, n), NEW signs \in Signs(diffs)
  PROVE  /\ SumFunction(diffs) \in Int /\ SignedSum(diffs, signs) \in Int
         /\ SignedSum(diffs, signs) = SumFunctionOnSet(Signed(diffs, signs), 1..n)
         /\ SumFunction(diffs) = SumFunctionOnSet(diffs, 1..n)
         /\ \A k \in 1..n : Signed(diffs, signs)[k] \in Int
  <1>1. IsFiniteSet(1..n) /\ DOMAIN diffs = 1..n /\ \A k \in 1..n : diffs[k] \in Int
    BY FS_Interval DEF AreDiffs
  <1>2. \A k \in 1..n : Signed(diffs, signs)[k] \in Int
    BY <1>1 DEF Signed
  <1>3. DOMAIN Signed(diffs, signs) = 1..n
    BY <1>1 DEF Signed
  <1>4. /\ SignedSum(diffs, signs) = SumFunctionOnSet(Signed(diffs, signs), 1..n)
        /\ SumFunction(diffs) = SumFunctionOnSet(diffs, 1..n)
    BY <1>1, <1>3, Zenon DEF SignedSum, SumFunction, Signed
  <1> QED BY <1>1, <1>2, <1>4, SumType

\* The two signs that take all differences as they are, or none.
LEMMA SameSigns ==
  ASSUME NEW n, NEW diffs, AreDiffs(diffs, n), NEW signs \in Signs(diffs)
  PROVE  /\ (\A k \in 1..n : signs[k]) => SignedSum(diffs, signs) = SumFunction(diffs)
         /\ (\A k \in 1..n : ~signs[k]) => SignedSum(diffs, signs) = -SumFunction(diffs)
  <1>1. IsFiniteSet(1..n) /\ DOMAIN diffs = 1..n /\ \A k \in 1..n : diffs[k] \in Int
    BY FS_Interval DEF AreDiffs
  <1>2. ASSUME \A k \in 1..n : signs[k]
        PROVE  SignedSum(diffs, signs) = SumFunction(diffs)
    <2>1. \A k \in 1..n : diffs[k] \in Int /\ Signed(diffs, signs)[k] = diffs[k]
      BY <1>1, <1>2 DEF Signed
    <2>2. SumFunctionOnSet(diffs, 1..n) = SumFunctionOnSet(Signed(diffs, signs), 1..n)
      BY <1>1, <2>1, SumSame
    <2> QED BY <2>2, SignedSums
  <1>3. ASSUME \A k \in 1..n : ~signs[k]
        PROVE  SignedSum(diffs, signs) = -SumFunction(diffs)
    <2>1. \A k \in 1..n : diffs[k] \in Int /\ Signed(diffs, signs)[k] = -diffs[k]
      BY <1>1, <1>3 DEF Signed
    <2>2. SumFunctionOnSet(Signed(diffs, signs), 1..n) = -SumFunctionOnSet(diffs, 1..n)
      BY <1>1, <2>1, SumNegated
    <2> QED BY <2>2, SignedSums
  <1> QED BY <1>2, <1>3

\* Taking one difference the other way takes it off twice.
LEMMA OneFlipped ==
  ASSUME NEW n, NEW diffs, AreDiffs(diffs, n), NEW j \in 1..n, NEW signs \in Signs(diffs),
         \A k \in 1..n : signs[k] <=> k # j
  PROVE  SignedSum(diffs, signs) = SumFunction(diffs) - 2 * diffs[j]
  <1>1. IsFiniteSet(1..n) /\ DOMAIN diffs = 1..n /\ \A k \in 1..n : diffs[k] \in Int
    BY FS_Interval DEF AreDiffs
  <1> PICK d \in Int : d = -2 * diffs[j]
    BY <1>1
  <1> PICK S, g : S = 1..n /\ g = Signed(diffs, signs)
    OBVIOUS
  <1>2. IsFiniteSet(S) /\ j \in S /\ \A k \in S : diffs[k] \in Int
    BY <1>1
  <1>3. (\A k \in S \ {j} : g[k] = diffs[k]) /\ g[j] = diffs[j] + d
    BY <1>1 DEF Signed
  <1>4. SumFunctionOnSet(g, S) = SumFunctionOnSet(diffs, S) + d
    BY ONLY <1>2, <1>3, d \in Int, SumChanged
  <1> QED BY <1>1, <1>4, SignedSums

LEMMA SignsAreFinite ==
  ASSUME NEW n, NEW diffs, AreDiffs(diffs, n)
  PROVE  IsFiniteSet(Signs(diffs))
  <1>1. IsFiniteSet(1..n) /\ DOMAIN diffs = 1..n
    BY FS_Interval DEF AreDiffs
  <1> DEFINE f == [signs \in Signs(diffs) |-> {k \in 1..n : signs[k]}]
  <1>2. f \in [Signs(diffs) -> SUBSET (1..n)]
    OBVIOUS
  <1>3. ASSUME NEW a \in Signs(diffs), NEW b \in Signs(diffs), f[a] = f[b] PROVE a = b
    <2>1. \A k \in 1..n : a[k] \in BOOLEAN /\ b[k] \in BOOLEAN /\ (a[k] <=> b[k])
      BY <1>1, <1>3 DEF Signs
    <2>2. \A k \in 1..n : a[k] = b[k]
      BY <2>1, Zenon
    <2>3. a \in [1..n -> BOOLEAN] /\ b \in [1..n -> BOOLEAN]
      BY <1>1 DEF Signs
    <2>4. a = [k \in 1..n |-> a[k]] /\ b = [k \in 1..n |-> b[k]]
      BY <2>3
    <2>5. [k \in 1..n |-> a[k]] = [k \in 1..n |-> b[k]]
      BY <2>2
    <2> QED BY <2>4, <2>5, Zenon
  <1> HIDE DEF f
  <1>4. f \in Injection(Signs(diffs), SUBSET (1..n))
    BY <1>2, <1>3 DEF Injection, IsInjective
  <1> QED BY <1>1, <1>4, FS_SUBSET, FS_Injection

\* Two members, or three, count as many.
LEMMA SomeMembers ==
  ASSUME NEW S, IsFiniteSet(S), NEW a \in S, NEW b \in S, a # b
  PROVE  /\ Cardinality(S) \in Nat /\ Cardinality(S) >= 2
         /\ \A c \in S : c # a /\ c # b => Cardinality(S) >= 3
  <1>1. /\ IsFiniteSet(S \ {a}) /\ Cardinality(S) \in Nat /\ Cardinality(S \ {a}) \in Nat
        /\ Cardinality(S \ {a}) = Cardinality(S) - 1
    BY RemovalShrinks
  <1>2. b \in S \ {a}
    OBVIOUS
  <1> DEFINE T == (S \ {a}) \ {b}
  <1>3. /\ IsFiniteSet(T) /\ Cardinality(T) \in Nat
        /\ Cardinality(T) = Cardinality(S \ {a}) - 1
    BY <1>1, <1>2, RemovalShrinks
  <1>4. ASSUME NEW c \in S, c # a, c # b PROVE Cardinality(T) # 0
    BY <1>3, <1>4, FS_EmptySet
  <1> QED BY <1>1, <1>3, <1>4

LEMMA ProductOfSigns ==
  ASSUME NEW a \in Int, NEW b \in Int, (a > 0 /\ b > 0) \/ (a < 0 /\ b < 0)
  PROVE  a * b > 0
  OBVIOUS

Extremes(diffs) == {signs \in Signs(diffs) : IsExtreme(diffs, signs)}

LEMMA ExtremeCounts ==
  ASSUME NEW diffs
  PROVE  Extreme(diffs) = Cardinality(Extremes(diffs))
  BY DEF Extreme, Extremes, IsExtreme, Signs

\* Differences whose count of signs has the floor it should have.
HasFloor(diffs) ==
  /\ Extreme(diffs) >= 2
  /\ Extreme(diffs) = 2 /\ SumFunction(diffs) # 0 =>
       \A k, l \in DOMAIN diffs : diffs[k] * diffs[l] > 0

LEMMA FloorIsTwo ==
  ASSUME NEW n, NEW diffs, AreDiffs(diffs, n)
  PROVE  HasFloor(diffs)
  <1> DEFINE taken == [k \in 1..n |-> TRUE]
             flipped == [k \in 1..n |-> FALSE]
  <1>1. n \in Nat \ {0} /\ DOMAIN diffs = 1..n /\ \A k \in 1..n : diffs[k] \in Int
    BY DEF AreDiffs
  <1>2. taken \in Signs(diffs) /\ flipped \in Signs(diffs)
    BY <1>1 DEF Signs
  <1>3. taken # flipped
    <2>1. 1 \in 1..n
      BY <1>1
    <2>2. taken[1] = TRUE /\ flipped[1] = FALSE
      BY <2>1
    <2> HIDE DEF taken, flipped
    <2> QED BY <2>2
  <1> PICK sum \in Int : sum = SumFunction(diffs)
    BY <1>2, SignedSums
  <1>4. SignedSum(diffs, taken) = sum /\ SignedSum(diffs, flipped) = -sum
    <2>1. \A k \in 1..n : taken[k] /\ ~flipped[k]
      OBVIOUS
    <2> HIDE DEF taken, flipped
    <2> QED BY <1>2, <2>1, SameSigns
  <1>5. \A k \in 1..n : taken[k] = TRUE /\ flipped[k] = FALSE
    OBVIOUS
  <1> HIDE DEF taken, flipped
  <1>6. taken \in Extremes(diffs) /\ flipped \in Extremes(diffs)
    BY <1>2, <1>4, MagnitudeIs DEF Extremes, IsExtreme
  <1>7. IsFiniteSet(Extremes(diffs))
    BY SignsAreFinite, FS_Subset DEF Extremes
  <1>8. Extreme(diffs) >= 2
    BY <1>3, <1>6, <1>7, SomeMembers, ExtremeCounts
  <1>9. ASSUME Extreme(diffs) = 2, sum # 0, NEW k \in 1..n, NEW l \in 1..n
        PROVE  diffs[k] * diffs[l] > 0
    <2>1. ASSUME NEW j \in 1..n, ~((sum > 0 /\ diffs[j] > 0) \/ (sum < 0 /\ diffs[j] < 0))
          PROVE  FALSE
      <3> DEFINE signs == [i \in 1..n |-> i # j]
      <3> PICK d \in Int : d = diffs[j]
        BY <1>1
      <3>1. signs \in Signs(diffs) /\ \A i \in 1..n : signs[i] <=> i # j
        BY <1>1 DEF Signs
      <3>2. signs[j] = FALSE
        OBVIOUS
      <3> HIDE DEF signs
      <3>3. SignedSum(diffs, signs) = sum - 2 * d
        BY <3>1, OneFlipped
      <3>4. (sum > 0 /\ d <= 0) \/ (sum < 0 /\ d >= 0)
        BY <1>9, <2>1
      <3>5. Magnitude(sum - 2 * d) >= Magnitude(sum)
        BY <3>4 DEF Magnitude
      <3>6. signs \in Extremes(diffs)
        BY <3>1, <3>3, <3>5 DEF Extremes, IsExtreme
      <3>7. signs # taken
        BY <1>5, <3>2
      <3>8. signs # flipped
        BY <1>4, <3>3, <3>4
      <3> QED BY <1>3, <1>6, <1>7, <1>9, <3>6, <3>7, <3>8, SomeMembers, ExtremeCounts
    <2>2. diffs[k] \in Int /\ diffs[l] \in Int
      BY <1>1
    <2>3. (diffs[k] > 0 /\ diffs[l] > 0) \/ (diffs[k] < 0 /\ diffs[l] < 0)
      BY <2>1, <2>2
    <2> QED BY <2>2, <2>3, ProductOfSigns
  <1> QED BY <1>1, <1>8, <1>9 DEF HasFloor

\* It does not matter which of the two is subtracted.
LEMMA SidesAreAlike ==
  ASSUME NEW n, NEW diffs, AreDiffs(diffs, n)
  PROVE  Extreme(diffs) = Extreme(Opposite(diffs))
  <1>1. DOMAIN diffs = 1..n /\ \A k \in 1..n : diffs[k] \in Int
    BY DEF AreDiffs
  <1> DEFINE other == Opposite(diffs)
  <1>2. AreDiffs(other, n) /\ \A k \in 1..n : other[k] = -diffs[k]
    BY <1>1 DEF AreDiffs, Opposite
  <1>3. Signs(other) = Signs(diffs)
    BY <1>1, <1>2 DEF Signs, AreDiffs
  <1>4. IsFiniteSet(1..n)
    BY FS_Interval DEF AreDiffs
  <1> HIDE DEF other
  <1>5. ASSUME NEW signs \in Signs(diffs)
        PROVE  /\ SignedSum(other, signs) = -SignedSum(diffs, signs)
               /\ SignedSum(diffs, signs) \in Int
               /\ SumFunction(other) = -SumFunction(diffs) /\ SumFunction(diffs) \in Int
    <2>1. \A k \in 1..n : other[k] = -diffs[k] /\ diffs[k] \in Int
      BY <1>1, <1>2
    <2>2. SumFunctionOnSet(other, 1..n) = -SumFunctionOnSet(diffs, 1..n)
      BY <1>4, <2>1, SumNegated
    <2>3. \A k \in 1..n : /\ Signed(other, signs)[k] = -Signed(diffs, signs)[k]
                           /\ Signed(diffs, signs)[k] \in Int
      BY <1>1, <1>2, <2>1 DEF Signed, AreDiffs
    <2>4. SumFunctionOnSet(Signed(other, signs), 1..n)
            = -SumFunctionOnSet(Signed(diffs, signs), 1..n)
      BY <1>4, <2>3, SumNegated
    <2>5. signs \in Signs(other)
      BY <1>3
    <2> QED BY <1>2, <2>2, <2>4, <2>5, SignedSums
  <1>6. ASSUME NEW signs \in Signs(diffs)
        PROVE  IsExtreme(other, signs) <=> IsExtreme(diffs, signs)
    BY <1>5, MagnitudeIs DEF IsExtreme
  <1>7. Extremes(other) = Extremes(diffs)
    BY <1>3, <1>6 DEF Extremes
  <1> QED BY <1>7, ExtremeCounts DEF other

LEMMA VerdictStands ==
  ASSUME NEW v, IsVerdict(v), NEW r,
         r = [extreme |-> Extreme(v.diffs), rejected |-> Holm(v.p, v.alpha)]
  PROVE  VerdictIsRight(v.p, v.alpha, v.diffs, r)
  <1>1. v.p \in Seq(Nat) /\ v.alpha \in Nat /\ r.extreme = Extreme(v.diffs)
        /\ r.rejected = Holm(v.p, v.alpha)
    BY DEF IsVerdict
  <1>2. AreDiffs(v.diffs, Len(v.diffs))
    BY DEF IsVerdict, AreDiffs
  <1>3. r.rejected = {t \in DOMAIN v.p : \A S \in SUBSET DOMAIN v.p :
                       t \in S => \E l \in S : v.p[l] * Cardinality(S) <= v.alpha}
    BY <1>1, HolmIsClosed, Zenon DEF ClosedRejects
  <1>4. HasFloor(v.diffs)
    BY <1>2, FloorIsTwo
  <1>5. r.extreme = Extreme([k \in DOMAIN v.diffs |-> -v.diffs[k]])
    BY <1>1, <1>2, SidesAreAlike DEF Opposite
  <1> QED BY <1>1, <1>3, <1>4, <1>5, Zenon DEF VerdictIsRight, HasFloor

-----------------------------------------------------------------------------
(* The tests, by their own action.                                            *)

VerdictInv ==
  /\ ProblemInv
  /\ kind = "verdict" /\ asked > 0 =>
       answer = [extreme |-> Extreme(problem.diffs),
                 rejected |-> Holm(problem.p, problem.alpha)]

(* However the differences tie, the exact p-value has its floor of two signs, *)
(* treats both sides alike and is at its floor only when all differences      *)
(* agree; and for any p-values and any level the step-down procedure rejects  *)
(* just what closed testing with Bonferroni's rule does                       *)
(* (stats/bootstrap.py:101-145, 223-249).                                     *)
THEOREM VerdictsStand == Spec => []VerdictsAreSound
  <1>1. Init => VerdictInv
    BY DEF Init, ProblemInv, VerdictInv
  <1>2. VerdictInv /\ [Next]_vars => VerdictInv'
    <2> SUFFICES ASSUME VerdictInv, [Next]_vars PROVE VerdictInv'
      OBVIOUS
    <2>1. CASE UNCHANGED vars
      BY <2>1 DEF VerdictInv, ProblemInv, vars
    <2>2. CASE Next
      <3>1. kind' = kind /\ problem' = problem /\ ProblemInv /\ ProblemInv'
        BY <2>2, OwnAction DEF VerdictInv, ProblemInv
      <3>2. CASE kind = "verdict"
        <4>1. answer' = [extreme |-> Extreme(problem.diffs),
                         rejected |-> Holm(problem.p, problem.alpha)]
          BY <2>2, <3>2, OwnAction DEF Judge, Once
        <4> QED BY <3>1, <3>2, <4>1 DEF VerdictInv
      <3> QED BY <3>1, <3>2 DEF VerdictInv
    <2> QED BY <2>1, <2>2
  <1>3. VerdictInv => VerdictsAreSound
    <2> SUFFICES ASSUME VerdictInv, kind = "verdict", asked > 0
                 PROVE  VerdictIsRight(problem.p, problem.alpha, problem.diffs, answer)
      BY DEF VerdictsAreSound
    <2>1. IsVerdict(problem)
      BY VerdictAssumption DEF VerdictInv, ProblemInv
    <2>2. answer = [extreme |-> Extreme(problem.diffs), rejected |-> Holm(problem.p, problem.alpha)]
      BY DEF VerdictInv
    <2> QED BY <2>1, <2>2, VerdictStands
  <1> QED BY <1>1, <1>2, <1>3, PTL DEF Spec
-----------------------------------------------------------------------------
(* A pause and its break-even window.                                         *)

\* A window trains whole iterations, and something at all.
Whole(c) ==
  /\ c.kind = "threshold" /\ c.clean.parts % Parts = 0 /\ c.clean.parts > 0 /\ OneEpisode(c)

\* Iterations after one more window of training.
Further(c, i) ==
  LET q == c.clean.parts \div Parts IN IF q < c.total - i THEN i + q ELSE c.total

\* The windows up to the n-th that are dirty.
DirtyUpto(c, n) == DirtyWindows(c) \intersect 1..n

LEMMA WholeRounds ==
  ASSUME NEW k \in Nat
  PROVE  Rounded(k * Parts) = k /\ k * Parts \in Nat
  <1>1. Parts \in Nat \ {0} /\ 0 \in 0..(Parts - 1)
    BY PartsAssumption
  <1> PICK x \in Nat : x = k * Parts /\ x = k * Parts + 0
    <2>1. k * Parts \in Nat
      BY <1>1
    <2> QED BY <2>1
  <1>2. x \div Parts = k /\ x % Parts = 0
    BY <1>1, DivisionIs
  <1>3. Rounded(x) = k
    BY <1>1, <1>2 DEF Rounded
  <1> QED BY <1>3

LEMMA ScheduleIs ==
  ASSUME NEW c, IsSimulation(c)
  PROVE  /\ DOMAIN c.schedule = 1..Len(c.schedule) /\ Len(c.schedule) \in Nat
         /\ \A t \in DOMAIN c.schedule : t \in Nat \ {0} /\ c.schedule[t] \in Nat
         /\ DirtyWindows(c) \subseteq DOMAIN c.schedule
         /\ c.total \in Nat /\ c.clean.parts \in Nat /\ c.clean.energy \in Nat
         /\ c.resume \in Nat /\ c.idle \in Nat
  <1>1. c.schedule \in Seq(Nat)
    BY DEF IsSimulation
  <1>2. /\ DOMAIN c.schedule = 1..Len(c.schedule) /\ Len(c.schedule) \in Nat
        /\ \A t \in DOMAIN c.schedule : t \in Nat \ {0} /\ c.schedule[t] \in Nat
    BY <1>1, ElementOfSeq
  <1>3. /\ c.total \in Nat /\ c.clean.parts \in Nat /\ c.clean.energy \in Nat
        /\ c.resume \in Nat /\ c.idle \in Nat
    BY DEF IsSimulation
  <1> QED BY <1>2, <1>3 DEF DirtyWindows

LEMMA DirtyCounts ==
  ASSUME NEW c, IsSimulation(c), NEW n \in Nat
  PROVE  /\ IsFiniteSet(DirtyUpto(c, n)) /\ Cardinality(DirtyUpto(c, n)) \in Nat
         /\ Cardinality(DirtyUpto(c, 0)) = 0
         /\ Cardinality(DirtyUpto(c, n)) = 0 <=> DirtyUpto(c, n) = {}
         /\ n + 1 \in DirtyWindows(c) =>
              Cardinality(DirtyUpto(c, n + 1)) = Cardinality(DirtyUpto(c, n)) + 1
         /\ n + 1 \notin DirtyWindows(c) => DirtyUpto(c, n + 1) = DirtyUpto(c, n)
  <1>1. IsFiniteSet(1..n) /\ DirtyUpto(c, n) \subseteq 1..n
    BY FS_Interval DEF DirtyUpto
  <1>2. IsFiniteSet(DirtyUpto(c, n)) /\ Cardinality(DirtyUpto(c, n)) \in Nat
    BY <1>1, FS_Subset, FS_CardinalityType
  <1>3. DirtyUpto(c, 0) = {}
    BY DEF DirtyUpto
  <1>4. 1..(n + 1) = (1..n) \union {n + 1} /\ n + 1 \notin 1..n
    OBVIOUS
  <1>5. ASSUME n + 1 \in DirtyWindows(c)
        PROVE  Cardinality(DirtyUpto(c, n + 1)) = Cardinality(DirtyUpto(c, n)) + 1
    <2>1. /\ DirtyUpto(c, n + 1) = DirtyUpto(c, n) \union {n + 1}
          /\ n + 1 \notin DirtyUpto(c, n)
      BY <1>4, <1>5 DEF DirtyUpto
    <2> QED BY <1>2, <2>1, FS_AddElement
  <1>6. n + 1 \notin DirtyWindows(c) => DirtyUpto(c, n + 1) = DirtyUpto(c, n)
    BY <1>4 DEF DirtyUpto
  <1> QED BY <1>2, <1>3, <1>5, <1>6, FS_EmptySet

\* What a window finds in its place of the schedule.
LEMMA WindowIs ==
  ASSUME NEW c, IsSimulation(c), c.kind = "threshold", NEW sim \in SimType,
         sim.window < Len(c.schedule)
  PROVE  /\ sim.window + 1 \in DOMAIN c.schedule
         /\ IntensityIn(c, sim) = c.schedule[sim.window + 1]
         /\ Active(c, sim) <=> sim.window + 1 \notin DirtyWindows(c)
         /\ c.schedule[sim.window + 1] \in Nat
  <1> PICK n \in Nat : n = sim.window
    BY DEF SimType
  <1>1. /\ c.schedule \in Seq(Nat) /\ Len(c.schedule) \in Nat \ {0} /\ c.threshold \in Nat
        /\ DOMAIN c.schedule = 1..Len(c.schedule)
    BY DEF IsSimulation
  <1> PICK l \in Nat \ {0} : l = Len(c.schedule)
    BY <1>1
  <1>2. n % l = n
    <2>1. n \in 0..(l - 1) /\ 0 * l + n = n
      OBVIOUS
    <2>2. (0 * l + n) % l = n
      BY <2>1, DivisionIs
    <2> QED BY <2>1, <2>2
  <1>3. n + 1 \in 1..l
    OBVIOUS
  <1>4. IntensityIn(c, sim) = c.schedule[n + 1]
    BY <1>2 DEF IntensityIn
  <1>5. c.schedule[n + 1] \in Nat
    BY <1>1, <1>3, ElementOfSeq
  <1>6. Active(c, sim) <=> n + 1 \notin DirtyWindows(c)
    BY <1>1, <1>3, <1>4, <1>5 DEF Active, DirtyWindows
  <1> QED BY <1>1, <1>3, <1>4, <1>5, <1>6

\* A window of training does whole iterations, as many as remain at most.
TrainsWhole(c, sim, next) ==
  /\ next.window = sim.window + 1 /\ next.paused = FALSE
  /\ next.iters = Further(c, sim.iters)
  /\ next.iters \in Nat /\ sim.iters <= next.iters /\ next.iters <= c.total
  /\ \E x \in Nat :
       /\ next.iters * Parts = sim.iters * Parts + x
       /\ next.iters < c.total => x = c.clean.parts
       /\ next.carbon = sim.carbon + Resume(c, sim) + x * c.clean.energy * IntensityIn(c, sim)

LEMMA TrainingIsWhole ==
  ASSUME NEW c, IsSimulation(c), c.clean.parts % Parts = 0, NEW sim \in SimType, Running(c, sim),
         Active(c, sim) \/ c.dirty = c.clean
  PROVE  TrainsWhole(c, sim, TrainWindow(c, sim))
  <1>1. /\ c.total \in Nat /\ c.clean \in [parts : Nat, energy : Nat]
        /\ sim.iters \in Nat /\ sim.iters < c.total /\ sim.carbon \in Nat
    BY DEF IsSimulation, SimType, Running
  <1>2. Parts \in Nat \ {0}
    BY PartsAssumption
  <1> PICK q \in Nat : q = c.clean.parts \div Parts /\ c.clean.parts = q * Parts
    <2>1. c.clean.parts \in Nat
      BY <1>1
    <2>2. /\ c.clean.parts \div Parts \in Nat
          /\ c.clean.parts = ((c.clean.parts \div Parts) * Parts) + (c.clean.parts % Parts)
      BY <1>2, <2>1, DivisionFacts, Zenon
    <2>3. (c.clean.parts \div Parts) * Parts \in Nat
      BY <1>2, <2>2
    <2> QED BY <2>2, <2>3
  <1> PICK r \in Nat : r = c.total - sim.iters
    BY <1>1
  <1> PICK m \in Nat : m = IF q < r THEN q ELSE r
    OBVIOUS
  <1>3. (IF c.clean.parts < r * Parts THEN c.clean.parts ELSE r * Parts) = m * Parts
    <2>1. CASE q < r
      <3>1. q * Parts < r * Parts
        <4> PICK d \in Nat : r = q + 1 + d
          <5>1. r - q - 1 \in Nat /\ r = q + 1 + (r - q - 1)
            BY <2>1
          <5> QED BY <5>1
        <4>1. (q + 1 + d) * Parts = q * Parts + Parts + d * Parts /\ d * Parts \in Nat
              /\ q * Parts \in Nat
          BY <1>2
        <4> QED BY <1>2, <4>1
      <3> QED BY <2>1, <3>1
    <2>2. CASE ~(q < r)
      <3>1. ~(q * Parts < r * Parts)
        <4>1. r <= q /\ Parts <= Parts
          BY <1>2, <2>2
        <4>2. r * Parts <= q * Parts /\ r * Parts \in Nat /\ q * Parts \in Nat
          BY <1>2, <4>1, ProductsGrow
        <4> QED BY <4>2
      <3> QED BY <2>2, <3>1
    <2> QED BY <2>1, <2>2
  <1> PICK x \in Nat : x = m * Parts /\ Rounded(x) = m
    BY WholeRounds
  <1> PICK g, h : g = Resume(c, sim) /\ h = x * c.clean.energy * IntensityIn(c, sim)
    OBVIOUS
  <1>4. TrainWindow(c, sim) =
          [sim EXCEPT !.window = @ + 1, !.paused = FALSE, !.ran = @ + 1,
                      !.iters = @ + m, !.billed = @ + x, !.carbon = @ + g + h]
    <2>1. (IF Active(c, sim) THEN c.clean ELSE c.dirty) = c.clean
      OBVIOUS
    <2>2. (IF c.clean.parts < (c.total - sim.iters) * Parts THEN c.clean.parts
           ELSE (c.total - sim.iters) * Parts) = x
      BY <1>3
    <2> QED BY <2>1, <2>2, Zenon DEF TrainWindow
  <1> PICK next : next = TrainWindow(c, sim)
    OBVIOUS
  <1>5. /\ next.window = sim.window + 1 /\ next.paused = FALSE
        /\ next.iters = sim.iters + m /\ next.carbon = sim.carbon + g + h
    BY <1>4 DEF SimType
  <1>6. next.iters = Further(c, sim.iters) /\ next.iters \in Nat
        /\ sim.iters <= next.iters /\ next.iters <= c.total
    <2>1. Further(c, sim.iters) = IF q < c.total - sim.iters THEN sim.iters + q ELSE c.total
      BY Zenon DEF Further
    <2> QED BY <1>1, <1>5, <2>1
  <1>7. next.iters * Parts = sim.iters * Parts + x
    <2>1. (sim.iters + m) * Parts = sim.iters * Parts + m * Parts
      BY <1>1, <1>2
    <2> QED BY <1>5, <2>1
  <1>8. next.iters < c.total => x = c.clean.parts
    BY <1>1, <1>5
  <1> QED BY <1>5, <1>6, <1>7, <1>8, Zenon DEF TrainsWhole

LEMMA FurtherGrows ==
  ASSUME NEW c, IsSimulation(c), NEW i \in Nat, NEW j \in Nat, i <= j, j <= c.total
  PROVE  /\ Further(c, i) <= Further(c, j) /\ i <= Further(c, j) /\ i <= Further(c, i)
         /\ Further(c, i) \in Nat /\ Further(c, j) \in Nat
         /\ Further(c, i) <= c.total /\ Further(c, j) <= c.total
  <1>1. c.total \in Nat /\ c.clean.parts \in Nat
    BY DEF IsSimulation
  <1>2. Parts \in Nat \ {0}
    BY PartsAssumption
  <1> PICK q \in Nat : q = c.clean.parts \div Parts
    BY <1>1, <1>2, DivisionFacts
  <1>3. \A k \in Nat : Further(c, k) = IF q < c.total - k THEN k + q ELSE c.total
    BY Zenon DEF Further
  <1> QED BY <1>1, <1>3

\* What d dirty windows and x parts of work in all emit, when they are trained in and
\* when they are paused in; v is a dirty window, w another one.
TrainedBill(c, v, w, d, x) ==
  d * (c.clean.parts * c.clean.energy * c.schedule[v])
    + (x - d * c.clean.parts) * (c.clean.energy * c.schedule[w])
PausedBill(c, v, w, d, x) ==
  d * (c.idle * c.schedule[v]) + x * (c.clean.energy * c.schedule[w])

LEMMA ProductsRegroup ==
  ASSUME NEW a \in Int, NEW b \in Int, NEW c \in Int
  PROVE  a * b * c = a * (b * c) /\ (a + b) * c = a * c + b * c /\ (a + 1) * c = a * c + c
         /\ a * b \in Int /\ a * (b - c) = a * b - a * c
  OBVIOUS

LEMMA NextProduct ==
  ASSUME NEW a \in Int, NEW c \in Int
  PROVE  (a + 1) * c = a * c + c
  OBVIOUS

LEMMA SumProduct ==
  ASSUME NEW a \in Int, NEW b \in Int, NEW c \in Int
  PROVE  (a + b) * c = a * c + b * c
  OBVIOUS

\* What y parts of work in a clean window add, and a whole dirty one.
TrainedGrows(c, v, w, d, x) ==
  /\ TrainedBill(c, v, w, d, x) \in Int
  /\ \A y \in Nat : TrainedBill(c, v, w, d, x + y)
       = TrainedBill(c, v, w, d, x) + y * c.clean.energy * c.schedule[w]
  /\ TrainedBill(c, v, w, d + 1, x + c.clean.parts)
       = TrainedBill(c, v, w, d, x) + c.clean.parts * c.clean.energy * c.schedule[v]

LEMMA TrainedBillGrows ==
  ASSUME NEW c, IsSimulation(c), NEW v \in DOMAIN c.schedule, NEW w \in DOMAIN c.schedule,
         NEW d \in Nat, NEW x \in Nat
  PROVE  TrainedGrows(c, v, w, d, x)
  <1>1. /\ c.clean.parts \in Nat /\ c.clean.energy \in Nat
        /\ c.schedule[v] \in Nat /\ c.schedule[w] \in Nat
    BY ElementOfSeq DEF IsSimulation
  <1> PICK p \in Int, e \in Int, i \in Int, j \in Int :
        /\ p = c.clean.parts /\ e = c.clean.energy /\ i = c.schedule[v] /\ j = c.schedule[w]
    BY <1>1
  <1> PICK a \in Int, k \in Int, b \in Int : a = p * e * i /\ k = e * j /\ b = d * p
    <2>1. p * e \in Int /\ e * j \in Int /\ d * p \in Int
      BY ProductsRegroup
    <2>2. p * e * i \in Int
      BY <2>1, ProductsRegroup
    <2> QED BY <2>1, <2>2
  <1>2. \A n \in Nat, m \in Nat : TrainedBill(c, v, w, n, m) = n * a + (m - n * p) * k
    BY Zenon DEF TrainedBill
  <1>3. TrainedBill(c, v, w, d, x) = d * a + (x - b) * k
    BY <1>2
  <1>4. d * a \in Int /\ (x - b) * k \in Int
    BY ProductsRegroup
  <1>5. ASSUME NEW y \in Nat
        PROVE  TrainedBill(c, v, w, d, x + y) = TrainedBill(c, v, w, d, x) + y * e * j
    <2>1. TrainedBill(c, v, w, d, x + y) = d * a + (x + y - b) * k
      BY <1>2
    <2>2. ((x - b) + y) * k = (x - b) * k + y * k
      BY ProductsRegroup
    <2>3. x + y - b = (x - b) + y
      OBVIOUS
    <2>4. y * e * j = y * k /\ y * k \in Int
      BY ProductsRegroup
    <2> QED BY <1>3, <1>4, <2>1, <2>2, <2>3, <2>4
  <1>6. TrainedBill(c, v, w, d + 1, x + p) = TrainedBill(c, v, w, d, x) + a
    <2>1. TrainedBill(c, v, w, d + 1, x + p) = (d + 1) * a + (x + p - (d + 1) * p) * k
      <3>1. x + p \in Nat /\ d + 1 \in Nat
        BY <1>1
      <3> QED BY <1>2, <3>1
    <2>2. (d + 1) * a = d * a + a /\ (d + 1) * p = b + p
      <3>1. d \in Int /\ b = d * p
        OBVIOUS
      <3> QED BY ONLY <3>1, a \in Int, p \in Int, NextProduct, Zenon
    <2>3. x + p - (b + p) = x - b
      OBVIOUS
    <2> QED BY <1>3, <1>4, <2>1, <2>2, <2>3
  <1> QED BY <1>3, <1>4, <1>5, <1>6 DEF TrainedGrows

\* The same of paused windows.
PausedGrows(c, v, w, d, x) ==
  /\ PausedBill(c, v, w, d, x) \in Int
  /\ \A y \in Nat : PausedBill(c, v, w, d, x + y)
       = PausedBill(c, v, w, d, x) + y * c.clean.energy * c.schedule[w]
  /\ PausedBill(c, v, w, d + 1, x) = PausedBill(c, v, w, d, x) + c.idle * c.schedule[v]

LEMMA PausedBillGrows ==
  ASSUME NEW c, IsSimulation(c), NEW v \in DOMAIN c.schedule, NEW w \in DOMAIN c.schedule,
         NEW d \in Nat, NEW x \in Nat
  PROVE  PausedGrows(c, v, w, d, x)
  <1>1. /\ c.clean.energy \in Nat /\ c.idle \in Nat
        /\ c.schedule[v] \in Nat /\ c.schedule[w] \in Nat
    BY ElementOfSeq DEF IsSimulation
  <1> PICK e \in Int, i \in Int, j \in Int :
        /\ e = c.clean.energy /\ i = c.schedule[v] /\ j = c.schedule[w]
    BY <1>1
  <1> PICK g \in Int, k \in Int : g = c.idle * i /\ k = e * j
    <2>1. c.idle * i \in Int /\ e * j \in Int
      BY <1>1, ProductsRegroup
    <2> QED BY <2>1
  <1>2. \A n \in Nat, m \in Nat : PausedBill(c, v, w, n, m) = n * g + m * k
    BY Zenon DEF PausedBill
  <1>3. PausedBill(c, v, w, d, x) = d * g + x * k /\ d * g \in Int /\ x * k \in Int
    BY <1>2, ProductsRegroup
  <1>4. ASSUME NEW y \in Nat
        PROVE  PausedBill(c, v, w, d, x + y) = PausedBill(c, v, w, d, x) + y * e * j
    <2>1. PausedBill(c, v, w, d, x + y) = d * g + (x + y) * k
      BY <1>2
    <2>2. (x + y) * k = x * k + y * k
      <3>1. x \in Int /\ y \in Int
        OBVIOUS
      <3> QED BY ONLY <3>1, k \in Int
    <2>3. y * e * j = y * k /\ y * k \in Int
      BY ProductsRegroup
    <2> QED BY <1>3, <2>1, <2>2, <2>3
  <1>5. PausedBill(c, v, w, d + 1, x) = PausedBill(c, v, w, d, x) + g
    <2>1. PausedBill(c, v, w, d + 1, x) = (d + 1) * g + x * k
      BY <1>2
    <2>2. (d + 1) * g = d * g + g
      BY NextProduct
    <2> QED BY <1>3, <2>1, <2>2
  <1> QED BY <1>3, <1>4, <1>5 DEF PausedGrows

\* All dirty windows are alike, and all others.
LEMMA EpisodeIs ==
  ASSUME NEW c, OneEpisode(c), NEW v \in DirtyWindows(c),
         NEW w \in DOMAIN c.schedule \ DirtyWindows(c), NEW n \in DOMAIN c.schedule
  PROVE  /\ n \in DirtyWindows(c) => c.schedule[n] = c.schedule[v]
         /\ n \notin DirtyWindows(c) => c.schedule[n] = c.schedule[w]
         /\ v \in DOMAIN c.schedule
  BY DEF OneEpisode, DirtyWindows

Dirtied(c, sim) == Cardinality(DirtyUpto(c, sim.window))

\* A simulation that trains throughout, as long as its last window is whole or clean.
TrainedInv(c, sim) ==
  /\ sim \in SimType /\ sim.iters <= c.total /\ sim.paused = FALSE
  /\ sim.window <= Len(c.schedule) /\ (sim.iters < c.total \/ sim.window \notin DirtyWindows(c)) =>
       \A v \in DirtyWindows(c) : \A w \in DOMAIN c.schedule \ DirtyWindows(c) :
         sim.carbon = TrainedBill(c, v, w, Dirtied(c, sim), sim.iters * Parts)

LEMMA TrainedStep ==
  ASSUME NEW c, IsSimulation(c), Whole(c), c.dirty = c.clean, NEW sim, TrainedInv(c, sim),
         SimWindow(c, sim) \in SimType
  PROVE  TrainedInv(c, SimWindow(c, sim))
  <1> DEFINE next == SimWindow(c, sim)
  <1>1. CASE ~Running(c, sim)
    BY <1>1 DEF SimWindow
  <1>2. CASE Running(c, sim)
    <2>1. sim \in SimType /\ sim.iters < c.total /\ sim.paused = FALSE
      BY <1>2 DEF TrainedInv, Running
    <2>2. c.dirty # Pause
      <3>1. c.dirty.parts > 0
        BY DEF Whole
      <3> QED BY <3>1 DEF Pause
    <2>3. next = TrainWindow(c, sim)
      BY <1>2, <2>2 DEF SimWindow
    <2>4. TrainsWhole(c, sim, next)
      BY <1>2, <2>1, <2>3, TrainingIsWhole DEF Whole
    <2> HIDE DEF next
    <2>5. /\ next.window = sim.window + 1 /\ next.paused = FALSE /\ next.iters <= c.total
          /\ sim.window \in Nat /\ sim.carbon \in Nat /\ Resume(c, sim) = 0
      BY <2>1, <2>4 DEF TrainsWhole, SimType, Resume
    <2> PICK x \in Nat :
          /\ next.iters * Parts = sim.iters * Parts + x
          /\ next.iters < c.total => x = c.clean.parts
          /\ next.carbon = sim.carbon + x * c.clean.energy * IntensityIn(c, sim)
      <3>1. PICK x \in Nat :
              /\ next.iters * Parts = sim.iters * Parts + x
              /\ next.iters < c.total => x = c.clean.parts
              /\ next.carbon = sim.carbon + Resume(c, sim) + x * c.clean.energy * IntensityIn(c, sim)
        BY <2>4 DEF TrainsWhole
      <3>2. sim.carbon + Resume(c, sim) = sim.carbon
        BY <2>5
      <3> QED BY <3>1, <3>2
    <2> PICK n \in Nat : n = sim.window
      BY <2>5
    <2> PICK b \in Nat : b = sim.iters * Parts
      <3>1. sim.iters * Parts \in Nat
        BY <2>1, PartsAssumption DEF SimType
      <3> QED BY <3>1
    <2>6. ASSUME next.window <= Len(c.schedule),
                 next.iters < c.total \/ next.window \notin DirtyWindows(c),
                 NEW v \in DirtyWindows(c), NEW w \in DOMAIN c.schedule \ DirtyWindows(c)
          PROVE  next.carbon = TrainedBill(c, v, w, Dirtied(c, next), next.iters * Parts)
      <3>1. n < Len(c.schedule) /\ c.kind = "threshold" /\ OneEpisode(c)
        <4>1. Len(c.schedule) \in Nat
          BY DEF IsSimulation
        <4> QED BY <2>5, <2>6, <4>1 DEF Whole
      <3>2. /\ n + 1 \in DOMAIN c.schedule /\ IntensityIn(c, sim) = c.schedule[n + 1]
        BY <2>1, <3>1, WindowIs
      <3> PICK d \in Nat : d = Cardinality(DirtyUpto(c, n)) /\ d = Dirtied(c, sim)
        BY DirtyCounts DEF Dirtied
      <3>3. sim.carbon = TrainedBill(c, v, w, d, b)
        <4>1. sim.window <= Len(c.schedule)
          <5>1. Len(c.schedule) \in Nat
            BY DEF IsSimulation
          <5> QED BY <3>1, <5>1
        <4> QED BY <2>1, <4>1 DEF TrainedInv
      <3>4. v \in DOMAIN c.schedule /\ w \in DOMAIN c.schedule
        BY DEF DirtyWindows
      <3>5. TrainedGrows(c, v, w, d, b)
        BY ONLY <3>4, IsSimulation(c), d \in Nat, b \in Nat, TrainedBillGrows
      <3>6. Dirtied(c, next) = Cardinality(DirtyUpto(c, n + 1))
        BY <2>5 DEF Dirtied
      <3>7. CASE n + 1 \in DirtyWindows(c)
        <4>1. c.schedule[n + 1] = c.schedule[v] /\ Dirtied(c, next) = d + 1 /\ x = c.clean.parts
          <5>1. c.schedule[n + 1] = c.schedule[v]
            BY <3>1, <3>2, <3>7, EpisodeIs
          <5>2. Cardinality(DirtyUpto(c, n + 1)) = Cardinality(DirtyUpto(c, n)) + 1
            BY <3>7, DirtyCounts
          <5>3. next.window = n + 1
            BY <2>5
          <5> QED BY <2>6, <3>6, <3>7, <5>1, <5>2, <5>3
        <4>2. TrainedBill(c, v, w, d + 1, b + x)
                = TrainedBill(c, v, w, d, b) + x * c.clean.energy * c.schedule[v]
          <5>1. TrainedBill(c, v, w, d + 1, b + c.clean.parts)
                  = TrainedBill(c, v, w, d, b) + c.clean.parts * c.clean.energy * c.schedule[v]
            BY <3>5 DEF TrainedGrows
          <5> QED BY <4>1, <5>1
        <4> QED BY <3>2, <3>3, <4>1, <4>2
      <3>8. CASE n + 1 \notin DirtyWindows(c)
        <4>1. c.schedule[n + 1] = c.schedule[w] /\ Dirtied(c, next) = d
          <5>1. c.schedule[n + 1] = c.schedule[w]
            BY <3>1, <3>2, <3>8, EpisodeIs
          <5>2. DirtyUpto(c, n + 1) = DirtyUpto(c, n)
            BY <3>8, DirtyCounts
          <5> QED BY <3>6, <5>1, <5>2
        <4>2. TrainedBill(c, v, w, d, b + x)
                = TrainedBill(c, v, w, d, b) + x * c.clean.energy * c.schedule[w]
          BY <3>5 DEF TrainedGrows
        <4> QED BY <3>2, <3>3, <4>1, <4>2
      <3> QED BY <3>7, <3>8
    <2> QED BY <2>5, <2>6 DEF TrainedInv, next
  <1> QED BY <1>1, <1>2

\* A simulation that pauses in dirty windows, and has resumed after the last of them.
Resumed(c, sim) == Dirtied(c, sim) > 0 /\ ~sim.paused

PausedInv(c, sim) ==
  /\ sim \in SimType /\ sim.iters <= c.total
  /\ sim.window <= Len(c.schedule) =>
       /\ sim.paused <=> sim.window \in DirtyWindows(c)
       /\ \A v \in DirtyWindows(c) : \A w \in DOMAIN c.schedule \ DirtyWindows(c) :
            sim.carbon = PausedBill(c, v, w, Dirtied(c, sim), sim.iters * Parts)
                           + (IF Resumed(c, sim) THEN c.resume * c.schedule[w] ELSE 0)

LEMMA PausedStep ==
  ASSUME NEW c, IsSimulation(c), Whole(c), c.dirty = Pause, NEW sim, PausedInv(c, sim),
         SimWindow(c, sim) \in SimType
  PROVE  PausedInv(c, SimWindow(c, sim))
  <1> DEFINE next == SimWindow(c, sim)
  <1>1. CASE ~Running(c, sim)
    BY <1>1 DEF SimWindow
  <1>2. ASSUME Running(c, sim), sim.window >= Len(c.schedule)
        PROVE  PausedInv(c, next)
    <2>1. sim.window \in Nat /\ Len(c.schedule) \in Nat /\ sim \in SimType
          /\ sim.iters <= c.total
      BY DEF PausedInv, SimType, IsSimulation
    <2>2. CASE Active(c, sim)
      <3>1. next = TrainWindow(c, sim)
        BY <1>2, <2>2 DEF SimWindow
      <3>2. TrainsWhole(c, sim, next)
        BY <1>2, <2>1, <2>2, <3>1, TrainingIsWhole DEF Whole
      <3> HIDE DEF next
      <3>3. next.window = sim.window + 1 /\ next.iters <= c.total
        BY <3>2 DEF TrainsWhole
      <3>4. ~(next.window <= Len(c.schedule))
        BY <1>2, <2>1, <3>3
      <3> QED BY <3>3, <3>4 DEF PausedInv, next
    <2>3. CASE ~Active(c, sim)
      <3>1. next = PauseWindow(c, sim)
        BY <1>2, <2>3 DEF SimWindow
      <3>2. next.window = sim.window + 1 /\ next.iters = sim.iters
        BY <2>1, <3>1 DEF PauseWindow, SimType
      <3> HIDE DEF next
      <3>3. ~(next.window <= Len(c.schedule))
        BY <1>2, <2>1, <3>2
      <3> QED BY <2>1, <3>2, <3>3 DEF PausedInv, next
    <2> QED BY <2>2, <2>3
  <1>3. ASSUME Running(c, sim), sim.window < Len(c.schedule)
        PROVE  PausedInv(c, next)
    <2>1. /\ sim \in SimType /\ sim.iters < c.total /\ sim.iters <= c.total
          /\ sim.iters \in Nat /\ sim.carbon \in Nat /\ sim.paused \in BOOLEAN
          /\ c.kind = "threshold" /\ OneEpisode(c) /\ c.clean.parts % Parts = 0
      BY <1>3 DEF PausedInv, Running, SimType, Whole
    <2> PICK n \in Nat : n = sim.window
      BY <2>1 DEF SimType
    <2> PICK b \in Nat : b = sim.iters * Parts
      <3>1. sim.iters * Parts \in Nat
        BY <2>1, PartsAssumption
      <3> QED BY <3>1
    <2> PICK d \in Nat : d = Cardinality(DirtyUpto(c, n)) /\ d = Dirtied(c, sim)
      BY DirtyCounts DEF Dirtied
    <2>2. /\ n + 1 \in DOMAIN c.schedule /\ IntensityIn(c, sim) = c.schedule[n + 1]
          /\ Active(c, sim) <=> n + 1 \notin DirtyWindows(c)
      BY <1>3, <2>1, WindowIs
    <2>3. /\ sim.paused <=> n \in DirtyWindows(c)
          /\ \A v \in DirtyWindows(c) : \A w \in DOMAIN c.schedule \ DirtyWindows(c) :
               sim.carbon = PausedBill(c, v, w, d, b)
                              + (IF Resumed(c, sim) THEN c.resume * c.schedule[w] ELSE 0)
          /\ Resumed(c, sim) <=> d > 0 /\ ~sim.paused
      <3>1. sim.window <= Len(c.schedule)
        <4>1. Len(c.schedule) \in Nat
          BY DEF IsSimulation
        <4> QED BY <1>3, <4>1
      <3> QED BY <3>1, Zenon DEF PausedInv, Resumed
    <2>4. n \in DirtyWindows(c) => d > 0
      <3> SUFFICES ASSUME n \in DirtyWindows(c) PROVE d > 0
        OBVIOUS
      <3>1. n \in 1..n
        <4>1. n \in Nat \ {0}
          BY ScheduleIs
        <4> QED BY <4>1
      <3>2. DirtyUpto(c, n) # {}
        BY <3>1 DEF DirtyUpto
      <3>3. Cardinality(DirtyUpto(c, n)) # 0
        BY <3>2, DirtyCounts
      <3> QED BY <3>3
    <2>5. CASE n + 1 \in DirtyWindows(c)
      <3>1. next = PauseWindow(c, sim)
        BY <1>3, <2>2, <2>5 DEF SimWindow
      <3>2. /\ next.window = n + 1 /\ next.paused = TRUE /\ next.iters = sim.iters
            /\ next.carbon = sim.carbon + c.idle * c.schedule[n + 1]
        BY <2>1, <2>2, <3>1 DEF PauseWindow, SimType
      <3> HIDE DEF next
      <3>3. ~(d > 0 /\ ~sim.paused)
        <4> SUFFICES ASSUME d > 0, ~sim.paused PROVE FALSE
          OBVIOUS
        <4>1. PICK u \in DirtyUpto(c, n) : TRUE
          <5>1. Cardinality(DirtyUpto(c, n)) # 0
            OBVIOUS
          <5>2. DirtyUpto(c, n) # {}
            BY <5>1, DirtyCounts
          <5> QED BY <5>2
        <4>2. u \in DirtyWindows(c) /\ u \in 1..n /\ n \in u..(n + 1)
          BY <4>1 DEF DirtyUpto
        <4>3. n \in DirtyWindows(c)
          BY <2>1, <2>5, <4>2 DEF OneEpisode
        <4> QED BY <2>3, <4>3
      <3>4. Dirtied(c, next) = d + 1 /\ ~Resumed(c, next)
        <4>1. Dirtied(c, next) = d + 1
          BY <2>5, <3>2, DirtyCounts DEF Dirtied
        <4>2. ~Resumed(c, next)
          BY <3>2 DEF Resumed
        <4> QED BY <4>1, <4>2
      <3>5. ASSUME NEW v \in DirtyWindows(c), NEW w \in DOMAIN c.schedule \ DirtyWindows(c)
            PROVE  next.carbon = PausedBill(c, v, w, d + 1, b) + 0
        <4>1. c.schedule[n + 1] = c.schedule[v] /\ v \in DOMAIN c.schedule /\ w \in DOMAIN c.schedule
          BY <2>1, <2>2, <2>5, EpisodeIs
        <4>2. /\ PausedBill(c, v, w, d + 1, b) = PausedBill(c, v, w, d, b) + c.idle * c.schedule[v]
              /\ PausedBill(c, v, w, d, b) \in Int
          BY ONLY <4>1, IsSimulation(c), d \in Nat, b \in Nat, PausedBillGrows DEF PausedGrows
        <4>3. sim.carbon = PausedBill(c, v, w, d, b) + 0
          BY <2>3, <3>3, Zenon
        <4>4. next.carbon = sim.carbon + c.idle * c.schedule[v]
          BY <3>2, <4>1
        <4>5. c.idle * c.schedule[v] \in Int
          BY ElementOfSeq, <4>1 DEF IsSimulation
        <4> QED BY ONLY <4>2, <4>3, <4>4, <4>5
      <3>6. next \in SimType
        BY DEF next
      <3>7. next.iters * Parts = b
        BY <3>2
      <3>8. next.paused <=> next.window \in DirtyWindows(c)
        BY <2>5, <3>2
      <3>9. \A v \in DirtyWindows(c) : \A w \in DOMAIN c.schedule \ DirtyWindows(c) :
              next.carbon = PausedBill(c, v, w, Dirtied(c, next), next.iters * Parts)
                              + (IF Resumed(c, next) THEN c.resume * c.schedule[w] ELSE 0)
        BY <3>4, <3>5, <3>7
      <3>10. next.iters <= c.total
        BY <2>1, <3>2
      <3> QED BY <3>6, <3>8, <3>9, <3>10, Zenon DEF PausedInv, next
    <2>6. CASE n + 1 \notin DirtyWindows(c)
      <3>1. next = TrainWindow(c, sim)
        BY <1>3, <2>2, <2>6 DEF SimWindow
      <3>2. TrainsWhole(c, sim, next)
        BY <1>3, <2>1, <2>2, <2>6, <3>1, TrainingIsWhole
      <3>3. next \in SimType
        OBVIOUS
      <3> HIDE DEF next
      <3>4. /\ next.window = n + 1 /\ next.paused = FALSE /\ next.iters <= c.total
        BY <3>2 DEF TrainsWhole
      <3> PICK x \in Nat :
            /\ next.iters * Parts = b + x
            /\ next.carbon = sim.carbon + Resume(c, sim) + x * c.clean.energy * c.schedule[n + 1]
        BY <2>2, <3>2 DEF TrainsWhole
      <3>5. Dirtied(c, next) = d /\ (Resumed(c, next) <=> d > 0)
        <4>1. DirtyUpto(c, n + 1) = DirtyUpto(c, n)
          BY <2>6, DirtyCounts
        <4>2. Dirtied(c, next) = d
          BY <3>4, <4>1 DEF Dirtied
        <4> QED BY <3>4, <4>2 DEF Resumed
      <3>6. ASSUME NEW v \in DirtyWindows(c), NEW w \in DOMAIN c.schedule \ DirtyWindows(c)
            PROVE  next.carbon = PausedBill(c, v, w, d, b + x)
                                   + (IF Resumed(c, next) THEN c.resume * c.schedule[w] ELSE 0)
        <4>1. c.schedule[n + 1] = c.schedule[w] /\ v \in DOMAIN c.schedule /\ w \in DOMAIN c.schedule
          BY <2>1, <2>2, <2>6, EpisodeIs
        <4> PICK p \in Int, r \in Int, f \in Int :
              /\ p = PausedBill(c, v, w, d, b) /\ r = c.resume * c.schedule[w]
              /\ f = x * c.clean.energy * c.schedule[w]
          <5>1. PausedBill(c, v, w, d, b) \in Int
            BY ONLY <4>1, IsSimulation(c), d \in Nat, b \in Nat, PausedBillGrows DEF PausedGrows
          <5>2. c.resume \in Int /\ c.clean.energy \in Int /\ c.schedule[w] \in Int
            BY ElementOfSeq, <4>1 DEF IsSimulation
          <5>3. c.resume * c.schedule[w] \in Int /\ x * c.clean.energy \in Int
            BY <5>2, ProductsRegroup
          <5>4. x * c.clean.energy * c.schedule[w] \in Int
            BY <5>2, <5>3, ProductsRegroup
          <5> QED BY <5>1, <5>3, <5>4
        <4>2. PausedBill(c, v, w, d, b + x) = p + f
          <5>1. PausedGrows(c, v, w, d, b)
            BY ONLY <4>1, IsSimulation(c), d \in Nat, b \in Nat, PausedBillGrows
          <5> QED BY <5>1 DEF PausedGrows
        <4>3. next.carbon = sim.carbon + Resume(c, sim) + f
          BY <4>1
        <4>4. sim.carbon = p + (IF Resumed(c, sim) THEN r ELSE 0)
          BY <2>3, Zenon
        <4>5. Resume(c, sim) = IF sim.paused THEN r ELSE 0
          BY <2>2, <4>1 DEF Resume
        <4>6. next.carbon = p + f + (IF Resumed(c, next) THEN r ELSE 0)
          <5>1. CASE Resumed(c, next)
            <6>1. (Resumed(c, sim) /\ ~sim.paused) \/ (~Resumed(c, sim) /\ sim.paused)
              BY <2>1, <2>3, <2>4, <3>5, <5>1
            <6> QED BY <4>3, <4>4, <4>5, <5>1, <6>1
          <5>2. CASE ~Resumed(c, next)
            <6>1. ~Resumed(c, sim) /\ ~sim.paused
              BY <2>3, <2>4, <3>5, <5>2
            <6> QED BY <4>3, <4>4, <4>5, <5>2, <6>1
          <5> QED BY <5>1, <5>2
        <4> QED BY <4>2, <4>6
      <3>8. next.paused <=> next.window \in DirtyWindows(c)
        BY <2>6, <3>4
      <3> QED BY <3>3, <3>4, <3>5, <3>6, <3>8, Zenon DEF PausedInv, next
    <2> QED BY <2>5, <2>6
  <1>4. sim.window \in Nat /\ Len(c.schedule) \in Nat
    BY DEF PausedInv, SimType, IsSimulation
  <1> QED BY <1>1, <1>2, <1>3, <1>4

-----------------------------------------------------------------------------
(* The policies that are compared.                                            *)

LEMMA PoliciesOf ==
  ASSUME NEW c, IsSimulation(c), NEW a, a \in {AlwaysOn(c), PauseInDirty(c)}
  PROVE  /\ IsSimulation(a) /\ a.total = c.total /\ a.maxWindows = c.maxWindows
         /\ a.schedule = c.schedule /\ a.clean = c.clean /\ a.resume = c.resume /\ a.idle = c.idle
         /\ a.kind = c.kind /\ a.threshold = c.threshold
         /\ DirtyWindows(a) = DirtyWindows(c) /\ (Whole(c) => Whole(a))
         /\ \A i : Further(a, i) = Further(c, i)
         /\ \A sim : Running(a, sim) <=> Running(c, sim)
  <1>1. PICK p \in [parts : Nat, energy : Nat] : a = [c EXCEPT !.dirty = p]
    <2>1. Pause \in [parts : Nat, energy : Nat] /\ c.clean \in [parts : Nat, energy : Nat]
      BY DEF Pause, IsSimulation
    <2> QED BY <2>1 DEF AlwaysOn, PauseInDirty
  <1>2. /\ a.total = c.total /\ a.maxWindows = c.maxWindows
        /\ a.schedule = c.schedule /\ a.clean = c.clean /\ a.resume = c.resume /\ a.idle = c.idle
        /\ a.kind = c.kind /\ a.threshold = c.threshold /\ a.mask = c.mask
    BY <1>1 DEF IsSimulation
  <1>3. IsSimulation(a)
    BY <1>1, <1>2 DEF IsSimulation
  <1>4. DirtyWindows(a) = DirtyWindows(c)
    BY <1>2 DEF DirtyWindows
  <1>5. Whole(c) => Whole(a)
    <2>1. OneEpisode(c) => OneEpisode(a)
      <3> PICK s, ds : s = c.schedule /\ s = a.schedule /\ ds = DirtyWindows(c) /\ ds = DirtyWindows(a)
        BY <1>2, <1>4
      <3> QED BY Zenon DEF OneEpisode
    <2> QED BY <1>2, <2>1, Zenon DEF Whole
  <1>6. /\ \A i : Further(a, i) = Further(c, i)
        /\ \A sim : Running(a, sim) <=> Running(c, sim)
    BY <1>2, Zenon DEF Further, Running
  <1> QED BY <1>2, <1>3, <1>4, <1>5, <1>6

LEMMA DirtyOf ==
  ASSUME NEW c, IsSimulation(c)
  PROVE  AlwaysOn(c).dirty = AlwaysOn(c).clean /\ PauseInDirty(c).dirty = Pause
  BY DEF AlwaysOn, PauseInDirty, IsSimulation

\* The one that pauses is never ahead.
Lockstep(c, on, pause) ==
  /\ on \in SimType /\ pause \in SimType
  /\ on.window <= pause.window /\ pause.iters <= on.iters /\ on.iters <= c.total
  /\ Running(c, on) => on.window = pause.window

LEMMA WindowTaken ==
  ASSUME NEW c, IsSimulation(c), c.clean.parts % Parts = 0, NEW sim \in SimType,
         sim.iters <= c.total, Running(c, sim),
         c.dirty \in {c.clean, Pause}
  PROVE  /\ SimWindow(c, sim).window = sim.window + 1
         /\ SimWindow(c, sim).iters \in {sim.iters, Further(c, sim.iters)}
         /\ c.dirty # Pause => SimWindow(c, sim).iters = Further(c, sim.iters)
  <1>1. CASE ~Active(c, sim) /\ c.dirty = Pause
    BY <1>1 DEF SimWindow, PauseWindow, SimType
  <1>2. CASE ~(~Active(c, sim) /\ c.dirty = Pause)
    <2>1. SimWindow(c, sim) = TrainWindow(c, sim)
      BY <1>2 DEF SimWindow
    <2>2. TrainsWhole(c, sim, TrainWindow(c, sim))
      BY <1>2, TrainingIsWhole
    <2> QED BY <2>1, <2>2 DEF TrainsWhole
  <1> QED BY <1>1, <1>2

LEMMA LockstepKept ==
  ASSUME NEW c, IsSimulation(c), Whole(c), NEW on, NEW pause, Lockstep(c, on, pause),
         NEW later, later = SimWindow(AlwaysOn(c), on), later \in SimType,
         NEW other, other = SimWindow(PauseInDirty(c), pause), other \in SimType
  PROVE  Lockstep(c, later, other)
  <1> DEFINE a == AlwaysOn(c)
             p == PauseInDirty(c)
  <1>1. /\ IsSimulation(a) /\ a.total = c.total /\ a.clean = c.clean /\ a.clean.parts % Parts = 0
        /\ \A i : Further(a, i) = Further(c, i)
        /\ \A sim : Running(a, sim) <=> Running(c, sim)
        /\ a.dirty = a.clean /\ a.dirty # Pause
    <2>1. c.clean.parts > 0 /\ c.clean.parts % Parts = 0
      BY DEF Whole
    <2>2. c.clean # Pause
      BY <2>1 DEF Pause
    <2> QED BY <2>1, <2>2, PoliciesOf, DirtyOf
  <1>2. /\ IsSimulation(p) /\ p.total = c.total /\ p.clean.parts % Parts = 0
        /\ \A i : Further(p, i) = Further(c, i)
        /\ \A sim : Running(p, sim) <=> Running(c, sim)
        /\ p.dirty = Pause
    BY PoliciesOf, DirtyOf DEF Whole
  <1> HIDE DEF a, p
  <1>3. /\ on.window \in Nat /\ pause.window \in Nat /\ on.iters \in Nat /\ pause.iters \in Nat
        /\ c.total \in Nat /\ c.maxWindows \in Nat /\ on \in SimType /\ pause \in SimType
        /\ on.window <= pause.window /\ pause.iters <= on.iters /\ on.iters <= c.total
    BY DEF Lockstep, SimType, IsSimulation
  <1>4. /\ Further(c, pause.iters) <= Further(c, on.iters) /\ pause.iters <= Further(c, on.iters)
        /\ Further(c, pause.iters) \in Nat /\ Further(c, on.iters) \in Nat
        /\ Further(c, pause.iters) <= c.total /\ Further(c, on.iters) <= c.total
    BY <1>3, FurtherGrows
  <1>5. later = SimWindow(a, on) /\ other = SimWindow(p, pause)
    BY DEF a, p
  <1>6. Running(c, on) => later.window = on.window + 1 /\ later.iters = Further(c, on.iters)
    BY <1>1, <1>3, <1>5, WindowTaken
  <1>7. ~Running(c, on) => later = on
    BY <1>1, <1>5 DEF SimWindow
  <1>8. Running(c, pause) =>
          other.window = pause.window + 1 /\ other.iters \in {pause.iters, Further(c, pause.iters)}
    <2>1. pause.iters <= p.total
      BY <1>2, <1>3
    <2> QED BY <1>2, <1>3, <1>5, <2>1, WindowTaken
  <1>9. ~Running(c, pause) => other = pause
    BY <1>2, <1>5 DEF SimWindow
  <1>10. CASE Running(c, on)
    <2>1. on.window = pause.window
      BY <1>10 DEF Lockstep
    <2>2. Running(c, pause)
      BY <1>3, <1>10, <2>1 DEF Running
    <2>3. /\ later.window = on.window + 1 /\ later.iters = Further(c, on.iters)
          /\ other.window = pause.window + 1
          /\ other.iters \in {pause.iters, Further(c, pause.iters)}
      BY <1>6, <1>8, <1>10, <2>2
    <2> QED BY <1>3, <1>4, <2>1, <2>3 DEF Lockstep
  <1>11. CASE ~Running(c, on)
    <2>1. CASE Running(c, pause)
      <3>1. on.iters = c.total
        BY <1>3, <1>11, <2>1 DEF Running
      <3> QED BY <1>3, <1>4, <1>7, <1>8, <1>11, <2>1, <3>1 DEF Lockstep
    <2>2. CASE ~Running(c, pause)
      BY <1>3, <1>7, <1>9, <1>11, <2>2 DEF Lockstep
    <2> QED BY <2>1, <2>2
  <1> QED BY <1>10, <1>11

-----------------------------------------------------------------------------
(* What the pause is worth.                                                   *)

\* Trained and paused bills of d dirty windows and x parts in all; r is the
\* resumption.
LEMMA BillsCompare ==
  ASSUME NEW d \in Nat \ {0}, NEW p \in Nat, NEW e \in Nat, NEW i \in Nat, NEW j \in Nat,
         NEW x \in Nat, NEW l \in Nat, NEW r \in Nat
  PROVE  LET active == p * e
             denom == active * (i - j) - l * i
         IN  d * (l * i) + x * (e * j) + r < d * (p * e * i) + (x - d * p) * (e * j)
               <=> denom > 0 /\ d * denom > r
  <1> PICK a \in Int, g \in Int, k \in Int, b \in Int, h \in Int :
        /\ a = p * e * i /\ g = l * i /\ k = e * j /\ b = d * p /\ h = p * k
    <2>1. p * e \in Int /\ l * i \in Int /\ e * j \in Int /\ d * p \in Int
      BY ProductsRegroup
    <2>2. p * e * i \in Int /\ p * (e * j) \in Int
      BY <2>1, ProductsRegroup
    <2> QED BY <2>1, <2>2
  <1> PICK q \in Int : q = p * e * (i - j) - l * i /\ q = a - h - g
    <2>1. p * e \in Int /\ i \in Int /\ j \in Int
      BY ProductsRegroup
    <2>2. p * e * (i - j) = p * e * i - p * e * j
      BY ONLY <2>1
    <2>3. p * e * j = h
      BY ProductsRegroup
    <2> QED BY <2>2, <2>3
  <1>1. (x - b) * k = x * k - b * k /\ x * k \in Int /\ b * k \in Int
    BY ONLY x \in Nat, b \in Int, k \in Int
  <1>2. b * k = d * h /\ d * h \in Int
    BY ProductsRegroup
  <1>3. d * q = d * a - d * h - d * g /\ d * a \in Int /\ d * g \in Int /\ d * q \in Int
    BY ONLY d \in Nat \ {0}, a \in Int, h \in Int, g \in Int, q \in Int, q = a - h - g
  <1>4. d * g + x * k + r < d * a + (x - b) * k <=> r < d * q
    BY ONLY <1>1, <1>2, <1>3, r \in Nat
  <1>5. d * q > r => q > 0
    BY ONLY d \in Nat \ {0}, q \in Int, r \in Nat
  <1> QED BY <1>4, <1>5

\* Two simulations of a job that windows of whole iterations make up; where a window
\* does nothing, no job is ever done.
Compared(c, on, pause) ==
  /\ SimInv(on) /\ SimInv(pause)
  /\ Whole(c) => /\ TrainedInv(AlwaysOn(c), on) /\ PausedInv(PauseInDirty(c), pause)
                 /\ Lockstep(c, on, pause)
  /\ c.clean.parts % Parts = 0 /\ c.clean.parts = 0 =>
       on.iters = 0 /\ (c.total = 0 => on.window = 0)

LEMMA BillsBegin ==
  ASSUME NEW c, IsSimulation(c), NEW v \in DOMAIN c.schedule, NEW w \in DOMAIN c.schedule
  PROVE  TrainedBill(c, v, w, 0, 0) = 0 /\ PausedBill(c, v, w, 0, 0) = 0
  <1>1. /\ c.clean.parts \in Int /\ c.clean.energy \in Int /\ c.idle \in Int
        /\ c.schedule[v] \in Int /\ c.schedule[w] \in Int
    BY ElementOfSeq DEF IsSimulation
  <1> PICK a \in Int, k \in Int, g \in Int :
        /\ a = c.clean.parts * c.clean.energy * c.schedule[v]
        /\ k = c.clean.energy * c.schedule[w] /\ g = c.idle * c.schedule[v]
    <2>1. c.clean.parts * c.clean.energy \in Int
      BY <1>1, ProductsRegroup
    <2>2. c.clean.parts * c.clean.energy * c.schedule[v] \in Int
      BY <1>1, <2>1, ProductsRegroup
    <2>3. c.clean.energy * c.schedule[w] \in Int /\ c.idle * c.schedule[v] \in Int
      BY <1>1, ProductsRegroup
    <2> QED BY <2>2, <2>3
  <1>2. TrainedBill(c, v, w, 0, 0) = 0 * a + (0 - 0 * c.clean.parts) * k
    BY Zenon DEF TrainedBill
  <1>3. PausedBill(c, v, w, 0, 0) = 0 * g + 0 * k
    BY Zenon DEF PausedBill
  <1>4. 0 * c.clean.parts = 0
    BY <1>1
  <1> QED BY <1>2, <1>3, <1>4

LEMMA ComparedBegins ==
  ASSUME NEW c, IsSimulation(c)
  PROVE  Compared(c, SimInit, SimInit)
  <1>1. /\ SimInv(SimInit) /\ SimInit \in SimType
        /\ SimInit.window = 0 /\ SimInit.iters = 0 /\ SimInit.carbon = 0 /\ SimInit.paused = FALSE
    BY SimBegins DEF SimInit, SimInv
  <1>2. ASSUME NEW a, IsSimulation(a)
        PROVE  TrainedInv(a, SimInit) /\ PausedInv(a, SimInit)
    <2>1. /\ a.total \in Nat /\ Len(a.schedule) \in Nat /\ 0 \notin DirtyWindows(a)
          /\ DOMAIN a.schedule = 1..Len(a.schedule)
      BY <1>2, ScheduleIs
    <2>2. Dirtied(a, SimInit) = 0
      BY <1>1, <1>2, DirtyCounts DEF Dirtied
    <2>3. SimInit.iters * Parts = 0
      BY <1>1, PartsAssumption
    <2>4. ASSUME NEW v \in DirtyWindows(a), NEW w \in DOMAIN a.schedule \ DirtyWindows(a)
          PROVE  TrainedBill(a, v, w, 0, 0) = 0 /\ PausedBill(a, v, w, 0, 0) = 0
      <3>1. v \in DOMAIN a.schedule /\ w \in DOMAIN a.schedule
        BY DEF DirtyWindows
      <3> QED BY <1>2, <3>1, BillsBegin
    <2>5. ~Resumed(a, SimInit)
      BY <2>2 DEF Resumed
    <2>6. TrainedInv(a, SimInit)
      BY <1>1, <2>1, <2>2, <2>3, <2>4 DEF TrainedInv
    <2>7. PausedInv(a, SimInit)
      BY <1>1, <2>1, <2>2, <2>3, <2>4, <2>5 DEF PausedInv
    <2> QED BY <2>6, <2>7
  <1>3. IsSimulation(AlwaysOn(c)) /\ IsSimulation(PauseInDirty(c)) /\ c.total \in Nat
    BY PoliciesOf DEF IsSimulation
  <1>4. Lockstep(c, SimInit, SimInit)
    BY <1>1, <1>3 DEF Lockstep
  <1> QED BY <1>1, <1>2, <1>3, <1>4 DEF Compared

LEMMA ComparedStep ==
  ASSUME NEW c, IsSimulation(c), NEW on, NEW pause, Compared(c, on, pause)
  PROVE  Compared(c, SimWindow(AlwaysOn(c), on), SimWindow(PauseInDirty(c), pause))
  <1> PICK a, p : a = AlwaysOn(c) /\ p = PauseInDirty(c)
    OBVIOUS
  <1> PICK later, other : later = SimWindow(a, on) /\ other = SimWindow(p, pause)
    OBVIOUS
  <1>1. /\ IsSimulation(a) /\ a.clean = c.clean /\ a.total = c.total /\ (Whole(c) => Whole(a))
        /\ a.dirty = a.clean /\ \A i : Further(a, i) = Further(c, i)
        /\ IsSimulation(p) /\ p.dirty = Pause /\ (Whole(c) => Whole(p))
    BY PoliciesOf, DirtyOf
  <1>2. SimInv(later) /\ later \in SimType /\ SimInv(other) /\ other \in SimType
    BY <1>1, SimStep DEF Compared, SimInv
  <1>3. ASSUME Whole(c)
        PROVE  TrainedInv(a, later) /\ PausedInv(p, other) /\ Lockstep(c, later, other)
    <2>1. TrainedInv(a, on) /\ PausedInv(p, pause) /\ Lockstep(c, on, pause)
      BY <1>3 DEF Compared
    <2>2. TrainedInv(a, later)
      BY <1>1, <1>2, <1>3, <2>1, TrainedStep
    <2>3. PausedInv(p, other)
      BY <1>1, <1>2, <1>3, <2>1, PausedStep
    <2>4. Lockstep(c, later, other)
      BY <1>2, <1>3, <2>1, LockstepKept
    <2> QED BY <2>2, <2>3, <2>4
  <1>4. ASSUME c.clean.parts % Parts = 0, c.clean.parts = 0
        PROVE  later.iters = 0 /\ (c.total = 0 => later.window = 0)
    <2>1. on.iters = 0 /\ (c.total = 0 => on.window = 0) /\ on \in SimType /\ c.total \in Nat
      BY <1>4 DEF Compared, SimInv, IsSimulation
    <2>2. CASE ~Running(a, on)
      BY <2>1, <2>2 DEF SimWindow
    <2>3. CASE Running(a, on)
      <3>1. c.total > 0 /\ on.iters <= a.total
        BY <1>1, <2>1, <2>3 DEF Running
      <3>2. a.clean.parts % Parts = 0
        BY <1>1, <1>4, Zenon
      <3>3. later.iters \in {on.iters, Further(a, on.iters)}
        BY <1>1, <2>1, <2>3, <3>1, <3>2, WindowTaken
      <3>4. 0 \div Parts = 0
        <4>1. Parts \in Nat \ {0} /\ 0 \in 0..(Parts - 1) /\ 0 * Parts + 0 = 0
          BY PartsAssumption
        <4>2. (0 * Parts + 0) \div Parts = 0
          BY <4>1, DivisionIs
        <4> QED BY <4>1, <4>2
      <3>5. Further(a, 0) = 0
        BY <1>1, <1>4, <2>1, <3>1, <3>4 DEF Further
      <3> QED BY <2>1, <3>1, <3>3, <3>5
    <2> QED BY <2>2, <2>3
  <1> QED BY <1>2, <1>3, <1>4 DEF Compared

\* Once all dirty windows are behind it, a simulation has met them all.
LEMMA AllDirtyMet ==
  ASSUME NEW c, IsSimulation(c), DirtyWindows(c) # {}, NEW n \in Nat,
         \A w \in DirtyWindows(c) : w < n
  PROVE  /\ n \notin DirtyWindows(c) /\ DirtyUpto(c, n) = DirtyWindows(c)
         /\ Cardinality(DirtyWindows(c)) \in Nat \ {0}
  <1>1. DirtyWindows(c) \subseteq 1..Len(c.schedule) /\ Len(c.schedule) \in Nat
    BY DEF DirtyWindows, IsSimulation
  <1>2. DirtyUpto(c, n) = DirtyWindows(c)
    BY <1>1 DEF DirtyUpto
  <1> QED BY <1>1, <1>2, DirtyCounts

LEMMA PausePays ==
  ASSUME NEW c, IsSimulation(c), NEW on, NEW pause, Compared(c, on, pause),
         c.kind = "threshold", OneEpisode(c), c.clean.parts % Parts = 0,
         \A sim \in {on, pause} : sim.iters >= c.total /\ sim.window <= Len(c.schedule),
         \A w \in DirtyWindows(c) : w < on.window,
         NEW v \in DirtyWindows(c), NEW w \in DOMAIN c.schedule \ DirtyWindows(c)
  PROVE  pause.carbon < on.carbon <=>
           BeyondBreakEven(c.clean.parts * c.clean.energy, c.idle, c.resume,
                           c.schedule[v], c.schedule[w], Cardinality(DirtyWindows(c)))
  <1>1. /\ on \in SimType /\ pause \in SimType /\ on.window \in Nat /\ pause.window \in Nat
        /\ on.iters \in Nat /\ pause.iters \in Nat /\ c.total \in Nat /\ v \in Nat
        /\ v \in DOMAIN c.schedule /\ w \in DOMAIN c.schedule /\ c.clean.parts \in Nat
        /\ DirtyWindows(c) # {}
    <2>1. on \in SimType /\ pause \in SimType
      BY DEF Compared, SimInv
    <2>2. v \in DOMAIN c.schedule /\ v \in Nat
      BY ScheduleIs
    <2> QED BY <2>1, <2>2, ScheduleIs DEF SimType
  <1>2. c.clean.parts > 0
    <2> SUFFICES ASSUME c.clean.parts = 0 PROVE FALSE
      BY <1>1
    <2>1. on.iters = 0 /\ (c.total = 0 => on.window = 0)
      BY DEF Compared
    <2>2. c.total = 0
      BY <1>1, <2>1
    <2>3. v < on.window
      OBVIOUS
    <2> QED BY <1>1, <2>1, <2>2, <2>3
  <1>3. Whole(c)
    BY <1>2 DEF Whole
  <1> PICK a, p : a = AlwaysOn(c) /\ p = PauseInDirty(c)
    OBVIOUS
  <1>4. TrainedInv(a, on) /\ PausedInv(p, pause) /\ Lockstep(c, on, pause)
    BY <1>3 DEF Compared
  <1>5. /\ a.schedule = c.schedule /\ a.clean = c.clean /\ a.total = c.total
        /\ p.schedule = c.schedule /\ p.clean = c.clean /\ p.total = c.total
        /\ p.resume = c.resume /\ p.idle = c.idle
        /\ DirtyWindows(a) = DirtyWindows(c) /\ DirtyWindows(p) = DirtyWindows(c)
    BY PoliciesOf
  <1>6. on.iters = c.total /\ pause.iters = c.total
    BY <1>1, <1>4, <1>5 DEF TrainedInv, PausedInv
  <1>7. /\ on.window \notin DirtyWindows(c) /\ pause.window \notin DirtyWindows(c)
        /\ DirtyUpto(c, on.window) = DirtyWindows(c) /\ DirtyUpto(c, pause.window) = DirtyWindows(c)
        /\ Cardinality(DirtyWindows(c)) \in Nat \ {0}
    <2>1. on.window <= pause.window
      BY <1>4 DEF Lockstep
    <2>2. \A u \in DirtyWindows(c) : u \in Nat /\ u < on.window /\ u < pause.window
      <3> TAKE u \in DirtyWindows(c)
      <3>1. u \in Nat /\ u < on.window
        BY ScheduleIs
      <3> QED BY <1>1, <2>1, <3>1
    <2> QED BY <1>1, <2>2, AllDirtyMet
  <1> PICK d \in Nat \ {0} : d = Cardinality(DirtyWindows(c))
    BY <1>7
  <1>8. Dirtied(a, on) = d /\ Dirtied(p, pause) = d
    BY <1>5, <1>7, Zenon DEF Dirtied, DirtyUpto
  <1> PICK x \in Nat : x = c.total * Parts
    <2>1. c.total * Parts \in Nat
      BY <1>1, PartsAssumption
    <2> QED BY <2>1
  <1>9. on.carbon = TrainedBill(c, v, w, d, x)
    <2>1. on.window <= Len(a.schedule) /\ on.window \notin DirtyWindows(a)
      BY <1>5, <1>7
    <2>2. on.carbon = TrainedBill(a, v, w, Dirtied(a, on), on.iters * Parts)
      BY <1>4, <1>5, <2>1, Zenon DEF TrainedInv
    <2>3. TrainedBill(a, v, w, d, x) = TrainedBill(c, v, w, d, x)
      BY <1>5, Zenon DEF TrainedBill
    <2> QED BY <1>6, <1>8, <2>2, <2>3
  <1>10. pause.carbon = PausedBill(c, v, w, d, x) + c.resume * c.schedule[w]
    <2>1. pause.window <= Len(p.schedule) /\ pause.window \notin DirtyWindows(p)
      BY <1>5, <1>7
    <2>2. /\ ~pause.paused
          /\ pause.carbon = PausedBill(p, v, w, Dirtied(p, pause), pause.iters * Parts)
                              + (IF Resumed(p, pause) THEN p.resume * p.schedule[w] ELSE 0)
      BY <1>4, <1>5, <2>1, Zenon DEF PausedInv
    <2>3. Resumed(p, pause)
      BY <1>8, <2>2 DEF Resumed
    <2>4. PausedBill(p, v, w, d, x) = PausedBill(c, v, w, d, x)
      BY <1>5, Zenon DEF PausedBill
    <2> QED BY <1>5, <1>6, <1>8, <2>2, <2>3, <2>4, Zenon
  <1> PICK q \in Nat, e \in Nat, i \in Nat, j \in Nat, l \in Nat, f \in Nat :
        /\ q = c.clean.parts /\ e = c.clean.energy /\ i = c.schedule[v] /\ j = c.schedule[w]
        /\ l = c.idle /\ f = c.resume
    <2>1. /\ c.clean.energy \in Nat /\ c.idle \in Nat /\ c.resume \in Nat
          /\ c.schedule[v] \in Nat /\ c.schedule[w] \in Nat
      BY <1>1, ScheduleIs
    <2> QED BY <1>1, <2>1
  <1> PICK r \in Nat : r = f * j
    <2>1. f * j \in Nat
      OBVIOUS
    <2> QED BY <2>1
  <1>11. on.carbon = d * (q * e * i) + (x - d * q) * (e * j)
    BY <1>9, Zenon DEF TrainedBill
  <1>12. pause.carbon = d * (l * i) + x * (e * j) + r
    BY <1>10, Zenon DEF PausedBill
  <1>13. pause.carbon < on.carbon <=> q * e * (i - j) - l * i > 0 /\ d * (q * e * (i - j) - l * i) > r
    <2>1. d * (l * i) + x * (e * j) + r < d * (q * e * i) + (x - d * q) * (e * j)
            <=> q * e * (i - j) - l * i > 0 /\ d * (q * e * (i - j) - l * i) > r
      BY ONLY d \in Nat \ {0}, q \in Nat, e \in Nat, i \in Nat, j \in Nat, x \in Nat, l \in Nat,
              r \in Nat, BillsCompare, Zenon
    <2> QED BY <1>11, <1>12, <2>1, Zenon
  <1>14. BeyondBreakEven(q * e, l, f, i, j, d)
           <=> q * e * (i - j) - l * i > 0 /\ d * (q * e * (i - j) - l * i) > r
    BY Zenon DEF BeyondBreakEven
  <1> QED BY <1>13, <1>14, Zenon

PauseInv ==
  /\ ProblemInv
  /\ kind = "simulation" => Compared(problem, answer.on, answer.pause)

(* Two ways to ask whether a pause pays agree for every schedule and every    *)
(* measured point of whole iterations: simulated to their ends, the policy    *)
(* that pauses in the one run of dirty windows emits less than the one that   *)
(* trains on just when the run is longer than the closed form's break-even    *)
(* window (regime.py:108-138, throttle_pareto.py:89-153).                      *)
THEOREM PausesPay == Spec => []PausePaysBeyondBreakEven
  <1>1. ASSUME ProblemInv, kind = "simulation"
        PROVE  IsSimulation(problem)
    BY <1>1, CarbonTypes
  <1>2. Init => PauseInv
    <2> SUFFICES ASSUME Init PROVE PauseInv
      OBVIOUS
    <2>1. ProblemInv /\ answer = FirstAnswer(kind, problem)
      BY DEF Init, ProblemInv
    <2>2. ASSUME kind = "simulation" PROVE Compared(problem, answer.on, answer.pause)
      <3>1. answer.on = SimInit /\ answer.pause = SimInit
        BY <2>1, <2>2 DEF FirstAnswer
      <3> QED BY <1>1, <2>1, <2>2, <3>1, ComparedBegins
    <2> QED BY <2>1, <2>2 DEF PauseInv
  <1>3. PauseInv /\ [Next]_vars => PauseInv'
    <2> SUFFICES ASSUME PauseInv, [Next]_vars PROVE PauseInv'
      OBVIOUS
    <2>1. CASE UNCHANGED vars
      BY <2>1 DEF PauseInv, ProblemInv, vars
    <2>2. CASE Next
      <3>1. kind' = kind /\ problem' = problem /\ ProblemInv /\ ProblemInv'
        BY <2>2, OwnAction DEF PauseInv, ProblemInv
      <3>2. CASE kind = "simulation"
        <4>1. /\ answer'.on = SimWindow(AlwaysOn(problem), answer.on)
              /\ answer'.pause = SimWindow(PauseInDirty(problem), answer.pause)
          BY <2>2, <3>2, OwnAction DEF Simulate
        <4>2. Compared(problem, answer'.on, answer'.pause)
          BY <1>1, <3>1, <3>2, <4>1, ComparedStep DEF PauseInv
        <4> QED BY <3>1, <3>2, <4>2 DEF PauseInv
      <3> QED BY <3>1, <3>2 DEF PauseInv
    <2> QED BY <2>1, <2>2
  <1>4. PauseInv => PausePaysBeyondBreakEven
    <2> SUFFICES ASSUME PauseInv, kind = "simulation", problem.clean.parts % Parts = 0, Comparable,
                        NEW v \in DirtyWindows(problem),
                        NEW w \in DOMAIN problem.schedule \ DirtyWindows(problem)
                 PROVE  answer.pause.carbon < answer.on.carbon <=>
                          BeyondBreakEven(problem.clean.parts * problem.clean.energy, problem.idle,
                                          problem.resume, problem.schedule[v], problem.schedule[w],
                                          Cardinality(DirtyWindows(problem)))
      BY Zenon DEF PausePaysBeyondBreakEven
    <2>1. IsSimulation(problem) /\ Compared(problem, answer.on, answer.pause)
      BY <1>1 DEF PauseInv
    <2> QED BY <2>1, PausePays, Zenon DEF Comparable
  <1> QED BY <1>2, <1>3, <1>4, PTL DEF Spec
-----------------------------------------------------------------------------
(* GPU by GPU.                                                                *)

IsCurve(job) == job.rate \in Seq(Nat) /\ job.cur \in 0..MaxOf(job)

AreJobs(jobs) ==
  /\ IsFiniteSet(DOMAIN jobs) /\ DOMAIN jobs \subseteq Nat \ {0}
  /\ \A j \in DOMAIN jobs : IsCurve(jobs[j])

LEMMA AllocationsAre ==
  ASSUME NEW jobs, AreJobs(jobs)
  PROVE  /\ \A a : a \in Allocations(jobs) <=>
              /\ a \in [DOMAIN jobs -> Nat]
              /\ \A j \in DOMAIN jobs : a[j] \in jobs[j].cur..MaxOf(jobs[j])
         /\ Current(jobs) \in Allocations(jobs)
         /\ \A j \in DOMAIN jobs : /\ MaxOf(jobs[j]) \in Nat /\ jobs[j].cur \in Nat
                                   /\ Current(jobs)[j] = jobs[j].cur /\ jobs[j].cur <= MaxOf(jobs[j])
  <1> DEFINE D == DOMAIN jobs
             U == UNION {0..MaxOf(jobs[j]) : j \in D}
  <1>1. \A j \in D : MaxOf(jobs[j]) \in Nat /\ jobs[j].cur \in 0..MaxOf(jobs[j])
    BY DEF AreJobs, IsCurve, MaxOf
  <1>2. U \subseteq Nat /\ \A j \in D : 0..MaxOf(jobs[j]) \subseteq U
    BY <1>1
  <1>3. ASSUME NEW a
        PROVE  a \in Allocations(jobs) <=>
                 a \in [D -> Nat] /\ \A j \in D : a[j] \in jobs[j].cur..MaxOf(jobs[j])
    <2>1. ASSUME a \in Allocations(jobs)
          PROVE  a \in [D -> Nat] /\ \A j \in D : a[j] \in jobs[j].cur..MaxOf(jobs[j])
      <3>1. a \in [D -> U] /\ \A j \in D : jobs[j].cur <= a[j] /\ a[j] <= MaxOf(jobs[j])
        BY <2>1 DEF Allocations
      <3> HIDE DEF U
      <3>2. a \in [D -> Nat]
        BY <1>2, <3>1
      <3> QED BY <1>1, <3>1, <3>2
    <2>2. ASSUME a \in [D -> Nat], \A j \in D : a[j] \in jobs[j].cur..MaxOf(jobs[j])
          PROVE  a \in Allocations(jobs)
      <3>1. \A j \in D : a[j] \in 0..MaxOf(jobs[j]) /\ jobs[j].cur <= a[j] /\ a[j] <= MaxOf(jobs[j])
        BY <1>1, <2>2
      <3>2. a \in [D -> U]
        <4>1. \A j \in D : a[j] \in U
          BY <1>2, <3>1
        <4> HIDE DEF U
        <4> QED BY <2>2, <4>1
      <3> QED BY <3>1, <3>2 DEF Allocations
    <2> QED BY <2>1, <2>2
  <1>4. Current(jobs) \in [D -> Nat] /\ \A j \in D : Current(jobs)[j] = jobs[j].cur
    BY <1>1 DEF Current
  <1>5. Current(jobs) \in Allocations(jobs)
    BY <1>1, <1>3, <1>4
  <1> QED BY <1>1, <1>3, <1>4, <1>5

LEMMA CurveIs ==
  ASSUME NEW job, IsCurve(job)
  PROVE  /\ MaxOf(job) \in Nat /\ job.cur \in Nat
         /\ \A g \in 0..MaxOf(job) : At(job.rate, g) \in Nat
         /\ \A g \in 0..(MaxOf(job) - 1) :
              Gain(job, g) \in Int /\ Gain(job, g) = At(job.rate, g + 1) - At(job.rate, g)
  <1>1. MaxOf(job) \in Nat /\ job.cur \in Nat /\ MaxOf(job) = Len(job.rate)
    BY DEF IsCurve, MaxOf
  <1>2. ASSUME NEW g \in 0..MaxOf(job) PROVE At(job.rate, g) \in Nat
    <2>1. g # 0 => g \in 1..Len(job.rate)
      BY <1>1
    <2>2. g # 0 => job.rate[g] \in Nat
      BY <2>1, ElementOfSeq DEF IsCurve
    <2> QED BY <2>2 DEF At
  <1>3. ASSUME NEW g \in 0..(MaxOf(job) - 1)
        PROVE  Gain(job, g) \in Int /\ Gain(job, g) = At(job.rate, g + 1) - At(job.rate, g)
    <2>1. g \in 0..MaxOf(job) /\ g + 1 \in 0..MaxOf(job)
      BY <1>1
    <2>2. At(job.rate, g + 1) - At(job.rate, g) \in Int
      BY <1>2, <2>1
    <2> QED BY <2>2 DEF Gain
  <1> QED BY <1>1, <1>2, <1>3

\* One round, whoever is picked.
Handed(pick, a) == IF pick[a] = Nobody THEN a ELSE [a EXCEPT ![pick[a]] = @ + 1]

Picks(jobs, pick) ==
  /\ pick \in [Allocations(jobs) -> Nat]
  /\ \A a \in Allocations(jobs) : pick[a] # Nobody => pick[a] \in WithRoom(jobs, a)

LEMMA HandedIs ==
  ASSUME NEW jobs, AreJobs(jobs), NEW pick, Picks(jobs, pick), NEW a \in Allocations(jobs)
  PROVE  /\ Handed(pick, a) \in Allocations(jobs)
         /\ SumFunction(a) \in Int
         /\ pick[a] # Nobody =>
              /\ pick[a] \in DOMAIN jobs /\ a[pick[a]] < MaxOf(jobs[pick[a]])
              /\ Handed(pick, a)[pick[a]] = a[pick[a]] + 1
              /\ \A j \in DOMAIN jobs \ {pick[a]} : Handed(pick, a)[j] = a[j]
              /\ SumFunction(Handed(pick, a)) = SumFunction(a) + 1
         /\ pick[a] = Nobody => Handed(pick, a) = a
  <1>1. /\ a \in [DOMAIN jobs -> Nat] /\ DOMAIN a = DOMAIN jobs
        /\ \A j \in DOMAIN jobs : a[j] \in jobs[j].cur..MaxOf(jobs[j])
        /\ \A j \in DOMAIN jobs : MaxOf(jobs[j]) \in Nat /\ jobs[j].cur \in Nat
    BY AllocationsAre
  <1>2. SumFunction(a) \in Int /\ SumFunction(a) = SumFunctionOnSet(a, DOMAIN jobs)
    BY <1>1, SumType DEF SumFunction, AreJobs
  <1>3. CASE pick[a] = Nobody
    BY <1>2, <1>3 DEF Handed
  <1>4. CASE pick[a] # Nobody
    <2> PICK b : b = pick[a]
      OBVIOUS
    <2>1. b \in DOMAIN jobs /\ a[b] < MaxOf(jobs[b])
      BY <1>4 DEF Picks, WithRoom
    <2> PICK c : c = Handed(pick, a)
      OBVIOUS
    <2>2. c = [a EXCEPT ![b] = @ + 1]
      BY <1>4 DEF Handed
    <2>3. /\ c[b] = a[b] + 1 /\ \A j \in DOMAIN jobs \ {b} : c[j] = a[j]
          /\ c \in [DOMAIN jobs -> Nat] /\ DOMAIN c = DOMAIN jobs
      BY <1>1, <2>1, <2>2
    <2>4. \A j \in DOMAIN jobs : c[j] \in jobs[j].cur..MaxOf(jobs[j])
      BY <1>1, <2>1, <2>3
    <2>5. c \in Allocations(jobs)
      BY <2>3, <2>4, AllocationsAre
    <2>6. SumFunctionOnSet(c, DOMAIN jobs) = SumFunctionOnSet(a, DOMAIN jobs) + 1
      <3>1. 1 \in Int /\ IsFiniteSet(DOMAIN jobs) /\ \A j \in DOMAIN jobs : a[j] \in Int
        BY <1>1 DEF AreJobs
      <3>2. \A j \in DOMAIN jobs \ {b} : c[j] = a[j]
        BY <2>3
      <3>3. c[b] = a[b] + 1 /\ b \in DOMAIN jobs
        BY <2>1, <2>3
      <3> QED BY ONLY <3>1, <3>2, <3>3, SumChanged
    <2> QED BY <1>2, <1>4, <2>1, <2>3, <2>5, <2>6 DEF SumFunction
  <1> QED BY <1>3, <1>4

\* What has been handed out after n rounds.
Outcome(jobs, pick, n, a) ==
  /\ a \in Allocations(jobs)
  /\ \/ SumFunction(a) = SumFunction(Current(jobs)) + n
     \/ SumFunction(a) <= SumFunction(Current(jobs)) + n /\ pick[a] = Nobody

LEMMA HeldSum ==
  ASSUME NEW jobs, AreJobs(jobs), NEW a \in Allocations(jobs)
  PROVE  SumFunction(a) \in Nat
  <1>1. DOMAIN a = DOMAIN jobs /\ \A j \in DOMAIN jobs : a[j] \in Nat
    BY AllocationsAre
  <1> QED BY <1>1, SumBounds DEF SumFunction, AreJobs

LEMMA RoundsHandOut ==
  ASSUME NEW jobs, AreJobs(jobs), NEW pick, Picks(jobs, pick), NEW step,
         step = [a \in Allocations(jobs) |-> Handed(pick, a)],
         NEW f, Rounds(Current(jobs), step, f), NEW n \in Nat
  PROVE  Outcome(jobs, pick, n, f[n])
  <1> DEFINE P == {m \in Nat : Outcome(jobs, pick, m, f[m])}
  <1>1. f[0] = Current(jobs) /\ \A m \in Nat : f[m + 1] = step[f[m]]
    BY RoundsStep
  <1>2. 0 \in P
    <2>1. Current(jobs) \in Allocations(jobs) /\ SumFunction(Current(jobs)) \in Nat
      BY AllocationsAre, HeldSum
    <2> QED BY <1>1, <2>1 DEF Outcome
  <1>3. ASSUME NEW m \in Nat, Outcome(jobs, pick, m, f[m]) PROVE Outcome(jobs, pick, m + 1, f[m + 1])
    <2> PICK a : a = f[m]
      OBVIOUS
    <2>1. a \in Allocations(jobs) /\ f[m + 1] = Handed(pick, a)
      BY <1>1, <1>3 DEF Outcome
    <2>2. SumFunction(Current(jobs)) \in Nat /\ SumFunction(a) \in Nat
      BY <2>1, AllocationsAre, HeldSum
    <2>3. CASE pick[a] = Nobody
      <3>1. f[m + 1] = a
        BY <2>1, <2>3 DEF Handed
      <3>2. SumFunction(a) <= SumFunction(Current(jobs)) + (m + 1)
        BY <1>3, <2>2 DEF Outcome
      <3> QED BY <2>1, <2>3, <3>1, <3>2 DEF Outcome
    <2>4. CASE pick[a] # Nobody
      <3>1. SumFunction(a) = SumFunction(Current(jobs)) + m
        BY <1>3, <2>4 DEF Outcome
      <3>2. /\ Handed(pick, a) \in Allocations(jobs)
            /\ SumFunction(Handed(pick, a)) = SumFunction(a) + 1
        BY <2>1, <2>4, HandedIs
      <3>3. SumFunction(Handed(pick, a)) = SumFunction(Current(jobs)) + (m + 1)
        BY <2>2, <3>1, <3>2
      <3> QED BY <2>1, <3>2, <3>3 DEF Outcome
    <2> QED BY <2>3, <2>4
  <1>4. \A m \in Nat : m \in P => m + 1 \in P
    BY <1>3
  <1> HIDE DEF P
  <1>5. \A m \in Nat : m \in P
    BY <1>2, <1>4, Induction
  <1> QED BY <1>5 DEF P

\* The allocation that a way of picking leads to.
Given(jobs, available, pick, a) ==
  LET spare == available - SumFunction(Current(jobs)) IN
  IF spare <= 0 THEN a = Current(jobs)
  ELSE \E f : /\ Rounds(Current(jobs), [c \in Allocations(jobs) |-> Handed(pick, c)], f)
              /\ a = f[spare]

LEMMA GivenHandsOut ==
  ASSUME NEW jobs, AreJobs(jobs), NEW pick, Picks(jobs, pick), NEW available \in Int, NEW a,
         Given(jobs, available, pick, a), NEW takers, pick[a] = Nobody => takers = {}
  PROVE  HandsOut(jobs, available, a, takers)
  <1>1. Current(jobs) \in Allocations(jobs) /\ SumFunction(Current(jobs)) \in Nat
    BY AllocationsAre, HeldSum
  <1> PICK spare \in Int : spare = available - SumFunction(Current(jobs))
    BY <1>1
  <1>2. CASE spare <= 0
    <2>1. a = Current(jobs)
      BY <1>2 DEF Given
    <2> QED BY <1>1, <1>2, <2>1 DEF HandsOut
  <1>3. CASE spare > 0
    <2>1. PICK f : /\ Rounds(Current(jobs), [c \in Allocations(jobs) |-> Handed(pick, c)], f)
                   /\ a = f[spare]
      BY <1>3 DEF Given
    <2>2. Outcome(jobs, pick, spare, a)
      BY <1>3, <2>1, RoundsHandOut
    <2>3. a \in Allocations(jobs) /\ SumFunction(a) \in Nat
      BY <2>2, HeldSum DEF Outcome
    <2>4. \/ SumFunction(a) = SumFunction(Current(jobs)) + spare
          \/ SumFunction(a) <= SumFunction(Current(jobs)) + spare /\ pick[a] = Nobody
      BY <2>2 DEF Outcome
    <2>5. SumFunction(a) <= available /\ (SumFunction(a) < available => takers = {})
      BY <1>1, <2>3, <2>4
    <2> QED BY <2>3, <2>5 DEF HandsOut
  <1> QED BY <1>2, <1>3

\* What the rounds keep holds of the allocation.
LEMMA GivenKeeps ==
  ASSUME NEW jobs, AreJobs(jobs), NEW pick, Picks(jobs, pick), NEW available \in Int, NEW a,
         Given(jobs, available, pick, a),
         NEW Q \in SUBSET Allocations(jobs), Current(jobs) \in Q,
         \A c \in Q : Handed(pick, c) \in Q
  PROVE  a \in Q
  <1>1. SumFunction(Current(jobs)) \in Nat
    BY AllocationsAre, HeldSum
  <1> PICK spare \in Int : spare = available - SumFunction(Current(jobs))
    BY <1>1
  <1>2. CASE spare <= 0
    BY <1>2 DEF Given
  <1>3. CASE spare > 0
    <2>1. PICK f : /\ Rounds(Current(jobs), [c \in Allocations(jobs) |-> Handed(pick, c)], f)
                   /\ a = f[spare]
      BY <1>3 DEF Given
    <2> PICK step : step = [c \in Allocations(jobs) |-> Handed(pick, c)]
      OBVIOUS
    <2>2. \A c \in Q : step[c] \in Q
      OBVIOUS
    <2> QED BY <1>3, <2>1, <2>2, RoundsKeep
  <1> QED BY <1>2, <1>3

LEMMA StepType ==
  ASSUME NEW jobs, AreJobs(jobs), NEW pick, Picks(jobs, pick)
  PROVE  [c \in Allocations(jobs) |-> Handed(pick, c)] \in [Allocations(jobs) -> Allocations(jobs)]
  BY HandedIs

\* The loop of the two allocators.
FastestRounds(jobs, f) ==
  f = [n \in Nat |->
         IF n = 0 THEN Current(jobs)
         ELSE LET alloc == f[n - 1]  best == PickFastest(jobs, alloc)
              IN  IF best = Nobody THEN alloc ELSE [alloc EXCEPT ![best] = @ + 1]]

CheapestRounds(jobs, f) ==
  f = [n \in Nat |->
         IF n = 0 THEN Current(jobs)
         ELSE LET alloc == f[n - 1]  best == PickCheapest(jobs, alloc)
              IN  IF best = Nobody THEN alloc ELSE [alloc EXCEPT ![best] = @ + 1]]

LEMMA FastestIsGiven ==
  ASSUME NEW jobs, AreJobs(jobs), NEW pick, Picks(jobs, pick),
         pick = [a \in Allocations(jobs) |-> PickFastest(jobs, a)], NEW available \in Int
  PROVE  Given(jobs, available, pick, FastestAllocation(jobs, available))
  <1> DEFINE S == Allocations(jobs)
             s0 == Current(jobs)
             step == [c \in S |-> Handed(pick, c)]
             spare == available - SumFunction(s0)
             f == CHOOSE f : FastestRounds(jobs, f)
  <1>1. s0 \in S /\ step \in [S -> S]
    BY AllocationsAre, StepType
  <1>2. FastestAllocation(jobs, available) = IF spare <= 0 THEN s0 ELSE f[spare]
    BY Zenon DEF FastestAllocation, Allocation, FastestRounds
  <1>3. \A a \in S : step[a] = IF PickFastest(jobs, a) = Nobody THEN a
                               ELSE [a EXCEPT ![PickFastest(jobs, a)] = @ + 1]
    BY DEF Handed
  <1> HIDE DEF S, s0, step
  <1>4. \E g : FastestRounds(jobs, g)
    <2>1. PICK g \in [Nat -> S] : Rounds(s0, step, g)
      BY <1>1, RoundsExist
    <2>2. g[0] = s0 /\ \A n \in Nat : g[n + 1] = step[g[n]]
      BY <2>1, RoundsStep
    <2>3. ASSUME NEW n \in Nat
          PROVE  g[n] = IF n = 0 THEN s0
                        ELSE IF PickFastest(jobs, g[n - 1]) = Nobody THEN g[n - 1]
                             ELSE [g[n - 1] EXCEPT ![PickFastest(jobs, g[n - 1])] = @ + 1]
      <3>1. CASE n # 0
        <4>1. n - 1 \in Nat /\ (n - 1) + 1 = n
          BY <3>1
        <4>2. g[n] = step[g[n - 1]] /\ g[n - 1] \in S
          BY <2>2, <4>1
        <4> QED BY <1>3, <3>1, <4>2
      <3> QED BY <2>2, <3>1
    <2>4. FastestRounds(jobs, g)
      BY <2>1, <2>3 DEF FastestRounds, s0
    <2> QED BY <2>4
  <1>5. FastestRounds(jobs, f)
    BY <1>4
  <1> HIDE DEF f
  <1>6. f = [n \in Nat |-> f[n]] /\ f[0] = s0
    BY <1>5 DEF FastestRounds, s0
  <1>7. ASSUME NEW n \in Nat, f[n] \in S PROVE f[n + 1] = step[f[n]]
    <2>1. n + 1 \in Nat /\ n + 1 # 0 /\ (n + 1) - 1 = n
      OBVIOUS
    <2>2. f[n + 1] = IF n + 1 = 0 THEN s0
                     ELSE IF PickFastest(jobs, f[(n + 1) - 1]) = Nobody THEN f[(n + 1) - 1]
                          ELSE [f[(n + 1) - 1] EXCEPT ![PickFastest(jobs, f[(n + 1) - 1])] = @ + 1]
      BY <1>5, <2>1, Zenon DEF FastestRounds, s0
    <2> QED BY <1>3, <1>7, <2>1, <2>2
  <1>8. Rounds(s0, step, f)
    BY <1>1, <1>6, <1>7, RoundsAre
  <1> QED BY <1>2, <1>8 DEF Given, S, s0, step

\* Whom the fastest allocator picks.
LEMMA FastestPicks ==
  ASSUME NEW jobs, AreJobs(jobs), NEW a \in Allocations(jobs)
  PROVE  LET b == PickFastest(jobs, a) IN
         /\ b = Nobody <=> WithRoom(jobs, a) = {}
         /\ b # Nobody => /\ b \in WithRoom(jobs, a)
                          /\ \A k \in WithRoom(jobs, a) : Gain(jobs[b], a[b]) >= Gain(jobs[k], a[k])
         /\ b \in Nat
  <1> DEFINE room == WithRoom(jobs, a)
             b == PickFastest(jobs, a)
             gain(j) == Gain(jobs[j], a[j])
             Leads(j) == \A k \in room : gain(j) > gain(k) \/ (gain(j) = gain(k) /\ j <= k)
  <1>1. /\ room \in SUBSET Nat /\ IsFiniteSet(room) /\ \A j \in room : j # Nobody
        /\ \A j \in room : gain(j) \in Int
    <2>1. room \subseteq DOMAIN jobs /\ DOMAIN jobs \subseteq Nat \ {0} /\ IsFiniteSet(DOMAIN jobs)
      BY DEF WithRoom, AreJobs
    <2>2. IsFiniteSet(room)
      BY <2>1, FS_Subset
    <2>3. ASSUME NEW j \in room PROVE gain(j) \in Int
      <3>1. /\ j \in DOMAIN jobs /\ a[j] < MaxOf(jobs[j]) /\ a[j] \in jobs[j].cur..MaxOf(jobs[j])
            /\ jobs[j].cur \in Nat /\ MaxOf(jobs[j]) \in Nat /\ IsCurve(jobs[j])
        BY AllocationsAre DEF WithRoom, AreJobs
      <3>2. a[j] \in 0..(MaxOf(jobs[j]) - 1)
        BY <3>1
      <3> QED BY <3>1, <3>2, CurveIs
    <2>4. 0 \notin room
      BY <2>1
    <2> HIDE DEF room, gain
    <2> QED BY <2>1, <2>2, <2>3, <2>4 DEF Nobody
  <1>2. b = IF room = {} THEN Nobody ELSE CHOOSE j \in room : Leads(j)
    BY Zenon DEF PickFastest
  <1> HIDE DEF room, gain, b
  <1>3. ASSUME room # {} PROVE \E j \in room : Leads(j)
    <2> PICK R : R = {p \in room \X room : gain(p[1]) >= gain(p[2])}
      OBVIOUS
    <2>1. \A j \in room : \A k \in room : <<j, k>> \in R <=> gain(j) >= gain(k)
      OBVIOUS
    <2>2. /\ \A j \in room : \A k \in room : <<j, k>> \in R \/ <<k, j>> \in R
          /\ \A j \in room : \A k \in room : \A l \in room :
               <<j, k>> \in R /\ <<k, l>> \in R => <<j, l>> \in R
      BY <1>1, <2>1
    <2>3. PICK e \in room : \A k \in room : <<e, k>> \in R /\ (<<k, e>> \in R => e <= k)
      BY ONLY <1>1, <1>3, <2>2, FirstOfBest
    <2>4. ASSUME NEW k \in room PROVE gain(e) > gain(k) \/ (gain(e) = gain(k) /\ e <= k)
      <3>1. gain(e) >= gain(k) /\ (gain(k) >= gain(e) => e <= k)
        BY <2>1, <2>3
      <3>2. gain(e) \in Int /\ gain(k) \in Int
        BY <1>1
      <3> QED BY ONLY <3>1, <3>2
    <2> QED BY <2>4
  <1>4. room # {} => b \in room /\ Leads(b)
    BY <1>2, <1>3
  <1>5. room = {} => b = Nobody
    BY <1>2
  <1>6. ASSUME room # {} PROVE b \in room /\ b # Nobody /\ \A k \in room : gain(b) >= gain(k)
    <2>1. b \in room /\ b # Nobody /\ gain(b) \in Int
      BY <1>1, <1>4, <1>6
    <2>2. ASSUME NEW k \in room PROVE gain(b) >= gain(k)
      <3>1. gain(b) > gain(k) \/ gain(b) = gain(k)
        BY <1>4, <1>6
      <3>2. gain(k) \in Int
        BY <1>1
      <3> QED BY ONLY <2>1, <3>1, <3>2
    <2> QED BY <2>1, <2>2
  <1>7. b \in Nat
    <2>1. Nobody \in Nat /\ \A j \in room : j \in Nat
      BY <1>1 DEF Nobody
    <2> QED BY <1>5, <1>6, <2>1
  <1> QED BY <1>5, <1>6, <1>7 DEF room, gain, b

LEMMA RoomGains ==
  ASSUME NEW jobs, AreJobs(jobs), NEW a \in Allocations(jobs)
  PROVE  \A k \in WithRoom(jobs, a) :
           k \in DOMAIN jobs /\ a[k] \in 0..(MaxOf(jobs[k]) - 1) /\ Gain(jobs[k], a[k]) \in Int
  <1> SUFFICES ASSUME NEW j \in WithRoom(jobs, a)
               PROVE  /\ j \in DOMAIN jobs /\ a[j] \in 0..(MaxOf(jobs[j]) - 1)
                      /\ Gain(jobs[j], a[j]) \in Int
    OBVIOUS
  <1>1. /\ j \in DOMAIN jobs /\ a[j] < MaxOf(jobs[j]) /\ a[j] \in jobs[j].cur..MaxOf(jobs[j])
        /\ jobs[j].cur \in Nat /\ MaxOf(jobs[j]) \in Nat /\ IsCurve(jobs[j])
    BY AllocationsAre DEF WithRoom, AreJobs
  <1>2. a[j] \in 0..(MaxOf(jobs[j]) - 1)
    BY <1>1
  <1> QED BY <1>1, <1>2, CurveIs

\* Each GPU that was handed out gained l at least, and no further one would gain
\* more.
Level(jobs, a, l) ==
  \A j \in DOMAIN jobs :
    /\ a[j] < MaxOf(jobs[j]) => Gain(jobs[j], a[j]) <= l
    /\ a[j] > jobs[j].cur => Gain(jobs[j], a[j] - 1) >= l

\* Gains fall from the GPUs a job has on.
LEMMA GainsFall ==
  ASSUME NEW job, IsCurve(job), Concave(job)
  PROVE  \A g \in job.cur..(MaxOf(job) - 1) : \A h \in job.cur..(MaxOf(job) - 1) :
           g <= h => Gain(job, h) <= Gain(job, g)
  <1>1. job.cur \in Nat /\ MaxOf(job) \in Nat
    BY CurveIs
  <1> SUFFICES ASSUME job.cur <= MaxOf(job) - 1
               PROVE  \A g \in job.cur..(MaxOf(job) - 1) : \A h \in job.cur..(MaxOf(job) - 1) :
                        g <= h => Gain(job, h) <= Gain(job, g)
    BY <1>1
  <1> PICK n \in Nat : n = MaxOf(job) - 1
    BY <1>1
  <1> PICK m \in Nat : m = job.cur
    BY <1>1
  <1> DEFINE v == [g \in m..n |-> Gain(job, g)]
  <1>2. \A g \in m..n : v[g] \in Int
    <2>1. \A g \in m..n : g \in 0..(MaxOf(job) - 1)
      OBVIOUS
    <2> QED BY <2>1, CurveIs
  <1>3. ASSUME NEW h \in m..n, h < n PROVE v[h + 1] <= v[h]
    <2>1. h \in job.cur..(MaxOf(job) - 2) /\ h + 1 \in m..n
      BY <1>1, <1>3
    <2>2. Gain(job, h + 1) <= Gain(job, h)
      BY <2>1 DEF Concave
    <2> QED BY <2>1, <2>2
  <1>4. \A g \in m..n : v[g] = Gain(job, g)
    OBVIOUS
  <1> HIDE DEF v
  <1>5. \A g \in m..n : \A h \in m..n : g <= h => v[h] <= v[g]
    BY <1>2, <1>3, NeverRises
  <1> QED BY <1>4, <1>5

\* At the price l of a GPU no other count of GPUs is worth more to the job.
LEMMA LevelIsPeak ==
  ASSUME NEW job, IsCurve(job), Concave(job), NEW l \in Int, NEW g \in job.cur..MaxOf(job),
         g < MaxOf(job) => Gain(job, g) <= l,
         g > job.cur => Gain(job, g - 1) >= l
  PROVE  \A h \in job.cur..MaxOf(job) : At(job.rate, h) - l * h <= At(job.rate, g) - l * g
  <1>1. job.cur \in Nat /\ MaxOf(job) \in Nat
    BY CurveIs
  <1> PICK m \in Nat, n \in Nat : m = job.cur /\ n = MaxOf(job)
    BY <1>1
  <1> DEFINE v == [h \in m..n |-> At(job.rate, h) - l * h]
  <1>2. \A h \in m..n : h \in Nat /\ At(job.rate, h) \in Nat /\ l * h \in Int
    <2>1. \A h \in m..n : h \in 0..MaxOf(job) /\ h \in Nat
      OBVIOUS
    <2>2. \A h \in m..n : At(job.rate, h) \in Nat
      BY <2>1, CurveIs
    <2> QED BY <2>1, <2>2
  <1>3. \A h \in m..n : v[h] \in Int /\ v[h] = At(job.rate, h) - l * h
    BY <1>2
  <1>4. ASSUME NEW h \in m..n, h < n
        PROVE  /\ h + 1 \in m..n /\ h \in job.cur..(MaxOf(job) - 1) /\ Gain(job, h) \in Int
               /\ v[h + 1] = v[h] + Gain(job, h) - l
    <2>1. h + 1 \in m..n /\ h \in job.cur..(MaxOf(job) - 1) /\ h \in 0..(MaxOf(job) - 1)
      BY <1>4
    <2>2. Gain(job, h) \in Int /\ Gain(job, h) = At(job.rate, h + 1) - At(job.rate, h)
      BY <2>1, CurveIs
    <2>3. l * (h + 1) = l * h + l
      BY <1>2
    <2>4. v[h + 1] = At(job.rate, h + 1) - l * (h + 1) /\ v[h] = At(job.rate, h) - l * h
      BY <2>1, <1>3
    <2>5. At(job.rate, h + 1) \in Nat /\ At(job.rate, h) \in Nat /\ l * h \in Int
      BY <1>2, <2>1
    <2> QED BY ONLY <2>1, <2>2, <2>3, <2>4, <2>5, l \in Int
  <1> HIDE DEF v
  <1>5. ASSUME NEW h \in m..n, g <= h, h < n PROVE v[h + 1] <= v[h]
    <2>1. g \in job.cur..(MaxOf(job) - 1) /\ Gain(job, g) \in Int
      BY <1>4, <1>5
    <2>2. Gain(job, h) <= Gain(job, g) /\ Gain(job, g) <= l
      BY <1>4, <1>5, <2>1, GainsFall
    <2> QED BY <1>3, <1>4, <1>5, <2>1, <2>2
  <1>6. ASSUME NEW h \in m..n, h < g PROVE v[h] <= v[h + 1]
    <2>1. g - 1 \in m..n /\ g - 1 < n /\ h <= g - 1 /\ h < n /\ g > job.cur
      BY <1>6
    <2>2. Gain(job, g - 1) <= Gain(job, h) /\ Gain(job, g - 1) >= l /\ Gain(job, g - 1) \in Int
      BY <1>4, <2>1, GainsFall
    <2> QED BY <1>3, <1>4, <2>1, <2>2
  <1>7. \A h \in m..n : v[h] <= v[g]
    <2>1. g \in m..n /\ \A h \in m..n : v[h] \in Int
      BY <1>3
    <2> QED BY <1>5, <1>6, <2>1, PeakIsHighest
  <1> QED BY <1>3, <1>7

LEMMA LevelBegins ==
  ASSUME NEW jobs, AreJobs(jobs)
  PROVE  \E l \in Int : Level(jobs, Current(jobs), l)
  <1> PICK a : a = Current(jobs)
    OBVIOUS
  <1> PICK b : b = PickFastest(jobs, a)
    OBVIOUS
  <1>1. /\ a \in Allocations(jobs)
        /\ \A j \in DOMAIN jobs : /\ a[j] = jobs[j].cur /\ jobs[j].cur \in Nat
                                  /\ MaxOf(jobs[j]) \in Nat
    BY AllocationsAre
  <1>2. /\ b = Nobody <=> WithRoom(jobs, a) = {}
        /\ b # Nobody => /\ b \in WithRoom(jobs, a)
                         /\ \A k \in WithRoom(jobs, a) : Gain(jobs[b], a[b]) >= Gain(jobs[k], a[k])
    BY <1>1, FastestPicks
  <1>3. \A k \in WithRoom(jobs, a) : Gain(jobs[k], a[k]) \in Int
    BY <1>1, RoomGains
  <1>4. CASE b = Nobody
    <2>1. Level(jobs, a, 0)
      BY <1>1, <1>2, <1>4 DEF Level, WithRoom
    <2> QED BY <2>1
  <1>5. CASE b # Nobody
    <2> PICK l \in Int : l = Gain(jobs[b], a[b])
      BY <1>2, <1>3, <1>5
    <2>1. ASSUME NEW j \in DOMAIN jobs
          PROVE  /\ a[j] < MaxOf(jobs[j]) => Gain(jobs[j], a[j]) <= l
                 /\ ~(a[j] > jobs[j].cur)
      <3>1. a[j] < MaxOf(jobs[j]) => j \in WithRoom(jobs, a)
        BY DEF WithRoom
      <3> QED BY <1>1, <1>2, <1>3, <1>5, <3>1
    <2>2. Level(jobs, a, l)
      BY <2>1 DEF Level
    <2> QED BY <2>2
  <1> QED BY <1>4, <1>5

LEMMA LevelKept ==
  ASSUME NEW jobs, AreJobs(jobs), \A j \in DOMAIN jobs : Concave(jobs[j]),
         NEW a \in Allocations(jobs), NEW l \in Int, Level(jobs, a, l),
         NEW pick, Picks(jobs, pick), pick[a] = PickFastest(jobs, a)
  PROVE  \E m \in Int : Level(jobs, Handed(pick, a), m)
  <1> PICK b, c : b = pick[a] /\ c = Handed(pick, a)
    OBVIOUS
  <1>1. CASE b = Nobody
    <2>1. c = a
      BY <1>1 DEF Handed
    <2> QED BY <2>1
  <1>2. CASE b # Nobody
    <2>1. /\ b \in DOMAIN jobs /\ a[b] < MaxOf(jobs[b]) /\ c[b] = a[b] + 1
          /\ \A j \in DOMAIN jobs \ {b} : c[j] = a[j]
      BY <1>2, HandedIs
    <2>2. \A k \in WithRoom(jobs, a) : Gain(jobs[b], a[b]) >= Gain(jobs[k], a[k])
      BY <1>2, FastestPicks
    <2>3. b \in WithRoom(jobs, a)
      BY <2>1 DEF WithRoom
    <2>4. \A k \in WithRoom(jobs, a) : Gain(jobs[k], a[k]) \in Int
      BY RoomGains
    <2> PICK m \in Int : m = Gain(jobs[b], a[b])
      BY <2>3, <2>4
    <2>5. m <= l
      BY <2>1 DEF Level
    <2>6. ASSUME NEW j \in DOMAIN jobs
          PROVE  /\ jobs[j].cur \in Nat /\ MaxOf(jobs[j]) \in Nat
                 /\ a[j] \in jobs[j].cur..MaxOf(jobs[j]) /\ IsCurve(jobs[j]) /\ Concave(jobs[j])
                 /\ a[j] < MaxOf(jobs[j]) => j \in WithRoom(jobs, a)
      BY AllocationsAre DEF AreJobs, WithRoom
    <2>7. ASSUME NEW j \in DOMAIN jobs \ {b}
          PROVE  /\ c[j] < MaxOf(jobs[j]) => Gain(jobs[j], c[j]) <= m
                 /\ c[j] > jobs[j].cur => Gain(jobs[j], c[j] - 1) >= m
      <3>1. c[j] = a[j]
        BY <2>1
      <3>2. a[j] < MaxOf(jobs[j]) => Gain(jobs[j], a[j]) <= m
        BY <2>2, <2>4, <2>6
      <3>3. a[j] > jobs[j].cur => Gain(jobs[j], a[j] - 1) >= m
        <4> SUFFICES ASSUME a[j] > jobs[j].cur PROVE Gain(jobs[j], a[j] - 1) >= m
          OBVIOUS
        <4>1. Gain(jobs[j], a[j] - 1) >= l
          BY DEF Level
        <4>2. a[j] - 1 \in 0..(MaxOf(jobs[j]) - 1)
          BY <2>6
        <4>3. Gain(jobs[j], a[j] - 1) \in Int
          BY <2>6, <4>2, CurveIs
        <4> QED BY ONLY <2>5, <4>1, <4>3, m \in Int, l \in Int
      <3> QED BY <3>1, <3>2, <3>3
    <2>8. /\ c[b] < MaxOf(jobs[b]) => Gain(jobs[b], c[b]) <= m
          /\ c[b] > jobs[b].cur => Gain(jobs[b], c[b] - 1) >= m
      <3>1. c[b] - 1 = a[b] /\ a[b] \in jobs[b].cur..(MaxOf(jobs[b]) - 1)
        BY <2>1, <2>6
      <3>2. ASSUME c[b] < MaxOf(jobs[b]) PROVE Gain(jobs[b], c[b]) <= m
        <4>1. c[b] \in jobs[b].cur..(MaxOf(jobs[b]) - 1) /\ a[b] <= c[b]
          BY <2>1, <2>6, <3>2
        <4> QED BY <2>1, <2>6, <3>1, <4>1, GainsFall
      <3> QED BY <3>1, <3>2
    <2>9. Level(jobs, c, m)
      BY <2>7, <2>8 DEF Level
    <2> QED BY <2>9
  <1> QED BY <1>1, <1>2

LEMMA LevelIsBest ==
  ASSUME NEW jobs, AreJobs(jobs), \A j \in DOMAIN jobs : Concave(jobs[j]),
         NEW a \in Allocations(jobs), NEW l \in Int, Level(jobs, a, l),
         NEW c \in Allocations(jobs), SumFunction(c) = SumFunction(a)
  PROVE  Total(jobs, c, "rate") <= Total(jobs, a, "rate")
  <1> PICK D : D = DOMAIN jobs /\ IsFiniteSet(D)
    BY DEF AreJobs
  <1> PICK f, u : /\ f = [j \in D |-> At(jobs[j]["rate"], c[j])]
                  /\ u = [j \in D |-> At(jobs[j]["rate"], a[j])]
    OBVIOUS
  <1>1. /\ Total(jobs, c, "rate") = SumFunctionOnSet(f, D)
        /\ Total(jobs, a, "rate") = SumFunctionOnSet(u, D)
    BY DEF Total, SumFunction
  <1>2. /\ DOMAIN a = D /\ DOMAIN c = D
        /\ SumFunctionOnSet(c, D) = SumFunctionOnSet(a, D)
    <2>1. DOMAIN a = D /\ DOMAIN c = D
      BY AllocationsAre
    <2> QED BY <2>1 DEF SumFunction
  <1> PICK k \in Int : k = -l
    OBVIOUS
  <1> PICK one \in Int : one = 1
    OBVIOUS
  <1>3. ASSUME NEW j \in D
        PROVE  /\ f[j] \in Int /\ c[j] \in Int /\ u[j] \in Int /\ a[j] \in Int
               /\ one * f[j] + k * c[j] <= one * u[j] + k * a[j]
    <2>1. /\ IsCurve(jobs[j]) /\ Concave(jobs[j]) /\ a[j] \in Nat /\ c[j] \in Nat
          /\ a[j] \in jobs[j].cur..MaxOf(jobs[j]) /\ c[j] \in jobs[j].cur..MaxOf(jobs[j])
          /\ a[j] \in 0..MaxOf(jobs[j]) /\ c[j] \in 0..MaxOf(jobs[j])
      <3>1. /\ a[j] \in Nat /\ a[j] \in jobs[j].cur..MaxOf(jobs[j]) /\ jobs[j].cur \in Nat
            /\ c[j] \in Nat /\ c[j] \in jobs[j].cur..MaxOf(jobs[j]) /\ MaxOf(jobs[j]) \in Nat
        BY AllocationsAre
      <3> QED BY <3>1 DEF AreJobs
    <2>2. f[j] = At(jobs[j].rate, c[j]) /\ u[j] = At(jobs[j].rate, a[j])
      OBVIOUS
    <2>3. f[j] \in Nat /\ u[j] \in Nat
      BY <2>1, <2>2, CurveIs
    <2>4. /\ a[j] < MaxOf(jobs[j]) => Gain(jobs[j], a[j]) <= l
          /\ a[j] > jobs[j].cur => Gain(jobs[j], a[j] - 1) >= l
      BY DEF Level
    <2>5. f[j] - l * c[j] <= u[j] - l * a[j]
      BY ONLY <2>1, <2>2, <2>4, l \in Int, LevelIsPeak
    <2>6. k * c[j] = -(l * c[j]) /\ k * a[j] = -(l * a[j]) /\ l * c[j] \in Int /\ l * a[j] \in Int
      BY ONLY <2>1, l \in Int, k = -l
    <2> QED BY <2>1, <2>3, <2>5, <2>6
  <1>4. one * SumFunctionOnSet(f, D) + k * SumFunctionOnSet(c, D)
          <= one * SumFunctionOnSet(u, D) + k * SumFunctionOnSet(a, D)
    BY ONLY <1>3, IsFiniteSet(D), k \in Int, one \in Int, WorthMost
  <1>5. SumFunctionOnSet(f, D) \in Int /\ SumFunctionOnSet(u, D) \in Int /\ SumFunctionOnSet(a, D) \in Int
    BY <1>3, SumType
  <1> PICK s \in Int : s = k * SumFunctionOnSet(a, D)
    BY <1>5
  <1> QED BY <1>1, <1>2, <1>4, <1>5

(* The greedy throughput allocation is optimal for concave curves.            *)
LEMMA FastestStands ==
  ASSUME NEW jobs, AreJobs(jobs), NEW available \in Int
  PROVE  FastestIsBest(jobs, available, FastestAllocation(jobs, available))
  <1> PICK pick : pick = [a \in Allocations(jobs) |-> PickFastest(jobs, a)]
    OBVIOUS
  <1> PICK a : a = FastestAllocation(jobs, available)
    OBVIOUS
  <1>1. Picks(jobs, pick)
    BY FastestPicks DEF Picks
  <1>2. Given(jobs, available, pick, a)
    BY <1>1, FastestIsGiven
  <1>3. a \in Allocations(jobs)
    <2>1. Current(jobs) \in Allocations(jobs) /\ \A c \in Allocations(jobs) : Handed(pick, c) \in Allocations(jobs)
      BY <1>1, AllocationsAre, HandedIs
    <2> QED BY <1>1, <1>2, <2>1, GivenKeeps
  <1>4. HandsOut(jobs, available, a, WithRoom(jobs, a))
    <2>1. pick[a] = Nobody => WithRoom(jobs, a) = {}
      BY <1>3, FastestPicks
    <2> QED BY <1>1, <1>2, <2>1, GivenHandsOut
  <1>5. ASSUME \A j \in DOMAIN jobs : Concave(jobs[j]), NEW c \in Allocations(jobs),
               SumFunction(c) = SumFunction(a)
        PROVE  Total(jobs, c, "rate") <= Total(jobs, a, "rate")
    <2> DEFINE Q == {e \in Allocations(jobs) : \E l \in Int : Level(jobs, e, l)}
    <2>1. Current(jobs) \in Q
      BY AllocationsAre, LevelBegins
    <2>2. ASSUME NEW e \in Q PROVE Handed(pick, e) \in Q
      <3>1. PICK l \in Int : Level(jobs, e, l)
        OBVIOUS
      <3>2. pick[e] = PickFastest(jobs, e)
        OBVIOUS
      <3>3. \E m \in Int : Level(jobs, Handed(pick, e), m)
        BY <1>1, <1>5, <3>1, <3>2, LevelKept
      <3>4. Handed(pick, e) \in Allocations(jobs)
        BY <1>1, HandedIs
      <3> QED BY <3>3, <3>4
    <2>3. a \in Q
      <3>1. Q \in SUBSET Allocations(jobs)
        OBVIOUS
      <3> HIDE DEF Q
      <3> QED BY <1>1, <1>2, <2>1, <2>2, <3>1, GivenKeeps
    <2> QED BY <1>3, <1>5, <2>3, LevelIsBest
  <1> QED BY <1>4, <1>5, Zenon DEF FastestIsBest

-----------------------------------------------------------------------------
(* GPU by GPU, at the least energy for an iteration.                          *)

ArePriced(jobs) == AreJobs(jobs) /\ \A j \in DOMAIN jobs : IsPriced(jobs[j])

Open(jobs, a) == {j \in WithRoom(jobs, a) : Gain(jobs[j], a[j]) > 0}

LEMMA PriceIs ==
  ASSUME NEW job, IsPriced(job)
  PROVE  /\ IsCurve(job)
         /\ \A g \in 0..MaxOf(job) : At(job.power, g) \in Nat
         /\ \A g \in 0..(MaxOf(job) - 1) :
              Cost(job, g) \in Int /\ Cost(job, g) = At(job.power, g + 1) - At(job.power, g)
  <1>1. MaxOf(job) \in Nat /\ MaxOf(job) = Len(job.power) /\ IsCurve(job)
    BY DEF IsPriced, IsCurve, MaxOf
  <1>2. ASSUME NEW g \in 0..MaxOf(job) PROVE At(job.power, g) \in Nat
    <2>1. g # 0 => g \in 1..Len(job.power)
      BY <1>1
    <2>2. g # 0 => job.power[g] \in Nat
      BY <2>1, ElementOfSeq DEF IsPriced
    <2> QED BY <2>2 DEF At
  <1>3. ASSUME NEW g \in 0..(MaxOf(job) - 1)
        PROVE  Cost(job, g) \in Int /\ Cost(job, g) = At(job.power, g + 1) - At(job.power, g)
    <2>1. g \in 0..MaxOf(job) /\ g + 1 \in 0..MaxOf(job)
      BY <1>1
    <2>2. At(job.power, g + 1) - At(job.power, g) \in Int
      BY <1>2, <2>1
    <2> QED BY <2>2 DEF Cost
  <1> QED BY <1>1, <1>2, <1>3

LEMMA OpenIs ==
  ASSUME NEW jobs, ArePriced(jobs), NEW a \in Allocations(jobs)
  PROVE  \A j \in Open(jobs, a) :
           /\ j \in DOMAIN jobs /\ j \in Nat \ {0} /\ a[j] \in 0..(MaxOf(jobs[j]) - 1)
           /\ a[j] \in jobs[j].cur..(MaxOf(jobs[j]) - 1)
           /\ Gain(jobs[j], a[j]) \in Nat \ {0} /\ Cost(jobs[j], a[j]) \in Int
  <1> SUFFICES ASSUME NEW j \in Open(jobs, a)
               PROVE  /\ j \in DOMAIN jobs /\ j \in Nat \ {0} /\ a[j] \in 0..(MaxOf(jobs[j]) - 1)
                      /\ a[j] \in jobs[j].cur..(MaxOf(jobs[j]) - 1)
                      /\ Gain(jobs[j], a[j]) \in Nat \ {0} /\ Cost(jobs[j], a[j]) \in Int
    OBVIOUS
  <1>1. AreJobs(jobs) /\ j \in WithRoom(jobs, a) /\ Gain(jobs[j], a[j]) > 0
    BY DEF Open, ArePriced
  <1>2. /\ j \in DOMAIN jobs /\ a[j] \in 0..(MaxOf(jobs[j]) - 1) /\ Gain(jobs[j], a[j]) \in Int
    BY <1>1, RoomGains
  <1>3. j \in Nat \ {0} /\ IsPriced(jobs[j])
    BY <1>2 DEF AreJobs, ArePriced
  <1>4. a[j] \in jobs[j].cur..MaxOf(jobs[j]) /\ MaxOf(jobs[j]) \in Nat /\ jobs[j].cur \in Nat
    BY <1>1, <1>2, AllocationsAre
  <1>5. a[j] \in jobs[j].cur..(MaxOf(jobs[j]) - 1)
    BY <1>2, <1>4
  <1> QED BY <1>1, <1>2, <1>3, <1>5, PriceIs

\* Whom the cheapest allocator picks.
LEMMA CheapestPicks ==
  ASSUME NEW jobs, ArePriced(jobs), NEW a \in Allocations(jobs)
  PROVE  LET b == PickCheapest(jobs, a) IN
         /\ b = Nobody <=> Open(jobs, a) = {}
         /\ b # Nobody => /\ b \in Open(jobs, a)
                          /\ \A k \in Open(jobs, a) :
                               Cost(jobs[b], a[b]) * Gain(jobs[k], a[k])
                                 <= Cost(jobs[k], a[k]) * Gain(jobs[b], a[b])
         /\ b \in Nat
  <1> DEFINE open == Open(jobs, a)
             b == PickCheapest(jobs, a)
             gain(j) == Gain(jobs[j], a[j])
             cost(j) == Cost(jobs[j], a[j])
             Leads(j) == \A k \in open :
               \/ cost(j) * gain(k) < cost(k) * gain(j)
               \/ cost(j) * gain(k) = cost(k) * gain(j) /\ j <= k
  <1>1. /\ open \in SUBSET Nat /\ IsFiniteSet(open)
        /\ \A j \in open : j # Nobody /\ gain(j) \in Nat \ {0} /\ cost(j) \in Int
    <2>1. open \subseteq DOMAIN jobs /\ IsFiniteSet(DOMAIN jobs)
      BY OpenIs DEF ArePriced, AreJobs
    <2>2. IsFiniteSet(open)
      BY <2>1, FS_Subset
    <2>3. \A j \in open : j \in Nat \ {0} /\ gain(j) \in Nat \ {0} /\ cost(j) \in Int
      BY OpenIs
    <2> HIDE DEF open, gain, cost
    <2> QED BY <2>2, <2>3 DEF Nobody
  <1>2. b = IF open = {} THEN Nobody ELSE CHOOSE j \in open : Leads(j)
    BY Zenon DEF PickCheapest, Open
  <1> HIDE DEF open, gain, cost, b
  <1>3. ASSUME NEW j \in open, NEW k \in open
        PROVE  cost(j) * gain(k) \in Int /\ cost(k) * gain(j) \in Int
    <2>1. cost(j) \in Int /\ cost(k) \in Int /\ gain(j) \in Int /\ gain(k) \in Int
      BY <1>1
    <2> QED BY ONLY <2>1
  <1>4. ASSUME open # {} PROVE \E j \in open : Leads(j)
    <2> PICK R : R = {p \in open \X open : cost(p[1]) * gain(p[2]) <= cost(p[2]) * gain(p[1])}
      OBVIOUS
    <2>1. \A j \in open : \A k \in open : <<j, k>> \in R <=> cost(j) * gain(k) <= cost(k) * gain(j)
      OBVIOUS
    <2>2. ASSUME NEW j \in open, NEW k \in open PROVE <<j, k>> \in R \/ <<k, j>> \in R
      <3>1. cost(j) * gain(k) <= cost(k) * gain(j) \/ cost(k) * gain(j) <= cost(j) * gain(k)
        <4>1. cost(j) * gain(k) \in Int /\ cost(k) * gain(j) \in Int
          BY <1>3
        <4> QED BY ONLY <4>1
      <3> QED BY <2>1, <3>1
    <2>3. ASSUME NEW j \in open, NEW k \in open, NEW l \in open, <<j, k>> \in R, <<k, l>> \in R
          PROVE  <<j, l>> \in R
      <3>1. cost(j) * gain(k) <= cost(k) * gain(j) /\ cost(k) * gain(l) <= cost(l) * gain(k)
        BY <2>1, <2>3
      <3>2. /\ cost(j) \in Int /\ cost(k) \in Int /\ cost(l) \in Int
            /\ gain(j) \in Nat \ {0} /\ gain(k) \in Nat \ {0} /\ gain(l) \in Nat \ {0}
        BY <1>1
      <3>3. cost(j) * gain(l) <= cost(l) * gain(j)
        BY ONLY <3>1, <3>2, QuotientsOrder
      <3> QED BY <2>1, <3>3
    <2>4. PICK e \in open : \A k \in open : <<e, k>> \in R /\ (<<k, e>> \in R => e <= k)
      BY ONLY <1>1, <1>4, <2>2, <2>3, FirstOfBest
    <2>5. ASSUME NEW k \in open
          PROVE  \/ cost(e) * gain(k) < cost(k) * gain(e)
                 \/ cost(e) * gain(k) = cost(k) * gain(e) /\ e <= k
      <3>1. /\ cost(e) * gain(k) <= cost(k) * gain(e)
            /\ cost(k) * gain(e) <= cost(e) * gain(k) => e <= k
        BY <2>1, <2>4
      <3>2. cost(e) * gain(k) \in Int /\ cost(k) * gain(e) \in Int
        BY <1>3
      <3> QED BY ONLY <3>1, <3>2
    <2> QED BY <2>5
  <1>5. open # {} => b \in open /\ Leads(b)
    BY <1>2, <1>4
  <1>6. open = {} => b = Nobody
    BY <1>2
  <1>7. ASSUME open # {}
        PROVE  b \in open /\ b # Nobody /\ \A k \in open : cost(b) * gain(k) <= cost(k) * gain(b)
    <2>1. b \in open /\ b # Nobody
      BY <1>1, <1>5, <1>7
    <2>2. ASSUME NEW k \in open PROVE cost(b) * gain(k) <= cost(k) * gain(b)
      <3>1. cost(b) * gain(k) < cost(k) * gain(b) \/ cost(b) * gain(k) = cost(k) * gain(b)
        BY <1>5, <1>7
      <3>2. cost(b) * gain(k) \in Int /\ cost(k) * gain(b) \in Int
        BY <1>3, <2>1
      <3> QED BY ONLY <3>1, <3>2
    <2> QED BY <2>1, <2>2
  <1>8. b \in Nat
    <2>1. Nobody \in Nat /\ \A j \in open : j \in Nat
      BY <1>1 DEF Nobody
    <2> QED BY <1>6, <1>7, <2>1
  <1> QED BY <1>6, <1>7, <1>8 DEF open, gain, cost, b

LEMMA CheapestIsGiven ==
  ASSUME NEW jobs, AreJobs(jobs), NEW pick, Picks(jobs, pick),
         pick = [a \in Allocations(jobs) |-> PickCheapest(jobs, a)], NEW available \in Int
  PROVE  Given(jobs, available, pick, CheapestAllocation(jobs, available))
  <1> DEFINE S == Allocations(jobs)
             s0 == Current(jobs)
             step == [c \in S |-> Handed(pick, c)]
             spare == available - SumFunction(s0)
             f == CHOOSE f : CheapestRounds(jobs, f)
  <1>1. s0 \in S /\ step \in [S -> S]
    BY AllocationsAre, StepType
  <1>2. CheapestAllocation(jobs, available) = IF spare <= 0 THEN s0 ELSE f[spare]
    BY Zenon DEF CheapestAllocation, Allocation, CheapestRounds
  <1>3. \A a \in S : step[a] = IF PickCheapest(jobs, a) = Nobody THEN a
                               ELSE [a EXCEPT ![PickCheapest(jobs, a)] = @ + 1]
    BY DEF Handed
  <1> HIDE DEF S, s0, step
  <1>4. \E g : CheapestRounds(jobs, g)
    <2>1. PICK g \in [Nat -> S] : Rounds(s0, step, g)
      BY <1>1, RoundsExist
    <2>2. g[0] = s0 /\ \A n \in Nat : g[n + 1] = step[g[n]]
      BY <2>1, RoundsStep
    <2>3. ASSUME NEW n \in Nat
          PROVE  g[n] = IF n = 0 THEN s0
                        ELSE IF PickCheapest(jobs, g[n - 1]) = Nobody THEN g[n - 1]
                             ELSE [g[n - 1] EXCEPT ![PickCheapest(jobs, g[n - 1])] = @ + 1]
      <3>1. CASE n # 0
        <4>1. n - 1 \in Nat /\ (n - 1) + 1 = n
          BY <3>1
        <4>2. g[n] = step[g[n - 1]] /\ g[n - 1] \in S
          BY <2>2, <4>1
        <4> QED BY <1>3, <3>1, <4>2
      <3> QED BY <2>2, <3>1
    <2>4. CheapestRounds(jobs, g)
      BY <2>1, <2>3 DEF CheapestRounds, s0
    <2> QED BY <2>4
  <1>5. CheapestRounds(jobs, f)
    BY <1>4
  <1> HIDE DEF f
  <1>6. f = [n \in Nat |-> f[n]] /\ f[0] = s0
    BY <1>5 DEF CheapestRounds, s0
  <1>7. ASSUME NEW n \in Nat, f[n] \in S PROVE f[n + 1] = step[f[n]]
    <2>1. n + 1 \in Nat /\ n + 1 # 0 /\ (n + 1) - 1 = n
      OBVIOUS
    <2>2. f[n + 1] = IF n + 1 = 0 THEN s0
                     ELSE IF PickCheapest(jobs, f[(n + 1) - 1]) = Nobody THEN f[(n + 1) - 1]
                          ELSE [f[(n + 1) - 1] EXCEPT ![PickCheapest(jobs, f[(n + 1) - 1])] = @ + 1]
      BY <1>5, <2>1, Zenon DEF CheapestRounds, s0
    <2> QED BY <1>3, <1>7, <2>1, <2>2
  <1>8. Rounds(s0, step, f)
    BY <1>1, <1>6, <1>7, RoundsAre
  <1> QED BY <1>2, <1>8 DEF Given, S, s0, step


\* Each GPU that was handed out cost p / q an iteration at most, and any further
\* one would cost no less.
Price(jobs, a, p, q) ==
  \A j \in DOMAIN jobs :
    /\ a[j] < MaxOf(jobs[j]) /\ Gain(jobs[j], a[j]) > 0 =>
         Cost(jobs[j], a[j]) * q >= p * Gain(jobs[j], a[j])
    /\ a[j] > jobs[j].cur => /\ Gain(jobs[j], a[j] - 1) > 0
                             /\ Cost(jobs[j], a[j] - 1) * q <= p * Gain(jobs[j], a[j] - 1)

\* The cost of an iteration climbs from the GPUs a job has on.
LEMMA CostsClimb ==
  ASSUME NEW job, IsPriced(job), Climbs(job)
  PROVE  \A g \in job.cur..(MaxOf(job) - 1) :
           /\ Gain(job, g) \in Int /\ Cost(job, g) \in Nat
           /\ \A h \in job.cur..(MaxOf(job) - 1) :
                g <= h /\ Gain(job, h) > 0 =>
                  /\ Gain(job, g) > 0
                  /\ Cost(job, g) * Gain(job, h) <= Cost(job, h) * Gain(job, g)
  <1>1. job.cur \in Nat /\ MaxOf(job) \in Nat /\ IsCurve(job)
    BY PriceIs, CurveIs
  <1> PICK m \in Nat, n \in Int : m = job.cur /\ n = MaxOf(job) - 1
    BY <1>1
  <1>2. ASSUME NEW g \in m..n PROVE Gain(job, g) \in Int /\ Cost(job, g) \in Nat
    <2>1. g \in 0..(MaxOf(job) - 1)
      BY <1>1
    <2>2. Cost(job, g) \in Int /\ Cost(job, g) >= 0
      BY <2>1, PriceIs DEF Climbs
    <2> QED BY <1>1, <2>1, <2>2, CurveIs
  <1> SUFFICES ASSUME NEW g \in m..n
               PROVE  \A h \in m..n : g <= h /\ Gain(job, h) > 0 =>
                        /\ Gain(job, g) > 0
                        /\ Cost(job, g) * Gain(job, h) <= Cost(job, h) * Gain(job, g)
    BY <1>2
  <1> DEFINE P == {k \in Nat : g + k <= n /\ Gain(job, g + k) > 0 =>
                     /\ Gain(job, g) > 0
                     /\ Cost(job, g) * Gain(job, g + k) <= Cost(job, g + k) * Gain(job, g)}
  <1>3. 0 \in P
    <2> PICK x \in Nat, y \in Int : x = Cost(job, g) /\ y = Gain(job, g)
      BY <1>2
    <2>1. x * y <= x * y
      <3>1. x * y \in Int
        OBVIOUS
      <3> QED BY ONLY <3>1
    <2>2. g + 0 = g
      OBVIOUS
    <2> QED BY <2>1, <2>2
  <1>4. ASSUME NEW k \in Nat, k \in P PROVE k + 1 \in P
    <2> SUFFICES ASSUME g + (k + 1) <= n, Gain(job, g + (k + 1)) > 0
                 PROVE  /\ Gain(job, g) > 0
                        /\ Cost(job, g) * Gain(job, g + (k + 1))
                             <= Cost(job, g + (k + 1)) * Gain(job, g)
      OBVIOUS
    <2> PICK l \in m..n, h \in m..n : l = g + k /\ h = g + (k + 1) /\ h - 1 = l /\ h > m
      <3>1. g + k \in m..n /\ g + (k + 1) \in m..n /\ (g + (k + 1)) - 1 = g + k /\ g + (k + 1) > m
        OBVIOUS
      <3> QED BY <3>1
    <2>1. Gain(job, h - 1) > 0 /\ Cost(job, h - 1) * Gain(job, h) <= Cost(job, h) * Gain(job, h - 1)
      BY DEF Climbs
    <2>2. Gain(job, g) > 0 /\ Cost(job, g) * Gain(job, l) <= Cost(job, l) * Gain(job, g)
      BY <1>4, <2>1
    <2> PICK c \in Nat, d \in Nat, e \in Nat, f \in Int, o \in Int, u \in Int :
          /\ c = Cost(job, g) /\ d = Cost(job, l) /\ e = Cost(job, h)
          /\ f = Gain(job, g) /\ o = Gain(job, l) /\ u = Gain(job, h)
      BY <1>2
    <2>3. f > 0 /\ o > 0 /\ u > 0 /\ c * o <= d * f /\ d * u <= e * o
      BY <2>1, <2>2
    <2>4. c * u <= e * f
      <3>1. f \in Nat \ {0} /\ o \in Nat \ {0} /\ u \in Nat \ {0}
        BY ONLY <2>3, f \in Int, o \in Int, u \in Int
      <3> QED BY ONLY <2>3, <3>1, c \in Int, d \in Int, e \in Int, QuotientsOrder
    <2> QED BY <2>3, <2>4
  <1>5. \A k \in Nat : k \in P
    <2> HIDE DEF P
    <2> QED BY <1>3, <1>4, Induction
  <1>6. ASSUME NEW h \in m..n, g <= h, Gain(job, h) > 0
        PROVE  Gain(job, g) > 0 /\ Cost(job, g) * Gain(job, h) <= Cost(job, h) * Gain(job, g)
    <2>1. h - g \in Nat /\ g + (h - g) = h /\ g + (h - g) <= n
      BY <1>6
    <2>2. h - g \in P
      BY <1>5, <2>1
    <2> QED BY <1>6, <2>1, <2>2
  <1> QED BY <1>6

\* At the price of p / q an iteration no other count of GPUs is worth more.
LEMMA PriceIsPeak ==
  ASSUME NEW job, IsPriced(job), Climbs(job), NEW p \in Nat, NEW q \in Nat \ {0},
         NEW g \in job.cur..MaxOf(job),
         g < MaxOf(job) /\ Gain(job, g) > 0 => Cost(job, g) * q >= p * Gain(job, g),
         g > job.cur => /\ Gain(job, g - 1) > 0
                        /\ Cost(job, g - 1) * q <= p * Gain(job, g - 1)
  PROVE  \A h \in job.cur..MaxOf(job) :
           p * At(job.rate, h) - q * At(job.power, h) <= p * At(job.rate, g) - q * At(job.power, g)
  <1>1. job.cur \in Nat /\ MaxOf(job) \in Nat /\ IsCurve(job)
    BY PriceIs, CurveIs
  <1> PICK m \in Nat, n \in Nat : m = job.cur /\ n = MaxOf(job)
    BY <1>1
  <1> DEFINE v == [h \in m..n |-> p * At(job.rate, h) - q * At(job.power, h)]
  <1>2. ASSUME NEW h \in m..n
        PROVE  /\ At(job.rate, h) \in Nat /\ At(job.power, h) \in Nat
               /\ p * At(job.rate, h) \in Int /\ q * At(job.power, h) \in Int
    <2>1. h \in 0..MaxOf(job)
      OBVIOUS
    <2>2. At(job.rate, h) \in Nat /\ At(job.power, h) \in Nat
      BY <1>1, <2>1, CurveIs, PriceIs
    <2>3. p * At(job.rate, h) \in Int /\ q * At(job.power, h) \in Int
      BY ONLY <2>2, p \in Nat, q \in Nat
    <2> QED BY <2>2, <2>3
  <1>3. \A h \in m..n : v[h] \in Int /\ v[h] = p * At(job.rate, h) - q * At(job.power, h)
    BY <1>2
  <1> HIDE DEF v
  <1>4. ASSUME NEW h \in m..n, h < n
        PROVE  /\ h + 1 \in m..n /\ h \in job.cur..(MaxOf(job) - 1)
               /\ Gain(job, h) \in Int /\ Cost(job, h) \in Nat
               /\ v[h + 1] = v[h] + p * Gain(job, h) - Cost(job, h) * q
    <2>1. h + 1 \in m..n /\ h \in job.cur..(MaxOf(job) - 1) /\ h \in 0..(MaxOf(job) - 1)
      BY <1>4
    <2>2. Gain(job, h) \in Int /\ Gain(job, h) = At(job.rate, h + 1) - At(job.rate, h)
      BY <1>1, <2>1, CurveIs
    <2>3. Cost(job, h) \in Nat /\ Cost(job, h) = At(job.power, h + 1) - At(job.power, h)
      BY <2>1, PriceIs, CostsClimb
    <2> PICK r \in Nat, s \in Nat, y \in Nat, z \in Nat :
          /\ r = At(job.rate, h) /\ s = At(job.rate, h + 1)
          /\ y = At(job.power, h) /\ z = At(job.power, h + 1)
      BY <1>2, <2>1
    <2>4. v[h + 1] = p * s - q * z /\ v[h] = p * r - q * y
      BY <1>3, <2>1
    <2>5. p * (s - r) = p * s - p * r /\ (z - y) * q = q * z - q * y
          /\ p * s \in Int /\ p * r \in Int /\ q * z \in Int /\ q * y \in Int
      BY ONLY p \in Nat, q \in Nat, r \in Nat, s \in Nat, y \in Nat, z \in Nat
    <2>6. v[h + 1] = v[h] + p * (s - r) - (z - y) * q
      BY ONLY <2>4, <2>5
    <2> QED BY <2>1, <2>2, <2>3, <2>6
  <1>5. ASSUME NEW h \in m..n, g <= h, h < n PROVE v[h + 1] <= v[h]
    <2>1. g \in job.cur..(MaxOf(job) - 1) /\ Gain(job, g) \in Int /\ Cost(job, g) \in Nat
      BY <1>4, <1>5
    <2>2. /\ Gain(job, h) \in Int /\ Cost(job, h) \in Nat /\ v[h] \in Int
          /\ v[h + 1] = v[h] + p * Gain(job, h) - Cost(job, h) * q
          /\ h \in job.cur..(MaxOf(job) - 1)
      BY <1>3, <1>4, <1>5
    <2> PICK c \in Nat, d \in Nat, e \in Int, f \in Int :
          c = Cost(job, g) /\ d = Cost(job, h) /\ e = Gain(job, g) /\ f = Gain(job, h)
      BY <2>1, <2>2
    <2>3. p * f <= d * q /\ p * f \in Int /\ d * q \in Int
      <3>1. p * f \in Int /\ d * q \in Nat
        BY ONLY p \in Nat, f \in Int, d \in Nat, q \in Nat
      <3>2. CASE f > 0
        <4>1. e > 0 /\ c * f <= d * e
          BY <1>5, <2>1, <2>2, <3>2, CostsClimb
        <4>2. p * e <= c * q
          <5>1. c * q >= p * e
            BY <2>1, <4>1
          <5> QED BY ONLY <5>1, c \in Nat, q \in Nat, p \in Nat, e \in Int
        <4> QED BY ONLY <3>1, <3>2, <4>1, <4>2, p \in Nat, c \in Nat, d \in Nat, e \in Int, f \in Int,
                        q \in Nat \ {0}, QuotientsOrder
      <3>3. CASE f <= 0
        <4>1. p * f <= 0
          BY ONLY <3>3, p \in Nat, f \in Int
        <4> QED BY ONLY <3>1, <4>1
      <3> QED BY <3>2, <3>3
    <2> QED BY <2>2, <2>3
  <1>6. ASSUME NEW h \in m..n, h < g PROVE v[h] <= v[h + 1]
    <2>1. g - 1 \in m..n /\ g - 1 < n /\ h <= g - 1 /\ h < n /\ g > job.cur
      BY <1>6
    <2> PICK k \in m..n : k = g - 1
      BY <2>1
    <2>2. Gain(job, k) \in Int /\ Cost(job, k) \in Nat /\ k \in job.cur..(MaxOf(job) - 1)
      BY <1>4, <2>1
    <2>3. /\ Gain(job, h) \in Int /\ Cost(job, h) \in Nat /\ v[h] \in Int
          /\ v[h + 1] = v[h] + p * Gain(job, h) - Cost(job, h) * q
          /\ h \in job.cur..(MaxOf(job) - 1)
      BY <1>3, <1>4, <2>1
    <2> PICK c \in Nat, d \in Nat, e \in Int, f \in Int :
          c = Cost(job, h) /\ d = Cost(job, k) /\ e = Gain(job, h) /\ f = Gain(job, k)
      BY <2>2, <2>3
    <2>4. f > 0 /\ d * q <= p * f
      BY <2>1
    <2>5. e > 0 /\ c * f <= d * e
      BY <2>1, <2>2, <2>3, <2>4, CostsClimb
    <2>6. c * q <= p * e
      BY ONLY <2>4, <2>5, p \in Nat, c \in Nat, d \in Nat, e \in Int, f \in Int, q \in Nat \ {0},
              QuotientsOrder
    <2>7. c * q \in Int /\ p * e \in Int
      BY ONLY p \in Nat, c \in Nat, e \in Int, q \in Nat
    <2> QED BY <2>3, <2>6, <2>7
  <1>7. \A h \in m..n : v[h] <= v[g]
    <2>1. g \in m..n /\ \A h \in m..n : v[h] \in Int
      BY <1>3
    <2> QED BY <1>5, <1>6, <2>1, PeakIsHighest
  <1>8. ASSUME NEW h \in m..n
        PROVE  p * At(job.rate, h) - q * At(job.power, h) <= p * At(job.rate, g) - q * At(job.power, g)
    <2>1. v[h] <= v[g] /\ v[h] = p * At(job.rate, h) - q * At(job.power, h)
          /\ v[g] = p * At(job.rate, g) - q * At(job.power, g)
      BY <1>3, <1>7
    <2> QED BY <2>1, Zenon
  <1> QED BY <1>8

LEMMA PriceBegins ==
  ASSUME NEW jobs, ArePriced(jobs), \A j \in DOMAIN jobs : Climbs(jobs[j])
  PROVE  \E p \in Nat : \E q \in Nat \ {0} : Price(jobs, Current(jobs), p, q)
  <1> PICK a : a = Current(jobs)
    OBVIOUS
  <1> PICK b : b = PickCheapest(jobs, a)
    OBVIOUS
  <1>1. /\ a \in Allocations(jobs)
        /\ \A j \in DOMAIN jobs : a[j] = jobs[j].cur /\ jobs[j].cur \in Nat
    BY AllocationsAre DEF ArePriced
  <1>2. \A j \in DOMAIN jobs : ~(a[j] > jobs[j].cur)
    BY <1>1
  <1>3. \A j \in DOMAIN jobs :
          a[j] < MaxOf(jobs[j]) /\ Gain(jobs[j], a[j]) > 0 => j \in Open(jobs, a)
    BY DEF Open, WithRoom
  <1>4. CASE b = Nobody
    <2>1. Open(jobs, a) = {}
      BY <1>1, <1>4, CheapestPicks
    <2>2. Price(jobs, a, 0, 1)
      BY <1>2, <1>3, <2>1 DEF Price
    <2> QED BY <2>2
  <1>5. CASE b # Nobody
    <2>1. /\ b \in Open(jobs, a)
          /\ \A k \in Open(jobs, a) : Cost(jobs[b], a[b]) * Gain(jobs[k], a[k])
                                        <= Cost(jobs[k], a[k]) * Gain(jobs[b], a[b])
      BY <1>1, <1>5, CheapestPicks
    <2>2. /\ b \in DOMAIN jobs /\ Gain(jobs[b], a[b]) \in Nat \ {0}
          /\ a[b] \in jobs[b].cur..(MaxOf(jobs[b]) - 1)
      BY <1>1, <2>1, OpenIs
    <2>3. Cost(jobs[b], a[b]) \in Nat
      <3>1. IsPriced(jobs[b]) /\ Climbs(jobs[b])
        BY <2>2 DEF ArePriced
      <3> QED BY <2>2, <3>1, CostsClimb
    <2> PICK p \in Nat, q \in Nat \ {0} : p = Cost(jobs[b], a[b]) /\ q = Gain(jobs[b], a[b])
      BY <2>2, <2>3
    <2>4. ASSUME NEW j \in DOMAIN jobs, a[j] < MaxOf(jobs[j]), Gain(jobs[j], a[j]) > 0
          PROVE  Cost(jobs[j], a[j]) * q >= p * Gain(jobs[j], a[j])
      <3>1. j \in Open(jobs, a)
        BY <1>3, <2>4
      <3>2. Gain(jobs[j], a[j]) \in Int /\ Cost(jobs[j], a[j]) \in Int
        BY <1>1, <3>1, OpenIs
      <3>3. p * Gain(jobs[j], a[j]) <= Cost(jobs[j], a[j]) * q
        BY <2>1, <3>1
      <3> QED BY ONLY <3>2, <3>3, p \in Nat, q \in Nat
    <2>5. Price(jobs, a, p, q)
      BY <1>2, <2>4 DEF Price
    <2> QED BY <2>5
  <1> QED BY <1>4, <1>5

\* At the price of the job that was picked.
LEMMA PickedPrice ==
  ASSUME NEW jobs, ArePriced(jobs), \A j \in DOMAIN jobs : Climbs(jobs[j]),
         NEW a \in Allocations(jobs), NEW b \in Open(jobs, a)
  PROVE  /\ b \in DOMAIN jobs /\ a[b] \in jobs[b].cur..(MaxOf(jobs[b]) - 1)
         /\ Cost(jobs[b], a[b]) \in Nat /\ Gain(jobs[b], a[b]) \in Nat \ {0}
         /\ a[b] + 1 < MaxOf(jobs[b]) /\ Gain(jobs[b], a[b] + 1) > 0 =>
              Cost(jobs[b], a[b]) * Gain(jobs[b], a[b] + 1)
                <= Cost(jobs[b], a[b] + 1) * Gain(jobs[b], a[b])
  <1>1. /\ b \in DOMAIN jobs /\ a[b] \in jobs[b].cur..(MaxOf(jobs[b]) - 1)
        /\ Gain(jobs[b], a[b]) \in Nat \ {0}
    BY OpenIs
  <1>2. IsPriced(jobs[b]) /\ IsCurve(jobs[b]) /\ Climbs(jobs[b])
    BY <1>1 DEF ArePriced, AreJobs
  <1>3. Cost(jobs[b], a[b]) \in Nat
    BY <1>1, <1>2, CostsClimb
  <1>4. ASSUME a[b] + 1 < MaxOf(jobs[b]), Gain(jobs[b], a[b] + 1) > 0
        PROVE  Cost(jobs[b], a[b]) * Gain(jobs[b], a[b] + 1)
                 <= Cost(jobs[b], a[b] + 1) * Gain(jobs[b], a[b])
    <2>1. MaxOf(jobs[b]) \in Nat /\ jobs[b].cur \in Nat
      BY <1>2, CurveIs
    <2>2. a[b] + 1 \in jobs[b].cur..(MaxOf(jobs[b]) - 1) /\ a[b] <= a[b] + 1
      BY <1>1, <1>4, <2>1
    <2> QED BY <1>1, <1>2, <1>4, <2>2, CostsClimb
  <1> QED BY <1>1, <1>3, <1>4

LEMMA PriceKept ==
  ASSUME NEW jobs, ArePriced(jobs), \A j \in DOMAIN jobs : Climbs(jobs[j]),
         NEW a \in Allocations(jobs), NEW p \in Nat, NEW q \in Nat \ {0}, Price(jobs, a, p, q),
         NEW pick, Picks(jobs, pick), pick[a] = PickCheapest(jobs, a)
  PROVE  \E r \in Nat : \E s \in Nat \ {0} : Price(jobs, Handed(pick, a), r, s)
  <1> PICK b, c : b = pick[a] /\ c = Handed(pick, a)
    OBVIOUS
  <1>0. AreJobs(jobs)
    BY DEF ArePriced
  <1>1. CASE b = Nobody
    <2>1. c = a
      BY <1>1 DEF Handed
    <2> QED BY <2>1
  <1>2. CASE b # Nobody
    <2>1. /\ b \in DOMAIN jobs /\ a[b] < MaxOf(jobs[b]) /\ c[b] = a[b] + 1
          /\ \A j \in DOMAIN jobs \ {b} : c[j] = a[j]
      BY <1>0, <1>2, HandedIs
    <2>2. /\ b \in Open(jobs, a)
          /\ \A k \in Open(jobs, a) : Cost(jobs[b], a[b]) * Gain(jobs[k], a[k])
                                        <= Cost(jobs[k], a[k]) * Gain(jobs[b], a[b])
      BY <1>2, CheapestPicks
    <2>3. /\ a[b] \in jobs[b].cur..(MaxOf(jobs[b]) - 1)
          /\ Cost(jobs[b], a[b]) \in Nat /\ Gain(jobs[b], a[b]) \in Nat \ {0}
          /\ a[b] + 1 < MaxOf(jobs[b]) /\ Gain(jobs[b], a[b] + 1) > 0 =>
               Cost(jobs[b], a[b]) * Gain(jobs[b], a[b] + 1)
                 <= Cost(jobs[b], a[b] + 1) * Gain(jobs[b], a[b])
      BY <2>2, PickedPrice
    <2> PICK r \in Nat, s \in Nat \ {0} : r = Cost(jobs[b], a[b]) /\ s = Gain(jobs[b], a[b])
      BY <2>3
    <2>4. p * s <= r * q
      <3>1. Cost(jobs[b], a[b]) * q >= p * Gain(jobs[b], a[b])
        BY <2>1, <2>3 DEF Price
      <3>2. r * q >= p * s
        BY <3>1
      <3> QED BY ONLY <3>2, r \in Nat, s \in Nat, p \in Nat, q \in Nat
    <2>5. ASSUME NEW j \in DOMAIN jobs \ {b}
          PROVE  /\ c[j] < MaxOf(jobs[j]) /\ Gain(jobs[j], c[j]) > 0 =>
                      Cost(jobs[j], c[j]) * s >= r * Gain(jobs[j], c[j])
                 /\ c[j] > jobs[j].cur =>
                      /\ Gain(jobs[j], c[j] - 1) > 0
                      /\ Cost(jobs[j], c[j] - 1) * s <= r * Gain(jobs[j], c[j] - 1)
      <3>1. c[j] = a[j]
        BY <2>1
      <3>2. ASSUME a[j] < MaxOf(jobs[j]), Gain(jobs[j], a[j]) > 0
            PROVE  Cost(jobs[j], a[j]) * s >= r * Gain(jobs[j], a[j])
        <4>1. j \in Open(jobs, a)
          BY <3>2 DEF Open, WithRoom
        <4>2. Gain(jobs[j], a[j]) \in Int /\ Cost(jobs[j], a[j]) \in Int
          BY <4>1, OpenIs
        <4>3. r * Gain(jobs[j], a[j]) <= Cost(jobs[j], a[j]) * s
          BY <2>2, <4>1
        <4> QED BY ONLY <4>2, <4>3, r \in Nat, s \in Nat
      <3>3. ASSUME a[j] > jobs[j].cur
            PROVE  /\ Gain(jobs[j], a[j] - 1) > 0
                   /\ Cost(jobs[j], a[j] - 1) * s <= r * Gain(jobs[j], a[j] - 1)
        <4> PICK h : h = a[j] - 1
          OBVIOUS
        <4>1. Gain(jobs[j], h) > 0 /\ Cost(jobs[j], h) * q <= p * Gain(jobs[j], h)
          BY <3>3 DEF Price
        <4>2. /\ a[j] \in jobs[j].cur..MaxOf(jobs[j]) /\ jobs[j].cur \in Nat
              /\ MaxOf(jobs[j]) \in Nat
          BY <1>0, AllocationsAre
        <4>3. h \in 0..(MaxOf(jobs[j]) - 1) /\ IsPriced(jobs[j])
          BY <3>3, <4>2 DEF ArePriced
        <4>4. Gain(jobs[j], h) \in Int /\ Cost(jobs[j], h) \in Int
          BY <4>3, PriceIs, CurveIs
        <4> PICK x \in Int, y \in Nat \ {0} : x = Cost(jobs[j], h) /\ y = Gain(jobs[j], h)
          BY <4>1, <4>4
        <4>5. x * q <= p * y
          BY <4>1
        <4>6. x * s <= r * y
          BY ONLY <2>4, <4>5, x \in Int, p \in Int, r \in Int, y \in Nat \ {0}, q \in Nat \ {0},
                  s \in Nat \ {0}, QuotientsOrder
        <4> QED BY <4>1, <4>6
      <3> QED BY <3>1, <3>2, <3>3
    <2>6. /\ c[b] < MaxOf(jobs[b]) /\ Gain(jobs[b], c[b]) > 0 =>
               Cost(jobs[b], c[b]) * s >= r * Gain(jobs[b], c[b])
          /\ c[b] > jobs[b].cur =>
               /\ Gain(jobs[b], c[b] - 1) > 0
               /\ Cost(jobs[b], c[b] - 1) * s <= r * Gain(jobs[b], c[b] - 1)
      <3>1. c[b] - 1 = a[b] /\ IsPriced(jobs[b]) /\ MaxOf(jobs[b]) \in Nat /\ a[b] \in Nat
        <4>1. MaxOf(jobs[b]) \in Nat /\ jobs[b].cur \in Nat
          BY <1>0, <2>1, AllocationsAre
        <4> QED BY <2>1, <2>3, <4>1 DEF ArePriced
      <3>2. ASSUME c[b] < MaxOf(jobs[b]), Gain(jobs[b], c[b]) > 0
            PROVE  Cost(jobs[b], c[b]) * s >= r * Gain(jobs[b], c[b])
        <4>1. c[b] \in 0..(MaxOf(jobs[b]) - 1)
          BY <2>1, <3>1, <3>2
        <4>2. Gain(jobs[b], c[b]) \in Int /\ Cost(jobs[b], c[b]) \in Int
          BY <3>1, <4>1, PriceIs, CurveIs
        <4>3. r * Gain(jobs[b], c[b]) <= Cost(jobs[b], c[b]) * s
          BY <2>1, <2>3, <3>2
        <4> QED BY ONLY <4>2, <4>3, r \in Nat, s \in Nat
      <3>3. Gain(jobs[b], a[b]) > 0 /\ Cost(jobs[b], a[b]) * s <= r * Gain(jobs[b], a[b])
        <4>1. r * s <= r * s /\ s > 0
          BY ONLY r \in Nat, s \in Nat \ {0}
        <4> QED BY <4>1
      <3> QED BY <3>1, <3>2, <3>3
    <2>7. Price(jobs, c, r, s)
      BY <2>5, <2>6, Zenon DEF Price
    <2> QED BY <2>7
  <1> QED BY <1>1, <1>2

\* A step of the sums.
LEMMA NoCheaper ==
  ASSUME NEW p \in Nat, NEW q \in Nat \ {0}, NEW k \in Int, k = -q,
         NEW r \in Int, NEW s \in Int, NEW x \in Int, NEW y \in Int,
         p * r + k * x <= p * s + k * y, r >= s
  PROVE  x >= y
  <1>1. p * s <= p * r /\ p * s \in Int /\ p * r \in Int
    <2> PICK d \in Nat : r = s + d
      <3>1. r - s \in Nat /\ r = s + (r - s)
        OBVIOUS
      <3> QED BY <3>1
    <2>1. p * (s + d) = p * s + p * d /\ p * d \in Nat /\ p * s \in Int
      BY ONLY p \in Nat, s \in Int, d \in Nat
    <2> QED BY <2>1
  <1>2. k * x = -(q * x) /\ k * y = -(q * y) /\ q * x \in Int /\ q * y \in Int
    BY ONLY k = -q, q \in Nat, x \in Int, y \in Int
  <1>3. q * y <= q * x
    BY ONLY <1>1, <1>2, p * r + k * x <= p * s + k * y
  <1> SUFFICES ASSUME x < y PROVE FALSE
    OBVIOUS
  <1> PICK d \in Nat \ {0} : y = x + d
    <2>1. y - x \in Nat \ {0} /\ y = x + (y - x)
      OBVIOUS
    <2> QED BY <2>1
  <1>4. q * (x + d) = q * x + q * d /\ q * d > 0 /\ q * d \in Nat
    BY ONLY q \in Nat \ {0}, d \in Nat \ {0}, x \in Int
  <1> QED BY <1>2, <1>3, <1>4

LEMMA PriceIsBest ==
  ASSUME NEW jobs, ArePriced(jobs), \A j \in DOMAIN jobs : Climbs(jobs[j]),
         NEW a \in Allocations(jobs), NEW p \in Nat, NEW q \in Nat \ {0}, Price(jobs, a, p, q),
         NEW c \in Allocations(jobs), Total(jobs, c, "rate") >= Total(jobs, a, "rate")
  PROVE  Total(jobs, c, "power") >= Total(jobs, a, "power")
  <1>0. AreJobs(jobs)
    BY DEF ArePriced
  <1> PICK D : D = DOMAIN jobs /\ IsFiniteSet(D)
    BY <1>0 DEF AreJobs
  <1> PICK f, g, u, w : /\ f = [j \in D |-> At(jobs[j]["rate"], c[j])]
                        /\ g = [j \in D |-> At(jobs[j]["power"], c[j])]
                        /\ u = [j \in D |-> At(jobs[j]["rate"], a[j])]
                        /\ w = [j \in D |-> At(jobs[j]["power"], a[j])]
    OBVIOUS
  <1>1. /\ Total(jobs, c, "rate") = SumFunctionOnSet(f, D)
        /\ Total(jobs, a, "rate") = SumFunctionOnSet(u, D)
        /\ Total(jobs, c, "power") = SumFunctionOnSet(g, D)
        /\ Total(jobs, a, "power") = SumFunctionOnSet(w, D)
    BY DEF Total, SumFunction
  <1> PICK k \in Int : k = -q
    OBVIOUS
  <1>2. ASSUME NEW j \in D
        PROVE  /\ f[j] \in Int /\ g[j] \in Int /\ u[j] \in Int /\ w[j] \in Int
               /\ p * f[j] + k * g[j] <= p * u[j] + k * w[j]
    <2>1. /\ IsPriced(jobs[j]) /\ Climbs(jobs[j])
          /\ a[j] \in jobs[j].cur..MaxOf(jobs[j]) /\ c[j] \in jobs[j].cur..MaxOf(jobs[j])
          /\ a[j] \in 0..MaxOf(jobs[j]) /\ c[j] \in 0..MaxOf(jobs[j])
      <3>1. /\ a[j] \in Nat /\ a[j] \in jobs[j].cur..MaxOf(jobs[j]) /\ jobs[j].cur \in Nat
            /\ c[j] \in Nat /\ c[j] \in jobs[j].cur..MaxOf(jobs[j]) /\ MaxOf(jobs[j]) \in Nat
        BY <1>0, AllocationsAre
      <3> QED BY <3>1 DEF ArePriced
    <2>2. /\ f[j] = At(jobs[j].rate, c[j]) /\ u[j] = At(jobs[j].rate, a[j])
          /\ g[j] = At(jobs[j].power, c[j]) /\ w[j] = At(jobs[j].power, a[j])
      OBVIOUS
    <2>3. f[j] \in Nat /\ u[j] \in Nat /\ g[j] \in Nat /\ w[j] \in Nat
      BY <2>1, <2>2, PriceIs, CurveIs
    <2>4. /\ a[j] < MaxOf(jobs[j]) /\ Gain(jobs[j], a[j]) > 0 =>
               Cost(jobs[j], a[j]) * q >= p * Gain(jobs[j], a[j])
          /\ a[j] > jobs[j].cur => /\ Gain(jobs[j], a[j] - 1) > 0
                                   /\ Cost(jobs[j], a[j] - 1) * q <= p * Gain(jobs[j], a[j] - 1)
      BY DEF Price
    <2>5. p * f[j] - q * g[j] <= p * u[j] - q * w[j]
      BY ONLY <2>1, <2>2, <2>4, p \in Nat, q \in Nat \ {0}, PriceIsPeak
    <2>6. /\ k * g[j] = -(q * g[j]) /\ k * w[j] = -(q * w[j])
          /\ q * g[j] \in Int /\ q * w[j] \in Int /\ p * f[j] \in Int /\ p * u[j] \in Int
      BY ONLY <2>3, p \in Nat, q \in Nat, k = -q
    <2> QED BY ONLY <2>3, <2>5, <2>6
  <1>3. p * SumFunctionOnSet(f, D) + k * SumFunctionOnSet(g, D)
          <= p * SumFunctionOnSet(u, D) + k * SumFunctionOnSet(w, D)
    BY ONLY <1>2, IsFiniteSet(D), k \in Int, p \in Int, WorthMost
  <1>4. /\ SumFunctionOnSet(f, D) \in Int /\ SumFunctionOnSet(u, D) \in Int
        /\ SumFunctionOnSet(g, D) \in Int /\ SumFunctionOnSet(w, D) \in Int
    BY <1>2, SumType
  <1>5. SumFunctionOnSet(f, D) >= SumFunctionOnSet(u, D)
    BY <1>1
  <1>6. SumFunctionOnSet(g, D) >= SumFunctionOnSet(w, D)
    BY ONLY <1>3, <1>4, <1>5, p \in Nat, q \in Nat \ {0}, k \in Int, k = -q, NoCheaper
  <1> QED BY <1>1, <1>6

(* The greedy energy allocation is optimal for concave curves at rising cost. *)
LEMMA CheapestStands ==
  ASSUME NEW jobs, ArePriced(jobs), NEW available \in Int
  PROVE  CheapestIsBest(jobs, available, CheapestAllocation(jobs, available))
  <1> PICK pick : pick = [a \in Allocations(jobs) |-> PickCheapest(jobs, a)]
    OBVIOUS
  <1> PICK a : a = CheapestAllocation(jobs, available)
    OBVIOUS
  <1>0. AreJobs(jobs)
    BY DEF ArePriced
  <1>1. Picks(jobs, pick)
    <2>1. ASSUME NEW e \in Allocations(jobs)
          PROVE  pick[e] \in Nat /\ (pick[e] # Nobody => pick[e] \in WithRoom(jobs, e))
      <3>1. pick[e] = PickCheapest(jobs, e)
        OBVIOUS
      <3> QED BY <3>1, CheapestPicks DEF Open
    <2> QED BY <2>1 DEF Picks
  <1>2. Given(jobs, available, pick, a)
    BY <1>0, <1>1, CheapestIsGiven
  <1>3. a \in Allocations(jobs)
    <2>1. Current(jobs) \in Allocations(jobs) /\ \A c \in Allocations(jobs) : Handed(pick, c) \in Allocations(jobs)
      BY <1>0, <1>1, AllocationsAre, HandedIs
    <2> QED BY <1>0, <1>1, <1>2, <2>1, GivenKeeps
  <1>4. HandsOut(jobs, available, a, Open(jobs, a))
    <2>1. pick[a] = Nobody => Open(jobs, a) = {}
      BY <1>3, CheapestPicks
    <2> QED BY <1>0, <1>1, <1>2, <2>1, GivenHandsOut
  <1>5. ASSUME \A j \in DOMAIN jobs : Climbs(jobs[j]),
               NEW c \in Allocations(jobs), Total(jobs, c, "rate") >= Total(jobs, a, "rate")
        PROVE  Total(jobs, c, "power") >= Total(jobs, a, "power")
    <2> DEFINE Q == {e \in Allocations(jobs) : \E p \in Nat : \E q \in Nat \ {0} : Price(jobs, e, p, q)}
    <2>1. Current(jobs) \in Q
      BY <1>0, <1>5, AllocationsAre, PriceBegins
    <2>2. ASSUME NEW e \in Q PROVE Handed(pick, e) \in Q
      <3>1. PICK p \in Nat, q \in Nat \ {0} : Price(jobs, e, p, q)
        OBVIOUS
      <3>2. pick[e] = PickCheapest(jobs, e)
        OBVIOUS
      <3>3. \E r \in Nat : \E s \in Nat \ {0} : Price(jobs, Handed(pick, e), r, s)
        BY <1>1, <1>5, <3>1, <3>2, PriceKept
      <3>4. Handed(pick, e) \in Allocations(jobs)
        BY <1>0, <1>1, HandedIs
      <3> QED BY <3>3, <3>4
    <2>3. a \in Q
      <3>1. Q \in SUBSET Allocations(jobs)
        OBVIOUS
      <3> HIDE DEF Q
      <3> QED BY <1>0, <1>1, <1>2, <2>1, <2>2, <3>1, GivenKeeps
    <2>4. PICK p \in Nat, q \in Nat \ {0} : Price(jobs, a, p, q)
      BY <2>3
    <2> QED BY <1>3, <1>5, <2>4, PriceIsBest
  <1>6. Open(jobs, a) = {j \in WithRoom(jobs, a) : Gain(jobs[j], a[j]) > 0}
    BY DEF Open
  <1>7. (\A j \in DOMAIN jobs : Climbs(jobs[j])) => DrawsLeast(jobs, a)
    BY <1>5, Zenon DEF DrawsLeast
  <1> QED BY <1>4, <1>6, <1>7, Zenon DEF CheapestIsBest

-----------------------------------------------------------------------------
(* Which profiles the cost of an iteration climbs for.                        *)

(* Where validate_power_convexity() holds, throughputs are concave and a job  *)
(* that has a GPU draws no less with the next one, the cost of an added       *)
(* iteration climbs (energy_profile.py:105-128).                              *)
THEOREM ConvexPowerClimbs ==
  ASSUME NEW job, IsPriced(job), Concave(job), ConvexPower(job), job.cur # 0,
         job.cur < MaxOf(job) => Cost(job, job.cur) >= 0
  PROVE  Climbs(job)
  <1>1. job.cur \in Nat \ {0} /\ MaxOf(job) \in Nat /\ IsCurve(job)
    BY PriceIs, CurveIs
  <1> PICK m \in Nat \ {0}, n \in Int : m = job.cur /\ n = MaxOf(job) - 1
    BY <1>1
  <1>2. ASSUME NEW g \in m..n PROVE Gain(job, g) \in Int /\ Cost(job, g) \in Int
    <2>1. g \in 0..(MaxOf(job) - 1)
      BY <1>1
    <2> QED BY <1>1, <2>1, PriceIs, CurveIs
  <1>3. ASSUME NEW g \in m..n, g > m
        PROVE  g - 1 \in m..n /\ Cost(job, g - 1) <= Cost(job, g) /\ Gain(job, g) <= Gain(job, g - 1)
    <2>1. g - 1 \in m..n /\ g \in 2..(MaxOf(job) - 1) /\ g - 1 \in job.cur..(MaxOf(job) - 2)
          /\ (g - 1) + 1 = g
      BY <1>1, <1>3
    <2>2. Cost(job, g) >= Cost(job, g - 1) /\ Gain(job, (g - 1) + 1) <= Gain(job, g - 1)
      BY <2>1 DEF ConvexPower, Concave
    <2>3. Cost(job, g) \in Int /\ Cost(job, g - 1) \in Int
      BY <1>2, <2>1
    <2> QED BY <2>1, <2>2, <2>3
  <1> DEFINE P == {k \in Nat : m + k <= n => Cost(job, m + k) >= 0}
  <1>4. 0 \in P
    <2>1. m + 0 = m /\ (m <= n => job.cur < MaxOf(job))
      BY <1>1
    <2> QED BY <2>1
  <1>5. ASSUME NEW k \in Nat, k \in P PROVE k + 1 \in P
    <2> SUFFICES ASSUME m + (k + 1) <= n PROVE Cost(job, m + (k + 1)) >= 0
      OBVIOUS
    <2> PICK g \in m..n : g = m + (k + 1) /\ g > m /\ g - 1 = m + k /\ m + k <= n
      <3>1. m + (k + 1) \in m..n /\ m + (k + 1) > m /\ (m + (k + 1)) - 1 = m + k /\ m + k <= n
        OBVIOUS
      <3> QED BY <3>1
    <2>1. Cost(job, g - 1) >= 0
      BY <1>5
    <2>2. g - 1 \in m..n /\ Cost(job, g - 1) <= Cost(job, g)
      BY <1>3
    <2>3. Cost(job, g) \in Int /\ Cost(job, g - 1) \in Int
      BY <1>2, <2>2
    <2> QED BY <2>1, <2>2, <2>3
  <1>6. \A k \in Nat : k \in P
    <2> HIDE DEF P
    <2> QED BY <1>4, <1>5, Induction
  <1>7. ASSUME NEW g \in m..n PROVE Cost(job, g) \in Nat
    <2>1. g - m \in Nat /\ m + (g - m) = g
      OBVIOUS
    <2>2. g - m \in P
      BY <1>6, <2>1
    <2> QED BY <1>2, <2>1, <2>2
  <1>8. ASSUME NEW g \in m..n, g > m, Gain(job, g) > 0
        PROVE  /\ Gain(job, g - 1) > 0
               /\ Cost(job, g - 1) * Gain(job, g) <= Cost(job, g) * Gain(job, g - 1)
    <2>1. g - 1 \in m..n /\ Cost(job, g - 1) <= Cost(job, g) /\ Gain(job, g) <= Gain(job, g - 1)
      BY <1>3, <1>8
    <2> PICK c \in Nat, d \in Nat, e \in Int, f \in Int :
          /\ c = Cost(job, g - 1) /\ d = Cost(job, g)
          /\ e = Gain(job, g - 1) /\ f = Gain(job, g)
      BY <1>2, <1>7, <2>1
    <2>2. e \in Nat /\ f \in Nat /\ e > 0
      BY <1>8, <2>1
    <2>3. c * f <= d * e
      BY ONLY <2>1, <2>2, c \in Nat, d \in Nat, ProductsGrow, c = Cost(job, g - 1),
              d = Cost(job, g), e = Gain(job, g - 1), f = Gain(job, g)
    <2> QED BY <2>2, <2>3
  <1> QED BY <1>7, <1>8 DEF Climbs

(* Where validate_convexity() holds and the energy of an iteration does not   *)
(* fall any more, nor throughput, the cost of an added iteration climbs too,  *)
(* for concave throughputs (mss.py:235-238): past the minimum of the U-shape  *)
(* convex energies are enough (energy_profile.py:84-103).                     *)
THEOREM RisingEnergyClimbs ==
  ASSUME NEW job, IsPriced(job), Concave(job), ConvexEnergy(job),
         NEW energy \in Seq(Nat), Len(energy) = MaxOf(job),
         \A g \in 1..MaxOf(job) : job.rate[g] > 0 /\ job.power[g] = energy[g] * job.rate[g],
         \A g \in job.cur..(MaxOf(job) - 1) : Gain(job, g) >= 0,
         \A g \in 1..(MaxOf(job) - 1) : g >= job.cur => energy[g] <= energy[g + 1]
  PROVE  Climbs(job)
  <1>1. job.cur \in Nat /\ MaxOf(job) \in Nat /\ IsCurve(job)
    BY PriceIs, CurveIs
  <1> PICK m \in Nat, n \in Int : m = job.cur /\ n = MaxOf(job) - 1
    BY <1>1
  <1>2. ASSUME NEW g \in 1..MaxOf(job)
        PROVE  /\ energy[g] \in Nat /\ job.rate[g] \in Nat \ {0}
               /\ At(job.rate, g) = job.rate[g] /\ At(job.power, g) = energy[g] * job.rate[g]
    <2>1. energy[g] \in Nat
      BY <1>1, ElementOfSeq
    <2>2. g # 0 /\ g \in 0..MaxOf(job)
      BY <1>1
    <2>3. At(job.rate, g) \in Nat /\ At(job.rate, g) = job.rate[g] /\ At(job.power, g) = job.power[g]
      BY <1>1, <2>2, CurveIs DEF At
    <2> QED BY <2>1, <2>3
  <1>3. ASSUME NEW g \in m..n
        PROVE  Gain(job, g) \in Nat /\ Cost(job, g) \in Int
    <2>1. g \in 0..(MaxOf(job) - 1)
      BY <1>1
    <2>2. Gain(job, g) \in Int /\ Gain(job, g) >= 0
      BY <1>1, <2>1, CurveIs
    <2> QED BY <2>1, <2>2, PriceIs
  <1>4. ASSUME NEW g \in m..n, g # 0
        PROVE  /\ g \in 1..MaxOf(job) /\ g + 1 \in 1..MaxOf(job)
               /\ energy[g] <= energy[g + 1] /\ job.rate[g + 1] - job.rate[g] = Gain(job, g)
               /\ Cost(job, g) = energy[g + 1] * Gain(job, g) + (energy[g + 1] - energy[g]) * job.rate[g]
    <2>1. g \in 1..MaxOf(job) /\ g + 1 \in 1..MaxOf(job) /\ g \in 1..(MaxOf(job) - 1) /\ g >= job.cur
          /\ g \in 0..(MaxOf(job) - 1)
      BY <1>1, <1>4
    <2>2. Gain(job, g) = job.rate[g + 1] - job.rate[g]
      BY <1>1, <1>2, <2>1, CurveIs
    <2>3. Cost(job, g) = energy[g + 1] * job.rate[g + 1] - energy[g] * job.rate[g]
      BY <1>2, <2>1, PriceIs
    <2> PICK e \in Nat, f \in Nat, r \in Nat, s \in Nat :
          e = energy[g] /\ f = energy[g + 1] /\ r = job.rate[g] /\ s = job.rate[g + 1]
      BY <1>2, <2>1
    <2>4. f * s - e * r = f * (s - r) + (f - e) * r
      BY ONLY e \in Nat, f \in Nat, r \in Nat, s \in Nat, CostOfEnergy
    <2> QED BY <2>1, <2>2, <2>3, <2>4
  <1>5. ASSUME NEW g \in m..n PROVE Cost(job, g) >= 0
    <2>1. CASE g = 0
      <3>1. 1 \in 1..MaxOf(job) /\ g \in 0..(MaxOf(job) - 1)
        BY <1>1, <2>1
      <3>2. Cost(job, g) = At(job.power, g + 1) - At(job.power, g) /\ g + 1 = 1
        BY <2>1, <3>1, PriceIs
      <3>3. At(job.power, 0) = 0
        BY DEF At
      <3> PICK e \in Nat, r \in Nat : e = energy[1] /\ r = job.rate[1]
        BY <1>2, <3>1
      <3>4. At(job.power, 1) = e * r
        BY <1>2, <3>1
      <3>5. e * r \in Nat
        BY ONLY e \in Nat, r \in Nat
      <3> QED BY <2>1, <3>2, <3>3, <3>4, <3>5
    <2>2. CASE g # 0
      <3> PICK d \in Nat, f \in Nat, r \in Nat, x \in Nat :
            d = energy[g + 1] - energy[g] /\ f = energy[g + 1] /\ r = job.rate[g] /\ x = Gain(job, g)
        <4>1. /\ energy[g + 1] \in Nat /\ energy[g] \in Nat /\ energy[g] <= energy[g + 1]
              /\ job.rate[g] \in Nat
          BY <1>2, <1>4, <2>2
        <4>2. energy[g + 1] - energy[g] \in Nat
          BY ONLY <4>1
        <4>3. Gain(job, g) \in Nat
          BY <1>3
        <4> QED BY ONLY <4>1, <4>2, <4>3, Zenon
      <3>1. Cost(job, g) = f * x + d * r
        BY <1>4, <2>2
      <3>2. f * x \in Nat /\ d * r \in Nat
        BY ONLY f \in Nat, x \in Nat, d \in Nat, r \in Nat
      <3> QED BY <3>1, <3>2
    <2> QED BY <2>1, <2>2
  <1>6. ASSUME NEW g \in m..n, g > m, Gain(job, g) > 0
        PROVE  /\ Gain(job, g - 1) > 0
               /\ Cost(job, g - 1) * Gain(job, g) <= Cost(job, g) * Gain(job, g - 1)
    <2> PICK h \in m..n : h = g - 1 /\ g = h + 1 /\ g # 0
      <3>1. g - 1 \in m..n /\ g = (g - 1) + 1 /\ g # 0
        BY <1>6
      <3> QED BY <3>1
    <2>1. Gain(job, g) <= Gain(job, h)
      <3>1. h \in job.cur..(MaxOf(job) - 2)
        BY <1>1
      <3> QED BY <3>1 DEF Concave
    <2> PICK x \in Nat, y \in Nat : x = Gain(job, h) /\ y = Gain(job, g)
      BY <1>3
    <2> PICK a \in Nat, b \in Nat, s \in Nat \ {0}, e \in Nat :
          /\ a = energy[g] /\ b = energy[g + 1] /\ s = job.rate[g] /\ e = b - a /\ a <= b
      <3>1. /\ energy[g + 1] \in Nat /\ energy[g] \in Nat /\ energy[g] <= energy[g + 1]
            /\ job.rate[g] \in Nat \ {0}
        BY <1>2, <1>4
      <3> PICK a \in Nat, b \in Nat : a = energy[g] /\ b = energy[g + 1] /\ a <= b
        BY <3>1
      <3>2. b - a \in Nat
        BY ONLY a \in Nat, b \in Nat, a <= b
      <3> QED BY <3>1, <3>2
    <2>2. Cost(job, g) = b * y + e * s
      BY <1>4
    <2>3. \E d \in Nat : \E r \in Nat : d <= e /\ r <= s /\ Cost(job, h) = a * x + d * r
      <3>1. CASE h = 0
        <4>1. g = 1 /\ 1 \in 1..MaxOf(job) /\ 0 \in 0..(MaxOf(job) - 1)
          BY <1>1, <3>1
        <4>2. /\ Cost(job, 0) = At(job.power, 0 + 1) - At(job.power, 0)
              /\ Gain(job, 0) = At(job.rate, 0 + 1) - At(job.rate, 0)
          BY DEF Cost, Gain
        <4>3. At(job.power, 0) = 0 /\ At(job.rate, 0) = 0 /\ 0 + 1 = 1
          BY DEF At
        <4>4. At(job.power, 1) = a * s /\ At(job.rate, 1) = s
          BY <1>2, <4>1
        <4> PICK w \in Nat : w = a * s
          BY ONLY a \in Nat, s \in Nat
        <4>5. x = s
          <5>1. x = At(job.rate, 1) - 0
            BY ONLY <3>1, <4>2, <4>3, x = Gain(job, h)
          <5> QED BY ONLY <5>1, <4>4, s \in Nat
        <4>6. Cost(job, h) = w
          <5>1. Cost(job, h) = At(job.power, 1) - 0
            BY ONLY <3>1, <4>2, <4>3
          <5>2. Cost(job, h) = w - 0
            BY ONLY <5>1, <4>4, w = a * s, Zenon
          <5> QED BY ONLY <5>2, w \in Nat
        <4>7. Cost(job, h) = a * x
          BY ONLY <4>5, <4>6, w = a * s, Zenon
        <4>8. a * x + 0 * 0 = a * x
          BY ONLY a \in Nat, x \in Nat
        <4>9. 0 <= e /\ 0 <= s /\ Cost(job, h) = a * x + 0 * 0
          <5>1. 0 <= e /\ 0 <= s
            BY ONLY e \in Nat, s \in Nat
          <5> QED BY ONLY <4>7, <4>8, <5>1, Zenon
        <4> QED BY ONLY <4>9, 0 \in Nat
      <3>2. CASE h # 0
        <4> PICK o \in Nat, r \in Nat \ {0}, d \in Nat :
              o = energy[h] /\ r = job.rate[h] /\ d = a - o /\ o <= a
          <5>1. energy[h] \in Nat /\ job.rate[h] \in Nat \ {0} /\ energy[h] <= energy[g]
            BY <1>2, <1>4, <3>2
          <5> PICK o \in Nat : o = energy[h] /\ o <= a
            BY <5>1
          <5>2. a - o \in Nat
            BY ONLY a \in Nat, o \in Nat, o <= a
          <5> QED BY <5>1, <5>2
        <4>1. Cost(job, h) = a * x + d * r
          BY <1>4, <3>2
        <4>2. r <= s
          <5>1. job.rate[h + 1] - job.rate[h] = Gain(job, h)
            BY ONLY <1>4, <3>2, h \in m..n
          <5>2. s - r = x
            BY ONLY <5>1, r = job.rate[h], s = job.rate[g], g = h + 1, x = Gain(job, h), Zenon
          <5> QED BY ONLY <5>2, r \in Nat, s \in Nat, x \in Nat
        <4>3. d <= e
          <5> PICK t \in Nat \ {0} : t = job.rate[g + 1] /\ g + 1 \in 1..MaxOf(job) /\ g \in 1..MaxOf(job)
            BY <1>2, <1>4
          <5>1. g \in 2..(MaxOf(job) - 1) /\ h \in 1..MaxOf(job)
            BY ONLY <1>1, <3>2, m = job.cur, n = MaxOf(job) - 1, h \in m..n, g \in m..n, g = h + 1
          <5>2. job.power[g + 1] * job.rate[g] * job.rate[h] + job.power[h] * job.rate[g] * job.rate[g + 1]
                  >= 2 * job.power[g] * job.rate[g + 1] * job.rate[h]
            BY <5>1 DEF ConvexEnergy
          <5>3. job.power[g + 1] = b * t /\ job.power[h] = o * r /\ job.power[g] = a * s
            BY <5>1
          <5>4. (b * t) * s * r + (o * r) * s * t >= 2 * (a * s) * t * r
            BY <5>2, <5>3
          <5>5. a - o <= b - a
            BY <5>4, DifferencesGrow
          <5> QED BY <5>5
        <4> QED BY <4>1, <4>2, <4>3
      <3> QED BY <3>1, <3>2
    <2> PICK d \in Nat, r \in Nat : d <= e /\ r <= s /\ Cost(job, h) = a * x + d * r
      BY <2>3
    <2>4. (a * x + d * r) * y <= (b * y + e * s) * x
      BY ONLY <2>1, x = Gain(job, h), y = Gain(job, g), a <= b, d <= e, r <= s, a \in Nat, b \in Nat,
              x \in Nat, y \in Nat, d \in Nat, e \in Nat, r \in Nat, s \in Nat, EnergyClimbs
    <2>5. x > 0
      BY ONLY Gain(job, g) > 0, <2>1, x = Gain(job, h), x \in Nat, y \in Nat, y = Gain(job, g)
    <2> QED BY <2>2, <2>4, <2>5
  <1> QED BY <1>3, <1>5, <1>6 DEF Climbs
-----------------------------------------------------------------------------
(* The greedy allocators, by their own actions.                               *)

ShareInv ==
  /\ ProblemInv
  /\ kind = "fastest" /\ asked > 0 =>
       answer = FastestAllocation(problem.admitted, problem.available)
  /\ kind = "cheapest" /\ asked > 0 =>
       answer = CheapestAllocation(problem.admitted, problem.available)

LEMMA HandOutIs ==
  ASSUME NEW p, IsHandOut(p)
  PROVE  p.available \in Int /\ AreJobs(p.admitted) /\ ArePriced(p.admitted)
  <1>1. /\ p.available \in Int /\ Len(p.admitted) \in Nat
        /\ DOMAIN p.admitted = 1..Len(p.admitted)
        /\ \A j \in DOMAIN p.admitted : IsPriced(p.admitted[j])
    BY DEF IsHandOut
  <1> PICK n \in Nat : n = Len(p.admitted)
    BY <1>1
  <1>2. IsFiniteSet(1..n) /\ 1..n \subseteq Nat \ {0}
    <2>1. IsFiniteSet(1..n)
      BY FS_Interval
    <2>2. 1..n \subseteq Nat \ {0}
      BY ONLY n \in Nat
    <2> QED BY <2>1, <2>2
  <1>3. \A j \in DOMAIN p.admitted : IsCurve(p.admitted[j])
    BY <1>1, PriceIs
  <1>4. AreJobs(p.admitted)
    BY <1>1, <1>2, <1>3 DEF AreJobs
  <1> QED BY <1>1, <1>4 DEF ArePriced

(* Handing out GPU by GPU is optimal, whatever the jobs, their curves and the *)
(* GPUs that are left: no other allocation of as many GPUs is faster where    *)
(* throughputs are concave, and none that is as fast draws less where the     *)
(* cost of an added iteration climbs, which mss.py:251 leaves open; and every *)
(* GPU is handed out once, to somebody who takes it (mss.py:194-281).         *)
THEOREM SharesAreOptimal == Spec => []MarginalSharesAreBest
  <1>1. Init => ShareInv
    BY DEF Init, ProblemInv, ShareInv
  <1>2. ShareInv /\ [Next]_vars => ShareInv'
    <2> SUFFICES ASSUME ShareInv, [Next]_vars PROVE ShareInv'
      OBVIOUS
    <2>1. CASE UNCHANGED vars
      BY <2>1 DEF ShareInv, ProblemInv, vars
    <2>2. CASE Next
      <3>1. kind' = kind /\ problem' = problem /\ ProblemInv /\ ProblemInv'
        BY <2>2, OwnAction DEF ShareInv, ProblemInv
      <3>2. CASE kind = "fastest"
        <4>1. answer' = FastestAllocation(problem.admitted, problem.available)
          BY <2>2, <3>2, OwnAction DEF AllocateFastest, Once
        <4> QED BY <3>1, <3>2, <4>1 DEF ShareInv
      <3>3. CASE kind = "cheapest"
        <4>1. answer' = CheapestAllocation(problem.admitted, problem.available)
          BY <2>2, <3>3, OwnAction DEF AllocateCheapest, Once
        <4> QED BY <3>1, <3>3, <4>1 DEF ShareInv
      <3> QED BY <3>1, <3>2, <3>3 DEF ShareInv
    <2> QED BY <2>1, <2>2
  <1>3. ShareInv => MarginalSharesAreBest
    <2> SUFFICES ASSUME ShareInv, asked > 0
                 PROVE  /\ kind = "fastest" =>
                             FastestIsBest(problem.admitted, problem.available, answer)
                        /\ kind = "cheapest" =>
                             CheapestIsBest(problem.admitted, problem.available, answer)
      BY DEF MarginalSharesAreBest
    <2>1. ASSUME kind \in {"fastest", "cheapest"}
          PROVE  /\ problem.available \in Int /\ AreJobs(problem.admitted)
                 /\ ArePriced(problem.admitted)
      <3>1. IsHandOut(problem)
        BY <2>1, AllocationAssumption DEF ShareInv, ProblemInv
      <3> QED BY <3>1, HandOutIs
    <2>2. CASE kind = "fastest"
      <3>1. answer = FastestAllocation(problem.admitted, problem.available)
        BY <2>2 DEF ShareInv
      <3>2. FastestIsBest(problem.admitted, problem.available,
                          FastestAllocation(problem.admitted, problem.available))
        BY <2>1, <2>2, FastestStands
      <3> QED BY <2>2, <3>1, <3>2
    <2>3. CASE kind = "cheapest"
      <3>1. answer = CheapestAllocation(problem.admitted, problem.available)
        BY <2>3 DEF ShareInv
      <3>2. CheapestIsBest(problem.admitted, problem.available,
                           CheapestAllocation(problem.admitted, problem.available))
        BY <2>1, <2>3, CheapestStands
      <3> QED BY <2>3, <3>1, <3>2
    <2> QED BY <2>2, <2>3
  <1> QED BY <1>1, <1>2, <1>3, PTL DEF Spec
=============================================================================
