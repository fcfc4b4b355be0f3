-------------------------- MODULE Partition_proofs --------------------------
(* Proofs about the pipeline partitioners and about the control loop's       *)
(* partition cache: the dynamic programs find an optimal partition, sliding  *)
(* the cuts finds the best one within the window, and Repartitioning         *)
(* implements PartitionCache.                                                *)
EXTENDS Repartitioning, JointPartition, SumLemmas

-----------------------------------------------------------------------------
(* The fold behind the bottleneck: the largest of some values and 0.       *)

IsLargest(v, f, S) ==
  /\ v \in Nat
  /\ v = 0 \/ \E x \in S : v = f[x]
  /\ \A x \in S : f[x] <= v

LargerOf(f, g, s) == IF s = {} THEN 0 ELSE Larger2(f[Chosen(s)], g[s \ {Chosen(s)}])

Maxima(f, S, g) == g = [s \in SUBSET S |-> LargerOf(f, g, s)]

\* There is one, and no other.
LEMMA IsLargestUnique ==
  ASSUME NEW S, IsFiniteSet(S), NEW f, \A x \in S : f[x] \in Nat
  PROVE  /\ \E v : IsLargest(v, f, S)
         /\ \A u, v : IsLargest(u, f, S) /\ IsLargest(v, f, S) => u = v
  <1>1. CASE S = {}
    BY <1>1 DEF IsLargest
  <1>2. CASE S # {}
    <2>1. PICK x \in S : \A y \in S : f[y] <= f[x]
      BY <1>2, LargestExists
    <2>2. IsLargest(f[x], f, S)
      BY <2>1 DEF IsLargest
    <2>3. ASSUME NEW u, NEW v, IsLargest(u, f, S), IsLargest(v, f, S) PROVE u <= v
      BY <2>3 DEF IsLargest
    <2>4. ASSUME NEW u, NEW v, IsLargest(u, f, S), IsLargest(v, f, S) PROVE u = v
      <3>1. u <= v /\ v <= u
        BY <2>3, <2>4
      <3>2. u \in Nat /\ v \in Nat
        BY <2>4 DEF IsLargest
      <3> QED BY <3>1, <3>2
    <2> QED BY <2>2, <2>4
  <1> QED BY <1>1, <1>2

\* One more element.
LEMMA IsLargestWith ==
  ASSUME NEW S, NEW f, NEW x \in S, NEW v, \A y \in S : f[y] \in Nat,
         IsLargest(v, f, S \ {x})
  PROVE  IsLargest(Larger2(f[x], v), f, S)
  <1> DEFINE u == Larger2(f[x], v)
  <1>1. v \in Nat /\ (v = 0 \/ \E y \in S \ {x} : v = f[y]) /\ \A y \in S \ {x} : f[y] <= v
    BY DEF IsLargest
  <1>2. u \in Nat /\ (u = f[x] \/ u = v) /\ f[x] <= u /\ v <= u
    BY <1>1 DEF Larger2
  <1> HIDE DEF u
  <1>3. u = 0 \/ \E y \in S : u = f[y]
    BY <1>1, <1>2
  <1>4. ASSUME NEW y \in S PROVE f[y] <= u
    <2>1. CASE y = x
      BY <1>2, <2>1
    <2>2. CASE y # x
      <3>1. f[y] <= v
        BY <1>1, <2>2
      <3>2. f[y] \in Nat
        BY <2>2
      <3> QED BY <1>1, <1>2, <3>1, <3>2
    <2> QED BY <2>1, <2>2
  <1>5. IsLargest(u, f, S)
    BY <1>2, <1>3, <1>4 DEF IsLargest
  <1> QED BY <1>5 DEF u

LEMMA MaximaExist ==
  ASSUME NEW S, IsFiniteSet(S), NEW f, \A x \in S : f[x] \in Nat
  PROVE  \E g : Maxima(f, S, g)
  <1> DEFINE g == [s \in SUBSET S |-> CHOOSE v : IsLargest(v, f, s)]
  <1>1. \A T \in SUBSET S : IsFiniteSet(T) /\ \A x \in T : f[x] \in Nat
    BY FS_Subset
  <1>2. ASSUME NEW T \in SUBSET S PROVE IsLargest(g[T], f, T)
    <2>1. \E v : IsLargest(v, f, T)
      BY <1>1, IsLargestUnique
    <2>2. g[T] = CHOOSE v : IsLargest(v, f, T)
      OBVIOUS
    <2> HIDE DEF g
    <2> QED BY <2>1, <2>2
  <1>a. g = [s \in SUBSET S |-> g[s]]
    OBVIOUS
  <1> HIDE DEF g
  <1>3. ASSUME NEW T \in SUBSET S PROVE g[T] = LargerOf(f, g, T)
    <2>1. CASE T = {}
      <3>1. IsLargest(0, f, T)
        BY <2>1 DEF IsLargest
      <3>2. g[T] = 0
        BY <1>1, <1>2, <3>1, IsLargestUnique
      <3> QED BY <2>1, <3>2 DEF LargerOf
    <2>2. CASE T # {}
      <3>1. Chosen(T) \in T /\ T \ {Chosen(T)} \in SUBSET S
        BY <2>2 DEF Chosen
      <3>2. IsLargest(Larger2(f[Chosen(T)], g[T \ {Chosen(T)}]), f, T)
        BY <1>1, <1>2, <3>1, IsLargestWith
      <3>3. g[T] = Larger2(f[Chosen(T)], g[T \ {Chosen(T)}])
        BY <1>1, <1>2, <3>2, IsLargestUnique
      <3> QED BY <2>2, <3>3 DEF LargerOf
    <2> QED BY <2>1, <2>2
  <1>4. [s \in SUBSET S |-> g[s]] = [s \in SUBSET S |-> LargerOf(f, g, s)]
    BY <1>3
  <1> QED BY <1>a, <1>4 DEF Maxima

LEMMA MaximaAreLargest ==
  ASSUME NEW S, IsFiniteSet(S), NEW f, \A x \in S : f[x] \in Nat,
         NEW g, Maxima(f, S, g)
  PROVE  IsLargest(g[S], f, S)
  <1> DEFINE P == {T \in SUBSET S : IsLargest(g[T], f, T)}
  <1>1. ASSUME NEW T \in SUBSET S,
               \A U \in SUBSET S : Cardinality(U) < Cardinality(T) => U \in P
        PROVE  T \in P
    <2>0. IsFiniteSet(T)
      BY FS_Subset
    <2>1. g[T] = LargerOf(f, g, T)
      BY DEF Maxima
    <2>2. CASE T = {}
      BY <2>1, <2>2 DEF LargerOf, IsLargest
    <2>3. CASE T # {}
      <3>1. Chosen(T) \in T
        BY <2>3 DEF Chosen
      <3>2. T \ {Chosen(T)} \in P
        BY <1>1, <2>0, <3>1, RemovalShrinks
      <3>3. IsLargest(Larger2(f[Chosen(T)], g[T \ {Chosen(T)}]), f, T)
        BY <3>1, <3>2, IsLargestWith
      <3> QED BY <2>1, <2>3, <3>3 DEF LargerOf
    <2> QED BY <2>2, <2>3
  <1> HIDE DEF P
  <1>2. S \in P
    BY <1>1, SubsetInduction
  <1> QED BY <1>2 DEF P

LEMMA FoldIsLargest ==
  ASSUME NEW S, IsFiniteSet(S), NEW f, \A x \in S : f[x] \in Nat
  PROVE  IsLargest(FoldFunctionOnSet(Larger2, 0, f, S), f, S)
  <1> DEFINE Iterates(g) ==
        g = [s \in SUBSET S |-> IF s = {} THEN 0 ELSE
               LET x == CHOOSE x \in s : TRUE IN Larger2(f[x], g[s \ {x}])]
  <1>1. \A g : Iterates(g) <=> Maxima(f, S, g)
    BY Zenon DEF Maxima, LargerOf, Chosen
  <1>2. FoldFunctionOnSet(Larger2, 0, f, S) = (CHOOSE g : Iterates(g))[S]
    BY Zenon DEF FoldFunctionOnSet, MapThenFoldSet
  <1> HIDE DEF Iterates
  <1>3. \E g : Iterates(g)
    BY <1>1, MaximaExist
  <1> DEFINE g == CHOOSE g : Iterates(g)
  <1>4. Maxima(f, S, g)
    BY <1>1, <1>3
  <1> HIDE DEF g
  <1>5. IsLargest(g[S], f, S)
    BY <1>4, MaximaAreLargest
  <1> QED BY <1>2, <1>5 DEF g

-----------------------------------------------------------------------------
(* What a partition costs, stage by stage: Whole(obj, f, n) joins f[1] to  *)
(* f[n].                                                                   *)

Join(obj, a, b) == IF obj = "bottleneck" THEN Larger2(a, b) ELSE a + b

Whole(obj, f, n) ==
  IF obj = "bottleneck" THEN FoldFunctionOnSet(Larger2, 0, f, 1..n)
                        ELSE SumFunctionOnSet(f, 1..n)

\* Joining is monotone.
LEMMA JoinMonotone ==
  ASSUME NEW obj, NEW a \in Nat, NEW b \in Nat, NEW c \in Nat, a <= b
  PROVE  Join(obj, a, c) <= Join(obj, b, c) /\ Join(obj, a, c) \in Nat
  BY DEF Join, Larger2

\* One stage more.
LEMMA WholeUpto ==
  ASSUME NEW obj, NEW n \in Nat, NEW f, \A i \in 1..(n + 1) : f[i] \in Nat
  PROVE  /\ Whole(obj, f, 0) = 0
         /\ Whole(obj, f, n) \in Nat
         /\ Whole(obj, f, n + 1) = Join(obj, Whole(obj, f, n), f[n + 1])
  <1>0. 1..0 = {} /\ IsFiniteSet(1..0) /\ IsFiniteSet(1..n) /\ IsFiniteSet(1..(n + 1))
    BY FS_Interval
  <1>1. CASE obj = "bottleneck"
    <2>1. IsLargest(Whole(obj, f, 0), f, 1..0)
      BY <1>0, <1>1, FoldIsLargest DEF Whole
    <2>2. IsLargest(Whole(obj, f, n), f, 1..n)
      <3>1. \A i \in 1..n : f[i] \in Nat
        OBVIOUS
      <3> QED BY <1>0, <1>1, <3>1, FoldIsLargest DEF Whole
    <2>3. IsLargest(Whole(obj, f, n + 1), f, 1..(n + 1))
      BY <1>0, <1>1, FoldIsLargest DEF Whole
    <2>4. IsLargest(Larger2(f[n + 1], Whole(obj, f, n)), f, 1..(n + 1))
      <3>1. (1..(n + 1)) \ {n + 1} = 1..n /\ n + 1 \in 1..(n + 1)
        OBVIOUS
      <3> QED BY <2>2, <3>1, IsLargestWith
    <2>5. Whole(obj, f, n + 1) = Larger2(f[n + 1], Whole(obj, f, n))
      BY <1>0, <2>3, <2>4, IsLargestUnique
    <2>6. Whole(obj, f, 0) = 0
      BY <1>0, <2>1 DEF IsLargest
    <2>7. Whole(obj, f, n) \in Nat /\ f[n + 1] \in Nat
      BY <2>2 DEF IsLargest
    <2>8. Larger2(f[n + 1], Whole(obj, f, n)) = Larger2(Whole(obj, f, n), f[n + 1])
      BY <2>7 DEF Larger2
    <2> QED BY <1>1, <2>5, <2>6, <2>7, <2>8 DEF Join
  <1>2. CASE obj # "bottleneck"
    <2>1. /\ SumFunctionOnSet(f, 1..0) = 0
          /\ SumFunctionOnSet(f, 1..(n + 1)) = SumFunctionOnSet(f, 1..n) + f[n + 1]
      BY SumUpto, SMTT(30)
    <2>2. SumFunctionOnSet(f, 1..n) \in Nat
      BY <1>0, SumBounds
    <2> QED BY <1>2, <2>1, <2>2 DEF Whole, Join
  <1> QED BY <1>1, <1>2

-----------------------------------------------------------------------------
(* A dynamic program over stages and layers: stage s may take the layers   *)
(* i..j if j \in use[s][i], at cost[s][i][j].  has[s] is the set of the     *)
(* layers at which stage s can end, score and T's cuts are the entries.         *)

IsLayered(K, L, use, cost) ==
  /\ K \in Nat \ {0} /\ L \in Nat \ {0}
  /\ \A s \in 1..K, i \in 1..L, j \in 1..L : s <= i /\ i <= j => cost[s][i][j] \in Nat

Ways(use, has, s, j) == {i \in (s - 1)..(j - 1) : i \in has[s - 1] /\ j \in use[s][i + 1]}

Solves(obj, K, L, use, cost, has, score, T) ==
  /\ \A j \in 1..L :
       /\ j \in has[1] <=> j \in use[1][1]
       /\ j \in has[1] => score[1][j] = Join(obj, 0, cost[1][1][j])
  /\ \A s \in 2..K, j \in 1..L :
       /\ j \in has[s] <=> Ways(use, has, s, j) # {}
       /\ j \in has[s] =>
            /\ T[s][j].cut \in Ways(use, has, s, j)
            /\ score[s][j] = Join(obj, score[s - 1][T[s][j].cut], cost[s][T[s][j].cut + 1][j])
            /\ \A i \in Ways(use, has, s, j) :
                 score[s][j] <= Join(obj, score[s - 1][i], cost[s][i + 1][j])

Costs(K, cost, e) == [r \in 1..K |-> cost[r][First(e, r)][e[r]]]

\* The first s stages, ending where e says, are each given layers they may take.
Walks(use, e, s) == \A r \in 1..s : First(e, r) <= e[r] /\ e[r] \in use[r][First(e, r)]

\* Stage s starts behind at least s - 1 layers.
Rises(e, n) ==
  /\ \A r \in 1..n : r <= e[r] /\ First(e, r) \in r..e[r]
  /\ \A r \in 2..n : e[r - 1] \in (r - 1)..(e[r] - 1) /\ First(e, r) = e[r - 1] + 1

LEMMA WalksRise ==
  ASSUME NEW K \in Nat, NEW L \in Nat, NEW e \in [1..K -> 1..L],
         NEW n \in 1..K, NEW use, Walks(use, e, n)
  PROVE  Rises(e, n)
  <1> DEFINE P == {r \in Nat : r \in 1..n => r <= e[r]}
  <1>1. ASSUME NEW r \in 1..n
        PROVE  /\ e[r] \in 1..L /\ First(e, r) <= e[r]
               /\ r = 1 => First(e, r) = 1
               /\ r > 1 => First(e, r) = e[r - 1] + 1 /\ e[r - 1] \in 1..L /\ r - 1 \in 1..n
    BY DEF Walks, First
  <1>2. 0 \in P
    OBVIOUS
  <1>3. ASSUME NEW r \in Nat, r \in P PROVE r + 1 \in P
    <2> SUFFICES ASSUME r + 1 \in 1..n PROVE r + 1 <= e[r + 1]
      OBVIOUS
    <2>1. CASE r = 0
      BY <1>1, <2>1
    <2>2. CASE r # 0
      <3>1. r \in 1..n /\ r <= e[r] /\ r + 1 > 1 /\ (r + 1) - 1 = r
        BY <1>3, <2>2
      <3> QED BY <1>1, <3>1
    <2> QED BY <2>1, <2>2
  <1> HIDE DEF P
  <1>4. \A r \in Nat : r \in P
    BY <1>2, <1>3, Induction
  <1>5. \A r \in 1..n : r <= e[r]
    BY <1>4 DEF P
  <1>6. ASSUME NEW r \in 2..n
        PROVE  e[r - 1] \in (r - 1)..(e[r] - 1) /\ First(e, r) = e[r - 1] + 1
    <2>1. r \in 1..n /\ r - 1 \in 1..n /\ r > 1
      OBVIOUS
    <2>2. First(e, r) = e[r - 1] + 1 /\ e[r - 1] \in 1..L /\ e[r] \in 1..L /\ First(e, r) <= e[r]
      BY <1>1, <2>1
    <2>3. r - 1 <= e[r - 1]
      BY <1>5, <2>1
    <2> QED BY <2>2, <2>3
  <1>7. ASSUME NEW r \in 1..n PROVE r <= e[r] /\ First(e, r) \in r..e[r]
    <2>1. r = 1 => First(e, r) = 1
      BY DEF First
    <2>2. r <= e[r] /\ e[r] \in 1..L /\ First(e, r) <= e[r]
      BY <1>1, <1>5
    <2>3. CASE r = 1
      BY <2>1, <2>2, <2>3
    <2>4. CASE r # 1
      <3>1. r \in 2..n
        BY <2>4
      <3>2. First(e, r) = e[r - 1] + 1 /\ e[r - 1] \in (r - 1)..(e[r] - 1)
        BY <1>6, <3>1
      <3> QED BY <2>2, <3>1, <3>2
    <2> QED BY <2>3, <2>4
  <1> QED BY <1>6, <1>7 DEF Rises

\* Every entry is a cost.
LEMMA ScoreType ==
  ASSUME NEW obj, NEW K, NEW L, NEW use, NEW cost, NEW has, NEW score, NEW T,
         IsLayered(K, L, use, cost), Solves(obj, K, L, use, cost, has, score, T)
  PROVE  \A s \in 1..K : \A j \in 1..L : j \in has[s] => score[s][j] \in Nat
  <1>0. K \in Nat /\ K >= 1 /\ L \in Nat /\ L >= 1
    BY DEF IsLayered
  <1> DEFINE P == {s \in Nat : s \in 1..K => \A j \in 1..L : j \in has[s] => score[s][j] \in Nat}
  <1>1. 0 \in P
    OBVIOUS
  <1>2. ASSUME NEW n \in Nat, n \in P PROVE n + 1 \in P
    <2> SUFFICES ASSUME n + 1 \in 1..K, NEW j \in 1..L, j \in has[n + 1]
                 PROVE  score[n + 1][j] \in Nat
      OBVIOUS
    <2>1. CASE n = 0
      <3>1. score[1][j] = Join(obj, 0, cost[1][1][j])
        BY <2>1 DEF Solves
      <3>2. cost[1][1][j] \in Nat
        BY <1>0 DEF IsLayered
      <3>3. Join(obj, 0, cost[1][1][j]) \in Nat
        BY <3>2, JoinMonotone
      <3> QED BY <2>1, <3>1, <3>3
    <2>2. CASE n # 0
      <3>1. n + 1 \in 2..K /\ (n + 1) - 1 = n /\ n \in 1..K
        BY <2>2, <1>0
      <3> DEFINE i == T[n + 1][j].cut
      <3>2. i \in Ways(use, has, n + 1, j)
            /\ score[n + 1][j] = Join(obj, score[n][i], cost[n + 1][i + 1][j])
        BY <3>1 DEF Solves
      <3> HIDE DEF i
      <3>3. i \in n..(j - 1) /\ i \in has[n]
        BY <3>1, <3>2 DEF Ways
      <3>4. i \in 1..L /\ i + 1 \in 1..L /\ n + 1 <= i + 1 /\ i + 1 <= j
        BY <1>0, <2>2, <3>3
      <3>5. score[n][i] \in Nat
        BY <1>2, <3>1, <3>3, <3>4
      <3>6. cost[n + 1][i + 1][j] \in Nat
        BY <3>4 DEF IsLayered
      <3> QED BY <3>2, <3>5, <3>6, JoinMonotone
    <2> QED BY <2>1, <2>2
  <1> HIDE DEF P
  <1>3. \A n \in Nat : n \in P
    BY <1>1, <1>2, Induction
  <1> QED BY <1>3 DEF P

\* The costs of a walk are costs.
LEMMA CostsType ==
  ASSUME NEW K, NEW L, NEW use, NEW cost, IsLayered(K, L, use, cost),
         NEW e \in [1..K -> 1..L], NEW n \in 1..K, Walks(use, e, n)
  PROVE  \A r \in 1..n : Costs(K, cost, e)[r] = cost[r][First(e, r)][e[r]]
                          /\ Costs(K, cost, e)[r] \in Nat
  <1>0. K \in Nat /\ L \in Nat
    BY DEF IsLayered
  <1> SUFFICES ASSUME NEW r \in 1..n
               PROVE  Costs(K, cost, e)[r] = cost[r][First(e, r)][e[r]]
                      /\ Costs(K, cost, e)[r] \in Nat
    OBVIOUS
  <1>1. r \in 1..K /\ e[r] \in 1..L
    BY <1>0
  <1>2. First(e, r) \in r..e[r]
    BY <1>0, WalksRise DEF Rises
  <1>3. First(e, r) \in 1..L /\ r <= First(e, r) /\ First(e, r) <= e[r]
    BY <1>0, <1>1, <1>2
  <1>4. cost[r][First(e, r)][e[r]] \in Nat
    BY <1>1, <1>3 DEF IsLayered
  <1> QED BY <1>1, <1>4 DEF Costs

(* No walk is cheaper than the entry at its end, and there is an entry.       *)
LEMMA NoWalkIsCheaper ==
  ASSUME NEW obj, NEW K, NEW L, NEW use, NEW cost, NEW has, NEW score, NEW T,
         IsLayered(K, L, use, cost), Solves(obj, K, L, use, cost, has, score, T),
         NEW e \in [1..K -> 1..L], NEW n \in 1..K, Walks(use, e, n)
  PROVE  e[n] \in has[n] /\ score[n][e[n]] <= Whole(obj, Costs(K, cost, e), n)
  <1>0. K \in Nat /\ K >= 1 /\ L \in Nat /\ L >= 1
    BY DEF IsLayered
  <1>c. Rises(e, n)
    BY <1>0, WalksRise
  <1> DEFINE f == Costs(K, cost, e)
             P == {s \in Nat : s \in 1..n =>
                     e[s] \in has[s] /\ score[s][e[s]] <= Whole(obj, f, s)}
  <1>a. \A r \in 1..n : f[r] = cost[r][First(e, r)][e[r]] /\ f[r] \in Nat
    BY CostsType
  <1>b. \A s \in 1..K : \A j \in 1..L : j \in has[s] => score[s][j] \in Nat
    BY ScoreType
  <1> HIDE DEF f
  <1>1. 0 \in P
    OBVIOUS
  <1>2. ASSUME NEW s \in Nat, s \in P PROVE s + 1 \in P
    <2> SUFFICES ASSUME s + 1 \in 1..n
                 PROVE  e[s + 1] \in has[s + 1] /\ score[s + 1][e[s + 1]] <= Whole(obj, f, s + 1)
      OBVIOUS
    <2> DEFINE j == e[s + 1]
    <2>0. s + 1 \in 1..K /\ j \in 1..L /\ j \in use[s + 1][First(e, s + 1)]
      BY <1>0 DEF Walks
    <2>1. /\ Whole(obj, f, 0) = 0 /\ Whole(obj, f, s) \in Nat
          /\ Whole(obj, f, s + 1) = Join(obj, Whole(obj, f, s), f[s + 1])
      <3>1. \A r \in 1..(s + 1) : f[r] \in Nat
        BY <1>0, <1>a
      <3> QED BY <3>1, WholeUpto
    <2>2. f[s + 1] = cost[s + 1][First(e, s + 1)][j] /\ f[s + 1] \in Nat
      BY <1>a
    <2>3. CASE s = 0
      <3>1. First(e, 1) = 1
        BY DEF First
      <3>2. j \in has[1] /\ score[1][j] = Join(obj, 0, cost[1][1][j])
        BY <2>0, <2>3, <3>1 DEF Solves
      <3>3. Whole(obj, f, 1) = Join(obj, 0, cost[1][1][j])
        BY <2>1, <2>2, <2>3, <3>1
      <3>4. Join(obj, 0, cost[1][1][j]) \in Nat
        BY <2>2, <2>3, <3>1, JoinMonotone
      <3> QED BY <2>3, <3>2, <3>3, <3>4
    <2>4. CASE s # 0
      <3> DEFINE i == e[s]
      <3>1. s \in 1..n /\ s \in 1..K /\ s + 1 \in 2..K /\ s + 1 > 1 /\ (s + 1) - 1 = s
        BY <1>0, <2>0, <2>4
      <3>2. First(e, s + 1) = i + 1 /\ i \in s..(j - 1)
        <4>1. s + 1 \in 2..n
          BY <2>4
        <4> QED BY <1>c, <3>1, <4>1 DEF Rises
      <3>3. i \in has[s] /\ score[s][i] <= Whole(obj, f, s)
        BY <1>2, <3>1
      <3>4. i \in 1..L
        BY <3>1
      <3>5. i \in Ways(use, has, s + 1, j)
        BY <2>0, <3>1, <3>2, <3>3 DEF Ways
      <3>6. j \in has[s + 1] /\ score[s + 1][j] <= Join(obj, score[s][i], cost[s + 1][i + 1][j])
        BY <2>0, <3>1, <3>5 DEF Solves
      <3>7. score[s][i] \in Nat /\ score[s + 1][j] \in Nat
        BY <1>b, <2>0, <3>1, <3>3, <3>4, <3>6
      <3>8. f[s + 1] = cost[s + 1][i + 1][j]
        BY <2>2, <3>2
      <3>9. /\ Join(obj, score[s][i], f[s + 1]) <= Join(obj, Whole(obj, f, s), f[s + 1])
            /\ Join(obj, score[s][i], f[s + 1]) \in Nat
            /\ Join(obj, Whole(obj, f, s), f[s + 1]) \in Nat
        <4> HIDE DEF i, j
        <4> QED BY <2>1, <2>2, <3>3, <3>7, JoinMonotone
      <3> HIDE DEF i
      <3> QED BY <2>1, <3>6, <3>7, <3>8, <3>9
    <2> QED BY <2>3, <2>4
  <1> HIDE DEF P
  <1>3. \A s \in Nat : s \in P
    BY <1>1, <1>2, Induction
  <1>4. n \in Nat /\ n \in P
    BY <1>0, <1>3
  <1> QED BY <1>4 DEF P, f

\* What backtracking from the last layer gives.
Backs(K, L, T, b) == b[K] = L /\ \A s \in 1..(K - 1) : b[s] = T[s + 1][b[s + 1]].cut

(* Backtracking gives a walk that costs what the last entry says.             *)
LEMMA BacktrackingWalks ==
  ASSUME NEW obj, NEW K, NEW L, NEW use, NEW cost, NEW has, NEW score, NEW T,
         IsLayered(K, L, use, cost), Solves(obj, K, L, use, cost, has, score, T),
         NEW b, Backs(K, L, T, b), b = [s \in 1..K |-> b[s]], L \in has[K]
  PROVE  /\ b \in [1..K -> 1..L] /\ \A s \in 1..K : b[s] \in has[s]
         /\ Walks(use, b, K)
         /\ Whole(obj, Costs(K, cost, b), K) = score[K][L]
  <1>0. K \in Nat /\ K >= 1 /\ L \in Nat /\ L >= 1
    BY DEF IsLayered
  <1> DEFINE P == {d \in Nat : K - d \in 1..K => b[K - d] \in 1..L /\ b[K - d] \in has[K - d]}
  <1>1. 0 \in P
    BY <1>0 DEF Backs
  <1>a. ASSUME NEW s \in 1..(K - 1), b[s + 1] \in 1..L, b[s + 1] \in has[s + 1]
        PROVE  /\ b[s] \in s..(b[s + 1] - 1) /\ b[s] \in has[s]
               /\ b[s + 1] \in use[s + 1][b[s] + 1]
               /\ score[s + 1][b[s + 1]] =
                     Join(obj, score[s][b[s]], cost[s + 1][b[s] + 1][b[s + 1]])
    <2>0. b[s] = T[s + 1][b[s + 1]].cut
      BY DEF Backs
    <2>1. s + 1 \in 2..K /\ (s + 1) - 1 = s /\ b[s] = T[s + 1][b[s + 1]].cut
      BY <1>0, <2>0
    <2>2. /\ b[s] \in Ways(use, has, s + 1, b[s + 1])
          /\ score[s + 1][b[s + 1]] =
                Join(obj, score[s][b[s]], cost[s + 1][b[s] + 1][b[s + 1]])
      BY <1>a, <2>1 DEF Solves
    <2> QED BY <2>1, <2>2 DEF Ways
  <1>2. ASSUME NEW d \in Nat, d \in P PROVE d + 1 \in P
    <2> SUFFICES ASSUME K - (d + 1) \in 1..K
                 PROVE  b[K - (d + 1)] \in 1..L /\ b[K - (d + 1)] \in has[K - (d + 1)]
      OBVIOUS
    <2> DEFINE s == K - (d + 1)
    <2>1. s \in 1..(K - 1) /\ s + 1 = K - d /\ K - d \in 1..K
      BY <1>0
    <2>2. b[s + 1] \in 1..L /\ b[s + 1] \in has[s + 1]
      BY <1>2, <2>1
    <2>3. b[s] \in s..(b[s + 1] - 1) /\ b[s] \in has[s]
      BY <1>a, <2>1, <2>2
    <2> QED BY <1>0, <2>1, <2>2, <2>3
  <1> HIDE DEF P
  <1>3. \A d \in Nat : d \in P
    BY <1>1, <1>2, Induction
  <1>4. ASSUME NEW s \in 1..K PROVE b[s] \in 1..L /\ b[s] \in has[s]
    <2>1. K - s \in Nat /\ K - (K - s) = s
      BY <1>0
    <2>2. K - s \in P
      BY <1>3, <2>1
    <2> QED BY <2>1, <2>2 DEF P
  <1>5. b \in [1..K -> 1..L]
    BY <1>4
  <1>6. ASSUME NEW s \in 1..(K - 1)
        PROVE  /\ s \in 1..K /\ s + 1 \in 1..K
               /\ b[s] \in s..(b[s + 1] - 1) /\ b[s + 1] \in use[s + 1][b[s] + 1]
               /\ score[s + 1][b[s + 1]] =
                     Join(obj, score[s][b[s]], cost[s + 1][b[s] + 1][b[s + 1]])
    <2>1. s \in 1..K /\ s + 1 \in 1..K
      BY <1>0
    <2> QED BY <1>4, <1>a, <2>1
  <1>7. b[1] \in use[1][1] /\ score[1][b[1]] = Join(obj, 0, cost[1][1][b[1]])
    BY <1>0, <1>4 DEF Solves
  <1>8. Walks(use, b, K)
    <2> SUFFICES ASSUME NEW r \in 1..K
                 PROVE  First(b, r) <= b[r] /\ b[r] \in use[r][First(b, r)]
      BY DEF Walks
    <2>1. CASE r = 1
      BY <1>4, <1>7, <2>1 DEF First
    <2>2. CASE r # 1
      <3>1. r - 1 \in 1..(K - 1) /\ (r - 1) + 1 = r
        BY <1>0, <2>2
      <3>2. b[r - 1] \in (r - 1)..(b[r] - 1) /\ b[r] \in use[r][b[r - 1] + 1]
        BY <1>6, <3>1
      <3>3. b[r] \in 1..L
        BY <1>4
      <3>4. First(b, r) = b[r - 1] + 1
        BY <2>2 DEF First
      <3> QED BY <1>0, <3>1, <3>2, <3>3, <3>4
    <2> QED BY <2>1, <2>2
  <1> DEFINE f == Costs(K, cost, b)
             Q == {s \in Nat : s \in 1..K => Whole(obj, f, s) = score[s][b[s]]}
  <1>9. \A r \in 1..K : f[r] = cost[r][First(b, r)][b[r]] /\ f[r] \in Nat
    BY <1>0, <1>5, <1>8, CostsType
  <1> HIDE DEF f
  <1>10. 0 \in Q
    OBVIOUS
  <1>11. ASSUME NEW s \in Nat, s \in Q PROVE s + 1 \in Q
    <2> SUFFICES ASSUME s + 1 \in 1..K PROVE Whole(obj, f, s + 1) = score[s + 1][b[s + 1]]
      OBVIOUS
    <2>1. Whole(obj, f, 0) = 0 /\ Whole(obj, f, s + 1) = Join(obj, Whole(obj, f, s), f[s + 1])
      <3>0. \A r \in 1..(s + 1) : r \in 1..K
        BY <1>0
      <3>1. \A r \in 1..(s + 1) : f[r] \in Nat
        BY <1>9, <3>0
      <3> QED BY <3>1, WholeUpto
    <2>2. CASE s = 0
      BY <1>7, <1>9, <2>1, <2>2 DEF First
    <2>3. CASE s # 0
      <3>1. s \in 1..(K - 1) /\ s \in 1..K /\ s + 1 # 1 /\ (s + 1) - 1 = s
        BY <1>0, <2>3
      <3>2. Whole(obj, f, s) = score[s][b[s]]
        BY <1>11, <3>1
      <3>3. f[s + 1] = cost[s + 1][b[s] + 1][b[s + 1]]
        <4>1. First(b, s + 1) = b[s] + 1
          BY <3>1 DEF First
        <4> QED BY <1>9, <4>1
      <3> QED BY <1>6, <2>1, <3>1, <3>2, <3>3
    <2> QED BY <2>2, <2>3
  <1> HIDE DEF Q
  <1>12. \A s \in Nat : s \in Q
    BY <1>10, <1>11, Induction
  <1>13. Whole(obj, f, K) = score[K][b[K]]
    BY <1>0, <1>12, SMTT(30) DEF Q
  <1> QED BY <1>4, <1>5, <1>8, <1>13 DEF f, Backs

-----------------------------------------------------------------------------
(* What a stage takes is never negative.                                   *)

LEMMA SegmentType ==
  ASSUME NEW w, NEW stages, IsWorkload(w, stages), NEW sums \in {w.work, w.act},
         NEW i \in 1..NumLayers(w), NEW j \in 1..NumLayers(w), i <= j
  PROVE  Segment(sums, i, j) \in Nat
  <1>0. NumLayers(w) \in Nat
    BY DEF IsWorkload
  <1>1. i \in 1..(NumLayers(w) + 1) /\ j + 1 \in 1..(NumLayers(w) + 1) /\ i <= j + 1
    BY <1>0
  <1>2. sums[i] \in Nat /\ sums[j + 1] \in Nat /\ sums[i] <= sums[j + 1]
    BY <1>1 DEF IsWorkload
  <1> QED BY <1>2 DEF Segment

LEMMA ProductIsNat ==
  ASSUME NEW a \in Nat, NEW b \in Nat
  PROVE  a * b \in Nat
  OBVIOUS

LEMMA StageTimeType ==
  ASSUME NEW w, NEW stages \in Nat, IsWorkload(w, stages), NEW K \in 1..stages,
         NEW s \in 1..K, NEW i \in 1..NumLayers(w), NEW j \in 1..NumLayers(w),
         s <= i, i <= j
  PROVE  StageTime(w, K, s, i, j) \in Nat
  <1>0. NumLayers(w) \in Nat
    BY DEF IsWorkload
  <1>1. Segment(w.work, i, j) \in Nat /\ Segment(w.act, j, j) \in Nat
    BY <1>0, SegmentType
  <1>2. w.slow[s] \in Nat
    BY DEF IsWorkload
  <1>3. ASSUME s < K PROVE CommTime(w, s, j) \in Nat
    <2>1. s \in 1..(stages - 1)
      BY <1>3
    <2>2. w.latency[s] \in Nat /\ w.link[s] \in Nat
      BY <2>1 DEF IsWorkload
    <2>3. w.link[s] * Segment(w.act, j, j) \in Nat
      BY <1>1, <2>2, ProductIsNat
    <2> QED BY <2>2, <2>3 DEF CommTime
  <1>4. ASSUME s > 1 PROVE CommTime(w, s - 1, i - 1) \in Nat
    <2>1. s - 1 \in 1..(stages - 1) /\ i - 1 \in 1..NumLayers(w)
      BY <1>0, <1>4
    <2>2. w.latency[s - 1] \in Nat /\ w.link[s - 1] \in Nat
      BY <2>1 DEF IsWorkload
    <2>3. Segment(w.act, i - 1, i - 1) \in Nat
      BY <1>0, <2>1, SegmentType
    <2>4. w.link[s - 1] * Segment(w.act, i - 1, i - 1) \in Nat
      BY <2>2, <2>3, ProductIsNat
    <2> QED BY <2>2, <2>4 DEF CommTime
  <1> DEFINE work == 2 * w.slow[s] * Segment(w.work, i, j)
             after == IF s < K THEN CommTime(w, s, j) ELSE 0
             ahead == IF s > 1 THEN CommTime(w, s - 1, i - 1) ELSE 0
  <1>5. work \in Nat
    <2>1. 2 * w.slow[s] \in Nat
      BY <1>2
    <2> QED BY <1>1, <2>1, ProductIsNat
  <1>6. after \in Nat /\ ahead \in Nat
    BY <1>3, <1>4
  <1>7. StageTime(w, K, s, i, j) = work + after + ahead
    BY DEF StageTime
  <1> HIDE DEF work, after, ahead
  <1> QED BY <1>5, <1>6, <1>7

\* What a stage adds to the score.
StageCost(obj, w, K, s, i, j) ==
  IF obj = "bottleneck" THEN StageTime(w, K, s, i, j)
                        ELSE w.power[s] * StageTime(w, K, s, i, j)

LEMMA StageCostType ==
  ASSUME NEW obj, NEW w, NEW stages \in Nat, IsWorkload(w, stages), NEW K \in 1..stages,
         NEW s \in 1..K, NEW i \in 1..NumLayers(w), NEW j \in 1..NumLayers(w),
         s <= i, i <= j
  PROVE  StageCost(obj, w, K, s, i, j) \in Nat
  <1>1. StageTime(w, K, s, i, j) \in Nat
    BY StageTimeType
  <1>2. w.power[s] \in Nat
    BY DEF IsWorkload
  <1>3. w.power[s] * StageTime(w, K, s, i, j) \in Nat
    BY <1>1, <1>2, ProductIsNat
  <1> QED BY <1>1, <1>3 DEF StageCost

LEMMA ExtendJoins ==
  ASSUME NEW obj, NEW w, NEW K, NEW s, NEW prev, NEW i, NEW j
  PROVE  Extend(obj, w, K, s, prev, i, j) = Join(obj, prev, StageCost(obj, w, K, s, i, j))
  BY DEF Extend, Join, StageCost

-----------------------------------------------------------------------------
(* The table of the dynamic program.                                       *)

\* A cell of the table, from the row of the previous stage.
Cell(obj, w, K, prev, s, j) ==
  IF s = 1
  THEN IF Fits(w, 1, 1, j)
       THEN [score |-> Extend(obj, w, K, 1, 0, 1, j), cut |-> 0] ELSE NoEntry
  ELSE LET from    == {i \in PreviousEnds(s, j) :
                         prev[i] # NoEntry /\ Fits(w, s, i + 1, j)}
           entries == {[score |-> Extend(obj, w, K, s, prev[i].score, i + 1, j),
                        cut |-> i] : i \in from}
       IN  IF from = {} THEN NoEntry
           ELSE CHOOSE e \in entries : \A f \in entries :
                  e.score < f.score \/ (e.score = f.score /\ e.cut <= f.cut)

Rows(obj, w, K, dp) ==
  dp = [s \in 1..K |-> [j \in 1..NumLayers(w) |-> Cell(obj, w, K, dp[s - 1], s, j)]]

LEMMA TableRows ==
  ASSUME NEW obj, NEW w, NEW K \in Nat
  PROVE  Rows(obj, w, K, Table(obj, w, K))
  <1> DEFINE L == NumLayers(w)
             Row(prev, s) == [j \in 1..L |-> Cell(obj, w, K, prev, s, j)]
             P == {n \in Nat : \E dp : \A s \in 1..K : s <= n => dp[s] = Row(dp[s - 1], s)}
  <1>0. \A p, q : Row(p, 1) = Row(q, 1)
    BY DEF Cell
  <1> HIDE DEF Row, L
  <1>1. 0 \in P
    OBVIOUS
  <1>2. ASSUME NEW n \in Nat, n \in P PROVE n + 1 \in P
    <2>1. PICK dp : \A s \in 1..K : s <= n => dp[s] = Row(dp[s - 1], s)
      BY <1>2
    <2> DEFINE ep == [s \in 1..K |-> IF s <= n THEN dp[s] ELSE Row(dp[n], s)]
    <2>2. ASSUME NEW s \in 1..K, s <= n + 1 PROVE ep[s] = Row(ep[s - 1], s)
      <3>1. CASE s = 1
        <4>1. ep[1] = Row(dp[1 - 1], 1) \/ ep[1] = Row(dp[n], 1)
          BY <2>1, <3>1
        <4> QED BY <1>0, <3>1, <4>1
      <3>2. CASE s # 1
        <4>1. s - 1 \in 1..K /\ s - 1 <= n
          BY <2>2, <3>2
        <4>2. ep[s - 1] = dp[s - 1]
          BY <4>1
        <4>3. CASE s <= n
          <5>1. ep[s] = dp[s]
            BY <4>3
          <5> HIDE DEF ep
          <5> QED BY <2>1, <4>2, <4>3, <5>1
        <4>4. CASE ~(s <= n)
          <5>1. s = n + 1 /\ s - 1 = n
            BY <2>2, <4>4
          <5>2. ep[s] = Row(dp[n], s)
            BY <4>4
          <5> HIDE DEF ep
          <5> QED BY <4>2, <5>1, <5>2
        <4> QED BY <4>3, <4>4
      <3> QED BY <3>1, <3>2
    <2> HIDE DEF ep
    <2> QED BY <2>2
  <1> HIDE DEF P
  <1>3. K \in P
    BY <1>1, <1>2, Induction
  <1>4. PICK dp : \A s \in 1..K : s <= K => dp[s] = Row(dp[s - 1], s)
    BY <1>3 DEF P
  <1> DEFINE ep == [s \in 1..K |-> dp[s]]
  <1>5. ASSUME NEW s \in 1..K PROVE ep[s] = Row(ep[s - 1], s)
    <2>1. ep[s] = Row(dp[s - 1], s)
      BY <1>4
    <2>2. CASE s = 1
      <3> HIDE DEF ep
      <3> QED BY <1>0, <2>1, <2>2
    <2>3. CASE s # 1
      <3>1. s - 1 \in 1..K
        BY <2>3
      <3>2. ep[s - 1] = dp[s - 1]
        BY <3>1
      <3> HIDE DEF ep
      <3> QED BY <2>1, <3>2
    <2> QED BY <2>2, <2>3
  <1>6. ep = [s \in 1..K |-> ep[s]]
    OBVIOUS
  <1> HIDE DEF ep
  <1>7. [s \in 1..K |-> ep[s]] = [s \in 1..K |-> Row(ep[s - 1], s)]
    BY <1>5
  <1>8. Rows(obj, w, K, ep)
    BY <1>6, <1>7 DEF Rows, Row, L
  <1>9. Table(obj, w, K) = CHOOSE tab : Rows(obj, w, K, tab)
    BY Zenon DEF Table, Rows, Cell
  <1> QED BY <1>8, <1>9

\* Where the stage before may end.
Froms(w, prev, s, j) ==
  {i \in PreviousEnds(s, j) : prev[i] # NoEntry /\ Fits(w, s, i + 1, j)}

\* What joining stage s, from layer i + 1 on, makes of the entry at i.
After(obj, w, K, prev, s, j, i) ==
  Join(obj, prev[i].score, StageCost(obj, w, K, s, i + 1, j))

IsLeast(obj, w, K, prev, s, j, c) ==
  /\ c = NoEntry <=> Froms(w, prev, s, j) = {}
  /\ c # NoEntry =>
       /\ c.cut \in Froms(w, prev, s, j)
       /\ c.score = After(obj, w, K, prev, s, j, c.cut)
       /\ c.score \in Nat
       /\ \A i \in Froms(w, prev, s, j) : c.score <= After(obj, w, K, prev, s, j, i)

LEMMA CellIsLeast ==
  ASSUME NEW obj, NEW w, NEW stages \in Nat, IsWorkload(w, stages), NEW K \in 1..stages,
         NEW s \in 2..K, NEW j \in 1..NumLayers(w), NEW prev,
         \A i \in 1..NumLayers(w) : prev[i] # NoEntry => prev[i].score \in Nat
  PROVE  IsLeast(obj, w, K, prev, s, j, Cell(obj, w, K, prev, s, j))
  <1>0. NumLayers(w) \in Nat /\ NumLayers(w) >= 1 /\ s \in 1..K /\ s # 1
    BY DEF IsWorkload
  <1> DEFINE c == Cell(obj, w, K, prev, s, j)
             from == Froms(w, prev, s, j)
             after(i) == After(obj, w, K, prev, s, j, i)
             entry(i) == [score |-> after(i), cut |-> i]
             entries == {entry(i) : i \in from}
  <1>1. ASSUME NEW i \in from PROVE i \in Nat /\ i >= 1 /\ after(i) \in Nat
    <2>1. i \in (s - 1)..(j - 1) /\ prev[i] # NoEntry
      BY DEF Froms, PreviousEnds
    <2>2. i \in 1..NumLayers(w) /\ i + 1 \in 1..NumLayers(w) /\ s <= i + 1 /\ i + 1 <= j
      BY <1>0, <2>1
    <2>3. prev[i].score \in Nat
      BY <2>1, <2>2
    <2>4. StageCost(obj, w, K, s, i + 1, j) \in Nat
      BY <1>0, <2>2, StageCostType
    <2> QED BY <2>2, <2>3, <2>4, JoinMonotone DEF After
  <1> DEFINE Best(S) == CHOOSE e \in S : \A f \in S :
                          e.score < f.score \/ (e.score = f.score /\ e.cut <= f.cut)
  <1>2. c = IF from = {} THEN NoEntry ELSE Best(entries)
    <2> DEFINE raw == {[score |-> Extend(obj, w, K, s, prev[i].score, i + 1, j),
                        cut |-> i] : i \in from}
    <2>1. \A i : Extend(obj, w, K, s, prev[i].score, i + 1, j) = after(i)
      BY ExtendJoins DEF After
    <2>2. raw = entries
      <3> HIDE DEF after, from
      <3> QED BY <2>1
    <2>3. c = IF from = {} THEN NoEntry ELSE Best(raw)
      BY <1>0, Zenon DEF Cell, Froms
    <2> HIDE DEF entries, from, raw, c, Best
    <2> QED BY <2>2, <2>3
  <1> HIDE DEF c, from, after
  <1>3. ASSUME from = {} PROVE c = NoEntry
    BY <1>2, <1>3
  <1>4. ASSUME from # {}
        PROVE  /\ c # NoEntry /\ c.cut \in from /\ c.score = after(c.cut) /\ c.score \in Nat
               /\ \A i \in from : c.score <= after(i)
    <2>1. entries # {}
      BY <1>4
    <2>2. \A e \in entries : e.score \in Nat /\ e.cut \in Nat /\ e.cut \in from
                             /\ e.score = after(e.cut) /\ e.cut # 0
      BY <1>1
    <2>3. \A i \in from : entry(i) \in entries /\ entry(i).score = after(i)
      OBVIOUS
    <2> HIDE DEF entries, entry
    <2>4. \E e \in entries : \A f \in entries :
            e.score < f.score \/ (e.score = f.score /\ e.cut <= f.cut)
      <3> DEFINE a == [e \in entries |-> e.score]
                 b == [e \in entries |-> e.cut]
      <3>1. a \in [entries -> Nat] /\ b \in [entries -> Nat]
        BY <2>2
      <3>2. \A e \in entries : a[e] = e.score /\ b[e] = e.cut
        OBVIOUS
      <3> HIDE DEF a, b
      <3>3. PICK e \in entries : \A f \in entries :
              a[e] < a[f] \/ (a[e] = a[f] /\ b[e] <= b[f])
        BY <2>1, <3>1, LeastOfEquals
      <3>4. \A f \in entries : e.score < f.score \/ (e.score = f.score /\ e.cut <= f.cut)
        BY <3>2, <3>3
      <3> QED BY <3>4
    <2>5. /\ c \in entries
          /\ \A f \in entries : c.score < f.score \/ (c.score = f.score /\ c.cut <= f.cut)
      BY <1>2, <1>4, <2>4
    <2>6. c.score \in Nat /\ c.cut \in from /\ c.score = after(c.cut) /\ c # NoEntry
      BY <2>2, <2>5 DEF NoEntry
    <2>7. ASSUME NEW i \in from PROVE c.score <= after(i)
      <3>1. entry(i) \in entries /\ entry(i).score = after(i)
        BY <2>3
      <3>2. c.score < entry(i).score \/ c.score = entry(i).score
        BY <2>5, <3>1
      <3>3. after(i) \in Nat
        BY <1>1
      <3> QED BY <2>6, <3>1, <3>2, <3>3
    <2> QED BY <2>6, <2>7
  <1>5. IsLeast(obj, w, K, prev, s, j, c)
    BY <1>3, <1>4 DEF IsLeast, from, after
  <1> QED BY <1>5 DEF c

\* The same dynamic program, without the names of its data.
Use(w, L, K) == [s \in 1..K |-> [i \in 1..L |-> {j \in 1..L : Fits(w, s, i, j)}]]

CostTable(obj, w, L, K) ==
  [s \in 1..K |-> [i \in 1..L |-> [j \in 1..L |-> StageCost(obj, w, K, s, i, j)]]]

Has(T, L, K) == [s \in 1..K |-> {j \in 1..L : T[s][j] # NoEntry}]
ScoreTable(T, L, K) == [s \in 1..K |-> [j \in 1..L |-> T[s][j].score]]

LEMMA TableIsLayered ==
  ASSUME NEW obj, NEW w, NEW stages \in Nat, IsWorkload(w, stages), NEW K \in 1..stages
  PROVE  IsLayered(K, NumLayers(w), Use(w, NumLayers(w), K), CostTable(obj, w, NumLayers(w), K))
  <1>0. NumLayers(w) \in Nat \ {0} /\ K \in Nat \ {0}
    BY DEF IsWorkload
  <1> DEFINE L == NumLayers(w)
  <1>1. ASSUME NEW s \in 1..K, NEW i \in 1..L, NEW j \in 1..L, s <= i, i <= j
        PROVE  CostTable(obj, w, L, K)[s][i][j] \in Nat
    <2>1. StageCost(obj, w, K, s, i, j) \in Nat
      BY <1>1, StageCostType
    <2> QED BY <2>1 DEF CostTable
  <1> QED BY <1>0, <1>1 DEF IsLayered

(* The table of the code is a solution of it.                                 *)
LEMMA TableSolves ==
  ASSUME NEW obj, NEW w, NEW stages \in Nat, IsWorkload(w, stages), NEW K \in 1..stages,
         NEW T, Rows(obj, w, K, T)
  PROVE  LET L == NumLayers(w) IN
         Solves(obj, K, L, Use(w, L, K), CostTable(obj, w, L, K), Has(T, L, K),
                ScoreTable(T, L, K), T)
  <1> DEFINE L == NumLayers(w)
             Scored(s) == \A j \in 1..L : T[s][j] # NoEntry => T[s][j].score \in Nat
             use == Use(w, L, K)
             cost == CostTable(obj, w, L, K)
             has == Has(T, L, K)
             score == ScoreTable(T, L, K)
  <1>0. L \in Nat /\ L >= 1 /\ K \in Nat /\ K >= 1
    BY DEF IsWorkload
  <1>a. \A s \in 1..K : \A j \in 1..L : T[s][j] = Cell(obj, w, K, T[s - 1], s, j)
    <2> DEFINE F == [s \in 1..K |-> [j \in 1..L |-> Cell(obj, w, K, T[s - 1], s, j)]]
    <2>1. T = F
      BY DEF Rows
    <2>2. \A s \in 1..K : \A j \in 1..L : F[s][j] = Cell(obj, w, K, T[s - 1], s, j)
      OBVIOUS
    <2> HIDE DEF F
    <2> QED BY <2>1, <2>2
  <1>b. \A s \in 1..K : \A j \in 1..L :
          /\ j \in has[s] <=> T[s][j] # NoEntry
          /\ score[s][j] = T[s][j].score
    BY DEF Has, ScoreTable
  <1>c. \A s \in 1..K : \A i, j \in 1..L :
          /\ j \in use[s][i] <=> Fits(w, s, i, j)
          /\ cost[s][i][j] = StageCost(obj, w, K, s, i, j)
    BY DEF Use, CostTable
  <1>1. ASSUME NEW j \in 1..L
        PROVE  /\ T[1][j] # NoEntry <=> Fits(w, 1, 1, j)
               /\ T[1][j] # NoEntry => /\ T[1][j].score = Join(obj, 0, StageCost(obj, w, K, 1, 1, j))
                                       /\ T[1][j].score \in Nat
    <2>1. T[1][j] = IF Fits(w, 1, 1, j)
                    THEN [score |-> Extend(obj, w, K, 1, 0, 1, j), cut |-> 0] ELSE NoEntry
      <3>1. T[1][j] = Cell(obj, w, K, T[1 - 1], 1, j)
        BY <1>0, <1>a
      <3> QED BY <3>1 DEF Cell
    <2>2. Extend(obj, w, K, 1, 0, 1, j) = Join(obj, 0, StageCost(obj, w, K, 1, 1, j))
      BY ExtendJoins
    <2>3. Join(obj, 0, StageCost(obj, w, K, 1, 1, j)) \in Nat
      <3>1. 1 \in 1..K /\ 1 \in 1..NumLayers(w) /\ 1 <= j
        BY <1>0
      <3>2. StageCost(obj, w, K, 1, 1, j) \in Nat
        BY <3>1, StageCostType
      <3> QED BY <3>2, JoinMonotone
    <2> QED BY <2>1, <2>2, <2>3 DEF NoEntry
  <1>2. ASSUME NEW s \in 2..K, Scored(s - 1), NEW j \in 1..L
        PROVE  IsLeast(obj, w, K, T[s - 1], s, j, T[s][j])
    <2>1. T[s][j] = Cell(obj, w, K, T[s - 1], s, j)
      BY <1>0, <1>a
    <2>2. \A i \in 1..NumLayers(w) : T[s - 1][i] # NoEntry => T[s - 1][i].score \in Nat
      BY <1>2
    <2> QED BY <2>1, <2>2, CellIsLeast
  <1> DEFINE P == {n \in Nat : n \in 1..K => Scored(n)}
  <1>3. 0 \in P
    OBVIOUS
  <1>4. ASSUME NEW n \in Nat, n \in P PROVE n + 1 \in P
    <2> SUFFICES ASSUME n + 1 \in 1..K PROVE Scored(n + 1)
      OBVIOUS
    <2>1. CASE n = 0
      BY <1>1, <2>1
    <2>2. CASE n # 0
      <3>1. n + 1 \in 2..K /\ (n + 1) - 1 = n /\ n \in 1..K
        BY <1>0, <2>2
      <3>2. Scored((n + 1) - 1)
        BY <1>4, <3>1
      <3>3. \A j \in 1..L : T[n + 1][j] # NoEntry => T[n + 1][j].score \in Nat
        BY <1>2, <3>1, <3>2 DEF IsLeast
      <3> QED BY <3>3
    <2> QED BY <2>1, <2>2
  <1>5. ASSUME NEW s \in 1..K PROVE Scored(s)
    <2>1. \A n \in Nat : n \in P
      <3> HIDE DEF P
      <3> QED BY <1>3, <1>4, Induction
    <2>2. s \in Nat
      OBVIOUS
    <2> QED BY <2>1, <2>2
  <1> HIDE DEF P, Scored, use, cost, has, score, L
  <1>6. ASSUME NEW s \in 2..K, NEW j \in 1..L
        PROVE  Ways(use, has, s, j) = Froms(w, T[s - 1], s, j)
    <2>1. s - 1 \in 1..K /\ s \in 1..K
      BY <1>0
    <2>2. ASSUME NEW i \in (s - 1)..(j - 1) PROVE i \in 1..L /\ i + 1 \in 1..L
      BY <1>0
    <2>3. \A i \in (s - 1)..(j - 1) :
            i \in has[s - 1] /\ j \in use[s][i + 1] <=> T[s - 1][i] # NoEntry /\ Fits(w, s, i + 1, j)
      BY <1>b, <1>c, <2>1, <2>2
    <2> QED BY <2>3 DEF Ways, Froms, PreviousEnds
  <1>7. ASSUME NEW j \in 1..L
        PROVE  /\ j \in has[1] <=> j \in use[1][1]
               /\ j \in has[1] => score[1][j] = Join(obj, 0, cost[1][1][j])
    <2>1. 1 \in 1..K /\ 1 \in 1..L
      BY <1>0
    <2> QED BY <1>1, <1>b, <1>c, <2>1
  <1>8. ASSUME NEW s \in 2..K, NEW j \in 1..L
        PROVE  /\ j \in has[s] <=> Ways(use, has, s, j) # {}
               /\ j \in has[s] =>
                    /\ T[s][j].cut \in Ways(use, has, s, j)
                    /\ score[s][j] = Join(obj, score[s - 1][T[s][j].cut], cost[s][T[s][j].cut + 1][j])
                    /\ \A i \in Ways(use, has, s, j) :
                         score[s][j] <= Join(obj, score[s - 1][i], cost[s][i + 1][j])
    <2>1. s - 1 \in 1..K /\ s \in 1..K
      BY <1>0
    <2>2. Scored(s - 1)
      BY <1>5, <2>1
    <2>3. ASSUME NEW i \in Ways(use, has, s, j)
          PROVE  score[s - 1][i] = T[s - 1][i].score
                 /\ cost[s][i + 1][j] = StageCost(obj, w, K, s, i + 1, j)
      <3>1. i \in (s - 1)..(j - 1)
        BY DEF Ways
      <3>2. i \in 1..L /\ i + 1 \in 1..L
        BY <1>0, <3>1
      <3> QED BY <1>b, <1>c, <2>1, <3>2
    <2>4. j \in has[s] <=> Ways(use, has, s, j) # {}
      BY <1>2, <1>6, <1>b, <2>1, <2>2, SMTT(30) DEF IsLeast
    <2>5. ASSUME j \in has[s]
          PROVE  /\ T[s][j].cut \in Ways(use, has, s, j)
                 /\ score[s][j] = Join(obj, score[s - 1][T[s][j].cut], cost[s][T[s][j].cut + 1][j])
                 /\ \A i \in Ways(use, has, s, j) :
                      score[s][j] <= Join(obj, score[s - 1][i], cost[s][i + 1][j])
      <3>1. T[s][j] # NoEntry /\ score[s][j] = T[s][j].score
        BY <1>b, <2>1, <2>5
      <3>2. T[s][j].cut \in Ways(use, has, s, j)
        BY <1>2, <1>6, <2>2, <3>1 DEF IsLeast
      <3>3. score[s][j] = Join(obj, score[s - 1][T[s][j].cut], cost[s][T[s][j].cut + 1][j])
        BY <1>2, <2>2, <2>3, <3>1, <3>2 DEF IsLeast, After
      <3>4. ASSUME NEW i \in Ways(use, has, s, j)
            PROVE  score[s][j] <= Join(obj, score[s - 1][i], cost[s][i + 1][j])
        BY <1>2, <1>6, <2>2, <2>3, <3>1 DEF IsLeast, After
      <3> QED BY <3>2, <3>3, <3>4
    <2> QED BY <2>4, <2>5
  <1>9. Solves(obj, K, L, use, cost, has, score, T)
    BY <1>7, <1>8 DEF Solves
  <1> QED BY <1>9 DEF L, use, cost, has, score

-----------------------------------------------------------------------------
(* Backtracking.                                                           *)

Backtracks(K, L, T, b) == b = [s \in 1..K |-> IF s = K THEN L ELSE T[s + 1][b[s + 1]].cut]

LEMMA BacktrackingExists ==
  ASSUME NEW K \in Nat, NEW L, NEW T
  PROVE  \E b : Backtracks(K, L, T, b)
  <1> DEFINE From(b, s) == IF s = K THEN L ELSE T[s + 1][b[s + 1]].cut
             P == {n \in Nat : \E b : \A s \in 1..K : K - s <= n => b[s] = From(b, s)}
  <1>1. 0 \in P
    <2> DEFINE b == [s \in 1..K |-> L]
    <2>1. \A s \in 1..K : K - s <= 0 => b[s] = From(b, s)
      OBVIOUS
    <2> QED BY <2>1
  <1>2. ASSUME NEW n \in Nat, n \in P PROVE n + 1 \in P
    <2>1. PICK b : \A s \in 1..K : K - s <= n => b[s] = From(b, s)
      BY <1>2
    <2> DEFINE d == [s \in 1..K |-> IF K - s <= n THEN b[s] ELSE From(b, s)]
    <2>2. ASSUME NEW s \in 1..K, K - s <= n + 1 PROVE d[s] = From(d, s)
      <3>1. d[s] = From(b, s)
        BY <2>1
      <3>2. CASE s = K
        BY <3>1, <3>2
      <3>3. CASE s # K
        <4>1. s + 1 \in 1..K /\ K - (s + 1) <= n
          BY <2>2, <3>3
        <4>2. d[s + 1] = b[s + 1]
          BY <4>1
        <4> HIDE DEF d
        <4> QED BY <3>1, <3>3, <4>2
      <3> QED BY <3>2, <3>3
    <2> HIDE DEF d
    <2> QED BY <2>2
  <1> HIDE DEF P
  <1>3. K \in P
    BY <1>1, <1>2, Induction
  <1>4. PICK b : \A s \in 1..K : K - s <= K => b[s] = From(b, s)
    BY <1>3 DEF P
  <1> DEFINE d == [s \in 1..K |-> b[s]]
  <1>5. ASSUME NEW s \in 1..K PROVE d[s] = From(d, s)
    <2>1. d[s] = From(b, s)
      BY <1>4
    <2>2. CASE s = K
      BY <2>1, <2>2
    <2>3. CASE s # K
      <3>1. s + 1 \in 1..K
        BY <2>3
      <3>2. d[s + 1] = b[s + 1]
        BY <3>1
      <3> HIDE DEF d
      <3> QED BY <2>1, <2>3, <3>2
    <2> QED BY <2>2, <2>3
  <1>6. d = [s \in 1..K |-> d[s]]
    OBVIOUS
  <1> HIDE DEF d
  <1>7. [s \in 1..K |-> d[s]] = [s \in 1..K |-> From(d, s)]
    BY <1>5
  <1> QED BY <1>6, <1>7 DEF Backtracks

LEMMA BacktracksBack ==
  ASSUME NEW K \in Nat \ {0}, NEW L, NEW T, NEW b, Backtracks(K, L, T, b)
  PROVE  Backs(K, L, T, b) /\ b = [s \in 1..K |-> b[s]]
  <1> DEFINE F == [s \in 1..K |-> IF s = K THEN L ELSE T[s + 1][b[s + 1]].cut]
  <1>1. b = F
    BY DEF Backtracks
  <1>2. F[K] = L /\ F = [s \in 1..K |-> F[s]]
    OBVIOUS
  <1>3. ASSUME NEW s \in 1..(K - 1) PROVE F[s] = T[s + 1][b[s + 1]].cut
    <2>1. s \in 1..K /\ s # K
      OBVIOUS
    <2> QED BY <2>1
  <1> HIDE DEF F
  <1>4. b[K] = L /\ b = [s \in 1..K |-> b[s]]
    BY <1>1, <1>2
  <1>5. \A s \in 1..(K - 1) : b[s] = T[s + 1][b[s + 1]].cut
    BY <1>1, <1>3
  <1> QED BY <1>4, <1>5 DEF Backs

-----------------------------------------------------------------------------
(* Cuts and where the stages end.                                          *)

EndsOf(w, K, cuts) == [s \in 1..K |-> Last(w, K, cuts, s)]

LEMMA EndsOfCuts ==
  ASSUME NEW w, NEW K \in Nat, NEW cuts
  PROVE  \A s \in 1..K : /\ EndsOf(w, K, cuts)[s] = Last(w, K, cuts, s)
                         /\ First(EndsOf(w, K, cuts), s) = First(cuts, s)
  <1> DEFINE e == EndsOf(w, K, cuts)
  <1>1. \A s \in 1..K : e[s] = Last(w, K, cuts, s)
    BY DEF EndsOf
  <1> HIDE DEF e
  <1>2. ASSUME NEW s \in 1..K PROVE First(e, s) = First(cuts, s)
    <2>1. CASE s = 1
      BY <2>1 DEF First
    <2>2. CASE s # 1
      <3>1. s - 1 \in 1..K /\ s - 1 # K
        BY <2>2
      <3>2. e[s - 1] = cuts[s - 1]
        BY <1>1, <3>1 DEF Last
      <3> QED BY <2>2, <3>2 DEF First
    <2> QED BY <2>1, <2>2
  <1> QED BY <1>1, <1>2 DEF e

\* Feasible cuts end the stages where a walk does, and the other way round.
LEMMA FeasibleWalks ==
  ASSUME NEW w, NEW L \in Nat \ {0}, L = NumLayers(w), NEW K \in Nat \ {0},
         NEW cuts \in Feasible(w, K)
  PROVE  EndsOf(w, K, cuts) \in [1..K -> 1..L] /\ Walks(Use(w, L, K), EndsOf(w, K, cuts), K)
  <1> DEFINE e == EndsOf(w, K, cuts)
  <1>1. cuts \in [1..(K - 1) -> 1..(L - 1)] /\ Buildable(w, K, cuts)
    BY DEF Feasible
  <1>2. ASSUME NEW s \in 1..K PROVE Last(w, K, cuts, s) \in 1..L
    <2>1. CASE s = K
      BY <2>1 DEF Last
    <2>2. CASE s # K
      <3>1. s \in 1..(K - 1)
        BY <2>2
      <3>2. cuts[s] \in 1..(L - 1)
        BY <1>1, <3>1
      <3>3. cuts[s] \in 1..L
        BY <3>2
      <3> QED BY <2>2, <3>3 DEF Last
    <2> QED BY <2>1, <2>2
  <1>3. e \in [1..K -> 1..L]
    BY <1>2 DEF EndsOf
  <1>4. \A s \in 1..K : e[s] = Last(w, K, cuts, s) /\ First(e, s) = First(cuts, s)
    BY EndsOfCuts
  <1>5. ASSUME NEW s \in 1..K PROVE First(cuts, s) \in 1..L
    <2>1. CASE s = 1
      BY <2>1 DEF First
    <2>2. CASE s # 1
      <3>1. s - 1 \in 1..(K - 1)
        BY <2>2
      <3>2. cuts[s - 1] \in 1..(L - 1)
        BY <1>1, <3>1
      <3>3. cuts[s - 1] + 1 \in 1..L
        BY <3>2
      <3> QED BY <2>2, <3>3 DEF First
    <2> QED BY <2>1, <2>2
  <1>6. Walks(Use(w, L, K), e, K)
    <2> SUFFICES ASSUME NEW s \in 1..K
                 PROVE  First(e, s) <= e[s] /\ e[s] \in Use(w, L, K)[s][First(e, s)]
      BY DEF Walks
    <2>1. First(cuts, s) <= Last(w, K, cuts, s) /\ Fits(w, s, First(cuts, s), Last(w, K, cuts, s))
      BY <1>1 DEF Buildable
    <2>2. Last(w, K, cuts, s) \in Use(w, L, K)[s][First(cuts, s)]
      BY <1>2, <1>5, <2>1 DEF Use
    <2> HIDE DEF e
    <2> QED BY <1>4, <2>1, <2>2
  <1> QED BY <1>3, <1>6

LEMMA WalksAreFeasible ==
  ASSUME NEW w, NEW L \in Nat \ {0}, L = NumLayers(w), NEW K \in Nat \ {0},
         NEW e \in [1..K -> 1..L], e[K] = L, Walks(Use(w, L, K), e, K)
  PROVE  LET cuts == [s \in 1..(K - 1) |-> e[s]] IN
         cuts \in Feasible(w, K) /\ EndsOf(w, K, cuts) = e
  <1> DEFINE cuts == [s \in 1..(K - 1) |-> e[s]]
  <1>1. Rises(e, K)
    BY WalksRise
  <1>2. ASSUME NEW s \in 1..(K - 1) PROVE cuts[s] = e[s] /\ e[s] \in 1..(L - 1)
    <2>1. s + 1 \in 2..K /\ (s + 1) - 1 = s /\ s \in 1..K /\ s + 1 \in 1..K
      OBVIOUS
    <2>2. e[s] \in s..(e[s + 1] - 1) /\ e[s + 1] \in 1..L
      BY <1>1, <2>1 DEF Rises
    <2> QED BY <2>1, <2>2
  <1>3. cuts \in [1..(K - 1) -> 1..(L - 1)]
    BY <1>2
  <1> HIDE DEF cuts
  <1>4. ASSUME NEW s \in 1..K PROVE Last(w, K, cuts, s) = e[s]
    <2>1. CASE s = K
      BY <2>1 DEF Last
    <2>2. CASE s # K
      <3>1. s \in 1..(K - 1)
        BY <2>2
      <3> QED BY <1>2, <2>2, <3>1 DEF Last
    <2> QED BY <2>1, <2>2
  <1>5. EndsOf(w, K, cuts) = e
    <2>1. EndsOf(w, K, cuts) = [s \in 1..K |-> e[s]]
      BY <1>4 DEF EndsOf
    <2> QED BY <2>1
  <1>6. ASSUME NEW s \in 1..K
        PROVE  First(cuts, s) <= Last(w, K, cuts, s)
               /\ Fits(w, s, First(cuts, s), Last(w, K, cuts, s))
    <2>1. First(cuts, s) = First(e, s)
      BY <1>5, EndsOfCuts
    <2>2. First(e, s) <= e[s] /\ e[s] \in Use(w, L, K)[s][First(e, s)]
      BY DEF Walks
    <2>3. First(e, s) \in 1..L /\ e[s] \in 1..L
      <3>1. First(e, s) \in s..e[s] /\ e[s] \in 1..L
        BY <1>1 DEF Rises
      <3> QED BY <3>1
    <2>4. Fits(w, s, First(e, s), e[s])
      BY <2>2, <2>3 DEF Use
    <2> QED BY <1>4, <2>1, <2>2, <2>4
  <1>7. cuts \in Feasible(w, K)
    BY <1>3, <1>6 DEF Feasible, Buildable
  <1> QED BY <1>5, <1>7 DEF cuts

\* The score of a partition is what its walk costs.
LEMMA ScoreIsWhole ==
  ASSUME NEW obj, NEW w, NEW L \in Nat \ {0}, L = NumLayers(w), NEW K \in Nat \ {0},
         NEW cuts, NEW e, e = EndsOf(w, K, cuts),
         e \in [1..K -> 1..L], Walks(Use(w, L, K), e, K)
  PROVE  Score(obj, w, K, cuts) = Whole(obj, Costs(K, CostTable(obj, w, L, K), e), K)
  <1> DEFINE cost == CostTable(obj, w, L, K)
             f == Costs(K, cost, e)
  <1>1. Rises(e, K)
    BY WalksRise
  <1>2. ASSUME NEW s \in 1..K
        PROVE  f[s] = StageCost(obj, w, K, s, First(cuts, s), Last(w, K, cuts, s))
    <2>1. First(e, s) \in s..e[s] /\ e[s] \in 1..L
      BY <1>1 DEF Rises
    <2>2. First(e, s) \in 1..L
      BY <2>1
    <2>3. cost[s][First(e, s)][e[s]] = StageCost(obj, w, K, s, First(e, s), e[s])
      BY <2>1, <2>2 DEF CostTable
    <2>4. First(cuts, s) = First(e, s) /\ Last(w, K, cuts, s) = e[s]
      BY EndsOfCuts
    <2>5. f[s] = cost[s][First(e, s)][e[s]]
      BY DEF Costs
    <2> QED BY <2>3, <2>4, <2>5
  <1>3. f = [s \in 1..K |-> f[s]]
    BY DEF Costs
  <1>4. CASE obj = "bottleneck"
    <2>1. \A s \in 1..K : f[s] = TimeOf(w, K, cuts, s)
      BY <1>2, <1>4 DEF StageCost, TimeOf
    <2> DEFINE g == [s \in 1..K |-> TimeOf(w, K, cuts, s)]
    <2>2. g = f
      <3> HIDE DEF f
      <3> QED BY <1>3, <2>1
    <2>3. Score(obj, w, K, cuts) = FoldFunctionOnSet(Larger2, 0, g, DOMAIN g)
      BY <1>4, Zenon DEF Score, FoldFunction
    <2>4. DOMAIN g = 1..K
      OBVIOUS
    <2> HIDE DEF g, f
    <2> QED BY <1>4, <2>2, <2>3, <2>4 DEF Whole, f
  <1>5. CASE obj # "bottleneck"
    <2>1. \A s \in 1..K : f[s] = w.power[s] * TimeOf(w, K, cuts, s)
      BY <1>2, <1>5 DEF StageCost, TimeOf
    <2> DEFINE g == [s \in 1..K |-> w.power[s] * TimeOf(w, K, cuts, s)]
    <2>2. g = f
      <3> HIDE DEF f
      <3> QED BY <1>3, <2>1
    <2>3. Score(obj, w, K, cuts) = SumFunctionOnSet(g, DOMAIN g)
      BY <1>5, Zenon DEF Score, SumFunction, FoldFunction, SumFunctionOnSet
    <2>4. DOMAIN g = 1..K
      OBVIOUS
    <2> HIDE DEF g, f
    <2> QED BY <1>5, <2>2, <2>3, <2>4 DEF Whole, f
  <1> QED BY <1>4, <1>5

-----------------------------------------------------------------------------
(* partition_pipeline finds an optimal partition whenever there is any.    *)
LEMMA PipelineIsOptimal ==
  ASSUME NEW obj, NEW w, NEW stages \in Nat, IsWorkload(w, stages), NEW K \in 1..stages
  PROVE  /\ Solvable(obj, w, K) => Optimal(obj, w, K, PartitionPipeline(obj, w, K))
         /\ ~Solvable(obj, w, K) => Feasible(w, K) = {}
  <1> DEFINE L == NumLayers(w)
             T == Table(obj, w, K)
             use == Use(w, L, K)
             cost == CostTable(obj, w, L, K)
             has == Has(T, L, K)
             score == ScoreTable(T, L, K)
  <1>0. L \in Nat \ {0} /\ K \in Nat \ {0} /\ K \in 1..K /\ L \in 1..L
    BY DEF IsWorkload
  <1>1. IsLayered(K, L, use, cost)
    BY TableIsLayered
  <1>2. Solves(obj, K, L, use, cost, has, score, T)
    BY <1>0, TableRows, TableSolves
  <1>3. Solvable(obj, w, K) <=> L \in has[K]
    BY <1>0 DEF Solvable, Has
  <1>4. score[K][L] = T[K][L].score
    BY <1>0 DEF ScoreTable
  <1>a. L = NumLayers(w)
    OBVIOUS
  <1> HIDE DEF L, T, use, cost, has, score
  <1>5. ASSUME NEW c \in Feasible(w, K)
        PROVE  L \in has[K] /\ score[K][L] <= Score(obj, w, K, c)
    <2> DEFINE e == EndsOf(w, K, c)
    <2>1. e \in [1..K -> 1..L] /\ Walks(use, e, K)
      BY <1>0, <1>a, FeasibleWalks DEF use
    <2>2. e[K] = L
      BY <1>0, <1>a DEF EndsOf, Last
    <2>3. Score(obj, w, K, c) = Whole(obj, Costs(K, cost, e), K)
      BY <1>0, <1>a, <2>1, ScoreIsWhole DEF use, cost
    <2> HIDE DEF e
    <2>4. e[K] \in has[K] /\ score[K][e[K]] <= Whole(obj, Costs(K, cost, e), K)
      BY <1>0, <1>1, <1>2, <2>1, NoWalkIsCheaper
    <2> QED BY <2>2, <2>3, <2>4
  <1>6. ASSUME L \in has[K] PROVE Optimal(obj, w, K, PartitionPipeline(obj, w, K))
    <2> DEFINE b == CHOOSE b : Backtracks(K, L, T, b)
               cuts == [s \in 1..(K - 1) |-> b[s]]
    <2>1. PartitionPipeline(obj, w, K) = cuts
      BY Zenon DEF PartitionPipeline, Backtracks, T, L
    <2>2. Backtracks(K, L, T, b)
      BY <1>0, BacktrackingExists
    <2> HIDE DEF b
    <2>3. Backs(K, L, T, b) /\ b = [s \in 1..K |-> b[s]]
      BY <1>0, <2>2, BacktracksBack
    <2>4. /\ b \in [1..K -> 1..L] /\ Walks(use, b, K)
          /\ Whole(obj, Costs(K, cost, b), K) = score[K][L]
      BY <1>1, <1>2, <1>6, <2>3, BacktrackingWalks
    <2>5. b[K] = L
      BY <2>3 DEF Backs
    <2>6. cuts \in Feasible(w, K) /\ EndsOf(w, K, cuts) = b
      BY <1>0, <1>a, <2>4, <2>5, WalksAreFeasible DEF use
    <2> HIDE DEF cuts
    <2>7. Score(obj, w, K, cuts) = score[K][L]
      BY <1>0, <1>a, <2>4, <2>6, ScoreIsWhole DEF use, cost
    <2>8. \A c \in Feasible(w, K) : Score(obj, w, K, cuts) <= Score(obj, w, K, c)
      BY <1>5, <2>7
    <2> QED BY <2>1, <2>6, <2>8 DEF Optimal
  <1> QED BY <1>3, <1>5, <1>6

-----------------------------------------------------------------------------
(* The window.                                                             *)

\* A score is never negative.
LEMMA ScoreType2 ==
  ASSUME NEW obj, NEW w, NEW stages \in Nat, IsWorkload(w, stages), NEW K \in 1..stages,
         NEW c \in Feasible(w, K)
  PROVE  Score(obj, w, K, c) \in Nat
  <1> DEFINE L == NumLayers(w)
             e == EndsOf(w, K, c)
             f == Costs(K, CostTable(obj, w, L, K), e)
  <1>0. L \in Nat \ {0} /\ K \in Nat \ {0} /\ K \in 1..K /\ L = NumLayers(w)
    BY DEF IsWorkload
  <1> HIDE DEF L
  <1>1. e \in [1..K -> 1..L] /\ Walks(Use(w, L, K), e, K)
    BY <1>0, FeasibleWalks
  <1>2. Score(obj, w, K, c) = Whole(obj, f, K)
    BY <1>0, <1>1, ScoreIsWhole
  <1>3. IsLayered(K, L, Use(w, L, K), CostTable(obj, w, L, K))
    BY <1>0, TableIsLayered
  <1> HIDE DEF e
  <1>4. \A r \in 1..K : f[r] \in Nat
    BY <1>0, <1>1, <1>3, CostsType
  <1> HIDE DEF f
  <1>5. K - 1 \in Nat /\ (K - 1) + 1 = K
    BY <1>0
  <1>6. Whole(obj, f, (K - 1) + 1) = Join(obj, Whole(obj, f, K - 1), f[(K - 1) + 1])
        /\ Whole(obj, f, K - 1) \in Nat
    BY <1>4, <1>5, WholeUpto
  <1>7. f[K] \in Nat
    BY <1>0, <1>4
  <1>8. Join(obj, Whole(obj, f, K - 1), f[K]) \in Nat
    BY <1>6, <1>7, JoinMonotone
  <1> QED BY <1>2, <1>5, <1>6, <1>8

\* Ends that rise by one at least rise by as many as there are stages between.
LEMMA RisesSpread ==
  ASSUME NEW K \in Nat, NEW L \in Nat, NEW e \in [1..K -> 1..L], Rises(e, K)
  PROVE  \A r, s \in 1..K : r <= s => e[r] + (s - r) <= e[s]
  <1> DEFINE P == {n \in Nat : \A r, s \in 1..K : s = r + n => e[r] + n <= e[s]}
  <1>1. 0 \in P
    BY SMT
  <1>2. ASSUME NEW n \in Nat, n \in P PROVE n + 1 \in P
    <2> SUFFICES ASSUME NEW r \in 1..K, NEW s \in 1..K, s = r + (n + 1)
                 PROVE  e[r] + (n + 1) <= e[s]
      OBVIOUS
    <2>1. s \in 2..K /\ s - 1 \in 1..K /\ s - 1 = r + n
      OBVIOUS
    <2>2. e[r] + n <= e[s - 1]
      BY <1>2, <2>1
    <2>3. e[s - 1] \in (s - 1)..(e[s] - 1)
      BY <2>1 DEF Rises
    <2>4. e[r] \in 1..L /\ e[s - 1] \in 1..L /\ e[s] \in 1..L
      BY <2>1
    <2> QED BY <2>2, <2>3, <2>4
  <1> HIDE DEF P
  <1>3. \A n \in Nat : n \in P
    BY <1>1, <1>2, Induction
  <1> SUFFICES ASSUME NEW r \in 1..K, NEW s \in 1..K, r <= s PROVE e[r] + (s - r) <= e[s]
    OBVIOUS
  <1>4. s - r \in Nat /\ s = r + (s - r)
    OBVIOUS
  <1>5. s - r \in P
    BY <1>3, <1>4
  <1> QED BY <1>4, <1>5 DEF P

\* Feasible cuts leave a layer for every stage before and behind them.
LEMMA FeasibleCuts ==
  ASSUME NEW w, NEW L \in Nat \ {0}, L = NumLayers(w), NEW K \in Nat \ {0},
         NEW c \in Feasible(w, K)
  PROVE  /\ c \in [1..(K - 1) -> 1..(L - 1)] /\ Buildable(w, K, c) /\ Increasing(c)
         /\ \A s \in 1..(K - 1) : s <= c[s] /\ c[s] <= L - (K - s)
  <1> DEFINE e == EndsOf(w, K, c)
  <1>0. c \in [1..(K - 1) -> 1..(L - 1)] /\ Buildable(w, K, c)
    BY DEF Feasible
  <1>1. e \in [1..K -> 1..L] /\ Walks(Use(w, L, K), e, K)
    BY FeasibleWalks
  <1>2. e[K] = L /\ \A s \in 1..(K - 1) : e[s] = c[s]
    BY DEF EndsOf, Last
  <1> HIDE DEF e
  <1>3. Rises(e, K)
    BY <1>1, WalksRise
  <1>4. \A r, s \in 1..K : r <= s => e[r] + (s - r) <= e[s]
    BY <1>1, <1>3, RisesSpread
  <1>5. ASSUME NEW s \in 1..(K - 1) PROVE s <= c[s] /\ c[s] <= L - (K - s)
    <2>1. s \in 1..K /\ K \in 1..K /\ s <= K
      OBVIOUS
    <2>2. e[s] + (K - s) <= e[K] /\ s <= e[s]
      BY <1>3, <1>4, <2>1 DEF Rises
    <2>3. c[s] \in 1..(L - 1)
      BY <1>0
    <2> QED BY <1>2, <2>2, <2>3
  <1>6. ASSUME NEW r \in 1..(K - 1), NEW s \in 1..(K - 1), r < s PROVE c[r] < c[s]
    <2>1. r \in 1..K /\ s \in 1..K /\ r <= s
      BY <1>6
    <2>2. e[r] + (s - r) <= e[s]
      BY <1>4, <2>1
    <2>3. c[r] \in 1..(L - 1) /\ c[s] \in 1..(L - 1)
      BY <1>0
    <2> QED BY <1>2, <1>6, <2>2, <2>3
  <1>7. Increasing(c)
    BY <1>0, <1>6 DEF Increasing
  <1> QED BY <1>0, <1>5, <1>7

\* Buildable cuts leave the last stage a layer.
LEMMA BuildableIsFeasible ==
  ASSUME NEW w, NEW L \in Nat \ {0}, L = NumLayers(w), NEW K \in Nat \ {0},
         NEW c \in [1..(K - 1) -> 1..L], Buildable(w, K, c)
  PROVE  c \in Feasible(w, K)
  <1>1. ASSUME NEW s \in 1..(K - 1) PROVE c[s] \in 1..(L - 1)
    <2>1. s + 1 \in 1..K /\ s + 1 # 1 /\ (s + 1) - 1 = s
      OBVIOUS
    <2>2. First(c, s + 1) = c[s] + 1
      BY <2>1 DEF First
    <2>3. First(c, s + 1) <= Last(w, K, c, s + 1)
      BY <2>1 DEF Buildable
    <2>4. Last(w, K, c, s + 1) \in 1..L
      <3>1. CASE s + 1 = K
        BY <3>1 DEF Last
      <3>2. CASE s + 1 # K
        <4>1. s + 1 \in 1..(K - 1)
          BY <3>2
        <4> QED BY <3>2, <4>1 DEF Last
      <3> QED BY <3>1, <3>2
    <2>5. c[s] \in 1..L
      OBVIOUS
    <2> QED BY <2>2, <2>3, <2>4, <2>5
  <1>2. c \in [1..(K - 1) -> 1..(L - 1)]
    BY <1>1
  <1> QED BY <1>2 DEF Feasible

(* What incremental_partition tries is what is within reach.                  *)
LEMMA CandidatesAreReach ==
  ASSUME NEW w, NEW L \in Nat \ {0}, L = NumLayers(w), NEW K \in Nat \ {0},
         NEW cuts \in [1..(K - 1) -> Nat]
  PROVE  /\ {d \in Candidates(w, K, cuts) : Buildable(w, K, d)} = Reach(w, K, cuts) \ {cuts}
         /\ ValidCuts(w, cuts) /\ Buildable(w, K, cuts) <=> cuts \in Reach(w, K, cuts)
  <1>0. Window \in Nat
    BY WindowAssumption
  <1>1. ASSUME NEW d \in Candidates(w, K, cuts), Buildable(w, K, d)
        PROVE  d \in Reach(w, K, cuts) \ {cuts}
    <2>1. /\ d \in [1..(K - 1) -> 1..L] /\ d # cuts
          /\ \A s \in 1..(K - 1) : d[s] \in SlideRange(w, K, cuts[s], s)
      BY DEF Candidates
    <2>2. d \in Feasible(w, K)
      BY <1>1, <2>1, BuildableIsFeasible
    <2>3. ASSUME NEW s \in 1..(K - 1) PROVE d[s] \in (cuts[s] - Window)..(cuts[s] + Window)
      <3>1. d[s] \in Larger2(s, cuts[s] - Window)..Smaller(L - (K - s) + 1, cuts[s] + Window)
        BY <2>1 DEF SlideRange
      <3>2. cuts[s] \in Nat /\ d[s] \in 1..L
        BY <2>1
      <3> QED BY <1>0, <3>1, <3>2, SMTT(30) DEF Larger2, Smaller
    <2> QED BY <2>1, <2>2, <2>3 DEF Reach
  <1>2. ASSUME NEW d \in Reach(w, K, cuts), d # cuts
        PROVE  d \in Candidates(w, K, cuts) /\ Buildable(w, K, d)
    <2>1. d \in Feasible(w, K) /\ \A s \in 1..(K - 1) : d[s] \in (cuts[s] - Window)..(cuts[s] + Window)
      BY DEF Reach
    <2>2. /\ d \in [1..(K - 1) -> 1..(L - 1)] /\ Buildable(w, K, d) /\ Increasing(d)
          /\ \A s \in 1..(K - 1) : s <= d[s] /\ d[s] <= L - (K - s)
      BY <2>1, FeasibleCuts
    <2>3. ASSUME NEW s \in 1..(K - 1)
          PROVE  d[s] \in 1..L /\ d[s] \in SlideRange(w, K, cuts[s], s)
      <3>1. cuts[s] \in Nat /\ d[s] \in 1..(L - 1)
        BY <2>2
      <3>2. d[s] \in (cuts[s] - Window)..(cuts[s] + Window) /\ s <= d[s] /\ d[s] <= L - (K - s)
        BY <2>1, <2>2
      <3>3. d[s] \in Larger2(s, cuts[s] - Window)..Smaller(L - (K - s) + 1, cuts[s] + Window)
        BY <1>0, <3>1, <3>2, SMTT(30) DEF Larger2, Smaller
      <3>4. d[s] \in SlideRange(w, K, cuts[s], s)
        BY <3>3 DEF SlideRange
      <3>5. d[s] \in 1..L
        BY <3>1
      <3> QED BY <3>4, <3>5
    <2>4. d \in [1..(K - 1) -> 1..L]
      BY <2>2, <2>3
    <2>5. d \in Candidates(w, K, cuts)
      BY <1>2, <2>2, <2>3, <2>4 DEF Candidates
    <2> QED BY <2>2, <2>5
  <1>3. ASSUME ValidCuts(w, cuts), Buildable(w, K, cuts) PROVE cuts \in Reach(w, K, cuts)
    <2>1. ASSUME NEW s \in 1..(K - 1)
          PROVE  cuts[s] \in 1..L /\ cuts[s] \in (cuts[s] - Window)..(cuts[s] + Window)
      <3>1. cuts[s] \in Nat
        OBVIOUS
      <3>2. 1 <= cuts[s] /\ cuts[s] < L
        BY <1>3 DEF ValidCuts
      <3> QED BY <1>0, <3>1, <3>2
    <2>2. cuts \in [1..(K - 1) -> 1..L]
      BY <2>1
    <2>3. cuts \in Feasible(w, K)
      BY <1>3, <2>2, BuildableIsFeasible
    <2> QED BY <2>1, <2>3 DEF Reach
  <1>4. ASSUME cuts \in Reach(w, K, cuts) PROVE ValidCuts(w, cuts) /\ Buildable(w, K, cuts)
    <2>1. cuts \in Feasible(w, K)
      BY <1>4 DEF Reach
    <2>2. cuts \in [1..(K - 1) -> 1..(L - 1)] /\ Buildable(w, K, cuts) /\ Increasing(cuts)
      BY <2>1, FeasibleCuts
    <2>3. ASSUME NEW s \in 1..(K - 1) PROVE 1 <= cuts[s] /\ cuts[s] < L
      <3>1. cuts[s] \in 1..(L - 1)
        BY <2>2
      <3> QED BY <3>1
    <2> QED BY <2>2, <2>3 DEF ValidCuts
  <1> QED BY <1>1, <1>2, <1>3, <1>4

\* Of some cuts one comes first in the order of the enumeration.
LEMMA FirstOfAll ==
  ASSUME NEW n \in Nat, NEW S \in SUBSET [1..n -> Nat], S # {}
  PROVE  \E c \in S : \A d \in S : d = c \/ Before(c, d)
  <1> DEFINE Agree(c, d, m) == \A r \in 1..m : c[r] = d[r]
             P == {m \in Nat : m <= n => \E c \in S : \A d \in S : Before(c, d) \/ Agree(c, d, m)}
  <1>1. 0 \in P
    OBVIOUS
  <1>2. ASSUME NEW m \in Nat, m \in P PROVE m + 1 \in P
    <2> SUFFICES ASSUME m + 1 <= n
                 PROVE  \E c \in S : \A d \in S : Before(c, d) \/ Agree(c, d, m + 1)
      OBVIOUS
    <2>1. PICK b \in S : \A d \in S : Before(b, d) \/ Agree(b, d, m)
      BY <1>2
    <2> DEFINE T == {d \in S : Agree(b, d, m)}
               V == {d[m + 1] : d \in T}
    <2>2. m + 1 \in 1..n
      OBVIOUS
    <2>3. V \in SUBSET Nat /\ V # {}
      BY <2>1, <2>2
    <2>4. PICK v \in V : \A u \in V : v <= u
      BY <2>3, SmallestExists
    <2>5. PICK c \in T : c[m + 1] = v
      BY <2>4
    <2>6. ASSUME NEW d \in S PROVE Before(c, d) \/ Agree(c, d, m + 1)
      <3>0. DOMAIN c = 1..n /\ DOMAIN b = 1..n /\ c \in S
        BY <2>1, <2>5
      <3>a. \A r \in 1..n : b[r] \in Nat /\ c[r] \in Nat /\ d[r] \in Nat
        BY <2>1, <2>5
      <3>b. Agree(b, c, m)
        BY <2>5
      <3>1. CASE d \in T
        <4>1. c[m + 1] <= d[m + 1]
          BY <2>4, <2>5, <3>1
        <4>2. \A r \in 1..m : c[r] = d[r]
          BY <3>b, <3>1
        <4>3. CASE c[m + 1] = d[m + 1]
          <5>1. ASSUME NEW r \in 1..(m + 1) PROVE c[r] = d[r]
            <6>1. r \in 1..m \/ r = m + 1
              OBVIOUS
            <6> QED BY <4>2, <4>3, <6>1
          <5> QED BY <5>1
        <4>4. CASE c[m + 1] # d[m + 1]
          <5>1. c[m + 1] < d[m + 1]
            BY <2>2, <3>a, <4>1, <4>4, SMTT(30)
          <5>2. \A r \in 1..n : r < m + 1 => c[r] = d[r]
            BY <4>2
          <5> QED BY <2>2, <3>0, <5>1, <5>2 DEF Before
        <4> QED BY <4>3, <4>4
      <3>2. CASE d \notin T
        <4>1. Before(b, d)
          BY <2>1, <3>2
        <4>2. PICK s \in 1..n : b[s] < d[s] /\ \A r \in 1..n : r < s => b[r] = d[r]
          BY <3>0, <4>1 DEF Before
        <4>3. s <= m
          <5>1. SUFFICES ASSUME ~(s <= m) PROVE FALSE
            OBVIOUS
          <5>2. \A r \in 1..m : r \in 1..n /\ r < s
            BY <5>1
          <5>3. Agree(b, d, m)
            BY <4>2, <5>2
          <5> QED BY <3>2, <5>3
        <4>4. \A r \in 1..n : r <= s => c[r] = b[r]
          <5>1. \A r \in 1..n : r <= s => r \in 1..m
            BY <4>3
          <5> QED BY <3>b, <5>1
        <4>5. c[s] < d[s]
          BY <4>2, <4>4
        <4>6. \A r \in 1..n : r < s => c[r] = d[r]
          BY <4>2, <4>4
        <4> QED BY <3>0, <4>5, <4>6 DEF Before
      <3> QED BY <3>1, <3>2
    <2> HIDE DEF Agree
    <2> QED BY <2>5, <2>6
  <1> HIDE DEF P
  <1>3. n \in P
    BY <1>1, <1>2, Induction
  <1>4. PICK c \in S : \A d \in S : Before(c, d) \/ Agree(c, d, n)
    BY <1>3 DEF P
  <1>5. ASSUME NEW d \in S, Agree(c, d, n) PROVE d = c
    BY <1>5
  <1> HIDE DEF Agree
  <1> QED BY <1>4, <1>5

(* incremental_partition answers with the best of what is within reach, and   *)
(* with the previous partition only when nothing is.                          *)
WindowBest(obj, w, K, prev, p) ==
  LET reach == Reach(w, K, prev.cuts)
  IN  IF reach = {} THEN p = prev
      ELSE /\ p.cuts \in reach
           /\ p.score = Score(obj, w, K, p.cuts)
           /\ \A c \in reach : p.score <= Score(obj, w, K, c)

LEMMA IncrementalIsBest ==
  ASSUME NEW obj, NEW w, NEW stages \in Nat, IsWorkload(w, stages), NEW K \in 1..stages,
         NEW prev, prev.cuts \in [1..(K - 1) -> Nat]
  PROVE  WindowBest(obj, w, K, prev, IncrementalPartition(obj, w, K, prev))
  <1> DEFINE L == NumLayers(w)
             cuts == prev.cuts
             reach == Reach(w, K, cuts)
             C == {d \in Candidates(w, K, cuts) : Buildable(w, K, d)}
             rebuilds == ValidCuts(w, cuts) /\ Buildable(w, K, cuts)
             score(c) == Score(obj, w, K, c)
             all == {Built(obj, w, K, c) : c \in C}
             better == {p \in all : rebuilds => p.score < Baseline(obj, w, K, prev)}
             First2(S) == CHOOSE p \in S : \A q \in S \ {p} :
                            p.score < q.score \/ (p.score = q.score /\ Before(p.cuts, q.cuts))
             answer == IncrementalPartition(obj, w, K, prev)
  <1>0. L \in Nat \ {0} /\ K \in Nat \ {0} /\ L = NumLayers(w)
    BY DEF IsWorkload
  <1>1. C = reach \ {cuts} /\ (rebuilds <=> cuts \in reach)
    BY <1>0, CandidatesAreReach
  <1>2. answer = IF better = {} THEN IF rebuilds THEN Built(obj, w, K, cuts) ELSE prev
                 ELSE First2(better)
    BY Zenon DEF IncrementalPartition
  <1>3. Baseline(obj, w, K, prev) = score(cuts)
    BY DEF Baseline
  <1>4. \A c \in reach : score(c) \in Nat
    BY ScoreType2 DEF Reach
  <1>5. \A c : Built(obj, w, K, c).cuts = c /\ Built(obj, w, K, c).score = score(c)
    BY DEF Built
  <1> HIDE DEF L, cuts, reach, C, rebuilds, score, answer, First2
  <1>6. \A p \in all : /\ p.cuts \in C /\ p.score = score(p.cuts) /\ p = Built(obj, w, K, p.cuts)
                       /\ p.score \in Nat
    BY <1>1, <1>4, <1>5
  <1>7. \A c \in C : Built(obj, w, K, c) \in all
    OBVIOUS
  <1> HIDE DEF all
  <1>8. ASSUME better = {} PROVE WindowBest(obj, w, K, prev, answer)
    <2>1. CASE rebuilds
      <3>1. answer = Built(obj, w, K, cuts) /\ cuts \in reach
        BY <1>1, <1>2, <1>8, <2>1
      <3>2. answer.cuts \in reach /\ answer.score = score(answer.cuts)
        BY <1>5, <3>1
      <3>3. ASSUME NEW c \in reach PROVE answer.score <= score(c)
        <4>1. score(c) \in Nat /\ score(cuts) \in Nat /\ answer.score = score(cuts)
          BY <1>4, <1>5, <3>1
        <4>2. CASE c = cuts
          BY <4>1, <4>2
        <4>3. CASE c # cuts
          <5>1. Built(obj, w, K, c) \in all
            BY <1>1, <1>7, <4>3
          <5>2. ~(Built(obj, w, K, c).score < score(cuts))
            BY <1>3, <1>8, <5>1
          <5> QED BY <1>5, <4>1, <5>2
        <4> QED BY <4>2, <4>3
      <3> QED BY <3>1, <3>2, <3>3 DEF WindowBest, reach, cuts, score
    <2>2. CASE ~rebuilds
      <3>1. answer = prev
        BY <1>2, <1>8, <2>2
      <3>2. reach = {}
        <4>1. SUFFICES ASSUME NEW c \in reach PROVE FALSE
          OBVIOUS
        <4>2. c \in C
          BY <1>1, <2>2
        <4>3. Built(obj, w, K, c) \in better
          BY <1>7, <2>2, <4>2
        <4> QED BY <1>8, <4>3
      <3> QED BY <3>1, <3>2 DEF WindowBest, reach, cuts
    <2> QED BY <2>1, <2>2
  <1>9. ASSUME better # {} PROVE WindowBest(obj, w, K, prev, answer)
    <2>1. PICK some \in better : TRUE
      BY <1>9
    <2> DEFINE A == {p.score : p \in better}
    <2>2. A \in SUBSET Nat /\ A # {}
      BY <1>6, <2>1
    <2>3. PICK least \in A : \A n \in A : least <= n
      BY <2>2, SmallestExists
    <2> DEFINE S == {p.cuts : p \in {q \in better : q.score = least}}
    <2>4. S # {}
      BY <2>3
    <2>5. S \in SUBSET [1..(K - 1) -> Nat]
      <3>1. ASSUME NEW c \in C PROVE c \in [1..(K - 1) -> Nat]
        <4>1. c \in [1..(K - 1) -> 1..(L - 1)]
          BY <1>0, <1>1 DEF reach, Reach, Feasible
        <4> QED BY <4>1
      <3> QED BY <1>6, <3>1
    <2>6. PICK first \in S : \A d \in S : d = first \/ Before(first, d)
      <3>1. K - 1 \in Nat
        BY <1>0
      <3> HIDE DEF S
      <3> QED BY <2>4, <2>5, <3>1, FirstOfAll
    <2>7. PICK p \in better : p.cuts = first /\ p.score = least
      BY <2>6
    <2>8. ASSUME NEW q \in better \ {p}
          PROVE  p.score < q.score \/ (p.score = q.score /\ Before(p.cuts, q.cuts))
      <3>1. p.score <= q.score /\ p.score \in Nat /\ q.score \in Nat
        BY <1>6, <2>3, <2>7
      <3>2. CASE q.score = p.score
        <4>1. q.cuts \in S
          BY <2>7, <3>2
        <4>2. q.cuts # p.cuts
          BY <1>6
        <4> HIDE DEF S, better
        <4> QED BY <2>6, <2>7, <3>2, <4>1, <4>2
      <3>3. CASE q.score # p.score
        BY <3>1, <3>3
      <3> QED BY <3>2, <3>3
    <2> HIDE DEF better
    <2>9. answer \in better
          /\ \A q \in better \ {answer} :
               answer.score < q.score \/ (answer.score = q.score /\ Before(answer.cuts, q.cuts))
      <3>1. answer = First2(better)
        BY <1>2, <1>9
      <3> QED BY <2>8, <3>1, Zenon DEF First2
    <2>10. answer \in all /\ (rebuilds => answer.score < score(cuts))
      BY <1>3, <2>9 DEF better
    <2>11. answer.cuts \in reach /\ answer.score = score(answer.cuts) /\ answer.score \in Nat
      BY <1>1, <1>6, <2>10
    <2>12. ASSUME NEW c \in reach PROVE answer.score <= score(c)
      <3>1. score(c) \in Nat
        BY <1>4
      <3>2. CASE c = cuts
        BY <1>1, <2>10, <2>11, <3>1, <3>2
      <3>3. CASE c # cuts
        <4> DEFINE q == Built(obj, w, K, c)
        <4>1. q \in all /\ q.score = score(c)
          BY <1>1, <1>5, <1>7, <3>3
        <4> HIDE DEF q
        <4>2. CASE q \in better
          <5>1. q = answer \/ answer.score < q.score \/ answer.score = q.score
            BY <2>9, <4>2
          <5> QED BY <2>11, <3>1, <4>1, <5>1
        <4>3. CASE q \notin better
          <5>1. rebuilds /\ ~(q.score < score(cuts))
            BY <1>3, <4>1, <4>3 DEF better
          <5>2. score(cuts) \in Nat
            BY <1>1, <1>4, <5>1
          <5> QED BY <2>10, <2>11, <3>1, <4>1, <5>1, <5>2
        <4> QED BY <4>2, <4>3
      <3> QED BY <3>2, <3>3
    <2>13. reach # {}
      BY <2>11
    <2> QED BY <2>11, <2>12, <2>13 DEF WindowBest, reach, cuts, score
  <1> QED BY <1>8, <1>9 DEF answer

-----------------------------------------------------------------------------
(* The control loop's cache.                                               *)

\* A cached pipeline of K stages.
IsCached(p, K) ==
  /\ K \in 2..MaxWidth
  /\ p.cuts \in [1..(K - 1) -> Nat]
  /\ p.score \in Nat

Inv ==
  /\ objective \in Objectives
  /\ shown \in DOMAIN Workloads
  /\ best \in Nat \union {Infinite}
  /\ stagnant \in 0..Patience
  /\ cached = Nothing \/ \E K \in 2..MaxWidth : IsCached(cached, K)

LEMMA Constants ==
  /\ MaxWidth \in Nat \ {0} /\ Patience \in Nat \ {0} /\ MinDelta \in Nat
  /\ \A k \in DOMAIN Workloads : IsWorkload(Workloads[k], MaxWidth)
  BY RepartitioningAssumption

\* How deep the cached pipeline is.
LEMMA CachedDepth ==
  ASSUME NEW p, NEW K, IsCached(p, K)
  PROVE  /\ p # Nothing
         /\ Cardinality(DOMAIN p.cuts) + 1 = K
  <1>1. K \in 2..MaxWidth /\ MaxWidth \in Nat /\ DOMAIN p.cuts = 1..(K - 1)
    BY Constants DEF IsCached
  <1>2. Cardinality(1..(K - 1)) = K - 1
    BY <1>1, FS_Interval
  <1>3. p # Nothing
    <2>1. 1 \in DOMAIN p.cuts
      BY <1>1
    <2>2. DOMAIN Nothing.cuts = {}
      BY DEF Nothing
    <2> QED BY <2>1, <2>2
  <1> QED BY <1>1, <1>2, <1>3

LEMMA DepthIs ==
  ASSUME Inv, NEW K \in 1..MaxWidth, Depth = K
  PROVE  IsCached(cached, K)
  <1>1. cached # Nothing
    BY DEF Depth
  <1>2. PICK k \in 2..MaxWidth : IsCached(cached, k)
    BY <1>1 DEF Inv
  <1>3. k = K
    BY <1>1, <1>2, CachedDepth DEF Depth
  <1> QED BY <1>2, <1>3

\* A plan made from nothing is optimal.
LEMMA PlansFit ==
  ASSUME Inv, NEW target \in 2..MaxWidth, NEW p \in Plan(target)
  PROVE  IsCached(p, target) /\ Optimal(objective, workload, target, p.cuts)
  <1> DEFINE cuts == PartitionPipeline(objective, workload, target)
  <1>0. IsWorkload(workload, MaxWidth) /\ MaxWidth \in Nat /\ target \in 1..MaxWidth
    BY Constants DEF Inv, workload
  <1>1. p = Built(objective, workload, target, cuts) /\ Solvable(objective, workload, target)
    BY DEF Plan
  <1> HIDE DEF cuts
  <1>2. p.cuts = cuts /\ p.score = Score(objective, workload, target, cuts)
    BY <1>1 DEF Built
  <1>3. Optimal(objective, workload, target, cuts)
    BY <1>0, <1>1, PipelineIsOptimal DEF cuts
  <1>4. cuts \in Feasible(workload, target)
    BY <1>3 DEF Optimal
  <1>5. p.score \in Nat
    BY <1>0, <1>2, <1>4, ScoreType2
  <1>6. cuts \in [1..(target - 1) -> Nat]
    <2>1. cuts \in [1..(target - 1) -> 1..(NumLayers(workload) - 1)]
      BY <1>4 DEF Feasible
    <2> QED BY <2>1
  <1> QED BY <1>2, <1>3, <1>5, <1>6 DEF IsCached

LEMMA NoPlan2 ==
  ASSUME Inv, NEW target \in 1..MaxWidth, Plan(target) = {}
  PROVE  Feasible(workload, target) = {}
  <1>1. IsWorkload(workload, MaxWidth) /\ MaxWidth \in Nat
    BY Constants DEF Inv, workload
  <1>2. ~Solvable(objective, workload, target)
    BY DEF Plan
  <1> QED BY <1>1, <1>2, PipelineIsOptimal

\* A slid partition is as deep as the one before.
LEMMA SlidFits ==
  ASSUME Inv, NEW target \in 2..MaxWidth, Depth = target
  PROVE  LET p == IncrementalPartition(objective, workload, target, cached)
         IN  IsCached(p, target) /\ WindowBest(objective, workload, target, cached, p)
  <1> DEFINE p == IncrementalPartition(objective, workload, target, cached)
  <1>0. IsWorkload(workload, MaxWidth) /\ MaxWidth \in Nat /\ target \in 1..MaxWidth
    BY Constants DEF Inv, workload
  <1>1. IsCached(cached, target)
    BY <1>0, DepthIs
  <1>2. WindowBest(objective, workload, target, cached, p)
    BY <1>0, <1>1, IncrementalIsBest DEF IsCached
  <1> HIDE DEF p
  <1>3. IsCached(p, target)
    <2> DEFINE reach == Reach(workload, target, cached.cuts)
    <2>1. CASE reach = {}
      <3>1. p = cached
        BY <1>2, <2>1 DEF WindowBest
      <3> QED BY <1>1, <3>1
    <2>2. CASE reach # {}
      <3>1. p.cuts \in Feasible(workload, target)
            /\ p.score = Score(objective, workload, target, p.cuts)
        BY <1>2, <2>2 DEF WindowBest, Reach
      <3>2. p.score \in Nat
        BY <1>0, <3>1, ScoreType2
      <3>3. p.cuts \in [1..(target - 1) -> Nat]
        <4>1. p.cuts \in [1..(target - 1) -> 1..(NumLayers(workload) - 1)]
          BY <3>1 DEF Feasible
        <4> QED BY <4>1
      <3> QED BY <3>2, <3>3 DEF IsCached
    <2> QED BY <2>1, <2>2
  <1> QED BY <1>2, <1>3 DEF p

\* What each kind of tick does to the cache.
LEMMA DepthNext ==
  ASSUME NEW K, IsCached(cached', K)
  PROVE  Depth' = K /\ (cached = Nothing \/ \E k \in 2..MaxWidth : IsCached(cached, k))'
  <1>1. cached' # Nothing /\ Cardinality(DOMAIN cached'.cuts) + 1 = K
    BY CachedDepth
  <1>2. K \in 2..MaxWidth
    BY DEF IsCached
  <1>3. \E k \in 2..MaxWidth : IsCached(cached', k)
    BY <1>2
  <1>4. Depth' = IF cached' = Nothing THEN 0 ELSE Cardinality(DOMAIN cached'.cuts) + 1
    BY DEF Depth
  <1>5. (cached = Nothing \/ \E k \in 2..MaxWidth : IsCached(cached, k))'
    BY <1>3 DEF IsCached
  <1> QED BY <1>1, <1>4, <1>5

LEMMA Replans ==
  ASSUME Inv, NEW target \in 2..MaxWidth, cached' \in Plan(target),
         UNCHANGED <<objective, shown>>
  PROVE  /\ IsCached(cached', target)
         /\ Optimal(objective, workload, Depth, cached.cuts)'
  <1> DEFINE p == cached'
  <1>1. IsCached(p, target) /\ Optimal(objective, workload, target, p.cuts)
    BY PlansFit
  <1>2. Depth' = target
    BY <1>1, DepthNext
  <1>3. workload' = workload /\ objective' = objective
    BY DEF workload
  <1>4. Optimal(objective, workload, Depth, cached.cuts)'
    <2>1. Optimal(objective', workload', Depth', cached'.cuts)
      BY <1>1, <1>2, <1>3
    <2> QED BY <2>1
  <1> QED BY <1>1, <1>4

\* The tracker's counters stay in their range.
LEMMA Observed ==
  ASSUME Inv, NEW score \in Nat
  PROVE  /\ Calls(score) \in 0..Patience
         /\ (IF Improves(score) THEN score ELSE best) \in Nat \union {Infinite}
         /\ Calls(score) = Patience => ~Improves(score) /\ best # Infinite
  BY Constants DEF Inv, Calls, Improves, Smaller

LEMMA StepInv ==
  ASSUME Inv, [Next]_vars
  PROVE  Inv'
  <1> USE DEF Inv
  <1>1. CASE UNCHANGED vars
    BY <1>1 DEF vars, IsCached
  <1>2. CASE Drift
    BY <1>2 DEF Drift, IsCached
  <1>3. ASSUME NEW target \in 1..MaxWidth,
               Keep(target) \/ TooDeep(target) \/ FullDPFails(target)
        PROVE  Inv'
    BY <1>3 DEF Keep, TooDeep, FullDPFails, IsCached
  <1>4. ASSUME NEW target \in 1..MaxWidth, FullDP(target) PROVE Inv'
    <2>1. target \in 2..MaxWidth
      BY <1>4, Constants DEF FullDP, FromNothing, Changes
    <2>2. cached' \in Plan(target) /\ UNCHANGED <<objective, shown>>
      BY <1>4 DEF FullDP
    <2>3. (cached = Nothing \/ \E K \in 2..MaxWidth : IsCached(cached, K))'
      BY <2>1, <2>2, Replans, DepthNext
    <2>4. best' = Infinite /\ stagnant' = 0 /\ 0 \in 0..Patience
      BY <1>4, Constants DEF FullDP, ResetAll
    <2> QED BY <2>2, <2>3, <2>4
  <1>5. ASSUME NEW target \in 1..MaxWidth, Incremental(target) PROVE Inv'
    <2> DEFINE p == IncrementalPartition(objective, workload, target, cached)
    <2>1. target \in 2..MaxWidth /\ Depth = target
      BY <1>5, Constants DEF Incremental, Changes
    <2>2. IsCached(p, target)
      BY <2>1, SlidFits
    <2>3. Slide(target, p) \/ Escape(target, p) \/ EscapeFails(target, p) \/ EscapeTooDeep(target, p)
      BY <1>5 DEF Incremental
    <2> HIDE DEF p
    <2>4. p.score \in Nat
      BY <2>2 DEF IsCached
    <2>5. Calls(p.score) \in 0..Patience
          /\ (IF Improves(p.score) THEN p.score ELSE best) \in Nat \union {Infinite}
      BY <2>4, Observed
    <2>6. CASE Slide(target, p)
      <3>1. cached' = p /\ Observe(p.score) /\ UNCHANGED <<objective, shown>>
        BY <2>6 DEF Slide
      <3>2. (cached = Nothing \/ \E K \in 2..MaxWidth : IsCached(cached, K))'
        BY <2>2, <3>1, DepthNext
      <3> QED BY <2>5, <3>1, <3>2 DEF Observe
    <2>7. CASE Escape(target, p)
      <3>1. cached' \in Plan(target) /\ Reset /\ UNCHANGED <<objective, shown>>
        BY <2>7 DEF Escape
      <3>2. (cached = Nothing \/ \E K \in 2..MaxWidth : IsCached(cached, K))'
        BY <2>1, <3>1, Replans, DepthNext
      <3>3. 0 \in 0..Patience
        BY Constants
      <3> QED BY <3>1, <3>2, <3>3 DEF Reset
    <2>8. CASE EscapeFails(target, p) \/ EscapeTooDeep(target, p)
      <3>1. Observe(p.score) /\ UNCHANGED <<objective, shown, cached>>
        BY <2>8 DEF EscapeFails, EscapeTooDeep
      <3> QED BY <2>5, <3>1 DEF Observe, IsCached
    <2> QED BY <2>3, <2>6, <2>7, <2>8
  <1> QED BY <1>1, <1>2, <1>3, <1>4, <1>5 DEF Next, Tick

\* Each tick that plans from nothing ends with an optimal partition or with the
\* news that there is none.
LEMMA StepFullIsOptimal ==
  ASSUME Inv, FullIsOptimal, [Next]_vars
  PROVE  FullIsOptimal'
  <1>1. CASE UNCHANGED vars
    <2>1. workload' = workload /\ Depth' = Depth /\ objective' = objective /\ cached' = cached
          /\ how' = how /\ gpus' = gpus
      BY <1>1 DEF vars, workload, Depth
    <2> QED BY <2>1 DEF FullIsOptimal
  <1>2. ASSUME how' \in {"idle", "window"} PROVE FullIsOptimal'
    BY <1>2 DEF FullIsOptimal
  <1>3. CASE Drift
    BY <1>2, <1>3 DEF Drift
  <1>4. ASSUME NEW target \in 2..MaxWidth, cached' \in Plan(target),
               UNCHANGED <<objective, shown>>, how' \in {"full", "escape"}
        PROVE  FullIsOptimal'
    <2>1. Optimal(objective, workload, Depth, cached.cuts)'
      BY <1>4, Replans
    <2>2. how' # "failed"
      BY <1>4
    <2> QED BY <2>1, <2>2 DEF FullIsOptimal
  <1>5. ASSUME NEW target \in 1..MaxWidth, Plan(target) = {}, gpus' = target,
               UNCHANGED shown, how' = "failed"
        PROVE  FullIsOptimal'
    <2>1. Feasible(workload, target) = {}
      BY <1>5, NoPlan2
    <2>2. workload' = workload
      BY <1>5 DEF workload
    <2>3. Feasible(workload', gpus') = {}
      BY <1>5, <2>1, <2>2
    <2> QED BY <1>5, <2>3 DEF FullIsOptimal
  <1>6. ASSUME NEW target \in 1..MaxWidth, Keep(target) \/ TooDeep(target) PROVE FullIsOptimal'
    BY <1>2, <1>6 DEF Keep, TooDeep
  <1>7. ASSUME NEW target \in 1..MaxWidth, FullDP(target) PROVE FullIsOptimal'
    <2>1. target \in 2..MaxWidth
      BY <1>7, Constants DEF FullDP, FromNothing, Changes
    <2> QED BY <1>4, <1>7, <2>1 DEF FullDP
  <1>8. ASSUME NEW target \in 1..MaxWidth, FullDPFails(target) PROVE FullIsOptimal'
    BY <1>5, <1>8 DEF FullDPFails
  <1>9. ASSUME NEW target \in 1..MaxWidth, Incremental(target) PROVE FullIsOptimal'
    <2>1. target \in 2..MaxWidth
      BY <1>9, Constants DEF Incremental, Changes
    <2>2. PICK p : \/ Slide(target, p) \/ Escape(target, p)
                   \/ EscapeFails(target, p) \/ EscapeTooDeep(target, p)
      BY <1>9 DEF Incremental
    <2>3. CASE Slide(target, p) \/ EscapeTooDeep(target, p)
      BY <1>2, <2>3 DEF Slide, EscapeTooDeep
    <2>4. CASE Escape(target, p)
      BY <1>4, <2>1, <2>4 DEF Escape
    <2>5. CASE EscapeFails(target, p)
      BY <1>5, <2>5 DEF EscapeFails
    <2> QED BY <2>2, <2>3, <2>4, <2>5
  <1> QED BY <1>1, <1>3, <1>6, <1>7, <1>8, <1>9 DEF Next, Tick

\* Each tick that slides the cuts takes the best within the window.
LEMMA StepWindowIsOptimal ==
  ASSUME Inv, [Next]_vars, how' = "window", ~UNCHANGED vars
  PROVE  WindowBest(objective, workload, Depth, cached, cached')
  <1>1. PICK target \in 1..MaxWidth : Incremental(target)
    BY DEF Next, Tick, Drift, Keep, TooDeep, FullDP, FullDPFails
  <1> DEFINE p == IncrementalPartition(objective, workload, target, cached)
  <1>2. target \in 2..MaxWidth /\ Depth = target
    BY <1>1, Constants DEF Incremental, Changes
  <1>3. WindowBest(objective, workload, target, cached, p)
    BY <1>2, SlidFits
  <1>4. Slide(target, p) \/ Escape(target, p) \/ EscapeFails(target, p) \/ EscapeTooDeep(target, p)
    BY <1>1 DEF Incremental
  <1> HIDE DEF p
  <1>5. cached' = p
    BY <1>4 DEF Slide, Escape, EscapeFails, EscapeTooDeep
  <1> QED BY <1>2, <1>3, <1>5

LEMMA InitInv == Init => Inv /\ FullIsOptimal
  <1> SUFFICES ASSUME Init PROVE Inv /\ FullIsOptimal
    OBVIOUS
  <1>1. Inv
    BY Constants DEF Init, Inv
  <1>2. FullIsOptimal
    BY DEF Init, FullIsOptimal
  <1> QED BY <1>1, <1>2

(* What is cached always has a cut between any two of its stages and a finite *)
(* score (partitioner.py:393-442), whichever branch put it there, and the     *)
(* tracker's count never passes its patience (:512-519).                      *)
THEOREM InvHolds == Spec => []Inv
  <1>1. Inv /\ [Next]_vars => Inv'
    BY StepInv
  <1> QED BY <1>1, InitInv, PTL DEF Spec

(* Whenever the loop planned from nothing, because the depth changed or the   *)
(* window stagnated, the cached partition is feasible and no feasible one of  *)
(* its depth scores less; whenever planning failed, there was none            *)
(* (partitioner.py:244-307), for any number of layers and stages, any profile *)
(* of the layers, any memory and power caps, and both objectives.             *)
THEOREM FullPlansAreOptimal == Spec => []FullIsOptimal
  <1>1. Inv /\ FullIsOptimal /\ [Next]_vars => FullIsOptimal'
    BY StepFullIsOptimal
  <1> QED BY <1>1, InitInv, InvHolds, PTL DEF Spec

(* Whenever the loop slid the cuts, it took the best partition within the     *)
(* window on the present workload, whatever had drifted (partitioner.py:      *)
(* 353-386), and kept the previous one only when none within reach fits.      *)
THEOREM SlidPlansAreOptimal == Spec => WindowIsOptimal
  <1>1. Inv /\ [Next]_vars =>
          [how' = "window" =>
             LET reach == Reach(workload, Depth, cached.cuts)
             IN  IF reach = {} THEN cached' = cached
                 ELSE /\ cached'.cuts \in reach
                      /\ cached'.score = Score(objective, workload, Depth, cached'.cuts)
                      /\ \A c \in reach : cached'.score <= Score(objective, workload, Depth, c)]_vars
    BY StepWindowIsOptimal DEF WindowBest
  <1> QED BY <1>1, InvHolds, PTL DEF Spec, WindowIsOptimal

-----------------------------------------------------------------------------
(* The refinement of PartitionCache.                                       *)

\* The abstract count of calls without progress.
Count == IF best = Infinite THEN -1 ELSE stagnant

LEMMA StepMovesCache ==
  ASSUME Inv, [Next]_vars
  PROVE  [Cache!Next]_<<Depth, Count>>
  <1> SUFFICES ASSUME ~UNCHANGED <<Depth, Count>> PROVE Cache!Next
    OBVIOUS
  <1>a. ~UNCHANGED <<cached, best, stagnant>>
    BY DEF Depth, Count
  <1>1. PICK target \in 1..MaxWidth : FullDP(target) \/ Incremental(target)
    BY <1>a DEF Next, Tick, Drift, Keep, TooDeep, FullDPFails, vars
  <1>2. CASE FullDP(target)
    <2>1. target \in 2..MaxWidth /\ Depth # target
      BY <1>2, Constants DEF FullDP, FromNothing, Changes
    <2>2. cached' \in Plan(target) /\ UNCHANGED <<objective, shown>>
      BY <1>2 DEF FullDP
    <2>3. IsCached(cached', target)
      BY <2>1, <2>2, Replans
    <2>4. Depth' = target
      BY <2>3, DepthNext
    <2>5. Count' = -1
      BY <1>2 DEF FullDP, ResetAll, Count
    <2>6. Cache!Rebuild(target)
      BY <2>1, <2>4, <2>5 DEF Cache!Rebuild, Cache!NoScore, Count
    <2> QED BY <2>1, <2>6 DEF Cache!Next
  <1>3. CASE Incremental(target)
    <2> DEFINE p == IncrementalPartition(objective, workload, target, cached)
    <2>1. target \in 2..MaxWidth /\ Depth = target
      BY <1>3, Constants DEF Incremental, Changes
    <2>2. IsCached(p, target)
      BY <2>1, SlidFits
    <2>3. Slide(target, p) \/ Escape(target, p) \/ EscapeFails(target, p) \/ EscapeTooDeep(target, p)
      BY <1>3 DEF Incremental
    <2> HIDE DEF p
    <2>4. p.score \in Nat /\ Depth # 0
      BY <2>1, <2>2 DEF IsCached
    <2>5. Calls(p.score) = Patience => ~Improves(p.score) /\ best # Infinite
      BY <2>4, Observed
    <2>6. stagnant \in 0..Patience /\ Patience \in Nat \ {0} /\ best \in Nat \union {Infinite}
      BY Constants DEF Inv
    <2>7. CASE Slide(target, p)
      <3>1. cached' = p /\ Observe(p.score) /\ Calls(p.score) < Patience
        BY <2>7 DEF Slide
      <3>2. Depth' = Depth
        BY <2>1, <2>2, <3>1, DepthNext
      <3>3. CASE Improves(p.score)
        <4>1. best' = p.score /\ stagnant' = 0
          BY <3>1, <3>3 DEF Observe, Calls
        <4>2. Count' = 0
          BY <2>4, <4>1 DEF Count, Infinite
        <4> QED BY <2>4, <3>2, <4>2 DEF Cache!Next, Cache!Progress, Count
      <3>4. CASE ~Improves(p.score)
        <4>1. best' = best /\ stagnant' = Smaller(Patience, stagnant + 1) /\ best # Infinite
          BY <3>1, <3>4 DEF Observe, Calls, Improves
        <4>2. Smaller(Patience, stagnant + 1) < Patience
          BY <3>1, <3>4 DEF Calls
        <4>3. stagnant + 1 < Patience /\ stagnant' = stagnant + 1
          BY <2>6, <4>1, <4>2 DEF Smaller
        <4>4. Count = stagnant /\ Count' = Count + 1 /\ Count # -1
          BY <2>6, <4>1, <4>3 DEF Count
        <4> QED BY <3>2, <4>3, <4>4 DEF Cache!Next, Cache!NoProgress, Cache!NoScore, Count
      <3> QED BY <3>3, <3>4
    <2>8. ASSUME Calls(p.score) = Patience, Depth' = Depth,
                 best' = best, stagnant' \in {0, Patience}
          PROVE  Cache!Next
      <3>1. ~Improves(p.score) /\ best # Infinite
        BY <2>5, <2>8
      <3>2. Smaller(Patience, stagnant + 1) = Patience
        BY <2>8, <3>1 DEF Calls
      <3>3. stagnant + 1 >= Patience
        BY <2>6, <3>2 DEF Smaller
      <3>4. Count = stagnant /\ Count # -1 /\ Count' \in {0, Patience}
        BY <2>6, <2>8, <3>1 DEF Count
      <3> QED BY <2>8, <3>3, <3>4 DEF Cache!Next, Cache!Replan, Cache!NoScore, Count
    <2>9. CASE Escape(target, p)
      <3>1. cached' \in Plan(target) /\ Reset /\ UNCHANGED <<objective, shown>>
            /\ Calls(p.score) = Patience
        BY <2>9 DEF Escape
      <3>2. IsCached(cached', target)
        BY <2>1, <3>1, Replans
      <3>3. Depth' = Depth
        BY <2>1, <3>2, DepthNext
      <3> QED BY <2>8, <3>1, <3>3 DEF Reset
    <2>10. CASE EscapeFails(target, p) \/ EscapeTooDeep(target, p)
      <3>1. Observe(p.score) /\ UNCHANGED cached /\ Calls(p.score) = Patience
        BY <2>10 DEF EscapeFails, EscapeTooDeep
      <3>2. Depth' = Depth
        BY <3>1 DEF Depth
      <3>3. best' = best /\ stagnant' = Patience
        BY <2>5, <3>1 DEF Observe
      <3> QED BY <2>8, <3>1, <3>2, <3>3
    <2> QED BY <2>3, <2>7, <2>9, <2>10
  <1> QED BY <1>1, <1>2, <1>3

(* With the partitions that the partitioner really computes, the cache and    *)
(* the tracker behave as PartitionCache promises: another depth is planned    *)
(* from nothing and forgets the history, and only Patience calls in a row     *)
(* without progress lead to a new plan (energy_aware_control_loop.py:         *)
(* 205-242).                                                                  *)
THEOREM CacheKeepsPromise == Spec => ImplementsCache
  <1>1. Init => Cache!Init
    BY DEF Init, Cache!Init, Cache!NoScore, Depth
  <1>2. Inv /\ [Next]_vars => [Cache!Next]_<<Depth, IF best = Infinite THEN -1 ELSE stagnant>>
    BY StepMovesCache DEF Count
  <1> QED BY <1>1, <1>2, InvHolds, PTL DEF Spec, ImplementsCache, Cache!Spec
=============================================================================
