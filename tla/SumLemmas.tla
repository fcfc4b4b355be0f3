----------------------------- MODULE SumLemmas -----------------------------
(* Facts about SumFunctionOnSet, the sum of a function's values over a       *)
(* finite set, about products and quotients, and about what is stepped round *)
(* by round, that the proofs about schedulers and ledgers keep needing.      *)
(* Induction is stated over sets: P is the set of what has the property.     *)
EXTENDS Functions, FiniteSetTheorems, TLAPS

-----------------------------------------------------------------------------
(* Induction.                                                              *)

(* A nonempty set of natural numbers has a smallest element.                  *)
LEMMA SmallestExists ==
  ASSUME NEW S \in SUBSET Nat, S # {}
  PROVE  \E m \in S : \A n \in S : m <= n
  <1> DEFINE Less == OpToRel(<, Nat)
  <1>0. \A m, n \in Nat : <<m, n>> \in Less <=> m < n
    BY DEF OpToRel
  <1>a. IsWellFoundedOn(Less, Nat)
    BY NatLessThanWellFounded
  <1> HIDE DEF Less
  <1>1. PICK m \in S : \A n \in S : ~(<<n, m>> \in Less)
    BY <1>a, WFMin
  <1>2. \A n \in S : ~(n < m)
    BY <1>0, <1>1
  <1>3. \A n \in S : m <= n
    BY <1>2
  <1> QED BY <1>3

(* Induction over the natural numbers.                                        *)
LEMMA Induction ==
  ASSUME NEW P, 0 \in P, \A n \in Nat : n \in P => n + 1 \in P
  PROVE  \A n \in Nat : n \in P
  <1> SUFFICES ASSUME Nat \ P # {} PROVE FALSE
    OBVIOUS
  <1>1. PICK m \in Nat \ P : \A n \in Nat \ P : m <= n
    BY SmallestExists
  <1>2. m # 0 /\ m - 1 \in Nat /\ m - 1 < m
    BY <1>1
  <1>3. m - 1 \in P
    BY <1>1, <1>2
  <1>4. (m - 1) + 1 \in P
    BY <1>2, <1>3
  <1> QED BY <1>1, <1>4

\* Of several candidates one is the best, the first of equals.
LEMMA LeastOfEquals ==
  ASSUME NEW S, S # {}, NEW a \in [S -> Nat], NEW b \in [S -> Nat]
  PROVE  \E e \in S : \A f \in S : a[e] < a[f] \/ (a[e] = a[f] /\ b[e] <= b[f])
  <1> DEFINE A == {a[e] : e \in S}
  <1>1. A \in SUBSET Nat /\ A # {}
    OBVIOUS
  <1>2. PICK least \in A : \A n \in A : least <= n
    BY <1>1, SmallestExists
  <1> DEFINE B == {b[e] : e \in {e \in S : a[e] = least}}
  <1>3. B \in SUBSET Nat /\ B # {}
    BY <1>2
  <1>4. PICK first \in B : \A n \in B : first <= n
    BY <1>3, SmallestExists
  <1>5. PICK e \in S : a[e] = least /\ b[e] = first
    BY <1>4
  <1>6. ASSUME NEW f \in S PROVE a[e] < a[f] \/ (a[e] = a[f] /\ b[e] <= b[f])
    <2>1. a[e] <= a[f] /\ a[e] \in Nat /\ a[f] \in Nat
      BY <1>2, <1>5
    <2>2. a[f] = a[e] => b[e] <= b[f]
      BY <1>4, <1>5
    <2> QED BY <2>1, <2>2
  <1> QED BY <1>6

(* Induction over the subsets of a finite set: a smaller set has it all.      *)
LEMMA SubsetInduction ==
  ASSUME NEW S, IsFiniteSet(S), NEW P,
         \A T \in SUBSET S :
           (\A U \in SUBSET S : Cardinality(U) < Cardinality(T) => U \in P) => T \in P
  PROVE  \A T \in SUBSET S : T \in P
  <1> DEFINE Q == {n \in Nat : \A U \in SUBSET S : Cardinality(U) < n => U \in P}
  <1>1. \A T \in SUBSET S : IsFiniteSet(T) /\ Cardinality(T) \in Nat
    BY FS_Subset, FS_CardinalityType
  <1>2. 0 \in Q
    BY <1>1
  <1>3. ASSUME NEW n \in Nat, n \in Q PROVE n + 1 \in Q
    <2> SUFFICES ASSUME NEW T \in SUBSET S, Cardinality(T) < n + 1 PROVE T \in P
      OBVIOUS
    <2>1. \A U \in SUBSET S : Cardinality(U) < Cardinality(T) => Cardinality(U) < n
      BY <1>1
    <2>2. \A U \in SUBSET S : Cardinality(U) < Cardinality(T) => U \in P
      BY <1>3, <2>1
    <2> QED BY <2>2
  <1> HIDE DEF Q
  <1>4. \A n \in Nat : n \in Q
    BY <1>2, <1>3, Induction
  <1> SUFFICES ASSUME NEW T \in SUBSET S PROVE T \in P
    OBVIOUS
  <1>5. Cardinality(T) + 1 \in Q /\ Cardinality(T) < Cardinality(T) + 1
    BY <1>1, <1>4
  <1> QED BY <1>5 DEF Q

(* A set without one of its elements is smaller.                              *)
LEMMA RemovalShrinks ==
  ASSUME NEW S, IsFiniteSet(S), NEW x \in S
  PROVE  /\ IsFiniteSet(S \ {x}) /\ S \ {x} \in SUBSET S
         /\ Cardinality(S \ {x}) < Cardinality(S)
         /\ Cardinality(S \ {x}) = Cardinality(S) - 1
         /\ Cardinality(S) \in Nat /\ Cardinality(S \ {x}) \in Nat
  <1>1. IsFiniteSet(S \ {x}) /\ Cardinality(S \ {x}) = Cardinality(S) - 1
    BY FS_RemoveElement
  <1>2. Cardinality(S) \in Nat /\ Cardinality(S \ {x}) \in Nat
    BY <1>1, FS_CardinalityType
  <1> QED BY <1>1, <1>2

-----------------------------------------------------------------------------
(* The recursion behind the sum.                                           *)

Chosen(s) == CHOOSE x \in s : TRUE

Summand(f, g, s) == IF s = {} THEN 0 ELSE f[Chosen(s)] + g[s \ {Chosen(s)}]

Sums(f, S, g) == g = [s \in SUBSET S |-> Summand(f, g, s)]

LEMMA SumsExist ==
  ASSUME NEW f, NEW S, IsFiniteSet(S)
  PROVE  \E g : Sums(f, S, g)
  <1> DEFINE Upto(k, g) == \A s \in SUBSET S : Cardinality(s) <= k => g[s] = Summand(f, g, s)
             P == {k \in Nat : \E g : Upto(k, g)}
  <1>0. \A s \in SUBSET S : IsFiniteSet(s) /\ Cardinality(s) \in Nat
    BY FS_Subset, FS_CardinalityType
  <1>a. \A s \in SUBSET S : s # {} =>
          /\ s \ {Chosen(s)} \in SUBSET S
          /\ Cardinality(s \ {Chosen(s)}) = Cardinality(s) - 1
    BY <1>0, RemovalShrinks DEF Chosen
  <1>1. 0 \in P
    <2> DEFINE g == [s \in SUBSET S |-> 0]
    <2>1. \A s \in SUBSET S : Cardinality(s) <= 0 => s = {}
      BY <1>0, FS_EmptySet
    <2>2. Upto(0, g)
      BY <2>1 DEF Summand
    <2> QED BY <2>2
  <1>2. ASSUME NEW k \in Nat, k \in P PROVE k + 1 \in P
    <2>1. PICK g : Upto(k, g)
      BY <1>2
    <2> DEFINE h == [s \in SUBSET S |-> IF Cardinality(s) <= k THEN g[s] ELSE Summand(f, g, s)]
    <2>2. ASSUME NEW s \in SUBSET S, Cardinality(s) <= k + 1 PROVE h[s] = Summand(f, h, s)
      <3>1. h[s] = Summand(f, g, s)
        BY <2>1
      <3>2. CASE s = {}
        BY <3>1, <3>2 DEF Summand
      <3>3. CASE s # {}
        <4>1. h[s \ {Chosen(s)}] = g[s \ {Chosen(s)}]
          BY <1>0, <1>a, <2>2, <3>3
        <4> HIDE DEF h
        <4> QED BY <3>1, <3>3, <4>1 DEF Summand
      <3> QED BY <3>2, <3>3
    <2> HIDE DEF h
    <2>3. Upto(k + 1, h)
      BY <2>2
    <2> QED BY <2>3
  <1> HIDE DEF P
  <1>3. Cardinality(S) \in P
    BY <1>0, <1>1, <1>2, Induction
  <1>4. PICK g : Upto(Cardinality(S), g)
    BY <1>3 DEF P
  <1>5. \A s \in SUBSET S : Cardinality(s) <= Cardinality(S)
    BY FS_Subset
  <1> DEFINE h == [s \in SUBSET S |-> g[s]]
  <1>6. ASSUME NEW s \in SUBSET S PROVE Summand(f, g, s) = Summand(f, h, s)
    <2>1. s # {} => h[s \ {Chosen(s)}] = g[s \ {Chosen(s)}]
      BY <1>a
    <2> HIDE DEF h
    <2> QED BY <2>1 DEF Summand
  <1>7. \A s \in SUBSET S : h[s] = Summand(f, h, s)
    <2>1. \A s \in SUBSET S : h[s] = Summand(f, g, s)
      BY <1>4, <1>5
    <2> HIDE DEF h
    <2> QED BY <1>6, <2>1
  <1>8. h = [s \in SUBSET S |-> h[s]]
    OBVIOUS
  <1> HIDE DEF h
  <1>9. [s \in SUBSET S |-> h[s]] = [s \in SUBSET S |-> Summand(f, h, s)]
    BY <1>7
  <1>10. Sums(f, S, h)
    BY <1>8, <1>9 DEF Sums
  <1> QED BY <1>10

(* The sum is the value of any such function.                                 *)
LEMMA SumsAgree ==
  ASSUME NEW f, NEW S, IsFiniteSet(S), NEW T \in SUBSET S, NEW g, NEW h,
         Sums(f, S, g), Sums(f, T, h)
  PROVE  g[T] = h[T]
  <1> DEFINE P == {U \in SUBSET T : g[U] = h[U]}
  <1>0. IsFiniteSet(T)
    BY FS_Subset
  <1>1. ASSUME NEW U \in SUBSET T,
               \A V \in SUBSET T : Cardinality(V) < Cardinality(U) => V \in P
        PROVE  U \in P
    <2>1. IsFiniteSet(U) /\ U \in SUBSET S
      BY <1>0, FS_Subset
    <2>2. g[U] = Summand(f, g, U) /\ h[U] = Summand(f, h, U)
      BY <2>1 DEF Sums
    <2>3. CASE U = {}
      BY <2>2, <2>3 DEF Summand
    <2>4. CASE U # {}
      <3>1. Chosen(U) \in U
        BY <2>4 DEF Chosen
      <3>2. U \ {Chosen(U)} \in P
        BY <1>1, <2>1, <3>1, RemovalShrinks
      <3> QED BY <2>2, <2>4, <3>2 DEF Summand
    <2> QED BY <2>3, <2>4
  <1> HIDE DEF P
  <1>2. T \in P
    BY <1>0, <1>1, SubsetInduction
  <1> QED BY <1>2 DEF P

LEMMA SumIsFold ==
  ASSUME NEW f, NEW S, IsFiniteSet(S)
  PROVE  \E g : Sums(f, S, g) /\ SumFunctionOnSet(f, S) = g[S]
  <1> DEFINE Iterates(g) ==
        g = [s \in SUBSET S |-> IF s = {} THEN 0 ELSE
               LET x == CHOOSE x \in s : TRUE IN f[x] + g[s \ {x}]]
  <1>1. \A g : Iterates(g) <=> Sums(f, S, g)
    BY Zenon DEF Sums, Summand, Chosen
  <1>2. SumFunctionOnSet(f, S) = (CHOOSE g : Iterates(g))[S]
    BY Zenon DEF SumFunctionOnSet, FoldFunctionOnSet, MapThenFoldSet
  <1> HIDE DEF Iterates
  <1>3. \E g : Iterates(g)
    BY <1>1, SumsExist
  <1> QED BY <1>1, <1>2, <1>3

LEMMA SumEmpty ==
  ASSUME NEW f
  PROVE  SumFunctionOnSet(f, {}) = 0
  <1>1. PICK g : Sums(f, {}, g) /\ SumFunctionOnSet(f, {}) = g[{}]
    BY FS_EmptySet, SumIsFold
  <1> QED BY <1>1 DEF Sums, Summand

LEMMA SumUnfolds ==
  ASSUME NEW f, NEW S, IsFiniteSet(S), S # {}
  PROVE  /\ Chosen(S) \in S
         /\ SumFunctionOnSet(f, S) = f[Chosen(S)] + SumFunctionOnSet(f, S \ {Chosen(S)})
  <1>1. Chosen(S) \in S
    BY DEF Chosen
  <1>2. SumFunctionOnSet(f, S) = f[Chosen(S)] + SumFunctionOnSet(f, S \ {Chosen(S)})
    <2> DEFINE T == S \ {Chosen(S)}
    <2>2. IsFiniteSet(T) /\ T \in SUBSET S
      BY <1>1, RemovalShrinks
    <2>3. PICK g : Sums(f, S, g) /\ SumFunctionOnSet(f, S) = g[S]
      BY SumIsFold
    <2>4. PICK h : Sums(f, T, h) /\ SumFunctionOnSet(f, T) = h[T]
      BY <2>2, SumIsFold
    <2>5. g[T] = h[T]
      BY <2>2, <2>3, <2>4, SumsAgree
    <2>6. g[S] = f[Chosen(S)] + g[T]
      BY <2>3 DEF Sums, Summand
    <2> QED BY <2>3, <2>4, <2>5, <2>6
  <1> QED BY <1>1, <1>2
-----------------------------------------------------------------------------
(* The sum as it is used.                                                  *)

(* A sum of integers is one.                                                  *)
LEMMA SumType ==
  ASSUME NEW f, NEW S, IsFiniteSet(S), \A x \in S : f[x] \in Int
  PROVE  SumFunctionOnSet(f, S) \in Int
  <1> DEFINE P == {T \in SUBSET S : SumFunctionOnSet(f, T) \in Int}
  <1>1. ASSUME NEW T \in SUBSET S,
               \A U \in SUBSET S : Cardinality(U) < Cardinality(T) => U \in P
        PROVE  T \in P
    <2>1. IsFiniteSet(T)
      BY FS_Subset
    <2>2. CASE T = {}
      BY <2>2, SumEmpty
    <2>3. CASE T # {}
      <3>1. /\ Chosen(T) \in T
            /\ SumFunctionOnSet(f, T) = f[Chosen(T)] + SumFunctionOnSet(f, T \ {Chosen(T)})
        BY <2>1, <2>3, SumUnfolds
      <3>2. T \ {Chosen(T)} \in P
        BY <1>1, <2>1, <3>1, RemovalShrinks
      <3> QED BY <3>1, <3>2
    <2> QED BY <2>2, <2>3
  <1> HIDE DEF P
  <1>2. S \in P
    BY <1>1, SubsetInduction
  <1> QED BY <1>2 DEF P

(* Any element can be taken out of a sum.                                     *)
LEMMA SumWithout ==
  ASSUME NEW f, NEW S, IsFiniteSet(S), \A x \in S : f[x] \in Int
  PROVE  \A x \in S : SumFunctionOnSet(f, S) = f[x] + SumFunctionOnSet(f, S \ {x})
  <1> DEFINE Sum(T) == SumFunctionOnSet(f, T)
             P == {T \in SUBSET S : \A x \in T : Sum(T) = f[x] + Sum(T \ {x})}
  <1>0. \A T \in SUBSET S : IsFiniteSet(T) /\ Sum(T) \in Int
    <2> SUFFICES ASSUME NEW T \in SUBSET S PROVE IsFiniteSet(T) /\ Sum(T) \in Int
      OBVIOUS
    <2>1. IsFiniteSet(T)
      BY FS_Subset
    <2> QED BY <2>1, SumType
  <1>1. ASSUME NEW T \in SUBSET S,
               \A U \in SUBSET S : Cardinality(U) < Cardinality(T) => U \in P
        PROVE  T \in P
    <2> SUFFICES ASSUME NEW x \in T PROVE Sum(T) = f[x] + Sum(T \ {x})
      OBVIOUS
    <2> DEFINE c == Chosen(T)
    <2>1. c \in T /\ Sum(T) = f[c] + Sum(T \ {c})
      BY <1>0, SumUnfolds
    <2>2. CASE x = c
      BY <2>1, <2>2
    <2>3. CASE x # c
      <3>1. T \ {c} \in P /\ T \ {x} \in P
        BY <1>0, <1>1, <2>1, RemovalShrinks
      <3>2. Sum(T \ {c}) = f[x] + Sum((T \ {c}) \ {x})
        BY <2>3, <3>1
      <3>3. Sum(T \ {x}) = f[c] + Sum((T \ {x}) \ {c})
        BY <2>1, <2>3, <3>1
      <3>4. (T \ {c}) \ {x} = (T \ {x}) \ {c}
        OBVIOUS
      <3>5. f[x] \in Int /\ f[c] \in Int /\ Sum((T \ {c}) \ {x}) \in Int
        BY <1>0, <2>1
      <3> DEFINE rest == Sum((T \ {c}) \ {x})
      <3>6. Sum(T) = f[c] + (f[x] + rest) /\ Sum(T \ {x}) = f[c] + rest
        BY <2>1, <3>2, <3>3, <3>4
      <3>7. f[x] \in Int /\ f[c] \in Int /\ rest \in Int
        BY <3>5
      <3> HIDE DEF Sum, c, rest
      <3> QED BY <3>6, <3>7
    <2> QED BY <2>2, <2>3
  <1> HIDE DEF P
  <1>2. S \in P
    BY <1>1, SubsetInduction
  <1> QED BY <1>2 DEF P

(* A sum of sums; also the sum of a function, by f only.                      *)
LEMMA SumPlus ==
  ASSUME NEW S, IsFiniteSet(S), NEW f, NEW g, NEW h,
         \A x \in S : f[x] \in Int /\ g[x] \in Int /\ h[x] = f[x] + g[x]
  PROVE  SumFunctionOnSet(h, S) = SumFunctionOnSet(f, S) + SumFunctionOnSet(g, S)
  <1> DEFINE P == {T \in SUBSET S :
        SumFunctionOnSet(h, T) = SumFunctionOnSet(f, T) + SumFunctionOnSet(g, T)}
  <1>1. ASSUME NEW T \in SUBSET S,
               \A U \in SUBSET S : Cardinality(U) < Cardinality(T) => U \in P
        PROVE  T \in P
    <2>1. IsFiniteSet(T)
      BY FS_Subset
    <2>2. CASE T = {}
      BY <2>2, SumEmpty
    <2>3. CASE T # {}
      <3> DEFINE c == Chosen(T)
                 U == T \ {c}
      <3>1. /\ c \in T
            /\ SumFunctionOnSet(f, T) = f[c] + SumFunctionOnSet(f, U)
            /\ SumFunctionOnSet(g, T) = g[c] + SumFunctionOnSet(g, U)
            /\ SumFunctionOnSet(h, T) = h[c] + SumFunctionOnSet(h, U)
        BY <2>1, <2>3, SumUnfolds
      <3>2. U \in P /\ IsFiniteSet(U)
        BY <1>1, <2>1, <3>1, RemovalShrinks
      <3>3. SumFunctionOnSet(f, U) \in Int /\ SumFunctionOnSet(g, U) \in Int
        BY <3>2, SumType
      <3> HIDE DEF c, U
      <3> QED BY <3>1, <3>2, <3>3
    <2> QED BY <2>2, <2>3
  <1> HIDE DEF P
  <1>2. S \in P
    BY <1>1, SubsetInduction
  <1> QED BY <1>2 DEF P

(* A common factor can be taken out of a sum.                                 *)
LEMMA TimesSum ==
  ASSUME NEW c \in Int, NEW a \in Int, NEW b \in Int
  PROVE  c * (a + b) = c * a + c * b /\ c * a \in Int /\ c * 0 = 0
  OBVIOUS

LEMMA SumTimes ==
  ASSUME NEW S, IsFiniteSet(S), NEW c \in Int, NEW f, NEW h,
         \A x \in S : f[x] \in Int /\ h[x] = c * f[x]
  PROVE  SumFunctionOnSet(h, S) = c * SumFunctionOnSet(f, S)
  <1> DEFINE P == {T \in SUBSET S : SumFunctionOnSet(h, T) = c * SumFunctionOnSet(f, T)}
  <1>1. ASSUME NEW T \in SUBSET S,
               \A U \in SUBSET S : Cardinality(U) < Cardinality(T) => U \in P
        PROVE  T \in P
    <2>1. IsFiniteSet(T)
      BY FS_Subset
    <2>2. CASE T = {}
      BY <2>2, SumEmpty, TimesSum
    <2>3. CASE T # {}
      <3> DEFINE d == Chosen(T)
                 U == T \ {d}
      <3>1. /\ d \in T
            /\ SumFunctionOnSet(f, T) = f[d] + SumFunctionOnSet(f, U)
            /\ SumFunctionOnSet(h, T) = h[d] + SumFunctionOnSet(h, U)
        BY <2>1, <2>3, SumUnfolds
      <3>2. U \in P /\ IsFiniteSet(U)
        BY <1>1, <2>1, <3>1, RemovalShrinks
      <3>3. SumFunctionOnSet(f, U) \in Int
        BY <3>2, SumType
      <3>4. f[d] \in Int /\ h[d] = c * f[d]
        BY <3>1
      <3> HIDE DEF d, U
      <3>5. c * (f[d] + SumFunctionOnSet(f, U)) = c * f[d] + c * SumFunctionOnSet(f, U)
        BY <3>3, <3>4, TimesSum
      <3>6. SumFunctionOnSet(h, U) = c * SumFunctionOnSet(f, U)
        BY <3>2
      <3> QED BY <3>1, <3>4, <3>5, <3>6, Zenon
    <2> QED BY <2>2, <2>3
  <1> HIDE DEF P
  <1>2. S \in P
    BY <1>1, SubsetInduction
  <1> QED BY <1>2 DEF P

LEMMA SumNegated ==
  ASSUME NEW S, IsFiniteSet(S), NEW f, NEW h,
         \A x \in S : f[x] \in Int /\ h[x] = -f[x]
  PROVE  SumFunctionOnSet(h, S) = -SumFunctionOnSet(f, S)
  <1> PICK c \in Int : c = -1
    OBVIOUS
  <1>1. \A x \in S : f[x] \in Int /\ h[x] = c * f[x]
    OBVIOUS
  <1>2. SumFunctionOnSet(h, S) = c * SumFunctionOnSet(f, S) /\ SumFunctionOnSet(f, S) \in Int
    BY <1>1, SumTimes, SumType
  <1> QED BY <1>2

(* A sum grows with its summands.                                             *)
LEMMA SumMonotone ==
  ASSUME NEW S, IsFiniteSet(S), NEW f, NEW g,
         \A x \in S : f[x] \in Int /\ g[x] \in Int /\ f[x] <= g[x]
  PROVE  SumFunctionOnSet(f, S) <= SumFunctionOnSet(g, S)
  <1> DEFINE P == {T \in SUBSET S : SumFunctionOnSet(f, T) <= SumFunctionOnSet(g, T)}
  <1>1. ASSUME NEW T \in SUBSET S,
               \A U \in SUBSET S : Cardinality(U) < Cardinality(T) => U \in P
        PROVE  T \in P
    <2>1. IsFiniteSet(T)
      BY FS_Subset
    <2>2. CASE T = {}
      BY <2>2, SumEmpty
    <2>3. CASE T # {}
      <3> DEFINE c == Chosen(T)
                 U == T \ {c}
      <3>1. /\ c \in T
            /\ SumFunctionOnSet(f, T) = f[c] + SumFunctionOnSet(f, U)
            /\ SumFunctionOnSet(g, T) = g[c] + SumFunctionOnSet(g, U)
        BY <2>1, <2>3, SumUnfolds
      <3>2. U \in P /\ IsFiniteSet(U)
        BY <1>1, <2>1, <3>1, RemovalShrinks
      <3>3. SumFunctionOnSet(f, U) \in Int /\ SumFunctionOnSet(g, U) \in Int
        BY <3>2, SumType
      <3> HIDE DEF c, U
      <3> QED BY <3>1, <3>2, <3>3
    <2> QED BY <2>2, <2>3
  <1> HIDE DEF P
  <1>2. S \in P
    BY <1>1, SubsetInduction
  <1> QED BY <1>2 DEF P

(* Only the summands matter.                                                  *)
LEMMA SumSame ==
  ASSUME NEW S, IsFiniteSet(S), NEW f, NEW g,
         \A x \in S : f[x] \in Int /\ g[x] = f[x]
  PROVE  SumFunctionOnSet(f, S) = SumFunctionOnSet(g, S)
  <1>1. \A x \in S : g[x] \in Int
    OBVIOUS
  <1>2. SumFunctionOnSet(f, S) <= SumFunctionOnSet(g, S)
    BY <1>1, SumMonotone
  <1>3. SumFunctionOnSet(g, S) <= SumFunctionOnSet(f, S)
    BY <1>1, SumMonotone
  <1> QED BY <1>1, <1>2, <1>3, SumType

(* A summand that is the same everywhere.                                     *)
LEMMA SumConstant ==
  ASSUME NEW S, IsFiniteSet(S), NEW c \in Int, NEW f, \A x \in S : f[x] = c
  PROVE  SumFunctionOnSet(f, S) = c * Cardinality(S)
  <1> DEFINE P == {T \in SUBSET S : SumFunctionOnSet(f, T) = c * Cardinality(T)}
  <1>1. ASSUME NEW T \in SUBSET S,
               \A U \in SUBSET S : Cardinality(U) < Cardinality(T) => U \in P
        PROVE  T \in P
    <2>1. IsFiniteSet(T)
      BY FS_Subset
    <2>2. CASE T = {}
      BY <2>2, SumEmpty, FS_EmptySet
    <2>3. CASE T # {}
      <3> DEFINE U == T \ {Chosen(T)}
      <3>1. Chosen(T) \in T /\ SumFunctionOnSet(f, T) = c + SumFunctionOnSet(f, U)
        BY <2>1, <2>3, SumUnfolds
      <3>2. U \in P
        BY <1>1, <2>1, <3>1, RemovalShrinks
      <3>3. Cardinality(U) = Cardinality(T) - 1 /\ Cardinality(T) \in Nat
        BY <2>1, <3>1, RemovalShrinks
      <3>4. c * (Cardinality(T) - 1) = c * Cardinality(T) - c
        BY <3>3
      <3> HIDE DEF U
      <3> QED BY <3>1, <3>2, <3>3, <3>4
    <2> QED BY <2>2, <2>3
  <1> HIDE DEF P
  <1>2. S \in P
    BY <1>1, SubsetInduction
  <1> QED BY <1>2 DEF P

(* Every natural summand is part of the sum.                                  *)
LEMMA SumBounds ==
  ASSUME NEW S, IsFiniteSet(S), NEW f, \A x \in S : f[x] \in Nat
  PROVE  SumFunctionOnSet(f, S) \in Nat /\ \A x \in S : f[x] <= SumFunctionOnSet(f, S)
  <1>1. ASSUME NEW T, IsFiniteSet(T), T \subseteq S
        PROVE  SumFunctionOnSet(f, T) \in Nat
    <2> DEFINE zero == [x \in T |-> 0]
    <2>1. SumFunctionOnSet(zero, T) <= SumFunctionOnSet(f, T)
      BY <1>1, SumMonotone
    <2>2. SumFunctionOnSet(zero, T) = 0 * Cardinality(T)
      BY <1>1, SumConstant
    <2>3. 0 * Cardinality(T) = 0
      BY <1>1, FS_CardinalityType
    <2>4. SumFunctionOnSet(f, T) \in Int
      BY <1>1, SumType
    <2> HIDE DEF zero
    <2> QED BY <2>1, <2>2, <2>3, <2>4
  <1>2. ASSUME NEW x \in S PROVE f[x] <= SumFunctionOnSet(f, S)
    <2>1. SumFunctionOnSet(f, S) = f[x] + SumFunctionOnSet(f, S \ {x})
      BY SumWithout
    <2>2. SumFunctionOnSet(f, S \ {x}) \in Nat
      BY <1>1, RemovalShrinks
    <2> QED BY <2>1, <2>2
  <1> QED BY <1>1, <1>2

(* A finite set has an element of the largest value.                          *)
LEMMA LargestExists ==
  ASSUME NEW S, IsFiniteSet(S), S # {}, NEW f, \A x \in S : f[x] \in Nat
  PROVE  \E x \in S : \A y \in S : f[y] <= f[x]
  <1> DEFINE total == SumFunctionOnSet(f, S)
             Gaps == {total - f[x] : x \in S}
  <1>1. total \in Nat /\ \A x \in S : f[x] <= total
    BY SumBounds
  <1> HIDE DEF total
  <1>2. Gaps \in SUBSET Nat /\ Gaps # {}
    BY <1>1
  <1>3. PICK m \in Gaps : \A n \in Gaps : m <= n
    BY <1>2, SmallestExists
  <1>4. PICK x \in S : m = total - f[x]
    BY <1>3
  <1>5. \A y \in S : total - f[x] <= total - f[y]
    BY <1>3, <1>4
  <1> QED BY <1>1, <1>5

(* A sum of which one summand is changed.                                     *)
LEMMA SumChanged ==
  ASSUME NEW S, IsFiniteSet(S), NEW f, NEW g, NEW x \in S, NEW d \in Int,
         \A y \in S : f[y] \in Int,
         \A y \in S \ {x} : g[y] = f[y],
         g[x] = f[x] + d
  PROVE  SumFunctionOnSet(g, S) = SumFunctionOnSet(f, S) + d
  <1>1. IsFiniteSet(S \ {x})
    BY RemovalShrinks
  <1>2. SumFunctionOnSet(f, S) = f[x] + SumFunctionOnSet(f, S \ {x})
    BY SumWithout
  <1>3. \A y \in S : g[y] \in Int
    OBVIOUS
  <1>4. SumFunctionOnSet(g, S) = g[x] + SumFunctionOnSet(g, S \ {x})
    BY <1>3, SumWithout
  <1>5. SumFunctionOnSet(f, S \ {x}) = SumFunctionOnSet(g, S \ {x})
    BY <1>1, SumSame
  <1>6. SumFunctionOnSet(f, S \ {x}) \in Int
    BY <1>1, SumType
  <1> QED BY <1>2, <1>4, <1>5, <1>6

(* One more element.                                                          *)
LEMMA SumWith ==
  ASSUME NEW S, IsFiniteSet(S), NEW x, x \notin S, NEW f,
         \A y \in S \union {x} : f[y] \in Int
  PROVE  SumFunctionOnSet(f, S \union {x}) = SumFunctionOnSet(f, S) + f[x]
  <1>1. IsFiniteSet(S \union {x}) /\ (S \union {x}) \ {x} = S
    BY FS_AddElement
  <1>2. SumFunctionOnSet(f, S) \in Int /\ f[x] \in Int
    BY SumType
  <1>3. SumFunctionOnSet(f, S \union {x}) = f[x] + SumFunctionOnSet(f, (S \union {x}) \ {x})
    BY <1>1, SumWithout
  <1>4. SumFunctionOnSet(f, S \union {x}) = f[x] + SumFunctionOnSet(f, S)
    BY <1>1, <1>3, Zenon
  <1> DEFINE all == SumFunctionOnSet(f, S \union {x})
  <1>5. all = f[x] + SumFunctionOnSet(f, S)
    BY <1>4
  <1> HIDE DEF all
  <1>6. all = SumFunctionOnSet(f, S) + f[x]
    BY <1>2, <1>5
  <1> QED BY <1>6, Zenon DEF all

LEMMA SumUpto ==
  ASSUME NEW n \in Nat, NEW f, \A i \in 1..(n + 1) : f[i] \in Int
  PROVE  /\ SumFunctionOnSet(f, 1..0) = 0
         /\ SumFunctionOnSet(f, 1..n) \in Int
         /\ SumFunctionOnSet(f, 1..(n + 1)) = SumFunctionOnSet(f, 1..n) + f[n + 1]
  <1>1. 1..0 = {} /\ IsFiniteSet(1..n) /\ n + 1 \notin 1..n
        /\ 1..(n + 1) = (1..n) \union {n + 1}
    BY FS_Interval
  <1>2. SumFunctionOnSet(f, {}) = 0
    BY SumEmpty
  <1>3. SumFunctionOnSet(f, 1..n) \in Int
    BY <1>1, SumType
  <1>4. SumFunctionOnSet(f, (1..n) \union {n + 1}) = SumFunctionOnSet(f, 1..n) + f[n + 1]
    BY <1>1, SumWith
  <1> QED BY <1>1, <1>2, <1>3, <1>4

(* What lies between successive values adds up to what lies between the ends. *)
LEMMA Telescope ==
  ASSUME NEW n \in Nat, NEW h, \A i \in 1..(n + 1) : h[i] \in Int,
         NEW f, \A i \in 1..n : f[i] = h[i + 1] - h[i]
  PROVE  SumFunctionOnSet(f, 1..n) = h[n + 1] - h[1]
  <1> DEFINE P == {k \in Nat : k <= n => SumFunctionOnSet(f, 1..k) = h[k + 1] - h[1]}
  <1>0. \A i \in 1..n : f[i] \in Int
    OBVIOUS
  <1>1. 0 \in P
    <2>1. 1..0 = {}
      OBVIOUS
    <2>2. SumFunctionOnSet(f, {}) = 0
      BY SumEmpty
    <2>3. h[1] \in Int /\ h[0 + 1] = h[1]
      OBVIOUS
    <2> QED BY <2>1, <2>2, <2>3
  <1>2. ASSUME NEW k \in Nat, k \in P PROVE k + 1 \in P
    <2> SUFFICES ASSUME k + 1 <= n
                 PROVE  SumFunctionOnSet(f, 1..(k + 1)) = h[(k + 1) + 1] - h[1]
      OBVIOUS
    <2>1. SumFunctionOnSet(f, 1..k) = h[k + 1] - h[1]
      BY <1>2
    <2>2. \A i \in 1..(k + 1) : f[i] \in Int
      BY <1>0
    <2>3. SumFunctionOnSet(f, 1..(k + 1)) = SumFunctionOnSet(f, 1..k) + f[k + 1]
      BY <2>2, SumUpto
    <2>4. /\ f[k + 1] = h[(k + 1) + 1] - h[k + 1]
          /\ h[k + 1] \in Int /\ h[(k + 1) + 1] \in Int /\ h[1] \in Int
      OBVIOUS
    <2> QED BY <2>1, <2>3, <2>4
  <1> HIDE DEF P
  <1>3. n \in P
    BY <1>1, <1>2, Induction
  <1> QED BY <1>3 DEF P
\* h is a linear form of f and g over S.
IsLinear(S, h, c, f, d, g) ==
  \A x \in S : f[x] \in Int /\ g[x] \in Int /\ h[x] = c * f[x] + d * g[x]

\* The sum of a linear form is that of the sums.
SumsLinear(S, h, c, f, d, g) ==
  /\ SumFunctionOnSet(f, S) \in Int /\ SumFunctionOnSet(g, S) \in Int
  /\ SumFunctionOnSet(h, S) = c * SumFunctionOnSet(f, S) + d * SumFunctionOnSet(g, S)

LEMMA LinearSum ==
  ASSUME NEW S, IsFiniteSet(S), NEW f, NEW g, NEW h, NEW c \in Int, NEW d \in Int,
         IsLinear(S, h, c, f, d, g)
  PROVE  SumsLinear(S, h, c, f, d, g)
  <1> DEFINE cf == [x \in S |-> c * f[x]]
             dg == [x \in S |-> d * g[x]]
  <1>0. \A x \in S : f[x] \in Int /\ g[x] \in Int /\ h[x] = c * f[x] + d * g[x]
    BY DEF IsLinear
  <1>1. \A x \in S : cf[x] = c * f[x] /\ cf[x] \in Int /\ dg[x] = d * g[x] /\ dg[x] \in Int
    <2> TAKE x \in S
    <2>1. f[x] \in Int /\ g[x] \in Int
      BY <1>0
    <2>2. c * f[x] \in Int /\ d * g[x] \in Int
      BY ONLY <2>1, c \in Int, d \in Int
    <2> QED BY <2>2
  <1>2. \A x \in S : h[x] = cf[x] + dg[x]
    BY <1>0, <1>1
  <1> HIDE DEF cf, dg
  <1>3. SumFunctionOnSet(h, S) = SumFunctionOnSet(cf, S) + SumFunctionOnSet(dg, S)
    BY <1>1, <1>2, SumPlus
  <1>4. SumFunctionOnSet(cf, S) = c * SumFunctionOnSet(f, S)
    BY <1>0, <1>1, SumTimes
  <1>5. SumFunctionOnSet(dg, S) = d * SumFunctionOnSet(g, S)
    BY <1>0, <1>1, SumTimes
  <1> QED BY <1>0, <1>3, <1>4, <1>5, SumType DEF SumsLinear

\* What is worth least for every job is worth least together.
LEMMA WorthMost ==
  ASSUME NEW S, IsFiniteSet(S), NEW f, NEW g, NEW u, NEW w, NEW c \in Int, NEW d \in Int,
         \A x \in S : /\ f[x] \in Int /\ g[x] \in Int /\ u[x] \in Int /\ w[x] \in Int
                      /\ c * f[x] + d * g[x] <= c * u[x] + d * w[x]
  PROVE  c * SumFunctionOnSet(f, S) + d * SumFunctionOnSet(g, S)
           <= c * SumFunctionOnSet(u, S) + d * SumFunctionOnSet(w, S)
  <1> DEFINE h == [x \in S |-> c * f[x] + d * g[x]]
             k == [x \in S |-> c * u[x] + d * w[x]]
  <1>1. \A x \in S : /\ h[x] = c * f[x] + d * g[x] /\ k[x] = c * u[x] + d * w[x]
                     /\ h[x] \in Int /\ k[x] \in Int /\ h[x] <= k[x]
    <2> TAKE x \in S
    <2>1. /\ f[x] \in Int /\ g[x] \in Int /\ u[x] \in Int /\ w[x] \in Int
          /\ c * f[x] + d * g[x] <= c * u[x] + d * w[x]
      OBVIOUS
    <2>2. c * f[x] \in Int /\ d * g[x] \in Int /\ c * u[x] \in Int /\ d * w[x] \in Int
      BY ONLY <2>1, c \in Int, d \in Int
    <2> QED BY <2>1, <2>2
  <1> HIDE DEF h, k
  <1>2. SumFunctionOnSet(h, S) <= SumFunctionOnSet(k, S)
    BY <1>1, SumMonotone
  <1>3. SumsLinear(S, h, c, f, d, g)
    <2>1. IsLinear(S, h, c, f, d, g)
      BY <1>1 DEF IsLinear
    <2> QED BY <2>1, LinearSum
  <1>4. SumsLinear(S, k, c, u, d, w)
    <2>1. IsLinear(S, k, c, u, d, w)
      BY <1>1 DEF IsLinear
    <2> QED BY <2>1, LinearSum
  <1> QED BY <1>2, <1>3, <1>4, Zenon DEF SumsLinear
-----------------------------------------------------------------------------
(* Products.                                                                  *)

LEMMA Distributes ==
  ASSUME NEW a \in Nat, NEW b \in Nat, NEW c \in Nat
  PROVE  a * b \in Nat /\ a * c \in Nat /\ a * (b + c) = a * b + a * c
  OBVIOUS

LEMMA DistributesOver ==
  ASSUME NEW a \in Nat, NEW b \in Nat, NEW c \in Nat
  PROVE  a * (b - c) = a * b - a * c
  OBVIOUS

LEMMA ProductsGrow ==
  ASSUME NEW a \in Nat, NEW b \in Nat, NEW c \in Nat, NEW d \in Nat, a <= b, c <= d
  PROVE  a * c \in Nat /\ b * d \in Nat /\ a * c <= b * d
  <1>1. a * c \in Nat /\ b * c \in Nat /\ b * d \in Nat
    OBVIOUS
  <1>2. (b - a) * c >= 0 /\ (b - a) * c = b * c - a * c
    <2> PICK x \in Nat : x = b - a
      OBVIOUS
    <2>1. x * c \in Nat
      OBVIOUS
    <2> QED BY <2>1
  <1>3. b * (d - c) >= 0 /\ b * (d - c) = b * d - b * c
    <2> PICK x \in Nat : x = d - c
      OBVIOUS
    <2>1. b * x \in Nat
      OBVIOUS
    <2> QED BY <2>1
  <1> QED BY <1>1, <1>2, <1>3

LEMMA ProductsOrder ==
  ASSUME NEW a \in Nat \ {0}, NEW x \in Int, NEW y \in Int, a * x < a * y
  PROVE  x < y
  <1> SUFFICES ASSUME y <= x PROVE FALSE
    OBVIOUS
  <1> PICK d \in Nat : x = y + d
    <2>1. x - y \in Nat /\ x = y + (x - y)
      OBVIOUS
    <2> QED BY <2>1
  <1>1. a * (y + d) = a * y + a * d /\ a * d \in Nat /\ a * y \in Int
    OBVIOUS
  <1> QED BY <1>1

\* Of quotients with positive denominators.
LEMMA QuotientsOrder ==
  ASSUME NEW c \in Int, NEW d \in Int, NEW e \in Int,
         NEW f \in Nat \ {0}, NEW g \in Nat \ {0}, NEW h \in Nat \ {0},
         c * g <= d * f, d * h <= e * g
  PROVE  c * h <= e * f
  <1> PICK cg \in Int, df \in Int, dh \in Int, eg \in Int :
        cg = c * g /\ df = d * f /\ dh = d * h /\ eg = e * g
    <2>1. c * g \in Int /\ d * f \in Int /\ d * h \in Int /\ e * g \in Int
      OBVIOUS
    <2> QED BY <2>1
  <1>1. cg * h <= df * h
    BY ONLY cg <= df, cg \in Int, df \in Int, h \in Nat \ {0}
  <1>2. dh * f <= eg * f
    BY ONLY dh <= eg, dh \in Int, eg \in Int, f \in Nat \ {0}
  <1>3. df * h = dh * f
    BY ONLY df = d * f, dh = d * h, d \in Int, f \in Nat, h \in Nat
  <1> PICK u \in Int, w \in Int : u = c * h /\ w = e * f
    <2>1. c * h \in Int /\ e * f \in Int
      OBVIOUS
    <2> QED BY <2>1
  <1>4. cg * h = u * g /\ eg * f = w * g
    BY ONLY cg = c * g, eg = e * g, u = c * h, w = e * f, c \in Int, e \in Int, g \in Nat, h \in Nat,
            f \in Nat
  <1>5. u * g <= w * g
    <2>1. cg * h \in Int /\ df * h \in Int /\ eg * f \in Int
      BY ONLY cg \in Int, df \in Int, eg \in Int, h \in Nat, f \in Nat
    <2> QED BY ONLY <1>1, <1>2, <1>3, <1>4, <2>1, dh * f \in Int
  <1>6. u <= w
    BY ONLY <1>5, u \in Int, w \in Int, g \in Nat \ {0}
  <1> QED BY <1>6

(* The cost of a GPU is that of the iterations it adds and the rise for all.  *)
LEMMA CostOfEnergy ==
  ASSUME NEW e \in Nat, NEW f \in Nat, NEW r \in Nat, NEW s \in Nat
  PROVE  f * s - e * r = f * (s - r) + (f - e) * r
  <1>1. f * (s - r) = f * s - f * r /\ (f - e) * r = f * r - e * r
        /\ f * s \in Int /\ f * r \in Int /\ e * r \in Int
    OBVIOUS
  <1> QED BY <1>1

LEMMA EnergyClimbs ==
  ASSUME NEW a \in Nat, NEW b \in Nat, a <= b, NEW x \in Nat, NEW y \in Nat, y <= x,
         NEW d \in Nat, NEW e \in Nat, d <= e, NEW r \in Nat, NEW s \in Nat, r <= s
  PROVE  (a * x + d * r) * y <= (b * y + e * s) * x
  <1> PICK ax \in Nat, dr \in Nat, byy \in Nat, es \in Nat :
        ax = a * x /\ dr = d * r /\ byy = b * y /\ es = e * s
    <2>1. a * x \in Nat /\ d * r \in Nat /\ b * y \in Nat /\ e * s \in Nat
      OBVIOUS
    <2> QED BY <2>1
  <1> PICK xy \in Nat : xy = x * y
    <2>1. x * y \in Nat
      OBVIOUS
    <2> QED BY <2>1
  <1>1. a * xy <= b * xy /\ a * xy \in Nat /\ b * xy \in Nat
    <2>1. xy <= xy
      OBVIOUS
    <2> QED BY <2>1, ProductsGrow
  <1>2. dr <= es
    BY ProductsGrow
  <1>3. dr * y <= es * x /\ dr * y \in Nat /\ es * x \in Nat
    <2>1. dr * y \in Nat /\ es * x \in Nat
      BY ONLY dr \in Nat, es \in Nat, x \in Nat, y \in Nat
    <2> QED BY <1>2, <2>1, ProductsGrow
  <1>4. (ax + dr) * y = ax * y + dr * y /\ (byy + es) * x = byy * x + es * x
    BY ONLY ax \in Nat, dr \in Nat, byy \in Nat, es \in Nat, x \in Nat, y \in Nat
  <1>5. ax * y = a * xy
    BY ONLY ax = a * x, xy = x * y, a \in Nat, x \in Nat, y \in Nat
  <1>6. byy * x = b * xy
    BY ONLY byy = b * y, xy = x * y, b \in Nat, x \in Nat, y \in Nat
  <1> QED BY <1>1, <1>3, <1>4, <1>5, <1>6

LEMMA DifferencesGrow ==
  ASSUME NEW a \in Nat, NEW b \in Nat, NEW c \in Nat,
         NEW r \in Nat \ {0}, NEW s \in Nat \ {0}, NEW t \in Nat \ {0},
         (c * t) * s * r + (a * r) * s * t >= 2 * (b * s) * t * r
  PROVE  b - a <= c - b
  <1> PICK k \in Nat \ {0} : k = r * s * t
    <2>1. r * s * t \in Nat \ {0}
      <3> PICK n \in Nat \ {0} : n = r * s
        <4>1. r * s \in Nat /\ r * s > 0
          OBVIOUS
        <4> QED BY <4>1
      <3>1. n * t \in Nat /\ n * t > 0
        OBVIOUS
      <3> QED BY <3>1
    <2> QED BY <2>1
  <1>1. (c * t) * s * r = k * c
    BY ONLY k = r * s * t, c \in Nat, r \in Nat, s \in Nat, t \in Nat
  <1>2. (a * r) * s * t = k * a
    BY ONLY k = r * s * t, a \in Nat, r \in Nat, s \in Nat, t \in Nat
  <1>3. 2 * (b * s) * t * r = k * (2 * b)
    BY ONLY k = r * s * t, b \in Nat, r \in Nat, s \in Nat, t \in Nat
  <1> SUFFICES ASSUME a + c < 2 * b PROVE FALSE
    OBVIOUS
  <1> PICK d \in Nat \ {0} : 2 * b = a + c + d
    <2>1. 2 * b - (a + c) \in Nat \ {0} /\ 2 * b = a + c + (2 * b - (a + c))
      OBVIOUS
    <2> QED BY <2>1
  <1>4. k * (a + c + d) = k * a + k * c + k * d /\ k * d > 0
        /\ k * a \in Nat /\ k * c \in Nat /\ k * d \in Nat
    BY ONLY k \in Nat \ {0}, a \in Nat, c \in Nat, d \in Nat \ {0}
  <1> QED BY <1>1, <1>2, <1>3, <1>4
-----------------------------------------------------------------------------
(* Quotients and remainders.                                                  *)

(* A quotient and a remainder are the only ones.                              *)
LEMMA DivisionIs ==
  ASSUME NEW q \in Nat, NEW s \in Nat \ {0}, NEW r \in 0..(s - 1)
  PROVE  (q * s + r) \div s = q /\ (q * s + r) % s = r
  <1> PICK a \in Nat : a = q * s + r
    <2>1. q * s \in Nat
      OBVIOUS
    <2> QED BY <2>1
  <1> PICK p \in Nat, t \in 0..(s - 1) : p = a \div s /\ t = a % s /\ a = s * p + t
    <2>1. a \div s \in Nat /\ a % s \in 0..(s - 1) /\ a = s * (a \div s) + (a % s)
      OBVIOUS
    <2> QED BY <2>1
  <1>1. q * s + r = p * s + t
    OBVIOUS
  <1>2. p = q
    <2>1. ASSUME NEW x \in Nat, NEW y \in Nat, x < y
          PROVE  x * s + s <= y * s /\ x * s \in Nat /\ y * s \in Nat
      <3> PICK d \in Nat : y = x + 1 + d
        <4>1. y - x - 1 \in Nat /\ y = x + 1 + (y - x - 1)
          BY <2>1
        <4> QED BY <4>1
      <3>1. d * s \in Nat /\ x * s \in Nat
        OBVIOUS
      <3>2. (x + 1 + d) * s = x * s + s + d * s
        OBVIOUS
      <3> QED BY <3>1, <3>2
    <2>2. CASE p < q
      <3>1. p * s + s <= q * s /\ p * s \in Nat /\ q * s \in Nat
        BY <2>1, <2>2
      <3> QED BY <1>1, <3>1
    <2>3. CASE q < p
      <3>1. q * s + s <= p * s /\ p * s \in Nat /\ q * s \in Nat
        BY <2>1, <2>3
      <3> QED BY <1>1, <3>1
    <2> QED BY <2>2, <2>3
  <1>3. t = r
    BY <1>1, <1>2
  <1> QED BY <1>2, <1>3

LEMMA DivisionFacts ==
  ASSUME NEW x \in Nat, NEW s \in Nat \ {0}
  PROVE  /\ x \div s \in Nat /\ x % s \in 0..(s - 1) /\ (x \div s) * s \in Nat
         /\ x = (x \div s) * s + (x % s)
  <1>1. x \div s \in Nat
    OBVIOUS
  <1>2. x = s * (x \div s) + (x % s) /\ x % s \in 0..(s - 1)
    OBVIOUS
  <1> QED BY <1>1, <1>2

LEMMA NextMultiple ==
  ASSUME NEW j \in Nat, NEW s \in Nat
  PROVE  (j + 1) * s = j * s + s /\ j * s \in Nat
  OBVIOUS
-----------------------------------------------------------------------------
(* A state that a function steps, round by round.                             *)
Rounds(s0, step, f) == f = [n \in Nat |-> IF n = 0 THEN s0 ELSE step[f[n - 1]]]

LEMMA RoundsExist ==
  ASSUME NEW S, NEW s0 \in S, NEW step \in [S -> S]
  PROVE  \E f \in [Nat -> S] : Rounds(s0, step, f)
  <1> DEFINE Next1(g, n) == IF n = 0 THEN s0 ELSE step[g[n - 1]]
             Upto(k, g) == \A n \in Nat : n <= k => g[n] = Next1(g, n)
             P == {k \in Nat : \E g \in [Nat -> S] : Upto(k, g)}
  <1>1. 0 \in P
    <2>1. Upto(0, [n \in Nat |-> s0])
      OBVIOUS
    <2> QED BY <2>1
  <1>2. ASSUME NEW k \in Nat, k \in P PROVE k + 1 \in P
    <2>1. PICK g \in [Nat -> S] : Upto(k, g)
      BY <1>2
    <2> DEFINE h == [n \in Nat |-> IF n <= k THEN g[n] ELSE step[g[k]]]
    <2>2. h \in [Nat -> S]
      OBVIOUS
    <2>3. ASSUME NEW n \in Nat, n <= k + 1 PROVE h[n] = Next1(h, n)
      <3>1. CASE n = 0
        BY <2>1, <3>1
      <3>2. CASE n # 0 /\ n <= k
        <4>1. n - 1 \in Nat /\ n - 1 <= k /\ h[n - 1] = g[n - 1] /\ h[n] = g[n]
          BY <3>2
        <4>2. g[n] = step[g[n - 1]]
          BY <2>1, <3>2
        <4> HIDE DEF h
        <4> QED BY <3>2, <4>1, <4>2
      <3>3. CASE n = k + 1
        <4>1. n - 1 = k /\ h[k] = g[k] /\ h[n] = step[g[k]] /\ n # 0
          BY <3>3
        <4> HIDE DEF h
        <4> QED BY <4>1
      <3> QED BY <2>3, <3>1, <3>2, <3>3
    <2> HIDE DEF h
    <2>4. Upto(k + 1, h)
      BY <2>3
    <2> QED BY <2>2, <2>4
  <1> HIDE DEF P
  <1>3. \A k \in Nat : k \in P
    BY <1>1, <1>2, Induction
  <1> DEFINE Agree == {n \in Nat : \A k \in Nat, l \in Nat : \A g \in [Nat -> S], h \in [Nat -> S] :
                         Upto(k, g) /\ Upto(l, h) /\ n <= k /\ n <= l => g[n] = h[n]}
  <1>4. 0 \in Agree
    OBVIOUS
  <1>5. ASSUME NEW n \in Nat, n \in Agree PROVE n + 1 \in Agree
    <2>1. ASSUME NEW k \in Nat, NEW l \in Nat, NEW g \in [Nat -> S], NEW h \in [Nat -> S],
                 Upto(k, g), Upto(l, h), n + 1 <= k, n + 1 <= l
          PROVE  g[n + 1] = h[n + 1]
      <3>1. g[n] = h[n]
        <4>1. n <= k /\ n <= l
          BY <2>1
        <4> HIDE DEF Upto
        <4> QED BY <1>5, <2>1, <4>1
      <3>2. g[n + 1] = step[g[n]] /\ h[n + 1] = step[h[n]]
        BY <2>1
      <3> QED BY <3>1, <3>2
    <2> HIDE DEF Upto
    <2> QED BY <2>1
  <1>6. \A n \in Nat : n \in Agree
    <2> HIDE DEF Agree
    <2> QED BY <1>4, <1>5, Induction
  <1> DEFINE Good(k) == CHOOSE g \in [Nat -> S] : Upto(k, g)
  <1>7. \A k \in Nat : Good(k) \in [Nat -> S] /\ Upto(k, Good(k))
    <2> HIDE DEF Upto
    <2> QED BY <1>3 DEF P
  <1> HIDE DEF Good
  <1> DEFINE f == [n \in Nat |-> Good(n)[n]]
  <1>8. f \in [Nat -> S]
    BY <1>7
  <1>9. ASSUME NEW n \in Nat PROVE f[n] = Next1(f, n)
    <2>1. CASE n = 0
      BY <1>7, <2>1
    <2>2. CASE n # 0
      <3>1. n - 1 \in Nat /\ n - 1 <= n /\ n <= n
        BY <2>2
      <3>2. f[n] = step[Good(n)[n - 1]]
        BY <1>7, <2>2
      <3>3. Good(n)[n - 1] = Good(n - 1)[n - 1]
        <4> HIDE DEF Upto
        <4> QED BY <1>6, <1>7, <3>1
      <3>4. f[n - 1] = Good(n - 1)[n - 1]
        BY <3>1
      <3> HIDE DEF f
      <3> QED BY <2>2, <3>2, <3>3, <3>4
    <2> QED BY <2>1, <2>2
  <1> HIDE DEF f
  <1>10. f = [n \in Nat |-> Next1(f, n)]
    BY <1>8, <1>9
  <1> QED BY <1>8, <1>10 DEF Rounds

LEMMA RoundsStep ==
  ASSUME NEW s0, NEW step, NEW f, Rounds(s0, step, f)
  PROVE  f[0] = s0 /\ \A n \in Nat : f[n + 1] = step[f[n]]
  <1>1. f[0] = s0
    BY DEF Rounds
  <1>2. ASSUME NEW n \in Nat PROVE f[n + 1] = step[f[n]]
    <2>1. n + 1 \in Nat /\ n + 1 # 0 /\ (n + 1) - 1 = n
      OBVIOUS
    <2>2. f[n + 1] = IF n + 1 = 0 THEN s0 ELSE step[f[(n + 1) - 1]]
      BY <2>1, Zenon DEF Rounds
    <2> QED BY <2>1, <2>2
  <1> QED BY <1>1, <1>2

LEMMA RoundsKeep ==
  ASSUME NEW s0, NEW step, NEW f, Rounds(s0, step, f), NEW Q, s0 \in Q, \A s \in Q : step[s] \in Q
  PROVE  \A n \in Nat : f[n] \in Q
  <1> DEFINE P == {n \in Nat : f[n] \in Q}
  <1>1. f[0] = s0 /\ \A n \in Nat : f[n + 1] = step[f[n]]
    BY RoundsStep
  <1>2. 0 \in P /\ \A n \in Nat : n \in P => n + 1 \in P
    BY <1>1
  <1> HIDE DEF P
  <1>3. \A n \in Nat : n \in P
    BY <1>2, Induction
  <1> QED BY <1>3 DEF P

LEMMA RoundsAre ==
  ASSUME NEW S, NEW s0 \in S, NEW step \in [S -> S], NEW g, g = [n \in Nat |-> g[n]], g[0] = s0,
         \A n \in Nat : g[n] \in S => g[n + 1] = step[g[n]]
  PROVE  Rounds(s0, step, g)
  <1> DEFINE P == {n \in Nat : g[n] \in S}
  <1>1. 0 \in P /\ \A n \in Nat : n \in P => n + 1 \in P
    OBVIOUS
  <1> HIDE DEF P
  <1>2. \A n \in Nat : n \in P
    BY <1>1, Induction
  <1>3. ASSUME NEW n \in Nat PROVE g[n] = IF n = 0 THEN s0 ELSE step[g[n - 1]]
    <2>1. CASE n # 0
      <3>1. n - 1 \in Nat /\ (n - 1) + 1 = n
        BY <2>1
      <3>2. g[(n - 1) + 1] = step[g[n - 1]]
        BY <1>2, <3>1 DEF P
      <3> QED BY <2>1, <3>1, <3>2
    <2> QED BY <2>1
  <1>4. g = [n \in Nat |-> IF n = 0 THEN s0 ELSE step[g[n - 1]]]
    BY <1>3
  <1> QED BY <1>4 DEF Rounds

(* Of finitely many numbers that are compared some way, one is as good as all *)
(* others and smaller than those that are as good.                            *)
LEMMA FirstOfBest ==
  ASSUME NEW S \in SUBSET Nat, IsFiniteSet(S), S # {}, NEW R,
         \A j \in S : \A k \in S : <<j, k>> \in R \/ <<k, j>> \in R,
         \A j \in S : \A k \in S : \A l \in S : <<j, k>> \in R /\ <<k, l>> \in R => <<j, l>> \in R
  PROVE  \E e \in S : \A k \in S : <<e, k>> \in R /\ (<<k, e>> \in R => e <= k)
  <1> DEFINE Best(T, e) == e \in T /\ \A k \in T : <<e, k>> \in R /\ (<<k, e>> \in R => e <= k)
             P == {T \in SUBSET S : T # {} => \E e : Best(T, e)}
  <1>1. ASSUME NEW T \in SUBSET S,
               \A U \in SUBSET S : Cardinality(U) < Cardinality(T) => U \in P
        PROVE  T \in P
    <2> SUFFICES ASSUME T # {} PROVE \E e : Best(T, e)
      OBVIOUS
    <2>1. PICK x \in T : TRUE
      OBVIOUS
    <2>2. T \ {x} \in P
      BY <1>1, FS_Subset, RemovalShrinks
    <2>3. CASE T \ {x} = {}
      <3>1. T = {x} /\ <<x, x>> \in R /\ x \in Nat
        BY <2>3
      <3> QED BY <3>1
    <2>4. CASE T \ {x} # {}
      <3>1. PICK e : Best(T \ {x}, e)
        BY <2>2, <2>4
      <3>2. /\ e \in S /\ x \in S /\ e # x /\ e \in Nat /\ x \in Nat /\ <<x, x>> \in R
            /\ \A k \in T : k = x \/ (<<e, k>> \in R /\ (<<k, e>> \in R => e <= k))
            /\ \A k \in T : k \in S /\ k \in Nat
        BY <3>1
      <3>3. CASE <<x, e>> \in R /\ (<<e, x>> \in R => x < e)
        <4>1. ASSUME NEW k \in T PROVE <<x, k>> \in R /\ (<<k, x>> \in R => x <= k)
          <5>1. CASE k = x
            BY <3>2, <5>1
          <5>2. CASE k # x
            <6>1. <<x, k>> \in R
              BY <3>2, <3>3, <5>2
            <6>2. ASSUME <<k, x>> \in R PROVE x <= k
              <7>1. <<k, e>> \in R /\ <<e, x>> \in R
                BY <3>2, <3>3, <5>2, <6>2
              <7>2. e <= k /\ x < e /\ k \in Nat
                BY <3>2, <3>3, <5>2, <7>1
              <7>3. e \in Nat /\ x \in Nat
                BY <3>2
              <7> QED BY ONLY <7>2, <7>3
            <6> QED BY <6>1, <6>2
          <5> QED BY <5>1, <5>2
        <4> QED BY <4>1
      <3>4. CASE ~(<<x, e>> \in R /\ (<<e, x>> \in R => x < e))
        <4>1. <<e, x>> \in R /\ (<<x, e>> \in R => e <= x)
          BY <3>2, <3>4
        <4>2. Best(T, e)
          BY <3>1, <3>2, <4>1
        <4> QED BY <4>2
      <3> QED BY <3>3, <3>4
    <2> QED BY <2>3, <2>4
  <1> HIDE DEF P
  <1>2. S \in P
    BY <1>1, SubsetInduction
  <1> QED BY <1>2 DEF P

(* What rises up to g and falls from there is highest at g.                   *)
LEMMA PeakIsHighest ==
  ASSUME NEW m \in Nat, NEW n \in Nat, NEW g \in m..n, NEW v,
         \A h \in m..n : v[h] \in Int,
         \A h \in m..n : g <= h /\ h < n => v[h + 1] <= v[h],
         \A h \in m..n : h < g => v[h] <= v[h + 1]
  PROVE  \A h \in m..n : v[h] <= v[g]
  <1> DEFINE Up == {k \in Nat : g + k <= n => v[g + k] <= v[g]}
             Down == {k \in Nat : g - k >= m => v[g - k] <= v[g]}
  <1>1. \A k \in Nat : k \in Up
    <2>1. 0 \in Up
      OBVIOUS
    <2>2. ASSUME NEW k \in Nat, k \in Up, g + (k + 1) <= n PROVE v[g + (k + 1)] <= v[g]
      <3>1. g + k \in m..n /\ g <= g + k /\ g + k < n /\ g + (k + 1) = (g + k) + 1
            /\ g + (k + 1) \in m..n
        BY <2>2
      <3>2. v[(g + k) + 1] <= v[g + k] /\ v[g + k] <= v[g]
        BY <2>2, <3>1
      <3> QED BY <3>1, <3>2
    <2>3. \A k \in Nat : k \in Up => k + 1 \in Up
      BY <2>2
    <2> HIDE DEF Up
    <2> QED BY <2>1, <2>3, Induction
  <1>2. \A k \in Nat : k \in Down
    <2>1. 0 \in Down
      OBVIOUS
    <2>2. ASSUME NEW k \in Nat, k \in Down, g - (k + 1) >= m PROVE v[g - (k + 1)] <= v[g]
      <3> PICK h \in m..n : h = g - (k + 1) /\ h < g /\ h + 1 = g - k /\ h + 1 \in m..n
        BY <2>2
      <3>1. v[h] <= v[h + 1] /\ v[h + 1] <= v[g]
        BY <2>2
      <3> QED BY <3>1
    <2>3. \A k \in Nat : k \in Down => k + 1 \in Down
      BY <2>2
    <2> HIDE DEF Down
    <2> QED BY <2>1, <2>3, Induction
  <1>3. ASSUME NEW h \in m..n PROVE v[h] <= v[g]
    <2>1. CASE h >= g
      <3>1. h - g \in Nat /\ g + (h - g) = h /\ h <= n
        BY <2>1
      <3> QED BY <1>1, <3>1
    <2>2. CASE h < g
      <3>1. g - h \in Nat /\ g - (g - h) = h /\ h >= m
        BY <2>2
      <3> QED BY <1>2, <3>1
    <2> QED BY <2>1, <2>2
  <1> QED BY <1>3

(* What never rises from one place to the next is nowhere higher than before. *)
LEMMA NeverRises ==
  ASSUME NEW m \in Nat, NEW n \in Nat, NEW v, \A h \in m..n : v[h] \in Int,
         \A h \in m..n : h < n => v[h + 1] <= v[h]
  PROVE  \A g \in m..n : \A h \in m..n : g <= h => v[h] <= v[g]
  <1> SUFFICES ASSUME NEW g \in m..n, NEW h \in m..n, g <= h PROVE v[h] <= v[g]
    OBVIOUS
  <1>1. \A i \in g..n : i \in m..n
    OBVIOUS
  <1>2. \A i \in g..n : v[i] <= v[g]
    <2>1. g \in Nat /\ g \in g..n
      OBVIOUS
    <2>2. /\ \A i \in g..n : v[i] \in Int
          /\ \A i \in g..n : g <= i /\ i < n => v[i + 1] <= v[i]
          /\ \A i \in g..n : i < g => v[i] <= v[i + 1]
      BY <1>1
    <2> QED BY ONLY <2>1, <2>2, n \in Nat, PeakIsHighest
  <1> QED BY <1>2
-----------------------------------------------------------------------------
(* Halving, and counting one to one.                                          *)

\* The search f between two samples, over the set E of those up to the time.
Pairs(n) == (1..n) \X (1..n)
MiddleOf(ends) == (ends[1] + ends[2]) \div 2

Narrowed(f, E, ends) ==
  IF ends[1] >= ends[2] - 1 THEN ends
  ELSE IF MiddleOf(ends) \in E THEN f[<<MiddleOf(ends), ends[2]>>]
  ELSE f[<<ends[1], MiddleOf(ends)>>]

LEMMA PairsAreNarrowed ==
  ASSUME NEW n \in Nat, NEW ends \in Pairs(n)
  PROVE  /\ ends[1] \in 1..n /\ ends[2] \in 1..n /\ ends[1] \in Int /\ ends[2] \in Int
         /\ ends[2] - ends[1] <= n
         /\ ~(ends[1] >= ends[2] - 1) =>
              /\ MiddleOf(ends) \in 1..n /\ ends[1] < MiddleOf(ends) /\ MiddleOf(ends) < ends[2]
              /\ <<ends[1], MiddleOf(ends)>> \in Pairs(n) /\ <<MiddleOf(ends), ends[2]>> \in Pairs(n)
  <1>1. ends[1] \in 1..n /\ ends[2] \in 1..n
    BY DEF Pairs
  <1> PICK lo \in 1..n, hi \in 1..n : lo = ends[1] /\ hi = ends[2]
    BY <1>1
  <1>2. lo \in Int /\ hi \in Int /\ hi - lo <= n
    OBVIOUS
  <1>3. ASSUME ~(lo >= hi - 1)
        PROVE  (lo + hi) \div 2 \in 1..n /\ lo < (lo + hi) \div 2 /\ (lo + hi) \div 2 < hi
    <2>1. lo \in Int /\ hi \in Int /\ hi - lo > 1 /\ lo >= 1 /\ hi <= n
      BY <1>3
    <2>2. (lo + hi) \div 2 \in Int /\ lo < (lo + hi) \div 2 /\ (lo + hi) \div 2 < hi
      BY <2>1
    <2> QED BY <2>1, <2>2
  <1>4. ~(lo >= hi - 1) =>
          <<ends[1], MiddleOf(ends)>> \in Pairs(n) /\ <<MiddleOf(ends), ends[2]>> \in Pairs(n)
    BY <1>1, <1>3 DEF Pairs, MiddleOf
  <1> QED BY <1>1, <1>2, <1>3, <1>4 DEF MiddleOf

LEMMA NarrowingExists ==
  ASSUME NEW m \in Nat, NEW E
  PROVE  \E f : f = [ends \in Pairs(m) |-> Narrowed(f, E, ends)]
  <1> DEFINE Upto(n, f) ==
               \A ends \in Pairs(m) : ends[2] - ends[1] <= n => f[ends] = Narrowed(f, E, ends)
             P == {n \in Nat : \E f : Upto(n, f)}
             none == [ends \in Pairs(m) |-> ends]
  <1>1. \A ends \in Pairs(m) : ends[1] \in Int /\ ends[2] \in Int
    BY PairsAreNarrowed
  <1>2. Upto(0, none)
    <2>1. \A ends \in Pairs(m) : ends[2] - ends[1] <= 0 => ends[1] >= ends[2] - 1
      BY <1>1
    <2> QED BY <2>1 DEF Narrowed
  <1>3. 0 \in P
    BY <1>2
  <1>4. ASSUME NEW n \in Nat, n \in P PROVE n + 1 \in P
    <2>1. PICK f : Upto(n, f)
      BY <1>4
    <2> DEFINE g == [ends \in Pairs(m) |-> Narrowed(f, E, ends)]
    <2>2. ASSUME NEW ends \in Pairs(m), ends[2] - ends[1] <= n + 1 PROVE g[ends] = Narrowed(g, E, ends)
      <3>1. CASE ends[1] >= ends[2] - 1
        BY <3>1 DEF Narrowed
      <3>2. CASE ~(ends[1] >= ends[2] - 1)
        <4> DEFINE low == <<ends[1], MiddleOf(ends)>>
                   high == <<MiddleOf(ends), ends[2]>>
        <4>1. /\ low \in Pairs(m) /\ high \in Pairs(m) /\ MiddleOf(ends) \in Int
              /\ ends[1] < MiddleOf(ends) /\ MiddleOf(ends) < ends[2]
          BY <1>1, <3>2, PairsAreNarrowed
        <4>2. low[1] = ends[1] /\ low[2] = MiddleOf(ends) /\ high[1] = MiddleOf(ends) /\ high[2] = ends[2]
          OBVIOUS
        <4> HIDE DEF low, high
        <4>3. low[2] - low[1] <= n /\ high[2] - high[1] <= n
          BY <1>1, <2>2, <4>1, <4>2
        <4>4. g[low] = f[low] /\ g[high] = f[high]
          BY <2>1, <4>1, <4>3
        <4>5. /\ Narrowed(f, E, ends) = IF MiddleOf(ends) \in E THEN f[high] ELSE f[low]
              /\ Narrowed(g, E, ends) = IF MiddleOf(ends) \in E THEN g[high] ELSE g[low]
          BY <3>2, Zenon DEF Narrowed, low, high
        <4>6. g[ends] = Narrowed(f, E, ends)
          OBVIOUS
        <4> QED BY <4>4, <4>5, <4>6, Zenon
      <3> QED BY <3>1, <3>2
    <2>3. Upto(n + 1, g)
      BY <2>2
    <2> HIDE DEF Upto
    <2> QED BY <2>3
  <1> HIDE DEF P
  <1>5. m \in P
    BY <1>3, <1>4, Induction
  <1>6. PICK f : Upto(m, f)
    BY <1>5 DEF P
  <1>7. \A ends \in Pairs(m) : f[ends] = Narrowed(f, E, ends)
    BY <1>6, PairsAreNarrowed
  <1> DEFINE h == [ends \in Pairs(m) |-> f[ends]]
  <1>8. ASSUME NEW ends \in Pairs(m) PROVE h[ends] = Narrowed(h, E, ends)
    <2>1. h[ends] = Narrowed(f, E, ends)
      BY <1>7
    <2>2. CASE ends[1] >= ends[2] - 1
      BY <2>1, <2>2 DEF Narrowed
    <2>3. CASE ~(ends[1] >= ends[2] - 1)
      <3>1. <<ends[1], MiddleOf(ends)>> \in Pairs(m) /\ <<MiddleOf(ends), ends[2]>> \in Pairs(m)
        BY <2>3, PairsAreNarrowed
      <3>2. /\ h[<<ends[1], MiddleOf(ends)>>] = f[<<ends[1], MiddleOf(ends)>>]
            /\ h[<<MiddleOf(ends), ends[2]>>] = f[<<MiddleOf(ends), ends[2]>>]
        BY <3>1
      <3> HIDE DEF h
      <3> QED BY <2>1, <2>3, <3>2 DEF Narrowed
    <2> QED BY <2>2, <2>3
  <1>9. h = [ends \in Pairs(m) |-> Narrowed(h, E, ends)]
    BY <1>8
  <1> QED BY <1>9, Zenon

LEMMA NarrowingFinds ==
  ASSUME NEW m \in Nat \ {0}, NEW E, NEW f,
         \A ends \in Pairs(m) : f[ends] = Narrowed(f, E, ends),
         1 \in E, m \notin E
  PROVE  LET found == f[<<1, m>>] IN
         found[1] \in 1..(m - 1) /\ found[2] = found[1] + 1 /\ found[1] \in E /\ found[2] \notin E
  <1> DEFINE Spans(ends) == ends[1] < ends[2] /\ ends[1] \in E /\ ends[2] \notin E
             Good(r) == r[1] \in 1..(m - 1) /\ r[2] = r[1] + 1 /\ r[1] \in E /\ r[2] \notin E
             P == {n \in Nat : \A ends \in Pairs(m) :
                     ends[2] - ends[1] <= n /\ Spans(ends) => Good(f[ends])}
  <1>1. 0 \in P
    <2>1. ASSUME NEW ends \in Pairs(m), ends[2] - ends[1] <= 0, ends[1] < ends[2] PROVE FALSE
      <3>1. ends[1] \in Int /\ ends[2] \in Int
        BY PairsAreNarrowed
      <3> QED BY <2>1, <3>1
    <2> HIDE DEF Good
    <2> QED BY <2>1
  <1>2. ASSUME NEW n \in Nat, n \in P PROVE n + 1 \in P
    <2> SUFFICES ASSUME NEW ends \in Pairs(m), ends[2] - ends[1] <= n + 1, Spans(ends)
                 PROVE  Good(f[ends])
      OBVIOUS
    <2>1. f[ends] = Narrowed(f, E, ends) /\ ends[1] \in 1..m /\ ends[2] \in 1..m
      BY PairsAreNarrowed
    <2>2. CASE ends[1] >= ends[2] - 1
      <3>1. f[ends] = ends
        BY <2>1, <2>2 DEF Narrowed
      <3>2. ends[2] = ends[1] + 1 /\ ends[1] \in 1..(m - 1)
        BY <2>1, <2>2
      <3> QED BY <3>1, <3>2
    <2>3. CASE ~(ends[1] >= ends[2] - 1)
      <3> DEFINE low == <<ends[1], MiddleOf(ends)>>
                 high == <<MiddleOf(ends), ends[2]>>
      <3>1. /\ low \in Pairs(m) /\ high \in Pairs(m) /\ MiddleOf(ends) \in 1..m
            /\ ends[1] < MiddleOf(ends) /\ MiddleOf(ends) < ends[2]
        BY <2>3, PairsAreNarrowed
      <3>2. low[1] = ends[1] /\ low[2] = MiddleOf(ends) /\ high[1] = MiddleOf(ends) /\ high[2] = ends[2]
        OBVIOUS
      <3>3. f[ends] = IF MiddleOf(ends) \in E THEN f[high] ELSE f[low]
        BY <2>1, <2>3, Zenon DEF Narrowed
      <3> HIDE DEF low, high
      <3>4. low[2] - low[1] <= n /\ high[2] - high[1] <= n
        BY <2>1, <3>1, <3>2
      <3>5. MiddleOf(ends) \in E => Spans(high)
        BY <3>1, <3>2
      <3>6. MiddleOf(ends) \notin E => Spans(low)
        BY <3>1, <3>2
      <3> HIDE DEF Spans, Good
      <3>7. /\ MiddleOf(ends) \in E => Good(f[high])
            /\ MiddleOf(ends) \notin E => Good(f[low])
        BY <1>2, <3>1, <3>4, <3>5, <3>6, Zenon
      <3> QED BY <3>3, <3>7, Zenon
    <2> QED BY <2>2, <2>3
  <1>3. m \in P
    <2> HIDE DEF P
    <2> QED BY <1>1, <1>2, Induction
  <1>4. <<1, m>> \in Pairs(m) /\ <<1, m>>[1] = 1 /\ <<1, m>>[2] = m /\ m # 1
    BY DEF Pairs
  <1>5. Good(f[<<1, m>>])
    <2> DEFINE all == <<1, m>>
    <2>1. all \in Pairs(m) /\ all[1] = 1 /\ all[2] = m
      BY <1>4
    <2>2. all[2] - all[1] <= m /\ Spans(all)
      BY <1>4, <2>1
    <2> HIDE DEF all, Good, Spans
    <2>3. Good(f[all])
      BY <1>3, <2>1, <2>2
    <2> QED BY <2>3 DEF all
  <1> QED BY <1>5

LEMMA BijectionCounts ==
  ASSUME NEW n \in Nat, NEW f \in Bijection(1..n, 1..n), NEW U \in SUBSET (1..n)
  PROVE  Cardinality({t \in 1..n : f[t] \in U}) = Cardinality(U)
  <1> DEFINE T == {t \in 1..n : f[t] \in U}
             g == [t \in T |-> f[t]]
  <1>1. /\ f \in [1..n -> 1..n] /\ \A t, u \in 1..n : f[t] = f[u] => t = u
        /\ \A u \in 1..n : \E t \in 1..n : f[t] = u
    BY DEF Bijection, Injection, IsInjective, Surjection
  <1>2. g \in Injection(T, U)
    <2>1. g \in [T -> U]
      OBVIOUS
    <2>2. \A t, u \in T : g[t] = g[u] => t = u
      BY <1>1
    <2> HIDE DEF g, T
    <2> QED BY <2>1, <2>2 DEF Injection, IsInjective
  <1>3. g \in Surjection(T, U)
    <2>1. g \in [T -> U]
      OBVIOUS
    <2>2. \A u \in U : \E t \in T : g[t] = u
      BY <1>1
    <2> HIDE DEF g, T
    <2> QED BY <2>1, <2>2 DEF Surjection
  <1>4. ExistsBijection(T, U)
    <2> HIDE DEF g, T
    <2> QED BY <1>2, <1>3 DEF ExistsBijection, Bijection
  <1>5. IsFiniteSet(T)
    <2>1. IsFiniteSet(1..n)
      BY FS_Interval
    <2> QED BY <2>1, FS_Subset
  <1> HIDE DEF T
  <1>6. Cardinality(U) = Cardinality(T)
    BY <1>4, <1>5, FS_Bijection
  <1> QED BY <1>6 DEF T
=============================================================================
