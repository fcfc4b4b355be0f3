------------------------- MODULE ElasticPool_proofs -------------------------
(* Proofs that a drained service stays drained, and that a docker pool's list *)
(* parts from the containers only through the faults that part them, for any  *)
(* number of jobs, services and pods and every wiring of the loop.            *)
EXTENDS ElasticPool, SumLemmas, SequenceTheorems

-----------------------------------------------------------------------------
(* Types.                                                                  *)

Faults == {"stop", "missing", "exit", "restart"}
DockerCalls == [job : Jobs, op : {"run", "stop"}, todo : Seq(Nat) \ {<<>>}]
KnativeCalls == [job : Jobs, op : {"patch", "list"}, target : Nat, waits : BOOLEAN]
Pods == [starting : Nat, ready : Nat, dying : Nat]

TypeOK ==
  /\ setup \in Setups /\ want \in [Jobs -> Nat]
  /\ call \in {NoCall} \union DockerCalls \union KnativeCalls
  /\ call \in DockerCalls => setup.backend = "docker"
  /\ spawned \in [Jobs -> Seq(Nat)] /\ containers \in [Jobs -> SUBSET Nat]
  /\ blame \in [Jobs -> SUBSET Faults]
  /\ scale \in [Services -> Nat] /\ pods \in [Services -> Pods]
  /\ reported \in [Services -> {"none", "reached", "timed_out"}]

LEMMA Ops ==
  ASSUME TypeOK
  PROVE  /\ call.op \in {"run", "stop"} => call \in DockerCalls
         /\ call.op \in {"patch", "list"} => call \in KnativeCalls
         /\ Idle <=> call.op = "none"
  BY DEF TypeOK, NoCall, Idle, DockerCalls, KnativeCalls

\* The names that a call has yet to see to.
LEMMA Names ==
  ASSUME NEW n \in Nat, NEW t \in Nat, n < t
  PROVE  /\ NewNames(n, t) \in Seq(Nat) \ {<<>>} /\ Len(NewNames(n, t)) = t - n
         /\ \A i \in 1..(t - n) : NewNames(n, t)[i] = n + i - 1
  <1>1. t - n \in Nat \ {0}
    OBVIOUS
  <1>2. \A i \in 1..(t - n) : n + i - 1 \in Nat
    OBVIOUS
  <1>3. NewNames(n, t) \in [1..(t - n) -> Nat]
    BY <1>2 DEF NewNames
  <1>4. NewNames(n, t) \in Seq(Nat) /\ Len(NewNames(n, t)) = t - n
    BY <1>1, <1>3
  <1> QED BY <1>1, <1>4 DEF NewNames

LEMMA Surpluses ==
  ASSUME NEW s \in Seq(Nat), NEW t \in Nat, t < Len(s)
  PROVE  LET r == SubSeq(s, t + 1, Len(s)) IN
         /\ r \in Seq(Nat) \ {<<>>} /\ Len(r) = Len(s) - t
         /\ \A i \in 1..(Len(s) - t) : r[i] = s[t + i]
  <1> DEFINE r == SubSeq(s, t + 1, Len(s))
  <1>1. Len(s) \in Nat
    BY LenProperties
  <1>2. /\ r \in Seq(Nat) /\ Len(r) = Len(s) - t
        /\ \A i \in 1..(Len(s) - t) : r[i] = s[t + i]
    BY <1>1, SubSeqProperties
  <1>3. r # <<>>
    <2>1. Len(r) # 0 /\ Len(<<>>) = 0
      BY <1>1, <1>2
    <2> QED BY <2>1
  <1> QED BY <1>2, <1>3

LEMMA Advances ==
  ASSUME call \in DockerCalls, Advance
  PROVE  /\ call'  \in {NoCall} \union DockerCalls
         /\ call' = NoCall <=> Len(call.todo) = 1
         /\ call' # NoCall => /\ call'.job = call.job /\ call'.op = call.op
                              /\ Len(call'.todo) = Len(call.todo) - 1
                              /\ \A i \in 1..Len(call'.todo) : call'.todo[i] = call.todo[i + 1]
  <1>1. call.todo \in Seq(Nat) /\ call.todo # <<>> /\ Len(call.todo) \in Nat \ {0}
    <2>1. call.todo \in Seq(Nat) /\ call.todo # <<>>
      BY DEF DockerCalls
    <2>2. Len(call.todo) \in Nat /\ Len(call.todo) # 0
      BY <2>1, LenProperties, EmptySeq
    <2> QED BY <2>1, <2>2
  <1>2. CASE Len(call.todo) = 1
    BY <1>2 DEF Advance
  <1>3. CASE Len(call.todo) # 1
    <2> DEFINE rest == Tail(call.todo)
    <2>1. /\ rest \in Seq(Nat) /\ Len(rest) = Len(call.todo) - 1
          /\ \A i \in 1..Len(rest) : rest[i] = call.todo[i + 1]
      BY <1>1, HeadTailProperties
    <2>2. rest # <<>>
      <3>1. Len(rest) # 0 /\ Len(<<>>) = 0
        BY <1>1, <1>3, <2>1
      <3> QED BY <3>1
    <2>3. call' = [call EXCEPT !.todo = rest]
      BY <1>3 DEF Advance
    <2> HIDE DEF rest
    <2>4. call' \in DockerCalls /\ call'.job = call.job /\ call'.op = call.op /\ call'.todo = rest
      BY <2>1, <2>2, <2>3 DEF DockerCalls
    <2>5. call' # NoCall
      BY <2>4 DEF NoCall, DockerCalls
    <2> QED BY <1>3, <2>1, <2>4, <2>5
  <1> QED BY <1>2, <1>3

\* list.remove takes the first one and leaves the others in their order.
LEMMA RemovesFirst ==
  ASSUME NEW s \in Seq(Nat), NEW k \in 1..Len(s), \A i \in 1..(k - 1) : s[i] # s[k]
  PROVE  LET r == RemoveFirst(s, s[k]) IN
         /\ r \in Seq(Nat) /\ Len(r) = Len(s) - 1
         /\ \A i \in 1..(Len(s) - 1) : r[i] = IF i < k THEN s[i] ELSE s[i + 1]
  <1> DEFINE I == {i \in 1..Len(s) : s[i] = s[k]}
             r == RemoveFirst(s, s[k])
             a == SubSeq(s, 1, k - 1)
             b == SubSeq(s, k + 1, Len(s))
  <1>0. Len(s) \in Nat /\ k \in Nat /\ k >= 1 /\ k <= Len(s)
    BY LenProperties
  <1>1. k \in I /\ \A i \in I : k <= i
    BY <1>0
  <1>2. Min(I) = k
    <2>1. I \subseteq Nat
      BY <1>0
    <2> HIDE DEF I
    <2>2. Min(I) \in I /\ \A i \in I : Min(I) <= i
      BY <1>1 DEF Min
    <2>3. Min(I) \in Nat /\ Min(I) <= k /\ k <= Min(I)
      BY <1>1, <2>1, <2>2
    <2> QED BY <1>0, <2>3
  <1>3. SelectInSeq(s, LAMBDA v : v = s[k]) = k
    BY <1>1, <1>2 DEF SelectInSeq
  <1>4. r = a \o b
    BY <1>3 DEF RemoveFirst, RemoveAt
  <1>5. a \in Seq(Nat) /\ Len(a) = k - 1 /\ \A i \in 1..(k - 1) : a[i] = s[i]
    BY <1>0, SubSeqProperties
  <1>6. b \in Seq(Nat) /\ Len(b) = Len(s) - k /\ \A i \in 1..(Len(s) - k) : b[i] = s[k + i]
    BY <1>0, SubSeqProperties
  <1> HIDE DEF r, a, b
  <1>7. r \in Seq(Nat) /\ Len(r) = Len(a) + Len(b)
        /\ \A i \in 1..(Len(a) + Len(b)) : r[i] = IF i <= Len(a) THEN a[i] ELSE b[i - Len(a)]
    BY <1>4, <1>5, <1>6, ConcatProperties
  <1>8. ASSUME NEW i \in 1..(Len(s) - 1) PROVE r[i] = IF i < k THEN s[i] ELSE s[i + 1]
    <2>1. i \in 1..(Len(a) + Len(b))
      BY <1>0, <1>5, <1>6
    <2>2. CASE i < k
      <3>1. i \in 1..(k - 1) /\ i <= Len(a)
        BY <1>0, <1>5, <2>2
      <3> QED BY <1>5, <1>7, <2>1, <2>2, <3>1
    <2>3. CASE ~(i < k)
      <3>1. i - Len(a) \in 1..(Len(s) - k) /\ ~(i <= Len(a)) /\ k + (i - Len(a)) = i + 1
        BY <1>0, <1>5, <2>3
      <3> QED BY <1>6, <1>7, <2>1, <2>3, <3>1
    <2> QED BY <2>2, <2>3
  <1>9. Len(r) = Len(s) - 1
    BY <1>0, <1>5, <1>6, <1>7
  <1> QED BY <1>7, <1>8, <1>9 DEF r

Distinct(s) == \A i, j \in 1..Len(s) : s[i] = s[j] => i = j

LEMMA FirstPlace ==
  ASSUME NEW s \in Seq(Nat), NEW x \in ToSet(s)
  PROVE  \E k \in 1..Len(s) : s[k] = x /\ \A i \in 1..(k - 1) : s[i] # x
  <1> DEFINE I == {i \in 1..Len(s) : s[i] = x}
  <1>1. I \in SUBSET Nat /\ I # {} /\ Len(s) \in Nat
    <2>1. Len(s) \in Nat /\ DOMAIN s = 1..Len(s)
      BY LenProperties
    <2> QED BY <2>1 DEF ToSet
  <1>2. PICK k \in I : \A i \in I : k <= i
    <2> HIDE DEF I
    <2> QED BY <1>1, SmallestExists
  <1>3. \A i \in 1..(k - 1) : i \in 1..Len(s) /\ ~(k <= i)
    BY <1>1
  <1> QED BY <1>2, <1>3

LEMMA Members ==
  ASSUME NEW s \in Seq(Nat)
  PROVE  Len(s) \in Nat /\ \A x : x \in ToSet(s) <=> \E i \in 1..Len(s) : s[i] = x
  <1>1. Len(s) \in Nat /\ DOMAIN s = 1..Len(s)
    BY LenProperties
  <1> QED BY <1>1 DEF ToSet

LEMMA Removing ==
  ASSUME NEW s \in Seq(Nat), NEW x
  PROVE  LET r == RemoveFirst(s, x) IN
         /\ r \in Seq(Nat)
         /\ ToSet(s) \ {x} \subseteq ToSet(r) /\ ToSet(r) \subseteq ToSet(s)
         /\ Distinct(s) => Distinct(r) /\ x \notin ToSet(r)
  <1> DEFINE r == RemoveFirst(s, x)
             n == Len(s)
  <1>0. n \in Nat /\ \A y : y \in ToSet(s) <=> \E i \in 1..n : s[i] = y
    BY Members
  <1>1. CASE x \notin ToSet(s)
    <2>1. ~\E i \in 1..Len(s) : s[i] = x
      BY <1>0, <1>1
    <2>2. r = s
      BY <2>1 DEF RemoveFirst
    <2> QED BY <1>1, <2>2
  <1>2. CASE x \in ToSet(s)
    <2>1. PICK k \in 1..n : s[k] = x /\ \A i \in 1..(k - 1) : s[i] # x
      BY <1>2, FirstPlace
    <2>2. /\ r \in Seq(Nat) /\ Len(r) = n - 1
          /\ \A i \in 1..(n - 1) : r[i] = IF i < k THEN s[i] ELSE s[i + 1]
      <3>1. \A i \in 1..(k - 1) : s[i] # s[k]
        BY <2>1
      <3>2. LET q == RemoveFirst(s, s[k]) IN
              /\ q \in Seq(Nat) /\ Len(q) = Len(s) - 1
              /\ \A i \in 1..(Len(s) - 1) : q[i] = IF i < k THEN s[i] ELSE s[i + 1]
        BY <3>1, RemovesFirst
      <3> QED BY <2>1, <3>2
    <2> HIDE DEF r
    <2>3. \A y : y \in ToSet(r) <=> \E i \in 1..(n - 1) : r[i] = y
      BY <2>2, Members
    <2>4. ASSUME NEW y \in ToSet(s), y # x PROVE y \in ToSet(r)
      <3>1. PICK i \in 1..n : s[i] = y
        BY <1>0
      <3>2. i # k
        BY <2>1, <2>4, <3>1
      <3>3. CASE i < k
        <4>1. i \in 1..(n - 1)
          BY <1>0, <3>3
        <4> QED BY <2>2, <2>3, <3>1, <3>3, <4>1
      <3>4. CASE i > k
        <4>1. i - 1 \in 1..(n - 1) /\ ~(i - 1 < k) /\ (i - 1) + 1 = i
          BY <1>0, <3>4
        <4>2. r[i - 1] = s[i]
          BY <2>2, <4>1
        <4> QED BY <2>3, <3>1, <4>1, <4>2
      <3> QED BY <1>0, <3>2, <3>3, <3>4
    <2>5. ASSUME NEW i \in 1..(n - 1)
          PROVE  \E p \in 1..n : p # k /\ r[i] = s[p] /\ p = (IF i < k THEN i ELSE i + 1)
      <3>1. CASE i < k
        <4>1. i \in 1..n /\ i # k
          BY <1>0, <3>1
        <4> QED BY <2>2, <3>1, <4>1
      <3>2. CASE ~(i < k)
        <4>1. i + 1 \in 1..n /\ i + 1 # k
          BY <1>0, <3>2
        <4> QED BY <2>2, <3>2, <4>1
      <3> QED BY <3>1, <3>2
    <2>6. ToSet(r) \subseteq ToSet(s)
      BY <1>0, <2>3, <2>5
    <2>7. ASSUME Distinct(s) PROVE Distinct(r) /\ x \notin ToSet(r)
      <3>1. x \notin ToSet(r)
        BY <2>1, <2>3, <2>5, <2>7 DEF Distinct
      <3>2. ASSUME NEW i \in 1..(n - 1), NEW j \in 1..(n - 1), r[i] = r[j] PROVE i = j
        <4>1. PICK p \in 1..n : r[i] = s[p] /\ p = (IF i < k THEN i ELSE i + 1)
          BY <2>5
        <4>2. PICK q \in 1..n : r[j] = s[q] /\ q = (IF j < k THEN j ELSE j + 1)
          BY <2>5
        <4>3. p = q
          BY <2>7, <3>2, <4>1, <4>2 DEF Distinct
        <4> QED BY <1>0, <4>1, <4>2, <4>3
      <3> QED BY <2>2, <3>1, <3>2 DEF Distinct
    <2> QED BY <2>2, <2>4, <2>6, <2>7 DEF r
  <1> QED BY <1>1, <1>2

-----------------------------------------------------------------------------
(* A docker pool's list.                                                   *)

Dense(s) == \A i \in 1..Len(s) : s[i] = i - 1

\* A scale-down to t that has todo left: the names below t, and those.
Cutting(s, todo) ==
  \E t \in 0..Len(s) :
    /\ Len(s) = t + Len(todo) /\ t <= todo[1]
    /\ \A i \in 1..t : s[i] = i - 1
    /\ \A i \in 1..Len(todo) : s[t + i] = todo[i] /\ todo[i] = todo[1] + (i - 1)

Stopping(j) == call.op = "stop" /\ call.job = j

\* Names are dense, but for those of the call in progress.
Kept(j) ==
  /\ blame[j] \intersect {"stop", "restart"} = {} => containers[j] \subseteq ToSet(spawned[j])
  /\ "exit" \notin blame[j] => ToSet(spawned[j]) \subseteq containers[j] /\ Distinct(spawned[j])
  /\ "missing" \notin blame[j] =>
       IF Stopping(j) THEN Cutting(spawned[j], call.todo) ELSE Dense(spawned[j])

RunningOn ==
  call.op = "run" =>
    \A i \in 1..Len(call.todo) : call.todo[i] = Len(spawned[call.job]) + (i - 1)

ListInv == RunningOn /\ \A j \in Jobs : Kept(j)

\* A name more, at the end, or the first of the surplus less.
LEMMA DenseGrows ==
  ASSUME NEW s \in Seq(Nat), NEW x \in Nat
  PROVE  LET r == Append(s, x) IN
         /\ r \in Seq(Nat) /\ Len(r) = Len(s) + 1 /\ ToSet(r) = ToSet(s) \union {x}
         /\ Dense(s) /\ x = Len(s) => Dense(r)
         /\ Distinct(s) /\ x \notin ToSet(s) => Distinct(r)
  <1> DEFINE r == Append(s, x)
             n == Len(s)
  <1>1. n \in Nat /\ \A y : y \in ToSet(s) <=> \E i \in 1..n : s[i] = y
    BY Members
  <1>2. r \in Seq(Nat) /\ Len(r) = n + 1 /\ r[n + 1] = x /\ \A i \in 1..n : r[i] = s[i]
    BY AppendProperties
  <1> HIDE DEF r
  <1>3. \A i \in 1..(n + 1) : i \in 1..n \/ i = n + 1
    BY <1>1
  <1>4. n + 1 \in 1..(n + 1) /\ 1..n \subseteq 1..(n + 1)
    BY <1>1
  <1>5. ToSet(r) = ToSet(s) \union {x}
    <2>1. \A y : y \in ToSet(r) <=> \E i \in 1..(n + 1) : r[i] = y
      BY <1>2, Members
    <2> QED BY <1>1, <1>2, <1>3, <1>4, <2>1
  <1>6. ASSUME Dense(s), x = n PROVE Dense(r)
    <2> SUFFICES ASSUME NEW i \in 1..(n + 1) PROVE r[i] = i - 1
      BY <1>2 DEF Dense
    <2>1. CASE i \in 1..n
      BY <1>2, <1>6, <2>1 DEF Dense
    <2>2. CASE i = n + 1
      BY <1>1, <1>2, <1>6, <2>2
    <2> QED BY <1>3, <2>1, <2>2
  <1>7. ASSUME Distinct(s), x \notin ToSet(s) PROVE Distinct(r)
    <2> SUFFICES ASSUME NEW i \in 1..(n + 1), NEW j \in 1..(n + 1), r[i] = r[j] PROVE i = j
      BY <1>2 DEF Distinct
    <2>1. \A k \in 1..n : s[k] # x
      BY <1>1, <1>7
    <2> QED BY <1>2, <1>3, <1>7, <2>1 DEF Distinct
  <1> QED BY <1>2, <1>5, <1>6, <1>7 DEF r

LEMMA CutMore ==
  ASSUME NEW s \in Seq(Nat), NEW todo \in Seq(Nat), Len(todo) \in Nat \ {0}, Cutting(s, todo)
  PROVE  LET r == RemoveFirst(s, todo[1]) IN
         /\ Len(todo) = 1 => Dense(r)
         /\ \A rest : (/\ rest \in Seq(Nat) /\ Len(rest) = Len(todo) - 1 /\ Len(rest) # 0
                       /\ \A i \in 1..Len(rest) : rest[i] = todo[i + 1]) => Cutting(r, rest)
  <1> DEFINE n == Len(s)
             m == Len(todo)
             r == RemoveFirst(s, todo[1])
  <1>0. n \in Nat /\ m \in Nat \ {0} /\ todo[1] \in Nat
    <2>1. 1 \in 1..m
      OBVIOUS
    <2> QED BY <2>1, LenProperties, ElementOfSeq
  <1>1. PICK t \in 0..n :
          /\ n = t + m /\ t <= todo[1]
          /\ \A i \in 1..t : s[i] = i - 1
          /\ \A i \in 1..m : s[t + i] = todo[i] /\ todo[i] = todo[1] + (i - 1)
    BY DEF Cutting
  <1>2. t \in Nat /\ t + 1 \in 1..n /\ s[t + 1] = todo[1]
    BY <1>0, <1>1
  <1>3. \A i \in 1..((t + 1) - 1) : s[i] # s[t + 1]
    <2> SUFFICES ASSUME NEW i \in 1..((t + 1) - 1) PROVE s[i] # s[t + 1]
      OBVIOUS
    <2>1. i \in 1..t
      BY <1>2
    <2>2. s[i] = i - 1 /\ i - 1 < t
      BY <1>1, <1>2, <2>1
    <2> QED BY <1>0, <1>1, <1>2, <2>2
  <1>4. /\ r \in Seq(Nat) /\ Len(r) = n - 1
        /\ \A i \in 1..(n - 1) : r[i] = IF i < t + 1 THEN s[i] ELSE s[i + 1]
    <2> DEFINE k == t + 1
    <2>1. k \in 1..Len(s) /\ (\A i \in 1..(k - 1) : s[i] # s[k]) /\ s[k] = todo[1]
      BY <1>2, <1>3
    <2> HIDE DEF k
    <2>2. LET q == RemoveFirst(s, s[k]) IN
            /\ q \in Seq(Nat) /\ Len(q) = Len(s) - 1
            /\ \A i \in 1..(Len(s) - 1) : q[i] = IF i < k THEN s[i] ELSE s[i + 1]
      BY <2>1, RemovesFirst
    <2> QED BY <2>1, <2>2 DEF k
  <1> HIDE DEF r
  <1>5. \A i \in 1..t : r[i] = i - 1
    <2> SUFFICES ASSUME NEW i \in 1..t PROVE r[i] = i - 1
      OBVIOUS
    <2>1. i \in 1..(n - 1) /\ i < t + 1
      BY <1>0, <1>1, <1>2
    <2> QED BY <1>1, <1>4, <2>1
  <1>6. ASSUME m = 1 PROVE Dense(r)
    <2>1. Len(r) = t
      BY <1>0, <1>1, <1>2, <1>4, <1>6
    <2> QED BY <1>5, <2>1 DEF Dense
  <1>7. ASSUME NEW rest, rest \in Seq(Nat), Len(rest) = m - 1, Len(rest) # 0,
               \A i \in 1..Len(rest) : rest[i] = todo[i + 1]
        PROVE  Cutting(r, rest)
    <2>1. Len(rest) \in Nat /\ 1 \in 1..Len(rest)
      BY <1>0, <1>7
    <2>2. Len(r) = t + Len(rest) /\ t \in 0..Len(r)
      BY <1>0, <1>1, <1>2, <1>4, <1>7
    <2>3. rest[1] = todo[1] + 1
      <3>1. rest[1] = todo[2] /\ 2 \in 1..m
        BY <1>0, <1>7, <2>1
      <3>2. todo[2] = todo[1] + (2 - 1)
        BY <1>1, <3>1
      <3> QED BY <1>0, <3>1, <3>2
    <2>4. t <= rest[1]
      BY <1>0, <1>1, <1>2, <2>3
    <2>5. ASSUME NEW i \in 1..Len(rest)
          PROVE  r[t + i] = rest[i] /\ rest[i] = rest[1] + (i - 1)
      <3>1. i + 1 \in 1..m /\ t + i \in 1..(n - 1) /\ ~(t + i < t + 1)
        BY <1>0, <1>1, <1>2, <1>7
      <3>2. r[t + i] = s[(t + i) + 1]
        BY <1>4, <3>1
      <3>3. (t + i) + 1 = t + (i + 1)
        BY <1>2
      <3>4. s[t + (i + 1)] = todo[i + 1] /\ todo[i + 1] = todo[1] + ((i + 1) - 1)
        BY <1>1, <3>1
      <3> QED BY <1>0, <1>7, <2>3, <3>2, <3>3, <3>4
    <2> QED BY <1>5, <2>2, <2>4, <2>5 DEF Cutting
  <1> QED BY <1>6, <1>7 DEF r

-----------------------------------------------------------------------------
(* Types are kept.                                                         *)

LEMMA InitType == Init => TypeOK
  <1> SUFFICES ASSUME Init PROVE TypeOK
    OBVIOUS
  <1>1. call = NoCall /\ NoCall \notin DockerCalls
    BY DEF Init, PoolInit, NoCall, DockerCalls
  <1>2. <<>> \in Seq(Nat)
    OBVIOUS
  <1> QED BY <1>1, <1>2 DEF Init, PoolInit, DockerInit, KnativeInit, TypeOK, Pods

LEMMA DockerStepType == TypeOK /\ DockerNext /\ UNCHANGED knativeVars => TypeOK'
  <1> SUFFICES ASSUME TypeOK, DockerNext, UNCHANGED knativeVars PROVE TypeOK'
    OBVIOUS
  <1> USE DEF TypeOK, knativeVars
  <1>n. NoCall \notin DockerCalls
    BY DEF NoCall, DockerCalls
  <1>1. ASSUME NEW j \in Jobs, DockerBegin(j) PROVE TypeOK'
    <2> DEFINE n == Len(spawned[j])
    <2>1. n \in Nat /\ want[j] \in Nat /\ spawned[j] \in Seq(Nat)
      BY LenProperties
    <2>2. CASE want[j] > n
      <3>1. call' = DockerCall(j, "run", NewNames(n, want[j]))
        BY <1>1, <2>1, <2>2 DEF DockerBegin
      <3>2. NewNames(n, want[j]) \in Seq(Nat) \ {<<>>}
        BY <2>1, <2>2, Names
      <3>3. call' \in DockerCalls
        BY <3>1, <3>2 DEF DockerCall, DockerCalls
      <3> QED BY <1>1, <3>3 DEF DockerBegin, dockerVars
    <2>3. CASE want[j] < n
      <3>1. call' = DockerCall(j, "stop", Surplus(j, want[j]))
        BY <1>1, <2>1, <2>3 DEF DockerBegin
      <3>2. Surplus(j, want[j]) \in Seq(Nat) \ {<<>>}
        BY <2>1, <2>3, Surpluses DEF Surplus
      <3>3. call' \in DockerCalls
        BY <3>1, <3>2 DEF DockerCall, DockerCalls
      <3> QED BY <1>1, <3>3 DEF DockerBegin, dockerVars
    <2> QED BY <1>1, <2>2, <2>3 DEF DockerBegin
  <1>2. CASE DockerRun
    <2> DEFINE j == call.job
               x == call.todo[1]
    <2>1. call \in DockerCalls
      BY <1>2, Ops DEF DockerRun
    <2>2. j \in Jobs /\ x \in Nat /\ Head(call.todo) = x
      <3>1. call.todo \in Seq(Nat) /\ call.todo # <<>>
        BY <2>1 DEF DockerCalls
      <3> QED BY <2>1, <3>1, HeadTailProperties DEF DockerCalls
    <2>3. CASE call' = NoCall /\ UNCHANGED <<containers, spawned>>
      BY <1>2, <1>n, <2>3 DEF DockerRun
    <2>4. CASE /\ Advance
               /\ containers' = [containers EXCEPT ![j] = @ \union {x}]
               /\ spawned' = [spawned EXCEPT ![j] = Append(@, x)]
      <3>1. call' \in {NoCall} \union DockerCalls
        BY <2>1, <2>4, Advances
      <3>2. spawned' \in [Jobs -> Seq(Nat)] /\ containers' \in [Jobs -> SUBSET Nat]
        BY <2>2, <2>4, AppendProperties
      <3> QED BY <1>2, <2>1, <3>1, <3>2 DEF DockerRun
    <2> QED BY <1>2, <2>2, <2>3, <2>4 DEF DockerRun, RunOne
  <1>3. CASE DockerStop
    <2> DEFINE j == call.job
               x == Head(call.todo)
    <2>1. call \in DockerCalls /\ j \in Jobs
      BY <1>3, Ops DEF DockerStop, DockerCalls
    <2>2. call' \in {NoCall} \union DockerCalls
      BY <1>3, <2>1, Advances DEF DockerStop
    <2>3. spawned' \in [Jobs -> Seq(Nat)]
      <3>1. RemoveFirst(spawned[j], x) \in Seq(Nat)
        BY <2>1, Removing
      <3> QED BY <1>3, <2>1, <3>1 DEF DockerStop
    <2>4. containers' \in [Jobs -> SUBSET Nat] /\ blame' \in [Jobs -> SUBSET Faults]
      <3>1. \/ containers' = [containers EXCEPT ![j] = @ \ {x}] /\ blame' = blame
            \/ containers' = containers /\ blame' = [blame EXCEPT ![j] = @ \union {"stop"}]
        BY <1>3 DEF DockerStop
      <3>2. containers' \in [Jobs -> SUBSET Nat]
        BY <2>1, <3>1
      <3>3. blame[j] \union {"stop"} \in SUBSET Faults
        BY <2>1 DEF Faults
      <3>4. blame' \in [Jobs -> SUBSET Faults]
        BY <2>1, <3>1, <3>3
      <3> QED BY <3>2, <3>4
    <2> QED BY <1>3, <2>1, <2>2, <2>3, <2>4 DEF DockerStop
  <1>4. CASE DockerMissing
    BY <1>4, <1>n DEF DockerMissing, Faults
  <1>5. ASSUME NEW j \in Jobs, Exit(j) PROVE TypeOK'
    BY <1>5 DEF Exit, Faults, callVars
  <1>6. CASE Restart
    <2>1. <<>> \in Seq(Nat)
      OBVIOUS
    <2> QED BY <1>6, <1>n, <2>1 DEF Restart, Faults
  <1> QED BY <1>1, <1>2, <1>3, <1>4, <1>5, <1>6 DEF DockerNext, DockerStep

\* Pods come and go, but none that is not there.
Moved(s, a, b, c) ==
  /\ PodsChange(s, a, b, c) /\ {a, b, c} \subseteq Int
  /\ pods[s].starting + a >= 0 /\ pods[s].ready + b >= 0 /\ pods[s].dying + c >= 0

LEMMA PodsTyped ==
  ASSUME TypeOK, NEW s \in Services, NEW a, NEW b, NEW c, Moved(s, a, b, c)
  PROVE  /\ pods' \in [Services -> Pods]
         /\ pods'[s].starting = pods[s].starting + a /\ pods'[s].ready = pods[s].ready + b
         /\ pods'[s].dying = pods[s].dying + c
         /\ \A r \in Services \ {s} : pods'[r] = pods[r]
  <1>1. pods[s] \in Pods /\ pods \in [Services -> Pods]
    BY DEF TypeOK
  <1> DEFINE x == pods[s].starting + a
             y == pods[s].ready + b
             z == pods[s].dying + c
  <1>2. pods' = [pods EXCEPT ![s].starting = x, ![s].ready = y, ![s].dying = z]
    BY <1>1 DEF PodsChange, Moved
  <1>3. x \in Nat /\ y \in Nat /\ z \in Nat
    BY <1>1 DEF Pods, Moved
  <1>4. x = pods[s].starting + a /\ y = pods[s].ready + b /\ z = pods[s].dying + c
    OBVIOUS
  <1> HIDE DEF x, y, z
  <1>5. pods'[s] = [pods[s] EXCEPT !.starting = x, !.ready = y, !.dying = z]
        /\ \A r \in Services \ {s} : pods'[r] = pods[r]
    BY <1>1, <1>2
  <1>6. pods'[s] \in Pods /\ pods'[s].starting = x /\ pods'[s].ready = y /\ pods'[s].dying = z
    BY <1>1, <1>3, <1>5 DEF Pods
  <1>7. pods' \in [Services -> Pods]
    <2>1. DOMAIN pods' = Services /\ pods' = [r \in Services |-> pods'[r]]
      BY <1>1, <1>2
    <2>2. \A r \in Services : pods'[r] \in Pods
      BY <1>1, <1>5, <1>6
    <2> QED BY <2>1, <2>2
  <1> QED BY <1>4, <1>5, <1>6, <1>7

LEMMA PodsMove ==
  ASSUME TypeOK, NEW s \in Services, Cluster(s) \/ Evict(s)
  PROVE  \/ Moved(s, 1, 0, 0) /\ Live(s) < scale[s]
         \/ \E a, b, c \in Int : Moved(s, a, b, c) /\ a + b + c \in {-1, 0} /\ Listed(s) > 0
  <1>1. pods[s].starting \in Nat /\ pods[s].ready \in Nat /\ pods[s].dying \in Nat
    BY DEF TypeOK, Pods
  <1>2. CASE CreatePod(s)
    BY <1>1, <1>2 DEF CreatePod, Moved
  <1>3. CASE BecomeReady(s)
    <2>1. Moved(s, -1, 1, 0) /\ Listed(s) > 0 /\ (-1) + 1 + 0 = 0
      BY <1>1, <1>3 DEF BecomeReady, Moved, Listed, Live
    <2> QED BY <2>1
  <1>4. CASE Terminate(s)
    <2>1. Moved(s, -1, 0, 1) \/ Moved(s, 0, -1, 1)
      BY <1>1, <1>4 DEF Terminate, Moved
    <2>2. Listed(s) > 0 /\ (-1) + 0 + 1 = 0 /\ 0 + (-1) + 1 = 0
      BY <1>1, <1>4 DEF Terminate, Listed, Live
    <2> QED BY <2>1, <2>2
  <1>5. CASE PodEnds(s)
    <2>1. Moved(s, 0, 0, -1) /\ Listed(s) > 0 /\ 0 + 0 + (-1) = -1
      BY <1>1, <1>5 DEF PodEnds, Moved, Listed, Live
    <2> QED BY <2>1
  <1>6. CASE Evict(s)
    <2>1. Moved(s, 0, -1, 1) /\ Listed(s) > 0 /\ 0 + (-1) + 1 = 0
      BY <1>1, <1>6 DEF Evict, Moved, Listed, Live
    <2> QED BY <2>1
  <1> QED BY <1>2, <1>3, <1>4, <1>5, <1>6 DEF Cluster

LEMMA KnativeStepType == TypeOK /\ KnativeNext /\ UNCHANGED dockerVars => TypeOK'
  <1> SUFFICES ASSUME TypeOK, KnativeNext, UNCHANGED dockerVars PROVE TypeOK'
    OBVIOUS
  <1> USE DEF TypeOK, dockerVars
  <1>n. NoCall \notin DockerCalls /\ KnativeCalls \intersect DockerCalls = {}
    BY DEF NoCall, DockerCalls, KnativeCalls
  <1>1. ASSUME NEW j \in Jobs, KnativeBegin(j) PROVE TypeOK'
    <2>1. call' \in KnativeCalls
      BY <1>1 DEF KnativeBegin, KnativeCalls
    <2> QED BY <1>1, <1>n, <2>1 DEF KnativeBegin, knativeVars
  <1>2. CASE Patch
    <2>1. call \in KnativeCalls
      BY <1>2, Ops DEF Patch
    <2>2. CASE call' = [call EXCEPT !.op = "list"]
      <3>1. call' \in KnativeCalls
        BY <2>1, <2>2 DEF KnativeCalls
      <3>2. scale' \in [Services -> Nat] /\ reported' \in [Services -> {"none", "reached", "timed_out"}]
        BY <1>2, <2>1 DEF Patch, KnativeCalls
      <3> QED BY <1>2, <1>n, <3>1, <3>2 DEF Patch
    <2>3. CASE call' = NoCall /\ UNCHANGED <<scale, reported>>
      BY <1>2, <1>n, <2>3 DEF Patch
    <2> QED BY <1>2, <2>2, <2>3 DEF Patch
  <1>3. CASE Poll
    <2>1. reported' \in [Services -> {"none", "reached", "timed_out"}]
      BY <1>3 DEF Poll
    <2> QED BY <1>3, <1>n, <2>1 DEF Poll
  <1>4. CASE PollFails \/ Forget
    BY <1>4, <1>n DEF PollFails, Forget, knativeVars
  <1>5. ASSUME NEW s \in Services, Cluster(s) \/ Evict(s) PROVE TypeOK'
    <2>1. \E a, b, c \in Int : Moved(s, a, b, c)
      BY <1>5, PodsMove
    <2>2. pods' \in [Services -> Pods]
      BY <2>1, PodsTyped
    <2>3. UNCHANGED <<callVars, scale, reported>>
      BY <1>5 DEF Cluster, CreatePod, BecomeReady, Terminate, PodEnds, Evict, PodsChange
    <2> QED BY <2>2, <2>3 DEF callVars
  <1> QED BY <1>1, <1>2, <1>3, <1>4, <1>5 DEF KnativeNext

LEMMA StepType == TypeOK /\ [Next]_vars => TypeOK'
  <1> SUFFICES ASSUME TypeOK, [Next]_vars PROVE TypeOK'
    OBVIOUS
  <1>1. CASE UNCHANGED vars
    BY <1>1 DEF vars, callVars, dockerVars, knativeVars, TypeOK
  <1>2. ASSUME NEW j \in Jobs, Retarget(j), UNCHANGED <<dockerVars, knativeVars>>
        PROVE  TypeOK'
    <2>1. setup.widest \in Nat
      BY PoolAssumption DEF TypeOK
    <2> QED BY <1>2, <2>1 DEF Retarget, dockerVars, knativeVars, TypeOK
  <1> QED BY <1>1, <1>2, DockerStepType, KnativeStepType DEF Next, Docker, Knative

-----------------------------------------------------------------------------
(* A drained service.                                                      *)

DrainInv ==
  /\ call.op = "list" => scale[ServiceOf(call.job)] = call.target
  /\ DrainIsFinal

LEMMA StepDrain == TypeOK /\ DrainInv /\ [Next]_vars => DrainInv'
  <1> SUFFICES ASSUME TypeOK, DrainInv, [Next]_vars PROVE DrainInv'
    OBVIOUS
  <1>n. NoCall.op = "none"
    BY DEF NoCall
  <1>t. \A s \in Services : pods[s].starting \in Nat /\ pods[s].ready \in Nat /\ pods[s].dying \in Nat
    BY DEF TypeOK, Pods
  <1>1. CASE UNCHANGED vars
    BY <1>1 DEF vars, callVars, knativeVars, DrainInv, DrainIsFinal, Listed, Live, ServiceOf
  <1>2. CASE UNCHANGED knativeVars /\ call'.op # "list"
    BY <1>2 DEF knativeVars, DrainInv, DrainIsFinal, Listed, Live
  <1>3. ASSUME NEW j \in Jobs, Retarget(j), UNCHANGED knativeVars PROVE DrainInv'
    <2>1. call'.op # "list"
      BY <1>3, <1>n DEF Retarget, Idle
    <2> QED BY <1>2, <1>3, <2>1
  <1>4. ASSUME DockerNext, UNCHANGED knativeVars PROVE DrainInv'
    <2>1. ASSUME NEW j \in Jobs, DockerBegin(j) PROVE call'.op # "list"
      BY <2>1 DEF DockerBegin, DockerCall
    <2>2. ASSUME DockerStep PROVE call'.op # "list"
      <3>1. call \in DockerCalls /\ call.op \in {"run", "stop"}
        BY <2>2, Ops DEF DockerStep, DockerRun, DockerStop
      <3>2. Advance \/ call' = NoCall
        BY <2>2 DEF DockerStep, DockerRun, RunOne, DockerStop
      <3>3. call' = NoCall \/ call'.op = call.op
        BY <3>1, <3>2, Advances
      <3> QED BY <1>n, <3>1, <3>3
    <2>3. CASE DockerMissing \/ Restart
      BY <1>2, <1>4, <1>n, <2>3 DEF DockerMissing, Restart
    <2>4. ASSUME NEW j \in Jobs, Exit(j) PROVE DrainInv'
      BY <1>4, <2>4 DEF Exit, callVars, knativeVars, DrainInv, DrainIsFinal, Listed, Live, ServiceOf
    <2> QED BY <1>2, <1>4, <2>1, <2>2, <2>3, <2>4 DEF DockerNext
  <1>5. ASSUME NEW j \in Jobs, KnativeBegin(j) PROVE DrainInv'
    BY <1>2, <1>5 DEF KnativeBegin
  <1>6. CASE Patch
    <2> DEFINE s == ServiceOf(call.job)
    <2>1. call \in KnativeCalls /\ s \in Services /\ pods' = pods
      <3>1. call \in KnativeCalls
        BY <1>6, Ops DEF Patch
      <3>2. call.job \in Jobs
        BY <3>1 DEF KnativeCalls
      <3>3. setup.route \in [Jobs -> Services]
        BY KnativeAssumption DEF TypeOK
      <3> QED BY <1>6, <3>1, <3>2, <3>3 DEF Patch, ServiceOf
    <2>2. CASE /\ scale' = [scale EXCEPT ![s] = call.target]
               /\ reported' = [reported EXCEPT ![s] = "none"]
               /\ call' = [call EXCEPT !.op = "list"]
      <3>1. call'.job = call.job /\ call'.target = call.target /\ setup'.route[call'.job] = s
        BY <1>6, <2>1, <2>2 DEF KnativeCalls, ServiceOf, Patch
      <3>2. scale'[s] = call.target /\ reported'[s] = "none"
        BY <2>1, <2>2 DEF TypeOK
      <3>3. \A r \in Services \ {s} : scale'[r] = scale[r] /\ reported'[r] = reported[r]
        BY <2>2 DEF TypeOK
      <3>4. DrainIsFinal'
        BY <2>1, <3>2, <3>3 DEF DrainInv, DrainIsFinal, Listed, Live
      <3>5. scale'[setup'.route[call'.job]] = call'.target
        BY <3>1, <3>2
      <3> QED BY <3>4, <3>5 DEF DrainInv, ServiceOf
    <2>3. CASE call' = NoCall /\ UNCHANGED <<scale, reported>>
      BY <1>n, <2>1, <2>3 DEF DrainInv, DrainIsFinal, Listed, Live
    <2> QED BY <1>6, <2>2, <2>3 DEF Patch
  <1>7. CASE Poll
    <2> DEFINE s == ServiceOf(call.job)
    <2>1. PICK ready \in pods[s].ready..(pods[s].ready + pods[s].dying) :
            reported' = [reported EXCEPT ![s] =
              IF Reached(call.target, call.waits, ready, Listed(s)) THEN "reached" ELSE "timed_out"]
      BY <1>7 DEF Poll
    <2>2. scale' = scale /\ pods' = pods /\ call' = NoCall /\ call.op = "list"
      BY <1>7 DEF Poll
    <2>3. scale[s] = call.target
      BY <2>2 DEF DrainInv
    <2>4. ASSUME NEW r \in Services, scale[r] = 0, reported'[r] = "reached" PROVE Listed(r) = 0
      <3>1. CASE r = s
        BY <2>1, <2>3, <2>4, <3>1 DEF TypeOK, Reached
      <3>2. CASE r # s
        BY <2>1, <2>4, <3>2 DEF TypeOK, DrainInv, DrainIsFinal
      <3> QED BY <3>1, <3>2
    <2>5. DrainIsFinal'
      BY <2>2, <2>4 DEF DrainIsFinal, Listed, Live
    <2> QED BY <1>n, <2>2, <2>5 DEF DrainInv
  <1>8. CASE PollFails \/ Forget
    BY <1>2, <1>8, <1>n DEF PollFails, Forget
  <1>9. ASSUME NEW s \in Services, Cluster(s) \/ Evict(s) PROVE DrainInv'
    <2>1. UNCHANGED <<callVars, scale, reported>>
      BY <1>9 DEF Cluster, CreatePod, BecomeReady, Terminate, PodEnds, Evict, PodsChange
    <2>2. \A r \in Services \ {s} : pods'[r] = pods[r]
      <3>1. \E a, b, c : Moved(s, a, b, c)
        BY <1>9, PodsMove
      <3> QED BY <3>1, PodsTyped
    <2>3. ~(scale[s] = 0 /\ reported[s] = "reached")
      <3> SUFFICES ASSUME scale[s] = 0, reported[s] = "reached" PROVE FALSE
        OBVIOUS
      <3>1. Listed(s) = 0
        BY DEF DrainInv, DrainIsFinal
      <3>2. Live(s) < 0
        BY <1>9, <3>1, PodsMove
      <3> QED BY <1>t, <3>2 DEF Live
    <2>4. DrainIsFinal'
      BY <2>1, <2>2, <2>3 DEF DrainInv, DrainIsFinal, Listed, Live
    <2> QED BY <2>1, <2>4 DEF DrainInv, callVars, ServiceOf
  <1> QED BY <1>1, <1>3, <1>4, <1>5, <1>6, <1>7, <1>8, <1>9 DEF Next, Docker, Knative, KnativeNext

(* A reported drain is final: until the service is patched again no pod is    *)
(* left, whoever polls, evicts or restarts meanwhile (knative_pool.py:160).   *)
THEOREM DrainsAreFinal == Spec => []DrainIsFinal
  <1>1. Init => DrainInv
    BY DEF Init, PoolInit, KnativeInit, NoCall, DrainInv, DrainIsFinal
  <1>2. DrainInv => DrainIsFinal
    BY DEF DrainInv
  <1> QED BY <1>1, <1>2, InitType, StepType, StepDrain, PTL DEF Spec

-----------------------------------------------------------------------------
(* What the docker pool believes.                                          *)

LEMMA BeginKeeps ==
  ASSUME TypeOK, ListInv, NEW j \in Jobs, DockerBegin(j)
  PROVE  ListInv'
  <1> DEFINE s == spawned[j]
             n == Len(s)
  <1>1. call.op = "none" /\ spawned' = spawned /\ containers' = containers /\ blame' = blame
    BY Ops DEF DockerBegin, dockerVars
  <1>2. n \in Nat /\ want[j] \in Nat /\ s \in Seq(Nat)
    BY LenProperties DEF TypeOK
  <1>3. /\ call'.job = j
        /\ \/ want[j] > n /\ call'.op = "run" /\ call'.todo = NewNames(n, want[j])
           \/ want[j] < n /\ call'.op = "stop" /\ call'.todo = Surplus(j, want[j])
    BY DEF DockerBegin, DockerCall
  <1>4. RunningOn'
    <2> SUFFICES ASSUME call'.op = "run", NEW i \in 1..Len(call'.todo)
                 PROVE  call'.todo[i] = Len(spawned'[call'.job]) + (i - 1)
      BY DEF RunningOn
    <2>1. want[j] > n /\ call'.todo = NewNames(n, want[j])
      BY <1>3
    <2>2. Len(NewNames(n, want[j])) = want[j] - n
          /\ \A k \in 1..(want[j] - n) : NewNames(n, want[j])[k] = n + k - 1
      BY <1>2, <2>1, Names
    <2>3. call'.todo[i] = n + i - 1
      BY <2>1, <2>2
    <2>4. n + i - 1 = n + (i - 1)
      BY <1>2
    <2> QED BY <1>1, <1>3, <2>3, <2>4
  <1>5. ASSUME "missing" \notin blame[j], call'.op = "stop" PROVE Cutting(s, call'.todo)
    <2> DEFINE t == want[j]
               todo == call'.todo
    <2>1. t < n /\ todo = SubSeq(s, t + 1, Len(s))
      BY <1>3, <1>5 DEF Surplus
    <2>2. Dense(s)
      BY <1>1, <1>5 DEF ListInv, Kept, Stopping
    <2>3. Len(todo) = n - t /\ \A i \in 1..(n - t) : todo[i] = s[t + i]
      BY <1>2, <2>1, Surpluses, ZenonT(30)
    <2>4. t \in 0..n /\ n = t + Len(todo) /\ 1 \in 1..(n - t)
      BY <1>2, <2>1, <2>3, SMTT(30)
    <2>5. ASSUME NEW i \in 1..(n - t)
          PROVE  t + i \in 1..n /\ todo[i] = t + i - 1
      <3>1. t + i \in 1..n
        BY <1>2, <2>1, SMTT(30)
      <3>2. s[t + i] = (t + i) - 1
        BY <2>2, <3>1 DEF Dense
      <3> QED BY <1>2, <2>3, <3>1, <3>2
    <2>6. todo[1] = t
      BY <1>2, <2>4, <2>5
    <2>7. \A i \in 1..t : s[i] = i - 1
      BY <1>2, <2>1, <2>2 DEF Dense
    <2>8. \A i \in 1..Len(todo) : s[t + i] = todo[i] /\ todo[i] = todo[1] + (i - 1)
      BY <1>2, <2>3, <2>5, <2>6
    <2>9. t <= todo[1]
      BY <1>2, <2>6
    <2> HIDE DEF t
    <2> QED BY <2>4, <2>7, <2>8, <2>9 DEF Cutting
  <1>6. ASSUME NEW i \in Jobs PROVE Kept(i)'
    <2>1. Kept(i) /\ ~Stopping(i)
      BY <1>1 DEF ListInv, Stopping
    <2>2. CASE i = j
      BY <1>1, <1>3, <1>5, <2>1, <2>2 DEF Kept, Stopping
    <2>3. CASE i # j
      BY <1>1, <1>3, <2>1, <2>3 DEF Kept, Stopping
    <2> QED BY <2>2, <2>3
  <1> QED BY <1>4, <1>6 DEF ListInv

LEMMA RunKeeps ==
  ASSUME TypeOK, ListInv, DockerRun
  PROVE  ListInv'
  <1>j. PICK j : j = call.job
    OBVIOUS
  <1> USE <1>j
  <1> DEFINE s == spawned[j]
             x == call.todo[1]
  <1>n. NoCall.op = "none"
    BY DEF NoCall
  <1>1. call \in DockerCalls /\ call.op = "run" /\ blame' = blame
    BY Ops DEF DockerRun
  <1>2. /\ j \in Jobs /\ x \in Nat /\ Head(call.todo) = x /\ s \in Seq(Nat)
        /\ Len(s) \in Nat /\ Len(call.todo) \in Nat \ {0}
    <2>1. call.todo \in Seq(Nat) /\ call.todo # <<>> /\ j \in Jobs
      BY <1>1 DEF DockerCalls
    <2>2. Len(call.todo) \in Nat /\ Len(call.todo) # 0
      BY <2>1, LenProperties, EmptySeq
    <2> QED BY <2>1, <2>2, LenProperties, HeadTailProperties DEF TypeOK
  <1>3. \A i \in Jobs : Kept(i) /\ ~Stopping(i)
    BY <1>1 DEF ListInv, Stopping
  <1>4. CASE call' = NoCall /\ UNCHANGED <<containers, spawned>>
    BY <1>1, <1>3, <1>4, <1>n DEF ListInv, RunningOn, Kept, Stopping
  <1>5. CASE /\ x \notin containers[j] /\ Advance
             /\ containers' = [containers EXCEPT ![j] = @ \union {x}]
             /\ spawned' = [spawned EXCEPT ![j] = Append(@, x)]
    <2> DEFINE r == Append(s, x)
    <2>1. /\ spawned'[j] = r /\ containers'[j] = containers[j] \union {x}
          /\ \A i \in Jobs \ {j} : spawned'[i] = spawned[i] /\ containers'[i] = containers[i]
      BY <1>2, <1>5 DEF TypeOK
    <2>2. x = Len(s) + (1 - 1)
      BY <1>1, <1>2 DEF ListInv, RunningOn
    <2>3. /\ r \in Seq(Nat) /\ Len(r) = Len(s) + 1 /\ ToSet(r) = ToSet(s) \union {x}
          /\ Dense(s) /\ x = Len(s) => Dense(r)
          /\ Distinct(s) /\ x \notin ToSet(s) => Distinct(r)
      BY <1>2, DenseGrows
    <2>4. call' = NoCall \/ (/\ call'.job = j /\ call'.op = "run"
                             /\ Len(call'.todo) = Len(call.todo) - 1
                             /\ \A i \in 1..Len(call'.todo) : call'.todo[i] = call.todo[i + 1])
      BY <1>1, <1>5, Advances
    <2>5. \A i \in Jobs : ~Stopping(i)'
      BY <1>n, <2>4 DEF Stopping
    <2>6. x = Len(s)
      BY <1>2, <2>2
    <2> HIDE DEF r, x
    <2>7. Kept(j)'
      BY <1>1, <1>2, <1>3, <1>5, <2>1, <2>3, <2>5, <2>6 DEF Kept
    <2>8. \A i \in Jobs \ {j} : Kept(i)'
      BY <1>1, <1>3, <2>1, <2>5 DEF Kept
    <2>9. RunningOn'
      <3> SUFFICES ASSUME call'.op = "run", NEW i \in 1..Len(call'.todo)
                   PROVE  call'.todo[i] = Len(spawned'[call'.job]) + (i - 1)
        BY DEF RunningOn
      <3>1. /\ call'.job = j /\ Len(call'.todo) = Len(call.todo) - 1
            /\ call'.todo[i] = call.todo[i + 1]
        BY <1>n, <2>4
      <3>2. i + 1 \in 1..Len(call.todo)
        BY <1>2, <3>1
      <3>3. call.todo[i + 1] = Len(s) + ((i + 1) - 1)
        BY <1>1, <3>2 DEF ListInv, RunningOn
      <3>4. Len(spawned'[call'.job]) = Len(s) + 1
        BY <2>1, <2>3, <3>1
      <3> QED BY <1>2, <3>1, <3>3, <3>4
    <2> QED BY <2>7, <2>8, <2>9 DEF ListInv
  <1> QED BY <1>2, <1>4, <1>5 DEF DockerRun, RunOne

LEMMA StopKeeps ==
  ASSUME TypeOK, ListInv, DockerStop
  PROVE  ListInv'
  <1>j. PICK j : j = call.job
    OBVIOUS
  <1> USE <1>j
  <1> DEFINE s == spawned[j]
             todo == call.todo
             x == call.todo[1]
             r == RemoveFirst(s, x)
  <1>n. NoCall.op = "none"
    BY DEF NoCall
  <1>1. call \in DockerCalls /\ call.op = "stop" /\ Advance
    BY Ops DEF DockerStop
  <1>2. /\ j \in Jobs /\ x \in Nat /\ Head(call.todo) = x /\ s \in Seq(Nat)
        /\ todo \in Seq(Nat) /\ Len(todo) \in Nat \ {0}
    <2>1. call.todo \in Seq(Nat) /\ call.todo # <<>> /\ j \in Jobs
      BY <1>1 DEF DockerCalls
    <2>2. Len(call.todo) \in Nat /\ Len(call.todo) # 0
      BY <2>1, LenProperties, EmptySeq
    <2> QED BY <2>1, <2>2, HeadTailProperties DEF TypeOK
  <1>3. /\ spawned'[j] = r /\ \A i \in Jobs \ {j} : spawned'[i] = spawned[i]
    <2>1. spawned' = [spawned EXCEPT ![j] = r]
      BY <1>2 DEF DockerStop
    <2> QED BY <1>2, <2>1 DEF TypeOK
  <1>4. /\ \A i \in Jobs \ {j} : containers'[i] = containers[i] /\ blame'[i] = blame[i]
        /\ \/ containers'[j] = containers[j] \ {x} /\ blame'[j] = blame[j]
           \/ containers'[j] = containers[j] /\ blame'[j] = blame[j] \union {"stop"}
    <2>1. \/ containers' = [containers EXCEPT ![j] = @ \ {x}] /\ blame' = blame
          \/ containers' = containers /\ blame' = [blame EXCEPT ![j] = @ \union {"stop"}]
      BY <1>2 DEF DockerStop
    <2> QED BY <1>2, <2>1 DEF TypeOK
  <1>5. /\ r \in Seq(Nat)
        /\ ToSet(s) \ {x} \subseteq ToSet(r) /\ ToSet(r) \subseteq ToSet(s)
        /\ Distinct(s) => Distinct(r) /\ x \notin ToSet(r)
    BY <1>2, Removing
  <1>6. /\ call' = NoCall <=> Len(todo) = 1
        /\ call' # NoCall => /\ call'.job = j /\ call'.op = "stop"
                             /\ Len(call'.todo) = Len(todo) - 1
                             /\ \A i \in 1..Len(call'.todo) : call'.todo[i] = todo[i + 1]
                             /\ call'.todo \in Seq(Nat) /\ Len(call'.todo) # 0
    <2>1. call' # NoCall => call' \in DockerCalls
      BY <1>1, Advances
    <2>2. /\ call' = NoCall <=> Len(todo) = 1
          /\ call' # NoCall => /\ call'.job = j /\ call'.op = "stop"
                               /\ Len(call'.todo) = Len(todo) - 1
                               /\ \A i \in 1..Len(call'.todo) : call'.todo[i] = todo[i + 1]
      BY <1>1, Advances
    <2> QED BY <1>2, <2>1, <2>2 DEF DockerCalls
  <1>7. \A i \in Jobs \ {j} : ~Stopping(i) /\ ~Stopping(i)'
    BY <1>1, <1>6, <1>n DEF Stopping
  <1>8. \A i \in Jobs \ {j} : Kept(i)'
    BY <1>3, <1>4, <1>7 DEF ListInv, Kept
  <1>9. RunningOn'
    BY <1>6, <1>n DEF RunningOn
  <1>10. ASSUME "missing" \notin blame'[j]
         PROVE  IF Stopping(j)' THEN Cutting(r, call'.todo) ELSE Dense(r)
    <2>1. Cutting(s, todo)
      <3>1. "missing" \notin blame[j] /\ Stopping(j) /\ Kept(j)
        BY <1>1, <1>2, <1>4, <1>10 DEF Stopping, ListInv
      <3> QED BY <3>1 DEF Kept
    <2>2. /\ Len(todo) = 1 => Dense(r)
          /\ \A rest : (/\ rest \in Seq(Nat) /\ Len(rest) = Len(todo) - 1 /\ Len(rest) # 0
                        /\ \A i \in 1..Len(rest) : rest[i] = todo[i + 1]) => Cutting(r, rest)
      BY <1>2, <2>1, CutMore
    <2>3. CASE call' = NoCall
      BY <1>6, <1>n, <2>2, <2>3 DEF Stopping
    <2>4. CASE call' # NoCall
      BY <1>6, <2>2, <2>4 DEF Stopping
    <2> QED BY <2>3, <2>4
  <1>11. Kept(j)
    BY <1>2 DEF ListInv
  <1>12. blame'[j] \intersect {"stop", "restart"} = {} => containers'[j] \subseteq ToSet(r)
    BY <1>4, <1>5, <1>11 DEF Kept
  <1>13. "exit" \notin blame'[j] => ToSet(r) \subseteq containers'[j] /\ Distinct(r)
    BY <1>4, <1>5, <1>11 DEF Kept
  <1>14. Kept(j)'
    BY <1>3, <1>10, <1>12, <1>13 DEF Kept
  <1> QED BY <1>8, <1>9, <1>14 DEF ListInv

LEMMA Nothing ==
  Dense(<<>>) /\ Distinct(<<>>) /\ ToSet(<<>>) = {}
  BY DEF Dense, Distinct, ToSet

LEMMA StepList == TypeOK /\ ListInv /\ [Next]_vars => ListInv'
  <1> SUFFICES ASSUME TypeOK, ListInv, [Next]_vars PROVE ListInv'
    OBVIOUS
  <1>n. NoCall.op = "none"
    BY DEF NoCall
  <1>1. CASE UNCHANGED vars
    BY <1>1 DEF vars, callVars, dockerVars, ListInv, RunningOn, Kept, Stopping
  <1>2. ASSUME UNCHANGED dockerVars, call.op \notin {"run", "stop"},
               call'.op \notin {"run", "stop"}
        PROVE  ListInv'
    BY <1>2 DEF dockerVars, ListInv, RunningOn, Kept, Stopping
  <1>3. ASSUME NEW j \in Jobs, Retarget(j), UNCHANGED dockerVars PROVE ListInv'
    BY <1>2, <1>3, <1>n DEF Retarget, Idle
  <1>4. ASSUME KnativeNext, UNCHANGED dockerVars PROVE ListInv'
    <2>1. ASSUME NEW j \in Jobs, KnativeBegin(j) PROVE ListInv'
      BY <1>2, <1>4, <1>n, <2>1 DEF KnativeBegin, Idle
    <2>2. CASE Patch
      <3>1. call.op = "patch" /\ call \in KnativeCalls
        BY <2>2, Ops DEF Patch
      <3>2. call'.op \in {"none", "list"}
        BY <1>n, <2>2, <3>1 DEF Patch, KnativeCalls
      <3> QED BY <1>2, <1>4, <3>1, <3>2
    <2>3. CASE Poll \/ PollFails
      BY <1>2, <1>4, <1>n, <2>3 DEF Poll, PollFails
    <2>4. CASE Forget
      <3>1. call.op \notin {"run", "stop"}
        BY <2>4, Ops DEF Forget, TypeOK
      <3> QED BY <1>2, <1>4, <1>n, <2>4, <3>1 DEF Forget
    <2>5. ASSUME NEW s \in Services, Cluster(s) \/ Evict(s) PROVE ListInv'
      <3>1. UNCHANGED callVars
        BY <2>5 DEF Cluster, CreatePod, BecomeReady, Terminate, PodEnds, Evict, PodsChange
      <3> QED BY <1>4, <3>1 DEF callVars, dockerVars, ListInv, RunningOn, Kept, Stopping
    <2> QED BY <1>4, <2>1, <2>2, <2>3, <2>4, <2>5 DEF KnativeNext
  <1>5. CASE DockerMissing
    <2>j. PICK j : j = call.job
      OBVIOUS
    <2> USE <2>j
    <2>1. call.op = "stop" /\ call' = NoCall /\ spawned' = spawned /\ containers' = containers
      BY <1>5 DEF DockerMissing
    <2>2. j \in Jobs
      BY <2>1, Ops DEF DockerCalls
    <2>3. blame'[j] = blame[j] \union {"missing"} /\ \A i \in Jobs \ {j} : blame'[i] = blame[i]
      BY <1>5, <2>2 DEF DockerMissing, TypeOK
    <2>4. Kept(j)'
      BY <2>1, <2>2, <2>3 DEF ListInv, Kept
    <2>5. \A i \in Jobs \ {j} : Kept(i)'
      BY <1>n, <2>1, <2>3 DEF ListInv, Kept, Stopping
    <2> QED BY <1>n, <2>1, <2>4, <2>5 DEF ListInv, RunningOn
  <1>6. ASSUME NEW j \in Jobs, Exit(j) PROVE ListInv'
    <2>1. PICK x \in containers[j] : containers' = [containers EXCEPT ![j] = @ \ {x}]
      BY <1>6 DEF Exit
    <2>2. /\ blame'[j] = blame[j] \union {"exit"} /\ containers'[j] = containers[j] \ {x}
          /\ \A i \in Jobs \ {j} : blame'[i] = blame[i] /\ containers'[i] = containers[i]
          /\ spawned' = spawned /\ call' = call
      BY <1>6, <2>1 DEF Exit, TypeOK, callVars
    <2>3. Kept(j)'
      BY <2>2 DEF ListInv, Kept, Stopping
    <2>4. \A i \in Jobs \ {j} : Kept(i)'
      BY <2>2 DEF ListInv, Kept, Stopping
    <2> QED BY <2>2, <2>3, <2>4 DEF ListInv, RunningOn
  <1>7. CASE Restart
    <2>1. /\ call' = NoCall /\ containers' = containers
          /\ \A i \in Jobs : spawned'[i] = <<>>
          /\ \A i \in Jobs : containers[i] # {} => "restart" \in blame'[i]
      BY <1>7 DEF Restart
    <2>2. \A i \in Jobs : Kept(i)'
      BY <1>n, <2>1, Nothing DEF Kept, Stopping
    <2> QED BY <1>n, <2>1, <2>2 DEF ListInv, RunningOn
  <1> QED BY <1>1, <1>3, <1>4, <1>5, <1>6, <1>7, BeginKeeps, RunKeeps, StopKeeps
          DEF Next, Docker, Knative, DockerNext, DockerStep

(* The list and the containers part only through the faults that part them    *)
(* (local_pool.py:33): without a failed stop or a restart no container is     *)
(* forgotten, without an exit none is imagined, and unless a scale-down was   *)
(* cut short the names are dense, so that counting them gives the next one.   *)
THEOREM ListIsTrusted == Spec => []ListMatchesDaemon
  <1>1. Init => ListInv
    <2> SUFFICES ASSUME Init PROVE ListInv
      OBVIOUS
    <2>1. call.op = "none" /\ \A j \in Jobs : spawned[j] = <<>> /\ containers[j] = {}
      BY DEF Init, PoolInit, DockerInit, NoCall
    <2>2. \A j \in Jobs : Kept(j)
      BY <2>1, Nothing DEF Kept, Stopping
    <2> QED BY <2>1, <2>2 DEF ListInv, RunningOn
  <1>2. TypeOK /\ ListInv => ListMatchesDaemon
    <2> SUFFICES ASSUME TypeOK, ListInv, NEW j \in Jobs
                 PROVE  /\ blame[j] \intersect {"stop", "restart"} = {} =>
                             containers[j] \subseteq ToSet(spawned[j])
                        /\ "exit" \notin blame[j] => ToSet(spawned[j]) \subseteq containers[j]
                        /\ Idle /\ "missing" \notin blame[j] =>
                             spawned[j] = NewNames(0, Len(spawned[j]))
      BY DEF ListMatchesDaemon
    <2>1. Kept(j)
      BY DEF ListInv
    <2>2. ASSUME Idle, "missing" \notin blame[j]
          PROVE  spawned[j] = NewNames(0, Len(spawned[j]))
      <3> DEFINE s == spawned[j]
                 n == Len(s)
      <3>1. Dense(s)
        BY <2>1, <2>2, Ops DEF Kept, Stopping
      <3>2. s \in Seq(Nat)
        BY DEF TypeOK
      <3>3. n \in Nat /\ s = [k \in 1..n |-> s[k]]
        BY <3>2, LenProperties
      <3>4. n - 0 = n /\ \A k \in 1..n : s[k] = 0 + k - 1
        BY <3>1, <3>3 DEF Dense
      <3> HIDE DEF s, n
      <3>5. NewNames(0, n) = [k \in 1..n |-> 0 + k - 1]
        BY <3>4 DEF NewNames
      <3> QED BY <3>3, <3>4, <3>5 DEF s, n
    <2> QED BY <2>1, <2>2 DEF Kept
  <1> QED BY <1>1, <1>2, InitType, StepType, StepList, PTL DEF Spec
=============================================================================
