------------------------ MODULE RepairSchedulerProofs ------------------------
(***************************************************************************)
(* Theorems about RepairScheduler for every number of clusters and tasks.  *)
(* Each task is in one round; a round never has a cluster send twice or    *)
(* receive twice; and the schedule is as short as any schedule can be.     *)
(*                                                                         *)
(* The model computes with recursive functions (totals, the padding, the   *)
(* search for an augmenting path).  What they compute is proved from their *)
(* definitions: the function each CHOOSE stands for exists (Recursion,     *)
(* DfsExists), and what holds of its first value and is handed on from     *)
(* each value to the next holds of all (UpTo, SearchInduction).            *)
(*                                                                         *)
(* The argument is Koenig's.  Padding makes the links regular: all nodes   *)
(* send and receive the same number d of tasks (PaddingIsRegular).  A      *)
(* search that failed would leave a set S of destinations that holds all   *)
(* neighbours of |S| + 1 sources, which send (|S| + 1) d tasks that S has  *)
(* no room for (SearchSucceeds).  So each matching is perfect, each round  *)
(* leaves all nodes d - 1, and as the busiest node has no dummy link, no   *)
(* round is dropped (RoundHasTasks).                                       *)
(***************************************************************************)
EXTENDS RepairScheduler, FiniteSetTheorems, WellFoundedInduction, TLAPS

\* A set of numbers has a least one.
LEMMA MinMember ==
  ASSUME NEW S, S \subseteq Nat, S # {}
  PROVE  Min(S) \in S /\ \A y \in S : Min(S) <= y
<1> DEFINE T == {0 .. x : x \in S}
<1>1. T \subseteq FiniteSubsetsOf(Nat)
  <2> SUFFICES ASSUME NEW x \in S
               PROVE  0 .. x \in FiniteSubsetsOf(Nat)
    OBVIOUS
  <2>1. x \in Nat /\ x \in Int /\ 0 \in Int
    OBVIOUS
  <2>2. IsFiniteSet(0 .. x)
    BY ONLY <2>1, FS_Interval, Zenon
  <2>3. 0 .. x \subseteq Nat
    BY <2>1
  <2> QED
    BY <2>2, <2>3 DEF FiniteSubsetsOf
<1>2. T # {}
  OBVIOUS
<1>3. IsWellFoundedOn(StrictSubsetOrdering(Nat), FiniteSubsetsOf(Nat))
  BY FS_StrictSubsetOrderingWellFounded
<1> HIDE DEF T
<1>4. PICK m \in T : \A y \in T : ~ (<<y, m>> \in StrictSubsetOrdering(Nat))
  BY ONLY <1>1, <1>2, <1>3, WFMin, Zenon
<1>5. PICK x \in S : m = 0 .. x
  BY DEF T
<1>6. \A y \in S : x <= y
  <2> SUFFICES ASSUME NEW y \in S, y < x
               PROVE  FALSE
    BY <1>5
  <2>1. 0 .. y \in T
    BY DEF T
  <2>2. /\ 0 .. y \subseteq 0 .. x /\ x \in 0 .. x /\ x \notin 0 .. y
        /\ 0 .. y \in SUBSET Nat /\ 0 .. x \in SUBSET Nat
    OBVIOUS
  <2>3. <<0 .. y, m>> \in StrictSubsetOrdering(Nat)
    BY <1>5, <2>2 DEF StrictSubsetOrdering
  <2> QED
    BY <1>4, <2>1, <2>3
<1> QED
  BY <1>6 DEF Min

\* What holds of 0 and of every successor holds of all numbers up to N.
LEMMA UpTo ==
  ASSUME NEW N \in Nat, NEW P, 0 \in P,
         \A n \in 1 .. N : n - 1 \in P => n \in P
  PROVE  \A n \in 0 .. N : n \in P
<1> SUFFICES ASSUME NEW x \in 0 .. N, x \notin P
             PROVE  FALSE
  OBVIOUS
<1> DEFINE T == {n \in 0 .. N : n \notin P}
<1>1. T \subseteq Nat /\ T # {}
  OBVIOUS
<1>2. PICK m \in T : \A y \in T : m <= y
  BY <1>1, MinMember
<1>3. m # 0 /\ m \in 1 .. N
  BY <1>2
<1>4. m - 1 \in 0 .. N /\ m - 1 \notin T
  BY <1>2, <1>3
<1> QED
  BY <1>2, <1>3, <1>4

\* A finite set of numbers has a largest one.
LEMMA MaxMember ==
  ASSUME NEW S, IsFiniteSet(S), S \subseteq Nat, S # {}
  PROVE  Max(S) \in S /\ \A y \in S : y <= Max(S)
<1>1. PICK N \in Nat : N = Cardinality(S)
  BY FS_CardinalityType
<1>2. PICK f \in [1 .. N -> S] : \A y \in S : \E n \in 1 .. N : f[n] = y
  BY <1>1, FS_CardinalityType DEF ExistsBijection, Bijection, Surjection
<1> DEFINE P == {n \in 0 .. N : \E b \in Nat : \A i \in 1 .. n : f[i] <= b}
<1>3. 0 \in P
  OBVIOUS
<1>4. ASSUME NEW n \in 1 .. N, n - 1 \in P
      PROVE  n \in P
  <2>1. PICK b \in Nat : \A i \in 1 .. n - 1 : f[i] <= b
    BY <1>4
  <2>4. \A i \in 1 .. n : i \in 1 .. N
    OBVIOUS
  <2>6. \A i \in 1 .. N : f[i] \in Nat
    OBVIOUS
  <2>2. f[n] \in Nat /\ \A i \in 1 .. n : i = n \/ i \in 1 .. n - 1
    BY <2>6
  <2>3. PICK c \in Nat : c >= b /\ c >= f[n]
    BY <2>2
  <2>5. \A i \in 1 .. n : f[i] <= c
    <3> SUFFICES ASSUME NEW i \in 1 .. n PROVE f[i] <= c
      OBVIOUS
    <3>1. f[i] \in Nat
      BY <2>4, <2>6
    <3>2. i = n \/ f[i] <= b
      BY <2>1, <2>2
    <3> QED
      BY <2>2, <2>3, <3>1, <3>2
  <2> QED
    BY <2>5
<1>5. N \in P
  <2> HIDE DEF P
  <2> QED
    BY <1>3, <1>4, UpTo
<1> DEFINE U == {b \in Nat : \A y \in S : y <= b}
<1>6. U # {} /\ U \subseteq Nat
  BY <1>2, <1>5
<1>7. PICK m \in U : \A b \in U : m <= b
  BY <1>6, MinMember
<1>8. m \in S
  <2> SUFFICES ASSUME m \notin S PROVE FALSE
    OBVIOUS
  <2>1. PICK y \in S : y \in Nat
    OBVIOUS
  <2>2. m > 0
    BY <1>7, <2>1
  <2>3. m - 1 \in U
    BY <1>7, <2>2
  <2> QED
    BY <1>7, <2>3
<1> QED
  BY <1>7, <1>8 DEF Max

\* f is a at 0, and step gives each value of f from the one before.
Iterates(f, N, V, a, step) ==
  f \in [0 .. N -> V] /\ f[0] = a /\ \A n \in 1 .. N : f[n] = step[n][f[n - 1]]

\* A function may be defined by its value at 0 and from each value to the next.
LEMMA Recursion ==
  ASSUME NEW N \in Nat, NEW V, NEW a \in V, NEW step \in [1 .. N -> [V -> V]]
  PROVE  \E f : Iterates(f, N, V, a, step)
<1> USE DEF Iterates
<1> DEFINE P == {k \in 0 .. N : \E f \in [0 .. k -> V] :
                   f[0] = a /\ \A n \in 1 .. k : f[n] = step[n][f[n - 1]]}
<1>1. 0 \in P
  <2>1. PICK f \in [0 .. 0 -> V] : f = [n \in 0 .. 0 |-> a]
    OBVIOUS
  <2>2. f[0] = a /\ \A n \in 1 .. 0 : f[n] = step[n][f[n - 1]]
    BY <2>1
  <2>3. 0 \in 0 .. N
    OBVIOUS
  <2> QED
    BY <2>2, <2>3
<1>2. ASSUME NEW k \in 1 .. N, k - 1 \in P
      PROVE  k \in P
  <2>1. PICK f \in [0 .. k - 1 -> V] :
          f[0] = a /\ \A n \in 1 .. k - 1 : f[n] = step[n][f[n - 1]]
    BY <1>2
  <2>2. PICK next \in V : next = step[k][f[k - 1]]
    OBVIOUS
  <2> DEFINE g == [n \in 0 .. k |-> IF n = k THEN next ELSE f[n]]
  <2>3. g \in [0 .. k -> V]
    OBVIOUS
  <2>4. g[0] = a /\ g[k] = next /\ \A n \in 0 .. k - 1 : g[n] = f[n]
    BY <2>1
  <2>5. \A n \in 1 .. k : n = k \/ (n \in 1 .. k - 1 /\ n - 1 \in 0 .. k - 1)
    OBVIOUS
  <2>6. k - 1 \in 0 .. k - 1
    OBVIOUS
  <2> HIDE DEF g
  <2>7. \A n \in 1 .. k : g[n] = step[n][g[n - 1]]
    <3> SUFFICES ASSUME NEW n \in 1 .. k PROVE g[n] = step[n][g[n - 1]]
      OBVIOUS
    <3>1. CASE n = k
      BY <3>1, <2>2, <2>4, <2>6
    <3>2. CASE n # k
      <4>1. n \in 1 .. k - 1 /\ n - 1 \in 0 .. k - 1 /\ n \in 0 .. k - 1
        BY <3>2
      <4> QED
        BY <4>1, <2>1, <2>4
    <3> QED
      BY <3>1, <3>2
  <2> QED
    BY <2>3, <2>4, <2>7
<1>3. N \in P
  <2> HIDE DEF P
  <2>1. \A k \in 1 .. N : k - 1 \in P => k \in P
    BY <1>2
  <2>2. \A k \in 0 .. N : k \in P
    BY ONLY N \in Nat, <1>1, <2>1, UpTo, Zenon
  <2> QED
    BY <2>2
<1> QED
  BY <1>3

----------------------------------------------------------------------------
\* t has the sums of the first n values of f.
PartialSums(t, f) ==
  /\ t \in [0 .. MaxNode -> Int] /\ t[0] = 0
  /\ \A n \in Node : t[n] = t[n - 1] + f[n]

\* A total is the last of the partial sums.
LEMMA TotalDef ==
  ASSUME NEW f \in [Node -> Int]
  PROVE  \E t : PartialSums(t, f) /\ t[MaxNode] = Total(f)
<1> USE SizesAssumption DEF Node, PartialSums
<1> DEFINE Sums(t) == t = [n \in 0 .. MaxNode |-> IF n = 0 THEN 0 ELSE t[n - 1] + f[n]]
<1>1. PICK step : step = [n \in 1 .. MaxNode |-> [x \in Int |-> x + f[n]]]
  OBVIOUS
<1>2. step \in [1 .. MaxNode -> [Int -> Int]]
  BY <1>1
<1>9. \A n \in 1 .. MaxNode, x \in Int : step[n][x] = x + f[n]
  BY <1>1
<1>3. PICK t \in [0 .. MaxNode -> Int] :
        t[0] = 0 /\ \A n \in 1 .. MaxNode : t[n] = step[n][t[n - 1]]
  <2>1. PICK a : a = 0 /\ a \in Int
    OBVIOUS
  <2>2. MaxNode \in Nat
    OBVIOUS
  <2>3. \E t : Iterates(t, MaxNode, Int, a, step)
    BY ONLY <2>1, <2>2, <1>2, Recursion, Zenon
  <2> QED
    BY <2>1, <2>3 DEF Iterates
<1>4. \A n \in 1 .. MaxNode : t[n] = t[n - 1] + f[n]
  <2>1. \A n \in 1 .. MaxNode : n - 1 \in 0 .. MaxNode
    OBVIOUS
  <2> QED
    BY <1>9, <1>3, <2>1
<1>5. Sums(t)
  BY <1>3, <1>4
<1>6. PICK u : Sums(u) /\ u[MaxNode] = Total(f)
  <2>1. Total(f) = (CHOOSE u : Sums(u))[MaxNode]
    BY DEF Total
  <2> HIDE DEF Sums
  <2> QED
    BY <1>5, <2>1
<1>7. u[0] = 0 /\ \A n \in 1 .. MaxNode : u[n] = u[n - 1] + f[n]
  <2>1. ASSUME NEW n \in 0 .. MaxNode PROVE u[n] = IF n = 0 THEN 0 ELSE u[n - 1] + f[n]
    BY <1>6
  <2> QED
    BY <2>1
<1> DEFINE P == {n \in 0 .. MaxNode : u[n] \in Int}
<1>8. \A n \in 0 .. MaxNode : n \in P
  <2>1. 0 \in P
    BY <1>7
  <2>2. \A n \in 1 .. MaxNode : n - 1 \in P => n \in P
    BY <1>7
  <2> HIDE DEF P
  <2> QED
    BY <2>1, <2>2, UpTo
<1>10. u = [n \in 0 .. MaxNode |-> u[n]]
  BY <1>6
<1> QED
  BY <1>6, <1>7, <1>8, <1>10

\* There is one function of partial sums.
LEMMA TotalIs ==
  ASSUME NEW f \in [Node -> Int], NEW t, PartialSums(t, f)
  PROVE  t[MaxNode] = Total(f)
<1> USE SizesAssumption DEF Node
<1>1. PICK u : PartialSums(u, f) /\ u[MaxNode] = Total(f)
  BY TotalDef
<1> DEFINE P == {n \in 0 .. MaxNode : u[n] = t[n]}
<1>2. 0 \in P
  BY <1>1 DEF PartialSums
<1>3. \A n \in 1 .. MaxNode : n - 1 \in P => n \in P
  BY <1>1 DEF PartialSums
<1> HIDE DEF P
<1>4. \A n \in 0 .. MaxNode : n \in P
  BY <1>2, <1>3, UpTo
<1> QED
  BY <1>1, <1>4 DEF P

\* The total of sums is the sum of the totals.
LEMMA TotalAdd ==
  ASSUME NEW f \in [Node -> Int], NEW g \in [Node -> Int]
  PROVE  Total([n \in Node |-> f[n] + g[n]]) = Total(f) + Total(g)
<1> USE SizesAssumption
<1>1. PICK t : PartialSums(t, f) /\ t[MaxNode] = Total(f)
  BY TotalDef
<1>2. PICK u : PartialSums(u, g) /\ u[MaxNode] = Total(g)
  BY TotalDef
<1> DEFINE h == [n \in Node |-> f[n] + g[n]]
           s == [n \in 0 .. MaxNode |-> t[n] + u[n]]
<1>3. h \in [Node -> Int]
  OBVIOUS
<1>4. PartialSums(s, h)
  <2>1. s \in [0 .. MaxNode -> Int] /\ s[0] = 0
    BY <1>1, <1>2 DEF PartialSums
  <2>2. ASSUME NEW n \in Node PROVE s[n] = s[n - 1] + h[n]
    <3>1. n \in 0 .. MaxNode /\ n - 1 \in 0 .. MaxNode
      BY DEF Node
    <3>2. /\ t[n] = t[n - 1] + f[n] /\ u[n] = u[n - 1] + g[n]
          /\ t[n - 1] \in Int /\ u[n - 1] \in Int /\ f[n] \in Int /\ g[n] \in Int
      BY <1>1, <1>2, <3>1 DEF PartialSums
    <3> QED
      BY <3>1, <3>2
  <2> HIDE DEF s, h
  <2> QED
    BY <2>1, <2>2 DEF PartialSums
<1>5. s[MaxNode] = Total(f) + Total(g)
  BY <1>1, <1>2
<1> HIDE DEF s, h
<1>6. s[MaxNode] = Total(h)
  BY <1>3, <1>4, TotalIs
<1> QED
  BY <1>5, <1>6 DEF h

\* Totals of numbers: each is a number, no smaller than any value.
LEMMA TotalNat ==
  ASSUME NEW f \in [Node -> Nat]
  PROVE  Total(f) \in Nat /\ \A n \in Node : f[n] <= Total(f)
<1> USE SizesAssumption DEF Node
<1>1. PICK t : PartialSums(t, f) /\ t[MaxNode] = Total(f)
  BY TotalDef
<1> DEFINE P == {n \in 0 .. MaxNode : t[n] \in Nat /\ \A i \in 1 .. n : f[i] <= t[n]}
<1>2. 0 \in P
  BY <1>1 DEF PartialSums
<1>3. ASSUME NEW n \in 1 .. MaxNode, n - 1 \in P PROVE n \in P
  <2>1. t[n] = t[n - 1] + f[n] /\ t[n - 1] \in Nat /\ f[n] \in Nat
    BY <1>1, <1>3 DEF PartialSums
  <2>2. ASSUME NEW i \in 1 .. n PROVE f[i] <= t[n]
    <3>1. CASE i = n
      BY <3>1, <2>1
    <3>2. CASE i # n
      <4>1. i \in 1 .. n - 1 /\ f[i] \in Nat
        BY <3>2
      <4>2. f[i] <= t[n - 1]
        BY <1>3, <4>1
      <4> QED
        BY <4>1, <4>2, <2>1
    <3> QED
      BY <3>1, <3>2
  <2> QED
    BY <2>1, <2>2
<1> HIDE DEF P
<1>4. \A n \in 0 .. MaxNode : n \in P
  BY <1>2, <1>3, UpTo
<1>5. MaxNode \in P
  BY <1>4
<1> QED
  BY <1>1, <1>5 DEF P

\* Smaller values have a smaller total, and a value that is smaller shows in it.
LEMMA TotalLess ==
  ASSUME NEW f \in [Node -> Nat], NEW g \in [Node -> Nat],
         \A n \in Node : f[n] <= g[n]
  PROVE  /\ Total(f) <= Total(g)
         /\ \A n \in Node : f[n] < g[n] => Total(f) < Total(g)
<1> DEFINE d == [n \in Node |-> g[n] - f[n]]
           h == [n \in Node |-> f[n] + d[n]]
<1>1. d \in [Node -> Nat]
  OBVIOUS
<1>2. h = g
  OBVIOUS
<1>3. d \in [Node -> Int] /\ f \in [Node -> Int]
  BY <1>1
<1> HIDE DEF d
<1>4. Total(h) = Total(f) + Total(d)
  BY <1>3, TotalAdd
<1>5. Total(d) \in Nat /\ Total(f) \in Nat /\ \A n \in Node : d[n] <= Total(d)
  BY <1>1, TotalNat
<1>6. Total(g) = Total(f) + Total(d)
  BY <1>2, <1>4
<1>7. \A n \in Node : d[n] = g[n] - f[n] /\ f[n] \in Nat /\ g[n] \in Nat
  BY DEF d
<1> QED
  BY <1>5, <1>6, <1>7

\* Only nothing has the total 0.
LEMMA TotalZero ==
  ASSUME NEW f \in [Node -> Nat]
  PROVE  Total(f) = 0 <=> \A n \in Node : f[n] = 0
<1>1. ASSUME \A n \in Node : f[n] = 0
      PROVE  Total(f) = 0
  <2> DEFINE t == [n \in 0 .. MaxNode |-> 0]
  <2>1. PartialSums(t, f) /\ t[MaxNode] = 0
    BY <1>1, SizesAssumption DEF PartialSums, Node
  <2> HIDE DEF t
  <2> QED
    BY <2>1, TotalIs
<1>2. ASSUME Total(f) = 0, NEW n \in Node
      PROVE  f[n] = 0
  BY <1>2, TotalNat
<1> QED
  BY <1>1, <1>2

\* The total of a function that is d on a set.
LEMMA TotalOn ==
  ASSUME NEW A \in SUBSET Node, NEW d \in Nat
  PROVE  /\ IsFiniteSet(A) /\ Cardinality(A) \in Nat
         /\ Total([n \in Node |-> IF n \in A THEN d ELSE 0]) = d * Cardinality(A)
<1> USE SizesAssumption
<1>1. IsFiniteSet(Node)
  <2>1. 1 \in Int /\ MaxNode \in Int
    OBVIOUS
  <2>2. IsFiniteSet(1 .. MaxNode)
    BY ONLY <2>1, FS_Interval, Zenon
  <2> QED
    BY <2>2 DEF Node
<1> DEFINE Up(n) == A \cap (1 .. n)
           f == [n \in Node |-> IF n \in A THEN d ELSE 0]
           t == [n \in 0 .. MaxNode |-> d * Cardinality(Up(n))]
<1>2. ASSUME NEW n \in 0 .. MaxNode
      PROVE  IsFiniteSet(Up(n)) /\ Cardinality(Up(n)) \in Nat
  BY <1>1, FS_Subset, FS_CardinalityType
<1>3. ASSUME NEW n \in Node
      PROVE  d * Cardinality(Up(n)) = d * Cardinality(Up(n - 1)) + (IF n \in A THEN d ELSE 0)
  <2>0. n \in 0 .. MaxNode /\ n - 1 \in 0 .. MaxNode /\ n \in Nat
    BY DEF Node
  <2>1. CASE n \in A
    <3>1. Up(n) = Up(n - 1) \cup {n} /\ n \notin Up(n - 1)
      BY <2>1, <2>0
    <3>2. Cardinality(Up(n)) = Cardinality(Up(n - 1)) + 1
      BY <3>1, <1>2, <2>0, FS_AddElement
    <3>3. PICK c \in Nat : c = Cardinality(Up(n - 1))
      BY <1>2, <2>0
    <3>4. d * (c + 1) = d * c + d
      OBVIOUS
    <3> QED
      BY <2>1, <3>2, <3>3, <3>4
  <2>2. CASE n \notin A
    <3>1. Up(n) = Up(n - 1)
      BY <2>2, <2>0
    <3>3. PICK c \in Nat : c = Cardinality(Up(n - 1))
      BY <1>2, <2>0
    <3>4. d * c \in Nat
      OBVIOUS
    <3>5. Cardinality(Up(n)) = c
      BY <3>1, <3>3
    <3>6. d * Cardinality(Up(n)) = d * c /\ d * Cardinality(Up(n - 1)) = d * c
      BY <3>3, <3>5
    <3> QED
      BY ONLY <2>2, <3>4, <3>6
  <2> QED
    BY <2>1, <2>2
<1>4. \A n \in 0 .. MaxNode : t[n] = d * Cardinality(Up(n)) /\ t[n] \in Int
  <2> SUFFICES ASSUME NEW n \in 0 .. MaxNode
               PROVE  t[n] = d * Cardinality(Up(n)) /\ t[n] \in Int
    OBVIOUS
  <2>1. PICK c \in Nat : c = Cardinality(Up(n))
    BY <1>2
  <2>2. d * c \in Nat
    OBVIOUS
  <2>3. t[n] = d * Cardinality(Up(n))
    OBVIOUS
  <2> QED
    BY <2>1, <2>2, <2>3
<1>5. Cardinality(Up(0)) = 0
  <2>1. Up(0) = {}
    OBVIOUS
  <2> QED
    BY <2>1, FS_EmptySet
<1>6. Up(MaxNode) = A
  BY DEF Node
<1>7. PartialSums(t, f)
  <2>1. t \in [0 .. MaxNode -> Int]
    BY <1>4
  <2>2. t[0] = 0
    <3>1. 0 \in 0 .. MaxNode /\ d * 0 = 0
      OBVIOUS
    <3> QED
      BY <1>4, <1>5, <3>1
  <2>3. ASSUME NEW n \in Node PROVE t[n] = t[n - 1] + f[n]
    <3>1. n \in 0 .. MaxNode /\ n - 1 \in 0 .. MaxNode
      BY DEF Node
    <3> HIDE DEF t, Up
    <3> QED
      BY <1>3, <1>4, <3>1
  <2> HIDE DEF t, f
  <2> QED
    BY <2>1, <2>2, <2>3 DEF PartialSums
<1>8. f \in [Node -> Int]
  OBVIOUS
<1>9. t[MaxNode] = Total(f)
  <2> HIDE DEF t, f
  <2> QED
    BY <1>7, <1>8, TotalIs
<1>10. MaxNode \in 0 .. MaxNode
  OBVIOUS
<1>11. t[MaxNode] = d * Cardinality(A)
  BY <1>4, <1>6, <1>10
<1> QED
  BY <1>1, <1>9, <1>11, FS_Subset, FS_CardinalityType

\* A total of totals may be taken row by row or column by column.
LEMMA TotalSwap ==
  ASSUME NEW w \in [Link -> Int]
  PROVE  Weight(w) = Total([v \in Node |-> InDegree(w, v)])
<1> USE SizesAssumption
<1> DEFINE Row(u) == [v \in Node |-> w[<<u, v>>]]
           Col(v) == [u \in Node |-> w[<<u, v>>]]
           T(v)   == CHOOSE t : PartialSums(t, Col(v)) /\ t[MaxNode] = Total(Col(v))
           Upper(n) == [v \in Node |-> T(v)[n]]
<1>1. ASSUME NEW u \in Node
      PROVE  Row(u) \in [Node -> Int] /\ Col(u) \in [Node -> Int]
  BY DEF Link
<1>2. ASSUME NEW v \in Node
      PROVE  PartialSums(T(v), Col(v)) /\ T(v)[MaxNode] = Total(Col(v))
  <2> HIDE DEF Col
  <2> QED
    BY <1>1, TotalDef
<1>3. ASSUME NEW u \in Node
      PROVE  Total(Row(u)) \in Int
  <2> HIDE DEF Row
  <2>1. PICK t : PartialSums(t, Row(u)) /\ t[MaxNode] = Total(Row(u))
    BY <1>1, TotalDef
  <2> QED
    BY <2>1 DEF PartialSums
<1> DEFINE f == [u \in Node |-> Total(Row(u))]
           s == [n \in 0 .. MaxNode |-> Total(Upper(n))]
<1>4. f \in [Node -> Int]
  BY <1>3
<1> HIDE DEF T
<1>5. ASSUME NEW n \in 0 .. MaxNode
      PROVE  Upper(n) \in [Node -> Int] /\ Total(Upper(n)) \in Int
  <2>1. Upper(n) \in [Node -> Int]
    BY <1>2 DEF PartialSums
  <2> HIDE DEF Upper
  <2>2. PICK t : PartialSums(t, Upper(n)) /\ t[MaxNode] = Total(Upper(n))
    BY <2>1, TotalDef
  <2> QED
    BY <2>1, <2>2 DEF PartialSums
<1>6. ASSUME NEW n \in Node
      PROVE  Total(Upper(n)) = Total(Upper(n - 1)) + Total(Row(n))
  <2>1. n \in 0 .. MaxNode /\ n - 1 \in 0 .. MaxNode
    BY DEF Node
  <2> DEFINE h == [v \in Node |-> Upper(n - 1)[v] + Row(n)[v]]
  <2>2. \A v \in Node : T(v)[n] = T(v)[n - 1] + w[<<n, v>>]
    BY <1>2 DEF PartialSums
  <2>3. Upper(n) = h
    BY <2>2
  <2>4. Upper(n - 1) \in [Node -> Int] /\ Row(n) \in [Node -> Int]
    BY <1>1, <1>5, <2>1
  <2>5. Total(h) = Total(Upper(n - 1)) + Total(Row(n))
    <3> HIDE DEF Upper, Row
    <3> QED
      BY <2>4, TotalAdd
  <2> QED
    BY <2>3, <2>5
<1>7. Total(Upper(0)) = 0
  <2>1. \A v \in Node : T(v)[0] = 0
    BY <1>2 DEF PartialSums
  <2>2. Upper(0) \in [Node -> Nat] /\ \A v \in Node : Upper(0)[v] = 0
    BY <2>1
  <2> HIDE DEF Upper
  <2> QED
    BY <2>2, TotalZero
<1>8. Upper(MaxNode) = [v \in Node |-> InDegree(w, v)]
  BY <1>2 DEF InDegree
<1>9. Weight(w) = Total(f)
  BY DEF Weight, OutDegree
<1>10. PartialSums(s, f)
  <2> HIDE DEF Upper, Row
  <2>1. s \in [0 .. MaxNode -> Int] /\ s[0] = 0
    BY <1>5, <1>7
  <2>2. ASSUME NEW n \in Node PROVE s[n] = s[n - 1] + f[n]
    <3>1. n \in 0 .. MaxNode /\ n - 1 \in 0 .. MaxNode
      BY DEF Node
    <3> QED
      BY <1>6, <3>1
  <2> HIDE DEF s, f
  <2> QED
    BY <2>1, <2>2 DEF PartialSums
<1>11. s[MaxNode] = Total(Upper(MaxNode))
  OBVIOUS
<1>12. s[MaxNode] = Total(f)
  <2> HIDE DEF s, f
  <2> QED
    BY <1>4, <1>10, TotalIs
<1> QED
  BY <1>8, <1>9, <1>11, <1>12

----------------------------------------------------------------------------
(* The search for an augmenting path.                                       *)

Calls   == Node \X Matching \X SUBSET Node
Results == [ok : BOOLEAN, match : Matching, seen : SUBSET Node]
\* The calls that are left when more destinations have been tried.
Deeper(seen) == {c \in Calls : seen \subseteq c[3] /\ c[3] # seen}
\* f gives each call what dfs() comes to, from what it comes to further on.
IsDfs(f) == f = [c \in Calls |-> Search(f, c[1], c[2], c[3])]

\* There are MaxNode nodes.
LEMMA NodesFinite == IsFiniteSet(Node) /\ Cardinality(Node) = MaxNode
<1>1. 1 \in Int /\ MaxNode \in Int /\ MaxNode \in Nat
  BY SizesAssumption
<1>2. IsFiniteSet(1 .. MaxNode) /\ Cardinality(1 .. MaxNode) = IF 1 > MaxNode THEN 0 ELSE MaxNode - 1 + 1
  BY ONLY <1>1, FS_Interval, Zenon
<1> QED
  BY <1>1, <1>2 DEF Node

\* How many destinations a call has not tried: fewer, the deeper it is.
Left(c) == Cardinality(Node \ c[3])

\* It is a number, and smaller for the calls further on.
LEMMA LeftIs ==
  /\ \A c \in Calls : Left(c) \in 0 .. MaxNode
  /\ \A c \in Calls : \A d \in Deeper(c[3]) : d \in Calls /\ Left(d) < Left(c)
<1>1. \A c \in Calls : Left(c) \in 0 .. MaxNode
  <2> SUFFICES ASSUME NEW c \in Calls PROVE Left(c) \in 0 .. MaxNode
    OBVIOUS
  <2>1. (Node \ c[3]) \in SUBSET Node
    OBVIOUS
  <2>2. /\ IsFiniteSet(Node \ c[3]) /\ Cardinality(Node \ c[3]) <= MaxNode
        /\ Cardinality(Node \ c[3]) \in Nat
    BY <2>1, NodesFinite, FS_Subset, FS_CardinalityType
  <2> QED
    BY <2>2, SizesAssumption DEF Left
<1>2. \A c \in Calls : \A d \in Deeper(c[3]) : d \in Calls /\ Left(d) < Left(c)
  <2> SUFFICES ASSUME NEW c \in Calls, NEW d \in Deeper(c[3])
               PROVE  d \in Calls /\ Left(d) < Left(c)
    OBVIOUS
  <2>1. /\ (Node \ d[3]) \in SUBSET (Node \ c[3]) /\ Node \ d[3] # Node \ c[3]
        /\ c[3] \subseteq Node /\ d[3] \subseteq Node /\ d \in Calls
    BY DEF Deeper, Calls
  <2>2. IsFiniteSet(Node \ c[3])
    BY NodesFinite, FS_Subset
  <2>3. Left(d) <= Left(c) /\ Left(d) # Left(c)
    BY <2>1, <2>2, FS_Subset DEF Left
  <2> QED
    BY <1>1, <2>1, <2>3
<1> QED
  BY <1>1, <1>2

\* What holds of a call when it holds of all deeper ones holds of every call.
LEMMA SearchInduction ==
  ASSUME NEW P, \A c \in Calls : Deeper(c[3]) \subseteq P => c \in P
  PROVE  Calls \subseteq P
<1> DEFINE Q == {n \in 0 .. MaxNode + 1 : \A c \in Calls : Left(c) < n => c \in P}
<1>3. 0 \in Q
  BY LeftIs, SizesAssumption
<1>4. \A n \in 1 .. MaxNode + 1 : n - 1 \in Q => n \in Q
  <2> SUFFICES ASSUME NEW n \in 1 .. MaxNode + 1, n - 1 \in Q, NEW c \in Calls, Left(c) < n
               PROVE  c \in P
    BY SizesAssumption
  <2>1. \A d \in Deeper(c[3]) : d \in Calls /\ Left(d) < n - 1
    BY LeftIs
  <2>2. Deeper(c[3]) \subseteq P
    BY <2>1
  <2> QED
    BY <2>2
<1> HIDE DEF Q
<1>5. \A n \in 0 .. MaxNode + 1 : n \in Q
  <2>1. MaxNode + 1 \in Nat
    BY SizesAssumption
  <2> QED
    BY ONLY <1>3, <1>4, <2>1, UpTo, Zenon
<1>6. MaxNode + 1 \in Q
  BY <1>5, SizesAssumption
<1> QED
  BY LeftIs, <1>6, SizesAssumption DEF Q

\* The destination that is tried next is one that was not tried.
LEMMA NextIsUntried ==
  ASSUME NEW u \in Node, NEW seen, ~(Ends(u) \subseteq seen)
  PROVE  NextEnd(u, seen) \in Ends(u) \ seen
<1> DEFINE S == IF Untried(real, u, seen) # {} THEN Untried(real, u, seen)
                ELSE Untried(dummy, u, seen)
<1>3. PICK v \in Ends(u) : v \notin seen
  OBVIOUS
<1>4. v \in Untried(real, u, seen) \/ v \in Untried(dummy, u, seen)
  BY <1>3 DEF Ends, Untried
<1>5. S # {}
  BY <1>4
<1>6. \A x \in S : x \in Ends(u) \ seen /\ x \in Node
  BY DEF Ends, Untried
<1>1. S # {} /\ S \subseteq Ends(u) \ seen /\ S \subseteq Nat
  BY <1>5, <1>6 DEF Node
<1> HIDE DEF S
<1>2. Min(S) \in S
  BY <1>1, MinMember
<1> QED
  BY <1>1, <1>2 DEF NextEnd, S

\* A destination that is tried, and what comes of it if the source that has it is
\* asked to find another.
Tried(f, match, seen, end) ==
  IF match[end] = -1 THEN [ok |-> TRUE, match |-> match, seen |-> seen \cup {end}]
  ELSE f[<<match[end], match, seen \cup {end}>>]
\* A call has a result, and has tried no less than before.
Sound(f, c) == f[c] \in Results /\ c[3] \subseteq f[c].seen

\* The search from u goes on with the destination end, which comes to onward.
TriesNext(f, u, match, seen, end, onward) ==
  /\ end \in Node /\ end \in Ends(u) \ seen /\ end = NextEnd(u, seen)
  /\ onward \in Results /\ onward = Tried(f, match, seen, end)
  /\ seen \cup {end} \subseteq onward.seen
  /\ match[end] # -1 => <<match[end], match, seen \cup {end}>> \in Deeper(seen)
  /\ match[end] = -1 => onward = [ok |-> TRUE, match |-> match, seen |-> seen \cup {end}]
  /\ <<u, onward.match, onward.seen>> \in Deeper(seen)
  /\ Search(f, u, match, seen) =
       IF onward.ok THEN [onward EXCEPT !.match[end] = u]
       ELSE f[<<u, onward.match, onward.seen>>]

\* The two outcomes of a step of the search, as long as what follows is sound.
LEMMA SearchCases ==
  ASSUME NEW f, NEW u \in Node, NEW match \in Matching, NEW seen \in SUBSET Node,
         \A c \in Deeper(seen) : Sound(f, c)
  PROVE  \/ /\ Ends(u) \subseteq seen
            /\ Search(f, u, match, seen) = [ok |-> FALSE, match |-> match, seen |-> seen]
         \/ \E end, onward : TriesNext(f, u, match, seen, end, onward)
<1> USE DEF TriesNext
<1>1. CASE Ends(u) \subseteq seen
  BY <1>1 DEF Search
<1>2. CASE ~(Ends(u) \subseteq seen)
  <2>1. PICK end \in Ends(u) \ seen : end = NextEnd(u, seen)
    BY <1>2, NextIsUntried
  <2>2. end \in Node /\ match[end] \in Node \cup {-1}
    BY DEF Ends, Untried, Matching
  <2> DEFINE onward == Tried(f, match, seen, end)
  <2>3. match[end] # -1 => <<match[end], match, seen \cup {end}>> \in Deeper(seen)
    BY <2>1, <2>2 DEF Deeper, Calls
  <2>4. onward \in Results /\ seen \cup {end} \subseteq onward.seen
    <3>1. CASE match[end] = -1
      BY <3>1, <2>2 DEF Tried, Results
    <3>2. CASE match[end] # -1
      BY <3>2, <2>3 DEF Tried, Sound
    <3> QED
      BY <3>1, <3>2
  <2>5. <<u, onward.match, onward.seen>> \in Deeper(seen)
    <3>1. onward.match \in Matching /\ onward.seen \in SUBSET Node
      BY <2>4 DEF Results
    <3>2. seen \subseteq onward.seen /\ onward.seen # seen
      BY <2>1, <2>4
    <3> HIDE DEF onward
    <3>3. <<u, onward.match, onward.seen>> \in Calls
      BY <3>1 DEF Calls
    <3> QED
      BY <3>2, <3>3 DEF Deeper
  <2>6. Search(f, u, match, seen) =
          IF onward.ok THEN [onward EXCEPT !.match[end] = u]
          ELSE f[<<u, onward.match, onward.seen>>]
    BY <1>2, <2>1 DEF Search, Tried
  <2>7. match[end] = -1 => onward = [ok |-> TRUE, match |-> match, seen |-> seen \cup {end}]
    BY DEF Tried
  <2> HIDE DEF onward
  <2>8. PICK on \in Results : on = onward
    BY <2>4
  <2>9. on = Tried(f, match, seen, end)
    BY <2>8 DEF onward
  <2> QED
    BY <1>2, <2>1, <2>2, <2>3, <2>4, <2>5, <2>6, <2>7, <2>8, <2>9
<1> QED
  BY <1>1, <1>2

\* So is the step itself.
LEMMA SearchIsSound ==
  ASSUME NEW f, NEW u \in Node, NEW match \in Matching, NEW seen \in SUBSET Node,
         \A c \in Deeper(seen) : Sound(f, c)
  PROVE  /\ Search(f, u, match, seen) \in Results
         /\ seen \subseteq Search(f, u, match, seen).seen
<1>1. CASE /\ Ends(u) \subseteq seen
           /\ Search(f, u, match, seen) = [ok |-> FALSE, match |-> match, seen |-> seen]
  BY <1>1 DEF Results
<1>2. ASSUME NEW end, NEW onward, TriesNext(f, u, match, seen, end, onward)
      PROVE  /\ Search(f, u, match, seen) \in Results
             /\ seen \subseteq Search(f, u, match, seen).seen
  <2>1. CASE onward.ok
    BY <2>1, <1>2 DEF Results, Matching, TriesNext
  <2>2. CASE ~onward.ok
    BY <2>2, <1>2 DEF Sound, TriesNext
  <2> QED
    BY <2>1, <2>2
<1> QED
  BY <1>1, <1>2, SearchCases

\* The step looks no further than the deeper calls.
LEMMA SearchAgrees ==
  ASSUME NEW f, NEW g, NEW u \in Node, NEW match \in Matching, NEW seen \in SUBSET Node,
         \A c \in Deeper(seen) : Sound(f, c) /\ g[c] = f[c]
  PROVE  Search(g, u, match, seen) = Search(f, u, match, seen)
<1>1. CASE Ends(u) \subseteq seen
  BY <1>1 DEF Search
<1>2. CASE ~(Ends(u) \subseteq seen)
  <2>1. PICK end, onward : TriesNext(f, u, match, seen, end, onward)
    BY <1>2, SearchCases
  <2> USE DEF TriesNext
  <2>2. Tried(g, match, seen, end) = onward
    BY <2>1 DEF Tried
  <2>3. g[<<u, onward.match, onward.seen>>] = f[<<u, onward.match, onward.seen>>]
    BY <2>1
  <2>4. Search(g, u, match, seen) =
          IF onward.ok THEN [onward EXCEPT !.match[end] = u]
          ELSE g[<<u, onward.match, onward.seen>>]
    BY <1>2, <2>1, <2>2 DEF Search, Tried
  <2>5. Search(f, u, match, seen) =
          IF onward.ok THEN [onward EXCEPT !.match[end] = u]
          ELSE f[<<u, onward.match, onward.seen>>]
    BY <1>2, <2>1 DEF Search, Tried
  <2> QED
    BY <2>3, <2>4, <2>5
<1> QED
  BY <1>1, <1>2

\* The recursion is well-founded: there is a function that answers every call.
LEMMA DfsExists == \E f : IsDfs(f)
<1> DEFINE Near(n) == {c \in Calls : Left(c) < n}
           Partial(g, n) == /\ g = [c \in Near(n) |-> Search(g, c[1], c[2], c[3])]
                            /\ \A c \in Near(n) : Sound(g, c)
           Q == {n \in 0 .. MaxNode + 1 : \E g : Partial(g, n)}
<1>1. 0 \in Q
  <2>1. Near(0) = {}
    BY LeftIs
  <2>2. PICK g : g = [c \in Near(0) |-> c]
    OBVIOUS
  <2>3. g = [c \in Near(0) |-> Search(g, c[1], c[2], c[3])]
    BY <2>1, <2>2
  <2>4. 0 \in 0 .. MaxNode + 1
    BY SizesAssumption
  <2> QED
    BY <2>1, <2>3, <2>4
<1>2. \A n \in 1 .. MaxNode + 1 : n - 1 \in Q => n \in Q
  <2> SUFFICES ASSUME NEW n \in 1 .. MaxNode + 1, n - 1 \in Q PROVE \E g : Partial(g, n)
    <3>1. \A n \in 1 .. MaxNode + 1 : n \in 0 .. MaxNode + 1
      BY SizesAssumption
    <3> HIDE DEF Partial
    <3> QED
      BY <3>1
  <2>1. PICK g : Partial(g, n - 1)
    OBVIOUS
  <2>2. PICK h : h = [c \in Near(n) |-> Search(g, c[1], c[2], c[3])]
    OBVIOUS
  <2>3. Near(n - 1) \subseteq Near(n)
    BY LeftIs
  <2>4. \A c \in Near(n - 1) : h[c] = g[c]
    BY <2>1, <2>2, <2>3
  <2>5. ASSUME NEW c \in Near(n) PROVE Deeper(c[3]) \subseteq Near(n - 1)
    BY LeftIs
  <2>6. ASSUME NEW c \in Near(n)
        PROVE  Search(h, c[1], c[2], c[3]) = Search(g, c[1], c[2], c[3]) /\ Sound(h, c)
    <3>1. c[1] \in Node /\ c[2] \in Matching /\ c[3] \in SUBSET Node
      BY DEF Calls
    <3>2. \A d \in Deeper(c[3]) : Sound(g, d) /\ h[d] = g[d]
      BY <2>1, <2>4, <2>5
    <3> HIDE DEF Near, Partial
    <3>3. Search(h, c[1], c[2], c[3]) = Search(g, c[1], c[2], c[3])
      BY <3>1, <3>2, SearchAgrees
    <3>4. /\ Search(g, c[1], c[2], c[3]) \in Results
          /\ c[3] \subseteq Search(g, c[1], c[2], c[3]).seen
      BY <3>1, <3>2, SearchIsSound
    <3> QED
      BY <2>2, <3>3, <3>4 DEF Sound
  <2>7. h = [c \in Near(n) |-> Search(h, c[1], c[2], c[3])]
    BY <2>2, <2>6
  <2> QED
    BY <2>6, <2>7
<1>3. MaxNode + 1 \in Q
  <2> HIDE DEF Q
  <2>1. MaxNode + 1 \in Nat
    BY SizesAssumption
  <2>2. \A n \in 0 .. MaxNode + 1 : n \in Q
    BY ONLY <1>1, <1>2, <2>1, UpTo, Zenon
  <2> QED
    BY <2>1, <2>2
<1>4. Near(MaxNode + 1) = Calls
  BY LeftIs, SizesAssumption
<1> QED
  BY <1>3, <1>4 DEF IsDfs

\* The answers of the search are matchings and never forget a destination.
LEMMA DfsSound ==
  ASSUME NEW f, IsDfs(f)
  PROVE  \A c \in Calls : Sound(f, c) /\ f[c] = Search(f, c[1], c[2], c[3])
<1>1. \A c \in Calls : f[c] = Search(f, c[1], c[2], c[3])
  BY DEF IsDfs
<1> DEFINE P == {c \in Calls : Sound(f, c)}
<1>2. \A c \in Calls : Deeper(c[3]) \subseteq P => c \in P
  <2> SUFFICES ASSUME NEW c \in Calls, Deeper(c[3]) \subseteq P PROVE Sound(f, c)
    OBVIOUS
  <2>1. c[1] \in Node /\ c[2] \in Matching /\ c[3] \in SUBSET Node
    BY DEF Calls
  <2>2. \A d \in Deeper(c[3]) : Sound(f, d)
    OBVIOUS
  <2>3. /\ Search(f, c[1], c[2], c[3]) \in Results
        /\ c[3] \subseteq Search(f, c[1], c[2], c[3]).seen
    BY <2>1, <2>2, SearchIsSound
  <2> QED
    BY <1>1, <2>3 DEF Sound
<1> HIDE DEF P
<1>3. Calls \subseteq P
  BY <1>2, SearchInduction
<1> QED
  BY <1>1, <1>3 DEF P

\* A call and what follows from it, for the search as it is.
LEMMA DfsCases ==
  ASSUME NEW f, IsDfs(f), NEW u \in Node, NEW match \in Matching, NEW seen \in SUBSET Node,
         NEW c, c = <<u, match, seen>>
  PROVE  /\ c \in Calls
         /\ \/ /\ Ends(u) \subseteq seen
               /\ f[c] = [ok |-> FALSE, match |-> match, seen |-> seen]
            \/ \E end, onward :
                 /\ TriesNext(f, u, match, seen, end, onward)
                 /\ f[c] = IF onward.ok THEN [onward EXCEPT !.match[end] = u]
                           ELSE f[<<u, onward.match, onward.seen>>]
<1>1. c \in Calls /\ c[1] = u /\ c[2] = match /\ c[3] = seen
  BY DEF Calls
<1>2. \A d \in Deeper(seen) : Sound(f, d)
  BY DfsSound DEF Deeper
<1>3. f[c] = Search(f, u, match, seen)
  BY <1>1, DfsSound
<1>4. CASE /\ Ends(u) \subseteq seen
           /\ Search(f, u, match, seen) = [ok |-> FALSE, match |-> match, seen |-> seen]
  BY <1>1, <1>3, <1>4
<1>5. ASSUME NEW end, NEW onward, TriesNext(f, u, match, seen, end, onward)
      PROVE  f[c] = IF onward.ok THEN [onward EXCEPT !.match[end] = u]
                    ELSE f[<<u, onward.match, onward.seen>>]
  BY <1>3, <1>5 DEF TriesNext
<1> QED
  BY <1>1, <1>2, <1>4, <1>5, SearchCases

\* A matching along links that are left.
Proper(m) == \A v \in Node : m[v] # -1 => v \in Ends(m[v])
\* S is closed under asking the sources of its destinations for others.
Closed(m, S, T) == \A v \in T : m[v] # -1 /\ Ends(m[v]) \subseteq S

\* What a search leaves alone, and what it has seen when it fails.
Plain(f, c) ==
  /\ \A v \in c[3] : f[c].match[v] = c[2][v]
  /\ Proper(c[2]) => Proper(f[c].match)
  /\ ~f[c].ok => /\ f[c].match = c[2] /\ Ends(c[1]) \subseteq f[c].seen
                 /\ Closed(c[2], f[c].seen, f[c].seen \ c[3])

\* The part of a step up to the answer for the destination that is tried.
LEMMA OnwardPlain ==
  ASSUME NEW f, IsDfs(f), NEW u \in Node, NEW match \in Matching, NEW seen \in SUBSET Node,
         NEW end, NEW onward, TriesNext(f, u, match, seen, end, onward),
         \A d \in Deeper(seen) : Plain(f, d)
  PROVE  /\ \A v \in seen \cup {end} : onward.match[v] = match[v]
         /\ Proper(match) => Proper(onward.match)
         /\ ~onward.ok => /\ onward.match = match
                          /\ match[end] # -1 /\ Ends(match[end]) \subseteq onward.seen
                          /\ Closed(match, onward.seen, onward.seen \ (seen \cup {end}))
<1>1. CASE match[end] = -1
  BY <1>1 DEF TriesNext
<1>2. CASE match[end] # -1
  <2>1. PICK d \in Deeper(seen) : d = <<match[end], match, seen \cup {end}>>
    BY <1>2 DEF TriesNext
  <2>2. onward = f[d] /\ d[1] = match[end] /\ d[2] = match /\ d[3] = seen \cup {end}
    BY <1>2, <2>1 DEF TriesNext, Tried
  <2>3. Plain(f, d)
    OBVIOUS
  <2> QED
    BY <1>2, <2>2, <2>3 DEF Plain
<1> QED
  BY <1>1, <1>2

\* Every call does.
LEMMA DfsPlain ==
  ASSUME NEW f, IsDfs(f)
  PROVE  \A c \in Calls : Plain(f, c)
<1> DEFINE P == {c \in Calls : Plain(f, c)}
<1>1. \A c \in Calls : Deeper(c[3]) \subseteq P => c \in P
  <2> SUFFICES ASSUME NEW c \in Calls, Deeper(c[3]) \subseteq P PROVE Plain(f, c)
    OBVIOUS
  <2>1. PICK u \in Node, match \in Matching, seen \in SUBSET Node : c = <<u, match, seen>>
    BY DEF Calls
  <2>2. c[1] = u /\ c[2] = match /\ c[3] = seen
    BY <2>1
  <2>3. \A d \in Deeper(seen) : Plain(f, d)
    BY <2>2
  <2> HIDE DEF P
  <2>4. CASE /\ Ends(u) \subseteq seen
             /\ f[c] = [ok |-> FALSE, match |-> match, seen |-> seen]
    BY <2>2, <2>4 DEF Plain, Closed
  <2>5. ASSUME NEW end, NEW onward, TriesNext(f, u, match, seen, end, onward),
               f[c] = IF onward.ok THEN [onward EXCEPT !.match[end] = u]
                      ELSE f[<<u, onward.match, onward.seen>>]
        PROVE  Plain(f, c)
    <3>1. /\ \A v \in seen \cup {end} : onward.match[v] = match[v]
          /\ Proper(match) => Proper(onward.match)
          /\ ~onward.ok => /\ onward.match = match
                           /\ match[end] # -1 /\ Ends(match[end]) \subseteq onward.seen
                           /\ Closed(match, onward.seen, onward.seen \ (seen \cup {end}))
      BY <2>3, <2>5, OnwardPlain
    <3>2. /\ end \in Node /\ end \in Ends(u) \ seen /\ onward \in Results
          /\ seen \cup {end} \subseteq onward.seen
          /\ <<u, onward.match, onward.seen>> \in Deeper(seen)
      BY <2>5 DEF TriesNext
    <3>3. CASE onward.ok
      <4>1. /\ f[c].ok /\ f[c].match = [onward.match EXCEPT ![end] = u]
            /\ onward.match \in [Node -> Node \cup {-1}]
        BY <2>5, <3>2, <3>3 DEF Results, Matching
      <4>2. \A v \in Node : f[c].match[v] = IF v = end THEN u ELSE onward.match[v]
        BY <4>1
      <4>3. \A v \in seen : f[c].match[v] = match[v]
        BY <3>1, <3>2, <4>2
      <4>4. Proper(match) => Proper(f[c].match)
        BY <3>1, <3>2, <4>2 DEF Proper
      <4> QED
        BY <2>2, <4>1, <4>3, <4>4 DEF Plain
    <3>4. CASE ~onward.ok
      <4>1. PICK d \in Deeper(seen) : d = <<u, onward.match, onward.seen>>
        BY <3>2
      <4>2. f[c] = f[d] /\ d[1] = u /\ d[2] = match /\ d[3] = onward.seen
        BY <2>5, <3>1, <3>4, <4>1
      <4>3. Plain(f, d)
        BY <2>3
      <4>4. d \in Calls /\ Sound(f, d)
        BY <4>1, DfsSound DEF Deeper
      <4>5. onward.seen \subseteq f[c].seen
        BY <4>2, <4>4 DEF Sound
      <4>6. \A v \in seen : f[c].match[v] = match[v]
        BY <3>2, <4>2, <4>3 DEF Plain
      <4>7. Proper(match) => Proper(f[c].match)
        BY <4>2, <4>3 DEF Plain
      <4>8. ASSUME ~f[c].ok
            PROVE  /\ f[c].match = match /\ Ends(u) \subseteq f[c].seen
                   /\ Closed(match, f[c].seen, f[c].seen \ seen)
        <5>1. /\ f[c].match = match /\ Ends(u) \subseteq f[c].seen
              /\ Closed(match, f[c].seen, f[c].seen \ onward.seen)
          BY <4>2, <4>3, <4>8 DEF Plain
        <5>2. Closed(match, f[c].seen, onward.seen \ seen)
          <6> SUFFICES ASSUME NEW v \in onward.seen, v \notin seen
                       PROVE  match[v] # -1 /\ Ends(match[v]) \subseteq f[c].seen
            BY DEF Closed
          <6>1. match[v] # -1 /\ Ends(match[v]) \subseteq onward.seen
            BY <3>1, <3>4 DEF Closed
          <6> QED
            BY <6>1, <4>5
        <5> QED
          BY <5>1, <5>2 DEF Closed
      <4> QED
        BY <2>2, <4>6, <4>7, <4>8 DEF Plain
    <3> QED
      BY <3>3, <3>4
  <2> QED
    BY <2>1, <2>4, <2>5, DfsCases
<1> HIDE DEF P
<1>2. Calls \subseteq P
  BY <1>1, SearchInduction
<1> QED
  BY <1>2 DEF P

----------------------------------------------------------------------------
\* Outside S no source has two destinations.
Single(m, S) == \A v, o \in Node \ S : v # o /\ m[v] = m[o] => m[v] = -1
\* The sources that have a destination outside S.
Outside(m, S) == {m[v] : v \in Node \ S} \ {-1}

\* A search that succeeds gives its source a destination and takes none from
\* any other source.
Gives(f, c) ==
  Single(c[2], c[3]) /\ c[1] \notin Outside(c[2], c[3]) /\ f[c].ok =>
    /\ Single(f[c].match, c[3])
    /\ Outside(f[c].match, c[3]) = Outside(c[2], c[3]) \cup {c[1]}

\* Every call does.
LEMMA DfsGives ==
  ASSUME NEW f, IsDfs(f)
  PROVE  \A c \in Calls : Gives(f, c)
<1> DEFINE P == {c \in Calls : Gives(f, c)}
<1>1. \A c \in Calls : Deeper(c[3]) \subseteq P => c \in P
  <2> SUFFICES ASSUME NEW c \in Calls, Deeper(c[3]) \subseteq P PROVE Gives(f, c)
    OBVIOUS
  <2>1. PICK u \in Node, match \in Matching, seen \in SUBSET Node : c = <<u, match, seen>>
    BY DEF Calls
  <2>2. c[1] = u /\ c[2] = match /\ c[3] = seen
    BY <2>1
  <2>3. \A d \in Deeper(seen) : d \in Calls /\ Gives(f, d) /\ Plain(f, d) /\ Sound(f, d)
    BY <2>2, DfsPlain, DfsSound DEF Deeper
  <2> HIDE DEF P
  <2>4. CASE f[c] = [ok |-> FALSE, match |-> match, seen |-> seen]
    BY <2>4 DEF Gives
  <2>5. ASSUME NEW end, NEW onward, TriesNext(f, u, match, seen, end, onward),
               f[c] = IF onward.ok THEN [onward EXCEPT !.match[end] = u]
                      ELSE f[<<u, onward.match, onward.seen>>],
               Single(match, seen), u \notin Outside(match, seen), f[c].ok
        PROVE  /\ Single(f[c].match, seen)
               /\ Outside(f[c].match, seen) = Outside(match, seen) \cup {u}
    <3> DEFINE w == match[end]
               S == seen \cup {end}
    <3>1. /\ \A v \in S : onward.match[v] = match[v]
          /\ ~onward.ok => onward.match = match
      <4>1. \A d \in Deeper(seen) : Plain(f, d)
        BY <2>3
      <4>2. TriesNext(f, u, match, seen, end, onward)
        BY <2>5
      <4>3. /\ \A v \in seen \cup {end} : onward.match[v] = match[v]
            /\ Proper(match) => Proper(onward.match)
            /\ ~onward.ok => /\ onward.match = match
                             /\ match[end] # -1 /\ Ends(match[end]) \subseteq onward.seen
                             /\ Closed(match, onward.seen, onward.seen \ (seen \cup {end}))
        BY <4>1, <4>2, OnwardPlain
      <4> QED
        BY <4>3
    <3>2. /\ end \in Node /\ end \notin seen /\ onward \in Results
          /\ S \subseteq onward.seen /\ w \in Node \cup {-1} /\ -1 \notin Node
          /\ <<u, onward.match, onward.seen>> \in Deeper(seen)
          /\ match \in [Node -> Node \cup {-1}]
      BY <2>5 DEF TriesNext, Matching, Node
    <3>3. Single(match, S) /\ w \notin Outside(match, S)
      BY <2>5, <3>2 DEF Single, Outside
    <3>4. CASE onward.ok
      <4>1. /\ Single(onward.match, S)
            /\ Outside(onward.match, S) = Outside(match, S) \cup ({w} \ {-1})
        <5>1. CASE w = -1
          <6>1. onward.match = match
            BY <5>1, <2>5 DEF TriesNext
          <6> QED
            BY <6>1, <5>1, <3>3
        <5>2. CASE w # -1
          <6>1. PICK d \in Deeper(seen) : d = <<w, match, S>>
            BY <5>2, <2>5 DEF TriesNext
          <6>2. onward = f[d] /\ d[1] = w /\ d[2] = match /\ d[3] = S
            BY <5>2, <6>1, <2>5 DEF TriesNext, Tried
          <6>3. Gives(f, d)
            BY <2>3
          <6> QED
            BY <5>2, <6>2, <6>3, <3>3, <3>4 DEF Gives
        <5> QED
          BY <5>1, <5>2
      <4>2. /\ f[c].match = [onward.match EXCEPT ![end] = u]
            /\ onward.match \in [Node -> Node \cup {-1}]
        BY <2>5, <3>2, <3>4 DEF Results, Matching
      <4>3. \A v \in Node : f[c].match[v] = IF v = end THEN u ELSE onward.match[v]
        BY <4>2
      <4>4. Outside(match, seen) = Outside(match, S) \cup ({w} \ {-1})
        BY <3>2 DEF Outside
      <4>5. u \notin Outside(onward.match, S) /\ u # -1
        BY <4>1, <4>4, <2>5, <3>2
      <4> HIDE DEF w
      <4>6. \A v \in Node \ S : onward.match[v] # u
        BY <4>5 DEF Outside
      <4>7. Single(f[c].match, seen)
        <5> SUFFICES ASSUME NEW v \in Node \ seen, NEW o \in Node \ seen, v # o,
                            f[c].match[v] = f[c].match[o]
                     PROVE  f[c].match[v] = -1
          BY DEF Single
        <5>1. CASE v # end /\ o # end
          BY <5>1, <4>1, <4>3 DEF Single
        <5>2. CASE v = end
          BY <5>2, <4>3, <4>6
        <5>3. CASE o = end
          BY <5>3, <4>3, <4>6
        <5> QED
          BY <5>1, <5>2, <5>3
      <4>8. Outside(f[c].match, seen) = Outside(onward.match, S) \cup {u}
        BY <4>3, <4>5, <3>2 DEF Outside
      <4> QED
        BY <4>1, <4>4, <4>7, <4>8
    <3>5. CASE ~onward.ok
      <4>1. PICK d \in Deeper(seen) : d = <<u, onward.match, onward.seen>>
        BY <3>2
      <4> DEFINE T == onward.seen
      <4>2. f[c] = f[d] /\ d[1] = u /\ d[2] = match /\ d[3] = T
        BY <2>5, <3>1, <3>5, <4>1
      <4>3. Single(match, T) /\ u \notin Outside(match, T) /\ seen \subseteq T
        BY <2>5, <3>2 DEF Single, Outside
      <4>4. /\ Single(f[c].match, T)
            /\ Outside(f[c].match, T) = Outside(match, T) \cup {u}
            /\ \A v \in T : f[c].match[v] = match[v]
        <5>1. Gives(f, d) /\ Plain(f, d)
          BY <2>3
        <5>2. f[d].ok
          BY <2>5, <4>2
        <5> HIDE DEF T
        <5>3. \A v \in T : f[c].match[v] = match[v]
          BY <5>1, <4>2 DEF Plain
        <5> QED
          BY <5>1, <5>2, <5>3, <4>2, <4>3 DEF Gives
      <4>5. T \in SUBSET Node
        BY <3>2 DEF Results
      <4> HIDE DEF T
      <4>6. Outside(f[c].match, seen) = Outside(match, seen) \cup {u}
        BY <4>3, <4>4, <4>5 DEF Outside
      <4>7. Single(f[c].match, seen)
        <5> SUFFICES ASSUME NEW v \in Node \ seen, NEW o \in Node \ seen, v # o,
                            f[c].match[v] = f[c].match[o], f[c].match[v] # -1
                     PROVE  FALSE
          BY DEF Single
        <5>1. CASE v \notin T /\ o \notin T
          BY <5>1, <4>4 DEF Single
        <5>2. CASE v \in T /\ o \in T
          BY <5>2, <4>4, <2>5 DEF Single
        <5>3. ASSUME NEW x \in T \ seen, NEW y \in Node \ T, f[c].match[x] = f[c].match[y],
                     f[c].match[x] # -1
              PROVE  FALSE
          <6>1. match[x] = f[c].match[y] /\ match[x] # -1 /\ x \in Node
            BY <5>3, <4>4, <4>5
          <6>2. match[x] \in Outside(match, T) \cup {u}
            BY <6>1, <4>4, <5>3 DEF Outside
          <6>3. match[x] # u
            BY <6>1, <2>5, <5>3 DEF Outside
          <6>4. PICK z \in Node \ T : match[z] = match[x]
            BY <6>2, <6>3 DEF Outside
          <6> QED
            BY <6>1, <6>4, <2>5, <4>3, <5>3 DEF Single
        <5> QED
          BY <5>1, <5>2, <5>3
      <4> QED
        BY <4>6, <4>7
    <3> QED
      BY <3>4, <3>5
  <2>6. ASSUME NEW end, NEW onward, TriesNext(f, u, match, seen, end, onward),
               f[c] = IF onward.ok THEN [onward EXCEPT !.match[end] = u]
                      ELSE f[<<u, onward.match, onward.seen>>]
        PROVE  Gives(f, c)
    BY <2>2, <2>5, <2>6 DEF Gives
  <2> QED
    BY <2>1, <2>4, <2>6, DfsCases
<1> HIDE DEF P
<1>2. Calls \subseteq P
  BY <1>1, SearchInduction
<1> QED
  BY <1>2 DEF P

\* One search: the new matching gives the source a destination, or nothing changes
\* and some destinations are closed under asking their sources for others.
LEMMA AugmentedIs ==
  ASSUME NEW u \in Node, NEW m \in Matching
  PROVE  /\ Augmented(u, m) \in Matching
         /\ Proper(m) => Proper(Augmented(u, m))
         /\ Single(m, {}) /\ u \notin Outside(m, {}) =>
              /\ Single(Augmented(u, m), {})
              /\ \/ Outside(Augmented(u, m), {}) = Outside(m, {}) \cup {u}
                 \/ /\ Augmented(u, m) = m
                    /\ \E S \in SUBSET Node : Ends(u) \subseteq S /\ Closed(m, S, S)
<1>1. PICK f : IsDfs(f) /\ Augmented(u, m) = f[<<u, m, {}>>].match
  <2>1. Augmented(u, m) = (CHOOSE f : IsDfs(f))[<<u, m, {}>>].match
    BY DEF Augmented, IsDfs, Calls
  <2> QED
    BY <2>1, DfsExists
<1>2. PICK c \in Calls : c = <<u, m, {}>>
  BY DEF Calls
<1>3. c[1] = u /\ c[2] = m /\ c[3] = {}
  BY <1>2
<1>4. Sound(f, c) /\ Plain(f, c) /\ Gives(f, c)
  BY <1>1, DfsSound, DfsPlain, DfsGives
<1>5. Augmented(u, m) = f[c].match
  BY <1>1, <1>2
<1>6. f[c].match \in Matching /\ f[c].seen \in SUBSET Node
  BY <1>4 DEF Sound, Results
<1>7. Proper(m) => Proper(f[c].match)
  BY <1>3, <1>4 DEF Plain
<1>8. ASSUME Single(m, {}), u \notin Outside(m, {})
      PROVE  /\ Single(f[c].match, {})
             /\ \/ Outside(f[c].match, {}) = Outside(m, {}) \cup {u}
                \/ /\ f[c].match = m
                   /\ \E S \in SUBSET Node : Ends(u) \subseteq S /\ Closed(m, S, S)
  <2>1. CASE f[c].ok
    BY <1>3, <1>4, <1>8, <2>1 DEF Gives
  <2>2. CASE ~f[c].ok
    <3>1. /\ f[c].match = m /\ Ends(u) \subseteq f[c].seen
          /\ Closed(m, f[c].seen, f[c].seen \ {})
      BY <1>3, <1>4, <2>2 DEF Plain
    <3>2. Closed(m, f[c].seen, f[c].seen)
      BY <3>1 DEF Closed
    <3> QED
      BY <1>6, <1>8, <3>1, <3>2
  <2> QED
    BY <2>1, <2>2
<1> QED
  BY <1>5, <1>6, <1>7, <1>8

\* The search from one source after the other.
LEMMA MatchUpToIs ==
  /\ MatchUpTo[0] = [v \in Node |-> -1]
  /\ \A n \in 0 .. MaxNode : MatchUpTo[n] \in Matching
  /\ \A n \in Node : MatchUpTo[n] = Augmented(n, MatchUpTo[n - 1])
<1> USE SizesAssumption
<1> DEFINE none == [v \in Node |-> -1]
           Chain(t) == t = [n \in 0 .. MaxNode |-> IF n = 0 THEN none ELSE Augmented(n, t[n - 1])]
<1>1. PICK step : step = [n \in 1 .. MaxNode |-> [m \in Matching |-> Augmented(n, m)]]
  OBVIOUS
<1>2. step \in [1 .. MaxNode -> [Matching -> Matching]]
  BY <1>1, AugmentedIs DEF Node
<1>3. \A n \in 1 .. MaxNode, m \in Matching : step[n][m] = Augmented(n, m)
  BY <1>1
<1>4. none \in Matching
  BY DEF Matching
<1> HIDE DEF none
<1>5. PICK t : Iterates(t, MaxNode, Matching, none, step)
  <2>1. MaxNode \in Nat
    OBVIOUS
  <2> QED
    BY ONLY <2>1, <1>2, <1>4, Recursion, Zenon
<1>6. \A n \in 1 .. MaxNode : n - 1 \in 0 .. MaxNode
  OBVIOUS
<1>7. t \in [0 .. MaxNode -> Matching] /\ t[0] = none
      /\ \A n \in 1 .. MaxNode : t[n] = Augmented(n, t[n - 1])
  BY <1>3, <1>5, <1>6 DEF Iterates
<1>8. Chain(t)
  BY <1>7
<1>9. Chain(MatchUpTo)
  <2>1. MatchUpTo = CHOOSE x : Chain(x)
    BY DEF MatchUpTo, none
  <2> HIDE DEF Chain
  <2> QED
    BY <1>8, <2>1
<1>10. /\ MatchUpTo[0] = none
       /\ \A n \in 1 .. MaxNode : MatchUpTo[n] = Augmented(n, MatchUpTo[n - 1])
  <2>1. \A n \in 0 .. MaxNode : MatchUpTo[n] = IF n = 0 THEN none ELSE Augmented(n, MatchUpTo[n - 1])
    BY <1>9
  <2> QED
    BY <2>1
<1> DEFINE P == {n \in 0 .. MaxNode : MatchUpTo[n] \in Matching}
<1>11. 0 \in P
  BY <1>4, <1>10
<1>12. \A n \in 1 .. MaxNode : n - 1 \in P => n \in P
  BY <1>10, AugmentedIs DEF Node
<1> HIDE DEF P
<1>13. \A n \in 0 .. MaxNode : n \in P
  BY <1>11, <1>12, UpTo
<1> QED
  BY <1>10, <1>13 DEF P, none, Node

\* After the sources up to n have searched they alone have destinations, each at
\* most one, along links that are left.
LEMMA MatchingFound ==
  \A n \in 0 .. MaxNode :
    /\ Single(MatchUpTo[n], {}) /\ Proper(MatchUpTo[n])
    /\ Outside(MatchUpTo[n], {}) \subseteq 1 .. n
<1> USE SizesAssumption
<1> DEFINE P == {n \in 0 .. MaxNode :
                   /\ Single(MatchUpTo[n], {}) /\ Proper(MatchUpTo[n])
                   /\ Outside(MatchUpTo[n], {}) \subseteq 1 .. n}
<1>1. 0 \in P
  BY MatchUpToIs DEF Single, Proper, Outside
<1>2. ASSUME NEW n \in 1 .. MaxNode, n - 1 \in P
      PROVE  n \in P
  <2>1. n \in Node /\ MatchUpTo[n - 1] \in Matching /\ MatchUpTo[n] = Augmented(n, MatchUpTo[n - 1])
    BY MatchUpToIs DEF Node
  <2>2. PICK m \in Matching : m = MatchUpTo[n - 1]
    BY <2>1
  <2>3. Single(m, {}) /\ Proper(m) /\ Outside(m, {}) \subseteq 1 .. n - 1
    BY <1>2, <2>2
  <2>4. n \notin Outside(m, {})
    BY <2>3
  <2>5. /\ Proper(Augmented(n, m)) /\ Single(Augmented(n, m), {})
        /\ Outside(Augmented(n, m), {}) \subseteq Outside(m, {}) \cup {n}
    BY <2>1, <2>3, <2>4, AugmentedIs
  <2>6. Outside(Augmented(n, m), {}) \subseteq 1 .. n
    BY <2>3, <2>5
  <2>7. /\ Proper(MatchUpTo[n]) /\ Single(MatchUpTo[n], {})
        /\ Outside(MatchUpTo[n], {}) \subseteq 1 .. n
    BY <2>1, <2>2, <2>5, <2>6
  <2> QED
    BY <2>7
<1> HIDE DEF P
<1>3. \A n \in 1 .. MaxNode : n - 1 \in P => n \in P
  BY <1>2
<1>4. \A n \in 0 .. MaxNode : n \in P
  BY <1>1, <1>3, UpTo
<1> QED
  BY <1>4 DEF P

\* The pairs of the last matching: along links that are left, no source and no
\* destination twice.
LEMMA PairsMatch ==
  /\ \A l \in Pairs(MatchUpTo[MaxNode]) : l \in Link /\ (real[l] > 0 \/ dummy[l] > 0)
  /\ \A k, l \in Pairs(MatchUpTo[MaxNode]) : k # l => k[1] # l[1] /\ k[2] # l[2]
<1>1. PICK m \in Matching : /\ m = MatchUpTo[MaxNode] /\ Single(m, {}) /\ Proper(m)
  BY MatchUpToIs, MatchingFound, SizesAssumption
<1>2. \A l \in Pairs(m) : l \in Link /\ l[1] \in Node /\ l[2] \in Node /\ m[l[2]] = l[1] /\ l[1] # -1
                         /\ l = <<l[1], l[2]>>
  BY DEF Pairs, Link, Node
<1>3. ASSUME NEW l \in Pairs(m) PROVE real[l] > 0 \/ dummy[l] > 0
  <2>1. l[2] \in Ends(l[1])
    BY <1>1, <1>2 DEF Proper
  <2>2. real[<<l[1], l[2]>>] > 0 \/ dummy[<<l[1], l[2]>>] > 0
    BY <2>1 DEF Ends, Untried
  <2> QED
    BY <1>2, <2>2
<1>4. ASSUME NEW k \in Pairs(m), NEW l \in Pairs(m), k # l PROVE k[1] # l[1] /\ k[2] # l[2]
  <2>1. k[2] # l[2]
    BY <1>2, <1>4
  <2>2. k[1] # l[1]
    BY <1>1, <1>2, <2>1 DEF Single
  <2> QED
    BY <2>1, <2>2
<1> QED
  BY <1>1, <1>2, <1>3, <1>4

----------------------------------------------------------------------------
(* Degrees.                                                                 *)

\* How many tasks each link has.
Weights == [Link -> Nat]

\* Degrees are numbers, and 0 only where nothing is sent or received.
LEMMA DegreeType ==
  ASSUME NEW w \in Weights, NEW n \in Node
  PROVE  /\ OutDegree(w, n) \in Nat /\ InDegree(w, n) \in Nat
         /\ OutDegree(w, n) = 0 <=> \A v \in Node : w[<<n, v>>] = 0
         /\ InDegree(w, n) = 0 <=> \A u \in Node : w[<<u, n>>] = 0
<1>1. /\ [v \in Node |-> w[<<n, v>>]] \in [Node -> Nat]
      /\ [u \in Node |-> w[<<u, n>>]] \in [Node -> Nat]
  BY DEF Weights, Link
<1>2. PICK f \in [Node -> Nat] : f = [v \in Node |-> w[<<n, v>>]]
  BY <1>1
<1>3. PICK g \in [Node -> Nat] : g = [u \in Node |-> w[<<u, n>>]]
  BY <1>1
<1>4. OutDegree(w, n) = Total(f) /\ InDegree(w, n) = Total(g)
  BY <1>2, <1>3 DEF OutDegree, InDegree
<1>5. \A v \in Node : f[v] = w[<<n, v>>] /\ g[v] = w[<<v, n>>]
  BY <1>2, <1>3
<1> QED
  BY <1>4, <1>5, TotalNat, TotalZero

\* The degrees of two families of links together.
LEMMA DegreeAdd ==
  ASSUME NEW w1 \in Weights, NEW w2 \in Weights, NEW n \in Node
  PROVE  /\ Plus(w1, w2) \in Weights
         /\ OutDegree(Plus(w1, w2), n) = OutDegree(w1, n) + OutDegree(w2, n)
         /\ InDegree(Plus(w1, w2), n) = InDegree(w1, n) + InDegree(w2, n)
<1>10. /\ [v \in Node |-> w1[<<n, v>>]] \in [Node -> Int] /\ [v \in Node |-> w2[<<n, v>>]] \in [Node -> Int]
       /\ [u \in Node |-> w1[<<u, n>>]] \in [Node -> Int] /\ [u \in Node |-> w2[<<u, n>>]] \in [Node -> Int]
  BY DEF Weights, Link
<1>1. PICK f1 \in [Node -> Int] : f1 = [v \in Node |-> w1[<<n, v>>]]
  BY <1>10
<1>2. PICK f2 \in [Node -> Int] : f2 = [v \in Node |-> w2[<<n, v>>]]
  BY <1>10
<1>3. PICK g1 \in [Node -> Int] : g1 = [u \in Node |-> w1[<<u, n>>]]
  BY <1>10
<1>4. PICK g2 \in [Node -> Int] : g2 = [u \in Node |-> w2[<<u, n>>]]
  BY <1>10
<1>5. [v \in Node |-> Plus(w1, w2)[<<n, v>>]] = [v \in Node |-> f1[v] + f2[v]]
  BY <1>1, <1>2 DEF Plus, Link
<1>6. [u \in Node |-> Plus(w1, w2)[<<u, n>>]] = [v \in Node |-> g1[v] + g2[v]]
  BY <1>3, <1>4 DEF Plus, Link
<1>7. Plus(w1, w2) \in Weights
  BY DEF Plus, Weights
<1>8. OutDegree(Plus(w1, w2), n) = Total(f1) + Total(f2)
  BY <1>5, TotalAdd DEF OutDegree
<1>9. InDegree(Plus(w1, w2), n) = Total(g1) + Total(g2)
  BY <1>6, TotalAdd DEF InDegree
<1> QED
  BY <1>1, <1>2, <1>3, <1>4, <1>7, <1>8, <1>9 DEF OutDegree, InDegree

\* One weight.
OneLink(i, j, a) == [l \in Link |-> IF l = <<i, j>> THEN a ELSE 0]

\* It counts for its source and for its destination.
LEMMA DegreeOne ==
  ASSUME NEW i \in Node, NEW j \in Node, NEW a \in Nat, NEW n \in Node
  PROVE  /\ OneLink(i, j, a) \in Weights
         /\ OutDegree(OneLink(i, j, a), n) = IF n = i THEN a ELSE 0
         /\ InDegree(OneLink(i, j, a), n) = IF n = j THEN a ELSE 0
<1>1. OneLink(i, j, a) \in Weights
  BY DEF Weights, OneLink
<1>2. ASSUME NEW x \in Node
      PROVE  Total([v \in Node |-> IF v \in {x} THEN a ELSE 0]) = a
  <2>1. Cardinality({x}) = 1
    BY FS_Singleton
  <2>2. Total([v \in Node |-> IF v \in {x} THEN a ELSE 0]) = a * Cardinality({x})
    BY TotalOn
  <2> QED
    BY <2>1, <2>2
<1>3. [v \in Node |-> OneLink(i, j, a)[<<i, v>>]] = [v \in Node |-> IF v \in {j} THEN a ELSE 0]
  BY DEF OneLink, Link
<1>4. [u \in Node |-> OneLink(i, j, a)[<<u, j>>]] = [v \in Node |-> IF v \in {i} THEN a ELSE 0]
  BY DEF OneLink, Link
<1>5. OutDegree(OneLink(i, j, a), i) = a /\ InDegree(OneLink(i, j, a), j) = a
  BY <1>2, <1>3, <1>4 DEF OutDegree, InDegree
<1>6. n # i => OutDegree(OneLink(i, j, a), n) = 0
  <2>1. n # i => \A v \in Node : OneLink(i, j, a)[<<n, v>>] = 0
    BY DEF OneLink, Link
  <2> QED
    BY <1>1, <2>1, DegreeType
<1>7. n # j => InDegree(OneLink(i, j, a), n) = 0
  <2>1. n # j => \A u \in Node : OneLink(i, j, a)[<<u, n>>] = 0
    BY DEF OneLink, Link
  <2> QED
    BY <1>1, <2>1, DegreeType
<1> QED
  BY <1>1, <1>5, <1>6, <1>7

\* The values of a function on the nodes, and 0, have a largest one.
LEMMA LargestDegree ==
  ASSUME NEW w \in Weights
  PROVE  /\ Degree(w) \in Nat
         /\ \A n \in Node : OutDegree(w, n) <= Degree(w) /\ InDegree(w, n) <= Degree(w)
         /\ Degree(w) = 0 \/ \E n \in Node : OutDegree(w, n) = Degree(w) \/ InDegree(w, n) = Degree(w)
<1> DEFINE A == {OutDegree(w, u) : u \in Node}
           B == {InDegree(w, v) : v \in Node}
           S == {0} \cup A \cup B
<1>1. IsFiniteSet(A)
  <2>1. [u \in Node |-> OutDegree(w, u)] \in Surjection(Node, A)
    BY DEF Surjection
  <2> QED
    BY <2>1, NodesFinite, FS_Surjection
<1>2. IsFiniteSet(B)
  <2>1. [v \in Node |-> InDegree(w, v)] \in Surjection(Node, B)
    BY DEF Surjection
  <2> QED
    BY <2>1, NodesFinite, FS_Surjection
<1>3. S \subseteq Nat /\ 0 \in S
  BY DegreeType
<1>4. IsFiniteSet(S)
  <2> HIDE DEF A, B
  <2>1. IsFiniteSet({0})
    BY FS_Singleton
  <2> QED
    BY <1>1, <1>2, <2>1, FS_Union
<1>5. Degree(w) = Max(S)
  BY DEF Degree
<1>6. Max(S) \in S /\ \A y \in S : y <= Max(S)
  <2> HIDE DEF S
  <2> QED
    BY <1>3, <1>4, MaxMember
<1> QED
  BY <1>3, <1>5, <1>6

\* Nothing is sent or received beyond the last node.
LEMMA LastIs ==
  ASSUME NEW w \in Weights
  PROVE  /\ LastNode(w) \in 0 .. MaxNode
         /\ \A l \in Link : w[l] > 0 => l[1] \in 1 .. LastNode(w) /\ l[2] \in 1 .. LastNode(w)
<1>1. Nodes(w) \subseteq Node
  BY DEF Nodes, Link
<1>2. IsFiniteSet(Nodes(w) \cup {0})
  <2>1. IsFiniteSet(Nodes(w)) /\ IsFiniteSet({0})
    BY <1>1, NodesFinite, FS_Subset, FS_Singleton
  <2> QED
    BY <2>1, FS_Union
<1>3. Nodes(w) \cup {0} \subseteq Nat /\ Nodes(w) \cup {0} # {}
  BY <1>1 DEF Node
<1>4. LastNode(w) \in Nodes(w) \cup {0} /\ \A y \in Nodes(w) \cup {0} : y <= LastNode(w)
  <2> DEFINE S == Nodes(w) \cup {0}
  <2> HIDE DEF S
  <2>1. IsFiniteSet(S) /\ S \subseteq Nat /\ S # {}
    BY <1>2, <1>3 DEF S
  <2>2. Max(S) \in S /\ \A y \in S : y <= Max(S)
    BY <2>1, MaxMember
  <2> QED
    BY <2>2 DEF LastNode, S
<1>5. ASSUME NEW l \in Link, w[l] > 0
      PROVE  l[1] \in 1 .. LastNode(w) /\ l[2] \in 1 .. LastNode(w)
  <2>1. l[1] \in Nodes(w) /\ l[2] \in Nodes(w)
    BY <1>5 DEF Nodes
  <2>2. l[1] \in Node /\ l[2] \in Node
    BY <1>1, <2>1
  <2> QED
    BY <1>4, <2>1, <2>2, <1>3, <1>1 DEF Node
<1> QED
  BY <1>1, <1>4, <1>5, SizesAssumption DEF Node

----------------------------------------------------------------------------
(* The padding.                                                             *)

\* Weights that give no node more than d, and none to a node beyond last.
Within(w, d, last) ==
  /\ w \in Weights
  /\ \A n \in Node : OutDegree(w, n) <= d /\ InDegree(w, n) <= d
  /\ \A l \in Link : w[l] > 0 => l[1] \in 1 .. last /\ l[2] \in 1 .. last

\* Every node up to last sends, and receives, d.
Sending(w, d, last)   == \A n \in Node : n <= last => OutDegree(w, n) = d
Receiving(w, d, last) == \A n \in Node : n <= last => InDegree(w, n) = d

\* What is sent is received: when all nodes send as much as they may, all receive
\* as much as they may, and the other way round.
LEMMA SendersAndReceivers ==
  ASSUME NEW w, NEW d \in Nat, NEW last \in 0 .. MaxNode, Within(w, d, last)
  PROVE  Sending(w, d, last) <=> Receiving(w, d, last)
<1> USE SizesAssumption
<1>1. w \in Weights /\ w \in [Link -> Int]
  BY DEF Within, Weights
<1>2. \A n \in Node : /\ OutDegree(w, n) \in Nat /\ OutDegree(w, n) <= d
                      /\ InDegree(w, n) \in Nat /\ InDegree(w, n) <= d
  BY <1>1, DegreeType DEF Within
<1>3. PICK f \in [Node -> Nat] : f = [u \in Node |-> OutDegree(w, u)]
  BY <1>2
<1>4. PICK g \in [Node -> Nat] : g = [v \in Node |-> InDegree(w, v)]
  BY <1>2
<1>5. PICK h \in [Node -> Nat] : h = [n \in Node |-> IF n <= last THEN d ELSE 0]
  OBVIOUS
<1>6. Total(f) = Total(g)
  BY <1>1, <1>3, <1>4, TotalSwap DEF Weight
<1>7. ASSUME NEW n \in Node, ~(n <= last)
      PROVE  f[n] = 0 /\ g[n] = 0
  <2>1. \A v \in Node : w[<<n, v>>] = 0 /\ w[<<v, n>>] = 0
    <3> SUFFICES ASSUME NEW v \in Node PROVE w[<<n, v>>] = 0 /\ w[<<v, n>>] = 0
      OBVIOUS
    <3>1. /\ <<n, v>> \in Link /\ <<n, v>>[1] = n /\ <<v, n>> \in Link /\ <<v, n>>[2] = n
          /\ n \notin 1 .. last
      BY <1>7 DEF Link
    <3>2. w[<<n, v>>] \in Nat /\ w[<<v, n>>] \in Nat
      BY <1>1, <3>1 DEF Weights
    <3> QED
      BY <3>1, <3>2 DEF Within
  <2> QED
    BY <1>1, <1>3, <1>4, <2>1, DegreeType
<1>8. \A n \in Node : f[n] <= h[n] /\ g[n] <= h[n]
  BY <1>2, <1>3, <1>4, <1>5, <1>7
<1>9. ASSUME Sending(w, d, last), NEW n \in Node, n <= last
      PROVE  InDegree(w, n) = d
  <2>1. \A k \in Node : f[k] = h[k]
    BY <1>3, <1>5, <1>7, <1>9 DEF Sending
  <2>2. f = h
    BY <2>1
  <2>3. ~(g[n] < h[n])
    BY <1>6, <1>8, <2>2, TotalLess, TotalNat
  <2> QED
    BY <2>3, <1>2, <1>4, <1>5, <1>9
<1>10. ASSUME Receiving(w, d, last), NEW n \in Node, n <= last
       PROVE  OutDegree(w, n) = d
  <2>1. \A k \in Node : g[k] = h[k]
    BY <1>4, <1>5, <1>7, <1>10 DEF Receiving
  <2>2. g = h
    BY <2>1
  <2>3. ~(f[n] < h[n])
    BY <1>6, <1>8, <2>2, TotalLess, TotalNat
  <2> QED
    BY <2>3, <1>2, <1>3, <1>5, <1>10
<1> QED
  BY <1>9, <1>10 DEF Sending, Receiving

\* Dummy links that give no node more than the busiest one has.
Fits(p) == p \in Weights /\ Within(Plus(physical, p), Degree(physical), LastNode(physical))

\* How many senders and receivers are still to be filled up.
Lacks(p) == Cardinality(OutLacking(Plus(physical, p))) + Cardinality(InLacking(Plus(physical, p)))

\* The lacks are a number; while a sender lacks something so does a receiver.
LEMMA LacksAre ==
  ASSUME physical \in Weights, NEW p, Fits(p)
  PROVE  LET total == Plus(physical, p)
         IN /\ OutLacking(total) \subseteq Node /\ InLacking(total) \subseteq Node
            /\ IsFiniteSet(OutLacking(total)) /\ IsFiniteSet(InLacking(total))
            /\ Cardinality(OutLacking(total)) \in 0 .. MaxNode
            /\ Cardinality(InLacking(total)) \in 0 .. MaxNode
            /\ OutLacking(total) = {} <=> InLacking(total) = {}
            /\ OutLacking(total) = {} <=> Sending(total, Degree(physical), LastNode(physical))
<1> USE SizesAssumption
<1>1. PICK total : total = Plus(physical, p)
  OBVIOUS
<1>2. PICK d \in Nat : d = Degree(physical)
  BY LargestDegree
<1>3. PICK last \in 0 .. MaxNode : last = LastNode(physical)
  BY LastIs
<1>4. Within(total, d, last)
  BY <1>1, <1>2, <1>3 DEF Fits
<1>5. OutLacking(total) = {u \in 1 .. last : OutDegree(total, u) < d}
      /\ InLacking(total) = {v \in 1 .. last : InDegree(total, v) < d}
  BY <1>2, <1>3 DEF OutLacking, InLacking
<1>6. OutLacking(total) \subseteq Node /\ InLacking(total) \subseteq Node
  BY <1>5 DEF Node
<1>7. IsFiniteSet(Node) /\ Cardinality(Node) = MaxNode
  <2>1. 1 \in Int /\ MaxNode \in Int
    OBVIOUS
  <2>2. Cardinality(1 .. MaxNode) = IF 1 > MaxNode THEN 0 ELSE MaxNode - 1 + 1
    BY ONLY <2>1, FS_Interval, Zenon
  <2>3. Cardinality(1 .. MaxNode) = MaxNode
    BY <2>2
  <2> QED
    BY <2>3, NodesFinite DEF Node
<1>8. ASSUME NEW S \in SUBSET Node PROVE IsFiniteSet(S) /\ Cardinality(S) \in 0 .. MaxNode
  BY <1>7, FS_Subset, FS_CardinalityType
<1>9. \A n \in Node : /\ OutDegree(total, n) \in Nat /\ OutDegree(total, n) <= d
                      /\ InDegree(total, n) \in Nat /\ InDegree(total, n) <= d
  BY <1>4, DegreeType DEF Within
<1>10. OutLacking(total) = {} <=> Sending(total, d, last)
  BY <1>5, <1>9 DEF Sending, Node
<1>11. InLacking(total) = {} <=> Receiving(total, d, last)
  BY <1>5, <1>9 DEF Receiving, Node
<1>12. Sending(total, d, last) <=> Receiving(total, d, last)
  BY <1>4, SendersAndReceivers
<1> QED
  BY <1>1, <1>2, <1>3, <1>6, <1>8, <1>10, <1>11, <1>12

\* One more dummy link fits, and fills up a sender or a receiver.
LEMMA FillFits ==
  ASSUME physical \in Weights, NEW p, Fits(p)
  PROVE  /\ Fits(Fill(p))
         /\ OutLacking(Plus(physical, p)) # {} => Lacks(Fill(p)) < Lacks(p)
         /\ OutLacking(Plus(physical, p)) = {} => Fill(p) = p
<1> USE SizesAssumption
<1>1. CASE OutLacking(Plus(physical, p)) = {}
  BY <1>1 DEF Fill
<1>2. CASE OutLacking(Plus(physical, p)) # {}
  <2>1. PICK total : total = Plus(physical, p) /\ total \in Weights
    BY DEF Fits, Within
  <2>2. PICK d \in Nat : d = Degree(physical)
    BY LargestDegree
  <2>3. PICK last \in 0 .. MaxNode : last = LastNode(physical)
    BY LastIs
  <2>4. Within(total, d, last)
    BY <2>1, <2>2, <2>3 DEF Fits
  <2>5. OutLacking(total) # {} /\ InLacking(total) # {}
        /\ OutLacking(total) \subseteq Node /\ InLacking(total) \subseteq Node
    BY <1>2, <2>1, LacksAre
  <2>6. PICK i \in OutLacking(total) : i = Min(OutLacking(total))
    <3>1. OutLacking(total) \subseteq Nat
      BY <2>5 DEF Node
    <3> QED
      BY <2>5, <3>1, MinMember
  <2>7. PICK j \in InLacking(total) : j = Min(InLacking(total))
    <3>1. InLacking(total) \subseteq Nat
      BY <2>5 DEF Node
    <3> QED
      BY <2>5, <3>1, MinMember
  <2>8. /\ i \in Node /\ j \in Node /\ i \in 1 .. last /\ j \in 1 .. last
        /\ OutDegree(total, i) < d /\ InDegree(total, j) < d
    BY <2>2, <2>3, <2>5 DEF OutLacking, InLacking
  <2>9. PICK x \in Nat : x = OutDegree(total, i)
    BY <2>1, <2>8, DegreeType
  <2>10. PICK y \in Nat : y = InDegree(total, j)
    BY <2>1, <2>8, DegreeType
  <2>11. PICK a \in Nat : a = Min({d - x, d - y})
                          /\ a > 0 /\ a <= d - x /\ a <= d - y /\ (a = d - x \/ a = d - y)
    <3>1. {d - x, d - y} \subseteq Nat /\ {d - x, d - y} # {} /\ d - x > 0 /\ d - y > 0
      BY <2>8, <2>9, <2>10
    <3>2. Min({d - x, d - y}) \in {d - x, d - y} /\ \A z \in {d - x, d - y} : Min({d - x, d - y}) <= z
      BY <3>1, MinMember
    <3> QED
      BY <3>1, <3>2
  <2>12. Fill(p) = [p EXCEPT ![<<i, j>>] = @ + a]
    BY <1>2, <2>1, <2>2, <2>6, <2>7, <2>9, <2>10, <2>11 DEF Fill
  <2>13. PICK more \in Weights : more = OneLink(i, j, a)
    BY <2>8, DegreeOne
  <2>14. PICK sum \in Weights : sum = Plus(total, more)
    BY <2>1, <2>8, DegreeAdd
  <2>15. p \in [Link -> Nat] /\ <<i, j>> \in Link
    BY <2>8 DEF Fits, Weights, Link
  <2>16. Fill(p) \in Weights
    BY <2>12, <2>15 DEF Weights
  <2>17. Plus(physical, Fill(p)) = sum
    <3>1. \A l \in Link : Fill(p)[l] = p[l] + (IF l = <<i, j>> THEN a ELSE 0)
      BY <2>12, <2>15
    <3>2. \A l \in Link : /\ physical[l] \in Nat /\ p[l] \in Nat
                          /\ total[l] = physical[l] + p[l]
                          /\ more[l] = IF l = <<i, j>> THEN a ELSE 0
      BY <2>1, <2>13, <2>15 DEF Plus, OneLink, Weights
    <3>3. \A l \in Link : physical[l] + Fill(p)[l] = total[l] + more[l]
      BY <3>1, <3>2
    <3> QED
      BY <2>14, <3>3 DEF Plus
  <2>18. ASSUME NEW n \in Node
         PROVE  /\ OutDegree(sum, n) = OutDegree(total, n) + (IF n = i THEN a ELSE 0)
                /\ InDegree(sum, n) = InDegree(total, n) + (IF n = j THEN a ELSE 0)
                /\ OutDegree(total, n) \in Nat /\ OutDegree(total, n) <= d
                /\ InDegree(total, n) \in Nat /\ InDegree(total, n) <= d
    <3>1. /\ OutDegree(Plus(total, more), n) = OutDegree(total, n) + OutDegree(more, n)
          /\ InDegree(Plus(total, more), n) = InDegree(total, n) + InDegree(more, n)
      BY <2>1, <2>13, DegreeAdd
    <3>2. /\ OutDegree(more, n) = IF n = i THEN a ELSE 0
          /\ InDegree(more, n) = IF n = j THEN a ELSE 0
      BY <2>8, <2>13, DegreeOne
    <3>3. OutDegree(total, n) \in Nat /\ InDegree(total, n) \in Nat
      BY <2>1, DegreeType
    <3> QED
      BY <2>4, <2>14, <3>1, <3>2, <3>3 DEF Within
  <2>19. Within(sum, d, last)
    <3>1. \A n \in Node : OutDegree(sum, n) <= d /\ InDegree(sum, n) <= d
      BY <2>9, <2>10, <2>11, <2>18
    <3>2. ASSUME NEW l \in Link, sum[l] > 0 PROVE l[1] \in 1 .. last /\ l[2] \in 1 .. last
      <4>1. CASE l = <<i, j>>
        BY <4>1, <2>8
      <4>2. CASE l # <<i, j>>
        <5>1. more[l] = 0 /\ total[l] \in Nat /\ sum[l] = total[l] + more[l]
          BY <4>2, <2>1, <2>13, <2>14 DEF OneLink, Plus, Weights
        <5>2. total[l] > 0
          BY <3>2, <5>1
        <5> QED
          BY <5>2, <2>4 DEF Within
      <4> QED
        BY <4>1, <4>2
    <3> QED
      BY <2>14, <3>1, <3>2 DEF Within
  <2>20. Fits(Fill(p))
    BY <2>2, <2>3, <2>16, <2>17, <2>19 DEF Fits
  <2>21. Lacks(Fill(p)) < Lacks(p)
    <3>1. /\ OutLacking(total) = {u \in 1 .. last : OutDegree(total, u) < d}
          /\ InLacking(total) = {v \in 1 .. last : InDegree(total, v) < d}
          /\ OutLacking(sum) = {u \in 1 .. last : OutDegree(sum, u) < d}
          /\ InLacking(sum) = {v \in 1 .. last : InDegree(sum, v) < d}
      BY <2>2, <2>3 DEF OutLacking, InLacking
    <3>2. \A n \in 1 .. last : n \in Node
      BY DEF Node
    <3>3. OutLacking(sum) \subseteq OutLacking(total) /\ InLacking(sum) \subseteq InLacking(total)
      BY <3>1, <3>2, <2>11, <2>18
    <3>4. i \notin OutLacking(sum) \/ j \notin InLacking(sum)
      <4>1. OutDegree(sum, i) = x + a /\ InDegree(sum, j) = y + a
        BY <2>8, <2>9, <2>10, <2>18
      <4>2. x + a = d \/ y + a = d
        BY <2>9, <2>10, <2>11
      <4> QED
        BY <3>1, <4>1, <4>2
    <3>5. PICK o1, o2, i1, i2 \in Nat :
            /\ o1 = Cardinality(OutLacking(total)) /\ i1 = Cardinality(InLacking(total))
            /\ o2 = Cardinality(OutLacking(sum)) /\ i2 = Cardinality(InLacking(sum))
      BY <2>1, <2>17, <2>20, LacksAre
    <3>6. IsFiniteSet(OutLacking(total)) /\ IsFiniteSet(InLacking(total))
      BY <2>1, LacksAre
    <3>7. o2 <= o1 /\ i2 <= i1
      BY <3>3, <3>5, <3>6, FS_Subset
    <3>8. (i \notin OutLacking(sum) => o2 # o1) /\ (j \notin InLacking(sum) => i2 # i1)
      BY <3>3, <3>5, <3>6, FS_Subset
    <3>9. o2 + i2 < o1 + i1
      BY <3>4, <3>7, <3>8
    <3> QED
      BY <3>5, <3>9, <2>1, <2>17 DEF Lacks
  <2> QED
    BY <1>2, <2>20, <2>21
<1> QED
  BY <1>1, <1>2

\* The padding makes every node up to the last send, and receive, as much as the
\* busiest one.
LEMMA PaddingIsRegular ==
  ASSUME physical \in Weights
  PROVE  /\ Fits(Padding)
         /\ Sending(Plus(physical, Padding), Degree(physical), LastNode(physical))
         /\ Receiving(Plus(physical, Padding), Degree(physical), LastNode(physical))
<1> USE SizesAssumption
<1>1. PICK N \in Nat : N = 2 * MaxNode
  OBVIOUS
<1> DEFINE Chain(t) == t = [n \in 0 .. N |-> IF n = 0 THEN NoWeight ELSE Fill(t[n - 1])]
           V == {p \in Weights : Fits(p)}
<1>2. NoWeight \in V /\ Lacks(NoWeight) <= N
  <2>1. NoWeight \in Weights
    BY DEF NoWeight, Weights
  <2>2. Plus(physical, NoWeight) = physical
    <3>1. \A l \in Link : physical[l] + NoWeight[l] = physical[l]
      BY DEF NoWeight, Weights
    <3>2. physical = [l \in Link |-> physical[l]]
      BY DEF Weights
    <3> QED
      BY <3>1, <3>2 DEF Plus
  <2>3. Within(physical, Degree(physical), LastNode(physical))
    BY LargestDegree, LastIs DEF Within
  <2>4. Fits(NoWeight)
    BY <2>1, <2>2, <2>3 DEF Fits
  <2>5. Lacks(NoWeight) <= N
    BY <1>1, <2>4, LacksAre DEF Lacks
  <2> QED
    BY <2>1, <2>4, <2>5
<1>3. \A p \in V : Fill(p) \in V
  BY FillFits DEF Fits
<1>4. PICK step : step = [n \in 1 .. N |-> [p \in V |-> Fill(p)]]
  OBVIOUS
<1>5. step \in [1 .. N -> [V -> V]] /\ \A n \in 1 .. N : \A p \in V : step[n][p] = Fill(p)
  BY <1>3, <1>4
<1>6. PICK t : Iterates(t, N, V, NoWeight, step)
  <2>1. NoWeight \in V /\ step \in [1 .. N -> [V -> V]]
    BY <1>2, <1>5
  <2> HIDE DEF V
  <2> QED
    BY ONLY N \in Nat, <2>1, Recursion, Zenon
<1>7. \A n \in 1 .. N : n - 1 \in 0 .. N
  OBVIOUS
<1>8. Chain(t)
  BY <1>5, <1>6, <1>7 DEF Iterates
<1>9. PICK s : Chain(s) /\ Padding = s[N]
  <2>1. Padding = (CHOOSE x : Chain(x))[N]
    BY <1>1 DEF Padding
  <2> HIDE DEF Chain
  <2> QED
    BY <1>8, <2>1
<1>10. s[0] = NoWeight /\ \A n \in 1 .. N : s[n] = Fill(s[n - 1])
  <2>1. \A n \in 0 .. N : s[n] = IF n = 0 THEN NoWeight ELSE Fill(s[n - 1])
    BY <1>9
  <2> QED
    BY <2>1
<1> DEFINE P == {n \in 0 .. N : /\ Fits(s[n])
                                /\ \/ OutLacking(Plus(physical, s[n])) = {}
                                   \/ Lacks(s[n]) <= N - n}
<1>11. 0 \in P
  BY <1>2, <1>10
<1>12. ASSUME NEW n \in 1 .. N, n - 1 \in P PROVE n \in P
  <2>1. PICK p : p = s[n - 1]
    OBVIOUS
  <2>2. Fits(p) /\ s[n] = Fill(p)
    BY <1>10, <1>12, <2>1
  <2>3. Fits(Fill(p))
    BY <2>2, FillFits
  <2>4. CASE OutLacking(Plus(physical, p)) = {}
    BY <2>2, <2>4, FillFits
  <2>5. CASE OutLacking(Plus(physical, p)) # {}
    <3>1. Lacks(p) <= N - (n - 1)
      BY <1>12, <2>1, <2>5
    <3>2. Lacks(Fill(p)) < Lacks(p)
      BY <2>2, <2>5, FillFits
    <3>3. Lacks(p) \in Nat /\ Lacks(Fill(p)) \in Nat
      BY <2>2, <2>3, LacksAre DEF Lacks
    <3> QED
      BY <2>2, <2>3, <3>1, <3>2, <3>3
  <2> QED
    BY <2>4, <2>5
<1>13. N \in P
  <2> HIDE DEF P
  <2>1. \A n \in 1 .. N : n - 1 \in P => n \in P
    BY <1>12
  <2> QED
    BY <1>11, <2>1, UpTo
<1>14. PICK p : p = Padding
  OBVIOUS
<1>15. Fits(p) /\ (OutLacking(Plus(physical, p)) = {} \/ Lacks(p) <= 0)
  BY <1>9, <1>13, <1>14
<1>16. OutLacking(Plus(physical, p)) = {}
  <2> SUFFICES ASSUME Lacks(p) <= 0 PROVE OutLacking(Plus(physical, p)) = {}
    BY <1>15
  <2>1. IsFiniteSet(OutLacking(Plus(physical, p)))
        /\ Cardinality(OutLacking(Plus(physical, p))) \in Nat
        /\ Cardinality(InLacking(Plus(physical, p))) \in Nat
    BY <1>15, LacksAre
  <2>2. Cardinality(OutLacking(Plus(physical, p))) = 0
    BY <2>1 DEF Lacks
  <2> QED
    BY <2>1, <2>2, FS_EmptySet
<1>17. Sending(Plus(physical, p), Degree(physical), LastNode(physical))
  BY <1>15, <1>16, LacksAre
<1>18. Within(Plus(physical, p), Degree(physical), LastNode(physical))
       /\ Degree(physical) \in Nat /\ LastNode(physical) \in 0 .. MaxNode
  BY <1>15, LargestDegree, LastIs DEF Fits
<1>19. Receiving(Plus(physical, p), Degree(physical), LastNode(physical))
  BY <1>17, <1>18, SendersAndReceivers
<1> QED
  BY <1>14, <1>15, <1>17, <1>19

----------------------------------------------------------------------------
(* The matching of a round covers every node.                               *)

\* The links that are left: each node up to last sends d and receives d.
Even(d, last) ==
  /\ real \in Weights /\ dummy \in Weights
  /\ d \in Nat /\ last \in 0 .. MaxNode
  /\ Within(Plus(real, dummy), d, last)
  /\ Sending(Plus(real, dummy), d, last)
  /\ Receiving(Plus(real, dummy), d, last)

\* The neighbours of a node are those it has weight left to.
LEMMA EndsAre ==
  ASSUME real \in Weights, dummy \in Weights, NEW u \in Node
  PROVE  Ends(u) = {v \in Node : Plus(real, dummy)[<<u, v>>] > 0}
<1>1. \A v \in Node : <<u, v>> \in Link
  BY DEF Link
<1>2. \A v \in Node : /\ Plus(real, dummy)[<<u, v>>] = real[<<u, v>>] + dummy[<<u, v>>]
                      /\ real[<<u, v>>] \in Nat /\ dummy[<<u, v>>] \in Nat
  BY <1>1 DEF Plus, Weights
<1>3. \A v \in Node : Plus(real, dummy)[<<u, v>>] > 0 <=> (real[<<u, v>>] > 0 \/ dummy[<<u, v>>] > 0)
  BY <1>2
<1> QED
  BY <1>3 DEF Ends, Untried

\* As long as something is left a search from an unmatched source never fails: a
\* source more than the destinations seen would share what these receive.
LEMMA SearchSucceeds ==
  ASSUME NEW d, NEW last, Even(d, last), d > 0,
         NEW m \in Matching, Single(m, {}), Proper(m),
         NEW u \in Node, u <= last, u \notin Outside(m, {}),
         NEW S \in SUBSET Node, Ends(u) \subseteq S, Closed(m, S, S)
  PROVE  FALSE
<1> USE SizesAssumption
<1>1. d \in Nat /\ real \in Weights /\ dummy \in Weights
  BY DEF Even
<1>2. PICK total \in Weights : total = Plus(real, dummy)
  BY DEF Even, Within
<1>3. Within(total, d, last) /\ Sending(total, d, last)
  BY <1>2 DEF Even
<1>4. \A a \in Node : Ends(a) = {v \in Node : total[<<a, v>>] > 0}
  BY <1>1, <1>2, EndsAre
<1> DEFINE T == {m[v] : v \in S}
           A == T \cup {u}
<1>5. \A v \in S : m[v] \in Node /\ Ends(m[v]) \subseteq S /\ v \in Ends(m[v])
  BY DEF Closed, Matching, Proper
<1>6. \A a \in A : a \in Node /\ a <= last /\ Ends(a) \subseteq S
  <2> SUFFICES ASSUME NEW v \in S PROVE m[v] <= last
    BY <1>5
  <2>1. m[v] \in Node /\ total[<<m[v], v>>] > 0
    BY <1>4, <1>5
  <2>2. PICK l \in Link : l = <<m[v], v>>
    BY <2>1 DEF Link
  <2>3. l[1] = m[v] /\ total[l] > 0 /\ last \in Nat
    BY <2>1, <2>2 DEF Even
  <2>4. l[1] \in 1 .. last
    BY <1>3, <2>3 DEF Within
  <2> QED
    BY <2>3, <2>4
<1>7. A \in SUBSET Node
  BY <1>6
<1>8. IsFiniteSet(S) /\ Cardinality(S) \in Nat
  BY NodesFinite, FS_Subset, FS_CardinalityType
<1>9. IsFiniteSet(A) /\ Cardinality(A) = Cardinality(S) + 1
  <2>1. PICK g : g = [v \in S |-> m[v]]
    OBVIOUS
  <2>2. g \in Bijection(S, T)
    <3>1. \A v, o \in S : v # o => m[v] # m[o]
      BY <1>5 DEF Single, Node
    <3> QED
      BY <2>1, <3>1 DEF Bijection, Injection, Surjection, IsInjective
  <2>3. IsFiniteSet(T) /\ Cardinality(T) = Cardinality(S)
    <3> HIDE DEF T
    <3> QED
      BY <1>8, <2>2, FS_Bijection DEF ExistsBijection
  <2>4. u \notin T
    BY <1>5 DEF Outside, Node
  <2> HIDE DEF T
  <2> QED
    BY <2>3, <2>4, FS_AddElement
<1> HIDE DEF A, T
<1>10. PICK part \in Weights : part = [l \in Link |-> IF l[1] \in A THEN total[l] ELSE 0]
  BY DEF Weights
<1>11. ASSUME NEW n \in Node PROVE OutDegree(part, n) = IF n \in A THEN d ELSE 0
  <2>1. \A v \in Node : /\ <<n, v>> \in Link
                        /\ part[<<n, v>>] = IF n \in A THEN total[<<n, v>>] ELSE 0
    BY <1>10 DEF Link
  <2>2. CASE n \in A
    <3>1. [v \in Node |-> part[<<n, v>>]] = [v \in Node |-> total[<<n, v>>]]
      BY <2>1, <2>2
    <3>2. OutDegree(part, n) = OutDegree(total, n)
      BY <3>1 DEF OutDegree
    <3> QED
      BY <2>2, <3>2, <1>3, <1>6 DEF Sending
  <2>3. CASE n \notin A
    BY <2>1, <2>3, <1>10, DegreeType
  <2> QED
    BY <2>2, <2>3
<1>12. Weight(part) = d * Cardinality(A)
  <2>1. [n \in Node |-> OutDegree(part, n)] = [n \in Node |-> IF n \in A THEN d ELSE 0]
    BY <1>11
  <2>2. Total([n \in Node |-> IF n \in A THEN d ELSE 0]) = d * Cardinality(A)
    BY <1>1, <1>7, TotalOn
  <2> QED
    BY <2>1, <2>2 DEF Weight
<1>13. ASSUME NEW n \in Node
       PROVE  InDegree(part, n) \in Nat /\ InDegree(part, n) <= IF n \in S THEN d ELSE 0
  <2>0. InDegree(part, n) \in Nat
    BY <1>10, DegreeType
  <2>1. \A v \in Node : /\ <<v, n>> \in Link /\ total[<<v, n>>] \in Nat
                        /\ part[<<v, n>>] = IF v \in A THEN total[<<v, n>>] ELSE 0
    BY <1>2, <1>10 DEF Link, Weights
  <2>2. CASE n \in S
    <3>0. \A v \in Node : part[<<v, n>>] \in Nat
      BY <2>1
    <3>1. PICK f \in [Node -> Nat] : f = [v \in Node |-> part[<<v, n>>]]
      BY <3>0
    <3>2. PICK g \in [Node -> Nat] : g = [v \in Node |-> total[<<v, n>>]]
      BY <2>1
    <3>3. \A v \in Node : f[v] <= g[v]
      BY <2>1, <3>1, <3>2
    <3>4. Total(f) <= Total(g)
      BY <3>3, TotalLess
    <3>5. InDegree(part, n) <= InDegree(total, n)
      BY <3>1, <3>2, <3>4 DEF InDegree
    <3>6. InDegree(total, n) \in Nat /\ InDegree(total, n) <= d
      BY <1>2, <1>3, DegreeType DEF Within
    <3> QED
      BY <2>0, <2>2, <3>5, <3>6, <1>1
  <2>3. CASE n \notin S
    <3>1. \A v \in Node : part[<<v, n>>] = 0
      <4> SUFFICES ASSUME NEW v \in Node, v \in A PROVE total[<<v, n>>] = 0
        BY <2>1
      <4>1. n \notin Ends(v)
        BY <1>6, <2>3
      <4> QED
        BY <1>4, <2>1, <4>1
    <3> QED
      BY <2>3, <3>1, <1>10, DegreeType
  <2> QED
    BY <2>2, <2>3
<1>14. Weight(part) <= d * Cardinality(S)
  <2>1. PICK f \in [Node -> Nat] : f = [n \in Node |-> InDegree(part, n)]
    BY <1>13
  <2>2. PICK g \in [Node -> Nat] : g = [n \in Node |-> IF n \in S THEN d ELSE 0]
    BY <1>1
  <2>3. \A n \in Node : f[n] <= g[n]
    BY <1>13, <2>1, <2>2
  <2>4. Total(f) <= Total(g)
    BY <2>3, TotalLess
  <2>5. Total(g) = d * Cardinality(S)
    BY <1>1, <2>2, TotalOn
  <2>6. Weight(part) = Total(f)
    <3>1. part \in [Link -> Int]
      BY <1>10 DEF Weights
    <3> QED
      BY <2>1, <3>1, TotalSwap
  <2> QED
    BY <2>4, <2>5, <2>6
<1>15. PICK c \in Nat : c = Cardinality(S)
  BY <1>8
<1>16. d * (c + 1) = d * c + d /\ d * c \in Nat
  BY <1>1
<1>17. d * (c + 1) <= d * c
  BY <1>9, <1>12, <1>14, <1>15
<1> QED
  BY <1>1, <1>16, <1>17

\* The sources up to n that send anything all have a destination after their search.
LEMMA SourcesCovered ==
  ASSUME NEW d, NEW last, Even(d, last), d > 0
  PROVE  \A n \in 0 .. MaxNode : \A u \in 1 .. n : u <= last => u \in Outside(MatchUpTo[n], {})
<1> USE SizesAssumption
<1> DEFINE P == {n \in 0 .. MaxNode :
                   \A u \in 1 .. n : u <= last => u \in Outside(MatchUpTo[n], {})}
<1>1. 0 \in P
  OBVIOUS
<1>2. ASSUME NEW n \in 1 .. MaxNode, n - 1 \in P PROVE n \in P
  <2>1. n \in Node /\ n - 1 \in 0 .. MaxNode
    BY DEF Node
  <2>2. PICK m \in Matching : m = MatchUpTo[n - 1]
    BY <2>1, MatchUpToIs
  <2>3. MatchUpTo[n] = Augmented(n, m)
    BY <2>1, <2>2, MatchUpToIs
  <2>4. Single(m, {}) /\ Proper(m) /\ Outside(m, {}) \subseteq 1 .. n - 1
    BY <2>1, <2>2, MatchingFound
  <2>5. n \notin Outside(m, {})
    BY <2>4
  <2>6. \/ Outside(Augmented(n, m), {}) = Outside(m, {}) \cup {n}
        \/ /\ Augmented(n, m) = m
           /\ \E S \in SUBSET Node : Ends(n) \subseteq S /\ Closed(m, S, S)
    BY <2>1, <2>4, <2>5, AugmentedIs
  <2>7. n <= last => Outside(Augmented(n, m), {}) = Outside(m, {}) \cup {n}
    <3> SUFFICES ASSUME n <= last, NEW S \in SUBSET Node, Ends(n) \subseteq S, Closed(m, S, S)
                 PROVE  FALSE
      BY <2>6
    <3> QED
      BY <2>1, <2>4, <2>5, SearchSucceeds
  <2>8. Outside(m, {}) \subseteq Outside(Augmented(n, m), {})
    BY <2>6
  <2>9. ASSUME NEW u \in 1 .. n, u <= last PROVE u \in Outside(MatchUpTo[n], {})
    <3>1. CASE u = n
      BY <3>1, <2>3, <2>7, <2>9
    <3>2. CASE u # n
      <4>1. u \in 1 .. n - 1
        BY <3>2
      <4>2. u \in Outside(m, {})
        BY <1>2, <2>2, <2>9, <4>1
      <4> QED
        BY <4>2, <2>3, <2>8
    <3> QED
      BY <3>1, <3>2
  <2> QED
    BY <2>9
<1> HIDE DEF P
<1>3. \A n \in 1 .. MaxNode : n - 1 \in P => n \in P
  BY <1>2
<1>4. \A n \in 0 .. MaxNode : n \in P
  BY <1>1, <1>3, UpTo
<1> QED
  BY <1>4 DEF P

\* The matching of a round gives every node up to last one destination and one source.
LEMMA MatchingIsPerfect ==
  ASSUME NEW d, NEW last, Even(d, last), d > 0
  PROVE  \A n \in Node : n <= last =>
           /\ \E v \in Node : <<n, v>> \in Pairs(MatchUpTo[MaxNode])
           /\ \E u \in Node : <<u, n>> \in Pairs(MatchUpTo[MaxNode])
<1> USE SizesAssumption
<1>1. PICK m \in Matching : /\ m = MatchUpTo[MaxNode] /\ Single(m, {}) /\ Proper(m)
  BY MatchUpToIs, MatchingFound
<1>2. \A u \in 1 .. last : u \in Node /\ u \in Outside(m, {})
  <2>1. \A u \in 1 .. last : u \in 1 .. MaxNode /\ u <= last
    BY DEF Even
  <2> QED
    BY <1>1, <2>1, SourcesCovered DEF Node
<1> DEFINE M == {v \in Node : m[v] # -1}
<1>3. ASSUME NEW v \in M PROVE v \in 1 .. last /\ m[v] \in 1 .. last
  <2>1. m[v] \in Node /\ v \in Ends(m[v])
    BY <1>1 DEF Matching, Proper
  <2>2. Plus(real, dummy)[<<m[v], v>>] > 0
    BY <2>1, EndsAre DEF Even
  <2>3. PICK l \in Link : l = <<m[v], v>>
    BY <2>1 DEF Link
  <2>4. l[1] = m[v] /\ l[2] = v
    BY <2>3
  <2> QED
    BY <2>2, <2>3, <2>4 DEF Even, Within
<1>4. IsFiniteSet(1 .. last) /\ Cardinality(1 .. last) = last
  <2>1. 1 \in Int /\ last \in Int /\ last \in Nat
    BY DEF Even
  <2>2. IsFiniteSet(1 .. last) /\ Cardinality(1 .. last) = IF 1 > last THEN 0 ELSE last - 1 + 1
    BY ONLY <2>1, FS_Interval, Zenon
  <2> QED
    BY <2>1, <2>2
<1>5. IsFiniteSet(M) /\ M \subseteq 1 .. last /\ Cardinality(M) <= last
  <2>1. M \subseteq 1 .. last
    BY <1>3
  <2> HIDE DEF M
  <2> QED
    BY <1>4, <2>1, FS_Subset
<1>6. PICK g : g = [v \in M |-> m[v]]
  OBVIOUS
<1>7. g \in Surjection(M, 1 .. last)
  <2>1. g \in [M -> 1 .. last]
    BY <1>3, <1>6
  <2>2. \A u \in 1 .. last : \E v \in M : g[v] = u
    BY <1>2, <1>6 DEF Outside, Node
  <2> HIDE DEF M
  <2> QED
    BY <2>1, <2>2 DEF Surjection
<1>8. M = 1 .. last
  <2> HIDE DEF M
  <2>1. Cardinality(1 .. last) <= Cardinality(M)
    BY <1>5, <1>7, FS_Surjection
  <2>2. Cardinality(M) \in Nat /\ last \in Nat
    BY <1>5, FS_CardinalityType DEF Even
  <2>3. Cardinality(M) = Cardinality(1 .. last)
    BY <1>4, <1>5, <2>1, <2>2
  <2> QED
    BY <1>4, <1>5, <2>3, FS_Subset
<1>9. ASSUME NEW n \in Node, n <= last
      PROVE  /\ \E v \in Node : <<n, v>> \in Pairs(m)
             /\ \E u \in Node : <<u, n>> \in Pairs(m)
  <2>1. n \in 1 .. last
    BY <1>9 DEF Node, Even
  <2>2. PICK v \in Node : m[v] = n
    BY <1>2, <2>1 DEF Outside
  <2>3. m[n] \in Node
    BY <1>1, <1>8, <2>1 DEF Matching
  <2>4. <<n, v>> \in Pairs(m) /\ <<m[n], n>> \in Pairs(m)
    BY <2>2, <2>3 DEF Pairs, Link
  <2> QED
    BY <2>2, <2>3, <2>4
<1> QED
  BY <1>1, <1>9

----------------------------------------------------------------------------
(* What a round leaves.                                                     *)

\* One task of each link.
OneOf(links) == [l \in Link |-> IF l \in links THEN 1 ELSE 0]

\* A matching takes one task from each source and gives one to each destination.
LEMMA OneOfMatching ==
  ASSUME NEW links \in SUBSET Link,
         \A k, l \in links : k # l => k[1] # l[1] /\ k[2] # l[2],
         NEW n \in Node
  PROVE  /\ OneOf(links) \in Weights
         /\ (\E v \in Node : <<n, v>> \in links) => OutDegree(OneOf(links), n) = 1
         /\ (\E u \in Node : <<u, n>> \in links) => InDegree(OneOf(links), n) = 1
<1>1. OneOf(links) \in Weights
  BY DEF OneOf, Weights
<1>2. ASSUME NEW x \in Node
      PROVE  Total([v \in Node |-> IF v \in {x} THEN 1 ELSE 0]) = 1
  <2>1. Cardinality({x}) = 1
    BY FS_Singleton
  <2>2. Total([v \in Node |-> IF v \in {x} THEN 1 ELSE 0]) = 1 * Cardinality({x})
    BY TotalOn
  <2> QED
    BY <2>1, <2>2
<1>3. ASSUME NEW v \in Node, <<n, v>> \in links
      PROVE  OutDegree(OneOf(links), n) = 1
  <2>1. \A o \in Node : <<n, o>> \in Link /\ (<<n, o>> \in links <=> o \in {v})
    BY <1>3 DEF Link
  <2>2. [o \in Node |-> OneOf(links)[<<n, o>>]] = [o \in Node |-> IF o \in {v} THEN 1 ELSE 0]
    BY <2>1 DEF OneOf
  <2> QED
    BY <1>2, <2>2 DEF OutDegree
<1>4. ASSUME NEW u \in Node, <<u, n>> \in links
      PROVE  InDegree(OneOf(links), n) = 1
  <2>1. \A o \in Node : <<o, n>> \in Link /\ (<<o, n>> \in links <=> o \in {u})
    BY <1>4 DEF Link
  <2>2. [o \in Node |-> OneOf(links)[<<o, n>>]] = [o \in Node |-> IF o \in {u} THEN 1 ELSE 0]
    BY <2>1 DEF OneOf
  <2> QED
    BY <1>2, <2>2 DEF InDegree
<1> QED
  BY <1>1, <1>3, <1>4

\* Without the links of the round every node sends, and receives, one less.
LEMMA RoundLeavesEven ==
  ASSUME NEW d, NEW last, Even(d, last), d > 0,
         NEW edges, edges = {l \in Pairs(MatchUpTo[MaxNode]) : real[l] > 0},
         NEW left, left = [l \in Link |-> IF l \in edges THEN real[l] - 1 ELSE real[l]],
         NEW pad, pad = [l \in Link |-> IF l \in Pairs(MatchUpTo[MaxNode]) \ edges
                                          THEN dummy[l] - 1 ELSE dummy[l]]
  PROVE  /\ left \in Weights /\ pad \in Weights
         /\ Within(Plus(left, pad), d - 1, last)
         /\ Sending(Plus(left, pad), d - 1, last)
         /\ Receiving(Plus(left, pad), d - 1, last)
<1>1. PICK matched \in SUBSET Link :
        /\ matched = Pairs(MatchUpTo[MaxNode])
        /\ \A l \in matched : real[l] > 0 \/ dummy[l] > 0
        /\ \A k, l \in matched : k # l => k[1] # l[1] /\ k[2] # l[2]
  BY PairsMatch
<1>2. d \in Nat /\ last \in 0 .. MaxNode /\ real \in Weights /\ dummy \in Weights
  BY DEF Even
<1>3. PICK total \in Weights : total = Plus(real, dummy)
  BY DEF Even, Within
<1>4. ASSUME NEW l \in Link
      PROVE  /\ left[l] \in Nat /\ pad[l] \in Nat
             /\ total[l] = left[l] + pad[l] + (IF l \in matched THEN 1 ELSE 0)
  <2>1. real[l] \in Nat /\ dummy[l] \in Nat /\ total[l] = real[l] + dummy[l]
    BY <1>2, <1>3 DEF Weights, Plus
  <2>2. /\ left[l] = IF l \in matched /\ real[l] > 0 THEN real[l] - 1 ELSE real[l]
        /\ pad[l] = IF l \in matched /\ ~(real[l] > 0) THEN dummy[l] - 1 ELSE dummy[l]
    BY <1>1
  <2>3. l \in matched => real[l] > 0 \/ dummy[l] > 0
    BY <1>1
  <2> QED
    BY <2>1, <2>2, <2>3
<1>5. left \in Weights /\ pad \in Weights
  BY <1>4 DEF Weights
<1>6. PICK rest \in Weights : rest = Plus(left, pad)
  <2>1. Plus(left, pad) \in Weights
    BY <1>4 DEF Weights, Plus
  <2> QED
    BY <2>1
<1>7. PICK used \in Weights : used = OneOf(matched)
  <2>1. OneOf(matched) \in Weights
    BY DEF OneOf, Weights
  <2> QED
    BY <2>1
<1>8. total = Plus(rest, used)
  <2>1. \A l \in Link : total[l] = rest[l] + used[l]
    BY <1>4, <1>6, <1>7 DEF Plus, OneOf
  <2>2. total = [l \in Link |-> total[l]]
    BY DEF Weights
  <2> QED
    BY <2>1, <2>2 DEF Plus
<1>9. Within(total, d, last) /\ Sending(total, d, last) /\ Receiving(total, d, last)
  BY <1>3 DEF Even
<1>10. ASSUME NEW n \in Node
       PROVE  /\ OutDegree(rest, n) \in Nat /\ InDegree(rest, n) \in Nat
              /\ n <= last => OutDegree(rest, n) = d - 1 /\ InDegree(rest, n) = d - 1
  <2>1. OutDegree(rest, n) \in Nat /\ InDegree(rest, n) \in Nat
    BY DegreeType
  <2>2. /\ OutDegree(total, n) = OutDegree(rest, n) + OutDegree(used, n)
        /\ InDegree(total, n) = InDegree(rest, n) + InDegree(used, n)
    BY <1>8, DegreeAdd
  <2>3. ASSUME n <= last PROVE OutDegree(used, n) = 1 /\ InDegree(used, n) = 1
    <3>1. /\ \E v \in Node : <<n, v>> \in matched
          /\ \E u \in Node : <<u, n>> \in matched
      BY <1>1, <2>3, MatchingIsPerfect
    <3> QED
      BY <1>1, <1>7, <3>1, OneOfMatching
  <2>4. n <= last => OutDegree(total, n) = d /\ InDegree(total, n) = d
    BY <1>9 DEF Sending, Receiving
  <2> QED
    BY <1>2, <2>1, <2>2, <2>3, <2>4
<1>11. ASSUME NEW l \in Link, rest[l] > 0 PROVE l[1] \in 1 .. last /\ l[2] \in 1 .. last
  <2>1. total[l] > 0
    BY <1>4, <1>6, <1>11 DEF Plus
  <2> QED
    BY <1>9, <2>1 DEF Within
<1>12. ASSUME NEW n \in Node, ~(n <= last)
       PROVE  OutDegree(rest, n) = 0 /\ InDegree(rest, n) = 0
  <2>1. \A v \in Node : rest[<<n, v>>] = 0 /\ rest[<<v, n>>] = 0
    <3> SUFFICES ASSUME NEW v \in Node PROVE rest[<<n, v>>] = 0 /\ rest[<<v, n>>] = 0
      OBVIOUS
    <3>1. /\ <<n, v>> \in Link /\ <<n, v>>[1] = n /\ <<v, n>> \in Link /\ <<v, n>>[2] = n
          /\ n \notin 1 .. last
      BY <1>12, <1>2 DEF Link
    <3>2. rest[<<n, v>>] \in Nat /\ rest[<<v, n>>] \in Nat
      BY <3>1 DEF Weights
    <3> QED
      BY <3>1, <3>2, <1>11
  <2> QED
    BY <2>1, DegreeType
<1>13. Within(rest, d - 1, last)
  BY <1>2, <1>10, <1>11, <1>12 DEF Within
<1>14. Sending(rest, d - 1, last) /\ Receiving(rest, d - 1, last)
  BY <1>10 DEF Sending, Receiving
<1> QED
  BY <1>5, <1>6, <1>13, <1>14

\* Weight is left exactly as long as the nodes have something to send.
LEMMA WeightLeft ==
  ASSUME NEW d, NEW last, Even(d, last)
  PROVE  /\ Weight(Plus(real, dummy)) \in Nat
         /\ Weight(Plus(real, dummy)) > 0 => d > 0
         /\ d > 0 /\ last > 0 => Weight(Plus(real, dummy)) > 0
<1>1. PICK total \in Weights : total = Plus(real, dummy)
  BY DEF Even, Within
<1>2. \A n \in Node : OutDegree(total, n) \in Nat
  BY DegreeType
<1>3. PICK f \in [Node -> Nat] : f = [u \in Node |-> OutDegree(total, u)]
  BY <1>2
<1>4. Weight(total) = Total(f) /\ Total(f) \in Nat
  BY <1>3, TotalNat DEF Weight
<1>5. Total(f) = 0 <=> \A n \in Node : f[n] = 0
  BY TotalZero
<1>6. \A n \in Node : f[n] <= d
  BY <1>1, <1>3 DEF Even, Within
<1>7. last > 0 => 1 \in Node /\ f[1] = d
  BY <1>1, <1>3, SizesAssumption DEF Even, Sending, Node
<1> QED
  BY <1>1, <1>4, <1>5, <1>6, <1>7 DEF Even

\* No dummy link leaves, or comes to, a node that is the busiest without any.
Saturated ==
  \A l \in Link : dummy[l] > 0 => /\ OutDegree(physical, l[1]) < Degree(physical)
                                  /\ InDegree(physical, l[2]) < Degree(physical)

\* As long as something is left the round holds a physical link: the busiest node's.
LEMMA RoundHasTasks ==
  ASSUME physical \in Weights, NEW d, NEW last, last = LastNode(physical), Even(d, last),
         d > 0, d <= Degree(physical), Saturated
  PROVE  {l \in Pairs(MatchUpTo[MaxNode]) : real[l] > 0} # {}
<1>1. PICK n \in Node : OutDegree(physical, n) = Degree(physical)
                        \/ InDegree(physical, n) = Degree(physical)
  BY LargestDegree DEF Even
<1>2. Degree(physical) > 0 /\ Degree(physical) \in Nat
  BY LargestDegree DEF Even
<1>3. n <= last
  <2>1. \E v \in Node : physical[<<n, v>>] # 0 \/ physical[<<v, n>>] # 0
    BY <1>1, <1>2, DegreeType
  <2>2. PICK v \in Node : physical[<<n, v>>] # 0 \/ physical[<<v, n>>] # 0
    BY <2>1
  <2>3. /\ <<n, v>> \in Link /\ <<v, n>> \in Link
        /\ physical[<<n, v>>] \in Nat /\ physical[<<v, n>>] \in Nat
        /\ <<n, v>>[1] = n /\ <<v, n>>[2] = n
    BY DEF Weights, Link
  <2>4. n \in 1 .. last
    BY <2>2, <2>3, LastIs
  <2> QED
    BY <2>4 DEF Even
<1>4. PICK u, v \in Node : /\ <<n, v>> \in Pairs(MatchUpTo[MaxNode])
                           /\ <<u, n>> \in Pairs(MatchUpTo[MaxNode])
  BY <1>3, MatchingIsPerfect
<1>5. ASSUME NEW l \in Pairs(MatchUpTo[MaxNode]),
             ~(OutDegree(physical, l[1]) < Degree(physical) /\ InDegree(physical, l[2]) < Degree(physical))
      PROVE  real[l] > 0
  <2>1. l \in Link /\ (real[l] > 0 \/ dummy[l] > 0)
    BY PairsMatch
  <2> QED
    BY <1>5, <2>1 DEF Saturated
<1>6. OutDegree(physical, n) = Degree(physical) => real[<<n, v>>] > 0
  <2>1. PICK l \in Pairs(MatchUpTo[MaxNode]) : l = <<n, v>> /\ l[1] = n
    BY <1>4
  <2> QED
    BY <1>2, <1>5, <2>1
<1>7. InDegree(physical, n) = Degree(physical) => real[<<u, n>>] > 0
  <2>1. PICK l \in Pairs(MatchUpTo[MaxNode]) : l = <<u, n>> /\ l[2] = n
    BY <1>4
  <2> QED
    BY <1>2, <1>5, <2>1
<1> QED
  BY <1>1, <1>4, <1>6, <1>7

\* What a round may rely on: weights are numbers, rounds are sets of links.
Shape ==
  /\ physical \in [Link -> Nat]
  /\ real \in [Link -> Nat]
  /\ schedule \in Seq(SUBSET Link)

SharedOut == Shape /\ EveryTaskOnce

\* The rounds of a schedule that take link l.
Taking(s, l) == {r \in DOMAIN s : l \in s[r]}

----------------------------------------------------------------------------
\* The rounds of a schedule are finitely many.
LEMMA FinitelyTaken ==
  ASSUME NEW s \in Seq(SUBSET Link), NEW l
  PROVE  IsFiniteSet(Taking(s, l)) /\ Cardinality(Taking(s, l)) \in Nat
<1>1. Taking(s, l) \subseteq 1 .. Len(s)
  BY DEF Taking
<1>2. IsFiniteSet(1 .. Len(s))
  BY FS_Interval
<1>3. IsFiniteSet(Taking(s, l))
  BY <1>1, <1>2, FS_Subset
<1> QED
  BY <1>3, FS_CardinalityType

\* A round that is appended counts once for each of its links, and for no other.
LEMMA AppendedRound ==
  ASSUME NEW s \in Seq(SUBSET Link), NEW edges \in SUBSET Link, NEW l
  PROVE  Cardinality(Taking(Append(s, edges), l))
           = Cardinality(Taking(s, l)) + (IF l \in edges THEN 1 ELSE 0)
<1> DEFINE longer == Append(s, edges)
           last   == Len(s) + 1
<1>1. /\ DOMAIN longer = (DOMAIN s) \cup {last}
      /\ longer[last] = edges
      /\ \A r \in DOMAIN s : longer[r] = s[r]
      /\ last \notin DOMAIN s
  OBVIOUS
<1> HIDE DEF longer, last
<1>2. CASE l \in edges
  <2>1. Taking(longer, l) = Taking(s, l) \cup {last}
    BY <1>1, <1>2 DEF Taking
  <2>2. last \notin Taking(s, l)
    BY <1>1 DEF Taking
  <2>3. Cardinality(Taking(s, l) \cup {last}) = Cardinality(Taking(s, l)) + 1
    BY <2>2, FinitelyTaken, FS_AddElement
  <2> QED
    BY <2>1, <2>3, <1>2 DEF longer
<1>3. CASE l \notin edges
  <2>1. Taking(longer, l) = Taking(s, l)
    BY <1>1, <1>3 DEF Taking
  <2>2. Cardinality(Taking(s, l)) \in Nat
    BY FinitelyTaken
  <2> QED
    BY <2>1, <2>2, <1>3 DEF longer
<1> QED
  BY <1>2, <1>3

----------------------------------------------------------------------------
\* Before the first round every task is still to be scheduled.
LEMMA StartsUnscheduled == Init => SharedOut
<1> SUFFICES ASSUME Init PROVE SharedOut
  OBVIOUS
<1>1. physical \in [Link -> Nat]
  <2>1. PICK n \in 1 .. MaxTasks : \E linkOf \in [1 .. n -> Remote] :
          physical = [l \in Link |-> Cardinality({i \in 1 .. n : linkOf[i] = l})]
    BY DEF Init
  <2>2. PICK linkOf \in [1 .. n -> Remote] :
          physical = [l \in Link |-> Cardinality({i \in 1 .. n : linkOf[i] = l})]
    BY <2>1
  <2>3. ASSUME NEW l \in Link
        PROVE  Cardinality({i \in 1 .. n : linkOf[i] = l}) \in Nat
    <3>1. IsFiniteSet(1 .. n)
      BY FS_Interval
    <3>2. IsFiniteSet({i \in 1 .. n : linkOf[i] = l})
      BY <3>1, FS_Subset
    <3> QED
      BY <3>2, FS_CardinalityType
  <2> QED
    BY <2>2, <2>3
<1>2. Shape
  BY <1>1 DEF Init, Shape
<1>3. EveryTaskOnce
  <2>1. ASSUME NEW l \in Link
        PROVE  {r \in DOMAIN schedule : l \in schedule[r]} = {}
    BY DEF Init
  <2>2. Cardinality({}) = 0
    BY FS_EmptySet
  <2> QED
    BY <2>1, <2>2, <1>1 DEF Init, EveryTaskOnce
<1> QED
  BY <1>2, <1>3 DEF SharedOut

\* A round takes from each link in it the one task that it schedules.
LEMMA RoundSharesOut ==
  ASSUME SharedOut, Round
  PROVE  SharedOut'
<1>1. PICK match : \E edges \in {{l \in Pairs(match) : real[l] > 0}} :
        /\ real' = [l \in Link |-> IF l \in edges THEN real[l] - 1 ELSE real[l]]
        /\ schedule' = IF edges = {} THEN schedule ELSE Append(schedule, edges)
  BY DEF Round
<1>2. PICK edges \in SUBSET Link :
        /\ \A l \in edges : real[l] > 0
        /\ real' = [l \in Link |-> IF l \in edges THEN real[l] - 1 ELSE real[l]]
        /\ schedule' = IF edges = {} THEN schedule ELSE Append(schedule, edges)
  BY <1>1 DEF Pairs
<1>3. physical' = physical
  BY DEF Round
<1>4. Shape'
  BY <1>2, <1>3 DEF SharedOut, Shape
<1>5. ASSUME NEW l \in Link
      PROVE  real'[l] + Cardinality(Taking(schedule', l)) = physical[l]
  <2>1. real[l] + Cardinality(Taking(schedule, l)) = physical[l]
    BY DEF SharedOut, EveryTaskOnce, Taking
  <2>2. Cardinality(Taking(schedule', l))
          = Cardinality(Taking(schedule, l)) + (IF l \in edges THEN 1 ELSE 0)
    <3>1. CASE edges = {}
      <4>1. schedule' = schedule /\ l \notin edges
        BY <1>2, <3>1
      <4>2. Cardinality(Taking(schedule, l)) \in Nat
        BY FinitelyTaken DEF SharedOut, Shape
      <4> QED
        BY <4>1, <4>2
    <3>2. CASE edges # {}
      BY <1>2, <3>2, AppendedRound DEF SharedOut, Shape
    <3> QED
      BY <3>1, <3>2
  <2>3. /\ real'[l] = real[l] - (IF l \in edges THEN 1 ELSE 0)
        /\ real[l] \in Nat /\ physical[l] \in Nat
    BY <1>2 DEF SharedOut, Shape
  <2>4. Cardinality(Taking(schedule, l)) \in Nat
    BY FinitelyTaken DEF SharedOut, Shape
  <2> QED
    BY <2>1, <2>2, <2>3, <2>4
<1>6. EveryTaskOnce'
  BY <1>3, <1>5 DEF EveryTaskOnce, Taking
<1> QED
  BY <1>4, <1>6 DEF SharedOut

\* Each task that a helper cluster has for a main cluster (compute_schedule,
\* repair.cpp 24-140) is in one round of the schedule or still to be scheduled:
\* no round drops a task among its dummy links, and none repeats one.
THEOREM RoundsShareTheTasks == Spec => []EveryTaskOnce
<1>1. Init => SharedOut
  BY StartsUnscheduled
<1>2. SharedOut /\ [Next]_vars => SharedOut'
  <2> SUFFICES ASSUME SharedOut, [Next]_vars PROVE SharedOut'
    OBVIOUS
  <2>1. CASE Round
    BY <2>1, RoundSharesOut
  <2>2. CASE Pad \/ Finish \/ UNCHANGED vars
    <3>1. UNCHANGED <<physical, real, schedule>>
      BY <2>2 DEF Pad, Finish, vars
    <3> QED
      BY <3>1 DEF SharedOut, Shape, EveryTaskOnce
  <2> QED
    BY <2>1, <2>2 DEF Next
<1>3. SharedOut => EveryTaskOnce
  BY DEF SharedOut
<1> QED
  BY <1>1, <1>2, <1>3, PTL DEF Spec

----------------------------------------------------------------------------
(* The rounds are matchings, and as few as can be.                          *)

\* The caller passes as many tasks as the bound allows, at most.
FewTasks == physical \in [Link -> 0 .. MaxTasks]

\* The rounds so far have taken one task from, and given one to, every node: the
\* links that are left are as even as the padded ones were.
Regular ==
  \/ phase = "start" /\ schedule = <<>> /\ real = physical /\ dummy = NoWeight
  \/ /\ phase \in {"rounds", "done"}
     /\ Even(Degree(physical) - Len(schedule), LastNode(physical))
     /\ Saturated
     /\ phase = "done" => Weight(Plus(real, dummy)) = 0

SchedulerInv == SharedOut /\ FewTasks /\ RoundsAreMatchings /\ Regular

\* Before the padding.
LEMMA StartsRegular == Init => SchedulerInv
<1> SUFFICES ASSUME Init PROVE SchedulerInv
  OBVIOUS
<1>1. SharedOut
  BY StartsUnscheduled
<1>2. FewTasks
  <2>1. PICK n \in 1 .. MaxTasks : \E linkOf \in [1 .. n -> Remote] :
          physical = [l \in Link |-> Cardinality({i \in 1 .. n : linkOf[i] = l})]
    BY DEF Init
  <2>2. PICK linkOf \in [1 .. n -> Remote] :
          physical = [l \in Link |-> Cardinality({i \in 1 .. n : linkOf[i] = l})]
    BY <2>1
  <2>3. IsFiniteSet(1 .. n) /\ Cardinality(1 .. n) = n
    <3>1. 1 \in Int /\ n \in Int /\ n \in Nat /\ n >= 1
      BY SizesAssumption
    <3>2. IsFiniteSet(1 .. n) /\ Cardinality(1 .. n) = IF 1 > n THEN 0 ELSE n - 1 + 1
      BY ONLY <3>1, FS_Interval, Zenon
    <3> QED
      BY <3>1, <3>2
  <2>4. ASSUME NEW l \in Link
        PROVE  Cardinality({i \in 1 .. n : linkOf[i] = l}) \in 0 .. MaxTasks
    <3>1. /\ IsFiniteSet({i \in 1 .. n : linkOf[i] = l})
          /\ Cardinality({i \in 1 .. n : linkOf[i] = l}) <= n
      BY <2>3, FS_Subset
    <3> QED
      BY <3>1, FS_CardinalityType, SizesAssumption
  <2> QED
    BY <2>2, <2>4 DEF FewTasks
<1> QED
  BY <1>1, <1>2 DEF Init, SchedulerInv, RoundsAreMatchings, Regular

\* The padding evens the links out.
LEMMA PadIsRegular ==
  ASSUME SchedulerInv, Pad
  PROVE  SchedulerInv'
<1>1. physical \in Weights /\ real = physical /\ schedule = <<>>
  BY DEF SchedulerInv, SharedOut, Shape, Weights, Regular, Pad
<1>2. UNCHANGED <<physical, real, schedule>> /\ phase' = "rounds"
  BY DEF Pad
<1>3. PICK p : p = Padding
  OBVIOUS
<1>4. dummy' = p
  BY <1>3 DEF Pad
<1>5. PICK d \in Nat : d = Degree(physical)
  BY <1>1, LargestDegree
<1>6. PICK last \in 0 .. MaxNode : last = LastNode(physical)
  BY <1>1, LastIs
<1>7. /\ p \in Weights /\ Within(Plus(physical, p), d, last)
      /\ Sending(Plus(physical, p), d, last) /\ Receiving(Plus(physical, p), d, last)
  BY <1>1, <1>3, <1>5, <1>6, PaddingIsRegular DEF Fits
<1>8. Even(d, last)'
  BY <1>1, <1>2, <1>4, <1>5, <1>6, <1>7 DEF Even
<1>9. ASSUME NEW l \in Link, p[l] > 0
      PROVE  OutDegree(physical, l[1]) < d /\ InDegree(physical, l[2]) < d
  <2>1. PICK u, v \in Node : l = <<u, v>> /\ l[1] = u /\ l[2] = v
    BY DEF Link
  <2>2. /\ OutDegree(Plus(physical, p), u) = OutDegree(physical, u) + OutDegree(p, u)
        /\ InDegree(Plus(physical, p), v) = InDegree(physical, v) + InDegree(p, v)
    BY <1>1, <1>7, DegreeAdd
  <2>3. OutDegree(p, u) # 0 /\ InDegree(p, v) # 0 /\ OutDegree(p, u) \in Nat /\ InDegree(p, v) \in Nat
    <3>1. p[<<u, v>>] # 0
      BY <1>9, <2>1
    <3> QED
      BY <1>7, <3>1, DegreeType
  <2>4. OutDegree(Plus(physical, p), u) <= d /\ InDegree(Plus(physical, p), v) <= d
    BY <1>7 DEF Within
  <2>5. OutDegree(physical, u) \in Nat /\ InDegree(physical, v) \in Nat
    BY <1>1, DegreeType
  <2> QED
    BY <2>1, <2>2, <2>3, <2>4, <2>5
<1>10. Saturated'
  BY <1>2, <1>4, <1>5, <1>9 DEF Saturated
<1>11. Degree(physical') - Len(schedule') = d /\ LastNode(physical') = last
  BY <1>1, <1>2, <1>5, <1>6
<1>12. Regular'
  BY <1>2, <1>8, <1>10, <1>11 DEF Regular
<1>13. SharedOut' /\ FewTasks' /\ RoundsAreMatchings'
  BY <1>2 DEF SchedulerInv, SharedOut, Shape, EveryTaskOnce, FewTasks, RoundsAreMatchings
<1> QED
  BY <1>12, <1>13 DEF SchedulerInv

\* A round is a matching, holds a task, and leaves the links as even as they were.
LEMMA RoundIsRegular ==
  ASSUME SchedulerInv, Round
  PROVE  SchedulerInv'
<1>1. physical \in Weights /\ schedule \in Seq(SUBSET Link)
  BY DEF SchedulerInv, SharedOut, Shape, Weights
<1>2. PICK edges :
        /\ edges = {l \in Pairs(MatchUpTo[MaxNode]) : real[l] > 0}
        /\ real' = [l \in Link |-> IF l \in edges THEN real[l] - 1 ELSE real[l]]
        /\ dummy' = [l \in Link |-> IF l \in Pairs(MatchUpTo[MaxNode]) \ edges
                                      THEN dummy[l] - 1 ELSE dummy[l]]
        /\ schedule' = IF edges = {} THEN schedule ELSE Append(schedule, edges)
  BY DEF Round
<1>3. phase = "rounds" /\ UNCHANGED <<physical, phase>> /\ Weight(Plus(real, dummy)) > 0
  BY DEF Round
<1>4. PICK d : d = Degree(physical) - Len(schedule)
  OBVIOUS
<1>5. PICK last : last = LastNode(physical)
  OBVIOUS
<1>6. Even(d, last) /\ Saturated
  BY <1>3, <1>4, <1>5 DEF SchedulerInv, Regular
<1>7. d > 0 /\ d \in Nat /\ d <= Degree(physical) /\ Degree(physical) \in Nat /\ Len(schedule) \in Nat
  <2>1. d > 0 /\ d \in Nat
    BY <1>3, <1>6, WeightLeft DEF Even
  <2>2. Degree(physical) \in Nat /\ Len(schedule) \in Nat
    BY <1>1, LargestDegree
  <2> QED
    BY <1>4, <2>1, <2>2
<1>8. edges # {}
  BY <1>1, <1>2, <1>5, <1>6, <1>7, RoundHasTasks
<1>9. edges \in SUBSET Link /\ \A k, l \in edges : k # l => k[1] # l[1] /\ k[2] # l[2]
  BY <1>2, PairsMatch
<1>10. schedule' = Append(schedule, edges)
  BY <1>2, <1>8
<1>11. PICK left : left = real'
  OBVIOUS
<1>12. PICK pad : pad = dummy'
  OBVIOUS
<1>13. /\ left \in Weights /\ pad \in Weights
       /\ Within(Plus(left, pad), d - 1, last)
       /\ Sending(Plus(left, pad), d - 1, last)
       /\ Receiving(Plus(left, pad), d - 1, last)
  <2>1. left = [l \in Link |-> IF l \in edges THEN real[l] - 1 ELSE real[l]]
    BY <1>2, <1>11
  <2>2. pad = [l \in Link |-> IF l \in Pairs(MatchUpTo[MaxNode]) \ edges
                                THEN dummy[l] - 1 ELSE dummy[l]]
    BY <1>2, <1>12
  <2> QED
    BY <1>2, <1>6, <1>7, <2>1, <2>2, RoundLeavesEven
<1>14. Even(d - 1, last)'
  <2>1. d - 1 \in Nat /\ last \in 0 .. MaxNode
    BY <1>6, <1>7 DEF Even
  <2> QED
    BY <1>11, <1>12, <1>13, <2>1 DEF Even
<1>15. Saturated'
  <2>1. ASSUME NEW l \in Link, dummy'[l] > 0 PROVE dummy[l] > 0
    <3>1. dummy[l] \in Nat
      BY <1>6 DEF Even, Weights
    <3>2. dummy'[l] = dummy[l] \/ dummy'[l] = dummy[l] - 1
      BY <1>2
    <3> QED
      BY <2>1, <3>1, <3>2
  <2> QED
    BY <1>3, <1>6, <2>1 DEF Saturated
<1>16. Degree(physical') - Len(schedule') = d - 1 /\ LastNode(physical') = last
  <2>1. Len(schedule') = Len(schedule) + 1
    BY <1>1, <1>9, <1>10
  <2> QED
    BY <1>3, <1>4, <1>5, <1>7, <2>1
<1>17. Regular'
  BY <1>3, <1>14, <1>15, <1>16 DEF Regular
<1>18. RoundsAreMatchings'
  <2> SUFFICES ASSUME NEW r \in DOMAIN schedule', NEW k \in schedule'[r], NEW l \in schedule'[r], k # l
               PROVE  k[1] # l[1] /\ k[2] # l[2]
    BY DEF RoundsAreMatchings
  <2>1. (r \in DOMAIN schedule /\ schedule'[r] = schedule[r]) \/ schedule'[r] = edges
    BY <1>1, <1>9, <1>10
  <2> QED
    BY <1>9, <2>1 DEF SchedulerInv, RoundsAreMatchings
<1>19. SharedOut' /\ FewTasks'
  BY <1>3, RoundSharesOut DEF SchedulerInv, FewTasks
<1> QED
  BY <1>17, <1>18, <1>19 DEF SchedulerInv

\* Every step.
LEMMA SchedulerInvHolds == Spec => []SchedulerInv
<1>1. Init => SchedulerInv
  BY StartsRegular
<1>2. SchedulerInv /\ [Next]_vars => SchedulerInv'
  <2> SUFFICES ASSUME SchedulerInv, [Next]_vars PROVE SchedulerInv'
    OBVIOUS
  <2>1. CASE Pad
    BY <2>1, PadIsRegular
  <2>2. CASE Round
    BY <2>2, RoundIsRegular
  <2>3. CASE Finish
    <3>1. UNCHANGED <<physical, real, dummy, schedule>> /\ phase = "rounds" /\ phase' = "done"
          /\ Weight(Plus(real, dummy)) = 0
      BY <2>3 DEF Finish
    <3>2. PICK d : d = Degree(physical) - Len(schedule)
      OBVIOUS
    <3>3. PICK last : last = LastNode(physical)
      OBVIOUS
    <3>4. Even(d, last) /\ Saturated
      BY <3>1, <3>2, <3>3 DEF SchedulerInv, Regular
    <3>5. Even(d, last)' /\ Saturated'
      BY <3>1, <3>4 DEF Even, Saturated
    <3>6. d = Degree(physical') - Len(schedule') /\ last = LastNode(physical')
          /\ Weight(Plus(real', dummy')) = 0
      BY <3>1, <3>2, <3>3
    <3>7. Regular'
      BY <3>1, <3>5, <3>6 DEF Regular
    <3> QED
      BY <3>1, <3>7 DEF SchedulerInv, SharedOut, Shape, EveryTaskOnce, FewTasks, RoundsAreMatchings
  <2>4. CASE UNCHANGED vars
    <3>1. UNCHANGED <<physical, real, dummy, schedule, phase>>
      BY <2>4 DEF vars
    <3>2. Regular'
      BY <3>1 DEF SchedulerInv, Regular, Even, Saturated
    <3> QED
      BY <3>1, <3>2 DEF SchedulerInv, SharedOut, Shape, EveryTaskOnce, FewTasks, RoundsAreMatchings
  <2> QED
    BY <2>1, <2>2, <2>3, <2>4 DEF Next
<1> QED
  BY <1>1, <1>2, PTL DEF Spec

\* The variables keep their types: in particular no link is ever taken more often
\* than it has weight (the decrements of compute_schedule, repair.cpp 128-136).
THEOREM SchedulerTypes == Spec => []TypeOK
<1>1. SchedulerInv => TypeOK
  <2> SUFFICES ASSUME SchedulerInv PROVE TypeOK
    OBVIOUS
  <2>1. physical \in [Link -> 0 .. MaxTasks] /\ real \in [Link -> Nat] /\ schedule \in Seq(SUBSET Link)
    BY DEF SchedulerInv, SharedOut, Shape, FewTasks
  <2>2. ASSUME NEW l \in Link PROVE real[l] \in 0 .. MaxTasks
    <3>1. real[l] + Cardinality(Taking(schedule, l)) = physical[l]
      BY DEF SchedulerInv, SharedOut, EveryTaskOnce, Taking
    <3>2. Cardinality(Taking(schedule, l)) \in Nat
      BY <2>1, FinitelyTaken
    <3> QED
      BY <2>1, <3>1, <3>2, SizesAssumption
  <2>3. dummy \in [Link -> Nat] /\ phase \in {"start", "rounds", "done"}
    BY DEF SchedulerInv, Regular, Even, Weights, NoWeight
  <2>4. \A r \in DOMAIN schedule : schedule[r] \subseteq Link
    BY <2>1
  <2>5. real \in [Link -> 0 .. MaxTasks]
    BY <2>1, <2>2
  <2> QED
    BY <2>1, <2>3, <2>4, <2>5 DEF TypeOK
<1> QED
  BY <1>1, SchedulerInvHolds, PTL

\* In no round does a cluster send twice or receive twice (the search dfs() and the
\* rounds of compute_schedule, repair.cpp 35-140): whatever the links, the search
\* for augmenting paths finds a matching.
THEOREM NoClusterTwiceInARound == Spec => []RoundsAreMatchings
<1>1. SchedulerInv => RoundsAreMatchings
  BY DEF SchedulerInv
<1> QED
  BY <1>1, SchedulerInvHolds, PTL

\* compute_schedule (repair.cpp 24-140) needs no more rounds than the busiest
\* cluster has tasks: the dummy links make the multigraph regular, a regular
\* bipartite multigraph has a perfect matching, the search finds one, and every
\* round holds a task of the busiest cluster.
THEOREM ScheduleIsShortest == Spec => []ShortestSchedule
<1>1. SchedulerInv => ShortestSchedule
  <2> SUFFICES ASSUME SchedulerInv, phase = "done" PROVE Len(schedule) = Degree(physical)
    BY DEF ShortestSchedule
  <2>1. physical \in Weights /\ Len(schedule) \in Nat
    BY DEF SchedulerInv, SharedOut, Shape, Weights
  <2>2. PICK d : d = Degree(physical) - Len(schedule)
    OBVIOUS
  <2>3. PICK last : last = LastNode(physical)
    OBVIOUS
  <2>4. Even(d, last) /\ Weight(Plus(real, dummy)) = 0
    BY <2>2, <2>3 DEF SchedulerInv, Regular
  <2>5. d \in Nat /\ last \in Nat /\ Degree(physical) \in Nat
    BY <2>1, <2>4, LargestDegree DEF Even
  <2>6. CASE last > 0
    <3>1. ~(d > 0)
      BY <2>4, <2>6, WeightLeft
    <3> QED
      BY <2>1, <2>2, <2>5, <3>1
  <2>7. CASE last = 0
    <3>1. \A l \in Link : ~(physical[l] > 0)
      <4>1. \A l \in Link : physical[l] > 0 => l[1] \in 1 .. LastNode(physical)
                                             /\ l[2] \in 1 .. LastNode(physical)
        BY <2>1, LastIs
      <4>2. LastNode(physical) = 0
        BY <2>3, <2>7
      <4> QED
        BY <4>1, <4>2
    <3>2. ASSUME NEW n \in Node PROVE OutDegree(physical, n) = 0 /\ InDegree(physical, n) = 0
      <4>1. \A v \in Node : physical[<<n, v>>] = 0 /\ physical[<<v, n>>] = 0
        BY <2>1, <3>1 DEF Link, Weights
      <4> QED
        BY <2>1, <4>1, DegreeType
    <3>3. Degree(physical) = 0
      BY <2>1, <3>2, LargestDegree
    <3> QED
      BY <2>1, <2>2, <2>5, <3>3
  <2> QED
    BY <2>5, <2>6, <2>7
<1> QED
  BY <1>1, SchedulerInvHolds, PTL
==============================================================================
