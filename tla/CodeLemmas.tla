------------------------------- MODULE CodeLemmas -------------------------------
(***************************************************************************)
(* Lemmas about the operators of CodeCommon: what it means to list a set in *)
(* order, to cut a list into pieces, to read the first survivors; and the    *)
(* arithmetic of grids.  The proofs about repair plans and about merges      *)
(* share them.                                                               *)
(***************************************************************************)
EXTENDS RsPcPlans, FiniteSetTheorems, SequenceTheorems, TLAPS

----------------------------------------------------------------------------
(* Finite sets in order.                                                    *)

\* R is a strict total order on S.
Orders(R, S) ==
  /\ \A x \in S : <<x, x>> \notin R
  /\ \A x, y, z \in S : <<x, y>> \in R /\ <<y, z>> \in R => <<x, z>> \in R
  /\ \A x, y \in S : x = y \/ <<x, y>> \in R \/ <<y, x>> \in R

\* The members of S that come before x.
Before(R, S, x) == {y \in S : <<y, x>> \in R}

\* In a strict total order some member has n - 1 members before it.
LEMMA Ranking ==
  ASSUME NEW S, IsFiniteSet(S), NEW R, Orders(R, S),
         NEW n \in 1 .. Cardinality(S)
  PROVE  \E x \in S : Cardinality(Before(R, S, x)) = n - 1
<1> DEFINE Below(x) == Before(R, S, x)
           T == 0 .. Cardinality(S) - 1
           rank == [x \in S |-> Cardinality(Below(x))]
<1>1. Cardinality(S) \in Nat
  BY FS_CardinalityType
<1>2. IsFiniteSet(T) /\ Cardinality(T) = Cardinality(S)
  <2>1. 0 \in Int /\ Cardinality(S) - 1 \in Int
    BY <1>1
  <2>2. IsFiniteSet(T) /\ Cardinality(T) = IF 0 > Cardinality(S) - 1 THEN 0
                                           ELSE Cardinality(S) - 1 - 0 + 1
    BY ONLY <2>1, FS_Interval, Zenon
  <2> QED
    BY <1>1, <2>2
<1>3. ASSUME NEW x \in S
      PROVE  /\ IsFiniteSet(Below(x)) /\ Cardinality(Below(x)) \in T
  <2>1. Below(x) \in SUBSET S /\ Below(x) # S
    BY DEF Orders, Before
  <2>2. /\ IsFiniteSet(Below(x)) /\ Cardinality(Below(x)) <= Cardinality(S)
        /\ Cardinality(S) # Cardinality(Below(x))
    BY <2>1, FS_Subset
  <2>3. Cardinality(Below(x)) \in Nat
    BY <2>2, FS_CardinalityType
  <2> QED
    BY <2>2, <2>3, <1>1
<1>4. ASSUME NEW x \in S, NEW y \in S, <<x, y>> \in R
      PROVE  Cardinality(Below(x)) # Cardinality(Below(y))
  <2>1. Below(x) \in SUBSET Below(y) /\ x \in Below(y) /\ x \notin Below(x)
    BY <1>4 DEF Orders, Before
  <2>2. IsFiniteSet(Below(y))
    BY <1>3
  <2> QED
    BY <2>1, <2>2, FS_Subset
<1>5. rank \in Injection(S, T)
  <2>1. rank \in [S -> T]
    BY <1>3
  <2>2. ASSUME NEW x \in S, NEW y \in S, rank[x] = rank[y] PROVE x = y
    <3>1. Cardinality(Below(x)) = Cardinality(Below(y))
      BY <2>2
    <3> QED
      BY <3>1, <1>4 DEF Orders
  <2>3. IsInjective(rank)
    BY <2>2 DEF IsInjective
  <2> QED
    BY <2>1, <2>3 DEF Injection
<1>6. rank \in Surjection(S, T)
  BY <1>2, <1>5, FS_Injection
<1>7. n - 1 \in T
  BY <1>1
<1>8. \E x \in S : rank[x] = n - 1
  BY <1>6, <1>7 DEF Surjection
<1> QED
  BY <1>8

\* Among n numbers one has any given rank.
LEMMA NumbersRank ==
  ASSUME NEW S, IsFiniteSet(S), S \subseteq Int, NEW n \in 1 .. Cardinality(S)
  PROVE  \E x \in S : Cardinality({y \in S : y < x}) = n - 1
<1> DEFINE R == {p \in S \X S : p[1] < p[2]}
<1>1. Orders(R, S)
  BY DEF Orders
<1>2. \A x, y \in S : <<y, x>> \in R <=> y < x
  OBVIOUS
<1> HIDE DEF R
<1>3. PICK x \in S : Cardinality(Before(R, S, x)) = n - 1
  BY <1>1, Ranking
<1>4. Before(R, S, x) = {y \in S : y < x}
  BY <1>2 DEF Before
<1> QED
  BY <1>3, <1>4

\* Ordered lists the members of its set.
LEMMA OrderedSeq ==
  ASSUME NEW S, IsFiniteSet(S), S \subseteq Int
  PROVE  /\ Ordered(S) \in Seq(S) /\ Len(Ordered(S)) = Cardinality(S)
         /\ DOMAIN Ordered(S) = 1 .. Cardinality(S)
         /\ \A i, j \in DOMAIN Ordered(S) : Ordered(S)[i] = Ordered(S)[j] => i = j
<1> DEFINE At(n) == CHOOSE x \in S : Cardinality({y \in S : y < x}) = n - 1
<1>1. Ordered(S) = [n \in 1 .. Cardinality(S) |-> At(n)]
  BY DEF Ordered, InOrder
<1>2. Cardinality(S) \in Nat
  BY FS_CardinalityType
<1>3. ASSUME NEW n \in 1 .. Cardinality(S)
      PROVE  At(n) \in S /\ Cardinality({y \in S : y < At(n)}) = n - 1
  BY NumbersRank
<1> HIDE DEF At
<1>4. \A i, j \in 1 .. Cardinality(S) : At(i) = At(j) => i = j
  <2> SUFFICES ASSUME NEW i \in 1 .. Cardinality(S), NEW j \in 1 .. Cardinality(S), At(i) = At(j)
               PROVE  i = j
    OBVIOUS
  <2>1. i - 1 = j - 1
    BY <1>3
  <2> QED
    BY <2>1, <1>2
<1>6. Ordered(S) \in [1 .. Cardinality(S) -> S]
  BY <1>1, <1>3
<1>7. Ordered(S) \in Seq(S)
  BY <1>2, <1>6, SeqDef
<1>8. Len(Ordered(S)) \in Nat /\ DOMAIN Ordered(S) = 1 .. Len(Ordered(S))
  BY <1>7, LenProperties
<1>5. Ordered(S) \in Seq(S) /\ Len(Ordered(S)) = Cardinality(S)
  BY <1>2, <1>6, <1>7, <1>8
<1> QED
  BY <1>1, <1>2, <1>4, <1>5

\* Min of a finite set is in it, and none is smaller.
LEMMA MinMember ==
  ASSUME NEW S, IsFiniteSet(S), S \subseteq Int, S # {}
  PROVE  Min(S) \in S /\ \A y \in S : Min(S) <= y
<1>1. Cardinality(S) \in Nat /\ Cardinality(S) # 0
  BY FS_CardinalityType, FS_EmptySet
<1>2. PICK n \in 1 .. Cardinality(S) : n = 1
  BY <1>1
<1>6. PICK x \in S : Cardinality({y \in S : y < x}) = n - 1
  BY NumbersRank
<1>3. IsFiniteSet({y \in S : y < x})
  BY FS_Subset
<1>4. {y \in S : y < x} = {}
  BY <1>2, <1>6, <1>3, FS_EmptySet
<1>5. \A y \in S : x <= y
  BY <1>4
<1> QED
  BY <1>5 DEF Min

\* Max of a finite set is in it, and none is larger.
LEMMA MaxMember ==
  ASSUME NEW S, IsFiniteSet(S), S \subseteq Int, S # {}
  PROVE  Max(S) \in S /\ \A y \in S : Max(S) >= y
<1>1. Cardinality(S) \in Nat /\ Cardinality(S) # 0
  BY FS_CardinalityType, FS_EmptySet
<1>2. PICK n \in 1 .. Cardinality(S) : n = Cardinality(S)
  BY <1>1
<1>7. PICK x \in S : Cardinality({y \in S : y < x}) = n - 1
  BY NumbersRank
<1>3. IsFiniteSet(S \ {x}) /\ Cardinality(S \ {x}) = Cardinality(S) - 1
  BY FS_RemoveElement
<1>4. {y \in S : y < x} \in SUBSET (S \ {x})
  OBVIOUS
<1>5. {y \in S : y < x} = S \ {x}
  BY <1>2, <1>7, <1>3, <1>4, FS_Subset
<1>6. \A y \in S : x >= y
  BY <1>5
<1> QED
  BY <1>6 DEF Max

\* The numbers below n.
LEMMA Intervals ==
  ASSUME NEW n \in Nat
  PROVE  IsFiniteSet(0 .. n - 1) /\ Cardinality(0 .. n - 1) = n
<1>1. 0 \in Int /\ n - 1 \in Int
  OBVIOUS
<1>2. /\ IsFiniteSet(0 .. n - 1)
      /\ Cardinality(0 .. n - 1) = IF 0 > n - 1 THEN 0 ELSE n - 1 - 0 + 1
  BY ONLY <1>1, FS_Interval, Zenon
<1> QED
  BY <1>2

\* Ordered leaves none of them out.
LEMMA OrderedAll ==
  ASSUME NEW S, IsFiniteSet(S), S \subseteq Int
  PROVE  ToSet(Ordered(S)) = S
<1>1. PICK n \in Nat : n = Cardinality(S)
  BY FS_CardinalityType
<1>2. /\ Ordered(S) \in [1 .. n -> S]
      /\ \A i, j \in 1 .. n : Ordered(S)[i] = Ordered(S)[j] => i = j
  <2>1. /\ Ordered(S) \in Seq(S) /\ Len(Ordered(S)) = n /\ DOMAIN Ordered(S) = 1 .. n
        /\ \A i, j \in DOMAIN Ordered(S) : Ordered(S)[i] = Ordered(S)[j] => i = j
    BY <1>1, OrderedSeq
  <2> QED
    BY <2>1, LenProperties
<1>3. Ordered(S) \in Injection(1 .. n, S)
  BY <1>2 DEF Injection, IsInjective
<1>4. Cardinality(1 .. n) = n
  <2>1. 1 \in Int /\ n \in Int
    OBVIOUS
  <2>2. Cardinality(1 .. n) = IF 1 > n THEN 0 ELSE n - 1 + 1
    BY ONLY <2>1, FS_Interval, Zenon
  <2> QED
    BY <2>2
<1>5. Ordered(S) \in Surjection(1 .. n, S)
  BY <1>1, <1>3, <1>4, FS_Injection
<1>6. \A x \in S : \E i \in 1 .. n : Ordered(S)[i] = x
  BY <1>5 DEF Surjection
<1>7. DOMAIN Ordered(S) = 1 .. n /\ \A i \in 1 .. n : Ordered(S)[i] \in S
  BY <1>2
<1> QED
  BY <1>6, <1>7 DEF ToSet

\* The first members are members.
LEMMA LeastSubset ==
  ASSUME NEW S, IsFiniteSet(S), S \subseteq Int, NEW n \in Int
  PROVE  Least(S, n) \subseteq S
<1>1. PICK m \in Nat : m = Cardinality(S)
  BY FS_CardinalityType
<1>2. /\ Ordered(S) \in Seq(S) /\ Len(Ordered(S)) = m /\ DOMAIN Ordered(S) = 1 .. m
  BY <1>1, OrderedSeq
<1>3. PICK u \in Int : u = (IF n < m THEN n ELSE m) /\ u <= m
  OBVIOUS
<1>4. \A i \in 1 .. u : Ordered(S)[i] \in S
  BY <1>2, <1>3, ElementOfSeq
<1>5. PICK s : s = SubSeq(Ordered(S), 1, u)
  OBVIOUS
<1>6. s \in Seq(S)
  BY <1>4, <1>5, SubSeqProperties
<1>7. ToSet(s) \subseteq S
  BY <1>6, LenProperties DEF ToSet
<1>8. Least(S, n) = ToSet(s)
  BY <1>1, <1>3, <1>5 DEF Least
<1> QED
  BY <1>7, <1>8

\* A list cut into pieces of n: every member is in one piece.
LEMMA PiecesSpread ==
  ASSUME NEW U, NEW s \in Seq(U), NEW n \in Nat \ {0}, ToSet(s) = U,
         \A i, j \in DOMAIN s : s[i] = s[j] => i = j
  PROVE  Spreads(Pieces(s, n), U)
<1>1. PICK L \in Nat : L = Len(s) /\ DOMAIN s = 1 .. L
  BY LenProperties
<1>2. \A i \in 1 .. L : s[i] \in U
  BY <1>1, ElementOfSeq
<1>3. PICK D : D = DividedUp(L, n)
  OBVIOUS
<1>4. D \in Nat /\ (L > 0 => D * n >= L) /\ D * n <= L + n - 1 /\ D * n >= L
  <2>1. PICK a \in Nat : a = L + n - 1
    OBVIOUS
  <2>2. D = a \div n
    BY <1>3, <2>1 DEF DividedUp
  <2>3. a \div n \in Nat /\ a % n \in 0 .. n - 1 /\ a = (a \div n) * n + (a % n)
    OBVIOUS
  <2>4. PICK e \in 0 .. n - 1 : e = a % n
    BY <2>3
  <2>5. D \in Nat /\ a = D * n + e /\ D * n \in Nat
    BY <2>2, <2>3, <2>4
  <2> QED
    BY <2>1, <2>4, <2>5
<1> DEFINE from(j) == (j - 1) * n + 1
           to(j) == IF j * n < L THEN j * n ELSE L
<1>5. ASSUME NEW j \in 1 .. D
      PROVE  /\ from(j) \in 1 .. L /\ to(j) \in 1 .. L /\ from(j) <= to(j)
             /\ from(j) \in Int /\ to(j) \in Int
  <2>1. j \in Nat /\ j >= 1 /\ j * n \in Nat /\ (j - 1) * n \in Nat /\ j * n = (j - 1) * n + n
    BY <1>4
  <2>2. j * n <= D * n
    BY <1>4
  <2>3. (j - 1) * n <= L - 1
    BY <1>4, <2>1, <2>2
  <2> QED
    BY <2>1, <2>3
<1>6. Pieces(s, n) = [j \in 1 .. D |-> SubSeq(s, from(j), to(j))]
  BY <1>1, <1>3 DEF Pieces
<1>7. \A i, j \in 1 .. D : i < j => to(i) < from(j)
  <2> SUFFICES ASSUME NEW i \in 1 .. D, NEW j \in 1 .. D, i < j
               PROVE  to(i) < from(j)
    OBVIOUS
  <2>1. i * n \in Nat /\ (j - 1) * n \in Nat /\ i <= j - 1
    BY <1>4
  <2>2. i * n <= (j - 1) * n
    BY <2>1, <1>4
  <2> QED
    BY <2>1, <2>2
<1>8. \A p \in 1 .. L : \E j \in 1 .. D : from(j) <= p /\ p <= to(j)
  <2> SUFFICES ASSUME NEW p \in 1 .. L
               PROVE  \E j \in 1 .. D : from(j) <= p /\ p <= to(j)
    OBVIOUS
  <2>1. PICK a \in Nat : a = p - 1
    OBVIOUS
  <2>2. a \div n \in Nat /\ a % n \in 0 .. n - 1 /\ a = (a \div n) * n + (a % n)
    OBVIOUS
  <2>3. PICK q \in Nat, e \in 0 .. n - 1 : a = q * n + e
    BY <2>2
  <2>4. (q + 1) * n = q * n + n /\ q * n \in Nat
    OBVIOUS
  <2>5. q + 1 <= D
    <3>1. q * n < D * n
      BY <1>4, <2>1, <2>3, <2>4
    <3> QED
      BY <1>4, <3>1
  <2>6. from(q + 1) <= p /\ p <= to(q + 1)
    BY <2>1, <2>3, <2>4
  <2> QED
    BY <2>5, <2>6
<1> HIDE DEF from, to
<1>9. ASSUME NEW j \in 1 .. D
      PROVE  /\ Pieces(s, n)[j] \in Seq(U) /\ Pieces(s, n)[j] # <<>>
             /\ ToSet(Pieces(s, n)[j]) = {s[p] : p \in from(j) .. to(j)}
             /\ \A i, h \in DOMAIN Pieces(s, n)[j] : Pieces(s, n)[j][i] = Pieces(s, n)[j][h] => i = h
  <2>1. PICK a \in 1 .. L, b \in 1 .. L : a = from(j) /\ b = to(j) /\ a <= b
    BY <1>5
  <2>2. PICK t : t = SubSeq(s, a, b)
    OBVIOUS
  <2>3. Pieces(s, n)[j] = t
    BY <1>6, <2>1, <2>2
  <2>4. \A i \in a .. b : s[i] \in U
    BY <1>2
  <2>5. a \in Int /\ b \in Int
    OBVIOUS
  <2>6. /\ t \in Seq(U) /\ Len(t) = b - a + 1
        /\ \A i \in 1 .. b - a + 1 : t[i] = s[a + i - 1]
    BY <2>1, <2>2, <2>4, <2>5, SubSeqProperties
  <2>7. DOMAIN t = 1 .. b - a + 1
    BY <2>6, LenProperties
  <2>8. ToSet(t) = {s[p] : p \in a .. b}
    <3>1. \A p \in a .. b : p - a + 1 \in 1 .. b - a + 1 /\ t[p - a + 1] = s[p]
      BY <2>6
    <3>2. \A i \in 1 .. b - a + 1 : a + i - 1 \in a .. b
      OBVIOUS
    <3>3. ToSet(t) = {t[i] : i \in 1 .. b - a + 1}
      BY <2>7 DEF ToSet
    <3>4. \A i \in 1 .. b - a + 1 : t[i] = s[a + i - 1]
      BY <2>6
    <3>5. ASSUME NEW i \in 1 .. b - a + 1 PROVE t[i] \in {s[p] : p \in a .. b}
      BY <3>2, <3>4
    <3>6. ASSUME NEW p \in a .. b PROVE s[p] \in {t[i] : i \in 1 .. b - a + 1}
      BY <3>1
    <3> QED
      BY ONLY <3>3, <3>5, <3>6, Zenon
  <2>9. t # <<>>
    BY <2>1, <2>6
  <2>10. ASSUME NEW i \in DOMAIN t, NEW h \in DOMAIN t, t[i] = t[h] PROVE i = h
    <3>4. i \in 1 .. b - a + 1 /\ h \in 1 .. b - a + 1
      BY <2>7, Zenon
    <3>1. /\ i \in 1 .. b - a + 1 /\ h \in 1 .. b - a + 1
          /\ a + i - 1 \in 1 .. L /\ a + h - 1 \in 1 .. L
      BY <3>4
    <3>2. s[a + i - 1] = s[a + h - 1]
      BY <2>6, <2>10, <3>1
    <3>3. a + i - 1 = a + h - 1
      BY <1>1, <3>1, <3>2
    <3> QED
      BY <3>1, <3>3
  <2> QED
    BY <2>1, <2>3, <2>6, <2>8, <2>9, <2>10
<1>14. \A j \in 1 .. D : ToSet(Pieces(s, n)[j]) = {s[p] : p \in from(j) .. to(j)}
  BY <1>9
<1>10. DOMAIN Pieces(s, n) = 1 .. D /\ Pieces(s, n) \in Seq(Seq(U))
  <2>1. DOMAIN Pieces(s, n) = 1 .. D
    BY <1>6
  <2>2. Pieces(s, n) \in [1 .. D -> Seq(U)]
    BY <1>6, <1>9
  <2> QED
    BY <1>4, <2>1, <2>2, SeqDef
<1>11. UNION {ToSet(Pieces(s, n)[j]) : j \in DOMAIN Pieces(s, n)} = U
  <2>1. ASSUME NEW x \in U PROVE \E j \in 1 .. D : x \in ToSet(Pieces(s, n)[j])
    <3>1. PICK p \in 1 .. L : s[p] = x
      BY <1>1 DEF ToSet
    <3>2. PICK j \in 1 .. D : from(j) <= p /\ p <= to(j)
      BY <1>8
    <3>3. p \in from(j) .. to(j)
      BY <3>2, <1>5
    <3> QED
      BY <3>1, <3>3, <1>14
  <2>2. \A j \in 1 .. D : ToSet(Pieces(s, n)[j]) \subseteq U
    BY <1>9, LenProperties DEF ToSet
  <2> QED
    BY <1>10, <2>1, <2>2
<1>12. ASSUME NEW i \in 1 .. D, NEW j \in 1 .. D, i < j
       PROVE  ToSet(Pieces(s, n)[i]) \cap ToSet(Pieces(s, n)[j]) = {}
  <2>1. \A p \in from(i) .. to(i) : \A q \in from(j) .. to(j) :
          p \in 1 .. L /\ q \in 1 .. L /\ p # q
    BY <1>5, <1>7, <1>12
  <2>2. \A p \in from(i) .. to(i) : \A q \in from(j) .. to(j) : s[p] # s[q]
    BY <1>1, <2>1
  <2>3. SUFFICES ASSUME NEW x, x \in ToSet(Pieces(s, n)[i]), x \in ToSet(Pieces(s, n)[j])
                 PROVE  FALSE
    OBVIOUS
  <2>4. PICK p \in from(i) .. to(i) : x = s[p]
    BY <1>14, <2>3
  <2>5. PICK q \in from(j) .. to(j) : x = s[q]
    BY <1>14, <2>3
  <2> QED
    BY <2>2, <2>4, <2>5
<1>13. \A i, j \in 1 .. D : i # j => ToSet(Pieces(s, n)[i]) \cap ToSet(Pieces(s, n)[j]) = {}
  <2> SUFFICES ASSUME NEW i \in 1 .. D, NEW j \in 1 .. D, i # j
               PROVE  ToSet(Pieces(s, n)[i]) \cap ToSet(Pieces(s, n)[j]) = {}
    OBVIOUS
  <2>1. i < j \/ j < i
    BY <1>4
  <2> QED
    BY <2>1, <1>12
<1> QED
  BY <1>9, <1>10, <1>11, <1>13 DEF Spreads

\* The parts of a cluster list, typed.
LEMMA ClusterParts ==
  ASSUME NEW U, NEW cl, Spreads(cl, U)
  PROVE  /\ Len(cl) \in Nat /\ DOMAIN cl = 1 .. Len(cl)
         /\ \A i \in DOMAIN cl : /\ cl[i] \in Seq(U) /\ Len(cl[i]) \in Nat
                                 /\ DOMAIN cl[i] = 1 .. Len(cl[i])
                                 /\ ToSet(cl[i]) \subseteq U /\ ToSet(cl[i]) # {}
<1>1. cl \in Seq(Seq(U))
  BY DEF Spreads
<1>2. /\ Len(cl) \in Nat /\ DOMAIN cl = 1 .. Len(cl)
      /\ \A i \in 1 .. Len(cl) : cl[i] \in Seq(U)
  BY <1>1, LenProperties, ElementOfSeq
<1>3. ASSUME NEW i \in DOMAIN cl
      PROVE  /\ cl[i] \in Seq(U) /\ Len(cl[i]) \in Nat
             /\ DOMAIN cl[i] = 1 .. Len(cl[i])
             /\ ToSet(cl[i]) \subseteq U /\ ToSet(cl[i]) # {}
  <2>1. cl[i] \in Seq(U) /\ cl[i] # <<>>
    BY <1>2 DEF Spreads
  <2>2. /\ Len(cl[i]) \in Nat /\ DOMAIN cl[i] = 1 .. Len(cl[i])
        /\ cl[i] \in [1 .. Len(cl[i]) -> U]
    BY <2>1, LenProperties
  <2>3. ToSet(cl[i]) \subseteq U
    BY <2>2 DEF ToSet
  <2>4. 1 \in DOMAIN cl[i]
    BY <2>1, <2>2, EmptySeq
  <2> QED
    BY <2>1, <2>2, <2>3, <2>4 DEF ToSet
<1> QED
  BY <1>2, <1>3

\* One more cluster, of members that are in none.
LEMMA AppendSpreads ==
  ASSUME NEW U, NEW cl, Spreads(cl, U), NEW S, IsFiniteSet(S), S \subseteq Int,
         S # {}, S \cap U = {}
  PROVE  Spreads(Append(cl, Ordered(S)), U \cup S)
<1> DEFINE s == Ordered(S)
           new == Append(cl, s)
           N == Len(cl)
<1>1. /\ s \in Seq(S) /\ ToSet(s) = S
      /\ \A i, j \in DOMAIN s : s[i] = s[j] => i = j
  BY OrderedSeq, OrderedAll
<1>2. /\ N \in Nat /\ DOMAIN cl = 1 .. N
      /\ \A i \in DOMAIN cl : cl[i] \in Seq(U) /\ ToSet(cl[i]) \subseteq U
  BY ClusterParts
<1>3. /\ s \in Seq(U \cup S) /\ cl \in Seq(Seq(U \cup S))
  <2>1. \A i \in 1 .. N : cl[i] \in Seq(U \cup S)
    BY <1>2, SeqMonotonic
  <2>2. cl \in [1 .. N -> Seq(U \cup S)]
    <3>1. cl \in [1 .. N -> Seq(U)]
      BY LenProperties DEF Spreads
    <3> QED
      BY <2>1, <3>1
  <2> QED
    BY <1>1, <1>2, <2>2, SeqDef, SeqMonotonic
<1> HIDE DEF s
<1>4. /\ new \in Seq(Seq(U \cup S)) /\ Len(new) = N + 1
      /\ \A i \in 1 .. N : new[i] = cl[i]
      /\ new[N + 1] = s
  BY <1>3, AppendProperties
<1>5. DOMAIN new = 1 .. N + 1
  BY <1>4, LenProperties
<1> HIDE DEF new
<1>6. UNION {ToSet(new[i]) : i \in DOMAIN new} = U \cup S
  <2>1. UNION {ToSet(cl[i]) : i \in DOMAIN cl} = U
    BY DEF Spreads
  <2>2. \A x \in U : \E i \in 1 .. N + 1 : x \in ToSet(new[i])
    BY <2>1, <1>2, <1>4
  <2>3. \A x \in S : x \in ToSet(new[N + 1])
    BY <1>1, <1>4
  <2>4. \A i \in 1 .. N + 1 : ToSet(new[i]) \subseteq U \cup S
    <3> SUFFICES ASSUME NEW i \in 1 .. N + 1 PROVE ToSet(new[i]) \subseteq U \cup S
      OBVIOUS
    <3>1. i \in 1 .. N \/ i = N + 1
      BY <1>2
    <3> QED
      BY <3>1, <1>1, <1>2, <1>4
  <2>5. N + 1 \in 1 .. N + 1
    BY <1>2
  <2> QED
    BY <1>5, <2>2, <2>3, <2>4, <2>5
<1>7. ASSUME NEW i \in 1 .. N + 1
      PROVE  (i \in DOMAIN cl /\ new[i] = cl[i]) \/ (i = N + 1 /\ new[i] = s)
  <2>1. i \in 1 .. N \/ i = N + 1
    BY <1>2
  <2> QED
    BY ONLY <2>1, <1>2, <1>4, Zenon
<1>8. ASSUME NEW i \in DOMAIN new, NEW j \in DOMAIN new, i # j
      PROVE  ToSet(new[i]) \cap ToSet(new[j]) = {}
  <2>1. CASE i \in DOMAIN cl /\ j \in DOMAIN cl
    BY <2>1, <1>2, <1>4, <1>8 DEF Spreads
  <2>2. CASE i = N + 1 /\ j \in DOMAIN cl
    BY <2>2, <1>1, <1>2, <1>4
  <2>3. CASE j = N + 1 /\ i \in DOMAIN cl
    BY <2>3, <1>1, <1>2, <1>4
  <2> QED
    BY <2>1, <2>2, <2>3, <1>5, <1>7, <1>8
<1>9. ASSUME NEW i \in DOMAIN new
      PROVE  /\ new[i] # <<>>
             /\ \A n, h \in DOMAIN new[i] : new[i][n] = new[i][h] => n = h
  <2>1. CASE i \in DOMAIN cl
    BY <2>1, <1>2, <1>4 DEF Spreads
  <2>2. CASE i = N + 1
    <3>1. s # <<>>
      BY <1>1 DEF ToSet
    <3> QED
      BY <2>2, <3>1, <1>1, <1>4
  <2> QED
    BY <2>1, <2>2, <1>5, <1>7
<1>10. Spreads(new, U \cup S)
  BY <1>4, <1>6, <1>8, <1>9 DEF Spreads
<1> QED
  BY <1>10 DEF new, s

\* The members of the last cluster spread over the others.
LEMMA SqueezeSpreads ==
  ASSUME NEW U, IsFiniteSet(U), U \subseteq Int, NEW cl, Spreads(cl, U), Len(cl) > 0,
         NEW to \in [ToSet(cl[Len(cl)]) -> 1 .. Len(cl) - 1]
  PROVE  Spreads([i \in 1 .. Len(cl) - 1 |-> cl[i] \o Ordered({b \in DOMAIN to : to[b] = i})], U)
<1> DEFINE N == Len(cl)
           T == ToSet(cl[N])
           Part(i) == {b \in T : to[b] = i}
           more(i) == Ordered(Part(i))
           new == [i \in 1 .. N - 1 |-> cl[i] \o more(i)]
<1>1. /\ N \in Nat /\ N > 0 /\ DOMAIN cl = 1 .. N /\ N \in DOMAIN cl
      /\ \A i \in DOMAIN cl : cl[i] \in Seq(U) /\ ToSet(cl[i]) \subseteq U
      /\ \A i \in DOMAIN cl : DOMAIN cl[i] = 1 .. Len(cl[i]) /\ Len(cl[i]) \in Nat
  BY ClusterParts
<1>2. DOMAIN to = T
  OBVIOUS
<1>3. ASSUME NEW i \in 1 .. N - 1
      PROVE  /\ more(i) \in Seq(U) /\ ToSet(more(i)) = Part(i)
             /\ \A n, h \in DOMAIN more(i) : more(i)[n] = more(i)[h] => n = h
  <2>1. IsFiniteSet(Part(i)) /\ Part(i) \subseteq Int /\ Part(i) \subseteq U
    BY <1>1, FS_Subset
  <2>2. /\ more(i) \in Seq(Part(i)) /\ ToSet(more(i)) = Part(i)
        /\ \A n, h \in DOMAIN more(i) : more(i)[n] = more(i)[h] => n = h
    BY <2>1, OrderedSeq, OrderedAll
  <2> QED
    BY <2>1, <2>2, SeqMonotonic
<1> HIDE DEF more
<1>4. ASSUME NEW i \in 1 .. N - 1
      PROVE  /\ i \in DOMAIN cl /\ i # N /\ cl[i] # <<>>
             /\ new[i] \in Seq(U) /\ new[i] # <<>>
             /\ ToSet(new[i]) = ToSet(cl[i]) \cup Part(i)
             /\ ToSet(cl[i]) \cap T = {}
             /\ \A n, h \in DOMAIN new[i] : new[i][n] = new[i][h] => n = h
  <2>0. i \in 1 .. N /\ i # N
    <3>1. PICK m \in Nat : m = N
      BY <1>1
    <3>2. i \in 1 .. m - 1
      BY <3>1
    <3>3. i \in 1 .. m /\ i # m
      BY ONLY m \in Nat, <3>2
    <3> QED
      BY ONLY <3>1, <3>3, Zenon
  <2>1. i \in DOMAIN cl /\ i # N
    BY ONLY <2>0, <1>1, Zenon
  <2>2. PICK s : s = cl[i]
    OBVIOUS
  <2>3. PICK t : t = more(i)
    OBVIOUS
  <2>4. /\ s \in Seq(U) /\ t \in Seq(U) /\ s # <<>>
        /\ ToSet(t) = Part(i)
        /\ \A n, h \in DOMAIN s : s[n] = s[h] => n = h
        /\ \A n, h \in DOMAIN t : t[n] = t[h] => n = h
    BY <2>1, <2>2, <2>3, <1>1, <1>3 DEF Spreads
  <2>5. ToSet(s) \cap T = {}
    BY <2>1, <2>2, <1>1 DEF Spreads
  <2>6. PICK a \in Nat, b \in Nat :
          /\ a = Len(s) /\ b = Len(t) /\ DOMAIN s = 1 .. a /\ DOMAIN t = 1 .. b
    BY <2>4, LenProperties
  <2>7. PICK u : u = s \o t
    OBVIOUS
  <2>8. /\ u \in Seq(U) /\ Len(u) = a + b
        /\ \A n \in 1 .. a + b : u[n] = IF n <= a THEN s[n] ELSE t[n - a]
    BY <2>4, <2>6, <2>7, ConcatProperties
  <2>9. DOMAIN u = 1 .. a + b
    BY <2>8, LenProperties
  <2>10. \A n \in 1 .. a + b : \/ n \in 1 .. a /\ u[n] = s[n]
                               \/ n - a \in 1 .. b /\ u[n] = t[n - a]
    BY <2>8
  <2>11. ToSet(u) = ToSet(s) \cup ToSet(t)
    <3>1. ToSet(u) \subseteq ToSet(s) \cup ToSet(t)
      BY <2>6, <2>9, <2>10 DEF ToSet
    <3>2. ASSUME NEW n \in 1 .. a PROVE s[n] \in ToSet(u)
      <4>1. n \in 1 .. a + b /\ u[n] = s[n]
        BY <2>8
      <4> QED
        BY <4>1, <2>9 DEF ToSet
    <3>3. ASSUME NEW n \in 1 .. b PROVE t[n] \in ToSet(u)
      <4>1. n + a \in 1 .. a + b /\ ~ (n + a <= a) /\ n + a - a = n
        OBVIOUS
      <4>2. u[n + a] = t[n]
        BY <2>8, <4>1
      <4> QED
        BY <4>1, <4>2, <2>9 DEF ToSet
    <3>4. ToSet(s) \subseteq ToSet(u) /\ ToSet(t) \subseteq ToSet(u)
      BY <2>6, <3>2, <3>3 DEF ToSet
    <3> QED
      BY <3>1, <3>4
  <2>12. \A n \in 1 .. a : \A h \in 1 .. b : s[n] # t[h]
    <3> SUFFICES ASSUME NEW n \in 1 .. a, NEW h \in 1 .. b PROVE s[n] # t[h]
      OBVIOUS
    <3>1. s[n] \in ToSet(s) /\ t[h] \in ToSet(t)
      BY <2>6 DEF ToSet
    <3> QED
      BY <3>1, <2>4, <2>5
  <2>13. ASSUME NEW n \in DOMAIN u, NEW h \in DOMAIN u, u[n] = u[h] PROVE n = h
    <3>0. n \in 1 .. a + b /\ h \in 1 .. a + b
      BY <2>9, Zenon
    <3>1. CASE n \in 1 .. a /\ h \in 1 .. a
      BY <3>1, <2>4, <2>6, <2>8, <2>13, <3>0
    <3>2. CASE n - a \in 1 .. b /\ h - a \in 1 .. b
      <4>1. t[n - a] = t[h - a]
        BY <3>0, <3>2, <2>8, <2>13
      <4>2. n - a = h - a
        BY <4>1, <3>2, <2>4, <2>6
      <4> QED
        BY <4>2, <3>0
    <3>3. CASE n \in 1 .. a /\ h - a \in 1 .. b
      BY <3>3, <3>0, <2>8, <2>12, <2>13
    <3>4. CASE n - a \in 1 .. b /\ h \in 1 .. a
      BY <3>4, <3>0, <2>8, <2>12, <2>13
    <3> QED
      BY <3>0, <3>1, <3>2, <3>3, <3>4
  <2>14. u # <<>>
    BY <2>4, <2>6, <2>8, EmptySeq
  <2>15. new[i] = u
    BY <2>2, <2>3, <2>7
  <2> QED
    BY <2>1, <2>2, <2>4, <2>5, <2>8, <2>11, <2>13, <2>14, <2>15
<1>5. DOMAIN new = 1 .. N - 1 /\ new \in Seq(Seq(U))
  <2>1. N - 1 \in Nat
    BY <1>1
  <2>2. new \in [1 .. N - 1 -> Seq(U)]
    BY <1>4
  <2> QED
    BY <2>1, <2>2, SeqDef
<1>6. PICK out : out = new
  OBVIOUS
<1>7. /\ DOMAIN out = 1 .. N - 1 /\ out \in Seq(Seq(U))
      /\ \A i \in 1 .. N - 1 : ToSet(out[i]) = ToSet(cl[i]) \cup Part(i)
      /\ \A i \in 1 .. N - 1 : out[i] # <<>>
      /\ \A i \in 1 .. N - 1 : \A n, h \in DOMAIN out[i] : out[i][n] = out[i][h] => n = h
      /\ \A i \in 1 .. N - 1 : i \in DOMAIN cl /\ ToSet(cl[i]) \cap T = {}
  BY <1>4, <1>5, <1>6
<1> HIDE DEF new
<1>8. UNION {ToSet(out[i]) : i \in DOMAIN out} = U
  <2>1. UNION {ToSet(cl[i]) : i \in DOMAIN cl} = U
    BY DEF Spreads
  <2>2. ASSUME NEW x \in U PROVE \E i \in 1 .. N - 1 : x \in ToSet(out[i])
    <3>1. PICK i \in DOMAIN cl : x \in ToSet(cl[i])
      BY <2>1
    <3>2. CASE i = N
      <4>1. x \in T /\ to[x] \in 1 .. N - 1
        BY <3>1, <3>2
      <4>2. x \in Part(to[x])
        BY <4>1
      <4> QED
        BY <4>1, <4>2, <1>7
    <3>3. CASE i # N
      <4>1. i \in 1 .. N - 1
        BY <3>3, <1>1
      <4> QED
        BY <4>1, <3>1, <1>7
    <3> QED
      BY <3>2, <3>3
  <2>3. \A i \in 1 .. N - 1 : ToSet(out[i]) \subseteq U
    BY <1>1, <1>7
  <2>4. UNION {ToSet(out[i]) : i \in 1 .. N - 1} = U
    BY <2>2, <2>3
  <2> QED
    BY <2>4, <1>7
<1>9. \A i, j \in DOMAIN out : i # j => ToSet(out[i]) \cap ToSet(out[j]) = {}
  <2> SUFFICES ASSUME NEW i \in 1 .. N - 1, NEW j \in 1 .. N - 1, i # j
               PROVE  ToSet(out[i]) \cap ToSet(out[j]) = {}
    BY <1>7
  <2>1. /\ ToSet(cl[i]) \cap ToSet(cl[j]) = {} /\ Part(i) \cap Part(j) = {}
        /\ ToSet(cl[i]) \cap T = {} /\ ToSet(cl[j]) \cap T = {}
    BY <1>7 DEF Spreads
  <2> QED
    BY <2>1, <1>7
<1>10. Spreads(out, U)
  BY <1>7, <1>8, <1>9 DEF Spreads
<1> QED
  BY <1>2, <1>6, <1>10 DEF new, more

\* The clusters, each in the order of its members.
Found(cl) == {Ordered(ToSet(cl[i])) : i \in DOMAIN cl}

\* f lists the members of S, each once.
ListsOut(f, S) ==
  \E N \in Nat :
    /\ f \in [1 .. N -> S]
    /\ \A n, h \in 1 .. N : f[n] = f[h] => n = h
    /\ \A s \in S : \E n \in 1 .. N : f[n] = s

\* The clusters read back, in any order.
LEMMA FoundSpreads ==
  ASSUME NEW U, IsFiniteSet(U), U \subseteq Int, NEW cl, Spreads(cl, U),
         NEW f, ListsOut(f, Found(cl))
  PROVE  Spreads(f, U)
<1>0. PICK found : found = Found(cl)
  OBVIOUS
<1>1. ListsOut(f, found)
  BY <1>0
<1>2. PICK N \in Nat : /\ f \in [1 .. N -> found]
                       /\ \A n, h \in 1 .. N : f[n] = f[h] => n = h
                       /\ \A s \in found : \E n \in 1 .. N : f[n] = s
  BY <1>1, Zenon DEF ListsOut
<1>3. \A s : s \in found <=> \E i \in DOMAIN cl : s = Ordered(ToSet(cl[i]))
  BY <1>0, Zenon DEF Found
<1>4. \A i \in DOMAIN cl : ToSet(cl[i]) \subseteq U /\ ToSet(cl[i]) # {}
  BY ClusterParts
<1>5. ASSUME NEW i \in DOMAIN cl
      PROVE  /\ Ordered(ToSet(cl[i])) \in Seq(U) /\ ToSet(Ordered(ToSet(cl[i]))) = ToSet(cl[i])
             /\ \A n, h \in DOMAIN Ordered(ToSet(cl[i])) :
                  Ordered(ToSet(cl[i]))[n] = Ordered(ToSet(cl[i]))[h] => n = h
  <2>1. PICK S : S = ToSet(cl[i])
    OBVIOUS
  <2>2. IsFiniteSet(S) /\ S \subseteq Int /\ S \subseteq U
    BY <2>1, <1>4, FS_Subset
  <2>3. /\ Ordered(S) \in Seq(S) /\ ToSet(Ordered(S)) = S
        /\ \A n, h \in DOMAIN Ordered(S) : Ordered(S)[n] = Ordered(S)[h] => n = h
    BY <2>2, OrderedSeq, OrderedAll
  <2> QED
    BY <2>1, <2>2, <2>3, SeqMonotonic
<1>6. \A n \in 1 .. N : \E i \in DOMAIN cl : f[n] = Ordered(ToSet(cl[i]))
  BY <1>2, <1>3
<1>7. f \in Seq(Seq(U)) /\ DOMAIN f = 1 .. N
  <2>1. f \in [1 .. N -> Seq(U)]
    BY <1>5, <1>6, <1>2
  <2> QED
    BY <2>1, <1>2, SeqDef
<1>8. UNION {ToSet(f[n]) : n \in DOMAIN f} = U
  <2>1. UNION {ToSet(cl[i]) : i \in DOMAIN cl} = U
    BY DEF Spreads
  <2>2. ASSUME NEW x \in U PROVE \E n \in 1 .. N : x \in ToSet(f[n])
    <3>1. PICK i \in DOMAIN cl : x \in ToSet(cl[i])
      BY <2>1
    <3>2. PICK n \in 1 .. N : f[n] = Ordered(ToSet(cl[i]))
      BY <1>2, <1>3
    <3> QED
      BY <3>1, <3>2, <1>5
  <2>3. \A n \in 1 .. N : ToSet(f[n]) \subseteq U
    BY <1>4, <1>5, <1>6
  <2>4. UNION {ToSet(f[n]) : n \in 1 .. N} = U
    BY ONLY <2>2, <2>3, Zenon
  <2> QED
    BY <2>4, <1>7
<1>9. \A n, h \in DOMAIN f : n # h => ToSet(f[n]) \cap ToSet(f[h]) = {}
  <2> SUFFICES ASSUME NEW n \in 1 .. N, NEW h \in 1 .. N, n # h
               PROVE  ToSet(f[n]) \cap ToSet(f[h]) = {}
    BY <1>7
  <2>1. PICK i \in DOMAIN cl : f[n] = Ordered(ToSet(cl[i]))
    BY <1>6
  <2>2. PICK j \in DOMAIN cl : f[h] = Ordered(ToSet(cl[j]))
    BY <1>6
  <2>3. i # j
    BY <2>1, <2>2, <1>2
  <2>4. ToSet(cl[i]) \cap ToSet(cl[j]) = {}
    BY <2>3 DEF Spreads
  <2> QED
    BY <2>1, <2>2, <2>4, <1>5
<1>10. ASSUME NEW n \in DOMAIN f
      PROVE  /\ f[n] # <<>>
             /\ \A a, b \in DOMAIN f[n] : f[n][a] = f[n][b] => a = b
  <2>1. PICK i \in DOMAIN cl : f[n] = Ordered(ToSet(cl[i]))
    BY <1>6, <1>7
  <2>2. ToSet(f[n]) # {}
    BY <2>1, <1>4, <1>5
  <2>3. f[n] # <<>>
    BY <2>2 DEF ToSet
  <2> QED
    BY <2>1, <2>3, <1>5
<1> QED
  BY <1>7, <1>8, <1>9, <1>10 DEF Spreads

----------------------------------------------------------------------------
(* Reading survivors.                                                       *)

\* What is read is usable and left.
LEMMA FirstAreUsable ==
  ASSUME NEW cl, NEW k, NEW F, NEW usable
  PROVE  FirstSurvivors(k, cl, F, usable) \subseteq usable \ F
<1> DEFINE slots == UNION {{<<i, n>> : n \in Survivors(cl[i], F, usable)} : i \in DOMAIN cl}
           earlier(s) == {t \in slots : \/ ReadBefore(cl, F, usable, t[1], s[1])
                                        \/ t[1] = s[1] /\ t[2] < s[2]}
<1>1. FirstSurvivors(k, cl, F, usable)
        = {cl[s[1]][s[2]] : s \in {t \in slots : Cardinality(earlier(t)) < k}}
  BY DEF FirstSurvivors
<1>2. \A s \in slots : cl[s[1]][s[2]] \in usable \ F
  BY DEF Survivors
<1> HIDE DEF slots, earlier
<1> QED
  BY <1>1, <1>2

\* The survivors beside the lost blocks are all read, where there are no more than k.
LEMMA BesideAreRead ==
  ASSUME NEW U, IsFiniteSet(U), NEW cl, Spreads(cl, U), NEW k \in Nat, NEW F, NEW usable,
         NEW B, Cardinality(B) <= k, B \subseteq (U \cap usable) \ F,
         \A b \in (U \cap usable) \ F :
           b \in B <=> \E i \in DOMAIN cl : LostSome(cl[i], F) /\ b \in ToSet(cl[i])
  PROVE  B \subseteq FirstSurvivors(k, cl, F, usable)
<1> DEFINE left(i) == Survivors(cl[i], F, usable)
           main(i) == LostSome(cl[i], F)
           slots == UNION {{<<i, n>> : n \in left(i)} : i \in DOMAIN cl}
           earlier(s) == {t \in slots : \/ ReadBefore(cl, F, usable, t[1], s[1])
                                        \/ t[1] = s[1] /\ t[2] < s[2]}
           M == {t \in slots : main(t[1])}
           at == [t \in M |-> cl[t[1]][t[2]]]
<1>1. FirstSurvivors(k, cl, F, usable)
        = {cl[s[1]][s[2]] : s \in {t \in slots : Cardinality(earlier(t)) < k}}
  BY DEF FirstSurvivors
<1>2. /\ cl \in Seq(Seq(U)) /\ DOMAIN cl \subseteq Nat
      /\ \A i \in DOMAIN cl : cl[i] \in Seq(U)
      /\ \A i \in DOMAIN cl : DOMAIN cl[i] = 1 .. Len(cl[i]) /\ Len(cl[i]) \in Nat
  <2>1. cl \in Seq(Seq(U))
    BY DEF Spreads
  <2>2. /\ DOMAIN cl = 1 .. Len(cl) /\ Len(cl) \in Nat
        /\ \A i \in 1 .. Len(cl) : cl[i] \in Seq(U)
    BY <2>1, LenProperties, ElementOfSeq
  <2> QED
    BY <2>1, <2>2, LenProperties
<1>3. \A i \in DOMAIN cl : left(i) \subseteq DOMAIN cl[i] /\ IsFiniteSet(left(i)) /\ Cardinality(left(i)) \in Nat
  <2> SUFFICES ASSUME NEW i \in DOMAIN cl
               PROVE  left(i) \subseteq DOMAIN cl[i] /\ IsFiniteSet(left(i)) /\ Cardinality(left(i)) \in Nat
    OBVIOUS
  <2>1. PICK n \in Nat : DOMAIN cl[i] = 1 .. n
    BY <1>2
  <2>2. 1 \in Int /\ n \in Int
    OBVIOUS
  <2>3. IsFiniteSet(1 .. n)
    BY ONLY <2>2, FS_Interval, Zenon
  <2>4. left(i) \subseteq 1 .. n
    BY <2>1 DEF Survivors
  <2> QED
    BY <2>1, <2>3, <2>4, FS_Subset, FS_CardinalityType
<1>4. \A t \in slots : /\ t = <<t[1], t[2]>> /\ t[1] \in DOMAIN cl /\ t[2] \in left(t[1])
                       /\ t[2] \in DOMAIN cl[t[1]] /\ t[1] \in Nat /\ t[2] \in Nat
  BY <1>2, <1>3
<1>5. \A t \in slots : cl[t[1]][t[2]] \in (U \cap usable) \ F /\ cl[t[1]][t[2]] \in ToSet(cl[t[1]])
  <2> SUFFICES ASSUME NEW t \in slots
               PROVE  cl[t[1]][t[2]] \in (U \cap usable) \ F /\ cl[t[1]][t[2]] \in ToSet(cl[t[1]])
    OBVIOUS
  <2>1. cl[t[1]][t[2]] \in usable \ F
    BY <1>4 DEF Survivors
  <2>2. cl[t[1]][t[2]] \in U
    BY <1>2, <1>4, ElementOfSeq
  <2> QED
    BY <2>1, <2>2, <1>4 DEF ToSet
<1> HIDE DEF left, slots
<1>6. IsFiniteSet(B)
  BY FS_Subset
<1>7. at \in Injection(M, B)
  <2>1. \A t \in M : at[t] \in B
    BY <1>4, <1>5
  <2>2. ASSUME NEW s \in M, NEW t \in M, at[s] = at[t] PROVE s = t
    <3>1. cl[s[1]][s[2]] \in ToSet(cl[s[1]]) /\ cl[t[1]][t[2]] \in ToSet(cl[t[1]])
      BY <1>5
    <3>2. cl[s[1]][s[2]] = cl[t[1]][t[2]]
      BY <2>2
    <3>3. s[1] = t[1]
      BY <1>4, <3>1, <3>2 DEF Spreads
    <3>4. s[2] = t[2]
      BY <1>4, <3>2, <3>3 DEF Spreads
    <3> QED
      BY <1>4, <3>3, <3>4
  <2> HIDE DEF M
  <2> QED
    BY <2>1, <2>2 DEF Injection, IsInjective
<1>8. IsFiniteSet(M) /\ Cardinality(M) <= Cardinality(B) /\ Cardinality(B) \in Nat
  BY <1>6, <1>7, FS_Injection, FS_CardinalityType
<1>9. ASSUME NEW s \in M PROVE Cardinality(earlier(s)) < k
  <2>1. s \notin earlier(s)
    <3>1. s \in slots /\ s[1] \in DOMAIN cl /\ s[1] \in Nat /\ s[2] \in Nat
      BY <1>4
    <3>2. ~ ReadBefore(cl, F, usable, s[1], s[1])
      BY <1>3, <3>1 DEF ReadBefore, left
    <3>3. ~ (s[2] < s[2])
      BY <3>1
    <3> QED
      BY <3>2, <3>3
  <2>2. earlier(s) \subseteq M
    BY DEF ReadBefore
  <2>3. IsFiniteSet(M \ {s}) /\ Cardinality(M \ {s}) = Cardinality(M) - 1
    BY <1>8, FS_RemoveElement
  <2>4. earlier(s) \in SUBSET (M \ {s})
    BY <2>1, <2>2
  <2>5. /\ IsFiniteSet(earlier(s)) /\ Cardinality(earlier(s)) <= Cardinality(M) - 1
        /\ Cardinality(earlier(s)) \in Nat /\ Cardinality(M) \in Nat
    BY <2>3, <2>4, <1>8, FS_Subset, FS_CardinalityType
  <2> QED
    BY <2>5, <1>8
<1> HIDE DEF earlier
<1>10. ASSUME NEW b \in B PROVE \E s \in M : b = cl[s[1]][s[2]]
  <2>1. PICK i \in DOMAIN cl : main(i) /\ b \in ToSet(cl[i])
    OBVIOUS
  <2>2. PICK n \in DOMAIN cl[i] : cl[i][n] = b
    BY <2>1 DEF ToSet
  <2>3. n \in left(i)
    BY <2>2 DEF left, Survivors
  <2>4. <<i, n>> \in M
    BY <2>1, <2>3 DEF slots
  <2> QED
    BY <2>2, <2>4
<1> QED
  BY <1>1, <1>9, <1>10

----------------------------------------------------------------------------
(* Lists.                                                                   *)

\* Reversing keeps a sequence one of the same members.
LEMMA ReverseSeq ==
  ASSUME NEW S, NEW s \in Seq(S)
  PROVE  /\ Reverse(s) \in Seq(S) /\ Len(Reverse(s)) = Len(s)
         /\ DOMAIN Reverse(s) = 1 .. Len(s)
<1>1. Len(s) \in Nat /\ s \in [1 .. Len(s) -> S]
  BY LenProperties
<1>2. Reverse(s) \in [1 .. Len(s) -> S]
  BY <1>1 DEF Reverse
<1>3. Reverse(s) \in Seq(S)
  BY <1>1, <1>2, SeqDef
<1> QED
  BY <1>1, <1>2, <1>3, LenProperties

\* Reversing turns a list round.
LEMMA Reversed ==
  ASSUME NEW S, NEW s \in Seq(S), NEW d \in Nat, d = Len(s)
  PROVE  \A i \in 1 .. d : Reverse(s)[i] = s[d - i + 1]
BY DEF Reverse

\* The empty list has no members and none of them twice.
LEMMA NoMembers == ToSet(<<>>) = {} /\ IsInjective(<<>>)
BY DEF ToSet, IsInjective

\* A list without repetitions is as long as the set of its members.
LEMMA ListedSet ==
  ASSUME NEW S, NEW s \in Seq(S), IsInjective(s)
  PROVE  IsFiniteSet(ToSet(s)) /\ Cardinality(ToSet(s)) = Len(s) /\ Len(s) \in Nat
<1>1. PICK n \in Nat : n = Len(s)
  BY LenProperties
<1>2. DOMAIN s = 1 .. n /\ s \in [1 .. n -> S]
  BY <1>1, LenProperties
<1>3. IsFiniteSet(1 .. n) /\ Cardinality(1 .. n) = n
  <2>1. 1 \in Int /\ n \in Int
    OBVIOUS
  <2>2. IsFiniteSet(1 .. n) /\ Cardinality(1 .. n) = IF 1 > n THEN 0 ELSE n - 1 + 1
    BY ONLY <2>1, FS_Interval, Zenon
  <2> QED
    BY <2>2
<1>4. s \in Bijection(1 .. n, ToSet(s))
  BY <1>2 DEF Bijection, Injection, Surjection, IsInjective, ToSet
<1> QED
  BY <1>1, <1>3, <1>4, FS_Bijection, FS_Surjection DEF Bijection

----------------------------------------------------------------------------
(* Multiplication and division.                                             *)

\* Row a ends before row b begins.
LEMMA ProdMono ==
  ASSUME NEW a \in Nat, NEW b \in Nat, NEW k \in Nat, a < b
  PROVE  a * k \in Nat /\ b * k \in Nat /\ a * k + k <= b * k
OBVIOUS

\* Row and column of a number are its quotient and remainder.
LEMMA DivUnique ==
  ASSUME NEW q \in Nat, NEW k \in Nat \ {0}, NEW e \in 0 .. k - 1
  PROVE  (q * k + e) \div k = q /\ (q * k + e) % k = e
OBVIOUS

\* Products of naturals are naturals.
LEMMA ProdNat ==
  ASSUME NEW a \in Nat, NEW b \in Nat
  PROVE  a * b \in Nat /\ a * b = b * a
OBVIOUS

\* The product of positive numbers is positive.
LEMMA ProdPos ==
  ASSUME NEW a \in Nat, NEW b \in Nat, a > 0, b > 0
  PROVE  a * b \in Nat /\ a * b > 0
OBVIOUS

\* Quotient and remainder, as the grid arithmetic uses them.
LEMMA DivMod ==
  ASSUME NEW a \in Nat, NEW k \in Pos
  PROVE  a \div k \in Nat /\ a % k \in 0 .. k - 1 /\ a = (a \div k) * k + (a % k)
BY DEF Pos

\* A number in a grid of n rows has a row below n.
LEMMA DivLess ==
  ASSUME NEW a \in Nat, NEW k \in Pos, NEW n \in Nat, a < n * k
  PROVE  a \div k < n
BY DivMod DEF Pos

\* Every number below n * k is in one of n rows of k.
LEMMA DivPair ==
  ASSUME NEW a \in Nat, NEW k \in Pos, NEW n \in Nat, a < n * k
  PROVE  \E s \in 0 .. n - 1, b \in 0 .. k - 1 : a = s * k + b
<1>1. a \div k \in Nat /\ a \div k < n
  BY DivMod, DivLess
<1>2. a % k \in 0 .. k - 1 /\ a = (a \div k) * k + (a % k)
  BY DivMod
<1>3. PICK s \in 0 .. n - 1 : s = a \div k
  BY <1>1
<1>4. PICK b \in 0 .. k - 1 : b = a % k
  BY <1>2
<1>5. a = s * k + b
  BY <1>2, <1>3, <1>4
<1> QED
  BY <1>5

\* Numbers in a grid are different in different cells.
LEMMA DivDiffer ==
  ASSUME NEW s \in Nat, NEW t \in Nat, NEW k \in Pos, NEW b \in 0 .. k - 1, NEW d \in 0 .. k - 1,
         s * k + b = t * k + d
  PROVE  s = t /\ b = d
<1>1. (s * k + b) \div k = s /\ (s * k + b) % k = b
  BY DivUnique DEF Pos
<1>2. (t * k + d) \div k = t /\ (t * k + d) % k = d
  BY DivUnique DEF Pos
<1> QED
  BY <1>1, <1>2

\* A number below twice the divisor.
LEMMA ModOnce ==
  ASSUME NEW n \in Nat, n > 0, NEW a \in Nat
  PROVE  /\ a < n => a % n = a
         /\ a >= n /\ a < n + n => a % n = a - n
OBVIOUS

\* The number after t: its remainder is one more, or none.
LEMMA NextRemainder ==
  ASSUME NEW t \in Nat, NEW m \in Pos
  PROVE  /\ (t + 1) % m = 0 \/ (t + 1) % m = (t % m) + 1
         /\ t % m \in Nat /\ (t % m) + 1 <= m
<1>1. PICK q \in Nat, e \in Nat : t = q * m + e /\ t % m = e /\ e < m
  <2>1. t \div m \in Nat /\ t % m \in 0 .. m - 1 /\ t = (t \div m) * m + (t % m)
    BY DivMod
  <2>2. m \in Nat
    BY DEF Pos
  <2>3. PICK q \in Nat : q = t \div m
    BY <2>1
  <2>4. PICK e \in 0 .. m - 1 : e = t % m
    BY <2>1
  <2>5. e \in Nat /\ e < m
    BY <2>2
  <2>6. t = q * m + e
    BY ONLY <2>1, <2>3, <2>4, Zenon
  <2> QED
    BY <2>4, <2>5, <2>6
<1>2. q * m \in Nat /\ (q + 1) * m = q * m + m /\ m \in Nat \ {0}
  BY DEF Pos
<1>3. CASE e + 1 = m
  <2>1. t + 1 = (q + 1) * m + 0
    BY <1>1, <1>2, <1>3
  <2>2. ((q + 1) * m + 0) % m = 0
    BY <1>2, DivUnique
  <2>3. (t + 1) % m = 0
    BY ONLY <2>1, <2>2, Zenon
  <2> QED
    BY ONLY <1>1, <1>2, <1>3, <2>3, e \in Nat
<1>4. CASE e + 1 < m
  <2>1. PICK d \in 0 .. m - 1 : d = e + 1
    BY <1>2, <1>4
  <2>2. t + 1 = q * m + d
    BY <1>1, <1>2, <2>1
  <2>3. (q * m + d) % m = d
    BY <1>2, DivUnique
  <2>4. (t + 1) % m = d
    BY ONLY <2>2, <2>3, Zenon
  <2> QED
    BY ONLY <1>1, <1>2, <1>4, <2>1, <2>4, e \in Nat
<1> QED
  BY <1>1, <1>2, <1>3, <1>4

\* Merging keeps the number of blocks that a local parity block covers.
LEMMA SameRun ==
  ASSUME NEW k \in Nat, NEW l \in Pos, NEW x \in Nat, x > 0
  PROVE  /\ DividedUp(x * k, x * l) = DividedUp(k, l) /\ DividedUp(k, l) \in Nat
         /\ DividedUp(k, l) * l \in Nat
         /\ k % l = 0 => DividedUp(k, l) * l = k
         /\ k % l # 0 => DividedUp(k, l) * l > k
<1>1. l \in Nat /\ l > 0 /\ l \in Nat \ {0}
  BY DEF Pos
<1>2. PICK a \in Nat : a = k + l - 1
  BY <1>1
<1>3. PICK q \in Nat, e \in 0 .. l - 1 : q = a \div l /\ a = q * l + e
  BY <1>1, DivMod
<1>4. q = DividedUp(k, l)
  BY <1>2, <1>3 DEF DividedUp
<1>5. PICK n \in Nat : n = q * l
  BY <1>1, ProdNat
<1>6. k + l - 1 = n + e /\ e \in Nat /\ e < l
  BY <1>1, <1>2, <1>3, <1>5
<1>7. DividedUp(x * k, x * l) = q
  <2>1. PICK X \in Nat, Y \in Nat, Z \in Nat : X = x * k /\ Y = x * l /\ Z = x * (e + 1)
    BY <1>1, <1>6, ProdNat
  <2>2. x * (k + l) = x * (n + (e + 1))
    <3>1. k + l = n + (e + 1)
      BY ONLY <1>1, <1>6, k \in Nat, n \in Nat
    <3> QED
      BY <3>1
  <2>3. x * (k + l) = X + Y
    BY <1>1, <2>1
  <2>4. x * (n + (e + 1)) = x * n + Z
    BY <1>6, <2>1
  <2>5. x * n = q * Y
    BY ONLY <1>1, <1>5, <2>1, x \in Nat, q \in Nat, n \in Nat
  <2>6. X + Y = q * Y + Z
    BY <2>2, <2>3, <2>4, <2>5
  <2>7. Z \in 1 .. Y
    <3>1. e + 1 \in Nat /\ e + 1 <= l /\ e + 1 >= 1
      BY <1>1, <1>6
    <3>2. PICK f \in Nat : f = e + 1 /\ f <= l /\ f >= 1
      BY <3>1
    <3>3. x * f <= x * l /\ x * f >= 1
      BY ONLY <1>1, <3>2, x \in Nat, x > 0, f \in Nat
    <3> QED
      BY <2>1, <3>2, <3>3
  <2>8. PICK z \in 0 .. Y - 1 : z = Z - 1
    BY <2>7
  <2>9. PICK Q \in Nat : Q = q * Y
    BY ProdNat
  <2>10. X + Y - 1 = q * Y + z
    BY <2>6, <2>8, <2>9
  <2>11. (X + Y - 1) \div Y = q
    BY <2>7, <2>10, DivUnique
  <2> QED
    BY <2>1, <2>11 DEF DividedUp
<1>8. ASSUME k % l = 0 PROVE n = k
  <2>1. PICK p \in Nat : p = k \div l /\ k = p * l + 0
    BY <1>1, <1>8, DivMod
  <2>2. PICK P \in Nat : P = p * l
    BY <1>1, ProdNat
  <2>3. a = p * l + (l - 1)
    BY <1>1, <1>2, <2>1, <2>2
  <2>4. PICK f \in 0 .. l - 1 : f = l - 1
    BY <1>1
  <2>5. q * l + e = p * l + f
    BY <1>3, <2>3, <2>4
  <2>6. q = p
    BY <1>6, <2>5, DivDiffer
  <2> QED
    BY <1>5, <2>1, <2>2, <2>6
<1>9. ASSUME k % l # 0 PROVE n > k
  <2>1. n >= k
    BY <1>1, <1>6
  <2>2. n # k
    <3> SUFFICES ASSUME n = k PROVE FALSE
      OBVIOUS
    <3>1. PICK z \in 0 .. l - 1 : z = 0
      BY <1>1
    <3>2. (q * l + z) % l = z
      BY <1>1, DivUnique
    <3>3. q * l + z = k
      BY <1>5, <3>1
    <3> QED
      BY <1>9, <3>1, <3>2, <3>3
  <2> QED
    BY <2>1, <2>2
<1> QED
  BY <1>4, <1>5, <1>7, <1>8, <1>9

----------------------------------------------------------------------------
(* The grid of a product code.                                              *)

\* A cell of a product code has a number of its own, which bid2rowcol undoes.
LEMMA CellTrip ==
  ASSUME NEW c, c.k1 \in Nat \ {0}, c.m1 \in Nat \ {0}, c.k2 \in Nat \ {0}, c.m2 \in Nat \ {0},
         NEW row \in Rows(c), NEW col \in Columns(c)
  PROVE  /\ rowcol2bid(c, row, col) \in Nat
         /\ bid2rowcol(c, rowcol2bid(c, row, col)) = <<row, col>>
         /\ rowcol2bid(c, row, col) < (c.k1 + c.m1) * c.k2 + c.k1 * c.m2 + c.m1 * c.m2
<1>1. /\ c.k1 \in Nat \ {0} /\ c.m1 \in Nat \ {0} /\ c.k2 \in Nat \ {0} /\ c.m2 \in Nat \ {0}
      /\ c.k1 \in Nat /\ c.m1 \in Nat /\ c.k2 \in Nat /\ c.m2 \in Nat
      /\ row \in Nat /\ row < c.k2 + c.m2 /\ col \in Nat /\ col < c.k1 + c.m1
  BY DEF Rows, Columns
<1>2. PICK A \in Nat : A = c.k1 * c.k2
  BY <1>1, ProdNat
<1>3. PICK B \in Nat : B = (c.k1 + c.m1) * c.k2
  BY <1>1
<1>4. PICK D \in Nat : D = c.k1 * c.m2
  BY <1>1, ProdNat
<1>5. PICK E \in Nat : E = c.m1 * c.m2
  BY <1>1, ProdNat
<1>6. PICK F \in Nat : F = c.k2 * c.m1
  BY <1>1, ProdNat
<1>7. B = A + F
  BY <1>1, <1>2, <1>3, <1>6
<1>8. B + D + E = (c.k1 + c.m1) * c.k2 + c.k1 * c.m2 + c.m1 * c.m2
  BY <1>1, <1>3, <1>4, <1>5
<1>9. c.k2 * c.k1 = A /\ c.m2 * c.k1 = D /\ c.m2 * c.m1 = E
  BY <1>1, <1>2, <1>4, <1>5
<1>10. CASE row < c.k2 /\ col < c.k1
  <2>1. PICK b \in Nat : b = row * c.k1 + col
    BY <1>1
  <2>2. b < A
    BY <1>1, <1>9, <1>10, <2>1, ProdMono
  <2>3. rowcol2bid(c, row, col) = b
    BY <1>1, <1>10, <2>1 DEF rowcol2bid
  <2>4. b \div c.k1 = row /\ b % c.k1 = col
    <3>1. col \in 0 .. c.k1 - 1
      BY <1>1, <1>10
    <3>2. (row * c.k1 + col) \div c.k1 = row /\ (row * c.k1 + col) % c.k1 = col
      BY ONLY <1>1, <3>1, DivUnique
    <3> QED
      BY <2>1, <3>2
  <2>5. bid2rowcol(c, b) = <<row, col>>
    BY <1>1, <1>2, <2>2, <2>4 DEF bid2rowcol
  <2> QED
    BY <1>7, <1>8, <2>1, <2>2, <2>3, <2>5
<1>11. CASE row < c.k2 /\ ~(col < c.k1)
  <2>1. PICK e \in Nat : e = col - c.k1
    BY <1>1, <1>11
  <2>2. PICK d \in Nat : d = row * c.m1 + e
    BY <1>1
  <2>3. d < F
    BY <1>1, <1>6, <1>11, <2>1, <2>2, ProdMono
  <2>4. rowcol2bid(c, row, col) = A + d
    BY <1>1, <1>2, <1>11, <2>1, <2>2 DEF rowcol2bid
  <2>5. d \div c.m1 = row /\ d % c.m1 = e
    <3>1. e \in 0 .. c.m1 - 1
      BY <1>1, <2>1
    <3>2. (row * c.m1 + e) \div c.m1 = row /\ (row * c.m1 + e) % c.m1 = e
      BY ONLY <1>1, <3>1, DivUnique
    <3> QED
      BY <2>2, <3>2
  <2>6. PICK b \in Nat : b = A + d
    OBVIOUS
  <2>7. ~(b < A) /\ A <= b /\ b < B /\ b - A = d
    BY <1>7, <2>3, <2>6
  <2>8. bid2rowcol(c, b) = <<d \div c.m1, (d % c.m1) + c.k1>>
    BY <1>2, <1>3, <2>7 DEF bid2rowcol
  <2>9. bid2rowcol(c, b) = <<row, col>>
    BY <1>1, <2>1, <2>5, <2>8
  <2>10. b < B + D + E
    BY <1>7, <1>8, <2>6, <2>7
  <2> QED
    BY <1>8, <2>4, <2>6, <2>9, <2>10
<1>12. CASE ~(row < c.k2) /\ col < c.k1
  <2>1. PICK e \in Nat : e = row - c.k2
    BY <1>1, <1>12
  <2>2. PICK d \in Nat : d = e * c.k1 + col
    BY <1>1
  <2>3. d < D
    BY <1>1, <1>9, <1>12, <2>1, <2>2, ProdMono
  <2>4. rowcol2bid(c, row, col) = B + d
    BY <1>1, <1>3, <1>12, <2>1, <2>2 DEF rowcol2bid
  <2>5. d \div c.k1 = e /\ d % c.k1 = col
    <3>1. col \in 0 .. c.k1 - 1
      BY <1>1, <1>12
    <3>2. (e * c.k1 + col) \div c.k1 = e /\ (e * c.k1 + col) % c.k1 = col
      BY ONLY <1>1, <3>1, DivUnique
    <3> QED
      BY <2>2, <3>2
  <2>6. PICK b \in Nat : b = B + d
    OBVIOUS
  <2>7. ~(b < A) /\ ~(b < B) /\ B <= b /\ b < B + D /\ b - B = d
    BY <1>7, <2>3, <2>6
  <2>8. bid2rowcol(c, b) = <<(d \div c.k1) + c.k2, d % c.k1>>
    BY <1>2, <1>3, <1>4, <2>7 DEF bid2rowcol
  <2>9. bid2rowcol(c, b) = <<row, col>>
    BY <1>1, <2>1, <2>5, <2>8
  <2>10. b < B + D + E
    BY <1>7, <1>8, <2>6, <2>7
  <2> QED
    BY <1>8, <2>4, <2>6, <2>9, <2>10
<1>13. CASE ~(row < c.k2) /\ ~(col < c.k1)
  <2>1. PICK e \in Nat, f \in Nat : e = row - c.k2 /\ f = col - c.k1
    BY <1>1, <1>13
  <2>2. PICK d \in Nat : d = e * c.m1 + f
    BY <1>1
  <2>3. d < E
    <3>1. e \in Nat /\ c.m2 \in Nat /\ c.m1 \in Nat /\ e < c.m2 /\ f < c.m1
      BY <1>1, <2>1
    <3>2. e * c.m1 \in Nat /\ e * c.m1 + c.m1 <= c.m2 * c.m1
      BY ONLY <3>1, ProdMono
    <3>3. PICK h \in Nat : h = e * c.m1
      BY <3>2
    <3> QED
      BY <1>9, <2>2, <3>1, <3>2, <3>3
  <2>4. rowcol2bid(c, row, col) = B + D + d
    BY <1>1, <1>3, <1>4, <1>13, <2>1, <2>2 DEF rowcol2bid
  <2>5. d \div c.m1 = e /\ d % c.m1 = f
    <3>1. f \in 0 .. c.m1 - 1
      BY <1>1, <2>1
    <3>2. (e * c.m1 + f) \div c.m1 = e /\ (e * c.m1 + f) % c.m1 = f
      BY ONLY <1>1, <2>1, <3>1, DivUnique
    <3> QED
      BY <2>2, <3>2
  <2>6. PICK b \in Nat : b = B + D + d
    OBVIOUS
  <2>7. ~(b < A) /\ ~(b < B) /\ ~(b < B + D) /\ b - (B + D) = d
    BY <1>7, <2>3, <2>6
  <2>8. bid2rowcol(c, b) = <<(d \div c.m1) + c.k2, (d % c.m1) + c.k1>>
    BY <1>2, <1>3, <1>4, <2>7 DEF bid2rowcol
  <2>9. bid2rowcol(c, b) = <<row, col>>
    BY <1>1, <2>1, <2>5, <2>8
  <2>10. b < B + D + E
    BY <1>7, <1>8, <2>3, <2>6
  <2> QED
    BY <1>8, <2>4, <2>6, <2>9, <2>10
<1> QED
  BY <1>10, <1>11, <1>12, <1>13

\* The parameters of a product code.
LEMMA PcParts ==
  ASSUME NEW c \in PcCodes
  PROVE  /\ c.k1 \in Pos /\ c.m1 \in Pos /\ c.k2 \in Pos /\ c.m2 \in Pos
         /\ c.k1 \in Nat /\ c.m1 \in Nat /\ c.k2 \in Nat /\ c.m2 \in Nat
         /\ c.k1 > 0 /\ c.m1 > 0 /\ c.k2 > 0 /\ c.m2 > 0
         /\ c.type \in PcTypes /\ c.type \in {"PC", "HV_PC"}
BY DEF PcCodes, Pos, PcTypes

\* The cells of the rows with data have the first numbers.
LEMMA DataRowNumber ==
  ASSUME NEW c \in PcCodes, NEW row \in Rows(c), NEW col \in Columns(c), row < c.k2
  PROVE  rowcol2bid(c, row, col) < (c.k1 + c.m1) * c.k2
<1>1. /\ c.k1 \in Nat /\ c.m1 \in Nat /\ c.k2 \in Nat /\ c.m2 \in Nat
      /\ row \in Nat /\ col \in Nat /\ col < c.k1 + c.m1
  BY PcParts DEF Rows, Columns
<1>2. PICK A \in Nat, F \in Nat : A = c.k1 * c.k2 /\ F = c.k2 * c.m1 /\ A = c.k2 * c.k1
  BY <1>1, ProdNat
<1>3. (c.k1 + c.m1) * c.k2 = A + F
  BY <1>1, <1>2
<1>4. CASE col < c.k1
  <2>1. row * c.k1 \in Nat /\ row * c.k1 + c.k1 <= c.k2 * c.k1
    BY <1>1, ProdMono
  <2>2. PICK a \in Nat : a = row * c.k1
    BY <2>1
  <2>3. rowcol2bid(c, row, col) = a + col
    BY <1>1, <1>4, <2>2 DEF rowcol2bid
  <2>4. a + c.k1 <= A
    BY <1>2, <2>1, <2>2
  <2> QED
    BY <1>1, <1>2, <1>3, <1>4, <2>3, <2>4
<1>5. CASE ~(col < c.k1)
  <2>1. row * c.m1 \in Nat /\ row * c.m1 + c.m1 <= c.k2 * c.m1
    BY <1>1, ProdMono
  <2>2. PICK a \in Nat, e \in Nat : a = row * c.m1 /\ e = col - c.k1 /\ e < c.m1
    BY <1>1, <1>5, <2>1
  <2>3. rowcol2bid(c, row, col) = A + a + e
    BY <1>1, <1>2, <1>5, <2>2 DEF rowcol2bid
  <2>4. a + c.m1 <= F
    BY <1>2, <2>1, <2>2
  <2> QED
    BY <1>1, <1>2, <1>3, <2>2, <2>3, <2>4
<1> QED
  BY <1>4, <1>5

\* How many cells the grid of a product code has, as a product rather than by counting cells.
LEMMA CellCount ==
  ASSUME NEW c \in PcCodes
  PROVE  /\ Cardinality(Cells(c)) \in Nat
         /\ c.type = "PC" => Cardinality(Cells(c)) = (c.k2 + c.m2) * (c.k1 + c.m1)
         /\ c.type = "HV_PC" => Cardinality(Cells(c)) = c.k2 * (c.k1 + c.m1) + c.m2 * c.k1
<1>1. /\ c.k1 \in Nat /\ c.m1 \in Nat /\ c.k2 \in Nat /\ c.m2 \in Nat /\ c.type \in PcTypes
      /\ c.k1 > 0 /\ c.m1 > 0 /\ c.k2 > 0 /\ c.m2 > 0
  BY DEF PcCodes, Pos
<1>3. IsFiniteSet(Rows(c)) /\ Cardinality(Rows(c)) = c.k2 + c.m2
  <2>1. PICK n \in Nat : n = c.k2 + c.m2
    BY <1>1
  <2>2. Rows(c) = 0 .. n - 1
    BY <1>1, <2>1 DEF Rows
  <2> QED
    BY <2>1, <2>2, Intervals
<1>4. IsFiniteSet(Columns(c)) /\ Cardinality(Columns(c)) = c.k1 + c.m1
  <2>1. PICK n \in Nat : n = c.k1 + c.m1
    BY <1>1
  <2>2. Columns(c) = 0 .. n - 1
    BY <1>1, <2>1 DEF Columns
  <2> QED
    BY <2>1, <2>2, Intervals
<1>5. CASE c.type = "PC"
  <2>1. Cells(c) = Rows(c) \X Columns(c)
    BY <1>5 DEF Cells
  <2>2. Cardinality(Cells(c)) = (c.k2 + c.m2) * (c.k1 + c.m1)
    BY <1>3, <1>4, <2>1, FS_Product
  <2> QED
    BY <1>1, <1>5, <2>2, ProdNat
<1>6. CASE c.type = "HV_PC"
  <2> DEFINE A == (0 .. c.k2 - 1) \X Columns(c)
             L == c.k2 .. c.k2 + c.m2 - 1
             B == L \X (0 .. c.k1 - 1)
  <2>1. Cells(c) = A \cup B
    BY <1>1, <1>6 DEF Cells, Rows, Columns
  <2>2. A \cap B = {}
    BY <1>1
  <2>3. IsFiniteSet(A) /\ Cardinality(A) = c.k2 * (c.k1 + c.m1)
    <3>1. IsFiniteSet(0 .. c.k2 - 1) /\ Cardinality(0 .. c.k2 - 1) = c.k2
      BY <1>1, Intervals
    <3>2. IsFiniteSet(A) /\ Cardinality(A) = Cardinality(0 .. c.k2 - 1) * Cardinality(Columns(c))
      BY <3>1, <1>4, FS_Product, Zenon
    <3> QED
      BY <1>4, <3>1, <3>2
  <2>4. IsFiniteSet(L) /\ Cardinality(L) = c.m2
    <3>1. c.k2 \in Int /\ c.k2 + c.m2 - 1 \in Int
      BY <1>1
    <3>2. PICK a \in Int, b \in Int : a = c.k2 /\ b = c.k2 + c.m2 - 1
      BY <3>1
    <3>3. IsFiniteSet(a .. b) /\ Cardinality(a .. b) = IF a > b THEN 0 ELSE b - a + 1
      BY FS_Interval
    <3> QED
      BY <1>1, <3>2, <3>3
  <2>5. IsFiniteSet(B) /\ Cardinality(B) = c.m2 * c.k1
    <3>1. IsFiniteSet(0 .. c.k1 - 1) /\ Cardinality(0 .. c.k1 - 1) = c.k1
      BY <1>1, Intervals
    <3> HIDE DEF L
    <3>2. IsFiniteSet(B) /\ Cardinality(B) = Cardinality(L) * Cardinality(0 .. c.k1 - 1)
      BY <2>4, <3>1, FS_Product, Zenon
    <3> QED
      BY <2>4, <3>1, <3>2
  <2> HIDE DEF A, B
  <2>6. Cardinality(A \cup B) = Cardinality(A) + Cardinality(B) - Cardinality(A \cap B)
    BY <2>3, <2>5, FS_Union
  <2>7. Cardinality(A \cap B) = 0
    BY <2>2, FS_EmptySet
  <2> QED
    BY <1>1, <1>6, <2>1, <2>3, <2>5, <2>6, <2>7, ProdNat
<1> QED
  BY <1>1, <1>5, <1>6 DEF PcTypes
================================================================================
