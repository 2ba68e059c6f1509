------------------------- MODULE RepairPlanningProofs -------------------------
(***************************************************************************)
(* Proofs about the planner, for every code, placement, loss and options:   *)
(* it restores every lost block in exactly one plan, its plans name blocks  *)
(* of the stripe and read none that is lost in their turn, its passes end,  *)
(* no count of a group is wrong where it indexes with it, and no two        *)
(* restored blocks get one node.                                            *)
(*                                                                         *)
(* The invariant PlannerInv has a part for the clusters (ClusterInv), the   *)
(* plans and what is left to restore (PlanInv), the counts per group        *)
(* (CountInv), what the plans read (HelpInv), the nodes (NodesInv), where   *)
(* the planner goes wild (WildInv), options and passes (ShapeInv), and      *)
(* Reed-Solomon (RsInv).                                                    *)
(***************************************************************************)
EXTENDS RepairPlanning, CodeLemmas, WellFoundedInduction

----------------------------------------------------------------------------
(* The blocks of a local code are natural numbers, and finitely many.       *)

LEMMA LrcBlocksAreNat ==
  ASSUME NEW c \in Codes, c.type \in LrcTypes
  PROVE  Blocks(c) \subseteq Nat /\ IsFiniteSet(Blocks(c)) /\ BlocksOf(c) = Blocks(c)
<1>1. c.k \in Nat /\ c.l \in Nat /\ c.g \in Nat
  BY CodesAssumption
<1>2. /\ IsFiniteSet(0 .. c.k - 1)
      /\ IsFiniteSet(c.k .. c.k + c.g - 1)
      /\ IsFiniteSet(c.k + c.g .. c.k + c.g + c.l - 1)
  <2>1. /\ 0 \in Int /\ c.k - 1 \in Int /\ c.k \in Int /\ c.k + c.g - 1 \in Int
        /\ c.k + c.g \in Int /\ c.k + c.g + c.l - 1 \in Int
    BY <1>1
  <2> QED
    BY ONLY <2>1, FS_Interval, Zenon
<1>3. IsFiniteSet(Blocks(c))
  BY <1>2, FS_Union DEF Blocks, Data, Globals, Locals
<1>4. Blocks(c) \subseteq Nat
  BY <1>1 DEF Blocks, Data, Globals, Locals
<1>5. BlocksOf(c) = Blocks(c)
  BY DEF BlocksOf, IsPc, LrcTypes, PcTypes
<1> QED
  BY <1>3, <1>4, <1>5

\* What LeastOf names is in the set: a set of numbers has a least one.  The segments
\* 0 .. x of its members have a minimal one among them, as finite sets do.
LEMMA LeastOfIsMember ==
  ASSUME NEW S, S \subseteq Nat, S # {}
  PROVE  LeastOf(S) \in S
<1> DEFINE T == {0 .. x : x \in S}
<1>1. T \subseteq FiniteSubsetsOf(Nat)
  <2> SUFFICES ASSUME NEW x \in S
               PROVE  0 .. x \in FiniteSubsetsOf(Nat)
    OBVIOUS
  <2>1. x \in Nat /\ x \in Int /\ 0 \in Int
    OBVIOUS
  <2>2. IsFiniteSet(0 .. x)
    BY ONLY <2>1, FS_Interval, Zenon
  <2>3. 0 .. x \subseteq Nat
    BY <2>1
  <2> QED
    BY <2>2, <2>3 DEF FiniteSubsetsOf
<1>2. T # {}
  OBVIOUS
<1>3. IsWellFoundedOn(StrictSubsetOrdering(Nat), FiniteSubsetsOf(Nat))
  BY FS_StrictSubsetOrderingWellFounded
<1> HIDE DEF T
<1>4. PICK m \in T : \A y \in T : ~ (<<y, m>> \in StrictSubsetOrdering(Nat))
  BY ONLY <1>1, <1>2, <1>3, WFMin, Zenon
<1>5. PICK x \in S : m = 0 .. x
  BY DEF T
<1>6. \A y \in S : x <= y
  <2> SUFFICES ASSUME NEW y \in S, y < x
               PROVE  FALSE
    BY <1>5
  <2>1. 0 .. y \in T
    BY DEF T
  <2>2. /\ 0 .. y \subseteq 0 .. x /\ x \in 0 .. x /\ x \notin 0 .. y
        /\ 0 .. y \in SUBSET Nat /\ 0 .. x \in SUBSET Nat
    OBVIOUS
  <2>3. <<0 .. y, m>> \in StrictSubsetOrdering(Nat)
    BY <1>5, <2>2 DEF StrictSubsetOrdering
  <2> QED
    BY <1>4, <2>1, <2>3
<1> QED
  BY <1>6 DEF LeastOf

----------------------------------------------------------------------------
(* Where a stripe is placed.                                                *)

\* What is placed are finitely many numbers.
LEMMA UnitsAreNumbers ==
  ASSUME NEW c \in Codes
  PROVE  IsFiniteSet(Units(c)) /\ Units(c) \subseteq Nat
<1>1. CASE c.type = "RS"
  <2>0. c.k \in Nat /\ c.m \in Nat
    BY <1>1, CodesAssumption
  <2>1. PICK n \in Nat : n = c.k + c.m
    BY <2>0
  <2>2. Units(c) = 0 .. n - 1
    <3>1. Units(c) = 0 .. c.k + c.m - 1
      BY <1>1 DEF Units, BlocksOf, RsBlocks, IsPc, PcTypes
    <3> QED
      BY <2>0, <2>1, <3>1
  <2> QED
    BY <2>2, Intervals
<1>2. CASE c.type \in PcTypes
  <2>0. c.k1 \in Nat /\ c.m1 \in Nat
    BY <1>2, CodesAssumption
  <2>1. PICK n \in Nat : n = c.k1 + c.m1
    BY <2>0
  <2>2. Units(c) = 0 .. n - 1
    <3>1. Units(c) = 0 .. c.k1 + c.m1 - 1
      BY <1>2 DEF Units, Columns, IsPc
    <3> QED
      BY <2>0, <2>1, <3>1
  <2> QED
    BY <2>2, Intervals
<1>3. CASE c.type \in LrcTypes
  <2>1. Units(c) = Blocks(c)
    BY <1>3, LrcBlocksAreNat DEF Units, IsPc, PcTypes, LrcTypes
  <2> QED
    BY <1>3, <2>1, LrcBlocksAreNat
<1> QED
  BY <1>1, <1>2, <1>3, CodesAssumption

\* Consecutive pieces of the units leave none out.
LEMMA PiecesOfUnits ==
  ASSUME NEW c \in Codes, NEW n \in Nat \ {0}
  PROVE  Spreads(Pieces(Ordered(Units(c)), n), Units(c))
<1>1. PICK U : U = Units(c)
  OBVIOUS
<1>2. IsFiniteSet(U) /\ U \subseteq Int
  BY <1>1, UnitsAreNumbers
<1>3. PICK s : s = Ordered(U)
  OBVIOUS
<1>4. s \in Seq(U) /\ ToSet(s) = U /\ \A i, j \in DOMAIN s : s[i] = s[j] => i = j
  BY <1>2, <1>3, OrderedSeq, OrderedAll
<1>5. Spreads(Pieces(s, n), U)
  BY <1>4, PiecesSpread
<1> QED
  BY <1>1, <1>3, <1>5

\* The clusters read back are those that were placed.
LEMMA FoundAgain ==
  ASSUME NEW c \in Codes, Spreads(clusters, Units(c)), NEW cl \in FoundOrders(c)
  PROVE  Spreads(cl, Units(c))
<1>1. CASE IsPc(c)
  BY <1>1 DEF FoundOrders
<1>2. CASE ~IsPc(c)
  <2> DEFINE U == Units(c)
             found == Found(clusters)
             R == {p \in found \X found : p[1][1] < p[2][1]}
             At(n) == CHOOSE x \in found : Cardinality({y \in found : y[1] < x[1]}) = n - 1
             first == InOrder(found, LAMBDA s, t : s[1] < t[1])
  <2>1. IsFiniteSet(U) /\ U \subseteq Int
    BY UnitsAreNumbers
  <2>18. Spreads(clusters, U)
    OBVIOUS
  <2>19. found = {Ordered(ToSet(clusters[i])) : i \in DOMAIN clusters}
    BY DEF Found
  <2> HIDE DEF found
  <2> HIDE DEF U
  <2>2. /\ Len(clusters) \in Nat /\ DOMAIN clusters = 1 .. Len(clusters)
        /\ \A i \in DOMAIN clusters : ToSet(clusters[i]) \subseteq U /\ ToSet(clusters[i]) # {}
    BY ClusterParts DEF U
  <2>3. IsFiniteSet(found)
    <3>1. IsFiniteSet(DOMAIN clusters)
      <4>1. 1 \in Int /\ Len(clusters) \in Int
        BY <2>2
      <4>2. IsFiniteSet(1 .. Len(clusters))
        BY ONLY <4>1, FS_Interval, Zenon
      <4> QED
        BY <2>2, <4>2
    <3> DEFINE g == [i \in DOMAIN clusters |-> Ordered(ToSet(clusters[i]))]
    <3>2. g \in Surjection(DOMAIN clusters, found)
      BY <2>19 DEF Surjection
    <3> QED
      BY <3>1, <3>2, FS_Surjection
  <2>4. \A s \in found : \E i \in DOMAIN clusters :
          s = Ordered(ToSet(clusters[i])) /\ s[1] \in ToSet(clusters[i]) /\ s[1] \in Int
    <3> SUFFICES ASSUME NEW i \in DOMAIN clusters
                 PROVE  Ordered(ToSet(clusters[i]))[1] \in ToSet(clusters[i]) \cap Int
      BY <2>19
    <3>1. PICK S : S = ToSet(clusters[i])
      OBVIOUS
    <3>2. IsFiniteSet(S) /\ S \subseteq Int /\ S # {}
      BY <3>1, <2>1, <2>2, FS_Subset
    <3>3. PICK s : s = Ordered(S)
      OBVIOUS
    <3>4. s \in Seq(S) /\ ToSet(s) = S
      BY <3>2, <3>3, OrderedSeq, OrderedAll
    <3>5. DOMAIN s = 1 .. Len(s) /\ Len(s) \in Nat /\ \E n \in DOMAIN s : TRUE
      BY <3>2, <3>4, LenProperties DEF ToSet
    <3>6. 1 \in DOMAIN s
      BY <3>5
    <3>7. s[1] \in S
      BY <3>4, <3>6 DEF ToSet
    <3> QED
      BY <3>1, <3>2, <3>3, <3>7
  <2>5. \A s, t \in found : s = t \/ s[1] # t[1]
    <3> SUFFICES ASSUME NEW s \in found, NEW t \in found, s # t, s[1] = t[1]
                 PROVE  FALSE
      OBVIOUS
    <3>1. PICK i \in DOMAIN clusters :
            s = Ordered(ToSet(clusters[i])) /\ s[1] \in ToSet(clusters[i])
      BY <2>4
    <3>2. PICK j \in DOMAIN clusters :
            t = Ordered(ToSet(clusters[j])) /\ t[1] \in ToSet(clusters[j])
      BY <2>4
    <3>3. i # j
      BY <3>1, <3>2
    <3> QED
      BY <3>1, <3>2, <3>3 DEF Spreads
  <2>6. \A s \in found : s[1] \in Int
    BY <2>4
  <2>7. Orders(R, found)
    BY <2>5, <2>6 DEF Orders
  <2>8. \A x \in found : Before(R, found, x) = {y \in found : y[1] < x[1]}
    BY DEF Before
  <2> HIDE DEF R
  <2>9. ASSUME NEW n \in 1 .. Cardinality(found)
        PROVE  At(n) \in found /\ Cardinality({y \in found : y[1] < At(n)[1]}) = n - 1
    <3>1. PICK x \in found : Cardinality(Before(R, found, x)) = n - 1
      BY <2>3, <2>7, Ranking
    <3>2. Cardinality({y \in found : y[1] < x[1]}) = n - 1
      BY <3>1, <2>8
    <3> QED
      BY <3>2
  <2>10. first = [n \in 1 .. Cardinality(found) |-> At(n)]
    BY DEF InOrder
  <2> HIDE DEF At, first
  <2>11. PICK N \in Nat : N = Cardinality(found)
    BY <2>3, FS_CardinalityType
  <2>12. first \in [1 .. N -> found] /\ \A n \in 1 .. N : first[n] = At(n)
    BY <2>9, <2>10, <2>11
  <2>13. \A n, h \in 1 .. N : first[n] = first[h] => n = h
    <3> SUFFICES ASSUME NEW n \in 1 .. N, NEW h \in 1 .. N, At(n) = At(h)
                 PROVE  n = h
      BY <2>12
    <3>1. n - 1 = h - 1
      BY <2>9, <2>11
    <3> QED
      BY <3>1
  <2>14. \A s \in found : \E n \in 1 .. N : first[n] = s
    <3>1. first \in Injection(1 .. N, found)
      BY <2>12, <2>13 DEF Injection, IsInjective
    <3>2. Cardinality(1 .. N) = N
      <4>1. 1 \in Int /\ N \in Int
        OBVIOUS
      <4>2. Cardinality(1 .. N) = IF 1 > N THEN 0 ELSE N - 1 + 1
        BY ONLY <4>1, FS_Interval, Zenon
      <4> QED
        BY <4>2
    <3>3. first \in Surjection(1 .. N, found)
      BY <2>3, <2>11, <3>1, <3>2, FS_Injection
    <3> QED
      BY <3>3 DEF Surjection
  <2>15. Spreads(first, U)
    <3>1. ListsOut(first, found)
      BY <2>12, <2>13, <2>14 DEF ListsOut
    <3> QED
      BY <3>1, <2>1, <2>18, FoundSpreads DEF found
  <2>16. Spreads(Reverse(first), U)
    <3>1. Len(first) = N
      BY <2>12
    <3>2. PICK f : f = [n \in 1 .. N |-> first[N - n + 1]]
      OBVIOUS
    <3>3. Reverse(first) = f
      BY <3>1, <3>2 DEF Reverse
    <3>4. \A n \in 1 .. N : N - n + 1 \in 1 .. N /\ f[n] = first[N - n + 1]
      BY <3>2
    <3>5. f \in [1 .. N -> found]
      BY <3>2, <3>4, <2>12
    <3>6. \A n, h \in 1 .. N : f[n] = f[h] => n = h
      <4> SUFFICES ASSUME NEW n \in 1 .. N, NEW h \in 1 .. N, f[n] = f[h]
                   PROVE  n = h
        OBVIOUS
      <4>1. N - n + 1 = N - h + 1
        BY <2>13, <3>4
      <4> QED
        BY <4>1
    <3>7. \A s \in found : \E n \in 1 .. N : f[n] = s
      <4> SUFFICES ASSUME NEW s \in found PROVE \E n \in 1 .. N : f[n] = s
        OBVIOUS
      <4>1. PICK n \in 1 .. N : first[n] = s
        BY <2>14
      <4>2. N - n + 1 \in 1 .. N /\ N - (N - n + 1) + 1 = n
        OBVIOUS
      <4> QED
        BY <4>1, <4>2, <3>4
    <3> QED
      <4>1. ListsOut(f, found)
        BY <3>5, <3>6, <3>7 DEF ListsOut
      <4> QED
        BY <3>3, <4>1, <2>1, <2>18, FoundSpreads DEF found
  <2>17. cl \in {first, Reverse(first)}
    BY <1>2 DEF FoundOrders, first, found, Found
  <2> QED
    BY <2>15, <2>16, <2>17 DEF U
<1> QED
  BY <1>1, <1>2

----------------------------------------------------------------------------
(* The inductive invariant.                                                 *)

\* failed_map and the plans split what is lost.
Split ==
  /\ todo \subseteq lost
  /\ plans \in Seq(ToSet(plans))
  /\ \A n \in DOMAIN plans : plans[n].fail \subseteq lost \ todo
  /\ \A n, i \in DOMAIN plans : n # i => plans[n].fail \cap plans[i].fail = {}
  /\ lost \ todo \subseteq UNION {plans[n].fail : n \in DOMAIN plans}

\* Which of the two is empty, and when.
Progress ==
  /\ step \in {"place", "placed"} => plans = <<>> /\ lost = {}
  /\ step = "plan" /\ ~IsPc(code) => todo = lost
  /\ step \in {"groups", "data", "rest"} => IsLrc(code)
  /\ step \in {"concrete", "done"} => todo = {}

\* The code is one of those given, and its blocks are lost.
OfTheCode == code \in Codes /\ lost \subseteq BlocksOf(code)

\* The plans made so far and what is left to restore.
PlanInv == OfTheCode /\ Split /\ Progress

\* Nothing is lost and nothing planned at first.
LEMMA PlanInit == Init => PlanInv
  BY DEF Init, PlanInv, OfTheCode, Split, Progress, ToSet

\* Any plan for blocks that no plan restores yet keeps the split.
LEMMA EmitSplits ==
  ASSUME Split, NEW fail, fail \subseteq todo, NEW answer, NEW local,
         Emit(fail, answer, local), lost' = lost
  PROVE  Split' /\ todo' = todo \ fail
<1> DEFINE p == [fail |-> fail, par |-> answer.par, help |-> answer.help, local |-> local]
           R == ToSet(plans) \cup {p}
<1>1. plans' = Append(plans, p) /\ todo' = todo \ fail
  BY DEF Emit
<1>2. plans \in Seq(R) /\ p \in R
  BY DEF Split
<1> HIDE DEF p, R
<1>3. /\ plans' \in Seq(R)
      /\ DOMAIN plans = 1 .. Len(plans) /\ Len(plans) \in Nat
      /\ DOMAIN plans' = 1 .. Len(plans) + 1
      /\ \A n \in 1 .. Len(plans) : plans'[n] = plans[n]
      /\ plans'[Len(plans) + 1] = p
  BY <1>1, <1>2
<1>4. plans' \in Seq(ToSet(plans'))
  BY <1>3 DEF ToSet
<1>5. p.fail = fail
  BY DEF p
<1>6. \A n \in DOMAIN plans' : plans'[n].fail \subseteq lost' \ todo'
  BY <1>1, <1>3, <1>5 DEF Split
<1>7. \A n, i \in DOMAIN plans' : n # i => plans'[n].fail \cap plans'[i].fail = {}
  <2> SUFFICES ASSUME NEW n \in DOMAIN plans', NEW i \in DOMAIN plans', n # i
               PROVE  plans'[n].fail \cap plans'[i].fail = {}
    OBVIOUS
  <2>1. CASE n \in DOMAIN plans /\ i \in DOMAIN plans
    BY <2>1, <1>3 DEF Split
  <2>2. CASE n \in DOMAIN plans /\ i = Len(plans) + 1
    BY <2>2, <1>3, <1>5 DEF Split
  <2>3. CASE i \in DOMAIN plans /\ n = Len(plans) + 1
    BY <2>3, <1>3, <1>5 DEF Split
  <2> QED
    BY <2>1, <2>2, <2>3, <1>3
<1>8. lost' \ todo' \subseteq UNION {plans'[n].fail : n \in DOMAIN plans'}
  <2> SUFFICES ASSUME NEW b \in lost', b \notin todo'
               PROVE  \E n \in DOMAIN plans' : b \in plans'[n].fail
    OBVIOUS
  <2>1. CASE b \in fail
    BY <2>1, <1>3, <1>5
  <2>2. CASE b \notin fail
    <3>1. b \in lost \ todo
      BY <2>2, <1>1
    <3>2. PICK n \in DOMAIN plans : b \in plans[n].fail
      BY <3>1 DEF Split
    <3> QED
      BY <3>2, <1>3
  <2> QED
    BY <2>1, <2>2
<1> QED
  BY <1>1, <1>4, <1>6, <1>7, <1>8 DEF Split

\* What no plan restores is lost, so it is of the code.
LEMMA TodoInCode ==
  ASSUME OfTheCode, Split, IsLrc(code)
  PROVE  /\ todo \subseteq Nat
         /\ Cardinality(lost) = 1 => LeastOf(lost) \in lost /\ lost = {LeastOf(lost)}
<1>1. lost \subseteq Nat /\ IsFiniteSet(lost)
  <2>1. /\ Blocks(code) \subseteq Nat /\ IsFiniteSet(Blocks(code))
        /\ lost \subseteq Blocks(code)
    BY LrcBlocksAreNat DEF OfTheCode, IsLrc
  <2> QED
    BY <2>1, FS_Subset
<1>2. ASSUME Cardinality(lost) = 1
      PROVE  LeastOf(lost) \in lost /\ lost = {LeastOf(lost)}
  <2>1. PICK x : lost = {x}
    BY <1>1, <1>2, FS_Singleton
  <2>2. LeastOf(lost) \in lost
    BY <1>1, <2>1, LeastOfIsMember
  <2> QED
    BY <2>1, <2>2
<1> QED
  BY <1>1, <1>2 DEF Split

\* Steps that make no plan.
LEMMA SplitStays ==
  ASSUME Split, UNCHANGED <<lost, todo, plans>>
  PROVE  Split'
BY DEF Split

\* The step after a plan.
LEMMA AfterPlansIs == AfterPlans \in {"concrete", "done"}
  BY DEF AfterPlans

USE DEF stripe, planning, nodes, placing

\* Every step restores in a new plan only blocks that no plan restores yet.
LEMMA PlanStep ==
  ASSUME PlanInv, Next
  PROVE  PlanInv'
<1> USE DEF PlanInv
<1>1. CASE PlaceFlat \/ PlaceOptimal \/ PlaceRandom \/ SqueezeLast \/ EndRandom
  <2>1. /\ UNCHANGED <<code, lost, todo, plans>>
        /\ step \in {"place", "placed"} /\ step' \in {"place", "placed"}
    BY <1>1 DEF PlaceFlat, PlaceOptimal, PlaceRandom, SqueezeLast, EndRandom
  <2>2. Split'
    BY <2>1, SplitStays
  <2> QED
    BY <2>1, <2>2 DEF OfTheCode, Progress
<1>2. CASE Lose
  <2>1. /\ plans = <<>> /\ plans' = plans /\ code' = code
        /\ lost' \subseteq BlocksOf(code) /\ todo' = lost' /\ step' = "plan"
    BY <1>2 DEF Lose, Progress
  <2> QED
    BY <2>1 DEF OfTheCode, Split, Progress, ToSet, IsPc, BlocksOf
<1>3. CASE PlanRs
  <2>1. code.type = "RS" /\ todo = lost /\ UNCHANGED <<code, lost>>
    BY <1>3 DEF PlanRs, Progress, IsPc, PcTypes
  <2>2. PICK answer : Emit(lost, answer, FALSE)
    BY <1>3 DEF PlanRs
  <2>3. Split' /\ todo' = {}
    BY <2>1, <2>2, EmitSplits
  <2>4. step' \in {"concrete", "done"}
    BY <1>3, AfterPlansIs DEF PlanRs
  <2> QED
    BY <2>1, <2>3, <2>4 DEF OfTheCode, Progress, BlocksOf, IsPc, IsLrc
<1>4. CASE RepairColumn
  <2>1. UNCHANGED <<code, lost>> /\ IsPc(code)
    BY <1>4 DEF RepairColumn
  <2>2. PICK col, answer : Emit(LostInCol(code, todo, col), answer, TRUE)
    BY <1>4 DEF RepairColumn
  <2>3. LostInCol(code, todo, col) \subseteq todo
    BY DEF LostInCol
  <2>4. Split'
    BY <2>1, <2>2, <2>3, EmitSplits
  <2>5. step' = "plan" \/ (step' = "done" /\ todo' = {})
    BY <1>4 DEF RepairColumn, AfterPcPlan
  <2> QED
    BY <2>1, <2>4, <2>5 DEF OfTheCode, Progress, BlocksOf, IsPc, IsLrc
<1>5. CASE RepairRow
  <2>1. UNCHANGED <<code, lost>> /\ IsPc(code)
    BY <1>5 DEF RepairRow
  <2>2. PICK row, answer : Emit(LostInRow(code, todo, row), answer, FALSE)
    BY <1>5 DEF RepairRow
  <2>3. LostInRow(code, todo, row) \subseteq todo
    BY DEF LostInRow
  <2>4. Split'
    BY <2>1, <2>2, <2>3, EmitSplits
  <2>5. step' = "plan" \/ (step' = "done" /\ todo' = {})
    BY <1>5 DEF RepairRow, AfterPcPlan
  <2> QED
    BY <2>1, <2>4, <2>5 DEF OfTheCode, Progress, BlocksOf, IsPc, IsLrc
<1>6. CASE RefusePc \/ RefuseLrc \/ StartMulti \/ EndGroups \/ GroupsAgain \/ Stop
  <2>1. UNCHANGED <<code, lost, todo, plans>>
    BY <1>6 DEF RefusePc, RefuseLrc, StartMulti, EndGroups, GroupsAgain, Stop, vars
  <2>2. Split'
    BY <2>1, SplitStays
  <2>3. \/ step' = "refused"
        \/ step' \in {"groups", "data", "rest"} /\ IsLrc(code)
        \/ step' = step
        \/ step' \in {"concrete", "done"} /\ todo = {}
    BY <1>6, AfterPlansIs
       DEF RefusePc, RefuseLrc, Refuse, StartMulti, EndGroups, GroupsAgain, Stop, vars,
           Progress
  <2> QED
    BY <2>1, <2>2, <2>3 DEF OfTheCode, Progress, BlocksOf, IsPc, IsLrc
<1>7. CASE PlanSingle \/ PlanSingleOptCau
  <2>1. /\ UNCHANGED <<code, lost>> /\ IsLrc(code) /\ ~IsPc(code)
        /\ todo = lost /\ Cardinality(lost) = 1
    BY <1>7 DEF PlanSingle, PlanSingleOptCau, Progress, IsLrc, IsOptCau, IsPc, LrcTypes, PcTypes
  <2>2. PICK answer, local : Emit({LeastOf(lost)}, answer, local)
    BY <1>7 DEF PlanSingle, PlanSingleOptCau
  <2>3. lost = {LeastOf(lost)}
    BY <2>1, TodoInCode
  <2>4. Split' /\ todo' = {}
    BY <2>1, <2>2, <2>3, EmitSplits
  <2>5. step' \in {"concrete", "done"}
    BY <1>7, AfterPlansIs DEF PlanSingle, PlanSingleOptCau
  <2> QED
    BY <2>1, <2>4, <2>5 DEF OfTheCode, Progress, BlocksOf, IsPc, IsLrc
<1>8. CASE RepairGlobalInGroup
  <2>1. /\ UNCHANGED <<code, lost>> /\ IsLrc(code) /\ step = "groups" /\ step' = step
        /\ LostGlobalLeft # {} /\ LostGlobalLeft \subseteq todo
    BY <1>8 DEF RepairGlobalInGroup, IsOptCau, IsLrc, LrcTypes, LostGlobalLeft
  <2>2. PICK answer : Emit({LeastOf(LostGlobalLeft)}, answer, TRUE)
    BY <1>8 DEF RepairGlobalInGroup
  <2>3. LostGlobalLeft \subseteq Nat
    BY <2>1, TodoInCode
  <2>4. LeastOf(LostGlobalLeft) \in todo
    BY <2>1, <2>3, LeastOfIsMember
  <2>5. Split'
    BY <2>1, <2>2, <2>4, EmitSplits
  <2> QED
    BY <2>1, <2>5 DEF OfTheCode, Progress, BlocksOf, IsPc, IsLrc
<1>9. CASE RepairGroup
  <2>1. UNCHANGED <<code, lost>> /\ step = "groups" /\ step' \in {"groups", "wild"}
    BY <1>9 DEF RepairGroup
  <2> DEFINE S == InGroup(todo, LeastOf(OneLost))
  <2>2. S \subseteq todo
    BY DEF InGroup
  <2>3. CASE S = {}
    <3>1. UNCHANGED <<todo, plans>>
      BY <1>9, <2>3 DEF RepairGroup
    <3> QED
      BY <2>1, <3>1, SplitStays DEF OfTheCode, Progress, BlocksOf, IsPc, IsLrc
  <2>4. CASE S # {}
    <3>1. PICK answer : Emit({LeastOf(S)}, answer, TRUE)
      BY <1>9, <2>4 DEF RepairGroup
    <3>2. S \subseteq Nat
      BY <2>2, <2>1, TodoInCode DEF Progress
    <3>3. LeastOf(S) \in todo
      BY <2>2, <2>4, <3>2, LeastOfIsMember
    <3>4. Split'
      BY <2>1, <3>1, <3>3, EmitSplits
    <3> QED
      BY <2>1, <3>4 DEF OfTheCode, Progress, BlocksOf, IsPc, IsLrc
  <2> QED
    BY <2>3, <2>4
<1>10. CASE RepairRest
  <2>1. UNCHANGED <<code, lost>> /\ step = "rest"
    BY <1>10 DEF RepairRest
  <2>2. CASE RestAnswer.help = {}
    <3>1. UNCHANGED <<todo, plans>> /\ step' = "refused"
      BY <1>10, <2>2 DEF RepairRest, Refuse
    <3> QED
      BY <2>1, <3>1, SplitStays DEF OfTheCode, Progress, BlocksOf, IsPc, IsLrc
  <2>3. CASE RestAnswer.help # {}
    <3>1. Emit(todo, RestAnswer, FALSE) /\ step' = AfterPlans
      BY <1>10, <2>3 DEF RepairRest
    <3>2. Split' /\ todo' = {}
      BY <2>1, <3>1, EmitSplits
    <3> QED
      BY <2>1, <3>1, <3>2, AfterPlansIs DEF OfTheCode, Progress, BlocksOf, IsPc, IsLrc
  <2> QED
    BY <2>2, <2>3
<1>11. CASE RepairData
  <2>1. UNCHANGED <<code, lost>> /\ step = "data"
    BY <1>11 DEF RepairData
  <2> DEFINE fail   == todo \cap Data(code)
             answer == DataAnswer(code, todo, options.globalFirst)
  <2>2. CASE answer.help = {}
    <3>1. UNCHANGED <<todo, plans>> /\ step' = "refused"
      BY <1>11, <2>2 DEF RepairData, Refuse
    <3> QED
      BY <2>1, <3>1, SplitStays DEF OfTheCode, Progress, BlocksOf, IsPc, IsLrc
  <2>3. CASE answer.help # {}
    <3>1. /\ Emit(fail, answer, FALSE)
          /\ step' = IF todo' = {} THEN AfterPlans ELSE "data"
      BY <1>11, <2>3 DEF RepairData
    <3>2. Split'
      BY <2>1, <3>1, EmitSplits
    <3> QED
      BY <2>1, <3>1, <3>2, AfterPlansIs DEF OfTheCode, Progress, BlocksOf, IsPc, IsLrc
  <2> QED
    BY <2>2, <2>3
<1>12. CASE RepairGlobals
  <2>1. /\ UNCHANGED <<code, lost>> /\ step = "data"
        /\ step' \in {"refused", "groups"} \/ (todo' = {} /\ step' = AfterPlans)
    BY <1>12 DEF RepairGlobals
  <2>2. PICK answer : Emit(todo \cap Globals(code), answer, FALSE)
    BY <1>12 DEF RepairGlobals
  <2>3. Split'
    BY <2>1, <2>2, EmitSplits
  <2> QED
    BY <2>1, <2>3, AfterPlansIs DEF OfTheCode, Progress, BlocksOf, IsPc, IsLrc
<1>13. CASE Concretise
  <2>1. /\ UNCHANGED <<code, lost, todo, plans>> /\ step = "concrete"
        /\ step' \in {"concrete", "done", "wild"}
    BY <1>13 DEF Concretise
  <2>2. Split'
    BY <2>1, SplitStays
  <2> QED
    BY <2>1, <2>2 DEF OfTheCode, Progress, BlocksOf, IsPc, IsLrc
<1> QED
  BY <1>1, <1>2, <1>3, <1>4, <1>5, <1>6, <1>7, <1>8, <1>9, <1>10, <1>11, <1>12, <1>13
     DEF Next

\* The lost blocks are split between the plans and what is left, in every state.
LEMMA PlanInvariant == Spec => []PlanInv
<1>1. Init => PlanInv
  BY PlanInit
<1>2. PlanInv /\ [Next]_vars => PlanInv'
  <2>1. ASSUME PlanInv, UNCHANGED vars PROVE PlanInv'
    BY <2>1, SplitStays DEF PlanInv, vars, OfTheCode, Progress, BlocksOf, IsPc
  <2> QED
    BY <2>1, PlanStep
<1> QED
  BY <1>1, <1>2, PTL DEF Spec

----------------------------------------------------------------------------
(* Which steps leave the stripe and its nodes alone.                        *)

LEMMA Frame ==
  ASSUME Next
  PROVE  \/ PlaceFlat \/ PlaceOptimal \/ PlaceRandom \/ SqueezeLast \/ EndRandom \/ Lose
         \/ /\ UNCHANGED stripe /\ (UNCHANGED nodes \/ Concretise)
            /\ step \notin {"place", "placed"} /\ step' \notin {"place", "placed"}
         \/ UNCHANGED vars
<1>1. CASE PlanRs \/ RepairColumn \/ RepairRow \/ RefusePc
  BY <1>1, AfterPlansIs DEF PlanRs, RepairColumn, RepairRow, RefusePc, AfterPcPlan, Refuse
<1>2. CASE RefuseLrc \/ PlanSingle \/ PlanSingleOptCau \/ StartMulti
  BY <1>2, AfterPlansIs DEF RefuseLrc, PlanSingle, PlanSingleOptCau, StartMulti, Refuse
<1>3. CASE RepairGlobalInGroup \/ EndGroups \/ GroupsAgain
  BY <1>3, AfterPlansIs DEF RepairGlobalInGroup, EndGroups, GroupsAgain
<1>4. CASE RepairGroup
  <2>1. UNCHANGED <<stripe, nodes>> /\ step = "groups" /\ step' \in {"groups", "wild"}
    BY <1>4 DEF RepairGroup
  <2> QED
    BY <2>1
<1>5. CASE RepairRest
  <2>1. UNCHANGED <<stripe, nodes>> /\ step = "rest" /\ step' \in {"refused", AfterPlans}
    BY <1>5 DEF RepairRest, Refuse
  <2> QED
    BY <2>1, AfterPlansIs
<1>6. CASE RepairData
  <2>1. UNCHANGED <<stripe, nodes>> /\ step = "data" /\ step' \in {"refused", "data", AfterPlans}
    BY <1>6 DEF RepairData, Refuse
  <2> QED
    BY <2>1, AfterPlansIs
<1>7. CASE RepairGlobals
  <2>1. UNCHANGED <<stripe, nodes>> /\ step = "data" /\ step' \in {"refused", "groups", AfterPlans}
    BY <1>7 DEF RepairGlobals
  <2> QED
    BY <2>1, AfterPlansIs
<1>8. CASE Concretise
  <2>1. UNCHANGED stripe /\ step = "concrete" /\ step' \in {"wild", "done", "concrete"}
    BY <1>8 DEF Concretise
  <2> QED
    BY <2>1, <1>8
<1> QED
  BY <1>1, <1>2, <1>3, <1>4, <1>5, <1>6, <1>7, <1>8 DEF Next, Stop

----------------------------------------------------------------------------
(* Every block is in one cluster.                                           *)

ClusterInv ==
  /\ code \in Codes
  /\ IF step = "place" THEN Placed \subseteq Units(code) /\ Spreads(clusters, Placed)
     ELSE Spreads(clusters, Units(code))

\* Nothing is placed at first.
LEMMA ClusterInit == Init => ClusterInv
<1> SUFFICES ASSUME Init PROVE ClusterInv
  OBVIOUS
<1>1. code \in Codes /\ clusters = <<>> /\ step = "place"
  BY DEF Init
<1>2. DOMAIN clusters = {} /\ clusters \in Seq(Seq({}))
  BY <1>1
<1>3. Placed = {}
  BY <1>2 DEF Placed
<1>4. Spreads(clusters, {})
  BY <1>2 DEF Spreads
<1> QED
  BY <1>1, <1>3, <1>4 DEF ClusterInv

\* Every way to place a stripe puts each block in one cluster, once.
LEMMA ClusterStep ==
  ASSUME ClusterInv, Next
  PROVE  ClusterInv'
<1>0. code \in Codes /\ IsFiniteSet(Units(code)) /\ Units(code) \subseteq Nat
  BY UnitsAreNumbers DEF ClusterInv
<1>1. CASE PlaceFlat
  <2>1. code' = code /\ step' = "placed" /\ clusters' = Pieces(Ordered(Units(code)), 1)
    BY <1>1 DEF PlaceFlat
  <2>2. Spreads(Pieces(Ordered(Units(code)), 1), Units(code))
    BY <1>0, PiecesOfUnits
  <2> QED
    BY <2>1, <2>2, <1>0 DEF ClusterInv
<1>2. CASE PlaceOptimal
  <2>1. code' = code /\ step' = "placed"
    BY <1>2 DEF PlaceOptimal
  <2>2. CASE code.type = "RS"
    <3>1. clusters' = Pieces(Ordered(Units(code)), code.m)
      BY <1>2, <2>2 DEF PlaceOptimal, RsPartitionOptimal, Units, BlocksOf, IsPc, PcTypes
    <3>2. code.m \in Nat \ {0}
      BY <1>0, <2>2, CodesAssumption
    <3> QED
      BY <2>1, <3>1, <3>2, <1>0, PiecesOfUnits DEF ClusterInv
  <2>3. CASE code.type \in PcTypes
    <3>1. clusters' = Pieces(Ordered(Units(code)), code.m1)
      BY <1>2, <2>3 DEF PlaceOptimal, PcPartitionOptimal, Units, IsPc, PcTypes
    <3>2. code.m1 \in Nat \ {0}
      BY <1>0, <2>3, CodesAssumption
    <3> QED
      BY <2>1, <3>1, <3>2, <1>0, PiecesOfUnits DEF ClusterInv
  <2>4. CASE code.type \in LrcTypes
    <3>1. clusters' = LrcOptimal(code)
      BY <1>2, <2>4 DEF PlaceOptimal, IsPc, PcTypes, LrcTypes
    <3>2. Spreads(LrcOptimal(code), Blocks(code))
      BY <1>0, <2>4, LayoutsCover
    <3>3. Units(code) = Blocks(code)
      BY <1>0, <2>4, LrcBlocksAreNat DEF Units, IsPc, PcTypes, LrcTypes
    <3> QED
      BY <2>1, <3>1, <3>2, <3>3, <1>0 DEF ClusterInv
  <2> QED
    BY <1>0, <2>2, <2>3, <2>4, CodesAssumption
<1>3. CASE PlaceRandom
  <2>1. code' = code /\ step' = "place" /\ step = "place"
    BY <1>3 DEF PlaceRandom
  <2>2. PICK S \in (SUBSET (Units(code) \ Placed)) \ {{}} : clusters' = Append(clusters, Ordered(S))
    BY <1>3 DEF PlaceRandom
  <2>3. Placed \subseteq Units(code) /\ Spreads(clusters, Placed)
    BY <2>1 DEF ClusterInv
  <2>4. IsFiniteSet(S) /\ S \subseteq Int /\ S # {} /\ S \cap Placed = {}
    <3>1. S \in SUBSET Units(code) /\ S # {} /\ S \cap Placed = {}
      BY <2>2
    <3> QED
      BY <3>1, <1>0, FS_Subset
  <2>5. Spreads(clusters', Placed \cup S)
    BY <2>2, <2>3, <2>4, AppendSpreads
  <2>6. Placed' = Placed \cup S
    BY <2>5 DEF Spreads, Placed
  <2> QED
    BY <2>1, <2>3, <2>5, <2>6, <1>0 DEF ClusterInv, Units
<1>4. CASE SqueezeLast
  <2>1. code' = code /\ step' = "place" /\ step = "place" /\ Placed = Units(code)
    BY <1>4 DEF SqueezeLast
  <2>2. Spreads(clusters, Units(code)) /\ Len(clusters) > 0
    <3>1. Len(clusters) > 5
      BY <1>4 DEF SqueezeLast, RsClusterNum
    <3>2. Spreads(clusters, Units(code))
      BY <2>1 DEF ClusterInv
    <3>3. Len(clusters) \in Nat
      BY <3>2, ClusterParts
    <3> QED
      BY <3>1, <3>2, <3>3
  <2>3. PICK to \in [ToSet(clusters[Len(clusters)]) -> 1 .. Len(clusters) - 1] :
          clusters' = [i \in 1 .. Len(clusters) - 1 |->
                         clusters[i] \o Ordered({b \in DOMAIN to : to[b] = i})]
    BY <1>4 DEF SqueezeLast, Last
  <2>4. Units(code) \subseteq Int
    BY <1>0
  <2>5. Spreads(clusters', Units(code))
    BY <2>2, <2>3, <2>4, <1>0, SqueezeSpreads
  <2>6. Placed' = Units(code)
    BY <2>5 DEF Spreads, Placed
  <2> QED
    BY <2>1, <2>5, <2>6, <1>0 DEF ClusterInv, Units
<1>5. CASE EndRandom
  BY <1>5 DEF EndRandom, ClusterInv, Units
<1>6. CASE Lose
  <2>1. step = "placed" /\ step' = "plan" /\ code' = code /\ clusters' \in FoundOrders(code)
    BY <1>6 DEF Lose
  <2>2. Spreads(clusters, Units(code))
    BY <2>1 DEF ClusterInv
  <2>3. Spreads(clusters', Units(code))
    BY <2>1, <2>2, <1>0, FoundAgain
  <2> QED
    BY <2>1, <2>3, <1>0 DEF ClusterInv, Units
<1>7. CASE /\ UNCHANGED stripe
           /\ step \notin {"place", "placed"} /\ step' \notin {"place", "placed"}
  BY <1>7 DEF ClusterInv, Units
<1>8. CASE UNCHANGED vars
  BY <1>8 DEF ClusterInv, Units, Placed, vars
<1> QED
  BY <1>1, <1>2, <1>3, <1>4, <1>5, <1>6, <1>7, <1>8, Frame

----------------------------------------------------------------------------
(* The counts per group.                                                    *)

\* The blocks of T in group i.
InGid(c, T, i) == {b \in T : bid2gid(c, b) = i}

\* How often a group counts the blocks of T, when they are lost still.
CountedIn(c, T, i) ==
  Cardinality(InGid(c, T, i))
    + IF IsOptCau(c) THEN Cardinality(T \cap Globals(c)) ELSE 0

\* The counts are those of what is lost still.
CountsRight == \A i \in GroupIds(code) : cnt[i] = CountedIn(code, todo, i)

\* The count of a group is right, until the optimal Cauchy code restores several
\* global parity blocks in one plan: from then on no group counts one.
CountInv ==
  /\ step \in {"place", "placed", "plan"} => iter = 0
  /\ step \in {"groups", "data"} =>
       /\ cnt \in [0 .. code.l -> Int]
       /\ iter \in 0 .. MaxIter
       /\ iter > 0 => todo \cap Data(code) = {}
       /\ iter = 2 => todo \cap Globals(code) = {}
       /\ ~IsOptCau(code) \/ iter < 2 => CountsRight
       /\ IsOptCau(code) /\ (iter = 2 \/ (step = "data" /\ iter = 1)) => OneLost = {}

\* The optimal Cauchy code has its global parity blocks in no local group.
LEMMA GlobalsApart ==
  ASSUME NEW c \in Codes, IsOptCau(c), NEW b \in Globals(c), NEW i \in GroupIds(c)
  PROVE  bid2gid(c, b) # i
<1>1. c.k \in Nat /\ c.g \in Nat /\ c.l \in Nat
  BY CodesAssumption DEF IsOptCau, LrcTypes
<1>2. b \notin Data(c)
  BY <1>1 DEF Data, Globals
<1>3. bid2gid(c, b) = c.l
  BY <1>2 DEF bid2gid, OptCauBid2gid, AzuBid2gid, IsOptCau
<1> QED
  BY <1>1, <1>3 DEF GroupIds

\* What is counted once the blocks X of T are restored.
LessBy(c, T, X, i) ==
  /\ Cardinality(InGid(c, T \ X, i)) = Cardinality(InGid(c, T, i)) - Cardinality(InGid(c, X, i))
  /\ Cardinality((T \ X) \cap Globals(c))
       = Cardinality(T \cap Globals(c)) - Cardinality(X \cap Globals(c))
  /\ Cardinality(InGid(c, T, i)) \in Nat /\ Cardinality(InGid(c, X, i)) \in Nat
  /\ Cardinality(T \cap Globals(c)) \in Nat /\ Cardinality(X \cap Globals(c)) \in Nat

\* Restoring blocks lowers the count by those that it counted.
LEMMA CountLess ==
  ASSUME NEW c \in Codes, NEW T, IsFiniteSet(T), NEW X \in SUBSET T, NEW i
  PROVE  LessBy(c, T, X, i)
<1>1. ASSUME NEW A, NEW B, IsFiniteSet(A), B \subseteq A
      PROVE  /\ Cardinality(A \ B) = Cardinality(A) - Cardinality(B)
             /\ Cardinality(A) \in Nat /\ Cardinality(B) \in Nat
  <2>1. IsFiniteSet(B) /\ A \cap B = B
    BY <1>1, FS_Subset
  <2>2. Cardinality(A \ B) = Cardinality(A) - Cardinality(A \cap B)
    BY <1>1, <2>1, FS_Difference
  <2> QED
    BY <1>1, <2>1, <2>2, FS_CardinalityType
<1> DEFINE A1 == InGid(c, T, i)
           B1 == InGid(c, X, i)
<1>2. IsFiniteSet(A1) /\ B1 \subseteq A1 /\ InGid(c, T \ X, i) = A1 \ B1
  BY FS_Subset DEF InGid
<1>3. /\ IsFiniteSet(T \cap Globals(c)) /\ X \cap Globals(c) \subseteq T \cap Globals(c)
      /\ (T \ X) \cap Globals(c) = (T \cap Globals(c)) \ (X \cap Globals(c))
  BY FS_Subset
<1>4. /\ Cardinality(A1 \ B1) = Cardinality(A1) - Cardinality(B1)
      /\ Cardinality(A1) \in Nat /\ Cardinality(B1) \in Nat
  BY <1>1, <1>2
<1>5. /\ Cardinality((T \cap Globals(c)) \ (X \cap Globals(c)))
           = Cardinality(T \cap Globals(c)) - Cardinality(X \cap Globals(c))
      /\ Cardinality(T \cap Globals(c)) \in Nat /\ Cardinality(X \cap Globals(c)) \in Nat
  BY <1>1, <1>3
<1> QED
  BY <1>2, <1>3, <1>4, <1>5 DEF LessBy

\* In the local codes finitely many blocks are lost.
LEMMA LossIsFinite ==
  ASSUME PlanInv, IsLrc(code)
  PROVE  /\ code \in Codes /\ code.k \in Nat /\ code.g \in Nat /\ code.l \in Nat
         /\ IsFiniteSet(todo) /\ todo \subseteq Nat /\ IsFiniteSet(lost)
         /\ lost \subseteq Blocks(code)
<1>1. code \in Codes /\ code.type \in LrcTypes
  BY DEF PlanInv, OfTheCode, IsLrc
<1>2. /\ Blocks(code) \subseteq Nat /\ IsFiniteSet(Blocks(code))
      /\ lost \subseteq Blocks(code) /\ todo \subseteq lost
  BY <1>1, LrcBlocksAreNat DEF PlanInv, OfTheCode, Split
<1> QED
  BY <1>1, <1>2, FS_Subset, CodesAssumption

\* Where the count of a group is right and it counts one, one of its blocks is lost.
LEMMA OneLostIsLost ==
  ASSUME PlanInv, CountInv, step = "groups", NEW i \in OneLost,
         IsOptCau(code) => LostGlobalLeft = {}
  PROVE  /\ ~IsOptCau(code) \/ iter < 2
         /\ Cardinality(InGroup(todo, i)) = 1 /\ InGroup(todo, i) # {}
<1>1. IsLrc(code) /\ i \in GroupIds(code) /\ cnt[i] = 1
  BY DEF PlanInv, Progress, OneLost
<1>2. IsFiniteSet(todo) /\ code \in Codes
  BY <1>1, LossIsFinite
<1>3. ~IsOptCau(code) \/ iter < 2
  BY DEF CountInv, MaxIter
<1>4. CountedIn(code, todo, i) = 1
  BY <1>1, <1>3 DEF CountInv, CountsRight
<1>5. IsFiniteSet(InGroup(todo, i)) /\ Cardinality(InGroup(todo, i)) \in Nat
  BY <1>2, FS_Subset, FS_CardinalityType DEF InGroup
<1>6. Cardinality({}) = 0
  BY FS_EmptySet
<1>7. Cardinality(InGroup(todo, i)) = 1
  <2>1. CASE IsOptCau(code)
    <3>1. todo \cap Globals(code) = {}
      BY <2>1 DEF LostGlobalLeft
    <3>2. Cardinality(InGroup(todo, i)) + 0 = 1
      BY <2>1, <3>1, <1>4, <1>6 DEF CountedIn, InGroup, InGid
    <3> QED
      BY <3>2, <1>5
  <2>2. CASE ~IsOptCau(code)
    <3>2. Cardinality(InGroup(todo, i)) + 0 = 1
      BY <2>2, <1>4 DEF CountedIn, InGroup, InGid
    <3> QED
      BY <3>2, <1>5
  <2> QED
    BY <2>1, <2>2
<1> QED
  BY <1>3, <1>6, <1>7

\* The group that counts one lost block, and that block.
LEMMA TheGroup ==
  ASSUME PlanInv, step = "groups", OneLost # {}
  PROVE  LeastOf(OneLost) \in OneLost /\ LeastOf(OneLost) \in GroupIds(code)
<1>1. IsLrc(code)
  BY DEF PlanInv, Progress
<1>2. OneLost \subseteq Nat
  BY <1>1, LossIsFinite DEF OneLost, GroupIds
<1> QED
  BY <1>2, LeastOfIsMember DEF OneLost

\* Nothing is counted at first.
LEMMA CountInit == Init => CountInv
  BY DEF Init, CountInv

\* Every plan lowers the counts of the groups by the blocks it restores.
LEMMA CountStep ==
  ASSUME PlanInv, CountInv, Next
  PROVE  CountInv'
<1>0. ASSUME step \in {"groups", "data"}
      PROVE  /\ IsLrc(code) /\ code \in Codes /\ code.l \in Nat
             /\ IsFiniteSet(todo) /\ todo \subseteq Nat
             /\ cnt \in [0 .. code.l -> Int] /\ DOMAIN cnt = 0 .. code.l
             /\ GroupIds(code) \subseteq 0 .. code.l /\ iter \in 0 .. MaxIter
             /\ \A i \in GroupIds(code) : cnt[i] \in Int
  <2>1. IsLrc(code)
    BY <1>0 DEF PlanInv, Progress
  <2>2. code \in Codes /\ code.l \in Nat /\ IsFiniteSet(todo) /\ todo \subseteq Nat
    BY <2>1, LossIsFinite
  <2>3. cnt \in [0 .. code.l -> Int] /\ iter \in 0 .. MaxIter
    BY <1>0 DEF CountInv
  <2>4. GroupIds(code) \subseteq 0 .. code.l
    BY <2>2 DEF GroupIds
  <2> QED
    BY <2>1, <2>2, <2>3, <2>4
<1>1. CASE PlaceFlat \/ PlaceOptimal \/ PlaceRandom \/ SqueezeLast \/ EndRandom \/ Lose
  BY <1>1 DEF PlaceFlat, PlaceOptimal, PlaceRandom, SqueezeLast, EndRandom, Lose, CountInv
<1>2. CASE PlanRs \/ RefusePc \/ RefuseLrc \/ PlanSingle \/ PlanSingleOptCau
  BY <1>2, AfterPlansIs
     DEF PlanRs, RefusePc, RefuseLrc, PlanSingle, PlanSingleOptCau, Refuse, CountInv
<1>3. CASE RepairColumn \/ RepairRow
  BY <1>3 DEF RepairColumn, RepairRow, AfterPcPlan, CountInv
<1>4. CASE StartMulti
  <2>1. /\ step = "plan" /\ step' = "groups" /\ cnt' = GroupCounts /\ iter' = 0 /\ IsLrc(code)
        /\ UNCHANGED <<code, lost, todo>> /\ todo = lost
    BY <1>4 DEF StartMulti, CountInv, PlanInv, Progress, IsLrc, IsPc, LrcTypes, PcTypes
  <2>2. code \in Codes /\ code.l \in Nat /\ IsFiniteSet(todo)
    BY <2>1, LossIsFinite
  <2>3. ASSUME NEW i \in 0 .. code.l
        PROVE  /\ Cardinality(InGroup(lost, i)) \in Nat
               /\ Cardinality(lost \cap Globals(code)) \in Nat
    BY <2>1, <2>2, FS_Subset, FS_CardinalityType DEF InGroup
  <2>4. GroupCounts \in [0 .. code.l -> Int]
    <3>1. \A i \in 0 .. code.l : Cardinality(InGroup(lost, i))
            + (IF IsOptCau(code) /\ i < code.l THEN Cardinality(lost \cap Globals(code)) ELSE 0) \in Int
      BY <2>3
    <3> QED
      BY <3>1 DEF GroupCounts
  <2>5. ASSUME NEW i \in GroupIds(code)
        PROVE  GroupCounts[i] = CountedIn(code, todo, i)
    <3>1. i \in 0 .. code.l /\ i < code.l
      BY <2>2 DEF GroupIds
    <3> QED
      BY <2>1, <3>1 DEF GroupCounts, CountedIn, InGroup, InGid
  <2>6. CountsRight'
    BY <2>1, <2>5 DEF CountsRight, GroupIds
  <2> QED
    BY <2>1, <2>4, <2>6 DEF CountInv, MaxIter
<1>5. CASE RepairGlobalInGroup
  <2>1. /\ step = "groups" /\ step' = "groups" /\ iter' = iter /\ code' = code
        /\ IsOptCau(code) /\ LostGlobalLeft # {} /\ OneLost # {}
        /\ cnt' = [i \in DOMAIN cnt |-> cnt[i] - 1]
        /\ todo' = todo \ {LeastOf(LostGlobalLeft)}
    BY <1>5 DEF RepairGlobalInGroup, Emit
  <2>2. /\ code \in Codes /\ IsFiniteSet(todo) /\ todo \subseteq Nat /\ iter \in 0 .. MaxIter
        /\ cnt \in [0 .. code.l -> Int] /\ DOMAIN cnt = 0 .. code.l
        /\ GroupIds(code) \subseteq 0 .. code.l
    BY <2>1, <1>0
  <2>3. PICK f : f = LeastOf(LostGlobalLeft)
    OBVIOUS
  <2>4. f \in todo /\ f \in Globals(code)
    BY <2>1, <2>2, <2>3, LeastOfIsMember DEF LostGlobalLeft
  <2>5. iter < 2
    BY <2>1, <2>2 DEF CountInv, MaxIter
  <2>6. ASSUME NEW i \in GroupIds(code)
        PROVE  cnt'[i] = CountedIn(code, todo', i)
    <3>1. cnt[i] = CountedIn(code, todo, i)
      BY <2>1, <2>5 DEF CountInv, CountsRight
    <3>2. bid2gid(code, f) # i
      BY <2>1, <2>2, <2>4, GlobalsApart
    <3>3. InGid(code, {f}, i) = {} /\ {f} \cap Globals(code) = {f}
      BY <3>2, <2>4 DEF InGid
    <3>4. Cardinality({}) = 0 /\ Cardinality({f}) = 1
      BY FS_EmptySet, FS_Singleton
    <3>5. {f} \in SUBSET todo
      BY <2>4
    <3>6. /\ Cardinality(InGid(code, todo \ {f}, i))
               = Cardinality(InGid(code, todo, i)) - 0
          /\ Cardinality((todo \ {f}) \cap Globals(code)) = Cardinality(todo \cap Globals(code)) - 1
          /\ Cardinality(InGid(code, todo, i)) \in Nat
          /\ Cardinality(todo \cap Globals(code)) \in Nat
      <4>1. LessBy(code, todo, {f}, i)
        BY <2>2, <3>5, CountLess
      <4> QED
        BY <4>1, <3>3, <3>4 DEF LessBy
    <3>7. cnt'[i] = cnt[i] - 1
      BY <2>1, <2>2
    <3> QED
      BY <2>1, <2>3, <3>1, <3>6, <3>7 DEF CountedIn
  <2>7. cnt' \in [0 .. code.l -> Int]
    BY <2>1, <2>2
  <2>8. todo' \subseteq todo
    BY <2>1
  <2>9. CountsRight'
    BY <2>1, <2>6 DEF CountsRight, GroupIds
  <2> QED
    BY <2>1, <2>2, <2>5, <2>7, <2>8, <2>9 DEF CountInv, MaxIter
<1>6. CASE RepairGroup
  <2>1. /\ step = "groups" /\ OneLost # {} /\ UNCHANGED <<code, lost>>
        /\ IsOptCau(code) => LostGlobalLeft = {}
    BY <1>6 DEF RepairGroup
  <2>2. /\ code \in Codes /\ IsFiniteSet(todo) /\ todo \subseteq Nat /\ iter \in 0 .. MaxIter
        /\ cnt \in [0 .. code.l -> Int] /\ DOMAIN cnt = 0 .. code.l
        /\ GroupIds(code) \subseteq 0 .. code.l
    BY <2>1, <1>0
  <2>3. PICK i \in GroupIds(code) : i = LeastOf(OneLost) /\ i \in OneLost
    BY <2>1, TheGroup
  <2>4. /\ ~IsOptCau(code) \/ iter < 2
        /\ Cardinality(InGroup(todo, i)) = 1 /\ InGroup(todo, i) # {}
    BY <2>1, <2>3, OneLostIsLost
  <2>5. PICK f : InGroup(todo, i) = {f}
    <3>1. IsFiniteSet(InGroup(todo, i))
      BY <2>2, FS_Subset DEF InGroup
    <3> QED
      BY <2>4, <3>1, FS_Singleton
  <2>6. f \in todo /\ bid2gid(code, f) = i
    BY <2>5 DEF InGroup
  <2>7. LeastOf(InGroup(todo, i)) = f
    <3>1. InGroup(todo, i) \subseteq Nat
      BY <2>2 DEF InGroup
    <3> QED
      BY <3>1, <2>5, LeastOfIsMember
  <2>8. /\ todo' = todo \ {f} /\ cnt' = [cnt EXCEPT ![i] = 0]
        /\ step' = "groups" /\ iter' = iter
    BY <1>6, <2>1, <2>3, <2>4, <2>7 DEF RepairGroup, Emit
  <2>9. ASSUME NEW j \in GroupIds(code)
        PROVE  cnt'[j] = CountedIn(code, todo', j)
    <3>1. cnt[j] = CountedIn(code, todo, j) /\ cnt[j] \in Int
      BY <2>1, <2>2, <2>4 DEF CountInv, CountsRight
    <3>4. Cardinality({}) = 0 /\ Cardinality({f}) = 1
      BY FS_EmptySet, FS_Singleton
    <3>5. {f} \in SUBSET todo
      BY <2>6
    <3>2. IsOptCau(code) => /\ todo \cap Globals(code) = {} /\ {f} \cap Globals(code) = {}
                            /\ (todo \ {f}) \cap Globals(code) = {}
      BY <2>1, <2>6 DEF LostGlobalLeft
    <3>3. CASE j = i
      <4>1. cnt'[j] = 0
        BY <2>2, <2>8, <3>3
      <4>2. InGid(code, todo \ {f}, j) = {}
        BY <2>5, <3>3 DEF InGroup, InGid
      <4>3. CountedIn(code, todo \ {f}, j) = 0 + 0
        <5>1. CASE IsOptCau(code)
          BY <5>1, <4>2, <3>2, <3>4 DEF CountedIn
        <5>2. CASE ~IsOptCau(code)
          BY <5>2, <4>2, <3>4 DEF CountedIn
        <5> QED
          BY <5>1, <5>2
      <4> QED
        BY <4>1, <4>3, <2>8
    <3>6. CASE j # i
      <4>1. cnt'[j] = cnt[j]
        BY <2>2, <2>8, <3>6
      <4>2. InGid(code, todo \ {f}, j) = InGid(code, todo, j)
        BY <2>6, <3>6 DEF InGid
      <4>3. CountedIn(code, todo \ {f}, j) = CountedIn(code, todo, j)
        BY <4>2, <3>2 DEF CountedIn
      <4> QED
        BY <4>1, <4>3, <3>1, <2>8
    <3> QED
      BY <3>3, <3>6
  <2>10. cnt' \in [0 .. code.l -> Int]
    BY <2>2, <2>8
  <2>11. todo' \subseteq todo
    BY <2>8
  <2>12. CountsRight'
    BY <2>1, <2>9 DEF CountsRight, GroupIds
  <2> QED
    BY <2>1, <2>2, <2>4, <2>8, <2>10, <2>11, <2>12 DEF CountInv, MaxIter
<1>7. CASE EndGroups
  <2>1. /\ step = "groups" /\ step' # "groups" /\ step' \notin {"place", "placed", "plan"}
        /\ OneLost = {} /\ UNCHANGED <<code, todo, cnt, iter>>
    BY <1>7, AfterPlansIs DEF EndGroups
  <2> QED
    BY <2>1 DEF CountInv, OneLost, GroupIds, CountsRight
<1>8. CASE RepairRest
  <2>1. step' \in {"refused", AfterPlans}
    BY <1>8 DEF RepairRest, Refuse
  <2> QED
    BY <2>1, AfterPlansIs DEF CountInv
<1>9. CASE RepairData
  <2> DEFINE fail == todo \cap Data(code)
  <2>1. /\ step = "data" /\ fail # {} /\ UNCHANGED <<code, lost>>
        /\ \/ step' \in {"refused", "concrete", "done"}
           \/ /\ step' = "data" /\ todo' = todo \ fail /\ iter' = iter
              /\ cnt' = Uncount(fail)
    BY <1>9, AfterPlansIs DEF RepairData, Refuse, Emit
  <2>2. CASE step' \in {"refused", "concrete", "done"}
    BY <2>2 DEF CountInv
  <2>3. CASE step' # "refused" /\ step' # "concrete" /\ step' # "done"
    <3>1. step' = "data" /\ todo' = todo \ fail /\ iter' = iter /\ cnt' = Uncount(fail)
      BY <2>1, <2>3
    <3>2. /\ code \in Codes /\ IsFiniteSet(todo) /\ iter \in 0 .. MaxIter
          /\ cnt \in [0 .. code.l -> Int] /\ DOMAIN cnt = 0 .. code.l
          /\ GroupIds(code) \subseteq 0 .. code.l /\ IsLrc(code)
      BY <2>1, <1>0
    <3>3. iter = 0
      BY <2>1, <3>2 DEF CountInv, MaxIter
    <3>4. Data(code) \cap Globals(code) = {}
      <4>1. code.k \in Nat /\ code.g \in Nat
        BY <3>2, LossIsFinite
      <4> QED
        BY <4>1 DEF Data, Globals
    <3>5. fail \in SUBSET todo /\ fail \cap Globals(code) = {}
      BY <3>4
    <3>9. Cardinality({}) = 0
      BY FS_EmptySet
    <3> HIDE DEF fail
    <3>6. ASSUME NEW i \in 0 .. code.l
          PROVE  /\ cnt'[i] = cnt[i] - Cardinality(InGid(code, fail, i))
                 /\ Cardinality(InGid(code, fail, i)) \in Nat
      <4>1. Cardinality(InGid(code, fail, i)) \in Nat
        BY <3>2, <3>5, CountLess DEF LessBy
      <4> QED
        BY <3>1, <3>2, <4>1 DEF Uncount, InGroup, InGid
    <3>7. ASSUME NEW i \in GroupIds(code)
          PROVE  cnt'[i] = CountedIn(code, todo', i)
      <4>1. cnt[i] = CountedIn(code, todo, i) /\ i \in 0 .. code.l
        BY <2>1, <3>2, <3>3 DEF CountInv, CountsRight
      <4>2. LessBy(code, todo, fail, i)
        BY <3>2, <3>5, CountLess
      <4>3. /\ Cardinality(InGid(code, todo \ fail, i))
                 = Cardinality(InGid(code, todo, i)) - Cardinality(InGid(code, fail, i))
            /\ Cardinality((todo \ fail) \cap Globals(code)) = Cardinality(todo \cap Globals(code))
            /\ Cardinality(InGid(code, todo, i)) \in Nat /\ Cardinality(InGid(code, fail, i)) \in Nat
            /\ Cardinality(todo \cap Globals(code)) \in Nat
        <5>1. Cardinality(fail \cap Globals(code)) = 0
          BY <3>5, <3>9
        <5> QED
          BY <4>2, <5>1 DEF LessBy
      <4>4. cnt'[i] = cnt[i] - Cardinality(InGid(code, fail, i))
        BY <4>1, <3>6
      <4>5. CASE IsOptCau(code)
        BY <4>5, <4>1, <4>3, <4>4, <3>1 DEF CountedIn
      <4>6. CASE ~IsOptCau(code)
        BY <4>6, <4>1, <4>3, <4>4, <3>1 DEF CountedIn
      <4> QED
        BY <4>5, <4>6
    <3>8. cnt' \in [0 .. code.l -> Int]
      <4>1. cnt' = [i \in 0 .. code.l |-> cnt[i] - Cardinality(InGroup(fail, i))]
        BY <3>1, <3>2 DEF Uncount
      <4>2. \A i \in 0 .. code.l : cnt[i] - Cardinality(InGroup(fail, i)) \in Int
        BY <3>2, <3>6 DEF InGroup, InGid
      <4> QED
        BY <4>1, <4>2
    <3>10. iter' = 0 /\ iter' \in 0 .. MaxIter
      BY <3>1, <3>2, <3>3
    <3>11. CountsRight'
      BY <2>1, <3>7 DEF CountsRight, GroupIds
    <3> QED
      BY <2>1, <3>1, <3>8, <3>10, <3>11 DEF CountInv
  <2> QED
    BY <2>2, <2>3
<1>10. CASE GroupsAgain
  <2>1. /\ step = "data" /\ iter = 0 /\ iter' = 1 /\ step' = "groups"
        /\ todo \cap Data(code) = {} /\ UNCHANGED <<code, todo, cnt>>
    BY <1>10 DEF GroupsAgain
  <2> QED
    BY <2>1 DEF CountInv, GroupIds, MaxIter, CountsRight
<1>11. CASE RepairGlobals
  <2> DEFINE fail == todo \cap Globals(code)
  <2>1. /\ step = "data" /\ todo \cap Data(code) = {} /\ iter > 0 /\ UNCHANGED <<code, lost>>
        /\ todo' = todo \ fail /\ cnt' = Uncount(fail) /\ iter' = iter + 1
        /\ step' = IF iter' > MaxIter THEN "refused"
                   ELSE IF todo' = {} THEN AfterPlans ELSE "groups"
    BY <1>11 DEF RepairGlobals, Emit
  <2>2. CASE step' # "groups"
    <3>1. step' \in {"refused", "concrete", "done"}
      BY <2>1, <2>2, AfterPlansIs
    <3> QED
      BY <3>1 DEF CountInv
  <2>3. CASE step' = "groups"
    <3>2. /\ code \in Codes /\ IsFiniteSet(todo) /\ iter \in 0 .. MaxIter
          /\ cnt \in [0 .. code.l -> Int] /\ DOMAIN cnt = 0 .. code.l
          /\ GroupIds(code) \subseteq 0 .. code.l /\ IsLrc(code)
      BY <2>1, <1>0
    <3>3. iter = 1 /\ iter' = 2
      BY <2>1, <2>3, <3>2, AfterPlansIs DEF MaxIter
    <3>5. fail \in SUBSET todo /\ fail \subseteq Globals(code)
      OBVIOUS
    <3>9. Cardinality({}) = 0
      BY FS_EmptySet
    <3>1. todo' \subseteq todo
      BY <2>1
    <3>12. (todo \cap Globals(code))' = {}
      BY <2>1 DEF Globals
    <3> HIDE DEF fail
    <3>6. ASSUME NEW i \in 0 .. code.l
          PROVE  /\ cnt'[i] = cnt[i] - Cardinality(InGid(code, fail, i))
                 /\ Cardinality(InGid(code, fail, i)) \in Nat
      <4>1. Cardinality(InGid(code, fail, i)) \in Nat
        BY <3>2, <3>5, CountLess DEF LessBy
      <4> QED
        BY <2>1, <3>2, <4>1 DEF Uncount, InGroup, InGid
    <3>7. ASSUME NEW i \in GroupIds(code), ~IsOptCau(code)
          PROVE  cnt'[i] = CountedIn(code, todo', i)
      <4>1. cnt[i] = CountedIn(code, todo, i) /\ i \in 0 .. code.l
        BY <2>1, <3>2, <3>7 DEF CountInv, CountsRight
      <4>2. LessBy(code, todo, fail, i)
        BY <3>2, <3>5, CountLess
      <4> QED
        BY <4>1, <4>2, <2>1, <3>6, <3>7 DEF CountedIn, LessBy
    <3>8. cnt' \in [0 .. code.l -> Int]
      <4>1. cnt' = [i \in 0 .. code.l |-> cnt[i] - Cardinality(InGroup(fail, i))]
        BY <2>1, <3>2 DEF Uncount
      <4>2. \A i \in 0 .. code.l : cnt[i] - Cardinality(InGroup(fail, i)) \in Int
        BY <3>2, <3>6 DEF InGroup, InGid
      <4> QED
        BY <4>1, <4>2
    <3>10. IsOptCau(code) => OneLost' = {}
      <4> SUFFICES ASSUME IsOptCau(code), NEW i \in GroupIds(code), cnt'[i] = 1
                   PROVE  FALSE
        BY <2>1 DEF OneLost, GroupIds
      <4>1. InGid(code, fail, i) = {}
        BY <3>2, <3>5, GlobalsApart DEF InGid
      <4>2. i \in 0 .. code.l /\ cnt[i] \in Int
        BY <3>2
      <4>3. cnt'[i] = cnt[i] - 0
        BY <4>1, <4>2, <3>6, <3>9
      <4>4. cnt[i] = 1
        BY <4>2, <4>3
      <4> QED
        BY <4>4, <2>1, <3>3 DEF CountInv, OneLost
    <3>11. ~IsOptCau(code) => CountsRight'
      BY <2>1, <3>7 DEF CountsRight, GroupIds
    <3> QED
      BY <2>1, <2>3, <3>1, <3>3, <3>8, <3>10, <3>11, <3>12 DEF CountInv, MaxIter
  <2> QED
    BY <2>2, <2>3
<1>12. CASE Concretise
  BY <1>12 DEF Concretise, CountInv
<1>13. CASE Stop
  BY <1>13 DEF Stop, vars, CountInv, OneLost, GroupIds, CountsRight
<1> QED
  BY <1>1, <1>2, <1>3, <1>4, <1>5, <1>6, <1>7, <1>8, <1>9, <1>10, <1>11, <1>12, <1>13 DEF Next

----------------------------------------------------------------------------
(* Plans read blocks of the stripe: the helpers of LrcPlans.                *)

\* The numbers of a local code, and its three kinds of blocks.
LEMMA LrcNumbers ==
  ASSUME NEW c \in Codes, c.type \in LrcTypes
  PROVE  /\ c.k \in Nat /\ c.g \in Nat /\ c.l \in Nat /\ c.l > 0
         /\ Data(c) \subseteq Blocks(c) /\ Globals(c) \subseteq Blocks(c)
         /\ Locals(c) \subseteq Blocks(c)
         /\ IsFiniteSet(Data(c)) /\ IsFiniteSet(Globals(c)) /\ IsFiniteSet(Locals(c))
         /\ Data(c) \subseteq Int /\ Globals(c) \subseteq Int /\ Locals(c) \subseteq Int
<1>1. c.k \in Nat /\ c.g \in Nat /\ c.l \in Nat /\ c.l > 0
  BY CodesAssumption
<1>2. /\ Data(c) \subseteq Blocks(c) /\ Globals(c) \subseteq Blocks(c)
      /\ Locals(c) \subseteq Blocks(c)
  BY DEF Blocks
<1>3. Blocks(c) \subseteq Nat /\ IsFiniteSet(Blocks(c))
  BY LrcBlocksAreNat
<1>4. IsFiniteSet(Data(c)) /\ IsFiniteSet(Globals(c)) /\ IsFiniteSet(Locals(c))
  BY <1>2, <1>3, FS_Subset
<1> QED
  BY <1>1, <1>2, <1>3, <1>4

\* A local group holds blocks of the stripe, its parity block among them.
LEMMA GroupsWithin ==
  ASSUME NEW c \in Codes, c.type \in LrcTypes, NEW i \in GroupIds(c)
  PROVE  LocalParity(c, i) \in Locals(c) /\ Groups(c)[i] \subseteq Blocks(c)
<1>1. c.k \in Nat /\ c.g \in Nat /\ c.l \in Nat /\ i \in Nat /\ i < c.l
  BY LrcNumbers DEF GroupIds
<1>2. LocalParity(c, i) \in Locals(c)
  BY <1>1 DEF LocalParity, Locals
<1>3. Run(c, c.k, i) \subseteq Data(c)
  BY DEF Run, Data
<1>4. Run(c, c.k + c.g, i) \subseteq Data(c) \cup Globals(c)
  BY <1>1 DEF Run, Data, Globals
<1>5. i \in 0 .. c.l /\ i \in 0 .. c.l - 1
  BY <1>1
<1>6. AzuGroups(c)[i] \subseteq Blocks(c)
  BY <1>2, <1>3, <1>5 DEF AzuGroups, Blocks
<1>7. Azu1Groups(c)[i] \subseteq Blocks(c)
  BY <1>2, <1>3, <1>5 DEF Azu1Groups, Blocks
<1>8. OptGroups(c)[i] \subseteq Blocks(c)
  BY <1>2, <1>4, <1>5 DEF OptGroups, Blocks
<1>9. Groups(c)[i] \subseteq Blocks(c)
  BY <1>6, <1>7, <1>8 DEF Groups, OptCauGroups, UniGroups
<1> QED
  BY <1>2, <1>9

\* What is left of the groups of some parity blocks is not lost.
LEMMA LeftWithin ==
  ASSUME NEW c \in Codes, c.type \in LrcTypes, NEW F, NEW P \in SUBSET Locals(c)
  PROVE  LeftOf(c, F, P) \subseteq Blocks(c) \ F
<1>1. ASSUME NEW p \in P PROVE Groups(c)[GroupIdOf(c, p)] \subseteq Blocks(c)
  <2>1. c.k \in Nat /\ c.g \in Nat /\ c.l \in Nat /\ p \in Locals(c)
    BY LrcNumbers
  <2>2. GroupIdOf(c, p) \in GroupIds(c)
    BY <2>1 DEF GroupIdOf, GroupIds, Locals
  <2> QED
    BY <2>2, GroupsWithin
<1> DEFINE U == UNION {Groups(c)[GroupIdOf(c, p)] : p \in P}
<1>2. U \subseteq Blocks(c)
  BY <1>1
<1>3. LeftOf(c, F, P) = U \ F
  BY Zenon DEF LeftOf
<1> QED
  BY <1>2, <1>3

\* The local parity blocks used are not lost.
LEMMA LocalsWithin ==
  ASSUME NEW c \in Codes, c.type \in LrcTypes, NEW F, NEW G \in SUBSET GroupIds(c)
  PROVE  LocalsUsed(c, F, G) \in SUBSET (Locals(c) \ F)
BY GroupsWithin DEF LocalsUsed, Spare

\* The groups that the codes allow are groups.
LEMMA GroupsAllowed ==
  ASSUME NEW c, NEW F
  PROVE  /\ NotLastUnlessHealthy(c, F) \in SUBSET GroupIds(c)
         /\ NoneUnlessHealthy(c, F) \in SUBSET GroupIds(c)
         /\ GroupIds(c) \in SUBSET GroupIds(c)
BY DEF NotLastUnlessHealthy, NoneUnlessHealthy, If

\* The global parity blocks used are not lost.
LEMMA UsedWithin ==
  ASSUME NEW c \in Codes, c.type \in LrcTypes, NEW F, NEW P \in SUBSET Locals(c)
  PROVE  GlobalsUsed(c, F, P) \in SUBSET (Globals(c) \ F)
<1>1. IsFiniteSet(F \cap Data(c)) /\ IsFiniteSet(P)
  BY LrcNumbers, FS_Subset
<1>2. GlobalsNeeded(c, F, P) \in Int
  BY <1>1, FS_CardinalityType DEF GlobalsNeeded
<1>3. PICK S : S = Globals(c) \ F
  OBVIOUS
<1>4. IsFiniteSet(S) /\ S \subseteq Int
  BY <1>3, LrcNumbers, FS_Subset
<1>5. Least(S, GlobalsNeeded(c, F, P)) \subseteq S
  BY <1>2, <1>4, LeastSubset
<1> QED
  BY <1>3, <1>5 DEF GlobalsUsed

\* Global parity blocks that replace local ones are among those that are free.
LEMMA ReplacingWithin ==
  ASSUME NEW c \in Codes, c.type \in LrcTypes, NEW free_ \in SUBSET Globals(c),
         NEW P \in SUBSET Locals(c)
  PROVE  Replacing(free_, P) \in SUBSET free_ /\ Kept(free_, P) \in SUBSET P
<1>1. IsFiniteSet(free_) /\ free_ \subseteq Int /\ IsFiniteSet(P)
  BY LrcNumbers, FS_Subset
<1>2. Cardinality(P) \in Int
  BY <1>1, FS_CardinalityType
<1>3. Least(free_, Cardinality(P)) \subseteq free_
  BY <1>1, <1>2, LeastSubset
<1> QED
  BY <1>3 DEF Replacing, Kept

\* A condition chooses the set or nothing.
LEMMA IfWithin ==
  ASSUME NEW condition, NEW S
  PROVE  If(condition, S) \subseteq S
BY DEF If

\* A number below n is in one of l runs of as many numbers as n has for each.
LEMMA RunNumber ==
  ASSUME NEW n \in Nat, NEW l \in Nat \ {0}, NEW b \in 0 .. n - 1
  PROVE  b \div DividedUp(n, l) \in 0 .. l - 1
<1>1. PICK a \in Nat : a = n + l - 1
  OBVIOUS
<1>2. /\ a \div l \in Nat /\ a % l \in 0 .. l - 1 /\ a = (a \div l) * l + (a % l)
  OBVIOUS
<1>3. PICK q \in Nat, e \in 0 .. l - 1 : q = a \div l /\ a = q * l + e
  BY <1>2
<1>4. q = DividedUp(n, l)
  BY <1>1, <1>3 DEF DividedUp
<1>5. q * l \in Nat /\ q * l >= n
  BY <1>1, <1>3
<1>6. q > 0
  <2>1. CASE q = 0
    BY <2>1, <1>5
  <2> QED
    BY <2>1
<1>7. /\ b \div q \in Nat /\ b % q \in 0 .. q - 1 /\ b = (b \div q) * q + (b % q)
  BY <1>6
<1>8. PICK d \in Nat : d = b \div q /\ d * q <= b
  BY <1>7
<1>9. d < l
  <2>1. d * q \in Nat
    OBVIOUS
  <2>2. d * q < q * l
    BY <1>5, <1>8, <2>1
  <2>3. CASE d >= l
    <3>1. d * q >= l * q
      BY <2>3, <1>6
    <3> QED
      BY <2>2, <3>1
  <2> QED
    BY <2>3
<1> QED
  BY <1>4, <1>8, <1>9

\* The groups of the global parity blocks, where they are in local groups.
LEMMA ParityOfGlobal ==
  ASSUME NEW c \in Codes, c.type \in {"AZURE_LRC_1", "OPTIMAL_LRC", "UNIFORM_CAUCHY_LRC"},
         NEW b \in Globals(c)
  PROVE  bid2gid(c, b) \in GroupIds(c)
<1>1. c.k \in Nat /\ c.g \in Nat /\ c.l \in Nat /\ c.l > 0 /\ c.type \in LrcTypes
  BY LrcNumbers DEF LrcTypes
<1>2. b \in Nat /\ b < c.k + c.g /\ b \notin Data(c)
  BY <1>1 DEF Globals, Data
<1>3. CASE c.type = "AZURE_LRC_1"
  <2>1. bid2gid(c, b) = c.l - 1
    BY <1>2, <1>3 DEF bid2gid, Azu1Bid2gid
  <2> QED
    BY <1>1, <2>1 DEF GroupIds
<1>4. CASE c.type \in {"OPTIMAL_LRC", "UNIFORM_CAUCHY_LRC"}
  <2>1. bid2gid(c, b) = b \div r(c)
    BY <1>2, <1>4 DEF bid2gid, OptBid2gid, UniBid2gid
  <2>2. r(c) = DividedUp(c.k + c.g, c.l)
    BY <1>4 DEF r
  <2>3. b \div DividedUp(c.k + c.g, c.l) \in 0 .. c.l - 1
    BY <1>1, <1>2, RunNumber
  <2> QED
    BY <2>1, <2>2, <2>3 DEF GroupIds
<1> QED
  BY <1>3, <1>4

\* Every data block is in a local group.
LEMMA DataInGroup ==
  ASSUME NEW c \in Codes, c.type \in LrcTypes, NEW b \in Data(c)
  PROVE  bid2gid(c, b) \in GroupIds(c)
<1>1. c.k \in Nat /\ c.g \in Nat /\ c.l \in Nat /\ c.l > 0
  BY LrcNumbers
<1>2. /\ b \in 0 .. c.k - 1 /\ b \in 0 .. (c.k + c.g) - 1 /\ b < c.k + c.g
      /\ b \in Data(c) /\ b \notin Globals(c)
  BY <1>1 DEF Data, Globals
<1>0. c.l \in Nat \ {0} /\ c.k + c.g \in Nat
  BY <1>1
<1>3. CASE c.type \in {"AZURE_LRC", "OPTIMAL_CAUCHY_LRC"}
  <2>1. bid2gid(c, b) = b \div r(c)
    <3>1. AzuBid2gid(c, b) = b \div r(c)
      BY <1>2 DEF AzuBid2gid
    <3>2. bid2gid(c, b) = AzuBid2gid(c, b)
      BY <1>3 DEF bid2gid, OptCauBid2gid
    <3> QED
      BY <3>1, <3>2
  <2>2. r(c) = DividedUp(c.k, c.l)
    BY <1>3 DEF r
  <2>3. b \div DividedUp(c.k, c.l) \in 0 .. c.l - 1
    BY ONLY <1>0, <1>1, <1>2, RunNumber, Zenon
  <2> QED
    BY <2>1, <2>2, <2>3 DEF GroupIds
<1>4. CASE c.type = "AZURE_LRC_1"
  <2>1. bid2gid(c, b) = b \div r(c)
    <3>1. Azu1Bid2gid(c, b) = b \div r(c)
      BY <1>2 DEF Azu1Bid2gid
    <3>2. bid2gid(c, b) = Azu1Bid2gid(c, b)
      BY <1>4 DEF bid2gid
    <3> QED
      BY <3>1, <3>2
  <2>2. r(c) = DividedUp(c.k, c.l - 1) /\ c.l - 1 \in Nat \ {0}
    BY <1>1, <1>4, CodesAssumption DEF r
  <2>3. b \div DividedUp(c.k, c.l - 1) \in 0 .. (c.l - 1) - 1
    BY ONLY <1>1, <1>2, <2>2, RunNumber, Zenon
  <2> QED
    BY <1>1, <2>1, <2>2, <2>3 DEF GroupIds
<1>5. CASE c.type \in {"OPTIMAL_LRC", "UNIFORM_CAUCHY_LRC"}
  <2>1. bid2gid(c, b) = b \div r(c)
    BY <1>2, <1>5 DEF bid2gid, OptBid2gid, UniBid2gid
  <2>2. r(c) = DividedUp(c.k + c.g, c.l)
    BY <1>5 DEF r
  <2>3. b \div DividedUp(c.k + c.g, c.l) \in 0 .. c.l - 1
    BY ONLY <1>0, <1>1, <1>2, RunNumber, Zenon
  <2> QED
    BY <2>1, <2>2, <2>3 DEF GroupIds
<1> QED
  BY <1>3, <1>4, <1>5 DEF LrcTypes

\* The local parity block of a global one left to its group is not lost.
LEMMA LeftToGroupWithin ==
  ASSUME NEW c \in Codes, c.type \in {"AZURE_LRC_1", "OPTIMAL_LRC", "UNIFORM_CAUCHY_LRC"}, NEW F
  PROVE  GroupParities(c, LeftToGroup(c, F)) \in SUBSET (Locals(c) \ F)
<1>1. c.type \in LrcTypes
  BY DEF LrcTypes
<1>2. LeftToGroup(c, F) \subseteq Globals(c)
  <2> DEFINE some == LostGlobalsOf(c, F)
             last == CHOOSE b \in some : \A o \in some : o <= b
  <2>1. CASE some = {}
    BY <2>1 DEF LeftToGroup
  <2>2. CASE some # {}
    <3>1. IsFiniteSet(some) /\ some \subseteq Int /\ some \subseteq Globals(c)
      BY <1>1, LrcNumbers, FS_Subset DEF LostGlobalsOf
    <3>2. Max(some) \in some /\ \A o \in some : Max(some) >= o
      BY <3>1, <2>2, MaxMember
    <3>3. \E b \in some : \A o \in some : o <= b
      BY <3>1, <3>2
    <3>4. last \in some
      BY <3>3
    <3>5. LeftToGroup(c, F) \subseteq {last}
      BY DEF LeftToGroup
    <3> QED
      BY <3>1, <3>4, <3>5
  <2> QED
    BY <2>1, <2>2
<1>3. \A b \in LeftToGroup(c, F) : LocalParity(c, bid2gid(c, b)) \notin F
  BY DEF LeftToGroup
<1> QED
  BY <1>1, <1>2, <1>3, ParityOfGlobal, GroupsWithin DEF GroupParities

----------------------------------------------------------------------------
(* Answers for many lost blocks read no block that is lost.                 *)

\* Lost data, global parity blocks first.
LEMMA LrcDataGlobalPriorityReads ==
  ASSUME NEW c \in Codes, c.type \in LrcTypes, NEW F
  PROVE  LrcDataGlobalPriority(c, F).help \subseteq Blocks(c) \ F
<1> DEFINE locals == LocalsUsed(c, F, GroupIds(c))
           used   == GlobalsUsed(c, F, locals)
           left   == Globals(c) \ (F \cup used)
           new    == Replacing(left, locals)
           kept   == Kept(left, locals)
<1>1. /\ Data(c) \subseteq Blocks(c) /\ Globals(c) \subseteq Blocks(c)
      /\ Locals(c) \subseteq Blocks(c)
  BY LrcNumbers
<1>2. locals \in SUBSET (Locals(c) \ F) /\ locals \in SUBSET Locals(c)
  BY LocalsWithin, GroupsAllowed
<1> HIDE DEF locals
<1>3. used \in SUBSET (Globals(c) \ F)
  BY <1>2, UsedWithin
<1> HIDE DEF used
<1>4. left \in SUBSET (Globals(c) \ F) /\ left \in SUBSET Globals(c)
  OBVIOUS
<1> HIDE DEF left
<1>5. new \in SUBSET left /\ kept \in SUBSET (locals)
  BY <1>2, <1>4, ReplacingWithin
<1>6. new \in SUBSET (Globals(c) \ F) /\ kept \in SUBSET (Locals(c) \ F) /\ kept \in SUBSET Locals(c)
  BY <1>4, <1>5, <1>2
<1> HIDE DEF new, kept
<1>7. LeftOf(c, F, kept) \in SUBSET (Blocks(c) \ F)
  BY <1>6, LeftWithin
<1> QED
  BY <1>1, <1>2, <1>3, <1>6, <1>7, IfWithin
     DEF LrcDataGlobalPriority, Answer, Undecodable, locals, used, left, new, kept

\* Lost data, local parity blocks first.
LEMMA LrcDataLocalPriorityReads ==
  ASSUME NEW c \in Codes, c.type \in LrcTypes, NEW F
  PROVE  LrcDataLocalPriority(c, F).help \subseteq Blocks(c) \ F
<1> DEFINE locals == LocalsUsed(c, F, GroupIds(c))
           used   == GlobalsUsed(c, F, locals)
           near   == LeftOf(c, F, locals)
<1>1. /\ Data(c) \subseteq Blocks(c) /\ Globals(c) \subseteq Blocks(c)
      /\ Locals(c) \subseteq Blocks(c)
  BY LrcNumbers
<1>2. locals \in SUBSET (Locals(c) \ F) /\ locals \in SUBSET Locals(c)
  BY LocalsWithin, GroupsAllowed
<1> HIDE DEF locals
<1>3. used \in SUBSET (Globals(c) \ F)
  BY <1>2, UsedWithin
<1> HIDE DEF used
<1>4. near \in SUBSET (Blocks(c) \ F)
  BY <1>2, LeftWithin
<1> QED
  BY <1>1, <1>2, <1>3, <1>4, IfWithin
     DEF LrcDataLocalPriority, Answer, Undecodable, locals, used

\* Lost data of the optimal code, global parity blocks first.
LEMMA OptDataGlobalPriorityReads ==
  ASSUME NEW c \in Codes, c.type \in LrcTypes, NEW F
  PROVE  OptDataGlobalPriority(c, F).help \subseteq Blocks(c) \ F
<1> DEFINE locals == LocalsUsed(c, F, NotLastUnlessHealthy(c, F))
           used   == GlobalsUsed(c, F, locals)
           left   == Globals(c) \ (F \cup used)
           new    == Replacing(left, locals)
           kept   == Kept(left, locals)
<1>1. /\ Data(c) \subseteq Blocks(c) /\ Globals(c) \subseteq Blocks(c)
      /\ Locals(c) \subseteq Blocks(c)
  BY LrcNumbers
<1>2. locals \in SUBSET (Locals(c) \ F) /\ locals \in SUBSET Locals(c)
  BY LocalsWithin, GroupsAllowed
<1> HIDE DEF locals
<1>3. used \in SUBSET (Globals(c) \ F)
  BY <1>2, UsedWithin
<1> HIDE DEF used
<1>4. left \in SUBSET (Globals(c) \ F) /\ left \in SUBSET Globals(c)
  OBVIOUS
<1> HIDE DEF left
<1>5. new \in SUBSET left /\ kept \in SUBSET (locals)
  BY <1>2, <1>4, ReplacingWithin
<1>6. new \in SUBSET (Globals(c) \ F) /\ kept \in SUBSET (Locals(c) \ F) /\ kept \in SUBSET Locals(c)
  BY <1>4, <1>5, <1>2
<1> HIDE DEF new, kept
<1>7. LeftOf(c, F, kept) \in SUBSET (Blocks(c) \ F)
  BY <1>6, LeftWithin
<1> QED
  BY <1>1, <1>2, <1>3, <1>6, <1>7, IfWithin
     DEF OptDataGlobalPriority, Answer, Undecodable, locals, used, left, new, kept

\* Lost data of the optimal code, local parity blocks first.
LEMMA OptDataLocalPriorityReads ==
  ASSUME NEW c \in Codes, c.type \in LrcTypes, NEW F
  PROVE  OptDataLocalPriority(c, F).help \subseteq Blocks(c) \ F
<1> DEFINE locals == LocalsUsed(c, F, NotLastUnlessHealthy(c, F))
           used   == GlobalsUsed(c, F, locals)
           near   == LeftOf(c, F, locals)
<1>1. /\ Data(c) \subseteq Blocks(c) /\ Globals(c) \subseteq Blocks(c)
      /\ Locals(c) \subseteq Blocks(c)
  BY LrcNumbers
<1>2. locals \in SUBSET (Locals(c) \ F) /\ locals \in SUBSET Locals(c)
  BY LocalsWithin, GroupsAllowed
<1> HIDE DEF locals
<1>3. used \in SUBSET (Globals(c) \ F)
  BY <1>2, UsedWithin
<1> HIDE DEF used
<1>4. near \in SUBSET (Blocks(c) \ F)
  BY <1>2, LeftWithin
<1> QED
  BY <1>1, <1>2, <1>3, <1>4, IfWithin
     DEF OptDataLocalPriority, Answer, Undecodable, locals, used

\* Lost data of the optimal Cauchy code, global parity blocks first.
LEMMA OptCauDataGlobalPriorityReads ==
  ASSUME NEW c \in Codes, c.type \in LrcTypes, NEW F
  PROVE  OptCauDataGlobalPriority(c, F).help \subseteq Blocks(c) \ F
<1> DEFINE locals == LocalsUsed(c, F, NoneUnlessHealthy(c, F))
           used   == GlobalsUsed(c, F, locals)
           left   == Globals(c) \ (F \cup used)
           new    == Replacing(left, locals)
           kept   == Kept(left, locals)
<1>1. /\ Data(c) \subseteq Blocks(c) /\ Globals(c) \subseteq Blocks(c)
      /\ Locals(c) \subseteq Blocks(c)
  BY LrcNumbers
<1>2. locals \in SUBSET (Locals(c) \ F) /\ locals \in SUBSET Locals(c)
  BY LocalsWithin, GroupsAllowed
<1> HIDE DEF locals
<1>3. used \in SUBSET (Globals(c) \ F)
  BY <1>2, UsedWithin
<1> HIDE DEF used
<1>4. left \in SUBSET (Globals(c) \ F) /\ left \in SUBSET Globals(c)
  OBVIOUS
<1> HIDE DEF left
<1>5. new \in SUBSET left /\ kept \in SUBSET (locals)
  BY <1>2, <1>4, ReplacingWithin
<1>6. new \in SUBSET (Globals(c) \ F) /\ kept \in SUBSET (Locals(c) \ F) /\ kept \in SUBSET Locals(c)
  BY <1>4, <1>5, <1>2
<1> HIDE DEF new, kept
<1>7. LeftOf(c, F, kept) \in SUBSET (Blocks(c) \ F)
  BY <1>6, LeftWithin
<1> QED
  BY <1>1, <1>2, <1>3, <1>6, <1>7, IfWithin
     DEF OptCauDataGlobalPriority, Answer, Undecodable, locals, used, left, new, kept

\* Lost data of the optimal Cauchy code, local parity blocks first.
LEMMA OptCauDataLocalPriorityReads ==
  ASSUME NEW c \in Codes, c.type \in LrcTypes, NEW F
  PROVE  OptCauDataLocalPriority(c, F).help \subseteq Blocks(c) \ F
<1> DEFINE locals == LocalsUsed(c, F, NoneUnlessHealthy(c, F))
           used   == GlobalsUsed(c, F, locals)
           near   == LeftOf(c, F, locals)
<1>1. /\ Data(c) \subseteq Blocks(c) /\ Globals(c) \subseteq Blocks(c)
      /\ Locals(c) \subseteq Blocks(c)
  BY LrcNumbers
<1>2. locals \in SUBSET (Locals(c) \ F) /\ locals \in SUBSET Locals(c)
  BY LocalsWithin, GroupsAllowed
<1> HIDE DEF locals
<1>3. used \in SUBSET (Globals(c) \ F)
  BY <1>2, UsedWithin
<1> HIDE DEF used
<1>4. near \in SUBSET (Blocks(c) \ F)
  BY <1>2, LeftWithin
<1> QED
  BY <1>1, <1>2, <1>3, <1>4, IfWithin
     DEF OptCauDataLocalPriority, Answer, Undecodable, locals, used

\* Any loss, global parity blocks first.
LEMMA LrcAllGlobalPriorityReads ==
  ASSUME NEW c \in Codes, c.type \in LrcTypes, NEW F
  PROVE  LrcAllGlobalPriority(c, F).help \subseteq Blocks(c) \ F
<1> DEFINE locals == LocalsUsed(c, F, GroupIds(c))
           used   == GlobalsUsed(c, F, locals)
           beside == LeftOf(c, F, LostLocals(c, F))
           left   == Globals(c) \ (F \cup used \cup beside)
           new    == Replacing(left, locals)
           kept   == Kept(left, locals)
<1>1. /\ Data(c) \subseteq Blocks(c) /\ Globals(c) \subseteq Blocks(c)
      /\ Locals(c) \subseteq Blocks(c)
  BY LrcNumbers
<1>2. locals \in SUBSET (Locals(c) \ F) /\ locals \in SUBSET Locals(c)
  BY LocalsWithin, GroupsAllowed
<1> HIDE DEF locals
<1>3. used \in SUBSET (Globals(c) \ F)
  BY <1>2, UsedWithin
<1> HIDE DEF used
<1>4. LostLocals(c, F) \in SUBSET Locals(c)
  BY DEF LostLocals
<1>5. beside \in SUBSET (Blocks(c) \ F)
  BY <1>4, LeftWithin
<1>6. left \in SUBSET (Globals(c) \ F) /\ left \in SUBSET Globals(c)
  OBVIOUS
<1> HIDE DEF left
<1>7. new \in SUBSET left /\ kept \in SUBSET (locals)
  BY <1>2, <1>6, ReplacingWithin
<1>8. new \in SUBSET (Globals(c) \ F) /\ kept \in SUBSET (Locals(c) \ F) /\ kept \in SUBSET Locals(c)
  BY <1>6, <1>7, <1>2
<1> HIDE DEF new, kept
<1>9. LeftOf(c, F, kept) \in SUBSET (Blocks(c) \ F)
  BY <1>8, LeftWithin
<1> QED
  BY <1>1, <1>2, <1>3, <1>5, <1>8, <1>9, IfWithin
     DEF LrcAllGlobalPriority, Answer, Undecodable, locals, used, left, new, kept

\* Any loss, local parity blocks first.
LEMMA LrcAllLocalPriorityReads ==
  ASSUME NEW c \in Codes, c.type \in LrcTypes, NEW F
  PROVE  LrcAllLocalPriority(c, F).help \subseteq Blocks(c) \ F
<1> DEFINE locals == LocalsUsed(c, F, GroupIds(c))
           used   == GlobalsUsed(c, F, locals)
           near   == LeftOf(c, F, locals \cup LostLocals(c, F))
<1>1. /\ Data(c) \subseteq Blocks(c) /\ Globals(c) \subseteq Blocks(c)
      /\ Locals(c) \subseteq Blocks(c)
  BY LrcNumbers
<1>2. locals \in SUBSET (Locals(c) \ F) /\ locals \in SUBSET Locals(c)
  BY LocalsWithin, GroupsAllowed
<1> HIDE DEF locals
<1>3. used \in SUBSET (Globals(c) \ F)
  BY <1>2, UsedWithin
<1> HIDE DEF used
<1>4. (locals \cup LostLocals(c, F)) \in SUBSET Locals(c)
  BY <1>2 DEF LostLocals
<1>5. near \in SUBSET (Blocks(c) \ F)
  BY <1>4, LeftWithin
<1> QED
  BY <1>1, <1>2, <1>3, <1>5, IfWithin
     DEF LrcAllLocalPriority, Answer, Undecodable, locals, used

\* Any loss of the codes whose last group has global parity blocks, these first.
LEMMA Azu1AllGlobalPriorityReads ==
  ASSUME NEW c \in Codes, c.type \in LrcTypes, NEW F
  PROVE  Azu1AllGlobalPriority(c, F).help \subseteq Blocks(c) \ F
<1> DEFINE locals == LocalsUsed(c, F, NotLastUnlessHealthy(c, F))
           used   == GlobalsUsed(c, F, locals)
           beside == LeftOf(c, F, LostLocals(c, F))
           left   == Globals(c) \ (F \cup used \cup beside)
           new    == Replacing(left, locals)
           kept   == Kept(left, locals)
<1>1. /\ Data(c) \subseteq Blocks(c) /\ Globals(c) \subseteq Blocks(c)
      /\ Locals(c) \subseteq Blocks(c)
  BY LrcNumbers
<1>2. locals \in SUBSET (Locals(c) \ F) /\ locals \in SUBSET Locals(c)
  BY LocalsWithin, GroupsAllowed
<1> HIDE DEF locals
<1>3. used \in SUBSET (Globals(c) \ F)
  BY <1>2, UsedWithin
<1> HIDE DEF used
<1>4. LostLocals(c, F) \in SUBSET Locals(c)
  BY DEF LostLocals
<1>5. beside \in SUBSET (Blocks(c) \ F)
  BY <1>4, LeftWithin
<1>6. left \in SUBSET (Globals(c) \ F) /\ left \in SUBSET Globals(c)
  OBVIOUS
<1> HIDE DEF left
<1>7. new \in SUBSET left /\ kept \in SUBSET (locals)
  BY <1>2, <1>6, ReplacingWithin
<1>8. new \in SUBSET (Globals(c) \ F) /\ kept \in SUBSET (Locals(c) \ F) /\ kept \in SUBSET Locals(c)
  BY <1>6, <1>7, <1>2
<1> HIDE DEF new, kept
<1>9. LeftOf(c, F, kept) \in SUBSET (Blocks(c) \ F)
  BY <1>8, LeftWithin
<1> QED
  BY <1>1, <1>2, <1>3, <1>5, <1>8, <1>9, IfWithin
     DEF Azu1AllGlobalPriority, Answer, Undecodable, locals, used, left, new, kept

\* The same, local parity blocks first.
LEMMA Azu1AllLocalPriorityReads ==
  ASSUME NEW c \in Codes, c.type \in {"AZURE_LRC_1", "OPTIMAL_LRC", "UNIFORM_CAUCHY_LRC"}, NEW F
  PROVE  Azu1AllLocalPriority(c, F).help \subseteq Blocks(c) \ F
<1> DEFINE locals == LocalsUsed(c, F, NotLastUnlessHealthy(c, F))
           used   == GlobalsUsed(c, F, locals)
           via    == GroupParities(c, LeftToGroup(c, F))
           own    == (F \ Data(c)) \ LeftToGroup(c, F)
           near   == LeftOf(c, F, locals \cup via \cup LostLocals(c, F))
<1>1. c.type \in LrcTypes
  BY DEF LrcTypes
<1>2. /\ Data(c) \subseteq Blocks(c) /\ Globals(c) \subseteq Blocks(c)
      /\ Locals(c) \subseteq Blocks(c)
  BY <1>1, LrcNumbers
<1>3. locals \in SUBSET (Locals(c) \ F) /\ locals \in SUBSET Locals(c)
  BY <1>1, LocalsWithin, GroupsAllowed
<1> HIDE DEF locals
<1>4. used \in SUBSET (Globals(c) \ F)
  BY <1>1, <1>3, UsedWithin
<1> HIDE DEF used
<1>5. via \in SUBSET (Locals(c) \ F) /\ via \in SUBSET Locals(c)
  BY LeftToGroupWithin
<1> HIDE DEF via
<1>6. (locals \cup via \cup LostLocals(c, F)) \in SUBSET Locals(c)
  BY <1>3, <1>5 DEF LostLocals
<1>7. near \in SUBSET (Blocks(c) \ F)
  BY <1>1, <1>6, LeftWithin
<1> QED
  BY <1>2, <1>3, <1>4, <1>5, <1>7, IfWithin
     DEF Azu1AllLocalPriority, Answer, Undecodable, locals, used, via

\* Any loss of the uniform Cauchy code, global parity blocks first.
LEMMA UniAllGlobalPriorityReads ==
  ASSUME NEW c \in Codes, c.type \in {"AZURE_LRC_1", "OPTIMAL_LRC", "UNIFORM_CAUCHY_LRC"}, NEW F
  PROVE  UniAllGlobalPriority(c, F).help \subseteq Blocks(c) \ F
<1> DEFINE locals == LocalsUsed(c, F, NotLastUnlessHealthy(c, F))
           used   == GlobalsUsed(c, F, locals)
           via    == GroupParities(c, LeftToGroup(c, F))
           own    == (F \ Data(c)) \ LeftToGroup(c, F)
           beside == LeftOf(c, F, via \cup LostLocals(c, F))
           left   == Globals(c) \ (F \cup used \cup beside)
           new    == Replacing(left, locals \cup via)
           kept   == Kept(left, locals \cup via)
<1>1. c.type \in LrcTypes
  BY DEF LrcTypes
<1>2. /\ Data(c) \subseteq Blocks(c) /\ Globals(c) \subseteq Blocks(c)
      /\ Locals(c) \subseteq Blocks(c)
  BY <1>1, LrcNumbers
<1>3. locals \in SUBSET (Locals(c) \ F) /\ locals \in SUBSET Locals(c)
  BY <1>1, LocalsWithin, GroupsAllowed
<1> HIDE DEF locals
<1>4. used \in SUBSET (Globals(c) \ F)
  BY <1>1, <1>3, UsedWithin
<1> HIDE DEF used
<1>5. via \in SUBSET (Locals(c) \ F) /\ via \in SUBSET Locals(c)
  BY LeftToGroupWithin
<1> HIDE DEF via
<1>6. LostLocals(c, F) \in SUBSET Locals(c)
  BY DEF LostLocals
<1>7. beside \in SUBSET (Blocks(c) \ F)
  BY <1>1, <1>6, <1>5, LeftWithin
<1>8. /\ left \in SUBSET (Globals(c) \ F) /\ left \in SUBSET Globals(c)
      /\ (locals \cup via) \in SUBSET (Locals(c) \ F) /\ (locals \cup via) \in SUBSET Locals(c)
  BY <1>3, <1>5
<1> HIDE DEF left
<1>9. new \in SUBSET left /\ kept \in SUBSET (locals \cup via)
  BY <1>1, <1>8, ReplacingWithin
<1>10. new \in SUBSET (Globals(c) \ F) /\ kept \in SUBSET (Locals(c) \ F) /\ kept \in SUBSET Locals(c)
  BY <1>8, <1>9
<1> HIDE DEF new, kept
<1>11. LeftOf(c, F, kept) \in SUBSET (Blocks(c) \ F)
  BY <1>1, <1>10, LeftWithin
<1> QED
  BY <1>2, <1>3, <1>4, <1>5, <1>7, <1>10, <1>11, IfWithin
     DEF UniAllGlobalPriority, Answer, Undecodable, locals, used, left, new, kept, via

\* Any loss of the optimal Cauchy code, global parity blocks first.
LEMMA OptCauAllGlobalPriorityReads ==
  ASSUME NEW c \in Codes, c.type \in LrcTypes, NEW F
  PROVE  OptCauAllGlobalPriority(c, F).help \subseteq Blocks(c) \ F
<1> DEFINE locals == LocalsUsed(c, F, NoneUnlessHealthy(c, F))
           used   == GlobalsUsed(c, F, locals)
           beside == LeftOf(c, F, LostLocals(c, F))
           left   == Globals(c) \ (F \cup used)
           new    == Replacing(left, locals)
           kept   == Kept(left, locals)
<1>1. /\ Data(c) \subseteq Blocks(c) /\ Globals(c) \subseteq Blocks(c)
      /\ Locals(c) \subseteq Blocks(c)
  BY LrcNumbers
<1>2. locals \in SUBSET (Locals(c) \ F) /\ locals \in SUBSET Locals(c)
  BY LocalsWithin, GroupsAllowed
<1> HIDE DEF locals
<1>3. used \in SUBSET (Globals(c) \ F)
  BY <1>2, UsedWithin
<1> HIDE DEF used
<1>4. LostLocals(c, F) \in SUBSET Locals(c)
  BY DEF LostLocals
<1>5. beside \in SUBSET (Blocks(c) \ F)
  BY <1>4, LeftWithin
<1>6. left \in SUBSET (Globals(c) \ F) /\ left \in SUBSET Globals(c)
  OBVIOUS
<1> HIDE DEF left
<1>7. new \in SUBSET left /\ kept \in SUBSET (locals)
  BY <1>2, <1>6, ReplacingWithin
<1>8. new \in SUBSET (Globals(c) \ F) /\ kept \in SUBSET (Locals(c) \ F) /\ kept \in SUBSET Locals(c)
  BY <1>6, <1>7, <1>2
<1> HIDE DEF new, kept
<1>9. LeftOf(c, F, kept) \in SUBSET (Blocks(c) \ F)
  BY <1>8, LeftWithin
<1> QED
  BY <1>1, <1>2, <1>3, <1>5, <1>8, <1>9, IfWithin
     DEF OptCauAllGlobalPriority, Answer, Undecodable, locals, used, left, new, kept

\* The same, local parity blocks first.
LEMMA OptCauAllLocalPriorityReads ==
  ASSUME NEW c \in Codes, c.type \in LrcTypes, NEW F
  PROVE  OptCauAllLocalPriority(c, F).help \subseteq Blocks(c) \ F
<1> DEFINE locals == LocalsUsed(c, F, NoneUnlessHealthy(c, F))
           used   == GlobalsUsed(c, F, locals)
           lost_  == LostGlobalsOf(c, F)
           via    == If(r(c) + c.g < c.k,
                      Least(Locals(c) \ (F \cup locals), Cardinality(lost_)))
           own    == (F \ Data(c)) \ Least(lost_, Cardinality(via))
           near   == LeftOf(c, F, locals \cup via \cup LostLocals(c, F))
<1>1. /\ Data(c) \subseteq Blocks(c) /\ Globals(c) \subseteq Blocks(c)
      /\ Locals(c) \subseteq Blocks(c)
  BY LrcNumbers
<1>2. locals \in SUBSET (Locals(c) \ F) /\ locals \in SUBSET Locals(c)
  BY LocalsWithin, GroupsAllowed
<1> HIDE DEF locals
<1>3. used \in SUBSET (Globals(c) \ F)
  BY <1>2, UsedWithin
<1> HIDE DEF used
<1>4. via \in SUBSET (Locals(c) \ F) /\ via \in SUBSET Locals(c)
  <2>1. PICK S : S = Locals(c) \ (F \cup locals)
    OBVIOUS
  <2>2. IsFiniteSet(S) /\ S \subseteq Int
    BY <2>1, LrcNumbers, FS_Subset
  <2>3. IsFiniteSet(lost_)
    BY LrcNumbers, FS_Subset DEF LostGlobalsOf
  <2>4. Cardinality(lost_) \in Int
    BY <2>3, FS_CardinalityType
  <2>5. Least(S, Cardinality(lost_)) \subseteq S
    BY <2>2, <2>4, LeastSubset
  <2> QED
    BY <2>1, <2>5 DEF If
<1> HIDE DEF via
<1>5. (locals \cup via \cup LostLocals(c, F)) \in SUBSET Locals(c)
  BY <1>2, <1>4 DEF LostLocals
<1>6. near \in SUBSET (Blocks(c) \ F)
  BY <1>5, LeftWithin
<1> QED
  BY <1>1, <1>2, <1>3, <1>4, <1>6, IfWithin
     DEF OptCauAllLocalPriority, Answer, Undecodable, locals, used, via

\* What DataAnswer and AllAnswer read.
LEMMA AnswersRead ==
  ASSUME NEW c \in Codes, c.type \in LrcTypes, NEW F, NEW first
  PROVE  /\ DataAnswer(c, F, first).help \subseteq Blocks(c) \ F
         /\ AllAnswer(c, F, first).help \subseteq Blocks(c) \ F
<1>1. DataAnswer(c, F, first).help \subseteq Blocks(c) \ F
  BY LrcDataGlobalPriorityReads, LrcDataLocalPriorityReads, OptDataGlobalPriorityReads,
     OptDataLocalPriorityReads, OptCauDataGlobalPriorityReads, OptCauDataLocalPriorityReads
     DEF DataAnswer, UniDataGlobalPriority, UniDataLocalPriority
<1>2. CASE c.type = "AZURE_LRC"
  BY <1>1, <1>2, LrcAllGlobalPriorityReads, LrcAllLocalPriorityReads DEF AllAnswer
<1>3. CASE c.type \in {"AZURE_LRC_1", "OPTIMAL_LRC"}
  BY <1>1, <1>3, Azu1AllGlobalPriorityReads, Azu1AllLocalPriorityReads
     DEF AllAnswer, OptAllGlobalPriority, OptAllLocalPriority
<1>4. CASE c.type = "OPTIMAL_CAUCHY_LRC"
  BY <1>1, <1>4, OptCauAllGlobalPriorityReads, OptCauAllLocalPriorityReads DEF AllAnswer
<1>5. CASE c.type = "UNIFORM_CAUCHY_LRC"
  BY <1>1, <1>5, UniAllGlobalPriorityReads, Azu1AllLocalPriorityReads
     DEF AllAnswer, UniAllLocalPriority, OptAllLocalPriority
<1> QED
  BY <1>1, <1>2, <1>3, <1>4, <1>5 DEF LrcTypes

\* What a code reads first is none of the lost blocks F.
LEMMA FirstApart ==
  ASSUME NEW c \in Codes, c.type \in LrcTypes, NEW cl, NEW F, NEW T,
         T \cap (Data(c) \cup Globals(c)) \subseteq F
  PROVE  FirstSurvivors(c.k, cl, F, Data(c) \cup Globals(c)) \subseteq Blocks(c) \ T
<1>1. FirstSurvivors(c.k, cl, F, Data(c) \cup Globals(c)) \subseteq (Data(c) \cup Globals(c)) \ F
  BY FirstAreUsable
<1> QED
  BY <1>1, LrcNumbers

\* Data blocks are no global parity blocks.
LEMMA DataApart ==
  ASSUME NEW c \in Codes, c.type \in LrcTypes
  PROVE  Data(c) \cap Globals(c) = {}
<1>1. c.k \in Nat /\ c.g \in Nat
  BY LrcNumbers
<1> QED
  BY <1>1 DEF Data, Globals

\* What a plan for the one block f asks of the blocks T, which are lost, ...
SingleApart(c, f, T, local, partial) ==
  /\ local => \A b \in T : bid2gid(c, b) = bid2gid(c, f) => b = f
  /\ ~local => T \cap (Data(c) \cup Globals(c)) \subseteq {f}
  /\ ~local /\ ~partial => f \notin Data(c)
\* ... and with the optimal Cauchy code, in group gid.
OptCauSingleApart(c, f, T, local, gid) ==
  /\ local => \A b \in T : bid2gid(c, b) = gid \/ b \in Globals(c) => b = f
  /\ ~local => T \cap (Data(c) \cup Globals(c)) \subseteq {f}
\* A plan reads none of the blocks T.
ReadsApart(c, answer, T) == answer.help \subseteq Blocks(c) \ T

\* One lost block f, restored in its group or from k survivors: T, which is lost,
\* is not read.
LEMMA SingleReads ==
  ASSUME NEW c \in Codes, c.type \in LrcTypes, NEW cl, NEW f, NEW T, NEW local \in BOOLEAN,
         NEW partial \in BOOLEAN, SingleApart(c, f, T, local, partial)
  PROVE  ReadsApart(c, LrcSingle(c, cl, f, local, partial), T)
<1> USE DEF SingleApart, ReadsApart
<1> DEFINE group == {b \in Blocks(c) : bid2gid(c, b) = bid2gid(c, f)} \ {f}
           some  == FirstSurvivors(c.k, cl, {f}, Data(c) \cup Globals(c))
<1>1. CASE local
  <2>1. group \subseteq Blocks(c) \ T
    BY <1>1
  <2>2. LrcSingle(c, cl, f, local, partial).help = group
    BY <1>1 DEF LrcSingle, Answer
  <2> QED
    BY <2>1, <2>2
<1>2. CASE ~local
  <2>1. some \subseteq Blocks(c) \ T
    BY <1>2, FirstApart
  <2>2. ~partial => Data(c) \subseteq Blocks(c) \ T
    BY <1>2, LrcNumbers
  <2>3. LrcSingle(c, cl, f, local, partial).help = IF partial THEN some ELSE Data(c)
    BY <1>2 DEF LrcSingle, Answer
  <2> HIDE DEF some
  <2> QED
    BY <2>1, <2>2, <2>3
<1> QED
  BY <1>1, <1>2

\* The same for the optimal Cauchy code, where a group reads the global parity blocks.
LEMMA OptCauSingleReads ==
  ASSUME NEW c \in Codes, c.type \in LrcTypes, NEW cl, NEW f, NEW T, NEW local \in BOOLEAN,
         NEW partial \in BOOLEAN, NEW via,
         NEW gid, gid = IF f \in Globals(c) THEN via ELSE bid2gid(c, f),
         OptCauSingleApart(c, f, T, local, gid)
  PROVE  ReadsApart(c, OptCauSingle(c, cl, f, local, partial, via), T)
<1> USE DEF OptCauSingleApart, ReadsApart
<1> DEFINE group == ({b \in Blocks(c) : bid2gid(c, b) = gid} \cup Globals(c)) \ {f}
           some  == FirstSurvivors(c.k, cl, {f}, Data(c) \cup Globals(c))
<1>1. CASE local
  <2>1. group \subseteq Blocks(c) \ T
    BY <1>1, LrcNumbers
  <2>2. OptCauSingle(c, cl, f, local, partial, via).help = group
    BY <1>1 DEF OptCauSingle, Answer
  <2> QED
    BY <2>1, <2>2
<1>2. CASE ~local
  <2>1. some \subseteq Blocks(c) \ T
    BY <1>2, FirstApart
  <2>2. f \in Globals(c) => Data(c) \subseteq Blocks(c) \ T
    BY <1>2, LrcNumbers, DataApart
  <2>3. OptCauSingle(c, cl, f, local, partial, via).help =
          IF ~partial /\ f \in Globals(c) THEN Data(c) ELSE some
    BY <1>2 DEF OptCauSingle, Answer
  <2> HIDE DEF some
  <2> QED
    BY <2>1, <2>2, <2>3
<1> QED
  BY <1>1, <1>2

\* Several lost global parity blocks F, from k survivors, ...
LEMMA MultiGlobalReads ==
  ASSUME NEW c \in Codes, c.type \in LrcTypes, NEW cl, NEW F \in SUBSET Globals(c), NEW T,
         NEW partial \in BOOLEAN, T \cap (Data(c) \cup Globals(c)) \subseteq F
  PROVE  LrcMultiGlobal(c, cl, F, partial).help \subseteq Blocks(c) \ T
<1> DEFINE some == FirstSurvivors(c.k, cl, F, Data(c) \cup Globals(c))
<1>1. some \subseteq Blocks(c) \ T
  BY FirstApart
<1>2. Data(c) \subseteq Blocks(c) \ T
  BY LrcNumbers, DataApart
<1>3. LrcMultiGlobal(c, cl, F, partial).help = IF partial THEN some ELSE Data(c)
  BY DEF LrcMultiGlobal, Answer
<1> HIDE DEF some
<1> QED
  BY <1>1, <1>2, <1>3

\* ... or with the optimal Cauchy code in groups that lost nothing else.
LEMMA OptCauMultiGlobalReads ==
  ASSUME NEW c \in Codes, c.type \in LrcTypes, NEW cl, NEW F \in SUBSET Globals(c), NEW T,
         NEW local \in BOOLEAN, NEW partial \in BOOLEAN, NEW surviving,
         T \cap (Data(c) \cup Globals(c)) \subseteq F,
         local => \A b \in T : bid2gid(c, b) \notin surviving
  PROVE  OptCauMultiGlobal(c, cl, F, local, partial, surviving).help \subseteq Blocks(c) \ T
<1> DEFINE groups == {b \in Blocks(c) : bid2gid(c, b) \in surviving}
<1>1. CASE local
  <2>1. (Globals(c) \ F) \cup groups \subseteq Blocks(c) \ T
    BY <1>1, LrcNumbers
  <2>2. OptCauMultiGlobal(c, cl, F, local, partial, surviving).help = (Globals(c) \ F) \cup groups
    BY <1>1 DEF OptCauMultiGlobal, Answer
  <2> QED
    BY <2>1, <2>2
<1>2. CASE ~local
  BY <1>2, MultiGlobalReads DEF OptCauMultiGlobal
<1> QED
  BY <1>1, <1>2

\* The groups that count as many as are lost are groups.
LEMMA CountedGroups ==
  ASSUME NEW l \in Nat, NEW S, S \subseteq 0 .. l - 1, NEW n \in Nat
  PROVE  Least(S, n) \subseteq S
<1>1. IsFiniteSet(0 .. l - 1)
  BY Intervals
<1>2. IsFiniteSet(S)
  BY ONLY S \subseteq 0 .. l - 1, <1>1, FS_Subset, Zenon
<1>3. S \subseteq Int /\ n \in Int
  OBVIOUS
<1> QED
  BY ONLY <1>2, <1>3, LeastSubset, Zenon

\* What is lost last, in one plan.
LEMMA RestReads ==
  ASSUME PlanInv, IsLrc(code), options.partial \in BOOLEAN, options.globalFirst \in BOOLEAN
  PROVE  RestAnswer.help \subseteq Blocks(code) \ todo
<1>1. /\ code \in Codes /\ code.l \in Nat /\ code.type \in LrcTypes
      /\ IsFiniteSet(todo) /\ todo \subseteq Nat
  BY LossIsFinite DEF IsLrc
<1>2. PICK n \in Nat : n = Cardinality(todo)
  BY <1>1, FS_CardinalityType
<1>3. PICK surviving : surviving = Least({i \in GroupIds(code) : cnt[i] = n}, n)
  OBVIOUS
<1>4. surviving \subseteq GroupIds(code)
  <2>1. PICK S : S = {i \in GroupIds(code) : cnt[i] = n}
    OBVIOUS
  <2>2. S \subseteq 0 .. code.l - 1 /\ S \subseteq GroupIds(code)
    BY <2>1 DEF GroupIds
  <2>3. Least(S, n) \subseteq S
    BY <1>1, <1>2, <2>2, CountedGroups
  <2> QED
    BY <1>3, <2>1, <2>2, <2>3
<1>5. PICK inOwn \in BOOLEAN, local \in BOOLEAN :
        /\ inOwn = (~options.globalFirst /\ GlobalsInLastGroup(code))
        /\ local = (Cardinality(surviving) = n /\ ~options.globalFirst)
  BY DEF GlobalsInLastGroup
<1>6. RestAnswer =
        IF ~(todo \subseteq Globals(code)) THEN AllAnswer(code, todo, options.globalFirst)
        ELSE IF IsOptCau(code)
        THEN OptCauMultiGlobal(code, clusters, todo, local, options.partial, surviving)
        ELSE IF n = 1
        THEN LrcSingle(code, clusters, LeastOf(todo), inOwn, options.partial)
        ELSE IF inOwn THEN AllAnswer(code, todo, FALSE)
        ELSE LrcMultiGlobal(code, clusters, todo, options.partial)
  BY <1>2, <1>3, <1>5, Zenon DEF RestAnswer
<1>7. \A first : AllAnswer(code, todo, first).help \subseteq Blocks(code) \ todo
  BY <1>1, AnswersRead
<1>8. ASSUME todo \subseteq Globals(code)
      PROVE  LrcMultiGlobal(code, clusters, todo, options.partial).help \subseteq Blocks(code) \ todo
  BY <1>1, <1>8, MultiGlobalReads
<1>9. ASSUME todo \subseteq Globals(code), IsOptCau(code)
      PROVE  OptCauMultiGlobal(code, clusters, todo, local, options.partial, surviving).help
               \subseteq Blocks(code) \ todo
  <2>1. \A b \in todo : bid2gid(code, b) \notin surviving
    BY <1>1, <1>4, <1>9, GlobalsApart
  <2> QED
    BY <1>1, <1>9, <2>1, OptCauMultiGlobalReads
<1>10. ASSUME todo \subseteq Globals(code), n = 1
       PROVE  LrcSingle(code, clusters, LeastOf(todo), inOwn, options.partial).help
                \subseteq Blocks(code) \ todo
  <2>1. PICK f : todo = {f}
    BY <1>1, <1>2, <1>10, FS_Singleton
  <2>2. LeastOf(todo) = f
    BY <1>1, <2>1, LeastOfIsMember
  <2>3. f \notin Data(code)
    BY <1>1, <1>10, <2>1, DataApart
  <2>4. /\ inOwn => \A b \in todo : bid2gid(code, b) = bid2gid(code, f) => b = f
        /\ ~inOwn => todo \cap (Data(code) \cup Globals(code)) \subseteq {f}
        /\ ~inOwn /\ ~options.partial => f \notin Data(code)
    BY <2>1, <2>3
  <2>5. LrcSingle(code, clusters, f, inOwn, options.partial).help \subseteq Blocks(code) \ todo
    <3>1. SingleApart(code, f, todo, inOwn, options.partial)
      BY <2>4 DEF SingleApart
    <3>2. ReadsApart(code, LrcSingle(code, clusters, f, inOwn, options.partial), todo)
      BY <1>1, <3>1, SingleReads
    <3> QED
      BY <3>2 DEF ReadsApart
  <2> QED
    BY <2>2, <2>5
<1> QED
  BY <1>6, <1>7, <1>8, <1>9, <1>10, Zenon

\* The global parity blocks of method 2: what else is lost still is in the local
\* groups, of which no group of the plan has any.
LEMMA GlobalsRead ==
  ASSUME PlanInv, CountInv, IsLrc(code), step = "data", todo \cap Data(code) = {}, iter > 0,
         options.partial \in BOOLEAN, NEW fail, fail = todo \cap Globals(code)
  PROVE  GlobalsAnswer(fail).help \subseteq Blocks(code) \ todo
<1>1. /\ code \in Codes /\ code.l \in Nat /\ code.type \in LrcTypes
      /\ IsFiniteSet(todo) /\ todo \subseteq Nat
      /\ IsFiniteSet(fail) /\ fail \in SUBSET Globals(code) /\ fail \subseteq Nat
  BY LossIsFinite, FS_Subset DEF IsLrc
<1> DEFINE n         == Cardinality(fail)
           surviving == Least({i \in GroupIds(code) : cnt[i] = n}, n)
           own       == GlobalsInLastGroup(code)
           local     == Cardinality(surviving) = n /\ n < code.l
           alone     == Cardinality(todo) = 1 /\ own
<1>2. n \in Nat /\ n = Cardinality(fail)
  BY <1>1, FS_CardinalityType
<1>3. surviving = Least({i \in GroupIds(code) : cnt[i] = n}, n)
  OBVIOUS
<1>4. surviving \subseteq {i \in GroupIds(code) : cnt[i] = n}
  <2>1. PICK S : S = {i \in GroupIds(code) : cnt[i] = n}
    OBVIOUS
  <2>2. S \subseteq 0 .. code.l - 1
    BY <2>1 DEF GroupIds
  <2> HIDE DEF n
  <2>3. Least(S, n) \subseteq S
    BY <1>1, <1>2, <2>2, CountedGroups
  <2> QED
    BY <1>3, <2>1, <2>3
<1>5. own \in BOOLEAN /\ local \in BOOLEAN /\ alone \in BOOLEAN /\ (alone => Cardinality(todo) = 1)
  BY DEF GlobalsInLastGroup
<1>6. GlobalsAnswer(fail) =
        IF IsOptCau(code)
        THEN CASE n = 0 -> Undecodable
               [] n = 1 -> OptCauSingle(code, clusters, LeastOf(fail), FALSE, options.partial, 0)
               [] OTHER -> OptCauMultiGlobal(code, clusters, fail, local, options.partial, surviving)
        ELSE IF n = 1
        THEN LrcSingle(code, clusters, LeastOf(fail), alone, options.partial)
        ELSE IF own /\ ~options.globalFirst THEN AllAnswer(code, todo, FALSE)
        ELSE LrcMultiGlobal(code, clusters, fail, options.partial)
  BY DEF GlobalsAnswer
<1> HIDE DEF n, surviving, own, local, alone
<1>7. todo \cap (Data(code) \cup Globals(code)) \subseteq fail
  OBVIOUS
<1>8. AllAnswer(code, todo, FALSE).help \subseteq Blocks(code) \ todo
  BY <1>1, AnswersRead
<1>9. LrcMultiGlobal(code, clusters, fail, options.partial).help \subseteq Blocks(code) \ todo
  BY <1>1, <1>7, MultiGlobalReads
<1>10. ASSUME IsOptCau(code), n # 0
       PROVE  OptCauMultiGlobal(code, clusters, fail, local, options.partial, surviving).help
                \subseteq Blocks(code) \ todo
  <2>1. iter < 2
    <3>1. iter \in 0 .. MaxIter /\ (iter = 2 => fail = {})
      BY DEF CountInv
    <3>2. Cardinality({}) = 0
      BY FS_EmptySet
    <3> QED
      BY <1>2, <1>10, <3>1, <3>2 DEF MaxIter
  <2>2. ASSUME NEW i \in surviving, NEW b \in todo PROVE bid2gid(code, b) # i
    <3>1. i \in GroupIds(code) /\ cnt[i] = n
      BY <1>4, <2>2
    <3>2. cnt[i] = CountedIn(code, todo, i)
      BY <2>1, <3>1 DEF CountInv, CountsRight
    <3>3. IsFiniteSet(InGid(code, todo, i))
      BY <1>1, FS_Subset DEF InGid
    <3>4. Cardinality(InGid(code, todo, i)) \in Nat
      BY <3>3, FS_CardinalityType
    <3>5. Cardinality(InGid(code, todo, i)) = 0
      BY <1>2, <1>10, <3>1, <3>2, <3>4 DEF CountedIn
    <3>6. InGid(code, todo, i) = {}
      BY <3>3, <3>5, FS_EmptySet
    <3> QED
      BY <3>6 DEF InGid
  <2>3. \A b \in todo : bid2gid(code, b) \notin surviving
    BY <2>2
  <2>4. PICK near \in BOOLEAN : near = local
    BY <1>5
  <2>5. /\ code \in Codes /\ code.type \in LrcTypes /\ fail \in SUBSET Globals(code)
        /\ todo \cap (Data(code) \cup Globals(code)) \subseteq fail
        /\ near => \A b \in todo : bid2gid(code, b) \notin surviving
    BY <1>1, <1>7, <2>3
  <2>6. OptCauMultiGlobal(code, clusters, fail, near, options.partial, surviving).help
          \subseteq Blocks(code) \ todo
    BY ONLY <2>5, options.partial \in BOOLEAN, OptCauMultiGlobalReads
  <2> QED
    BY <2>4, <2>6
<1>11. ASSUME n = 1
       PROVE  /\ OptCauSingle(code, clusters, LeastOf(fail), FALSE, options.partial, 0).help
                   \subseteq Blocks(code) \ todo
              /\ LrcSingle(code, clusters, LeastOf(fail), alone, options.partial).help
                   \subseteq Blocks(code) \ todo
  <2>1. PICK f : fail = {f}
    BY <1>1, <1>2, <1>11, FS_Singleton
  <2>2. LeastOf(fail) = f
    BY <1>1, <2>1, LeastOfIsMember
  <2>3. f \in Globals(code) /\ f \notin Data(code) /\ f \in todo
    BY <1>1, <2>1, DataApart
  <2>4. todo \cap (Data(code) \cup Globals(code)) \subseteq {f}
    BY <1>7, <2>1
  <2>5. ASSUME alone PROVE todo = {f}
    <3>1. PICK e : todo = {e}
      BY <1>1, <1>5, <2>5, FS_Singleton
    <3> QED
      BY <2>3, <3>1
  <2>6. OptCauSingle(code, clusters, f, FALSE, options.partial, 0).help \subseteq Blocks(code) \ todo
    <3>1. 0 = IF f \in Globals(code) THEN 0 ELSE bid2gid(code, f)
      BY <2>3
    <3>2. PICK no \in BOOLEAN : no = FALSE
      OBVIOUS
    <3>3. OptCauSingle(code, clusters, f, no, options.partial, 0).help \subseteq Blocks(code) \ todo
      <4>1. OptCauSingleApart(code, f, todo, no, 0)
        BY <2>4, <3>2 DEF OptCauSingleApart
      <4>2. ReadsApart(code, OptCauSingle(code, clusters, f, no, options.partial, 0), todo)
        BY <1>1, <3>1, <4>1, OptCauSingleReads
      <4> QED
        BY <4>2 DEF ReadsApart
    <3> QED
      BY <3>2, <3>3
  <2>7. LrcSingle(code, clusters, f, alone, options.partial).help \subseteq Blocks(code) \ todo
    <3>1. alone => \A b \in todo : bid2gid(code, b) = bid2gid(code, f) => b = f
      BY <2>5
    <3>2. SingleApart(code, f, todo, alone, options.partial)
      BY <2>3, <2>4, <3>1 DEF SingleApart
    <3>3. ReadsApart(code, LrcSingle(code, clusters, f, alone, options.partial), todo)
      BY <1>1, <1>5, <3>2, SingleReads
    <3> QED
      BY <3>3 DEF ReadsApart
  <2> QED
    BY <2>2, <2>6, <2>7
<1>12. Undecodable.help = {}
  BY DEF Undecodable, Answer
<1> QED
  <2>1. CASE IsOptCau(code)
    <3>1. CASE n = 0
      BY <1>6, <1>12, <2>1, <3>1
    <3>2. CASE n = 1
      <4>1. GlobalsAnswer(fail) = OptCauSingle(code, clusters, LeastOf(fail), FALSE, options.partial, 0)
        BY ONLY <1>6, <2>1, <3>2
      <4> QED
        BY ONLY <4>1, <1>11, <3>2
    <3>3. CASE n # 0 /\ n # 1
      BY <1>6, <1>10, <2>1, <3>3
    <3> QED
      BY <3>1, <3>2, <3>3
  <2>2. CASE ~IsOptCau(code)
    BY <1>6, <1>8, <1>9, <1>11, <2>2, Zenon
  <2> QED
    BY <2>1, <2>2

\* Reed-Solomon plans.
LEMMA RsReads ==
  ASSUME NEW c, c.k \in Nat, c.m \in Nat, NEW cl, NEW f, NEW F, NEW early,
         NEW partial \in BOOLEAN
  PROVE  /\ RsSingle(c, cl, f, partial).help \subseteq RsBlocks(c) \ {f}
         /\ RsMulti(c, cl, F, early, partial).help \subseteq RsBlocks(c) \ F
<1>1. Data(c) \subseteq RsBlocks(c)
  BY DEF Data, RsBlocks
<1>2. /\ FirstSurvivors(c.k, cl, {f}, RsBlocks(c)) \subseteq RsBlocks(c) \ {f}
      /\ FirstSurvivors(c.k, cl, F, RsBlocks(c)) \subseteq RsBlocks(c) \ F
  BY FirstAreUsable
<1>3. RsSingle(c, cl, f, partial).help \subseteq RsBlocks(c) \ {f}
  <2>1. RsSingle(c, cl, f, partial).help =
          IF f \in Data(c) \/ partial THEN FirstSurvivors(c.k, cl, {f}, RsBlocks(c)) ELSE Data(c)
    BY DEF RsSingle, Answer
  <2> QED
    BY <1>1, <1>2, <2>1
<1>4. RsMulti(c, cl, F, early, partial).help \subseteq RsBlocks(c) \ F
  <2>1. RsMulti(c, cl, F, early, partial).help =
          IF F \cap Data(c) = {} /\ ~partial THEN Data(c) ELSE FirstSurvivors(c.k, cl, F, RsBlocks(c))
    BY DEF RsMulti, Answer
  <2> QED
    BY <1>1, <1>2, <2>1
<1> QED
  BY <1>3, <1>4

\* Product codes: a column that may be repaired has a cell in every row, ...
LEMMA ColumnReads ==
  ASSUME NEW c \in Codes, IsPc(c), NEW F, NEW col \in RepairCols(c)
  PROVE  ColumnAnswer(c, F, col).help \subseteq PcBlocks(c) \ F
<1>1. c.k1 \in Nat /\ c.m1 \in Nat /\ c.k2 \in Nat /\ c.m2 \in Nat
  BY CodesAssumption DEF IsPc
<1>2. PICK S : S = {i \in Rows(c) : rowcol2bid(c, i, col) \notin F}
  OBVIOUS
<1>3. IsFiniteSet(Rows(c)) /\ Rows(c) \subseteq Int
  <2>1. 0 \in Int /\ c.k2 + c.m2 - 1 \in Int
    BY <1>1
  <2>2. IsFiniteSet(0 .. c.k2 + c.m2 - 1)
    BY ONLY <2>1, FS_Interval, Zenon
  <2> QED
    BY <2>2 DEF Rows
<1>4. IsFiniteSet(S) /\ S \subseteq Int /\ S \subseteq Rows(c)
  BY <1>2, <1>3, FS_Subset
<1>5. Least(S, c.k2) \subseteq S
  <2>1. c.k2 \in Int
    BY <1>1
  <2> QED
    BY <1>4, <2>1, LeastSubset
<1>6. \A row \in Rows(c) : <<row, col>> \in Cells(c)
  BY <1>1 DEF Cells, RepairCols, Columns, Rows
<1>7. ColumnAnswer(c, F, col).help = {rowcol2bid(c, row, col) : row \in Least(S, c.k2)}
  BY <1>2 DEF ColumnAnswer, Answer
<1>8. ASSUME NEW row \in Rows(c) PROVE rowcol2bid(c, row, col) \in PcBlocks(c)
  <2>1. PICK x \in Cells(c) : x = <<row, col>>
    BY <1>6
  <2>2. rowcol2bid(c, x[1], x[2]) \in PcBlocks(c)
    BY DEF PcBlocks
  <2> QED
    BY <2>1, <2>2
<1> QED
  BY <1>2, <1>5, <1>7, <1>8

\* ... and a row one in every column.
LEMMA RowReads ==
  ASSUME NEW c \in Codes, IsPc(c), NEW cl, NEW F, NEW row \in RepairRows(c),
         NEW partial \in BOOLEAN
  PROVE  RowAnswer(c, cl, F, row, partial).help \subseteq PcBlocks(c) \ F
<1>1. c.k1 \in Nat /\ c.m1 \in Nat /\ c.k2 \in Nat /\ c.m2 \in Nat
  BY CodesAssumption DEF IsPc
<1>0. PICK d : d = RowCode(c)
  OBVIOUS
<1>2. d = RowCode(c) /\ d.k = c.k1 /\ d.m = c.m1
  BY <1>0 DEF RowCode
<1>3. \A col \in Columns(c) : <<row, col>> \in Cells(c)
  BY <1>1 DEF Cells, RepairRows, Columns, Rows
<1>4. ASSUME NEW col \in Columns(c) PROVE rowcol2bid(c, row, col) \in PcBlocks(c)
  <2>1. PICK x \in Cells(c) : x = <<row, col>>
    BY <1>3
  <2>2. rowcol2bid(c, x[1], x[2]) \in PcBlocks(c)
    BY DEF PcBlocks
  <2> QED
    BY <2>1, <2>2
<1>5. RsBlocks(d) = Columns(c)
  BY <1>2 DEF RsBlocks, Columns
<1>6. PICK L, early : /\ L = {ColOf(c, b) : b \in LostInRow(c, F, row)}
                      /\ RowAnswer(c, cl, F, row, partial).help =
                           {rowcol2bid(c, row, col) : col \in RsMulti(d, cl, L, early, partial).help}
  BY <1>2 DEF RowAnswer, Answer
<1>7. RsMulti(d, cl, L, early, partial).help \subseteq Columns(c) \ L
  BY <1>1, <1>2, <1>5, RsReads
<1>8. ASSUME NEW col \in Columns(c) \ L PROVE rowcol2bid(c, row, col) \notin F
  <2>1. PICK b : b = rowcol2bid(c, row, col)
    OBVIOUS
  <2>2. bid2rowcol(c, b) = <<row, col>>
    <3>1. row \in Rows(c)
      BY <1>1 DEF RepairRows, Rows
    <3>2. /\ c.k1 \in Nat \ {0} /\ c.m1 \in Nat \ {0}
          /\ c.k2 \in Nat \ {0} /\ c.m2 \in Nat \ {0}
      BY CodesAssumption DEF IsPc
    <3> QED
      BY <2>1, <3>1, <3>2, CellTrip
  <2>3. RowOf(c, b) = row /\ ColOf(c, b) = col
    BY <2>2 DEF RowOf, ColOf
  <2>4. ASSUME b \in F PROVE FALSE
    BY <1>6, <2>3, <2>4 DEF LostInRow
  <2> QED
    BY <2>1, <2>4
<1> QED
  BY <1>4, <1>6, <1>7, <1>8

----------------------------------------------------------------------------
(* The options and the number of passes.                                    *)

\* The options and the step are those of the code, and the passes end.
ShapeInv ==
  /\ options \in [partial : BOOLEAN, globalFirst : BOOLEAN, method2 : BOOLEAN]
  /\ step \in {"place", "placed", "plan", "groups", "rest", "data", "concrete",
               "done", "refused", "wild"}
  /\ iter \in 0 .. MaxIter + 1

\* The planner starts with options of the code.
LEMMA ShapeInit == Init => ShapeInv
  BY DEF Init, ShapeInv, MaxIter

\* No step leaves the options, the steps or the passes of the code.
LEMMA ShapeStep ==
  ASSUME CountInv, ShapeInv, Next
  PROVE  ShapeInv'
<1>1. CASE PlaceFlat \/ PlaceOptimal \/ PlaceRandom \/ SqueezeLast \/ EndRandom
  BY <1>1 DEF PlaceFlat, PlaceOptimal, PlaceRandom, SqueezeLast, EndRandom, ShapeInv, MaxIter
<1>2. CASE Lose
  BY <1>2 DEF Lose, ShapeInv, MaxIter
<1>3. CASE PlanRs \/ RepairColumn \/ RepairRow \/ RefusePc
  BY <1>3, AfterPlansIs
     DEF PlanRs, RepairColumn, RepairRow, RefusePc, AfterPcPlan, Refuse, ShapeInv, MaxIter
<1>4. CASE RefuseLrc \/ PlanSingle \/ PlanSingleOptCau \/ StartMulti
  BY <1>4, AfterPlansIs
     DEF RefuseLrc, PlanSingle, PlanSingleOptCau, StartMulti, Refuse, ShapeInv, MaxIter
<1>5. CASE RepairGlobalInGroup \/ EndGroups \/ GroupsAgain
  <2>1. /\ UNCHANGED options /\ iter' \in {iter, 1}
        /\ step' \in {"groups", "data", "rest", AfterPlans}
    BY <1>5 DEF RepairGlobalInGroup, EndGroups, GroupsAgain
  <2> QED
    BY <2>1, AfterPlansIs DEF ShapeInv, MaxIter
<1>6. CASE RepairGroup
  <2>1. UNCHANGED <<options, iter>> /\ step = "groups" /\ step' \in {"groups", "wild"}
    BY <1>6 DEF RepairGroup
  <2> QED
    BY <2>1 DEF ShapeInv, MaxIter
<1>7. CASE RepairRest
  <2>1. UNCHANGED <<options, iter>> /\ step' \in {"refused", AfterPlans}
    BY <1>7 DEF RepairRest, Refuse
  <2> QED
    BY <2>1, AfterPlansIs DEF ShapeInv, MaxIter
<1>8. CASE RepairData
  <2>1. UNCHANGED <<options, iter>> /\ step' \in {"refused", "data", AfterPlans}
    BY <1>8 DEF RepairData, Refuse
  <2> QED
    BY <2>1, AfterPlansIs DEF ShapeInv, MaxIter
<1>9. CASE RepairGlobals
  <2>1. /\ UNCHANGED options /\ iter' = iter + 1 /\ step = "data"
        /\ step' \in {"refused", "groups", AfterPlans}
    BY <1>9 DEF RepairGlobals
  <2>2. iter \in 0 .. MaxIter
    BY <2>1 DEF CountInv
  <2> QED
    BY <2>1, <2>2, AfterPlansIs DEF ShapeInv, MaxIter
<1>10. CASE Concretise
  <2>1. UNCHANGED <<options, iter>> /\ step' \in {"wild", "done", "concrete"}
    BY <1>10 DEF Concretise
  <2> QED
    BY <2>1 DEF ShapeInv, MaxIter
<1>11. CASE Stop
  BY <1>11 DEF Stop, vars, ShapeInv, MaxIter
<1> QED
  BY <1>1, <1>2, <1>3, <1>4, <1>5, <1>6, <1>7, <1>8, <1>9, <1>10, <1>11 DEF Next

----------------------------------------------------------------------------
(* What the plans read.                                                     *)

\* Every plan reads blocks of the stripe, none of which is still lost in its turn.
HelpInv ==
  /\ \A n \in DOMAIN plans : plans[n].help \subseteq BlocksOf(code)
  /\ ReadsInOrder

\* A plan that reads nothing that no earlier plan restores keeps the invariant.
LEMMA EmitReads ==
  ASSUME Split, HelpInv, NEW fail, NEW answer, NEW local, Emit(fail, answer, local),
         code' = code, lost' = lost, answer.help \subseteq BlocksOf(code) \ todo
  PROVE  HelpInv'
<1> DEFINE p == [fail |-> fail, par |-> answer.par, help |-> answer.help, local |-> local]
           R == ToSet(plans) \cup {p}
<1>1. plans' = Append(plans, p)
  BY DEF Emit
<1>2. plans \in Seq(R) /\ p \in R /\ p.help = answer.help
  BY DEF Split
<1> HIDE DEF p, R
<1>3. /\ DOMAIN plans = 1 .. Len(plans) /\ Len(plans) \in Nat
      /\ DOMAIN plans' = 1 .. Len(plans) + 1
      /\ \A n \in 1 .. Len(plans) : plans'[n] = plans[n]
      /\ plans'[Len(plans) + 1] = p
  BY <1>1, <1>2
<1>4. ASSUME NEW n \in DOMAIN plans'
      PROVE  /\ plans'[n].help \subseteq BlocksOf(code)
             /\ plans'[n].help \cap (lost \ UNION {plans'[i].fail : i \in 1 .. n - 1}) = {}
  <2>1. n \in 1 .. Len(plans) \/ n = Len(plans) + 1
    BY <1>3
  <2>2. UNION {plans'[i].fail : i \in 1 .. n - 1} = UNION {plans[i].fail : i \in 1 .. n - 1}
    <3>1. \A i \in 1 .. n - 1 : plans'[i] = plans[i]
      BY <2>1, <1>3
    <3> QED
      BY <3>1
  <2>3. CASE n \in 1 .. Len(plans)
    BY <2>2, <2>3, <1>3 DEF HelpInv, ReadsInOrder
  <2>4. CASE n = Len(plans) + 1
    <3>1. 1 .. n - 1 = DOMAIN plans
      BY <1>3, <2>4
    <3>2. lost \ UNION {plans[i].fail : i \in 1 .. n - 1} \subseteq todo
      BY <3>1 DEF Split
    <3> QED
      BY <2>2, <2>4, <3>2, <1>2, <1>3
  <2> QED
    BY <2>1, <2>3, <2>4
<1>5. BlocksOf(code') = BlocksOf(code)
  OBVIOUS
<1>6. ReadsInOrder'
  BY <1>4 DEF ReadsInOrder
<1> QED
  BY <1>4, <1>5, <1>6 DEF HelpInv, BlocksOf, IsPc

\* There is no plan yet.
LEMMA HelpInit == Init => HelpInv
  BY DEF Init, HelpInv, ReadsInOrder

\* One of the groups that count one lost block has lost the global parity block f
\* of the optimal Cauchy code, and nothing else.
LEMMA AloneInGroup ==
  ASSUME PlanInv, CountInv, step = "groups", IsOptCau(code), NEW i \in OneLost,
         NEW f \in LostGlobalLeft
  PROVE  \A b \in todo : bid2gid(code, b) = i \/ b \in Globals(code) => b = f
<1>1. IsLrc(code) /\ i \in GroupIds(code) /\ cnt[i] = 1
  BY DEF PlanInv, Progress, OneLost
<1>2. IsFiniteSet(todo)
  BY <1>1, LossIsFinite
<1>3. iter < 2
  BY DEF CountInv, MaxIter
<1>4. CountedIn(code, todo, i) = 1
  BY <1>1, <1>3 DEF CountInv, CountsRight
<1>5. IsFiniteSet(InGid(code, todo, i)) /\ IsFiniteSet(todo \cap Globals(code))
  BY <1>2, FS_Subset DEF InGid
<1>6. PICK a \in Nat, n \in Nat :
        a = Cardinality(InGid(code, todo, i)) /\ n = Cardinality(todo \cap Globals(code))
  BY <1>5, FS_CardinalityType
<1>7. a + n = 1
  BY <1>4, <1>6 DEF CountedIn
<1>8. n # 0
  BY <1>5, <1>6, FS_EmptySet DEF LostGlobalLeft
<1>9. a = 0 /\ n = 1
  BY <1>7, <1>8
<1>10. InGid(code, todo, i) = {}
  BY <1>5, <1>6, <1>9, FS_EmptySet
<1>11. PICK g : todo \cap Globals(code) = {g}
  BY <1>5, <1>6, <1>9, FS_Singleton
<1> QED
  BY <1>10, <1>11 DEF InGid, LostGlobalLeft

\* Every plan made reads blocks of the stripe that are left or restored.
LEMMA HelpStep ==
  ASSUME PlanInv, CountInv, ShapeInv, HelpInv, Next
  PROVE  HelpInv'
<1>0. code \in Codes /\ Split /\ options.partial \in BOOLEAN /\ options.globalFirst \in BOOLEAN
  BY DEF PlanInv, OfTheCode, ShapeInv
<1>1. ASSUME UNCHANGED <<code, lost, plans>> PROVE HelpInv'
  BY <1>1 DEF HelpInv, ReadsInOrder, BlocksOf, IsPc
<1>2. ASSUME IsLrc(code)
      PROVE  /\ BlocksOf(code) = Blocks(code) /\ code.type \in LrcTypes
             /\ IsFiniteSet(todo) /\ todo \subseteq Nat
  BY <1>0, <1>2, LrcBlocksAreNat, LossIsFinite DEF IsLrc
<1>3. CASE PlaceFlat \/ PlaceOptimal \/ PlaceRandom \/ SqueezeLast \/ EndRandom
  BY <1>1, <1>3 DEF PlaceFlat, PlaceOptimal, PlaceRandom, SqueezeLast, EndRandom
<1>4. CASE RefusePc \/ RefuseLrc \/ StartMulti \/ EndGroups \/ GroupsAgain \/ Concretise \/ Stop
  BY <1>1, <1>4
     DEF RefusePc, RefuseLrc, StartMulti, EndGroups, GroupsAgain, Concretise, Stop, vars
<1>14. CASE Lose
  <2>1. plans = <<>> /\ plans' = plans
    BY <1>14 DEF Lose, PlanInv, Progress
  <2>2. DOMAIN plans' = {}
    BY <2>1
  <2> QED
    BY <2>2 DEF HelpInv, ReadsInOrder
<1>5. CASE PlanRs
  <2>1. code.type = "RS" /\ code' = code /\ lost' = lost /\ todo = lost
    BY <1>5 DEF PlanRs, PlanInv, Progress, IsPc, PcTypes
  <2>2. BlocksOf(code) = RsBlocks(code) /\ code.k \in Nat /\ code.m \in Nat
    <3>1. code.k \in Nat /\ code.m \in Nat
      BY <1>0, <2>1, CodesAssumption
    <3> QED
      BY <2>1, <3>1 DEF BlocksOf, IsPc, PcTypes
  <2>3. PICK f, early :
          /\ f = CHOOSE b \in lost : TRUE
          /\ Emit(lost, IF Cardinality(lost) = 1
                        THEN RsSingle(code, clusters, f, options.partial)
                        ELSE RsMulti(code, clusters, lost, early, options.partial), FALSE)
    BY <1>5 DEF PlanRs
  <2>6. PICK answer : answer = IF Cardinality(lost) = 1
                               THEN RsSingle(code, clusters, f, options.partial)
                               ELSE RsMulti(code, clusters, lost, early, options.partial)
    OBVIOUS
  <2>4. Emit(lost, answer, FALSE)
    BY <2>3, <2>6
  <2>5. answer.help \subseteq BlocksOf(code) \ todo
    <3>1. /\ RsSingle(code, clusters, f, options.partial).help \subseteq RsBlocks(code) \ {f}
          /\ RsMulti(code, clusters, lost, early, options.partial).help
               \subseteq RsBlocks(code) \ lost
      BY <1>0, <2>2, RsReads
    <3>2. ASSUME Cardinality(lost) = 1 PROVE lost = {f}
      <4>1. IsFiniteSet(lost)
        <5>1. 0 \in Int /\ code.k + code.m - 1 \in Int
          BY <2>2
        <5>2. IsFiniteSet(0 .. code.k + code.m - 1)
          BY ONLY <5>1, FS_Interval, Zenon
        <5>3. lost \subseteq 0 .. code.k + code.m - 1
          BY <2>2 DEF PlanInv, OfTheCode, RsBlocks
        <5> QED
          BY <5>2, <5>3, FS_Subset
      <4>2. PICK e : lost = {e}
        BY <3>2, <4>1, FS_Singleton
      <4> QED
        BY <2>3, <4>2
    <3> QED
      BY <3>1, <3>2, <2>1, <2>2, <2>6
  <2> QED
    BY <1>0, <2>1, <2>4, <2>5, EmitReads
<1>6. CASE RepairColumn
  <2>1. IsPc(code) /\ code' = code /\ lost' = lost /\ RestorableCols(code, todo) # {}
    BY <1>6 DEF RepairColumn
  <2>2. BlocksOf(code) = PcBlocks(code)
    BY <2>1 DEF BlocksOf, IsPc, PcTypes
  <2>3. PICK col : /\ col = LeastOf(RestorableCols(code, todo))
                   /\ Emit(LostInCol(code, todo, col), ColumnAnswer(code, todo, col), TRUE)
    BY <1>6 DEF RepairColumn
  <2>4. col \in RepairCols(code)
    <3>1. code.k1 \in Nat /\ code.m1 \in Nat
      BY <1>0, <2>1, CodesAssumption DEF IsPc
    <3>2. RestorableCols(code, todo) \subseteq Nat
      BY <3>1 DEF RestorableCols, RepairCols, Columns
    <3>3. col \in RestorableCols(code, todo)
      BY <2>1, <2>3, <3>2, LeastOfIsMember
    <3> QED
      BY <3>3 DEF RestorableCols
  <2>5. ColumnAnswer(code, todo, col).help \subseteq BlocksOf(code) \ todo
    BY <1>0, <2>1, <2>2, <2>4, ColumnReads
  <2> QED
    BY <1>0, <2>1, <2>3, <2>5, EmitReads
<1>7. CASE RepairRow
  <2>1. IsPc(code) /\ code' = code /\ lost' = lost /\ RestorableRows(code, todo) # {}
    BY <1>7 DEF RepairRow
  <2>2. BlocksOf(code) = PcBlocks(code)
    BY <2>1 DEF BlocksOf, IsPc, PcTypes
  <2>3. PICK row : /\ row = LeastOf(RestorableRows(code, todo))
                   /\ Emit(LostInRow(code, todo, row),
                           RowAnswer(code, clusters, todo, row, options.partial), FALSE)
    BY <1>7 DEF RepairRow
  <2>4. row \in RepairRows(code)
    <3>1. code.k2 \in Nat /\ code.m2 \in Nat
      BY <1>0, <2>1, CodesAssumption DEF IsPc
    <3>2. RestorableRows(code, todo) \subseteq Nat
      BY <3>1 DEF RestorableRows, RepairRows, Rows
    <3>3. row \in RestorableRows(code, todo)
      BY <2>1, <2>3, <3>2, LeastOfIsMember
    <3> QED
      BY <3>3 DEF RestorableRows
  <2>5. RowAnswer(code, clusters, todo, row, options.partial).help \subseteq BlocksOf(code) \ todo
    BY <1>0, <2>1, <2>2, <2>4, RowReads
  <2> QED
    BY <1>0, <2>1, <2>3, <2>5, EmitReads
<1>8. ASSUME PlanSingle \/ PlanSingleOptCau, NEW f, f = LeastOf(lost)
      PROVE  todo = {f} /\ IsLrc(code) /\ code' = code /\ lost' = lost
  <2>1. IsLrc(code) /\ code' = code /\ lost' = lost /\ Cardinality(lost) = 1 /\ step = "plan"
    BY <1>8 DEF PlanSingle, PlanSingleOptCau, IsLrc, IsOptCau, LrcTypes
  <2>2. todo = lost
    BY <2>1 DEF PlanInv, Progress, IsLrc, IsPc, LrcTypes, PcTypes
  <2>3. PICK e : todo = {e}
    BY <1>2, <2>1, <2>2, FS_Singleton
  <2>4. LeastOf(todo) \in todo
    BY <1>2, <2>1, <2>3, LeastOfIsMember
  <2> QED
    BY <1>8, <2>1, <2>2, <2>3, <2>4
<1>15. CASE PlanSingle
  <2>5. PICK f : f = LeastOf(lost)
    OBVIOUS
  <2>6. PICK local : local = (bid2gid(code, f) < code.l)
    OBVIOUS
  <2>7. local \in BOOLEAN
    BY <2>6
  <2>1. Emit({f}, LrcSingle(code, clusters, f, local, options.partial), local)
    BY <1>15, <2>5, <2>6 DEF PlanSingle
  <2>2. todo = {f} /\ IsLrc(code) /\ code' = code /\ lost' = lost
    BY <1>8, <1>15, <2>5
  <2>3. ~local => f \notin Data(code)
    <3> SUFFICES ASSUME f \in Data(code) PROVE local
      OBVIOUS
    <3>1. bid2gid(code, f) \in GroupIds(code)
      BY <1>0, <1>2, <2>2, DataInGroup
    <3>2. code.l \in Nat
      BY <1>0, <1>2, <2>2, LrcNumbers
    <3>3. bid2gid(code, f) < code.l
      BY <3>1, <3>2 DEF GroupIds
    <3> QED
      BY <2>6, <3>3
  <2>4. LrcSingle(code, clusters, f, local, options.partial).help \subseteq BlocksOf(code) \ todo
    <3>1. /\ local => \A b \in todo : bid2gid(code, b) = bid2gid(code, f) => b = f
          /\ ~local => todo \cap (Data(code) \cup Globals(code)) \subseteq {f}
          /\ ~local /\ ~options.partial => f \notin Data(code)
      BY <2>2, <2>3
    <3>2. SingleApart(code, f, todo, local, options.partial)
      BY <3>1 DEF SingleApart
    <3>3. ReadsApart(code, LrcSingle(code, clusters, f, local, options.partial), todo)
      BY <1>0, <1>2, <2>2, <2>7, <3>2, SingleReads
    <3> QED
      BY <1>2, <2>2, <3>3 DEF ReadsApart
  <2> QED
    BY <1>0, <2>1, <2>2, <2>4, EmitReads
<1>16. CASE PlanSingleOptCau
  <2>5. PICK f : f = LeastOf(lost)
    OBVIOUS
  <2>6. PICK local \in BOOLEAN :
          local = (f \in Locals(code) \/ r(code) + code.g < code.k)
    OBVIOUS
  <2>1. Emit({f}, OptCauSingle(code, clusters, f, local, options.partial, 0), TRUE)
    BY <1>16, <2>5, <2>6 DEF PlanSingleOptCau
  <2>2. todo = {f} /\ IsLrc(code) /\ code' = code /\ lost' = lost
    BY <1>8, <1>16, <2>5
  <2>3. PICK gid : gid = IF f \in Globals(code) THEN 0 ELSE bid2gid(code, f)
    OBVIOUS
  <2>4. OptCauSingle(code, clusters, f, local, options.partial, 0).help \subseteq BlocksOf(code) \ todo
    <3>1. /\ local => \A b \in todo : bid2gid(code, b) = gid \/ b \in Globals(code) => b = f
          /\ ~local => todo \cap (Data(code) \cup Globals(code)) \subseteq {f}
      BY <2>2
    <3>2. OptCauSingleApart(code, f, todo, local, gid)
      BY <3>1 DEF OptCauSingleApart
    <3>3. ReadsApart(code, OptCauSingle(code, clusters, f, local, options.partial, 0), todo)
      BY <1>0, <1>2, <2>2, <2>3, <3>2, OptCauSingleReads
    <3> QED
      BY <1>2, <2>2, <3>3 DEF ReadsApart
  <2> QED
    BY <1>0, <2>1, <2>2, <2>4, EmitReads
<1>9. CASE RepairGlobalInGroup
  <2>1. /\ IsLrc(code) /\ IsOptCau(code) /\ code' = code /\ lost' = lost
        /\ step = "groups" /\ LostGlobalLeft # {} /\ OneLost # {}
    BY <1>9 DEF RepairGlobalInGroup, IsLrc, IsOptCau, LrcTypes
  <2>8. PICK f, at : f = LeastOf(LostGlobalLeft) /\ at = LeastOf(OneLost)
    OBVIOUS
  <2>9. PICK local \in BOOLEAN : local = ~(iter > 0 /\ r(code) + code.g >= code.k)
    OBVIOUS
  <2>2. Emit({f}, OptCauSingle(code, clusters, f, local, options.partial, at), TRUE)
    BY <1>9, <2>8, <2>9 DEF RepairGlobalInGroup
  <2>3. at \in OneLost /\ f \in LostGlobalLeft /\ f \in todo /\ f \in Globals(code)
    <3>1. LostGlobalLeft \subseteq Nat
      BY <1>2, <2>1 DEF LostGlobalLeft
    <3>2. f \in LostGlobalLeft
      BY <2>1, <2>8, <3>1, LeastOfIsMember
    <3> QED
      BY <2>1, <2>8, <3>2, TheGroup DEF LostGlobalLeft
  <2>4. \A b \in todo : bid2gid(code, b) = at \/ b \in Globals(code) => b = f
    BY <2>1, <2>3, AloneInGroup
  <2>5. ~local => todo \cap (Data(code) \cup Globals(code)) \subseteq {f}
    <3>1. ~local => todo \cap Data(code) = {}
      BY <2>1, <2>9 DEF CountInv
    <3> QED
      BY <2>4, <3>1
  <2>6. at = IF f \in Globals(code) THEN at ELSE bid2gid(code, f)
    BY <2>3
  <2>7. OptCauSingle(code, clusters, f, local, options.partial, at).help
          \subseteq BlocksOf(code) \ todo
    <3>1. OptCauSingleApart(code, f, todo, local, at)
      BY <2>4, <2>5 DEF OptCauSingleApart
    <3>2. ReadsApart(code, OptCauSingle(code, clusters, f, local, options.partial, at), todo)
      BY <1>0, <1>2, <2>1, <2>6, <3>1, OptCauSingleReads
    <3> QED
      BY <1>2, <2>1, <3>2 DEF ReadsApart
  <2> QED
    BY <1>0, <2>1, <2>2, <2>7, EmitReads
<1>10. CASE RepairGroup
  <2>1. /\ step = "groups" /\ code' = code /\ lost' = lost /\ OneLost # {}
        /\ IsOptCau(code) => LostGlobalLeft = {}
    BY <1>10 DEF RepairGroup
  <2>2. IsLrc(code)
    BY <2>1 DEF PlanInv, Progress
  <2>3. PICK i \in OneLost : i = LeastOf(OneLost)
    BY <2>1, TheGroup
  <2>4. Cardinality(InGroup(todo, i)) = 1 /\ InGroup(todo, i) # {}
    BY <2>1, <2>3, OneLostIsLost
  <2>5. PICK f : InGroup(todo, i) = {f}
    <3>1. IsFiniteSet(InGroup(todo, i))
      BY <1>2, <2>2, FS_Subset DEF InGroup
    <3> QED
      BY <2>4, <3>1, FS_Singleton
  <2>6. LeastOf(InGroup(todo, i)) = f
    <3>1. InGroup(todo, i) \subseteq Nat
      BY <1>2, <2>2 DEF InGroup
    <3> QED
      BY <2>5, <3>1, LeastOfIsMember
  <2>7. Emit({f}, SingleInGroup(f), TRUE)
    BY <1>10, <2>3, <2>4, <2>6 DEF RepairGroup
  <2>8. f \in todo /\ bid2gid(code, f) = i /\ \A b \in todo : bid2gid(code, b) = i => b = f
    BY <2>5 DEF InGroup
  <2>9. SingleInGroup(f).help \subseteq BlocksOf(code) \ todo
    <3>0. PICK yes \in BOOLEAN : yes = TRUE
      OBVIOUS
    <3>1. CASE IsOptCau(code)
      <4>1. todo \cap Globals(code) = {}
        BY <2>1, <3>1 DEF LostGlobalLeft
      <4>2. /\ i = IF f \in Globals(code) THEN 0 ELSE bid2gid(code, f)
            /\ \A b \in todo : bid2gid(code, b) = i \/ b \in Globals(code) => b = f
            /\ ~yes => todo \cap (Data(code) \cup Globals(code)) \subseteq {f}
        BY <2>8, <3>0, <4>1
      <4>3. OptCauSingleApart(code, f, todo, yes, i)
        BY <4>2 DEF OptCauSingleApart
      <4>4. ReadsApart(code, OptCauSingle(code, clusters, f, yes, options.partial, 0), todo)
        BY <1>0, <1>2, <2>2, <4>2, <4>3, OptCauSingleReads
      <4> QED
        BY <1>2, <2>2, <3>0, <3>1, <4>4 DEF SingleInGroup, ReadsApart
    <3>2. CASE ~IsOptCau(code)
      <4>1. /\ yes => \A b \in todo : bid2gid(code, b) = bid2gid(code, f) => b = f
            /\ ~yes => todo \cap (Data(code) \cup Globals(code)) \subseteq {f}
            /\ ~yes /\ ~options.partial => f \notin Data(code)
        BY <2>8, <3>0
      <4>2. SingleApart(code, f, todo, yes, options.partial)
        BY <4>1 DEF SingleApart
      <4>3. ReadsApart(code, LrcSingle(code, clusters, f, yes, options.partial), todo)
        BY <1>0, <1>2, <2>2, <4>2, SingleReads
      <4> QED
        BY <1>2, <2>2, <3>0, <3>2, <4>3 DEF SingleInGroup, ReadsApart
    <3> QED
      BY <3>1, <3>2
  <2> QED
    BY <1>0, <2>1, <2>7, <2>9, EmitReads
<1>11. CASE RepairRest
  <2>1. code' = code /\ lost' = lost
    BY <1>11 DEF RepairRest
  <2>2. CASE UNCHANGED plans
    BY <1>1, <2>1, <2>2
  <2>3. CASE Emit(todo, RestAnswer, FALSE)
    <3>1. IsLrc(code)
      BY <1>11 DEF RepairRest, PlanInv, Progress
    <3>2. RestAnswer.help \subseteq BlocksOf(code) \ todo
      BY <1>0, <1>2, <3>1, RestReads
    <3> QED
      BY <1>0, <2>1, <2>3, <3>2, EmitReads
  <2> QED
    BY <1>11, <2>2, <2>3 DEF RepairRest
<1>12. CASE RepairData
  <2>1. code' = code /\ lost' = lost /\ IsLrc(code)
    BY <1>12 DEF RepairData, PlanInv, Progress
  <2> DEFINE answer == DataAnswer(code, todo, options.globalFirst)
  <2>2. CASE UNCHANGED plans
    BY <1>1, <2>1, <2>2
  <2>3. CASE Emit(todo \cap Data(code), answer, FALSE)
    <3>1. answer.help \subseteq BlocksOf(code) \ todo
      BY <1>0, <1>2, <2>1, AnswersRead
    <3> QED
      BY <1>0, <2>1, <2>3, <3>1, EmitReads
  <2> QED
    BY <1>12, <2>2, <2>3 DEF RepairData
<1>13. CASE RepairGlobals
  <2>1. /\ code' = code /\ lost' = lost /\ IsLrc(code)
        /\ step = "data" /\ todo \cap Data(code) = {} /\ iter > 0
    BY <1>13 DEF RepairGlobals, PlanInv, Progress
  <2>2. PICK fail : fail = todo \cap Globals(code) /\ Emit(fail, GlobalsAnswer(fail), FALSE)
    BY <1>13 DEF RepairGlobals
  <2>3. GlobalsAnswer(fail).help \subseteq BlocksOf(code) \ todo
    BY <1>0, <1>2, <2>1, <2>2, GlobalsRead
  <2> QED
    BY <1>0, <2>1, <2>2, <2>3, EmitReads
<1> QED
  BY <1>3, <1>4, <1>5, <1>6, <1>7, <1>9, <1>10, <1>11, <1>12, <1>13, <1>14, <1>15, <1>16 DEF Next

----------------------------------------------------------------------------
(* Nodes.                                                                   *)

\* Where the blocks were placed.
Home0 == Homes(code, clusters)
\* The blocks that have a new node.
Restored == UNION {plans[n].fail : n \in 1 .. made}
\* Those of them that are in cluster i.
Moved(i) == {b \in Restored : ClusterOf(b) = i}

\* A block that has no new node is where it was placed, and all stay in their cluster.
HomeInv ==
  /\ DOMAIN home = BlocksOf(code)
  /\ \A b \in DOMAIN home : ClusterOf(b) = Home0[b][1]
  /\ \A b \in DOMAIN home \ Restored : home[b] = Home0[b]

\* What is not free in cluster i was taken from the start or given to a restored block.
TakenFor(i) == 1 .. Len(clusters[i]) \cup {home[b][2] : b \in Moved(i)}

\* A restored block is on none of the nodes that are free still, nor with another.
RoomInv ==
  /\ DOMAIN free \subseteq DOMAIN clusters
  /\ \A b \in Restored : ClusterOf(b) \in DOMAIN free
  /\ \A i \in DOMAIN free : /\ free[i] \subseteq 1 .. NodesPerCluster
                           /\ (1 .. NodesPerCluster) \ free[i] \subseteq TakenFor(i)
  /\ \A b \in Restored : home[b][2] \notin free[ClusterOf(b)]
  /\ \A b, o \in Restored : b # o => home[b] # home[o]

\* A restored block is on no node on which its plan restores or reads a block.
AvoidInv ==
  \A n \in 1 .. made : \A b \in plans[n].fail :
    \A o \in BlocksOf(code) \cap (plans[n].fail \cup (plans[n].help \ lost)) :
      ClusterOf(b) = Home0[o][1] => home[b][2] # Home0[o][2]

\* What is known of the nodes while they are chosen.
Targeted == HomeInv /\ RoomInv /\ AvoidInv

\* When that is known, and where the plans are carried out.
NodesInv ==
  /\ made \in 0 .. Len(plans)
  /\ step \in {"place", "placed", "plan", "groups", "data", "rest"} => made = 0 /\ free = <<>>
  /\ step = "concrete" => code \in TargetCodes
  /\ step \notin {"place", "placed"} /\ code \in TargetCodes => Targeted
  /\ step = "done" /\ code \in TargetCodes => made = Len(plans)

\* b was placed on a node of its own of the cluster that holds it.
PlacedAt(c, cl, b) ==
  LET at == Homes(c, cl)[b] IN
  /\ at = <<at[1], at[2]>>
  /\ at[1] \in DOMAIN cl /\ at[2] \in 1 .. Len(cl[at[1]])
  /\ cl[at[1]][at[2]] = b /\ b \in ToSet(cl[at[1]])
  /\ \A i \in DOMAIN cl : b \in ToSet(cl[i]) => i = at[1]

\* Homes finds the place of every block in clusters that hold each once.
LEMMA HomesPlace ==
  ASSUME NEW c, NEW U, NEW cl, Spreads(cl, U)
  PROVE  /\ DOMAIN Homes(c, cl) = U
         /\ \A b \in U : PlacedAt(c, cl, b)
<1>1. UNION {ToSet(cl[i]) : i \in DOMAIN cl} = U
  BY DEF Spreads
<1> DEFINE In(b) == CHOOSE j \in DOMAIN cl : b \in ToSet(cl[j])
           At(b) == <<In(b), CHOOSE n \in DOMAIN cl[In(b)] : cl[In(b)][n] = b>>
<1>2. Homes(c, cl) = [b \in U |-> At(b)]
  BY <1>1 DEF Homes
<1>3. ASSUME NEW b \in U PROVE PlacedAt(c, cl, b)
  <2>1. \E j \in DOMAIN cl : b \in ToSet(cl[j])
    BY <1>1
  <2>2. In(b) \in DOMAIN cl /\ b \in ToSet(cl[In(b)])
    BY <2>1
  <2> HIDE DEF In
  <2>3. \E n \in DOMAIN cl[In(b)] : cl[In(b)][n] = b
    BY <2>2 DEF ToSet
  <2>4. PICK i, n : At(b) = <<i, n>> /\ i = In(b) /\ n \in DOMAIN cl[i] /\ cl[i][n] = b
    BY <2>3
  <2>5. Homes(c, cl)[b] = <<i, n>>
    BY <1>2, <2>4
  <2>6. DOMAIN cl[i] = 1 .. Len(cl[i])
    BY <2>2, <2>4, ClusterParts
  <2>7. \A j \in DOMAIN cl : b \in ToSet(cl[j]) => j = i
    BY <2>2, <2>4 DEF Spreads
  <2> QED
    BY <2>2, <2>4, <2>5, <2>6, <2>7 DEF PlacedAt
<1> QED
  BY <1>2, <1>3

\* The blocks of a code whose nodes are chosen.
LEMMA TargetBlocks ==
  ASSUME ClusterInv, code \in TargetCodes, step # "place"
  PROVE  /\ Spreads(clusters, BlocksOf(code)) /\ DOMAIN Home0 = BlocksOf(code)
         /\ \A b \in BlocksOf(code) : PlacedAt(code, clusters, b)
         /\ IsFiniteSet(BlocksOf(code)) /\ ~IsPc(code)
<1>1. ~IsPc(code)
  BY CodesAssumption DEF IsPc
<1>2. Units(code) = BlocksOf(code)
  BY <1>1 DEF Units
<1>3. Spreads(clusters, BlocksOf(code)) /\ code \in Codes
  BY <1>2 DEF ClusterInv
<1>4. IsFiniteSet(BlocksOf(code))
  BY <1>2, <1>3, UnitsAreNumbers
<1> QED
  BY <1>1, <1>3, <1>4, HomesPlace DEF Home0

\* The plan whose turn it is restores blocks that no plan before it restored.
LEMMA NextPlan ==
  ASSUME PlanInv, HelpInv, made \in 0 .. Len(plans)
  PROVE  /\ Restored \subseteq lost
         /\ made < Len(plans) =>
              /\ made + 1 \in DOMAIN plans /\ 1 .. made + 1 = 1 .. made \cup {made + 1}
              /\ plans[made + 1].fail \subseteq lost
              /\ plans[made + 1].fail \subseteq BlocksOf(code)
              /\ plans[made + 1].help \subseteq BlocksOf(code)
              /\ plans[made + 1].fail \cap Restored = {}
<1>1. /\ DOMAIN plans = 1 .. Len(plans) /\ Len(plans) \in Nat
      /\ \A n \in DOMAIN plans : plans[n].fail \subseteq lost
      /\ \A n, i \in DOMAIN plans : n # i => plans[n].fail \cap plans[i].fail = {}
      /\ lost \subseteq BlocksOf(code)
  <2>1. plans \in Seq(ToSet(plans))
    BY DEF PlanInv, Split
  <2>2. DOMAIN plans = 1 .. Len(plans) /\ Len(plans) \in Nat
    BY <2>1, LenProperties
  <2> QED
    BY <2>2 DEF PlanInv, Split, OfTheCode
<1>2. \A n \in 1 .. made : n \in DOMAIN plans
  BY <1>1
<1>3. Restored \subseteq lost
  BY <1>1, <1>2 DEF Restored
<1>4. ASSUME made < Len(plans)
      PROVE  /\ made + 1 \in DOMAIN plans /\ 1 .. made + 1 = 1 .. made \cup {made + 1}
             /\ \A n \in 1 .. made : n # made + 1
  BY <1>1, <1>4
<1>5. ASSUME made < Len(plans)
      PROVE  plans[made + 1].fail \cap Restored = {}
  BY <1>1, <1>2, <1>4, <1>5 DEF Restored
<1> QED
  BY <1>1, <1>3, <1>4, <1>5 DEF HelpInv

\* What a plan may not use in a cluster is taken there.
LEMMA NotFreeIsTaken ==
  ASSUME ClusterInv, PlanInv, HelpInv, HomeInv, RoomInv, code \in TargetCodes, step # "place",
         made \in 0 .. Len(plans), made < Len(plans), NEW i \in DOMAIN clusters
  PROVE  /\ FreeFor(plans[made + 1], i) \subseteq 1 .. NodesPerCluster
         /\ (1 .. NodesPerCluster) \ FreeFor(plans[made + 1], i) \subseteq TakenFor(i)
<1>1. PICK p : p = plans[made + 1]
  OBVIOUS
<1>2. p.fail \subseteq BlocksOf(code) /\ p.help \subseteq BlocksOf(code)
  BY <1>1, NextPlan
<1>3. PICK R : R = IF i \in DOMAIN free THEN free[i] ELSE 1 .. NodesPerCluster
  OBVIOUS
<1>4. FreeFor(p, i) = R \ {home[b][2] : b \in {x \in p.fail \cup p.help : ClusterOf(x) = i}}
  BY <1>3 DEF FreeFor
<1>5. R \subseteq 1 .. NodesPerCluster /\ (1 .. NodesPerCluster) \ R \subseteq TakenFor(i)
  BY <1>3 DEF RoomInv
<1>6. ASSUME NEW b \in p.fail \cup p.help, ClusterOf(b) = i
      PROVE  home[b][2] \in TakenFor(i)
  <2>1. b \in BlocksOf(code) /\ b \in DOMAIN home
    BY <1>2 DEF HomeInv
  <2>2. CASE b \in Restored
    BY <2>2, <1>6 DEF TakenFor, Moved
  <2>3. CASE b \notin Restored
    <3>1. home[b] = Home0[b] /\ Home0[b][1] = i
      BY <2>1, <2>3, <1>6 DEF HomeInv
    <3>2. PlacedAt(code, clusters, b)
      BY <2>1, TargetBlocks
    <3>3. Home0[b][2] \in 1 .. Len(clusters[i])
      BY <3>1, <3>2 DEF PlacedAt, Home0
    <3> QED
      BY <3>1, <3>3 DEF TakenFor
  <2> QED
    BY <2>2, <2>3
<1> QED
  BY <1>1, <1>4, <1>5, <1>6

\* Every cluster has a node for each of its blocks and another for each that is lost.
EnoughNodes ==
  \A i \in DOMAIN clusters :
    Len(clusters[i]) + Cardinality(ToSet(clusters[i]) \cap lost) <= NodesPerCluster

\* With enough nodes there is one for every block that a plan restores.
LEMMA RoomIsThere ==
  ASSUME ClusterInv, PlanInv, HelpInv, HomeInv, RoomInv, code \in TargetCodes, step # "place",
         made \in 0 .. Len(plans), made < Len(plans), EnoughNodes
  PROVE  RoomFor(plans[made + 1])
<1>1. PICK p : p = plans[made + 1]
  OBVIOUS
<1>2. /\ p.fail \subseteq lost /\ p.fail \subseteq BlocksOf(code)
      /\ p.fail \cap Restored = {} /\ Restored \subseteq lost
  BY <1>1, NextPlan
<1>3. /\ Spreads(clusters, BlocksOf(code)) /\ IsFiniteSet(BlocksOf(code))
      /\ \A b \in BlocksOf(code) : PlacedAt(code, clusters, b)
      /\ lost \subseteq BlocksOf(code) /\ DOMAIN home = BlocksOf(code)
  BY TargetBlocks DEF HomeInv, PlanInv, OfTheCode
<1>4. \A b \in BlocksOf(code) : /\ ClusterOf(b) \in DOMAIN clusters
                                /\ b \in ToSet(clusters[ClusterOf(b)])
  BY <1>3 DEF HomeInv, PlacedAt, Home0
<1> SUFFICES ASSUME NEW i \in FailedClusters(p)
             PROVE  Cardinality({b \in p.fail : ClusterOf(b) = i}) <= Cardinality(FreeFor(p, i))
  BY <1>1 DEF RoomFor
<1>5. i \in DOMAIN clusters
  BY <1>2, <1>4 DEF FailedClusters
<1> DEFINE A == {b \in p.fail : ClusterOf(b) = i}
           M == Moved(i)
           T == ToSet(clusters[i]) \cap lost
           on == {home[b][2] : b \in M}
           X == 1 .. NodesPerCluster
           Z == FreeFor(p, i)
<1>6. PICK N \in Nat : N = NodesPerCluster
  BY CodesAssumption
<1>7. PICK L \in Nat : L = Len(clusters[i])
  BY <1>3, <1>5, ClusterParts
<1>8. IsFiniteSet(T) /\ A \subseteq T /\ M \subseteq T /\ A \cap M = {}
  <2>1. IsFiniteSet(lost) /\ T \subseteq lost
    BY <1>3, FS_Subset
  <2>2. A \subseteq T /\ M \subseteq T /\ A \cap M = {}
    BY <1>2, <1>3, <1>4 DEF Moved
  <2> QED
    BY <2>1, <2>2, FS_Subset
<1>9. Z \subseteq X /\ X \ Z \subseteq 1 .. L \cup on
  BY <1>1, <1>5, <1>7, NotFreeIsTaken DEF TakenFor
<1>10. L + Cardinality(T) <= N
  BY <1>5, <1>6, <1>7 DEF EnoughNodes
<1>11. /\ IsFiniteSet(A) /\ IsFiniteSet(M)
       /\ Cardinality(A) \in Nat /\ Cardinality(M) \in Nat /\ Cardinality(T) \in Nat
       /\ Cardinality(A) + Cardinality(M) <= Cardinality(T)
  <2>1. IsFiniteSet(A) /\ IsFiniteSet(M)
    BY <1>8, FS_Subset
  <2>2. Cardinality(A \cup M) = Cardinality(A) + Cardinality(M)
    <3>1. Cardinality(A \cap M) = 0
      BY <1>8, FS_EmptySet
    <3>2. Cardinality(A \cup M) = Cardinality(A) + Cardinality(M) - Cardinality(A \cap M)
      BY <2>1, FS_Union
    <3> QED
      BY <3>1, <3>2, <2>1, FS_CardinalityType
  <2>3. Cardinality(A \cup M) <= Cardinality(T)
    <3>1. A \cup M \in SUBSET T
      BY <1>8
    <3> QED
      BY <3>1, <1>8, FS_Subset
  <2> QED
    BY <2>1, <2>2, <2>3, <1>8, FS_CardinalityType
<1>12. IsFiniteSet(on) /\ Cardinality(on) <= Cardinality(M) /\ Cardinality(on) \in Nat
  <2> DEFINE f == [b \in M |-> home[b][2]]
  <2>1. f \in Surjection(M, on)
    BY DEF Surjection
  <2>2. IsFiniteSet(on) /\ Cardinality(on) <= Cardinality(M)
    BY <2>1, <1>11, FS_Surjection
  <2> QED
    BY <2>2, FS_CardinalityType
<1>13. /\ IsFiniteSet(X) /\ Cardinality(X) = N
       /\ IsFiniteSet(1 .. L) /\ Cardinality(1 .. L) = L
  <2>1. 1 \in Int /\ N \in Int /\ L \in Int
    OBVIOUS
  <2>2. /\ IsFiniteSet(1 .. N) /\ Cardinality(1 .. N) = IF 1 > N THEN 0 ELSE N - 1 + 1
        /\ IsFiniteSet(1 .. L) /\ Cardinality(1 .. L) = IF 1 > L THEN 0 ELSE L - 1 + 1
    BY ONLY <2>1, FS_Interval, Zenon
  <2> QED
    BY <2>2, <1>6
<1> HIDE DEF A, M, T, on, X, Z
<1>14. /\ IsFiniteSet(1 .. L \cup on) /\ Cardinality(1 .. L \cup on) <= L + Cardinality(on)
       /\ Cardinality(1 .. L \cup on) \in Nat
  <2>1. /\ IsFiniteSet((1 .. L) \cup on)
        /\ Cardinality((1 .. L) \cup on) = Cardinality(1 .. L) + Cardinality(on) - Cardinality((1 .. L) \cap on)
    BY <1>12, <1>13, FS_Union
  <2>2. IsFiniteSet((1 .. L) \cap on)
    BY <1>13, FS_Subset
  <2>3. Cardinality((1 .. L) \cap on) \in Nat /\ Cardinality((1 .. L) \cup on) \in Nat
    BY <2>1, <2>2, FS_CardinalityType
  <2> QED
    BY <2>1, <2>3, <1>12, <1>13
<1>15. Cardinality(X \ Z) <= L + Cardinality(on) /\ Cardinality(X \ Z) \in Nat
  <2>1. X \ Z \in SUBSET (1 .. L \cup on)
    BY <1>9
  <2>2. IsFiniteSet(X \ Z) /\ Cardinality(X \ Z) <= Cardinality(1 .. L \cup on)
    BY <2>1, <1>14, FS_Subset
  <2>3. Cardinality(X \ Z) \in Nat
    BY <2>2, FS_CardinalityType
  <2> QED
    BY <2>2, <2>3, <1>12, <1>14
<1>16. Cardinality(X \ Z) = N - Cardinality(Z) /\ Cardinality(Z) \in Nat
  <2>1. X \cap Z = Z /\ IsFiniteSet(Z)
    BY <1>9, <1>13, FS_Subset
  <2>2. Cardinality(X \ Z) = Cardinality(X) - Cardinality(X \cap Z)
    BY <1>13, FS_Difference
  <2> QED
    BY <2>1, <2>2, <1>13, FS_CardinalityType
<1>17. Cardinality(A) <= Cardinality(Z)
  BY <1>10, <1>11, <1>12, <1>15, <1>16
<1> QED
  BY <1>17 DEF A, Z

\* The blocks that p restores get the nodes new, which are taken out of the free ones.
Gives(p, new) ==
  /\ new \in [p.fail -> 1 .. NodesPerCluster]
  /\ \A b \in p.fail : new[b] \in FreeFor(p, ClusterOf(b))
  /\ \A b, o \in p.fail : b # o /\ ClusterOf(b) = ClusterOf(o) => new[b] # new[o]
  /\ home' = [b \in DOMAIN home |-> IF b \in p.fail THEN <<ClusterOf(b), new[b]>> ELSE home[b]]
  /\ free' = [i \in DOMAIN free \cup FailedClusters(p) |->
       IF i \in FailedClusters(p)
       THEN FreeFor(p, i) \ {new[b] : b \in {x \in p.fail : ClusterOf(x) = i}} ELSE free[i]]

\* What is placed stays where it was placed while code and clusters are the same.
LEMMA SameStripe ==
  ASSUME UNCHANGED <<code, clusters>>
  PROVE  Home0' = Home0 /\ BlocksOf(code)' = BlocksOf(code)
<1>1. Home0' = Home0
  BY DEF Home0, Homes
<1>2. BlocksOf(code)' = BlocksOf(code)
  BY DEF BlocksOf, IsPc
<1> QED
  BY <1>1, <1>2

\* Giving nodes to a plan keeps what is known of the nodes.
LEMMA GivesKeeps ==
  ASSUME ClusterInv, PlanInv, HelpInv, Targeted, code \in TargetCodes, step = "concrete",
         made \in 0 .. Len(plans), made < Len(plans), NEW new, Gives(plans[made + 1], new),
         made' = made + 1, UNCHANGED <<code, clusters, lost, plans>>
  PROVE  Targeted'
<1>1. PICK p : p = plans[made + 1]
  OBVIOUS
<1>2. /\ p.fail \subseteq lost /\ p.fail \subseteq BlocksOf(code) /\ p.help \subseteq BlocksOf(code)
      /\ p.fail \cap Restored = {} /\ Restored \subseteq lost
      /\ 1 .. made + 1 = 1 .. made \cup {made + 1}
  BY <1>1, NextPlan
<1>3. /\ DOMAIN home = BlocksOf(code)
      /\ \A b \in DOMAIN home : ClusterOf(b) = Home0[b][1]
      /\ \A b \in DOMAIN home \ Restored : home[b] = Home0[b]
  BY DEF Targeted, HomeInv
<1>4. \A b \in BlocksOf(code) : ClusterOf(b) \in DOMAIN clusters
  BY <1>3, TargetBlocks DEF PlacedAt, Home0
<1>5. Home0' = Home0 /\ BlocksOf(code)' = BlocksOf(code)
  BY SameStripe
<1>6. Restored' = Restored \cup p.fail
  <2>1. Restored' = UNION {plans[n].fail : n \in 1 .. made + 1}
    BY DEF Restored
  <2> QED
    BY <2>1, <1>1, <1>2 DEF Restored
<1>7. /\ DOMAIN home' = DOMAIN home
      /\ \A b \in p.fail : home'[b] = <<ClusterOf(b), new[b]>>
      /\ \A b \in DOMAIN home \ p.fail : home'[b] = home[b]
  BY <1>1, <1>2, <1>3 DEF Gives
<1>8. \A b \in DOMAIN home : home'[b][1] = ClusterOf(b)
  BY <1>7 DEF ClusterOf
<1>9. HomeInv'
  <2>1. DOMAIN home' = BlocksOf(code)'
    BY <1>3, <1>5, <1>7
  <2>2. \A b \in DOMAIN home' : home'[b][1] = Home0'[b][1]
    BY <1>3, <1>5, <1>7, <1>8
  <2>3. \A b \in DOMAIN home' \ Restored' : home'[b] = Home0'[b]
    BY <1>3, <1>5, <1>6, <1>7
  <2> QED
    BY <2>1, <2>2, <2>3 DEF HomeInv, ClusterOf
<1>10. /\ \A i \in DOMAIN free : FreeFor(p, i) \subseteq free[i]
       /\ \A o \in p.fail \cup p.help : home[o][2] \notin FreeFor(p, ClusterOf(o))
  BY DEF FreeFor
<1>11. /\ \A b \in p.fail : new[b] \in FreeFor(p, ClusterOf(b))
       /\ \A b, o \in p.fail : b # o /\ ClusterOf(b) = ClusterOf(o) => new[b] # new[o]
       /\ DOMAIN free' = DOMAIN free \cup FailedClusters(p)
  BY <1>1 DEF Gives
<1>12. \A i \in FailedClusters(p) :
          free'[i] = FreeFor(p, i) \ {new[b] : b \in {x \in p.fail : ClusterOf(x) = i}}
  BY <1>1 DEF Gives
<1>13. \A i \in DOMAIN free \ FailedClusters(p) : free'[i] = free[i]
  BY <1>1 DEF Gives
<1>14. /\ DOMAIN free \subseteq DOMAIN clusters
       /\ \A b \in Restored : ClusterOf(b) \in DOMAIN free
       /\ \A i \in DOMAIN free : /\ free[i] \subseteq 1 .. NodesPerCluster
                                /\ (1 .. NodesPerCluster) \ free[i] \subseteq TakenFor(i)
       /\ \A b \in Restored : home[b][2] \notin free[ClusterOf(b)]
       /\ \A b, o \in Restored : b # o => home[b] # home[o]
  BY DEF Targeted, RoomInv
<1>15. Restored \subseteq DOMAIN home \ p.fail
  BY <1>2, <1>3 DEF PlanInv, OfTheCode
<1>16. \A b \in p.fail : ClusterOf(b) \in FailedClusters(p)
  BY DEF FailedClusters
<1>17. FailedClusters(p) \subseteq DOMAIN clusters
  BY <1>2, <1>4 DEF FailedClusters
<1>18. RoomInv'
  <2>1. DOMAIN free' \subseteq DOMAIN clusters'
    BY <1>11, <1>14, <1>17
  <2>2. \A b \in Restored' : home'[b][1] \in DOMAIN free'
    BY <1>2, <1>3, <1>6, <1>8, <1>11, <1>14, <1>15, <1>16
  <2>3. ASSUME NEW i \in DOMAIN free'
        PROVE  /\ free'[i] \subseteq 1 .. NodesPerCluster
               /\ (1 .. NodesPerCluster) \ free'[i] \subseteq TakenFor(i)'
    <3>1. /\ 1 .. Len(clusters[i]) \subseteq TakenFor(i)'
          /\ \A b \in Restored' : home'[b][1] = i => home'[b][2] \in TakenFor(i)'
      BY DEF TakenFor, Moved, ClusterOf
    <3>2. TakenFor(i) \subseteq TakenFor(i)'
      <4> SUFFICES ASSUME NEW b \in Restored, ClusterOf(b) = i
                   PROVE  home[b][2] \in TakenFor(i)'
        BY <3>1 DEF TakenFor, Moved
      <4>1. home'[b] = home[b] /\ b \in Restored' /\ home'[b][1] = i
        BY <1>6, <1>7, <1>15 DEF ClusterOf
      <4> QED
        BY <3>1, <4>1
    <3>3. CASE i \in FailedClusters(p)
      <4>1. i \in DOMAIN clusters
        BY <3>3, <1>17
      <4>2. /\ FreeFor(p, i) \subseteq 1 .. NodesPerCluster
            /\ (1 .. NodesPerCluster) \ FreeFor(p, i) \subseteq TakenFor(i)
        BY <1>1, <4>1, NotFreeIsTaken DEF Targeted
      <4>3. ASSUME NEW b \in p.fail, ClusterOf(b) = i
            PROVE  new[b] \in TakenFor(i)'
        <5>1. home'[b] = <<i, new[b]>> /\ b \in Restored'
          BY <4>3, <1>6, <1>7
        <5> QED
          BY <3>1, <5>1
      <4> QED
        BY <3>2, <3>3, <4>2, <4>3, <1>12
    <3>4. CASE i \notin FailedClusters(p)
      <4>1. i \in DOMAIN free /\ free'[i] = free[i]
        BY <3>4, <1>11, <1>13
      <4> QED
        BY <3>2, <4>1, <1>14
    <3> QED
      BY <3>3, <3>4
  <2>4. \A b \in Restored' : home'[b][2] \notin free'[home'[b][1]]
    <3> SUFFICES ASSUME NEW b \in Restored'
                 PROVE  home'[b][2] \notin free'[home'[b][1]]
      OBVIOUS
    <3>1. CASE b \in p.fail
      BY <3>1, <1>7, <1>12, <1>16
    <3>2. CASE b \in Restored
      <4>1. home'[b] = home[b] /\ home'[b][1] = ClusterOf(b) /\ ClusterOf(b) \in DOMAIN free
        BY <3>2, <1>7, <1>8, <1>14, <1>15
      <4>2. free'[ClusterOf(b)] \subseteq free[ClusterOf(b)]
        BY <4>1, <1>10, <1>12, <1>13
      <4> QED
        BY <3>2, <4>1, <4>2, <1>14
    <3> QED
      BY <3>1, <3>2, <1>6
  <2>5. ASSUME NEW b \in p.fail, NEW o \in Restored
        PROVE  home'[b] # home'[o]
    <3> SUFFICES ASSUME home'[b] = home'[o] PROVE FALSE
      OBVIOUS
    <3>1. home[o] = <<ClusterOf(b), new[b]>>
      BY <1>7, <1>15
    <3>2. ClusterOf(o) = ClusterOf(b) /\ home[o][2] = new[b]
      BY <3>1 DEF ClusterOf
    <3>3. new[b] \in free[ClusterOf(o)]
      BY <3>2, <1>10, <1>11, <1>14
    <3> QED
      BY <3>2, <3>3, <1>14
  <2>6. \A b, o \in Restored' : b # o => home'[b] # home'[o]
    <3> SUFFICES ASSUME NEW b \in Restored', NEW o \in Restored', b # o
                 PROVE  home'[b] # home'[o]
      OBVIOUS
    <3>1. CASE b \in p.fail /\ o \in p.fail
      <4>1. home'[b] = <<ClusterOf(b), new[b]>> /\ home'[o] = <<ClusterOf(o), new[o]>>
        BY <3>1, <1>7
      <4> QED
        BY <3>1, <4>1, <1>11
    <3>2. CASE b \in Restored /\ o \in Restored
      BY <3>2, <1>7, <1>14, <1>15
    <3> QED
      BY <3>1, <3>2, <2>5, <1>6
  <2> QED
    BY <2>1, <2>2, <2>3, <2>4, <2>6 DEF RoomInv, ClusterOf
<1>19. AvoidInv'
  <2> SUFFICES ASSUME NEW n \in 1 .. made + 1, NEW b \in plans[n].fail,
                      NEW o \in BlocksOf(code), o \in plans[n].fail \cup (plans[n].help \ lost),
                      home'[b][1] = Home0[o][1]
               PROVE  home'[b][2] # Home0[o][2]
    BY <1>5 DEF AvoidInv, ClusterOf
  <2>1. CASE n \in 1 .. made
    <3>1. b \in Restored /\ home'[b] = home[b]
      BY <2>1, <1>7, <1>15 DEF Restored
    <3>2. ClusterOf(b) = Home0[o][1]
      BY <3>1 DEF ClusterOf
    <3> QED
      BY <2>1, <3>1, <3>2 DEF Targeted, AvoidInv
  <2>2. CASE n = made + 1
    <3>1. plans[n] = p
      BY <2>2, <1>1
    <3>2. b \in p.fail /\ b \in DOMAIN home /\ o \in p.fail \cup p.help /\ o \in DOMAIN home
      BY <3>1, <1>2, <1>3
    <3>3. home[o] = Home0[o]
      BY <3>1, <3>2, <1>2, <1>3
    <3>4. ClusterOf(o) = ClusterOf(b)
      BY <3>2, <3>3, <1>8 DEF ClusterOf
    <3>5. new[b] \in FreeFor(p, ClusterOf(b)) /\ home'[b][2] = new[b]
      BY <3>2, <1>7, <1>11
    <3>6. home[o][2] \notin FreeFor(p, ClusterOf(o))
      BY <3>2, <1>10
    <3> QED
      BY <3>3, <3>4, <3>5, <3>6
  <2> QED
    BY <2>1, <2>2, <1>2
<1> QED
  BY <1>9, <1>18, <1>19 DEF Targeted

\* Concretise gives nodes to one plan, or finds too few of them.
LEMMA Concretised ==
  ASSUME Concretise
  PROVE  /\ step = "concrete" /\ made < Len(plans) /\ UNCHANGED <<stripe, planning>>
         /\ \/ ~RoomFor(plans[made + 1]) /\ step' = "wild" /\ UNCHANGED nodes
            \/ /\ \E new : Gives(plans[made + 1], new)
               /\ made' = made + 1
               /\ step' = IF made' = Len(plans) THEN "done" ELSE "concrete"
<1>1. step = "concrete" /\ made < Len(plans) /\ UNCHANGED <<stripe, planning>>
  BY DEF Concretise
<1> DEFINE p == plans[made + 1]
<1>3. CASE ~RoomFor(p)
  BY <1>1, <1>3 DEF Concretise
<1>4. CASE RoomFor(p)
  <2>0. \E new \in [p.fail -> 1 .. NodesPerCluster] :
          LET taken(i) == {new[b] : b \in {x \in p.fail : ClusterOf(x) = i}} IN
          /\ \A b \in p.fail : new[b] \in FreeFor(p, ClusterOf(b))
          /\ \A b, o \in p.fail :
               b # o /\ ClusterOf(b) = ClusterOf(o) => new[b] # new[o]
          /\ home' = [b \in DOMAIN home |->
               IF b \in p.fail THEN <<ClusterOf(b), new[b]>> ELSE home[b]]
          /\ free' = [i \in DOMAIN free \cup FailedClusters(p) |->
               IF i \in FailedClusters(p) THEN FreeFor(p, i) \ taken(i) ELSE free[i]]
    BY <1>4 DEF Concretise
  <2>1. PICK new \in [p.fail -> 1 .. NodesPerCluster] :
          /\ \A b \in p.fail : new[b] \in FreeFor(p, ClusterOf(b))
          /\ \A b, o \in p.fail : b # o /\ ClusterOf(b) = ClusterOf(o) => new[b] # new[o]
          /\ home' = [b \in DOMAIN home |->
                        IF b \in p.fail THEN <<ClusterOf(b), new[b]>> ELSE home[b]]
          /\ free' = [i \in DOMAIN free \cup FailedClusters(p) |->
               IF i \in FailedClusters(p)
               THEN FreeFor(p, i) \ {new[b] : b \in {x \in p.fail : ClusterOf(x) = i}}
               ELSE free[i]]
    BY <2>0
  <2>2. Gives(p, new)
    BY <2>1 DEF Gives
  <2>3. made' = made + 1 /\ step' = IF made' = Len(plans) THEN "done" ELSE "concrete"
    BY <1>4 DEF Concretise
  <2> QED
    BY <1>1, <2>2, <2>3
<1> QED
  BY <1>3, <1>4

\* Plans alone change no node.
LEMMA PlanningKeeps ==
  ASSUME UNCHANGED <<stripe, nodes>>, made = 0
  PROVE  Targeted => Targeted'
<1>1. Home0' = Home0 /\ BlocksOf(code)' = BlocksOf(code)
  BY SameStripe
<1>2. 1 .. 0 = {}
  OBVIOUS
<1>3. Restored = {} /\ Restored' = {}
  BY <1>2 DEF Restored
<1>4. HomeInv => HomeInv'
  BY <1>1, <1>3 DEF HomeInv, ClusterOf
<1>5. \A i : TakenFor(i)' = TakenFor(i)
  BY <1>3 DEF TakenFor, Moved, ClusterOf
<1>6. RoomInv => RoomInv'
  BY <1>3, <1>5 DEF RoomInv, ClusterOf
<1>7. AvoidInv'
  BY <1>2 DEF AvoidInv
<1> QED
  BY <1>4, <1>6, <1>7 DEF Targeted

\* A step that changes nothing keeps what is known of the nodes.
LEMMA StutterKeeps ==
  ASSUME UNCHANGED <<stripe, nodes, plans>>
  PROVE  Targeted => Targeted'
<1>1. Home0' = Home0 /\ BlocksOf(code)' = BlocksOf(code)
  BY SameStripe
<1>3. Restored' = Restored
  BY DEF Restored
<1>4. HomeInv => HomeInv'
  BY <1>1, <1>3 DEF HomeInv, ClusterOf
<1>5. \A i : TakenFor(i)' = TakenFor(i)
  BY <1>3 DEF TakenFor, Moved, ClusterOf
<1>6. RoomInv => RoomInv'
  BY <1>3, <1>5 DEF RoomInv, ClusterOf
<1>7. AvoidInv => AvoidInv'
  BY <1>1 DEF AvoidInv, ClusterOf
<1> QED
  BY <1>4, <1>6, <1>7 DEF Targeted

\* Where the blocks are lost all are where they were placed.
LEMMA LoseTargets ==
  ASSUME ClusterInv', Lose, made = 0, free = <<>>, code \in TargetCodes
  PROVE  Targeted'
<1>1. /\ made' = 0 /\ free' = <<>> /\ home' = Homes(code, clusters') /\ code' = code
      /\ step' = "plan"
  BY DEF Lose
<1>2. 1 .. 0 = {} /\ DOMAIN free' = {}
  BY <1>1
<1>3. Restored' = {}
  BY <1>1, <1>2 DEF Restored
<1>4. home' = Home0'
  BY <1>1 DEF Home0, Homes
<1>5. ~IsPc(code) /\ Units(code) = BlocksOf(code)
  <2>1. ~IsPc(code)
    BY CodesAssumption DEF IsPc
  <2> QED
    BY <2>1 DEF Units
<1>6. DOMAIN home' = BlocksOf(code)'
  <2>1. Spreads(clusters', Units(code))
    BY <1>1 DEF ClusterInv, Units
  <2>2. DOMAIN Homes(code, clusters') = BlocksOf(code)
    BY <1>5, <2>1, HomesPlace
  <2>3. BlocksOf(code)' = BlocksOf(code)
    BY <1>1 DEF BlocksOf, IsPc
  <2> QED
    BY <1>1, <2>2, <2>3
<1>7. HomeInv'
  BY <1>4, <1>6 DEF HomeInv, ClusterOf
<1>8. RoomInv'
  BY <1>2, <1>3 DEF RoomInv
<1>9. AvoidInv'
  BY <1>1, <1>2 DEF AvoidInv
<1> QED
  BY <1>7, <1>8, <1>9 DEF Targeted

\* No node is chosen before blocks are lost.
LEMMA NodesInit == Init => NodesInv
  BY DEF Init, NodesInv

\* What a step of the planner does to the step it is in.
LEMMA StepAfter ==
  ASSUME PlanInv, Next,
         step \notin {"place", "placed"}, ~Concretise, ~UNCHANGED vars
  PROVE  /\ step' \in {"plan", "groups", "data", "rest", "refused", "wild", AfterPlans}
            \/ (step' = "done" /\ IsPc(code))
         /\ step \in {"plan", "groups", "data", "rest"}
<1>1. ~PlaceFlat /\ ~PlaceOptimal /\ ~PlaceRandom /\ ~SqueezeLast /\ ~EndRandom /\ ~Lose /\ ~Stop
  BY DEF PlaceFlat, PlaceOptimal, PlaceRandom, SqueezeLast, EndRandom, Lose, Stop
<1>2. CASE PlanRs
  BY <1>2 DEF PlanRs
<1>3. CASE RepairColumn \/ RepairRow \/ RefusePc
  BY <1>3 DEF RepairColumn, RepairRow, RefusePc, AfterPcPlan, Refuse
<1>4. CASE RefuseLrc \/ PlanSingle \/ PlanSingleOptCau \/ StartMulti
  BY <1>4 DEF RefuseLrc, PlanSingle, PlanSingleOptCau, StartMulti, Refuse
<1>5. CASE RepairGlobalInGroup \/ GroupsAgain
  BY <1>5 DEF RepairGlobalInGroup, GroupsAgain
<1>6. CASE EndGroups
  BY <1>6 DEF EndGroups
<1>7. CASE RepairGroup
  <2>1. step = "groups" /\ step' \in {"groups", "wild"}
    BY <1>7 DEF RepairGroup
  <2> QED
    BY <2>1
<1>8. CASE RepairRest
  <2>1. step = "rest" /\ step' \in {"refused", AfterPlans}
    BY <1>8 DEF RepairRest, Refuse
  <2> QED
    BY <2>1
<1>9. CASE RepairData
  <2>1. step = "data" /\ step' \in {"refused", "data", AfterPlans}
    BY <1>9 DEF RepairData, Refuse
  <2> QED
    BY <2>1
<1>10. CASE RepairGlobals
  <2>1. step = "data" /\ step' \in {"refused", "groups", AfterPlans}
    BY <1>10 DEF RepairGlobals
  <2> QED
    BY <2>1
<1> QED
  BY <1>1, <1>2, <1>3, <1>4, <1>5, <1>6, <1>7, <1>8, <1>9, <1>10 DEF Next

\* Every step keeps what is known of the nodes, whichever plan it is the turn of.
LEMMA NodesStep ==
  ASSUME ClusterInv, ClusterInv', PlanInv, PlanInv', HelpInv, NodesInv, Next
  PROVE  NodesInv'
<1>0. Len(plans') \in Nat
  <2>1. plans' \in Seq(ToSet(plans)')
    BY DEF PlanInv, Split
  <2> QED
    BY <2>1, LenProperties
<1>1. CASE PlaceFlat \/ PlaceOptimal \/ PlaceRandom \/ SqueezeLast \/ EndRandom
  <2>1. /\ UNCHANGED <<code, plans, nodes>>
        /\ step \in {"place", "placed"} /\ step' \in {"place", "placed"}
    BY <1>1 DEF PlaceFlat, PlaceOptimal, PlaceRandom, SqueezeLast, EndRandom
  <2> QED
    BY <2>1 DEF NodesInv
<1>2. CASE Lose
  <2>1. /\ step = "placed" /\ step' = "plan"
        /\ made' = made /\ free' = free /\ plans' = plans /\ code' = code
    BY <1>2 DEF Lose
  <2>2. made = 0 /\ free = <<>> /\ made \in 0 .. Len(plans)
    BY <2>1 DEF NodesInv
  <2>3. code \in TargetCodes => Targeted'
    BY <1>2, <2>2, LoseTargets
  <2> QED
    BY <2>1, <2>2, <2>3 DEF NodesInv
<1>3. CASE Concretise
  <2>1. step = "concrete" /\ code \in TargetCodes /\ Targeted /\ made \in 0 .. Len(plans)
    BY <1>3, Concretised DEF NodesInv
  <2>2. made < Len(plans) /\ UNCHANGED <<stripe, planning>>
    BY <1>3, Concretised
  <2>3. CASE step' = "wild" /\ UNCHANGED nodes
    <3>1. Targeted'
      BY <2>1, <2>2, <2>3, StutterKeeps
    <3> QED
      BY <2>1, <2>2, <2>3, <3>1 DEF NodesInv
  <2>4. CASE \E new : Gives(plans[made + 1], new) /\ made' = made + 1
    <3>1. PICK new : Gives(plans[made + 1], new) /\ made' = made + 1
      BY <2>4
    <3>2. Targeted'
      BY <2>1, <2>2, <3>1, GivesKeeps
    <3>3. made' \in 0 .. Len(plans') /\ code' \in TargetCodes
      BY <1>0, <2>1, <2>2, <3>1
    <3>4. step' = IF made' = Len(plans) THEN "done" ELSE "concrete"
      BY <1>3, <2>1, <2>2, <3>1, Concretised
    <3> QED
      BY <2>2, <3>2, <3>3, <3>4 DEF NodesInv
  <2> QED
    BY <1>3, <2>3, <2>4, Concretised
<1>4. CASE UNCHANGED vars
  <2>1. Targeted => Targeted'
    BY <1>4, StutterKeeps DEF vars
  <2> QED
    BY <1>4, <2>1 DEF NodesInv, vars
<1>5. CASE /\ UNCHANGED <<stripe, nodes>> /\ ~Concretise /\ ~UNCHANGED vars
           /\ step \notin {"place", "placed"} /\ step' \notin {"place", "placed"}
  <2>1. /\ step' \in {"plan", "groups", "data", "rest", "refused", "wild", AfterPlans}
           \/ (step' = "done" /\ IsPc(code))
        /\ step \in {"plan", "groups", "data", "rest"}
    BY <1>5, StepAfter
  <2>2. made = 0 /\ free = <<>> /\ made' = 0 /\ free' = <<>> /\ code' = code
    BY <1>5, <2>1 DEF NodesInv
  <2>3. code \in TargetCodes => Targeted /\ Targeted'
    BY <1>5, <2>2, PlanningKeeps DEF NodesInv
  <2>4. IsPc(code) => code \notin TargetCodes
    BY CodesAssumption DEF IsPc
  <2>5. step' = "concrete" => code \in TargetCodes
    BY <2>1 DEF AfterPlans
  <2>6. step' = "done" => code \notin TargetCodes
    BY <2>1, <2>4 DEF AfterPlans
  <2>7. step' \notin {"place", "placed"} /\ code' \in TargetCodes => Targeted'
    BY <2>2, <2>3
  <2> QED
    BY <1>0, <2>1, <2>2, <2>5, <2>6, <2>7 DEF NodesInv
<1> QED
  BY <1>1, <1>2, <1>3, <1>4, <1>5, Frame

\* The planner indexes with nothing only where a cluster is crowded.
WildInv == step = "wild" => code \in TargetCodes /\ ~EnoughNodes

\* The planner starts where its indices are right.
LEMMA WildInit == Init => WildInv
  BY DEF Init, WildInv

\* A group that counts one lost block has one, and a cluster with enough nodes a free one.
LEMMA WildStep ==
  ASSUME ClusterInv, PlanInv, CountInv, HelpInv, NodesInv, WildInv, Next
  PROVE  WildInv'
<1>1. CASE RepairGroup
  <2>1. step = "groups" /\ OneLost # {} /\ (IsOptCau(code) => LostGlobalLeft = {})
    BY <1>1 DEF RepairGroup
  <2>2. LeastOf(OneLost) \in OneLost
    BY <2>1, TheGroup
  <2>3. InGroup(todo, LeastOf(OneLost)) # {}
    BY <2>1, <2>2, OneLostIsLost
  <2>4. step' = step
    BY <1>1, <2>3 DEF RepairGroup
  <2> QED
    BY <2>1, <2>4 DEF WildInv
<1>2. CASE Concretise
  <2>1. /\ step = "concrete" /\ made < Len(plans) /\ made \in 0 .. Len(plans)
        /\ code \in TargetCodes /\ HomeInv /\ RoomInv
    BY <1>2, Concretised DEF NodesInv, Targeted
  <2>2. CASE step' = "wild"
    <3>1. ~RoomFor(plans[made + 1])
      BY <1>2, <2>2, Concretised
    <3>2. ~EnoughNodes
      BY <2>1, <3>1, RoomIsThere
    <3>3. UNCHANGED stripe
      BY <1>2, Concretised
    <3> QED
      BY <2>1, <3>2, <3>3 DEF WildInv, EnoughNodes
  <2> QED
    BY <2>2 DEF WildInv
<1>3. CASE UNCHANGED vars
  BY <1>3 DEF vars, WildInv, EnoughNodes
<1>4. CASE PlaceFlat \/ PlaceOptimal \/ PlaceRandom \/ SqueezeLast \/ EndRandom \/ Lose
  BY <1>4 DEF PlaceFlat, PlaceOptimal, PlaceRandom, SqueezeLast, EndRandom, Lose, WildInv
<1>5. CASE PlanRs \/ RepairColumn \/ RepairRow \/ RefusePc
  BY <1>5, AfterPlansIs DEF PlanRs, RepairColumn, RepairRow, RefusePc, AfterPcPlan, Refuse, WildInv
<1>6. CASE RefuseLrc \/ PlanSingle \/ PlanSingleOptCau \/ StartMulti
  BY <1>6, AfterPlansIs DEF RefuseLrc, PlanSingle, PlanSingleOptCau, StartMulti, Refuse, WildInv
<1>7. CASE RepairGlobalInGroup \/ EndGroups \/ GroupsAgain
  BY <1>7, AfterPlansIs DEF RepairGlobalInGroup, EndGroups, GroupsAgain, WildInv
<1>8. CASE RepairRest
  <2>1. step' \in {"refused", AfterPlans}
    BY <1>8 DEF RepairRest, Refuse
  <2> QED
    BY <2>1, AfterPlansIs DEF WildInv
<1>9. CASE RepairData
  <2>1. step' \in {"refused", "data", AfterPlans}
    BY <1>9 DEF RepairData, Refuse
  <2> QED
    BY <2>1, AfterPlansIs DEF WildInv
<1>10. CASE RepairGlobals
  <2>1. step' \in {"refused", "groups", AfterPlans}
    BY <1>10 DEF RepairGlobals
  <2> QED
    BY <2>1, AfterPlansIs DEF WildInv
<1> QED
  BY <1>1, <1>2, <1>3, <1>4, <1>5, <1>6, <1>7, <1>8, <1>9, <1>10 DEF Next, Stop

----------------------------------------------------------------------------
(* Reed-Solomon.                                                            *)

\* What the plan of a Reed-Solomon code reads under the partial scheme.
RsReading == FirstSurvivors(code.k, clusters, lost, RsBlocks(code))

\* Reed-Solomon makes one plan, which reads the first survivors.
RsInv ==
  code.type = "RS" =>
    /\ step \in {"place", "placed", "plan"} => plans = <<>>
    /\ step \in {"concrete", "done"} =>
         /\ Len(plans) = 1 /\ plans[1].fail = lost
         /\ options.partial => plans[1].help = RsReading

\* There is no plan yet.
LEMMA RsInit == Init => RsInv
  BY DEF Init, RsInv

\* Nothing follows the one plan of a Reed-Solomon code.
LEMMA RsStep ==
  ASSUME PlanInv, RsInv, Next
  PROVE  RsInv'
<1>1. CASE PlaceFlat \/ PlaceOptimal \/ PlaceRandom \/ SqueezeLast \/ EndRandom \/ Lose
  BY <1>1 DEF PlaceFlat, PlaceOptimal, PlaceRandom, SqueezeLast, EndRandom, Lose, RsInv
<1>2. CASE PlanRs
  <2>1. /\ step = "plan" /\ code.type = "RS" /\ plans = <<>> /\ UNCHANGED stripe
        /\ step' = AfterPlans
    BY <1>2 DEF PlanRs, RsInv
  <2>2. RsReading' = RsReading
    BY <2>1 DEF RsReading, FirstSurvivors, Survivors, ReadBefore, LostSome, RsBlocks
  <2>0. PICK f : f = CHOOSE b \in lost : TRUE
    OBVIOUS
  <2>3. PICK early : Emit(lost, IF Cardinality(lost) = 1
                                THEN RsSingle(code, clusters, f, options.partial)
                                ELSE RsMulti(code, clusters, lost, early, options.partial), FALSE)
    BY <1>2, <2>0 DEF PlanRs
  <2>4. PICK answer : /\ answer = IF Cardinality(lost) = 1
                                  THEN RsSingle(code, clusters, f, options.partial)
                                  ELSE RsMulti(code, clusters, lost, early, options.partial)
                      /\ Emit(lost, answer, FALSE)
    BY <2>3
  <2>5. ASSUME options.partial PROVE answer.help = RsReading
    <3>1. CASE Cardinality(lost) = 1
      <4>1. IsFiniteSet(lost)
        <5>1. Units(code) = BlocksOf(code)
          BY <2>1 DEF Units, IsPc, PcTypes
        <5>2. IsFiniteSet(BlocksOf(code)) /\ lost \subseteq BlocksOf(code)
          BY <5>1, UnitsAreNumbers DEF PlanInv, OfTheCode
        <5> QED
          BY <5>2, FS_Subset
      <4>2. PICK x : lost = {x}
        BY <3>1, <4>1, FS_Singleton
      <4>3. lost = {f}
        BY <4>2, <2>0
      <4> QED
        BY <2>4, <2>5, <3>1, <4>3 DEF RsSingle, RsReading, Answer
    <3>2. CASE Cardinality(lost) # 1
      BY <2>4, <2>5, <3>2 DEF RsMulti, RsReading, Answer
    <3> QED
      BY <3>1, <3>2
  <2>6. Len(plans') = 1 /\ plans'[1].fail = lost /\ plans'[1].help = answer.help
    BY <2>1, <2>4 DEF Emit
  <2> QED
    BY <2>1, <2>2, <2>5, <2>6, AfterPlansIs DEF RsInv
<1>3. CASE RepairColumn \/ RepairRow \/ RefusePc
  BY <1>3 DEF RepairColumn, RepairRow, RefusePc, IsPc, PcTypes, RsInv
<1>4. CASE /\ RefuseLrc \/ PlanSingle \/ PlanSingleOptCau \/ StartMulti \/ RepairGlobalInGroup
  BY <1>4 DEF RefuseLrc, PlanSingle, PlanSingleOptCau, StartMulti, RepairGlobalInGroup,
              IsOptCau, IsLrc, LrcTypes, RsInv
<1>5. CASE RepairGroup \/ EndGroups \/ RepairRest \/ RepairData \/ GroupsAgain \/ RepairGlobals
  <2>1. step \in {"groups", "rest", "data"} /\ code' = code
    BY <1>5 DEF RepairGroup, EndGroups, RepairRest, RepairData, GroupsAgain, RepairGlobals
  <2>2. code.type # "RS"
    BY <2>1 DEF PlanInv, Progress, IsLrc, LrcTypes
  <2> QED
    BY <2>1, <2>2 DEF RsInv
<1>6. CASE Concretise \/ Stop
  <2>1. /\ UNCHANGED <<stripe, planning>>
        /\ step' = step \/ (step = "concrete" /\ step' \in {"wild", "done", "concrete"})
    BY <1>6, Concretised DEF Stop, vars
  <2>2. RsReading' = RsReading
    BY <2>1 DEF RsReading, FirstSurvivors, Survivors, ReadBefore, LostSome, RsBlocks
  <2> QED
    BY <2>1, <2>2 DEF RsInv
<1> QED
  BY <1>1, <1>2, <1>3, <1>4, <1>5, <1>6 DEF Next

\* All that is proved of every state of the planner.
PlannerInv ==
  ClusterInv /\ PlanInv /\ CountInv /\ HelpInv /\ NodesInv /\ WildInv /\ ShapeInv /\ RsInv

\* The parts together are inductive, and every part needs others of them.
LEMMA PlannerInvariant == Spec => []PlannerInv
<1>1. Init => PlannerInv
  BY ClusterInit, PlanInit, CountInit, HelpInit, NodesInit, WildInit, ShapeInit, RsInit
     DEF PlannerInv
<1>2. ASSUME PlannerInv, Next PROVE PlannerInv'
  <2>1. ClusterInv' /\ PlanInv' /\ CountInv' /\ HelpInv'
    BY <1>2, ClusterStep, PlanStep, CountStep, HelpStep DEF PlannerInv
  <2>2. NodesInv' /\ WildInv' /\ ShapeInv' /\ RsInv'
    BY <1>2, <2>1, NodesStep, WildStep, ShapeStep, RsStep DEF PlannerInv
  <2> QED
    BY <2>1, <2>2 DEF PlannerInv
<1>3. ASSUME PlannerInv, UNCHANGED vars PROVE PlannerInv'
  <2>1. ClusterInv'
    BY <1>3 DEF PlannerInv, ClusterInv, Units, Placed, vars
  <2>2. PlanInv'
    BY <1>3, SplitStays DEF PlannerInv, PlanInv, vars, OfTheCode, Progress, BlocksOf, IsPc
  <2>3. CountInv'
    BY <1>3 DEF PlannerInv, CountInv, vars, CountsRight, CountedIn, InGid, OneLost, GroupIds
  <2>4. HelpInv'
    BY <1>3 DEF PlannerInv, HelpInv, ReadsInOrder, vars, BlocksOf, IsPc
  <2>5. NodesInv'
    <3>1. Targeted => Targeted'
      BY <1>3, StutterKeeps DEF vars
    <3> QED
      BY <1>3, <3>1 DEF PlannerInv, NodesInv, vars
  <2>6. WildInv'
    BY <1>3 DEF PlannerInv, WildInv, EnoughNodes, vars
  <2>7. ShapeInv'
    BY <1>3 DEF PlannerInv, ShapeInv, MaxIter, vars
  <2>8. RsInv'
    <3>1. RsReading' = RsReading
      BY <1>3 DEF RsReading, FirstSurvivors, Survivors, ReadBefore, LostSome, RsBlocks, vars
    <3> QED
      BY <1>3, <3>1 DEF PlannerInv, RsInv, vars
  <2> QED
    BY <2>1, <2>2, <2>3, <2>4, <2>5, <2>6, <2>7, <2>8 DEF PlannerInv
<1> QED
  BY <1>1, <1>2, <1>3, PTL DEF Spec

----------------------------------------------------------------------------

\* The planner's state has the shape the code gives it (generate_repair_plan,
\* concrete_repair_plans): in particular no plan restores or reads a block that is
\* not of the stripe, and the passes of method 2 end (lrc.cpp 1013, 3913).
THEOREM PlannerTypes == Spec => []TypeOK
<1>1. PlannerInv => TypeOK
  <2> SUFFICES ASSUME PlannerInv PROVE TypeOK
    OBVIOUS
  <2>1. clusters \in Seq(Seq(Units(code)))
    <3>1. CASE step = "place"
      <4>1. Placed \subseteq Units(code) /\ clusters \in Seq(Seq(Placed))
        BY <3>1 DEF PlannerInv, ClusterInv, Spreads
      <4>2. Seq(Placed) \subseteq Seq(Units(code))
        BY <4>1, SeqMonotonic
      <4>3. Seq(Seq(Placed)) \subseteq Seq(Seq(Units(code)))
        BY <4>2, SeqMonotonic
      <4> QED
        BY <4>1, <4>3
    <3>2. CASE step # "place"
      BY <3>2 DEF PlannerInv, ClusterInv, Spreads
    <3> QED
      BY <3>1, <3>2
  <2>2. code \in Codes /\ lost \in SUBSET BlocksOf(code) /\ todo \in SUBSET lost
    BY DEF PlannerInv, PlanInv, OfTheCode, Split
  <2>3. /\ options \in [partial : BOOLEAN, globalFirst : BOOLEAN, method2 : BOOLEAN]
        /\ step \in {"place", "placed", "plan", "groups", "rest", "data", "concrete",
                     "done", "refused", "wild"}
        /\ iter \in 0 .. MaxIter + 1
    BY DEF PlannerInv, ShapeInv
  <2>4. made \in 0 .. Len(plans)
    BY DEF PlannerInv, NodesInv
  <2>5. \A n \in DOMAIN plans : plans[n].fail \subseteq lost /\ plans[n].help \subseteq BlocksOf(code)
    BY DEF PlannerInv, PlanInv, Split, HelpInv
  <2> QED
    BY <2>1, <2>2, <2>3, <2>4, <2>5 DEF TypeOK
<1> QED
  BY <1>1, PlannerInvariant, PTL

\* No plan reads a lost block that no earlier plan restores, whatever is lost, with
\* either method and priority and every code (lrc.cpp 597-660, 3944-3980, rs.cpp
\* 314-335, pc.cpp 505-580): repair.cpp carries the plans out in order and fetches
\* what they read from the nodes, so a plan that did would read a node that is gone.
THEOREM PlansReadInOrder == Spec => []ReadsInOrder
<1>1. PlannerInv => ReadsInOrder
  BY DEF PlannerInv, HelpInv
<1> QED
  BY <1>1, PlannerInvariant, PTL

\* The planner never indexes an array with -1 or an empty one: a group whose count
\* says that one block is lost has a lost block (lrc.cpp 1008-1016, 3944-3952), and
\* concrete_repair_plans finds a free node for every restored block in every stripe
\* whose clusters have a node for each block and another for each lost one.
THEOREM PlannerNeverWild == Spec => []((code \in TargetCodes => EnoughNodes) => NeverWild)
<1>1. PlannerInv => ((code \in TargetCodes => EnoughNodes) => NeverWild)
  BY DEF PlannerInv, WildInv, NeverWild
<1> QED
  BY <1>1, PlannerInvariant, PTL

\* The survivors in the clusters that lost a block, where they are no more than k,
\* are read by the plan of a Reed-Solomon code.
LEMMA BesideIsRead ==
  ASSUME ClusterInv, PlanInv, HomeInv, code \in TargetCodes, code.type = "RS", step # "place",
         Cardinality(Beside) <= code.k
  PROVE  Beside \subseteq RsReading
<1>1. PICK U : U = BlocksOf(code)
  OBVIOUS
<1>2. /\ Spreads(clusters, U) /\ IsFiniteSet(U) /\ RsBlocks(code) = U
      /\ \A b \in U : PlacedAt(code, clusters, b)
      /\ lost \subseteq U /\ DOMAIN home = U /\ code.k \in Nat
  <2>1. RsBlocks(code) = U
    BY <1>1 DEF BlocksOf, IsPc, PcTypes
  <2>2. code.k \in Nat /\ lost \subseteq U /\ DOMAIN home = U
    BY <1>1, CodesAssumption DEF PlanInv, OfTheCode, HomeInv
  <2> QED
    BY <1>1, <2>1, <2>2, TargetBlocks
<1>3. \A b \in U : \A i \in DOMAIN clusters : b \in ToSet(clusters[i]) <=> ClusterOf(b) = i
  BY <1>2 DEF HomeInv, PlacedAt, Home0
<1>4. \A b \in U : ClusterOf(b) \in DOMAIN clusters
  BY <1>2 DEF HomeInv, PlacedAt, Home0
<1>5. Beside \subseteq (U \cap U) \ lost
  BY <1>2 DEF Beside
<1>6. ASSUME NEW b \in (U \cap U) \ lost
      PROVE  b \in Beside <=>
               \E i \in DOMAIN clusters : LostSome(clusters[i], lost) /\ b \in ToSet(clusters[i])
  <2>1. b \in Beside <=> \E o \in lost : ClusterOf(b) = ClusterOf(o)
    BY <1>2 DEF Beside
  <2>2. ASSUME NEW o \in lost, ClusterOf(b) = ClusterOf(o)
        PROVE  \E i \in DOMAIN clusters : LostSome(clusters[i], lost) /\ b \in ToSet(clusters[i])
    <3>1. PICK i \in DOMAIN clusters : i = ClusterOf(o)
      BY <1>2, <1>4
    <3>2. o \in ToSet(clusters[i]) /\ b \in ToSet(clusters[i])
      BY <1>2, <1>3, <2>2, <3>1
    <3> QED
      BY <3>2 DEF LostSome
  <2>3. ASSUME NEW i \in DOMAIN clusters, LostSome(clusters[i], lost), b \in ToSet(clusters[i])
        PROVE  \E o \in lost : ClusterOf(b) = ClusterOf(o)
    <3>1. PICK o \in lost : o \in ToSet(clusters[i])
      BY <2>3 DEF LostSome
    <3> QED
      BY <1>2, <1>3, <2>3, <3>1
  <2> QED
    BY <2>1, <2>2, <2>3
<1>7. Beside \subseteq FirstSurvivors(code.k, clusters, lost, U)
  BY <1>2, <1>5, <1>6, BesideAreRead
<1> QED
  BY <1>2, <1>7 DEF RsReading

\* The restored blocks are apart from each other (concrete_repair_plans,
\* repair.cpp 476-587): no two get one node, whichever plans restore them.  After the
\* repair of a Reed-Solomon stripe of which at most k blocks are left beside the lost
\* ones, all blocks are on nodes of their own and no restored one where one was lost.
THEOREM SpreadIsKept == Spec => []SpreadKept
<1>1. ASSUME PlannerInv, step = "done", code \in TargetCodes
      PROVE  SpreadKept
  <2>1. /\ ClusterInv /\ PlanInv /\ RsInv /\ HomeInv /\ RoomInv /\ AvoidInv
        /\ made = Len(plans) /\ made \in 0 .. Len(plans)
    BY <1>1 DEF PlannerInv, NodesInv, Targeted
  <2>2. Restored = lost /\ DOMAIN plans = 1 .. made
    <3>1. DOMAIN plans = 1 .. made
      <4>1. plans \in Seq(ToSet(plans))
        BY <2>1 DEF PlanInv, Split
      <4> QED
        BY <2>1, <4>1, LenProperties
    <3>2. todo = {}
      BY <1>1, <2>1 DEF PlanInv, Progress
    <3>3. lost \subseteq Restored
      BY <2>1, <3>1, <3>2 DEF PlanInv, Split, Restored
    <3>4. Restored \subseteq lost
      BY <2>1, <3>1 DEF PlanInv, Split, Restored
    <3> QED
      BY <3>1, <3>3, <3>4
  <2>3. \A b, o \in lost : b # o => home[b] # home[o]
    BY <2>1, <2>2 DEF RoomInv
  <2>4. /\ DOMAIN home = BlocksOf(code) /\ lost \subseteq BlocksOf(code)
        /\ \A b \in BlocksOf(code) : PlacedAt(code, clusters, b)
        /\ \A b \in BlocksOf(code) \ lost : home[b] = Home0[b]
        /\ \A b \in BlocksOf(code) : home[b][1] = Home0[b][1]
    BY <1>1, <2>1, <2>2, TargetBlocks DEF HomeInv, PlanInv, OfTheCode, ClusterOf
  <2>5. ASSUME code.type = "RS", options.partial, Cardinality(Beside) <= code.k
        PROVE  /\ \A b, o \in DOMAIN home : b # o => home[b] # home[o]
               /\ \A b, o \in lost : home[b] # Home0[o]
    <3>1. Len(plans) = 1 /\ plans[1].fail = lost /\ plans[1].help = RsReading
      BY <1>1, <2>1, <2>5 DEF RsInv
    <3>2. 1 \in 1 .. made
      BY <2>1, <3>1
    <3>3. \A b \in lost : \A o \in BlocksOf(code) \cap (lost \cup (RsReading \ lost)) :
            home[b][1] = Home0[o][1] => home[b][2] # Home0[o][2]
      BY <2>1, <3>1, <3>2 DEF AvoidInv, ClusterOf
    <3>4. \A b, o \in lost : home[b] # Home0[o]
      BY <2>4, <3>3
    <3>5. Beside \subseteq RsReading
      BY <1>1, <2>1, <2>5, BesideIsRead
    <3>6. ASSUME NEW b \in lost, NEW o \in BlocksOf(code) \ lost
          PROVE  home[b] # home[o]
      <4> SUFFICES ASSUME home[b] = home[o] PROVE FALSE
        OBVIOUS
      <4>1. o \in Beside
        BY <2>4 DEF Beside, ClusterOf
      <4>2. home[o] = Home0[o] /\ o \in RsReading \ lost
        BY <2>4, <3>5, <4>1
      <4> QED
        BY <3>3, <4>2
    <3>7. ASSUME NEW b \in BlocksOf(code) \ lost, NEW o \in BlocksOf(code) \ lost,
                 home[b] = home[o]
          PROVE  b = o
      <4>1. Homes(code, clusters)[b] = Homes(code, clusters)[o]
        BY <2>4, <3>7 DEF Home0
      <4>2. PlacedAt(code, clusters, b) /\ PlacedAt(code, clusters, o)
        BY <2>4
      <4> QED
        BY <4>1, <4>2 DEF PlacedAt
    <3>8. \A b, o \in DOMAIN home : b # o => home[b] # home[o]
      BY <2>3, <2>4, <3>6, <3>7
    <3> QED
      BY <3>4, <3>8
  <2> QED
    BY <2>3, <2>5 DEF SpreadKept, Home0
<1>2. PlannerInv => SpreadKept
  BY <1>1 DEF SpreadKept
<1> QED
  BY <1>2, PlannerInvariant, PTL

----------------------------------------------------------------------------

\* Every lost block is restored by exactly one plan (generate_repair_plan of
\* lrc.cpp, rs.cpp and pc.cpp): for every code, placement, loss and choice of
\* options, no two plans restore the same block, and a planner that does not give
\* up leaves no lost block without a plan.
THEOREM PlansPartitionTheLoss == Spec => []EachFailureOnce
<1>1. PlanInv => EachFailureOnce
  <2> SUFFICES ASSUME PlanInv PROVE EachFailureOnce
    OBVIOUS
  <2>1. step = "done" => UNION {plans[n].fail : n \in DOMAIN plans} = lost
    BY DEF PlanInv, Split, Progress
  <2> QED
    BY <2>1 DEF EachFailureOnce, PlanInv, Split
<1> QED
  BY <1>1, PlanInvariant, PTL
================================================================================
