---------------------------- MODULE RepairPlanning ----------------------------
(***************************************************************************)
(* From lost blocks to repair plans: how a stripe is spread over clusters  *)
(* (generate_partition), which plans generate_repair_plan makes for the    *)
(* blocks that are lost, one after the other, and on which nodes           *)
(* concrete_repair_plans puts the restored blocks.                         *)
(*                                                                         *)
(* The loops of repair_multi_blocks_method1 and _method2 (lrc.cpp) and of  *)
(* ProductCode::generate_repair_plan (pc.cpp) are taken one plan at a time. *)
(***************************************************************************)
EXTENDS LrcPlans, RsPcPlans

CONSTANTS
  Codes,          \* the erasure codes a stripe may have
  RandomlyPlaced, \* those for which random placement is explored (bound)
  TargetCodes,    \* those for which the choice of nodes is explored (bound)
  MaxLost,        \* most blocks lost at once (bound)
  NodesPerCluster \* num_of_nodes_per_cluster_

ASSUME CodesAssumption ==
  /\ RandomlyPlaced \subseteq Codes /\ TargetCodes \subseteq Codes
  /\ NodesPerCluster \in Nat
  /\ \A c \in Codes : c.type \in {"RS"} \cup PcTypes \cup LrcTypes
  /\ \A c \in Codes : c.type = "RS" => c.k \in Nat /\ c.m \in Nat \ {0} /\ c.k + c.m <= 5 * c.m
  /\ \A c \in Codes : c.type \in PcTypes => {c.k1, c.m1, c.k2, c.m2} \subseteq Nat \ {0}
  /\ \A c \in Codes : c.type \in LrcTypes => {c.k, c.g} \subseteq Nat /\ c.l \in Nat \ {0}
  /\ \A c \in Codes : c.type = "AZURE_LRC_1" => c.l > 1
  /\ \A c \in TargetCodes : c.type \notin PcTypes

\* partition_optimal of the local codes leaves no block out (lrc.cpp 261-318,
\* 1663-1681, 2194-2212, 4478-4496).
ASSUME LayoutsCover ==
  \A c \in Codes : c.type \in LrcTypes => Spreads(LrcOptimal(c), Blocks(c))

VARIABLES
  code,     \* ec_schema_.ec
  clusters, \* partition_plan: a sequence of clusters, each one of blocks
            \* (of columns where the code is a product code)
  lost,     \* the blocks that were lost (failures_map[stripe])
  options,  \* partial_scheme, repair_priority, repair_method
  step,     \* where the planner is
  todo,     \* failed_map: the lost blocks no plan restores yet
  cnt,      \* fb_group_cnt
  iter,     \* iter_cnt
  plans,    \* repair_plans
  home,     \* t_blocks2nodes: node of every block, a cluster and a number
  free,     \* free_nodes_in_clusters
  made      \* number of plans that have their nodes

vars == <<code, clusters, lost, options, step, todo, cnt, iter, plans, home, free, made>>
placing  == <<code, clusters>>
stripe   == <<code, clusters, lost, options>>
planning == <<todo, cnt, iter, plans>>
nodes    == <<home, free, made>>

IsPc(c) == c.type \in PcTypes
BlocksOf(c) == CASE c.type = "RS" -> RsBlocks(c)
                 [] IsPc(c)       -> PcBlocks(c)
                 [] OTHER         -> Blocks(c)
\* What is placed: blocks, or whole columns.
Units(c) == IF IsPc(c) THEN Columns(c) ELSE BlocksOf(c)
MaxTogether(c) == CASE c.type = "RS" -> c.m [] IsPc(c) -> c.m1 [] OTHER -> c.g + 1
Placed == UNION {ToSet(clusters[i]) : i \in DOMAIN clusters}
RsClusterNum == 5

Init ==
  /\ code \in Codes /\ clusters = <<>>
  /\ lost = {} /\ options = [partial |-> TRUE, globalFirst |-> FALSE, method2 |-> FALSE]
  /\ step = "place"
  /\ todo = {} /\ cnt = <<>> /\ iter = 0 /\ plans = <<>>
  /\ home = <<>> /\ free = <<>> /\ made = 0

----------------------------------------------------------------------------
(* generate_partition.                                                      *)

PlaceFlat ==
  /\ step = "place" /\ clusters = <<>>
  /\ clusters' = Pieces(Ordered(Units(code)), 1)
  /\ step' = "placed"
  /\ UNCHANGED <<code, lost, options, planning, nodes>>

PlaceOptimal ==
  /\ step = "place" /\ clusters = <<>>
  /\ clusters' = CASE code.type = "RS" -> RsPartitionOptimal(code)
                   [] IsPc(code)       -> PcPartitionOptimal(code)
                   [] OTHER            -> LrcOptimal(code)
  /\ step' = "placed"
  /\ UNCHANGED <<code, lost, options, planning, nodes>>

\* One more cluster of 1 to MaxTogether units that are not placed yet.
PlaceRandom ==
  /\ step = "place" /\ code \in RandomlyPlaced /\ Placed # Units(code)
  /\ \E S \in (SUBSET (Units(code) \ Placed)) \ {{}} :
       /\ Cardinality(S) <= MaxTogether(code)
       /\ clusters' = Append(clusters, Ordered(S))
  /\ UNCHANGED <<code, lost, options, step, planning, nodes>>

\* RSCode::partition_random spreads the last cluster over the others while
\* there are more than five; CodesAssumption says that they have room.
SqueezeLast ==
  /\ step = "place" /\ code.type = "RS" /\ Placed = Units(code)
  /\ Len(clusters) > RsClusterNum
  /\ \E to \in [ToSet(Last(clusters)) -> 1 .. Len(clusters) - 1] :
       clusters' = [i \in 1 .. Len(clusters) - 1 |->
         clusters[i] \o Ordered({b \in DOMAIN to : to[b] = i})]
  /\ \A i \in DOMAIN clusters' : Len(clusters'[i]) <= code.m
  /\ UNCHANGED <<code, lost, options, step, planning, nodes>>

EndRandom ==
  /\ step = "place" /\ Placed = Units(code)
  /\ code.type = "RS" => Len(clusters) <= RsClusterNum
  /\ step' = "placed"
  /\ UNCHANGED <<code, clusters, lost, options, planning, nodes>>

\* find_out_stripe_partitions reads the clusters back from the nodes of the
\* blocks: each in the order of its blocks, the clusters in the order of a hash
\* table, for which two orders stand (bound).
FoundOrders(c) ==
  IF IsPc(c) THEN {clusters}
  ELSE LET found == {Ordered(ToSet(clusters[i])) : i \in DOMAIN clusters}
           first == InOrder(found, LAMBDA s, t : s[1] < t[1])
       IN {first, Reverse(first)}

Homes(c, cl) ==
  [b \in UNION {ToSet(cl[i]) : i \in DOMAIN cl} |->
     LET i == CHOOSE j \in DOMAIN cl : b \in ToSet(cl[j])
     IN <<i, CHOOSE n \in DOMAIN cl[i] : cl[i][n] = b>>]

\* check_out_failures: some blocks are lost, few or many: it counts them and asks
\* nothing of them.
Lose ==
  /\ step = "placed"
  /\ clusters' \in FoundOrders(code)
  /\ lost' \in {F \in SUBSET BlocksOf(code) : Cardinality(F) \in 1 .. MaxLost}
  /\ options' \in [partial : BOOLEAN, globalFirst : BOOLEAN, method2 : BOOLEAN]
  /\ code.type \in PcTypes \cup {"RS"} => ~options'.globalFirst /\ ~options'.method2
  /\ todo' = lost'
  /\ home' = IF code \in TargetCodes THEN Homes(code, clusters') ELSE <<>>
  /\ step' = "plan"
  /\ UNCHANGED <<code, cnt, iter, plans, free, made>>

----------------------------------------------------------------------------
(* Plans in general.                                                        *)

\* Mutant: failed_map keeps the blocks that the plan restores.
EmitAndKeep(fail, answer, local) ==
  /\ plans' = Append(plans, [fail |-> fail, par |-> answer.par,
                             help |-> answer.help, local |-> local])
  /\ todo' = IF Cardinality(fail) > 1 THEN todo ELSE todo \ fail
Emit(fail, answer, local) ==
  /\ plans' = Append(plans, [fail |-> fail, par |-> answer.par,
                             help |-> answer.help, local |-> local])
  /\ todo' = todo \ fail
AfterPlans == IF code \in TargetCodes THEN "concrete" ELSE "done"
Refuse == step' = "refused"

(* Reed-Solomon: one plan for everything.  generate_repair_plan never asks   *)
(* whether the stripe can be restored: beyond m losses it plans all the same, *)
(* with fewer than k blocks to read.                                         *)
PlanRs ==
  /\ step = "plan" /\ code.type = "RS"
  /\ \E early \in EarlyParities(code, lost) :
       LET f == CHOOSE b \in lost : TRUE
       IN Emit(lost,
               IF Cardinality(lost) = 1 THEN RsSingle(code, clusters, f, options.partial)
               ELSE RsMulti(code, clusters, lost, early, options.partial), FALSE)
  /\ step' = AfterPlans
  /\ UNCHANGED <<stripe, cnt, iter, nodes>>

----------------------------------------------------------------------------
(* Product codes: the columns that can be restored, then one row, until     *)
(* nothing is lost.                                                         *)

LeastOf(S) == CHOOSE x \in S : \A y \in S : x <= y
AfterPcPlan == step' = IF todo' = {} THEN "done" ELSE "plan"

RepairColumn ==
  /\ step = "plan" /\ IsPc(code) /\ RestorableCols(code, todo) # {}
  /\ LET col == LeastOf(RestorableCols(code, todo))
     IN Emit(LostInCol(code, todo, col), ColumnAnswer(code, todo, col), TRUE)
  /\ AfterPcPlan
  /\ UNCHANGED <<stripe, cnt, iter, nodes>>

RepairRow ==
  /\ step = "plan" /\ IsPc(code) /\ RestorableCols(code, todo) = {}
  /\ RestorableRows(code, todo) # {}
  /\ LET row == LeastOf(RestorableRows(code, todo))
     IN Emit(LostInRow(code, todo, row),
             RowAnswer(code, clusters, todo, row, options.partial), FALSE)
  /\ AfterPcPlan
  /\ UNCHANGED <<stripe, cnt, iter, nodes>>

RefusePc ==
  /\ step = "plan" /\ IsPc(code)
  /\ RestorableCols(code, todo) = {} /\ RestorableRows(code, todo) = {}
  /\ Refuse
  /\ UNCHANGED <<stripe, planning, nodes>>

----------------------------------------------------------------------------
(* Locally repairable codes.                                                *)

IsLrc(c)    == c.type \in LrcTypes
IsOptCau(c) == c.type = "OPTIMAL_CAUCHY_LRC"
InGroup(S, i) == {b \in S : bid2gid(code, b) = i}

RefuseLrc ==
  /\ step = "plan" /\ IsLrc(code) /\ ~LrcDecodable(code, lost)
  /\ Refuse
  /\ UNCHANGED <<stripe, planning, nodes>>

\* One lost block: in its group, if it is in one.
PlanSingle ==
  /\ step = "plan" /\ IsLrc(code) /\ ~IsOptCau(code)
  /\ LrcDecodable(code, lost) /\ Cardinality(lost) = 1
  /\ LET f     == LeastOf(lost)
         local == bid2gid(code, f) < code.l
     IN Emit({f}, LrcSingle(code, clusters, f, local, options.partial), local)
  /\ step' = AfterPlans
  /\ UNCHANGED <<stripe, cnt, iter, nodes>>

\* The plan says local even where reading k survivors is as cheap.
PlanSingleOptCau ==
  /\ step = "plan" /\ IsOptCau(code)
  /\ LrcDecodable(code, lost) /\ Cardinality(lost) = 1
  /\ LET f     == LeastOf(lost)
         local == f \in Locals(code) \/ r(code) + code.g < code.k
     IN Emit({f}, OptCauSingle(code, clusters, f, local, options.partial, 0), TRUE)
  /\ step' = AfterPlans
  /\ UNCHANGED <<stripe, cnt, iter, nodes>>

\* fb_group_cnt.  Every group of the optimal Cauchy code counts the lost global
\* parity blocks, which its local parity block covers.
GroupCounts ==
  [i \in 0 .. code.l |-> Cardinality(InGroup(lost, i))
     + IF IsOptCau(code) /\ i < code.l THEN Cardinality(lost \cap Globals(code)) ELSE 0]

StartMulti ==
  /\ step = "plan" /\ IsLrc(code)
  /\ LrcDecodable(code, lost) /\ Cardinality(lost) > 1
  /\ cnt' = GroupCounts
  /\ step' = "groups"
  /\ UNCHANGED <<stripe, todo, iter, plans, nodes>>

OneLost == {i \in GroupIds(code) : cnt[i] = 1}
LostGlobalLeft == todo \cap Globals(code)

\* Optimal Cauchy: a lost global parity block in a group that lost nothing else.
RepairGlobalInGroup ==
  /\ step = "groups" /\ IsOptCau(code) /\ LostGlobalLeft # {} /\ OneLost # {}
  /\ LET f     == LeastOf(LostGlobalLeft)
         local == ~(iter > 0 /\ r(code) + code.g >= code.k)
     IN Emit({f}, OptCauSingle(code, clusters, f, local, options.partial, LeastOf(OneLost)),
             TRUE)
  /\ cnt' = [i \in DOMAIN cnt |-> cnt[i] - 1]
  /\ UNCHANGED <<stripe, step, iter, nodes>>

SingleInGroup(f) ==
  IF IsOptCau(code) THEN OptCauSingle(code, clusters, f, TRUE, options.partial, 0)
  ELSE LrcSingle(code, clusters, f, TRUE, options.partial)

\* Mutant: the count of the group is not reset.
RepairGroupUncounted ==
  /\ step = "groups" /\ OneLost # {}
  /\ IsOptCau(code) => LostGlobalLeft = {}
  /\ LET i == LeastOf(OneLost)
         S == InGroup(todo, i)
     IN IF S = {} THEN step' = "wild" /\ UNCHANGED planning
        ELSE /\ Emit({LeastOf(S)}, SingleInGroup(LeastOf(S)), TRUE)
             /\ UNCHANGED <<step, cnt, iter>>
  /\ UNCHANGED <<stripe, nodes>>

\* A group that counts one lost block.  Where the count is wrong failed_idx stays
\* -1 and indexes the arrays: "wild".
RepairGroup ==
  /\ step = "groups" /\ OneLost # {}
  /\ IsOptCau(code) => LostGlobalLeft = {}
  /\ LET i == LeastOf(OneLost)
         S == InGroup(todo, i)
     IN IF S = {} THEN step' = "wild" /\ UNCHANGED planning
        ELSE /\ Emit({LeastOf(S)}, SingleInGroup(LeastOf(S)), TRUE)
             /\ cnt' = [cnt EXCEPT ![i] = 0]
             /\ UNCHANGED <<step, iter>>
  /\ UNCHANGED <<stripe, nodes>>

EndGroups ==
  /\ step = "groups" /\ OneLost = {}
  /\ step' = CASE todo = {} -> AfterPlans
               [] options.method2 -> "data"
               [] OTHER -> "rest"
  /\ UNCHANGED <<stripe, planning, nodes>>

\* Everything that is lost still, in one plan.
RestAnswer ==
  LET n         == Cardinality(todo)
      inOwn     == ~options.globalFirst /\ GlobalsInLastGroup(code)
      counted   == {i \in GroupIds(code) : cnt[i] = n}
      surviving == Least(counted, n)
      local     == Cardinality(surviving) = n /\ ~options.globalFirst
  IN IF ~(todo \subseteq Globals(code)) THEN AllAnswer(code, todo, options.globalFirst)
     ELSE IF IsOptCau(code)
     THEN OptCauMultiGlobal(code, clusters, todo, local, options.partial, surviving)
     ELSE IF n = 1
     THEN LrcSingle(code, clusters, LeastOf(todo), inOwn, options.partial)
     ELSE IF inOwn THEN AllAnswer(code, todo, FALSE)
     ELSE LrcMultiGlobal(code, clusters, todo, options.partial)

\* The counts of the groups of the blocks in S, but no other: with the optimal
\* Cauchy code a restored global parity block stays counted in the local groups.
Uncount(S) == [i \in DOMAIN cnt |-> cnt[i] - Cardinality(InGroup(S, i))]

RepairRest ==
  /\ step = "rest"
  /\ IF RestAnswer.help = {} THEN Refuse /\ UNCHANGED planning
     ELSE /\ Emit(todo, RestAnswer, FALSE)
          /\ cnt' = Uncount(todo)
          /\ step' = AfterPlans
          /\ UNCHANGED iter
  /\ UNCHANGED <<stripe, nodes>>

\* Method 2: the lost data first, ...
RepairData ==
  /\ step = "data" /\ todo \cap Data(code) # {}
  /\ LET fail   == todo \cap Data(code)
         answer == DataAnswer(code, todo, options.globalFirst)
     IN IF answer.help = {} THEN Refuse /\ UNCHANGED planning
        ELSE /\ Emit(fail, answer, FALSE)
             /\ cnt' = Uncount(fail)
             /\ step' = IF todo' = {} THEN AfterPlans ELSE "data"
             /\ UNCHANGED iter
  /\ UNCHANGED <<stripe, nodes>>

\* ... then the groups once more, ...
GroupsAgain ==
  /\ step = "data" /\ todo \cap Data(code) = {} /\ iter = 0
  /\ iter' = 1 /\ step' = "groups"
  /\ UNCHANGED <<stripe, todo, cnt, plans, nodes>>

\* ... then the global parity blocks, which may be none.
GlobalsAnswer(fail) ==
  LET n         == Cardinality(fail)
      own       == GlobalsInLastGroup(code)
      surviving == Least({i \in GroupIds(code) : cnt[i] = n}, n)
      local     == Cardinality(surviving) = n /\ n < code.l
  IN IF IsOptCau(code)
     THEN CASE n = 0 -> Undecodable
            [] n = 1 -> OptCauSingle(code, clusters, LeastOf(fail), FALSE, options.partial, 0)
            [] OTHER -> OptCauMultiGlobal(code, clusters, fail, local, options.partial, surviving)
     ELSE IF n = 1
     THEN LrcSingle(code, clusters, LeastOf(fail), Cardinality(todo) = 1 /\ own, options.partial)
     ELSE IF own /\ ~options.globalFirst THEN AllAnswer(code, todo, FALSE)
     ELSE LrcMultiGlobal(code, clusters, fail, options.partial)

MaxIter == 2
\* Mutant: no limit on the number of passes.
RepairGlobalsForever ==
  /\ step = "data" /\ todo \cap Data(code) = {} /\ iter > 0
  /\ LET fail == todo \cap Globals(code)
     IN Emit(fail, GlobalsAnswer(fail), FALSE) /\ cnt' = Uncount(fail)
  /\ iter' = iter + 1
  /\ step' = IF todo' = {} THEN AfterPlans ELSE "groups"
  /\ UNCHANGED <<stripe, nodes>>

RepairGlobals ==
  /\ step = "data" /\ todo \cap Data(code) = {} /\ iter > 0
  /\ LET fail == todo \cap Globals(code)
     IN Emit(fail, GlobalsAnswer(fail), FALSE) /\ cnt' = Uncount(fail)
  /\ iter' = iter + 1
  /\ step' = IF iter' > MaxIter THEN "refused"
             ELSE IF todo' = {} THEN AfterPlans ELSE "groups"
  /\ UNCHANGED <<stripe, nodes>>

----------------------------------------------------------------------------
(* concrete_repair_plans: new nodes for the restored blocks, in the cluster *)
(* of the block, at random among those thought to be free.                  *)

ClusterOf(b) == home[b][1]
\* Mutant: only the nodes of lost blocks are taken out.
FreeUnlessLost(p, i) ==
  (IF i \in DOMAIN free THEN free[i] ELSE 1 .. NodesPerCluster)
    \ {home[b][2] : b \in {x \in p.fail : ClusterOf(x) = i}}
\* Nodes thought free when the plan p takes its turn: of a cluster that an
\* earlier plan met, what that left; without the nodes of the blocks that p
\* restores and of those that it reads in their clusters.
FreeFor(p, i) ==
  (IF i \in DOMAIN free THEN free[i] ELSE 1 .. NodesPerCluster)
    \ {home[b][2] : b \in {x \in p.fail \cup p.help : ClusterOf(x) = i}}
FailedClusters(p) == {ClusterOf(b) : b \in p.fail}
RoomFor(p) == \A i \in FailedClusters(p) :
  Cardinality({b \in p.fail : ClusterOf(b) = i}) <= Cardinality(FreeFor(p, i))

\* Where too few nodes are free, random_index(0) indexes an empty vector: "wild".
Concretise ==
  /\ step = "concrete" /\ made < Len(plans)
  /\ LET p == plans[made + 1] IN
     IF ~RoomFor(p) THEN step' = "wild" /\ UNCHANGED nodes
     ELSE /\ \E new \in [p.fail -> 1 .. NodesPerCluster] :
               LET taken(i) == {new[b] : b \in {x \in p.fail : ClusterOf(x) = i}} IN
               /\ \A b \in p.fail : new[b] \in FreeFor(p, ClusterOf(b))
               /\ \A b, o \in p.fail :
                    b # o /\ ClusterOf(b) = ClusterOf(o) => new[b] # new[o]
               /\ home' = [b \in DOMAIN home |->
                    IF b \in p.fail THEN <<ClusterOf(b), new[b]>> ELSE home[b]]
               /\ free' = [i \in DOMAIN free \cup FailedClusters(p) |->
                    IF i \in FailedClusters(p) THEN FreeFor(p, i) \ taken(i) ELSE free[i]]
          /\ made' = made + 1
          /\ step' = IF made' = Len(plans) THEN "done" ELSE "concrete"
  /\ UNCHANGED <<stripe, planning>>

----------------------------------------------------------------------------

Ended == step \in {"done", "refused", "wild"}
Stop == Ended /\ UNCHANGED vars

Next ==
  \/ PlaceFlat \/ PlaceOptimal \/ PlaceRandom \/ SqueezeLast \/ EndRandom
  \/ Lose
  \/ PlanRs \/ RepairColumn \/ RepairRow \/ RefusePc
  \/ RefuseLrc \/ PlanSingle \/ PlanSingleOptCau \/ StartMulti
  \/ RepairGlobalInGroup \/ RepairGroup \/ EndGroups \/ RepairRest
  \/ RepairData \/ GroupsAgain \/ RepairGlobals
  \/ Concretise \/ Stop

Spec == Init /\ [][Next]_vars

----------------------------------------------------------------------------
(* What decoding asks of a plan (encode_partial_blocks and                   *)
(* decode_with_partial_blocks).  Coefficients are generic, as those of the   *)
(* Vandermonde and Cauchy matrices are: a square system has a solution when   *)
(* every unknown can have an equation of its own.                             *)

Equation(p) == IF code.type = "RS" THEN Data(code) \cup {p} ELSE Span(code, p) \cup {p}

Solves(P, F, H) ==
  /\ Cardinality(P) = Cardinality(F)
  /\ \A p \in P : Equation(p) \subseteq F \cup H
  /\ \E own \in [F -> P] : /\ \A b \in F : b \in Equation(own[b])
                         /\ \A b, o \in F : b # o => own[b] # own[o]

\* encode_partial_blocks_local: the blocks of one local equation, and no other,
\* because their numbers become positions in it.
DecodesLocally(p) ==
  \E q \in Locals(code) :
    p.par = {q} /\ Cardinality(p.fail) = 1 /\ Equation(q) = p.fail \cup p.help

MdsBlocks == IF code.type = "RS" THEN RsBlocks(code) ELSE Data(code) \cup Globals(code)
DecodesFromSurvivors(p) == Cardinality(p.help) = code.k /\ p.help \subseteq MdsBlocks

Decodes(p) ==
  IF ~options.partial THEN Solves(p.par, p.fail, p.help)
  ELSE IF p.local THEN DecodesLocally(p)
  ELSE IF Cardinality(p.par) = Cardinality(p.fail) THEN Solves(p.par, p.fail, p.help)
  ELSE DecodesFromSurvivors(p)

\* A Reed-Solomon stripe that lost more than it can: no plan restores it, and
\* none is refused (rs.cpp 506-530).
BeyondRepair == code.type = "RS" /\ ~RsDecodable(code, lost)

\* Where the plans are known not to decode: Reed-Solomon beyond m losses, without
\* the partial scheme (a mixed loss names too few parity blocks, a scattered one too many),
\* and with it where fewer than m blocks, data and parity, are lost: when as many
\* parity blocks are read as blocks are lost, rs.cpp 50 takes them for the
\* equations of all, but a lost parity block has none; method 2 with local
\* priority, which lists the parity blocks of all that is lost for a plan of the
\* global ones; groups of the optimal Cauchy code that are no smaller than the
\* data, whose plans say local and read k survivors.
NotMeantToDecode ==
  \/ BeyondRepair
  \/ code.type = "RS" /\ ~options.partial
  \/ /\ code.type = "RS" /\ Cardinality(lost) < code.m
     /\ lost \cap Data(code) # {} /\ lost \ Data(code) # {}
  \/ /\ IsLrc(code) /\ options.method2 /\ ~options.globalFirst
     /\ GlobalsInLastGroup(code)
     /\ Cardinality(lost \cap Globals(code)) > 1 /\ lost \cap Locals(code) # {}
     /\ options.partial => Globals(code) \ lost # {}
  \/ IsOptCau(code) /\ r(code) + code.g >= code.k

\* The optimal Cauchy code never lowers the counts of the local groups when
\* method 2 restores global parity blocks: a local one lost with them stays.
CountsGoStale ==
  /\ IsOptCau(code) /\ options.method2
  /\ lost \cap Globals(code) # {} /\ lost \cap Locals(code) # {}

\* check_if_decodable restores several global parity blocks of the optimal Cauchy
\* code in the groups that lost nothing else; the planner, whose counts are then
\* all above one, restores lost data with the global ones that are left only.
HealthyGroupsIgnored ==
  /\ IsOptCau(code) /\ Cardinality(lost \cap Globals(code)) > 1
  /\ Cardinality(lost \cap Data(code)) > Cardinality(Globals(code) \ lost)

----------------------------------------------------------------------------
(* Properties.                                                              *)

\* The planner's state has the shape the code gives it: what is left to restore
\* was lost, and plans name blocks of the stripe.
TypeOK ==
  /\ code \in Codes
  /\ clusters \in Seq(Seq(Units(code)))
  /\ lost \in SUBSET BlocksOf(code) /\ todo \in SUBSET lost
  /\ options \in [partial : BOOLEAN, globalFirst : BOOLEAN, method2 : BOOLEAN]
  /\ step \in {"place", "placed", "plan", "groups", "rest", "data", "concrete",
               "done", "refused", "wild"}
  \* The loops end: no pass comes again without a count (lrc.cpp 1013, 3913).
  /\ iter \in 0 .. MaxIter + 1 /\ made \in 0 .. Len(plans)
  /\ \A n \in DOMAIN plans :
       plans[n].fail \subseteq lost /\ plans[n].help \subseteq BlocksOf(code)

\* No plan reads a lost block that no earlier plan restores: repair.cpp carries
\* them out in order, and every loop that makes one takes what it reads from what
\* it thinks is left (lrc.cpp 597-660, 3944-3980, rs.cpp 314-335, pc.cpp 505-580).
ReadsInOrder ==
  \A n \in DOMAIN plans :
    plans[n].help \cap (lost \ UNION {plans[i].fail : i \in 1 .. n - 1}) = {}

\* Every plan can be carried out when its turn comes.  It reads what is there, and
\* the equations of its parity blocks, or the k survivors it reads, determine the
\* blocks it restores (lrc.cpp 90-203, rs.cpp 46-97).
PlansDecode ==
  /\ ReadsInOrder
  /\ \A n \in DOMAIN plans : ~IsPc(code) /\ ~NotMeantToDecode => Decodes(plans[n])

\* Every lost block is restored by exactly one plan, although the loops keep
\* failed_map, fb_group_cnt, num_of_failed_blocks and failure_idxs side by side.
EachFailureOnce ==
  /\ \A n, i \in DOMAIN plans : n # i => plans[n].fail \cap plans[i].fail = {}
  /\ step = "done" => UNION {plans[n].fail : n \in DOMAIN plans} = lost

\* A group whose count says that one block is lost has a lost block, so that
\* failed_idx is never used as -1 (lrc.cpp 1008-1016, 3944-3952), and a node is
\* free for every restored block.
NeverWild == step # "wild"

Decodable(c, F) == CASE c.type = "RS" -> RsDecodable(c, F)
                     [] IsPc(c)       -> PcDecodable(c, F)
                     [] OTHER         -> LrcDecodable(c, F)

\* check_if_decodable and the planner agree: what the one accepts the other plans
\* to the end, though the two count in different ways.  Of a Reed-Solomon stripe
\* nobody asks, and a loss beyond m gets its plan as well.
AgreesWithCheck ==
  /\ step = "refused" => ~Decodable(code, lost) \/ CountsGoStale \/ HealthyGroupsIgnored
  /\ step = "done" => Decodable(code, lost) \/ BeyondRepair

\* The blocks of cluster i.
Cluster(i) == IF IsPc(code)
              THEN {b \in PcBlocks(code) : ColOf(code, b) \in ToSet(clusters[i])}
              ELSE ToSet(clusters[i])
\* No local group has both data and global parity blocks, and all have r blocks.
EvenGroups == IsLrc(code) => code.k % r(code) = 0

\* A random cluster of the optimal Cauchy code that is full, g + 1 blocks, all of
\* them data and global parity blocks: where fewer groups are left whole than
\* global parity blocks are lost, check_if_decodable (lrc.cpp 2849-2866) asks of
\* the global ones that are left to restore the data as well, and refuses.
MixesGlobals(i) ==
  /\ IsOptCau(code) /\ Cardinality(Cluster(i)) = code.g + 1
  /\ Cluster(i) \cap Locals(code) = {}
  /\ Cluster(i) \cap Data(code) # {} /\ Cluster(i) \cap Globals(code) # {}

\* A stripe survives the loss of any one cluster, flat, optimal or at random
\* placed ("subject to single-region fault tolerance", erasure_code.h 124,
\* rs.cpp 126, lrc.cpp 246), where the groups are even; uneven ones are placed or
\* checked too strictly.  One kind of random cluster is an exception.
SingleClusterTolerant ==
  step = "placed" /\ EvenGroups =>
    \A i \in DOMAIN clusters : MixesGlobals(i) \/ Decodable(code, Cluster(i))

\* The blocks that are left in the clusters that lost some.
Beside == {b \in DOMAIN home \ lost : ClusterOf(b) \in {ClusterOf(o) : o \in lost}}

\* No two restored blocks get one node, whichever plans restore them.  After a
\* Reed-Solomon repair every block is on a node of its own again, and no restored
\* one on a node that lost a block, where no more than k blocks are left in the
\* clusters that lost some: the plan reads all of these, which is why
\* concrete_repair_plans may look for free nodes among those it does not read.
SpreadKept ==
  step = "done" /\ code \in TargetCodes =>
    /\ \A b, o \in lost : b # o => home[b] # home[o]
    /\ code.type = "RS" /\ options.partial /\ Cardinality(Beside) <= code.k =>
         /\ \A b, o \in DOMAIN home : b # o => home[b] # home[o]
         /\ \A b, o \in lost : home[b] # Homes(code, clusters)[o]
==============================================================================
