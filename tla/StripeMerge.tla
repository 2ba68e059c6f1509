----------------------------- MODULE StripeMerge -----------------------------
(***************************************************************************)
(* Stripes of one merge group, from their placement (generate_placement of *)
(* placement.cpp) to the larger stripes that do_stripe_merge (merge.cpp)    *)
(* makes of them: which block gets which number in the larger stripe, from  *)
(* which blocks the new parity blocks are computed, which blocks are moved  *)
(* to other clusters and nodes, and how the moves of block_relocation       *)
(* (proxy.cpp), which run at the same time, leave the disks.                *)
(*                                                                          *)
(* Nodes are numbered cluster by cluster.  Where the program reads or writes *)
(* past the end of a vector, or draws from an empty one, it may do anything: *)
(* the model stops in step "undefined".  A transfer reaches its node; what   *)
(* happens on the way is the matter of DatanodeTransfer.                     *)
(***************************************************************************)
EXTENDS LrcLayout, RsPcPlans

CONSTANTS
  Setups,          \* code, multistripe_placement_rule, x (the stripes of a merge
                   \* group) and first, where the nodes of a stripe may start
  NumClusters,     \* num_of_clusters_
  NodesPerCluster  \* num_of_nodes_per_cluster_

Rules == {"RAND", "DISPERSED", "AGGREGATED", "VERTICAL", "HORIZONTAL"}

RsCodes == [type : {"RS"}, k : Pos, m : Nat]
LrCodes == [type : {"AZURE_LRC"}, k : Pos, l : Pos, g : Nat]

\* The program divides by these numbers and nowhere checks them.
ASSUME SetupsAssumption ==
  /\ NumClusters \in Pos /\ NodesPerCluster \in Pos
  /\ \A s \in Setups :
       /\ s.code \in RsCodes \cup LrCodes \cup PcCodes /\ s.rule \in Rules
       /\ s.x \in Nat /\ s.x > 1
       /\ s.first \subseteq 0 .. NodesPerCluster - 1

VARIABLES
  setup,     \* ec_schema_
  step,      \* where the coordinator is
  group,     \* the stripes of the merge group
  stripes,   \* stripe_table_: block ids and nodes of every stripe
  newStripe, \* cur_stripe_id_
  newBlock,  \* cur_block_id_
  lucky,     \* lucky_cid_
  apart,     \* free_clusters_
  larger,    \* larger_stripe
  made,      \* which blocks each new parity block was computed from
  reloc,     \* the search for blocks to move
  moves,     \* blocks_to_move, src_nodes and des_nodes
  moved,     \* how far each move is
  disk       \* which node has which block

vars == <<setup, step, group, stripes, newStripe, newBlock, lucky, apart,
          larger, made, reloc, moves, moved, disk>>
placement == <<lucky, apart>>
tables    == <<group, stripes, newStripe, newBlock>>
moving    == <<moves, moved, disk>>

Clusters       == 0 .. NumClusters - 1
AllNodes       == 0 .. NumClusters * NodesPerCluster - 1
ClusterOf(n)   == n \div NodesPerCluster
NodesIn(c)     == {n \in AllNodes : ClusterOf(n) = c}

Size(c) == CASE c.type = "RS"      -> c.k + c.m
             [] c.type \in PcTypes -> Cardinality(Cells(c))
             [] OTHER              -> c.k + c.g + c.l
BlocksOf(c) == 0 .. Size(c) - 1

\* partition_optimal of each code; a product code places whole columns.
Partitions(c) ==
  CASE c.type = "RS"      -> RsPartitionOptimal(c)
    [] c.type \in PcTypes ->
         [i \in DOMAIN PcPartitionOptimal(c) |->
            FlattenSeq([j \in DOMAIN PcPartitionOptimal(c)[i] |->
              Ordered({b \in BlocksOf(c) : bid2rowcol(c, b)[2] = PcPartitionOptimal(c)[i][j]})])]
    [] OTHER              -> LrcOptimal(c)

\* What partition_optimal returns: every block is in a partition.
ASSUME LayoutsCover ==
  \A s \in Setups :
    /\ Partitions(s.code) \in Seq(Seq(BlocksOf(s.code)))
    /\ \A b \in BlocksOf(s.code) :
         \E i \in DOMAIN Partitions(s.code) : b \in ToSet(Partitions(s.code)[i])

\* What that of Azure LRC returns: no two partitions have a block in common, only
\* the last one can be empty, and no more than g + 1 blocks of a group, or global
\* parity blocks, are in one.
ASSUME PartitionsOfGroups ==
  \A s \in Setups : s.code \in LrCodes =>
    LET parts == Partitions(s.code) IN
    /\ \A i, j \in DOMAIN parts : i # j => ToSet(parts[i]) \cap ToSet(parts[j]) = {}
    /\ \A i \in DOMAIN parts : i < Len(parts) => parts[i] # <<>>
    /\ \A i \in DOMAIN parts : \A b \in BlocksOf(s.code) :
         Cardinality({a \in ToSet(parts[i]) : bid2gid(s.code, a) = bid2gid(s.code, b)})
           <= s.code.g + 1

\* The same as a table, which is computed once.
PartitionTable == [c \in {s.code : s \in Setups} |-> Partitions(c)]

NoStripe == [ids |-> <<>>, nodes |-> <<>>]
NoReloc  == [order |-> <<>>, at |-> 1, counts |-> <<>>, blocks |-> <<>>, free |-> {},
             rest |-> <<>>, treated |-> 0, cnt |-> 0, des |-> 0, look |-> 0]

Init ==
  /\ setup \in Setups /\ step = "place"
  /\ group = <<>> /\ stripes = <<>> /\ newStripe = 0 /\ newBlock = 0
  /\ lucky = 0 /\ apart = {}
  /\ larger = NoStripe /\ made = <<>> /\ reloc = NoReloc
  /\ moves = <<>> /\ moved = <<>> /\ disk = {}

----------------------------------------------------------------------------
(* generate_placement.                                                      *)

NewGroup == group = <<>>

\* Partition i goes to cluster cl[i], to nodes that follow each other from
\* node first on (bound: the program takes any).
NodeAt(cl, first, b) ==
  LET parts == PartitionTable[setup.code]
      i == CHOOSE i \in DOMAIN parts : b \in ToSet(parts[i])
      j == CHOOSE j \in DOMAIN parts[i] : parts[i][j] = b
  IN cl[i] * NodesPerCluster + ((first + j - 1) % NodesPerCluster)

Put(cl) ==
  LET ids == [b \in BlocksOf(setup.code) |-> newBlock + b]
  IN \E first \in setup.first :
       LET nodes == [b \in BlocksOf(setup.code) |-> NodeAt(cl, first, b)] IN
       /\ stripes' = [i \in DOMAIN stripes \cup {newStripe} |->
            IF i = newStripe THEN [ids |-> ids, nodes |-> nodes] ELSE stripes[i]]
       /\ disk' = disk \cup {<<nodes[b], ids[b]>> : b \in BlocksOf(setup.code)}
       /\ group' = Append(group, newStripe)
       /\ newStripe' = newStripe + 1 /\ newBlock' = newBlock + Size(setup.code)
       /\ UNCHANGED <<setup, step, larger, made, reloc, moves, moved>>

Placing == step = "place" /\ Len(group) < setup.x
PartitionNum == Len(PartitionTable[setup.code])
Distinct(n, from) == {cl \in [1 .. n -> from] : IsInjective(cl)}

PlaceRandom ==
  /\ Placing /\ setup.rule = "RAND"
  /\ \E cl \in Distinct(PartitionNum, Clusters) : Put(cl)
  /\ UNCHANGED placement

\* No two partitions of the group are in one cluster.
PlaceDispersed ==
  /\ Placing /\ setup.rule = "DISPERSED"
  /\ LET left == IF NewGroup THEN Clusters ELSE apart
     IN \E cl \in Distinct(PartitionNum, left) :
          Put(cl) /\ apart' = left \ ToSet(cl)
  /\ lucky' = lucky

\* select_nodes_in_order.
PlaceInOrder ==
  /\ Placing /\ setup.rule \in {"AGGREGATED", "VERTICAL"}
  /\ \E l \in IF NewGroup THEN Clusters ELSE {lucky} :
       /\ lucky' = l
       /\ Put([i \in 1 .. PartitionNum |-> (l + i - 1) % NumClusters])
  /\ apart' = apart

\* The last partitions of all stripes share the lucky cluster.
PlaceHorizontal ==
  /\ Placing /\ setup.rule = "HORIZONTAL"
  /\ \E l \in IF NewGroup THEN Clusters ELSE {lucky} :
       LET left == IF NewGroup THEN Clusters \ {l} ELSE apart
       IN \E cl \in Distinct(PartitionNum - 1, left) :
            Put(Append(cl, l)) /\ lucky' = l /\ apart' = left \ ToSet(cl)

----------------------------------------------------------------------------
(* The larger stripe.  Block b of the s-th stripe (from 0) is <<s, b>>.      *)

\* new_ec_for_merge.
MergedCode(su) ==
  CASE su.code.type = "RS"      -> [su.code EXCEPT !.k = @ * su.x]
    [] su.code.type \in PcTypes ->
         IF su.rule = "VERTICAL" THEN [su.code EXCEPT !.k2 = @ * su.x]
                                 ELSE [su.code EXCEPT !.k1 = @ * su.x]
    [] OTHER -> [su.code EXCEPT !.k = @ * su.x, !.l = @ * su.x]

Vertical(su) == su.rule = "VERTICAL"
Row(su, b) == bid2rowcol(su.code, b)[1]
Col(su, b) == bid2rowcol(su.code, b)[2]

\* The blocks that are kept; the others are the old parity blocks.
Kept(su) ==
  LET c == su.code IN
  CASE c.type = "RS"      -> 0 .. c.k - 1
    [] c.type \in PcTypes ->
         {b \in BlocksOf(c) : IF Vertical(su) THEN Row(su, b) < c.k2 ELSE Col(su, b) < c.k1}
    [] OTHER              -> BlocksOf(c) \ Globals(c)

oldbid2newbid_for_merge(su, s, b) ==
  IF Vertical(su) THEN rowcol2bid(MergedCode(su), Row(su, b) + s * su.code.k2, Col(su, b))
                  ELSE rowcol2bid(MergedCode(su), Row(su, b), Col(su, b) + s * su.code.k1)

\* Mutant: the local parity blocks follow the data blocks.
SlotOverGlobals(su, s, b) ==
  LET c == su.code IN
  CASE c.type \in PcTypes -> oldbid2newbid_for_merge(su, s, b)
    [] c.type = "AZURE_LRC" /\ b \in Locals(c) ->
         su.x * c.k + s * c.l + (b - c.k - c.g)
    [] OTHER -> s * c.k + b

Slot(su, s, b) ==
  LET c == su.code IN
  CASE c.type \in PcTypes -> oldbid2newbid_for_merge(su, s, b)
    [] c.type = "AZURE_LRC" /\ b \in Locals(c) ->
         su.x * c.k + c.g + s * c.l + (b - c.k - c.g)
    [] OTHER -> s * c.k + b

\* A new parity block: its slot, the old parity block whose node it takes, and
\* the block that each position of the code it is computed with has.
RsParity(su, i) ==
  [slot |-> su.x * su.code.k + i, node |-> <<0, su.code.k + i>>,
   from |-> [p \in 0 .. su.x * su.code.k - 1 |-> <<p \div su.code.k, p % su.code.k>>]]

\* In a row of the merged grid; the node is the last stripe's.
RowParitySlot(new, row, i) ==
  IF row < new.k2 THEN new.k2 * new.k1 + row * new.m1 + i
  ELSE new.k2 * (new.k1 + new.m1) + new.m2 * new.k1 + (row - new.k2) * new.m1 + i
PcRowParity(su, row, i) ==
  LET c == su.code
  IN [slot |-> RowParitySlot(MergedCode(su), row, i),
      node |-> <<su.x - 1, rowcol2bid(c, row, c.k1 + i)>>,
      from |-> [p \in 0 .. MergedCode(su).k1 - 1 |->
                  <<p \div c.k1, rowcol2bid(c, row, p % c.k1)>>]]

\* In a column of the merged grid.
PcColumnParity(su, col, i) ==
  LET c == su.code
      new == MergedCode(su)
  IN [slot |-> new.k2 * (new.k1 + new.m1) + i * new.k1 + col,
      node |-> <<su.x - 1, rowcol2bid(c, c.k2 + i, col)>>,
      from |-> [p \in 0 .. new.k2 - 1 |->
                  <<p \div c.k2, rowcol2bid(c, p % c.k2, col)>>]]

RsParities(su) == {RsParity(su, i) :
  i \in 0 .. (IF su.code.type = "RS" THEN su.code.m ELSE su.code.g) - 1}
PcRowParities(su) ==
  {PcRowParity(su, row, i) : row \in Rows(su.code), i \in 0 .. su.code.m1 - 1}
PcColumnParities(su) ==
  {PcColumnParity(su, col, i) : col \in Columns(su.code), i \in 0 .. su.code.m2 - 1}

NewParities(su) ==
  IF su.code.type \notin PcTypes THEN RsParities(su)
  ELSE IF Vertical(su) THEN PcColumnParities(su) ELSE PcRowParities(su)

ParityAt(su, slot) == {q \in NewParities(su) : q.slot = slot}
KeptAt(su, slot) ==
  {x \in (0 .. su.x - 1) \X Kept(su) : Slot(su, x[1], x[2]) = slot}
Filled(su) == {q.slot : q \in NewParities(su)}
                \cup {Slot(su, s, b) : s \in 0 .. su.x - 1, b \in Kept(su)}
\* The old block whose node a slot has; a slot that is written twice keeps one
\* of the blocks.
Origin(su, slot) ==
  IF ParityAt(su, slot) # {} THEN (CHOOSE q \in ParityAt(su, slot) : TRUE).node
                             ELSE CHOOSE x \in KeptAt(su, slot) : TRUE

\* The same as tables, which are computed once.
ParityTable == [su \in Setups |-> NewParities(su)]
OriginTable == [su \in Setups |-> [slot \in Filled(su) |-> Origin(su, slot)]]
FromTable   == [su \in Setups |-> [slot \in {q.slot : q \in NewParities(su)} |->
                  (CHOOSE q \in ParityAt(su, slot) : TRUE).from]]

OldId(x)   == stripes[group[x[1] + 1]].ids[x[2]]
OldNode(x) == stripes[group[x[1] + 1]].nodes[x[2]]
New        == MergedCode(setup)
\* request_merge asks for groups of x stripes, once.
Merging    == step = "place" /\ Len(group) = setup.x
PastEnd    == ~(DOMAIN OriginTable[setup] \subseteq BlocksOf(New))

WritePastEnd ==
  /\ Merging /\ PastEnd
  /\ step' = "undefined"
  /\ UNCHANGED <<setup, tables, placement, larger, made, reloc, moving>>

StartMerge ==
  /\ Merging /\ ~PastEnd
  /\ LET origin == OriginTable[setup]
         from   == FromTable[setup]
         NewId(slot) == newBlock + Cardinality({t \in DOMAIN from : t < slot})
     IN /\ larger' =
             [ids |-> [slot \in BlocksOf(New) |->
                CASE slot \notin DOMAIN origin -> 0
                  [] slot \in DOMAIN from      -> NewId(slot)
                  [] OTHER                     -> OldId(origin[slot])],
              nodes |-> [slot \in BlocksOf(New) |->
                IF slot \in DOMAIN origin THEN OldNode(origin[slot]) ELSE 0]]
        /\ made' = [slot \in DOMAIN from |->
             [p \in DOMAIN from[slot] |-> OldId(from[slot][p])]]
  /\ newStripe' = newStripe + 1
  /\ newBlock' = newBlock + Cardinality(ParityTable[setup])
  /\ step' = "count"
  /\ UNCHANGED <<setup, group, stripes, placement, reloc, moving>>

----------------------------------------------------------------------------
(* Which blocks leave their cluster.                                        *)

SlotsIn(nodes, c) == Ordered({b \in DOMAIN nodes : ClusterOf(nodes[b]) = c})

\* Clusters with more blocks come first; those with equally many come in the
\* order of a hash map, for which two orders stand (bound).
CountBlocks ==
  /\ step = "count"
  /\ LET used   == {ClusterOf(larger.nodes[b]) : b \in DOMAIN larger.nodes}
         counts == [c \in used |-> Len(SlotsIn(larger.nodes, c))]
     IN \E up \in BOOLEAN :
          reloc' = [NoReloc EXCEPT
            !.order  = InOrder(used, LAMBDA c, d :
                         \/ counts[c] > counts[d]
                         \/ counts[c] = counts[d] /\ (IF up THEN c < d ELSE d < c)),
            !.counts = counts,
            !.blocks = [c \in used |-> SlotsIn(larger.nodes, c)],
            !.free   = Clusters \ used]
  /\ step' = "relieve"
  /\ UNCHANGED <<setup, tables, placement, larger, made, moving>>

Relieving == step = "relieve" /\ reloc.at <= Len(reloc.order)
Crowded   == reloc.order[reloc.at]

\* if_subject_to_fault_tolerance_lrc: as many blocks as groups and global
\* parity blocks together.  A cluster's slots are in ascending order, and so are
\* those of a group.
GroupBlocks(c, slots) ==
  LET gids == {bid2gid(c, b) : b \in ToSet(slots)}
  IN [i \in gids |-> Ordered({b \in ToSet(slots) : bid2gid(c, b) = i})]
LrcTolerant(c, slots) == Len(slots) <= Cardinality(DOMAIN GroupBlocks(c, slots)) + c.g

\* if_subject_to_fault_tolerance_pc: no more columns than m1.
ColumnBlocks(c, slots) ==
  LET cols == {bid2rowcol(c, b)[2] : b \in ToSet(slots)}
  IN [j \in cols |-> Ordered({b \in ToSet(slots) : bid2rowcol(c, b)[2] = j})]
PcTolerant(c, slots) == Cardinality(DOMAIN ColumnBlocks(c, slots)) <= c.m1

Tolerant(c, slots) == CASE c.type = "RS"      -> Len(slots) <= c.m
                        [] c.type \in PcTypes -> PcTolerant(c, slots)
                        [] OTHER              -> LrcTolerant(c, slots)

\* The slots of a batch get free nodes, each one its own, in ascending order
\* (bound: the program takes them at random).
MoveTo(slots, free) ==
  \E to \in kSubset(Len(slots), free) :
    LET node == Ordered(to) IN
    /\ larger' = [larger EXCEPT !.nodes = [b \in DOMAIN @ |->
         IF b \in ToSet(slots)
         THEN node[CHOOSE j \in DOMAIN slots : slots[j] = b] ELSE @[b]]]
    /\ moves' = moves \o [j \in DOMAIN slots |->
         [block |-> larger.ids[slots[j]], from |-> larger.nodes[slots[j]], to |-> node[j]]]

NextCluster ==
  /\ Relieving /\ reloc.rest = <<>> /\ Tolerant(New, reloc.blocks[Crowded])
  /\ reloc' = [reloc EXCEPT !.at = @ + 1]
  /\ UNCHANGED <<setup, step, tables, placement, larger, made, moving>>

\* Reed-Solomon: all but m blocks go to the smallest cluster that can take as
\* many, or else to a free one.
\* Mutant: m + 1 blocks stay.
SurplusOverM == LET here == reloc.blocks[Crowded] IN SubSeq(here, New.m + 2, Len(here))
Surplus == LET here == reloc.blocks[Crowded] IN SubSeq(here, New.m + 1, Len(here))
Takers  == {i \in reloc.at + 1 .. Len(reloc.order) :
              reloc.counts[reloc.order[i]] + reloc.counts[Crowded] <= 2 * New.m}

CrowdedRs == /\ Relieving /\ New.type = "RS"
             /\ ~Tolerant(New, reloc.blocks[Crowded])

\* The nodes of a taker that had none of its blocks when they were counted.
Taker     == reloc.order[Max(Takers)]
Vacant(c) == NodesIn(c) \ {larger.nodes[b] : b \in ToSet(reloc.blocks[c])}

MoveToSmaller ==
  /\ CrowdedRs /\ Takers # {}
  /\ MoveTo(Surplus, Vacant(Taker))
  /\ reloc' = [reloc EXCEPT !.at = @ + 1, !.counts[Taker] = @ + Len(Surplus)]
  /\ UNCHANGED <<setup, step, tables, placement, made, moved, disk>>

MoveToFree ==
  /\ CrowdedRs /\ Takers = {}
  /\ \E des \in reloc.free :
       /\ MoveTo(Surplus, NodesIn(des))
       /\ reloc' = [reloc EXCEPT !.at = @ + 1, !.free = @ \ {des}]
  /\ UNCHANGED <<setup, step, tables, placement, made, moved, disk>>

\* The other codes: batch by batch.  Azure LRC moves whole local groups, in the
\* order of a hash map (two orders stand for all, bound) ...
GroupBatches(slots, up) ==
  LET groups == GroupBlocks(New, slots)
      order  == Ordered(DOMAIN groups)
  IN [i \in DOMAIN order |-> groups[(IF up THEN order ELSE Reverse(order))[i]]]

\* ... and a product code columns, the shortest first, until m1 are left.  They
\* are looked up under 0, 1, ..., whichever columns the cluster has.
ColumnBatches(slots) ==
  LET cols   == ColumnBlocks(New, slots)
      In(j)  == IF j \in DOMAIN cols THEN cols[j] ELSE <<>>
      sorted == InOrder(0 .. Cardinality(DOMAIN cols) - 1, LAMBDA i, j :
                  \/ Len(In(i)) > Len(In(j))
                  \/ Len(In(i)) = Len(In(j)) /\ i < j)
      leave  == Reverse(SubSeq(sorted, New.m1 + 1, Len(sorted)))
  IN [n \in DOMAIN leave |-> In(leave[n])]

MakeBatches ==
  /\ Relieving /\ New.type # "RS" /\ reloc.rest = <<>>
  /\ ~Tolerant(New, reloc.blocks[Crowded])
  /\ \E up \in BOOLEAN :
       reloc' = [reloc EXCEPT !.treated = 0, !.cnt = 0,
         !.rest = IF New.type \in PcTypes THEN ColumnBatches(reloc.blocks[Crowded])
                  ELSE GroupBatches(reloc.blocks[Crowded], up)]
  /\ UNCHANGED <<setup, step, tables, placement, larger, made, moving>>

Batch == Head(reloc.rest)

\* Whether a batch draws a free cluster.  Otherwise the column follows the one
\* before; the local group goes to cluster 0.
DrawsForGroup  == \/ reloc.cnt + Len(Batch) > New.g + reloc.treated + 1
                  \/ reloc.cnt = 0
DrawsForColumn == reloc.treated % New.m1 = 0
Draws == \/ CrowdedRs /\ Takers = {}
         \/ /\ Relieving /\ reloc.rest # <<>>
            /\ IF New.type \in PcTypes THEN DrawsForColumn ELSE DrawsForGroup

\* The next state of the search when a batch has gone to des.
Moved(des, last) ==
  reloc' = [reloc EXCEPT
    !.at = IF last THEN @ + 1 ELSE @, !.rest = IF last THEN <<>> ELSE Tail(@),
    !.treated = @ + 1, !.cnt = @ + Len(Batch), !.des = des,
    !.counts[Crowded] = @ - Len(Batch), !.free = IF Draws THEN @ \ {des} ELSE @]

MoveGroup ==
  /\ Relieving /\ New.type \in LrcTypes /\ reloc.rest # <<>>
  /\ \E des \in IF DrawsForGroup THEN reloc.free ELSE {0} :
       /\ MoveTo(Batch, NodesIn(des))
       /\ Moved(des, \/ reloc.counts[Crowded] - Len(Batch) <= New.g + Len(Tail(reloc.rest))
                     \/ Tail(reloc.rest) = <<>>)
  /\ UNCHANGED <<setup, step, tables, placement, made, moved, disk>>

MoveColumn ==
  /\ Relieving /\ New.type \in PcTypes /\ reloc.rest # <<>>
  /\ \E des \in IF DrawsForColumn THEN reloc.free ELSE {reloc.des} :
       MoveTo(Batch, NodesIn(des)) /\ Moved(des, Tail(reloc.rest) = <<>>)
  /\ UNCHANGED <<setup, step, tables, placement, made, moved, disk>>

\* Fewer free nodes than blocks that move there.
NodesShort ==
  \/ /\ CrowdedRs
     /\ Len(Surplus) > IF Takers = {} THEN NodesPerCluster ELSE Cardinality(Vacant(Taker))
  \/ Relieving /\ New.type # "RS" /\ reloc.rest # <<>> /\ Len(Batch) > NodesPerCluster

\* random_index(0): no cluster is free, or no node.
DrawFromNothing ==
  /\ (Draws /\ reloc.free = {}) \/ NodesShort
  /\ step' = "undefined"
  /\ UNCHANGED <<setup, tables, placement, larger, made, reloc, moving>>

EndRelief ==
  /\ step = "relieve" /\ reloc.at > Len(reloc.order)
  /\ step' = "part" /\ reloc' = [reloc EXCEPT !.look = 0]
  /\ UNCHANGED <<setup, tables, placement, larger, made, moving>>

----------------------------------------------------------------------------
(* One pass over the blocks: one that shares its node when its turn comes     *)
(* moves to a node that has none (node_map counts the blocks of every node).  *)
(* random_range takes both its bounds, so the first node of the next cluster *)
(* may be drawn, and past the last cluster the end of node_map is.            *)

OnNode(n) == {b \in DOMAIN larger.nodes : larger.nodes[b] = n}
\* Mutant: a node may keep two blocks.
CrowdingOfThree == {b \in DOMAIN larger.nodes : Cardinality(OnNode(larger.nodes[b])) > 2}
Crowding  == {b \in DOMAIN larger.nodes : Cardinality(OnNode(larger.nodes[b])) > 1}
Drawn(n) == LET c == ClusterOf(n)
            IN c * NodesPerCluster .. (c + 1) * NodesPerCluster

\* The blocks that share a node and that the pass (block_idx) has not come to; the
\* ones before Turn are passed over.
ToPart == {b \in Crowding : b >= reloc.look}
Turn   == Min(ToPart)

PartBlocks ==
  /\ step = "part" /\ ToPart # {}
  /\ \E n \in Drawn(larger.nodes[Turn]) \cap AllNodes :
       /\ OnNode(n) = {}
       /\ larger' = [larger EXCEPT !.nodes[Turn] = n]
       /\ moves' = Append(moves,
            [block |-> larger.ids[Turn], from |-> larger.nodes[Turn], to |-> n])
  /\ reloc' = [reloc EXCEPT !.look = Turn + 1]
  /\ UNCHANGED <<setup, step, tables, placement, made, moved, disk>>

\* No node is free: the search for one does not end.
SearchForever ==
  /\ step = "part" /\ ToPart # {}
  /\ \A n \in Drawn(larger.nodes[Turn]) : n \in AllNodes /\ OnNode(n) # {}
  /\ UNCHANGED vars

ReadPastEnd ==
  /\ step = "part" /\ ToPart # {}
  /\ ~(Drawn(larger.nodes[Turn]) \subseteq AllNodes)
  /\ step' = "undefined"
  /\ UNCHANGED <<setup, tables, placement, larger, made, reloc, moving>>

----------------------------------------------------------------------------
(* The new parity blocks are computed and stored (main_recal, help_recal),   *)
(* then the moves are carried out, all at once, then the old parity blocks   *)
(* are deleted and the tables changed.                                       *)

NewParityNode(slot) == OldNode(OriginTable[setup][slot])

Recalculate ==
  /\ step = "part" /\ ToPart = {}
  /\ disk' = disk \cup {<<NewParityNode(slot), larger.ids[slot]>> : slot \in DOMAIN made}
  /\ moved' = [i \in DOMAIN moves |-> "no"]
  /\ step' = "move"
  /\ UNCHANGED <<setup, tables, placement, larger, made, reloc, moves>>

\* Moves of different blocks do not touch each other: they are taken block by
\* block, so that only the moves of one block interleave.
FirstMove(block) == Min({j \in DOMAIN moves : moves[j].block = block})
MayStep(i) == \A j \in DOMAIN moves :
  FirstMove(moves[j].block) < FirstMove(moves[i].block) => moved[j] = "yes"

\* block_migration: a block that is not there when it is read is not stored.
Copy(i) ==
  /\ step = "move" /\ moved[i] = "no" /\ MayStep(i)
  /\ disk' = IF <<moves[i].from, moves[i].block>> \in disk
             THEN disk \cup {<<moves[i].to, moves[i].block>>} ELSE disk
  /\ moved' = [moved EXCEPT ![i] = "copied"]
  /\ UNCHANGED <<setup, step, tables, placement, larger, made, reloc, moves>>

\* Mutant: the source keeps its block.
DropNothing(i) ==
  /\ step = "move" /\ moved[i] = "copied" /\ MayStep(i)
  /\ moved' = [moved EXCEPT ![i] = "yes"]
  /\ UNCHANGED <<setup, step, tables, placement, larger, made, reloc, moves, disk>>

\* delete_in_datanode at the source.
Drop(i) ==
  /\ step = "move" /\ moved[i] = "copied" /\ MayStep(i)
  /\ disk' = disk \ {<<moves[i].from, moves[i].block>>}
  /\ moved' = [moved EXCEPT ![i] = "yes"]
  /\ UNCHANGED <<setup, step, tables, placement, larger, made, reloc, moves>>

AllMoved == \A i \in DOMAIN moves : moved[i] = "yes"
OldParities == {<<OldNode(<<s, b>>), OldId(<<s, b>>)>> :
                  s \in 0 .. setup.x - 1, b \in BlocksOf(setup.code) \ Kept(setup)}

DeleteOldParities ==
  /\ step = "move" /\ AllMoved
  /\ disk' = disk \ OldParities
  /\ step' = "update"
  /\ UNCHANGED <<setup, tables, placement, larger, made, reloc, moves, moved>>

\* Mutant: the group keeps the stripes that were merged.
OldGroup    == group
\* The larger stripe has the id newStripe - 1.
MergedGroup == <<newStripe - 1>>

UpdateTables ==
  /\ step = "update"
  /\ stripes' = [i \in {newStripe - 1} |-> larger]
  /\ group' = MergedGroup
  /\ step' = "done"
  /\ larger' = NoStripe /\ made' = <<>> /\ reloc' = NoReloc
  /\ moves' = <<>> /\ moved' = <<>>
  /\ UNCHANGED <<setup, newStripe, newBlock, placement, disk>>

\* The request is answered, or nothing can be said any more.
Stay == step \in {"done", "undefined"} /\ UNCHANGED vars

Place == PlaceRandom \/ PlaceDispersed \/ PlaceInOrder \/ PlaceHorizontal
Relieve == \/ CountBlocks \/ NextCluster \/ MoveToSmaller \/ MoveToFree \/ MakeBatches
           \/ MoveGroup \/ MoveColumn \/ DrawFromNothing \/ EndRelief
Next == \/ Place \/ StartMerge \/ WritePastEnd \/ Relieve \/ PartBlocks \/ SearchForever
        \/ ReadPastEnd \/ Recalculate \/ (\E i \in DOMAIN moves : Copy(i) \/ Drop(i))
        \/ DeleteOldParities \/ UpdateTables \/ Stay
Spec == Init /\ [][Next]_vars

----------------------------------------------------------------------------
Steps == {"place", "undefined", "count", "relieve", "part", "move", "update", "done"}

\* Types; every node is one of the cluster nodes, ids are below the counters,
\* and a stripe of the merge group is in stripe_table_.
TypeOK ==
  /\ setup \in Setups /\ step \in Steps
  /\ \A i \in DOMAIN stripes : ToSet(stripes[i].nodes) \subseteq AllNodes
  /\ disk \subseteq AllNodes \X (0 .. newBlock - 1)
  /\ newStripe \in Nat /\ DOMAIN stripes \subseteq 0 .. newStripe - 1
  /\ ToSet(group) \subseteq DOMAIN stripes
  /\ lucky \in Clusters /\ apart \subseteq Clusters
  /\ DOMAIN moved \subseteq DOMAIN moves
  /\ \A i \in DOMAIN moves : {moves[i].from, moves[i].to} \subseteq AllNodes

\* What the parity block at a slot of code c is a combination of.
Uses(c, b) ==
  CASE c.type = "RS"      -> IF b < c.k THEN {} ELSE Data(c)
    [] c.type \in PcTypes ->
         LET row == bid2rowcol(c, b)[1]
             col == bid2rowcol(c, b)[2]
         IN CASE row < c.k2 /\ col < c.k1 -> {}
              [] col >= c.k1 /\ (row < c.k2 \/ ~Vertical(setup)) ->
                   {rowcol2bid(c, row, p) : p \in 0 .. c.k1 - 1}
              [] OTHER -> {rowcol2bid(c, p, col) : p \in 0 .. c.k2 - 1}
    [] OTHER              -> IF b < c.k THEN {} ELSE Span(c, b)

\* The position of a block in the code a new parity block is computed with.
Position(su, b) ==
  IF su.code.type \notin PcTypes THEN b
  ELSE bid2rowcol(MergedCode(su), b)[IF Vertical(su) THEN 1 ELSE 2]

ParitiesFit ==
  /\ \A slot \in DOMAIN made :
       made[slot] = [p \in {Position(setup, b) : b \in Uses(New, slot)} |->
         larger.ids[CHOOSE b \in Uses(New, slot) : Position(setup, b) = p]]
  /\ \A s \in 0 .. setup.x - 1, b \in Kept(setup) :
       {larger.ids[u] : u \in Uses(New, Slot(setup, s, b))}
         = {OldId(<<s, u>>) : u \in Uses(setup.code, b)}

Mergeable(su) ==
  CASE su.code.type = "RS"      -> TRUE
    [] su.code.type \in PcTypes -> su.code.type = "PC" /\ (Vertical(su) => su.code.m2 = 1)
    [] OTHER                    -> su.code.k % su.code.l = 0

\* The larger stripe is one of the merged code: no block has two slots and no
\* slot two blocks, the new parity blocks are computed from the blocks that their
\* equations name, at their positions, and the parity blocks that are kept cover
\* what they covered before.  This holds exactly for the Mergeable setups; in
\* some of the others do_stripe_merge writes past the end of the stripe.
MergedCodeRight ==
  /\ step = "count" =>
       (IsInjective(larger.ids) /\ ParitiesFit <=> Mergeable(setup))
  /\ step = "undefined" /\ larger = NoStripe => ~Mergeable(setup)

\* When blocks are moved the larger stripe has no two blocks on one node, so that
\* a node failure costs one block, although relief ignores the nodes in use and the
\* pass (merge.cpp 243-261, 675-693, 1276-1294) looks at every block once: none that
\* it leaves behind may come to share its node through what it does later.
OneBlockPerNode ==
  step \in {"move", "update"} => IsInjective(larger.nodes)

\* Clusters that the relief fails: one free cluster takes all but m blocks of a
\* cluster, however many these are; cluster 0 takes the local groups that follow
\* another one; the columns of a cluster are looked up under 0, 1, ...
Misled(c) ==
  CASE New.type = "RS"        -> c \notin DOMAIN reloc.blocks /\
                                  \E s \in DOMAIN reloc.blocks : Len(reloc.blocks[s]) > 2 * New.m
    [] New.type \in PcTypes   ->
         c \in DOMAIN reloc.blocks /\
         LET cols == DOMAIN ColumnBlocks(New, reloc.blocks[c])
         IN cols # 0 .. Cardinality(cols) - 1
    [] OTHER -> c = 0 /\ \E i \in DOMAIN moves : ClusterOf(moves[i].to) = 0

\* After the relief a failed cluster costs no more blocks, columns, or groups
\* than the merged code tolerates, except in the clusters that it fails: what
\* the if_subject_to_fault_tolerance functions of auxs.cpp are called for.
WithinTolerance ==
  step = "relieve" /\ reloc.at > Len(reloc.order) /\ Mergeable(setup) =>
    \A c \in Clusters : Misled(c) \/ Tolerant(New, SlotsIn(larger.nodes, c))

Live == {<<larger.nodes[b], larger.ids[b]>> : b \in DOMAIN larger.ids}

\* A block that is moved twice, or to the node that it is on.
Astray(block) ==
  \E i \in DOMAIN moves : moves[i].block = block /\
    \/ moves[i].from = moves[i].to
    \/ \E j \in DOMAIN moves : j # i /\ moves[j].block = block

\* When all moves are done and the old parity blocks are gone, every block is on
\* the node that the tables say and on no other; a block that is moved twice may
\* be elsewhere, and one that is moved to its own node is gone.
BlocksInPlace ==
  step = "update" /\ Mergeable(setup) =>
    \A x \in Live : Astray(x[2]) \/ {n \in AllNodes : <<n, x[2]>> \in disk} = {x[1]}
==============================================================================
