------------------------------ MODULE RsPcPlans ------------------------------
(***************************************************************************)
(* Reed-Solomon codes (src/src/ec/rs.cpp) and the product codes built from *)
(* them (src/src/ec/pc.cpp): what a repair reads, and where blocks sit in   *)
(* the grid of a product code.                                              *)
(*                                                                          *)
(* A product code has k2 rows of k1 data columns, m1 columns of row parity   *)
(* and m2 rows of column parity; HV_PC has no parity of parities.           *)
(***************************************************************************)
EXTENDS CodeCommon

PcTypes == {"PC", "HV_PC"}
PcCodes == [type : PcTypes, k1 : Pos, m1 : Pos, k2 : Pos, m2 : Pos]

----------------------------------------------------------------------------
(* Reed-Solomon.  partial is partial_scheme.                                *)

RsBlocks(c) == 0 .. c.k + c.m - 1
RsDecodable(c, F) == c.m >= Cardinality(F)

RsSingle(c, clusters, f, partial) ==
  LET some == FirstSurvivors(c.k, clusters, {f}, RsBlocks(c))
  IN IF f \in Data(c) \/ partial THEN Answer(({f} \cup some) \ Data(c), some)
     ELSE Answer({f}, Data(c))

\* early: the lost parity blocks that failure_idxs lists before lost data; the
\* loop over failure_idxs ends at the first data block.
RsMulti(c, clusters, F, early, partial) ==
  LET some == FirstSurvivors(c.k, clusters, F, RsBlocks(c))
  IN IF F \cap Data(c) = {} /\ ~partial THEN Answer(F, Data(c))
     ELSE Answer(early \cup (some \ Data(c)), some)

EarlyParities(c, F) == IF F \cap Data(c) = {} THEN {F} ELSE SUBSET (F \ Data(c))

\* Mutant: one block more per cluster.
RsPartitionWider(c) == Pieces(Ordered(RsBlocks(c)), c.m + 1)

\* Every m blocks in one cluster.
RsPartitionOptimal(c) == Pieces(Ordered(RsBlocks(c)), c.m)

----------------------------------------------------------------------------
(* The grid of a product code.                                              *)

Rows(c)    == 0 .. c.k2 + c.m2 - 1
Columns(c) == 0 .. c.k1 + c.m1 - 1
Cells(c)   == IF c.type = "PC" THEN Rows(c) \X Columns(c)
              ELSE {x \in Rows(c) \X Columns(c) : x[1] < c.k2 \/ x[2] < c.k1}

rowcol2bid(c, row, col) ==
  CASE row < c.k2 /\ col < c.k1  -> row * c.k1 + col
    [] row < c.k2 /\ col >= c.k1 -> c.k1 * c.k2 + row * c.m1 + (col - c.k1)
    [] row >= c.k2 /\ col < c.k1 -> (c.k1 + c.m1) * c.k2 + (row - c.k2) * c.k1 + col
    [] OTHER -> (c.k1 + c.m1) * c.k2 + c.k1 * c.m2 + (row - c.k2) * c.m1 + (col - c.k1)

bid2rowcol(c, b) ==
  LET rowParity == c.k1 * c.k2
      colParity == (c.k1 + c.m1) * c.k2
      both      == colParity + c.k1 * c.m2
  IN CASE b < rowParity -> <<b \div c.k1, b % c.k1>>
       [] rowParity <= b /\ b < colParity ->
            <<(b - rowParity) \div c.m1, ((b - rowParity) % c.m1) + c.k1>>
       [] colParity <= b /\ b < both ->
            <<(b - colParity) \div c.k1 + c.k2, (b - colParity) % c.k1>>
       [] OTHER -> <<(b - both) \div c.m1 + c.k2, ((b - both) % c.m1) + c.k1>>

PcBlocks(c)      == {rowcol2bid(c, x[1], x[2]) : x \in Cells(c)}
RowOf(c, b)      == bid2rowcol(c, b)[1]
ColOf(c, b)      == bid2rowcol(c, b)[2]
LostInCol(c, F, col) == {b \in F : ColOf(c, b) = col}
LostInRow(c, F, row) == {b \in F : RowOf(c, b) = row}

\* Columns and rows the code may restore on: all of them, or with HV_PC only
\* those with data.
RepairCols(c) == IF c.type = "PC" THEN Columns(c) ELSE 0 .. c.k1 - 1
RepairRows(c) == IF c.type = "PC" THEN Rows(c) ELSE 0 .. c.k2 - 1
RestorableCols(c, F) == {i \in RepairCols(c) : Cardinality(LostInCol(c, F, i)) \in 1 .. c.m2}
RestorableRows(c, F) == {i \in RepairRows(c) : Cardinality(LostInRow(c, F, i)) \in 1 .. c.m1}

\* check_if_decodable: columns, then rows, until nothing is lost or neither helps.
PcDecodable(c, F) ==
  LET AfterCols(L) == {b \in L : ColOf(c, b) \notin RestorableCols(c, L)}
      AfterRows(L) == {b \in L : RowOf(c, b) \notin RestorableRows(c, L)}
      left[n \in 0 .. Cardinality(F)] ==
        IF n = 0 THEN F ELSE AfterRows(AfterCols(left[n - 1]))
  IN left[Cardinality(F)] = {}

----------------------------------------------------------------------------
(* One step of a product code's plan.                                       *)

\* On a column: the first k2 blocks of it that are left; no parity is named.
ColumnAnswer(c, F, col) ==
  Answer({}, {rowcol2bid(c, row, col) :
                row \in Least({i \in Rows(c) : rowcol2bid(c, i, col) \notin F}, c.k2)})

RowCode(c) == [type |-> "RS", k |-> c.k1, m |-> c.m1]

\* On a row: what the row's Reed-Solomon code reads.  The help blocks become
\* block numbers; the parity blocks stay the column numbers they are.
RowAnswer(c, columns, F, row, partial) ==
  LET lost  == {ColOf(c, b) : b \in LostInRow(c, F, row)}
      early == IF lost \cap (0 .. c.k1 - 1) = {} THEN lost ELSE {}
      a     == RsMulti(RowCode(c), columns, lost, early, partial)
  IN Answer(a.par, {rowcol2bid(c, row, col) : col \in a.help})

\* Every m1 columns in one cluster; clusters are given as columns.
PcPartitionOptimal(c) == Pieces(Ordered(Columns(c)), c.m1)
==============================================================================
