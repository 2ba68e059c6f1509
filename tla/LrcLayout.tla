------------------------------ MODULE LrcLayout ------------------------------
(***************************************************************************)
(* The locally repairable codes of src/src/ec/lrc.cpp: which blocks form a *)
(* local group, which blocks a parity block is a combination of, and which *)
(* sets of lost blocks check_if_decodable accepts.  Coefficients are left  *)
(* out: what counts is which blocks occur in an equation.                  *)
(*                                                                         *)
(* A code is a record with its type, k data blocks, g global and l local   *)
(* parity blocks.  Blocks are numbered as in the program: data blocks, then *)
(* global, then local parity blocks; groups from 0.                        *)
(***************************************************************************)
EXTENDS CodeCommon

LrcTypes == {"AZURE_LRC", "AZURE_LRC_1", "OPTIMAL_LRC",
             "OPTIMAL_CAUCHY_LRC", "UNIFORM_CAUCHY_LRC"}

Globals(c) == c.k .. c.k + c.g - 1
Locals(c)  == c.k + c.g .. c.k + c.g + c.l - 1
Blocks(c)  == Data(c) \cup Globals(c) \cup Locals(c)
LocalParity(c, i) == c.k + c.g + i

\* Blocks of a local group, local parity excluded (the constructors of lrc.h).
r(c) == CASE c.type \in {"AZURE_LRC", "OPTIMAL_CAUCHY_LRC"} -> DividedUp(c.k, c.l)
          [] c.type = "AZURE_LRC_1" -> DividedUp(c.k, c.l - 1)
          [] OTHER -> DividedUp(c.k + c.g, c.l)

\* The i-th run of r blocks among the first n.
Run(c, n, i) == {b \in 0 .. n - 1 : b \div r(c) = i}

----------------------------------------------------------------------------
(* Group of a block.  The group of the global parity blocks is l where they *)
(* are in no local group.                                                   *)

AzuBid2gid(c, b) ==
  CASE b \in Data(c) -> b \div r(c) [] b \in Globals(c) -> c.l [] OTHER -> b - c.k - c.g
Azu1Bid2gid(c, b) ==
  CASE b \in Data(c) -> b \div r(c) [] b \in Globals(c) -> c.l - 1 [] OTHER -> b - c.k - c.g
OptBid2gid(c, b)    == IF b < c.k + c.g THEN b \div r(c) ELSE b - c.k - c.g
OptCauBid2gid(c, b) == AzuBid2gid(c, b)
UniBid2gid(c, b)    == OptBid2gid(c, b)

bid2gid(c, b) ==
  CASE c.type = "AZURE_LRC"          -> AzuBid2gid(c, b)
    [] c.type = "AZURE_LRC_1"        -> Azu1Bid2gid(c, b)
    [] c.type = "OPTIMAL_LRC"        -> OptBid2gid(c, b)
    [] c.type = "OPTIMAL_CAUCHY_LRC" -> OptCauBid2gid(c, b)
    [] OTHER                         -> UniBid2gid(c, b)

(* grouping_information: the blocks of group 0, 1, ...                      *)

AzuGroups(c) == [i \in 0 .. c.l |->
  IF i < c.l THEN Run(c, c.k, i) \cup {LocalParity(c, i)} ELSE Globals(c)]
Azu1Groups(c) == [i \in 0 .. c.l - 1 |->
  (IF i < c.l - 1 THEN Run(c, c.k, i) ELSE Globals(c)) \cup {LocalParity(c, i)}]
OptGroups(c) == [i \in 0 .. c.l - 1 |->
  Run(c, c.k + c.g, i) \cup {LocalParity(c, i)}]
OptCauGroups(c) == AzuGroups(c)
UniGroups(c)    == OptGroups(c)

Groups(c) ==
  CASE c.type = "AZURE_LRC"          -> AzuGroups(c)
    [] c.type = "AZURE_LRC_1"        -> Azu1Groups(c)
    [] c.type = "OPTIMAL_LRC"        -> OptGroups(c)
    [] c.type = "OPTIMAL_CAUCHY_LRC" -> OptCauGroups(c)
    [] OTHER                         -> UniGroups(c)

(* Whether the global parity blocks have a local parity of their own or     *)
(* share one with data: bid2gid(k) = l - 1, the test of lrc.cpp 1041.       *)
GlobalsInLastGroup(c) == bid2gid(c, c.k) = c.l - 1

----------------------------------------------------------------------------
(* make_full_matrix: the blocks that occur in the equation of a parity      *)
(* block.  A global parity block is a combination of all data blocks; a     *)
(* local one of the blocks that make_group_matrix gives a coefficient.      *)

AzuSpan(c, i)    == Run(c, c.k, i)
Azu1Span(c, i)   == IF i = c.l - 1 THEN Globals(c) ELSE Run(c, c.k, i)
OptSpan(c, i)    == Run(c, c.k + c.g, i)
OptCauSpan(c, i) == Run(c, c.k, i) \cup Globals(c)
UniSpan(c, i)    == Run(c, c.k + c.g, i)

Span(c, p) ==
  LET i == p - c.k - c.g IN
  IF p \in Globals(c) THEN Data(c)
  ELSE CASE c.type = "AZURE_LRC"          -> AzuSpan(c, i)
         [] c.type = "AZURE_LRC_1"        -> Azu1Span(c, i)
         [] c.type = "OPTIMAL_LRC"        -> OptSpan(c, i)
         [] c.type = "OPTIMAL_CAUCHY_LRC" -> OptCauSpan(c, i)
         [] OTHER                         -> UniSpan(c, i)

----------------------------------------------------------------------------
(* check_if_decodable.  LostData(i) is group_fd_cnt, LostGlobals(i)         *)
(* group_fgp_cnt, Spare(i) group_slp_cnt; the global parity blocks that are *)
(* left have to make up for the data that the local ones cannot restore.    *)

GroupIds(c) == 0 .. c.l - 1
LostData(c, F, i)    == Cardinality(F \cap Data(c) \cap Groups(c)[i])
LostGlobals(c, F, i) == Cardinality(F \cap Globals(c) \cap Groups(c)[i])
Spare(c, F, i)       == IF LocalParity(c, i) \in F THEN 0 ELSE 1
GlobalsLeft(c, F)    == Cardinality(Globals(c) \ F)

AzuDecodable(c, F) ==
  SumOver(GroupIds(c),
    LAMBDA i : LET n == LostData(c, F, i) IN IF n > 0 THEN n - Spare(c, F, i) ELSE 0)
    <= GlobalsLeft(c, F)

\* The last group is the global parity blocks and their local parity.
Azu1Decodable(c, F) ==
  LET restored == IF Spare(c, F, c.l - 1) = 1 /\ GlobalsLeft(c, F) = c.g - 1 THEN 1 ELSE 0
  IN SumOver(0 .. c.l - 2,
       LAMBDA i : LET n == LostData(c, F, i) IN IF n > 0 THEN n - Spare(c, F, i) ELSE 0)
       <= GlobalsLeft(c, F) + restored

\* Mutant: in a mixed group, too, the local parity block saves one data block.
OptDecodableMixed(c, F) ==
  SumOver(GroupIds(c), LAMBDA i : LET n == LostData(c, F, i) IN
                                  IF n > 0 THEN n - Spare(c, F, i) ELSE 0)
    <= GlobalsLeft(c, F)

\* A group is pure when it is all data or all global parity blocks.  In a mixed
\* group the local parity block restores only what is lost alone.
OptDecodable(c, F) ==
  LET Pure(i) == \/ Run(c, c.k + c.g, i) \subseteq Data(c)
                 \/ Run(c, c.k + c.g, i) \subseteq Globals(c)
      d(i) == LostData(c, F, i)
      p(i) == LostGlobals(c, F, i)
      SavesData(i)   == /\ Spare(c, F, i) = 1
                        /\ IF Pure(i) THEN d(i) >= 1 ELSE d(i) = 1 /\ p(i) = 0
      SavesGlobal(i) == /\ Spare(c, F, i) = 1 /\ ~SavesData(i) /\ p(i) = 1
                        /\ Pure(i) \/ d(i) = 0
      saved(i)    == IF SavesData(i) THEN 1 ELSE 0
      restored(i) == IF SavesGlobal(i) THEN 1 ELSE 0
  IN SumOver(GroupIds(c), LAMBDA i : d(i) - saved(i))
       <= GlobalsLeft(c, F) + SumOver(GroupIds(c), restored)

UniDecodable(c, F) == OptDecodable(c, F)

\* Every local parity block covers all global ones: healthy groups restore as
\* many of them; unless all are restored, local parity blocks count for nothing.
OptCauDecodable(c, F) ==
  LET healthy == {i \in GroupIds(c) : Spare(c, F, i) = 1 /\ LostData(c, F, i) = 0}
      left == IF Cardinality(healthy) >= Cardinality(F \cap Globals(c))
              THEN c.g ELSE GlobalsLeft(c, F)
  IN IF left < c.g
     THEN Cardinality(F \cap Data(c)) <= left
     ELSE SumOver(GroupIds(c),
            LAMBDA i : LET n == LostData(c, F, i) IN IF n > 0 THEN n - Spare(c, F, i) ELSE 0)
            <= left

LrcDecodable(c, F) ==
  CASE c.type = "AZURE_LRC"          -> AzuDecodable(c, F)
    [] c.type = "AZURE_LRC_1"        -> Azu1Decodable(c, F)
    [] c.type = "OPTIMAL_LRC"        -> OptDecodable(c, F)
    [] c.type = "OPTIMAL_CAUCHY_LRC" -> OptCauDecodable(c, F)
    [] OTHER                         -> UniDecodable(c, F)

----------------------------------------------------------------------------
(* partition_optimal: which blocks are placed in one cluster.               *)

GroupSeqs(c) == [i \in 1 .. c.l |-> Ordered(Groups(c)[i - 1])]
Whole(c, piece) == Len(piece) = c.g + 1
TornOff(c, piece) == Len(piece) < c.g + 1

\* Whole pieces of g + 1 blocks are clusters of their own, the rests of theta
\* groups share one, and so do the global parity blocks, which join the last
\* cluster of rests where r is a multiple of g + 1.
LrcPartitionOptimal(c) ==
  LET pieces == FlattenSeq([i \in 1 .. c.l |-> Pieces(GroupSeqs(c)[i], c.g + 1)])
      whole  == SelectSeq(pieces, LAMBDA p : Whole(c, p))
      rests  == SelectSeq(pieces, LAMBDA p : TornOff(c, p))
      odd    == (r(c) + 1) % (c.g + 1)
      theta  == IF odd > 1 THEN c.g \div (odd - 1) ELSE c.l
      shared == [j \in 1 .. DividedUp(Len(rests), theta) |->
                   FlattenSeq(Pieces(rests, theta)[j])]
      all    == whole \o shared
  IN IF r(c) % (c.g + 1) = 0 /\ rests # <<>>
     THEN [all EXCEPT ![Len(all)] = @ \o Ordered(Globals(c))]
     ELSE Append(all, Ordered(Globals(c)))

Azu1PartitionOptimal(c) ==
  FlattenSeq([i \in 1 .. c.l |-> Pieces(GroupSeqs(c)[i], c.g + 1)])
OptPartitionOptimal(c) == Azu1PartitionOptimal(c)
UniPartitionOptimal(c) == Azu1PartitionOptimal(c)

LrcOptimal(c) ==
  CASE c.type \in {"AZURE_LRC", "OPTIMAL_CAUCHY_LRC"} -> LrcPartitionOptimal(c)
    [] c.type = "AZURE_LRC_1" -> Azu1PartitionOptimal(c)
    [] c.type = "OPTIMAL_LRC" -> OptPartitionOptimal(c)
    [] OTHER                  -> UniPartitionOptimal(c)
==============================================================================
