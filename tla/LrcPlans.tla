------------------------------- MODULE LrcPlans -------------------------------
(***************************************************************************)
(* Which blocks a repair reads and which parity equations it solves: the   *)
(* help_blocks_* and repair_multi_* functions of src/src/ec/lrc.cpp.       *)
(*                                                                         *)
(* In every operator c is the code, F the set of lost blocks.  The loops   *)
(* over failures_map and help_blocks_map mark blocks group by group; what  *)
(* they end with is stated directly:  n more parity blocks than local ones *)
(* are needed, and the program takes the first n global ones that are left.*)
(***************************************************************************)
EXTENDS LrcLayout

GroupIdOf(c, p)      == p - c.k - c.g
LastLocal(c)         == LocalParity(c, c.l - 1)
LostLocals(c, F)     == F \cap Locals(c)
LostGlobalsOf(c, F)  == F \cap Globals(c)
\* The blocks left of the groups of the local parity blocks P.
LeftOf(c, F, P) == (UNION {Groups(c)[GroupIdOf(c, p)] : p \in P}) \ F
If(condition, S) == IF condition THEN S ELSE {}

----------------------------------------------------------------------------
(* One lost block.  local is local_or_column.                               *)

LrcSingle(c, clusters, f, local, partial) ==
  LET group == {b \in Blocks(c) : bid2gid(c, b) = bid2gid(c, f)} \ {f}
      some  == FirstSurvivors(c.k, clusters, {f}, Data(c) \cup Globals(c))
  IN IF local THEN Answer((group \cup {f}) \cap Locals(c), group)
     ELSE IF partial THEN Answer(({f} \cup some) \ Data(c), some)
     ELSE Answer({f} \ Data(c), Data(c))

\* Mutant: as if a local parity block covered its group's data only.
OptCauSingleAsAzure(c, clusters, f, local, partial, via) ==
  LET gid   == IF f \in Globals(c) THEN via ELSE bid2gid(c, f)
      group == ({b \in Blocks(c) : bid2gid(c, b) = gid} \cup {f}) \ {f}
      some  == FirstSurvivors(c.k, clusters, {f}, Data(c) \cup Globals(c))
  IN IF local THEN Answer((group \cup {f}) \cap Locals(c), group)
     ELSE Answer(({f} \cup some) \ Data(c), some)

\* The local parity blocks of the optimal Cauchy code cover the global parity
\* blocks: a lost global one is restored in the group with number via.
OptCauSingle(c, clusters, f, local, partial, via) ==
  LET gid   == IF f \in Globals(c) THEN via ELSE bid2gid(c, f)
      group == ({b \in Blocks(c) : bid2gid(c, b) = gid} \cup Globals(c)) \ {f}
      some  == FirstSurvivors(c.k, clusters, {f}, Data(c) \cup Globals(c))
  IN IF local THEN Answer((group \cup {f}) \cap Locals(c), group)
     ELSE IF ~partial /\ f \in Globals(c) THEN Answer({f}, Data(c))
     ELSE Answer(({f} \cup some) \ Data(c), some)

(* Several lost global parity blocks, and nothing else.                     *)

LrcMultiGlobal(c, clusters, F, partial) ==
  LET some == FirstSurvivors(c.k, clusters, F, Data(c) \cup Globals(c)) IN
  IF partial THEN Answer((F \cup some) \ Data(c), some) ELSE Answer(F, Data(c))

OptCauMultiGlobal(c, clusters, F, local, partial, surviving) ==
  LET groups == {b \in Blocks(c) : bid2gid(c, b) \in surviving} IN
  IF local THEN Answer(groups \cap Locals(c), (Globals(c) \ F) \cup groups)
  ELSE LrcMultiGlobal(c, clusters, F, partial)

----------------------------------------------------------------------------
(* Lost data.  Every group that lost data uses its local parity block, if    *)
(* that is left and the group may use it; the rest is up to the global ones. *)

LocalsUsed(c, F, groups) ==
  {LocalParity(c, i) : i \in {j \in groups :
     LostData(c, F, j) > 0 /\ Spare(c, F, j) = 1}}
GlobalsNeeded(c, F, locals) == Cardinality(F \cap Data(c)) - Cardinality(locals)
GlobalsUsed(c, F, locals) == Least(Globals(c) \ F, GlobalsNeeded(c, F, locals))
Enough(c, F, locals) == GlobalsNeeded(c, F, locals) <= Cardinality(Globals(c) \ F)

GlobalsHealthy(c, F) == F \cap Globals(c) = {}
\* The rule of the codes whose global parity blocks are in local groups.
NotLastUnlessHealthy(c, F) ==
  IF GlobalsHealthy(c, F) THEN GroupIds(c) ELSE GroupIds(c) \ {c.l - 1}
NoneUnlessHealthy(c, F) == If(GlobalsHealthy(c, F), GroupIds(c))

\* Global priority: global parity blocks that are left over replace local ones,
\* in the order of the groups.
Replacing(free, locals) == Least(free, Cardinality(locals))
Kept(free, locals) == locals \ Least(locals, Cardinality(Replacing(free, locals)))

LrcDataGlobalPriority(c, F) ==
  LET locals == LocalsUsed(c, F, GroupIds(c))
      used   == GlobalsUsed(c, F, locals)
      new    == Replacing(Globals(c) \ (F \cup used), locals)
      kept   == Kept(Globals(c) \ (F \cup used), locals)
      par    == used \cup new \cup kept
  IN IF ~Enough(c, F, locals) THEN Undecodable
     ELSE Answer(par, par \cup LeftOf(c, F, kept) \cup If(used # {}, Data(c) \ F))

LrcDataLocalPriority(c, F) ==
  LET locals == LocalsUsed(c, F, GroupIds(c))
      used   == GlobalsUsed(c, F, locals)
  IN IF ~Enough(c, F, locals) THEN Undecodable
     ELSE Answer(locals \cup used,
                 locals \cup used \cup LeftOf(c, F, locals)
                   \cup If(used # {}, Data(c) \ F))

\* The last group's local parity block is a combination of global ones, so they
\* are read with it.
OptDataGlobalPriority(c, F) ==
  LET locals == LocalsUsed(c, F, NotLastUnlessHealthy(c, F))
      used   == GlobalsUsed(c, F, locals)
      new    == Replacing(Globals(c) \ (F \cup used), locals)
      kept   == Kept(Globals(c) \ (F \cup used), locals)
      par    == used \cup new \cup kept
  IN IF ~Enough(c, F, locals) THEN Undecodable
     ELSE Answer(par, par \cup LeftOf(c, F, kept) \cup If(used # {}, Data(c) \ F)
                        \cup If(LastLocal(c) \in kept, Globals(c) \ F))

OptDataLocalPriority(c, F) ==
  LET locals == LocalsUsed(c, F, NotLastUnlessHealthy(c, F))
      used   == GlobalsUsed(c, F, locals)
  IN IF ~Enough(c, F, locals) THEN Undecodable
     ELSE Answer(locals \cup used,
                 locals \cup used \cup LeftOf(c, F, locals)
                   \cup If(used # {}, Data(c) \ F)
                   \cup If(LastLocal(c) \in locals, Globals(c) \ F))

UniDataGlobalPriority(c, F) == OptDataGlobalPriority(c, F)
UniDataLocalPriority(c, F)  == OptDataLocalPriority(c, F)

\* Every local parity block covers all global ones: none is used unless all
\* global ones are healthy.
OptCauDataGlobalPriority(c, F) ==
  LET locals == LocalsUsed(c, F, NoneUnlessHealthy(c, F))
      used   == GlobalsUsed(c, F, locals)
      new    == Replacing(Globals(c) \ (F \cup used), locals)
      kept   == Kept(Globals(c) \ (F \cup used), locals)
      par    == used \cup new \cup kept
  IN IF ~Enough(c, F, locals) THEN Undecodable
     ELSE Answer(par, par \cup LeftOf(c, F, kept) \cup If(used # {}, Data(c) \ F)
                        \cup If(kept # {}, Globals(c) \ F))

OptCauDataLocalPriority(c, F) ==
  LET locals == LocalsUsed(c, F, NoneUnlessHealthy(c, F))
      used   == GlobalsUsed(c, F, locals)
  IN IF ~Enough(c, F, locals) THEN Undecodable
     ELSE Answer(locals \cup used,
                 locals \cup used \cup LeftOf(c, F, locals)
                   \cup If(used # {}, Data(c) \ F)
                   \cup If(locals # {}, Globals(c) \ F))

----------------------------------------------------------------------------
(* Lost data and parity in one plan.  A lost parity block is an unknown whose *)
(* own equation restores it, unless a local group does.                      *)

LrcAllGlobalPriority(c, F) ==
  LET locals == LocalsUsed(c, F, GroupIds(c))
      used   == GlobalsUsed(c, F, locals)
      beside == LeftOf(c, F, LostLocals(c, F))
      free   == Globals(c) \ (F \cup used \cup beside)
      new    == Replacing(free, locals)
      kept   == Kept(free, locals)
      read   == used \cup new \cup kept
  IN IF ~Enough(c, F, locals) THEN Undecodable
     ELSE Answer(read \cup (F \ Data(c)),
                 read \cup beside \cup LeftOf(c, F, kept)
                   \cup If(used \cup new \cup LostGlobalsOf(c, F) # {}, Data(c) \ F))

LrcAllLocalPriority(c, F) ==
  LET locals == LocalsUsed(c, F, GroupIds(c))
      used   == GlobalsUsed(c, F, locals)
  IN IF ~Enough(c, F, locals) THEN Undecodable
     ELSE Answer(locals \cup used \cup (F \ Data(c)),
                 locals \cup used \cup LeftOf(c, F, locals \cup LostLocals(c, F))
                   \cup If(used \cup LostGlobalsOf(c, F) # {}, Data(c) \ F))

Azu1AllGlobalPriority(c, F) ==
  LET locals == LocalsUsed(c, F, NotLastUnlessHealthy(c, F))
      used   == GlobalsUsed(c, F, locals)
      beside == LeftOf(c, F, LostLocals(c, F))
      free   == Globals(c) \ (F \cup used \cup beside)
      new    == Replacing(free, locals)
      kept   == Kept(free, locals)
      read   == used \cup new \cup kept
  IN IF ~Enough(c, F, locals) THEN Undecodable
     ELSE Answer(read \cup (F \ Data(c)),
                 read \cup beside \cup LeftOf(c, F, kept)
                   \cup If(used \cup new \cup LostGlobalsOf(c, F) # {}, Data(c) \ F)
                   \cup If(LastLocal(c) \in F \cup kept, Globals(c) \ F))

\* The last lost global parity block is left to its group if it can be.
LeftToGroup(c, F) ==
  LET lost == LostGlobalsOf(c, F)
      last == CHOOSE b \in lost : \A o \in lost : o <= b
  IN IF lost # {} /\ LocalParity(c, bid2gid(c, last)) \notin F THEN {last} ELSE {}
GroupParities(c, S) == {LocalParity(c, bid2gid(c, b)) : b \in S}

Azu1AllLocalPriority(c, F) ==
  LET locals == LocalsUsed(c, F, NotLastUnlessHealthy(c, F))
      used   == GlobalsUsed(c, F, locals)
      via    == GroupParities(c, LeftToGroup(c, F))
      own    == (F \ Data(c)) \ LeftToGroup(c, F)
  IN IF ~Enough(c, F, locals) THEN Undecodable
     ELSE Answer(locals \cup used \cup via \cup own,
                 locals \cup used \cup LeftOf(c, F, locals \cup via \cup LostLocals(c, F))
                   \cup If(used \cup (own \cap Globals(c)) # {}, Data(c) \ F)
                   \cup If(via # {} \/ LastLocal(c) \in F \cup locals, Globals(c) \ F))

OptAllGlobalPriority(c, F) == Azu1AllGlobalPriority(c, F)
OptAllLocalPriority(c, F)  == Azu1AllLocalPriority(c, F)

\* As in the optimal LRC, but a group restores the last lost global parity block
\* here too; a local parity block that is replaced brings no data with it.
UniAllGlobalPriority(c, F) ==
  LET locals == LocalsUsed(c, F, NotLastUnlessHealthy(c, F))
      used   == GlobalsUsed(c, F, locals)
      via    == GroupParities(c, LeftToGroup(c, F))
      own    == (F \ Data(c)) \ LeftToGroup(c, F)
      beside == LeftOf(c, F, via \cup LostLocals(c, F))
      free   == Globals(c) \ (F \cup used \cup beside)
      new    == Replacing(free, locals \cup via)
      kept   == Kept(free, locals \cup via)
      read   == used \cup new \cup kept
  IN IF ~Enough(c, F, locals) THEN Undecodable
     ELSE Answer(read \cup own,
                 read \cup (beside \ Locals(c)) \cup LeftOf(c, F, kept)
                   \cup If(used \cup (own \cap Globals(c)) # {}, Data(c) \ F)
                   \cup If(via # {} \/ LastLocal(c) \in F \cup kept, Globals(c) \ F))

UniAllLocalPriority(c, F) == OptAllLocalPriority(c, F)

OptCauAllGlobalPriority(c, F) ==
  LET locals == LocalsUsed(c, F, NoneUnlessHealthy(c, F))
      used   == GlobalsUsed(c, F, locals)
      beside == LeftOf(c, F, LostLocals(c, F))
      free   == Globals(c) \ (F \cup used)
      new    == Replacing(free, locals)
      kept   == Kept(free, locals)
      read   == used \cup new \cup kept
  IN IF ~Enough(c, F, locals) THEN Undecodable
     ELSE Answer(read \cup (F \ Data(c)),
                 read \cup beside \cup LeftOf(c, F, kept)
                   \cup If(used \cup new \cup LostGlobalsOf(c, F) # {}, Data(c) \ F)
                   \cup If(LostLocals(c, F) \cup kept # {}, Globals(c) \ F))

\* Lost global parity blocks are restored by local ones, in the order of both,
\* where a group is smaller than the data.
OptCauAllLocalPriority(c, F) ==
  LET locals == LocalsUsed(c, F, NoneUnlessHealthy(c, F))
      used   == GlobalsUsed(c, F, locals)
      lost   == LostGlobalsOf(c, F)
      via    == If(r(c) + c.g < c.k,
                   Least(Locals(c) \ (F \cup locals), Cardinality(lost)))
      own    == (F \ Data(c)) \ Least(lost, Cardinality(via))
  IN IF ~Enough(c, F, locals) THEN Undecodable
     ELSE Answer(locals \cup used \cup via \cup own,
                 locals \cup used \cup via
                   \cup LeftOf(c, F, locals \cup via \cup LostLocals(c, F))
                   \cup If(used \cup (own \cap Globals(c)) # {}, Data(c) \ F)
                   \cup If(locals \cup via \cup LostLocals(c, F) # {}, Globals(c) \ F))

----------------------------------------------------------------------------
(* The virtual functions: globalFirst is repair_priority.                   *)

DataAnswer(c, F, globalFirst) ==
  CASE c.type \in {"AZURE_LRC", "AZURE_LRC_1"} ->
         IF globalFirst THEN LrcDataGlobalPriority(c, F) ELSE LrcDataLocalPriority(c, F)
    [] c.type = "OPTIMAL_LRC" ->
         IF globalFirst THEN OptDataGlobalPriority(c, F) ELSE OptDataLocalPriority(c, F)
    [] c.type = "OPTIMAL_CAUCHY_LRC" ->
         IF globalFirst THEN OptCauDataGlobalPriority(c, F) ELSE OptCauDataLocalPriority(c, F)
    [] OTHER ->
         IF globalFirst THEN UniDataGlobalPriority(c, F) ELSE UniDataLocalPriority(c, F)

AllAnswer(c, F, globalFirst) ==
  CASE c.type = "AZURE_LRC" ->
         IF globalFirst THEN LrcAllGlobalPriority(c, F) ELSE LrcAllLocalPriority(c, F)
    [] c.type = "AZURE_LRC_1" ->
         IF globalFirst THEN Azu1AllGlobalPriority(c, F) ELSE Azu1AllLocalPriority(c, F)
    [] c.type = "OPTIMAL_LRC" ->
         IF globalFirst THEN OptAllGlobalPriority(c, F) ELSE OptAllLocalPriority(c, F)
    [] c.type = "OPTIMAL_CAUCHY_LRC" ->
         IF globalFirst THEN OptCauAllGlobalPriority(c, F) ELSE OptCauAllLocalPriority(c, F)
    [] OTHER ->
         IF globalFirst THEN UniAllGlobalPriority(c, F) ELSE UniAllLocalPriority(c, F)
==============================================================================
