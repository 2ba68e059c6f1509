------------------------ MODULE MCDatanodeTransfer ------------------------
(* DatanodeTransfer on three datanodes: a thread that writes a block,       *)
(* the repair of a block, three migrations, two in opposite directions and  *)
(* two to the same datanode, and a deletion.                                *)
EXTENDS DatanodeTransfer

MCScript == [t \in Threads |->
  CASE t = "w" -> <<[op |-> "set", block |-> "b1", node |-> 1, to |-> 1]>>
    [] t = "r" -> <<[op |-> "get", block |-> "a", node |-> 2, to |-> 2],
                    [op |-> "set", block |-> "b2", node |-> 1, to |-> 1]>>
    [] t = "m1" -> <<[op |-> "move", block |-> "m", node |-> 3, to |-> 2],
                     [op |-> "delete", block |-> "d", node |-> 3, to |-> 3]>>
    [] t = "m2" -> <<[op |-> "move", block |-> "e", node |-> 2, to |-> 3],
                     [op |-> "move", block |-> "f", node |-> 1, to |-> 2]>>]
MCStored == [n \in Nodes |-> CASE n = 1 -> {"f"}
                               [] n = 2 -> {"a", "e"}
                               [] n = 3 -> {"m", "d"}]
MCContentOf == [b \in Blocks |-> IF b \in {"b1", "m"} THEN "s2" ELSE "s1"]

\* Nothing else changes the blocks that move.
ASSUME MigrationsApart == MovesApart

\* A read that met another transfer may wait for ever.
MCNext == Next \/ ((AllEnded \/ mixed # {}) /\ UNCHANGED vars)
MCSpec == Init /\ [][MCNext]_vars /\ Fairness
============================================================================
