--------------------------- MODULE MCObjectStore ---------------------------
(* ObjectStore with two clients, two keys and two proxies.                 *)
EXTENDS ObjectStore

Nothing == [k \in Kinds |-> 0]
Load(n, calls) == [size |-> n] @@ calls @@ Nothing

MCWorkloads ==
  {Load(1, [set |-> 2, get |-> 1, delete |-> 1]),
   Load(1, [set |-> 2, get |-> 1, giveUp |-> 1]),
   Load(1, [set |-> 3, get |-> 1, abort |-> 1]),
   Load(2, [set |-> 2, get |-> 1, abort |-> 1]),
   Load(1, [set |-> 2, get |-> 1, snapshot |-> 1, reset |-> 1, revert |-> 1]),
   Load(1, [set |-> 1, get |-> 1, snapshot |-> 1, repair |-> 1, revert |-> 1, delete |-> 1]),
   Load(1, [set |-> 2, delete |-> 1, reset |-> 1]),
   Load(1, [set |-> 2, get |-> 1, reset |-> 1, repair |-> 1]),
   Load(1, [set |-> 1, get |-> 1, lose |-> 1]),
   Load(1, [set |-> 2, get |-> 2]),
   Load(1, [set |-> 1, get |-> 1, torn |-> 1]),
   Load(2, [set |-> 1, get |-> 1, fail |-> 1]),
   Load(1, [set |-> 2, get |-> 1, reset |-> 1, fail |-> 1]),
   Load(1, [set |-> 1, get |-> 1, delete |-> 1, fail |-> 1]),
   Load(2, [set |-> 1, get |-> 1, delete |-> 1, lose |-> 1])}

\* All clients, keys and places are alike.
Alike == Permutations(Clients) \cup Permutations(Keys) \cup Permutations(Proxies)

\* The calls of the workload are made or wait for ever, or the coordinator has ended.
Over ==
  /\ \/ ~up
     \/ \A c \in Clients :
          client[c] = Stuck \/ (Free(c) /\ left.set = 0 /\ left.get = 0)
  /\ UNCHANGED vars

MCSpec == Init /\ [][Next \/ Over]_vars
============================================================================
