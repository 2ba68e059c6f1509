--------------------------- MODULE RepairScheduler ---------------------------
(***************************************************************************)
(* RepairScheduler::compute_schedule of src/src/coordinator/repair.cpp.    *)
(* The tasks that helper clusters have to send to main clusters are a      *)
(* bipartite multigraph.  Dummy links make it regular; every round then    *)
(* takes one matching out of it, until nothing is left.                    *)
(*                                                                         *)
(* One step per iteration of the outer loop.  The weights of the links are *)
(* functions of (source, destination): the code never lists two physical   *)
(* links, or two dummy links, with the same ends.                          *)
(***************************************************************************)
EXTENDS Integers, Sequences, FiniteSets, SequencesExt

CONSTANTS
  MaxNode,    \* clusters are 1 .. MaxNode
  MaxTasks    \* bound on the tasks of the whole schedule

ASSUME SizesAssumption == MaxNode \in Nat /\ MaxTasks \in Nat

Node == 1 .. MaxNode
Link == Node \X Node
\* A helper cluster is never the main cluster of its own task.
Remote == {l \in Link : l[1] # l[2]}

VARIABLES
  physical,   \* the links the caller passes: weight of each
  real,       \* weight the physical links have left
  dummy,      \* weight the dummy links have left
  schedule,   \* the rounds so far: each a set of links, one task per link
  phase       \* "start", "rounds" or "done"

vars == <<physical, real, dummy, schedule, phase>>

\* f[1] + ... + f[MaxNode].
Total(f) ==
  LET upTo[n \in 0 .. MaxNode] == IF n = 0 THEN 0 ELSE upTo[n - 1] + f[n]
  IN upTo[MaxNode]

OutDegree(w, u) == Total([v \in Node |-> w[<<u, v>>]])
InDegree(w, v)  == Total([u \in Node |-> w[<<u, v>>]])
Weight(w)       == Total([u \in Node |-> OutDegree(w, u)])
NoWeight        == [l \in Link |-> 0]
Plus(w1, w2)    == [l \in Link |-> w1[l] + w2[l]]

\* max_nodes_ and max_deg.
Nodes(w)  == {l[1] : l \in {k \in Link : w[k] > 0}}
               \cup {l[2] : l \in {k \in Link : w[k] > 0}}
LastNode(w) == Max(Nodes(w) \cup {0})
Degree(w)   == Max({0} \cup {OutDegree(w, u) : u \in Node}
                       \cup {InDegree(w, v) : v \in Node})

----------------------------------------------------------------------------
\* Mutant of Padding: no dummy link at all.
NoPadding == NoWeight

\* Nodes that send, or receive, less than the busiest one does.
OutLacking(w) == {u \in 1 .. LastNode(physical) : OutDegree(w, u) < Degree(physical)}
InLacking(w)  == {v \in 1 .. LastNode(physical) : InDegree(w, v) < Degree(physical)}

\* One more dummy link, if one is needed: the first node that lacks out-degree is
\* filled up, as far as the first node that lacks in-degree has room.
Fill(padding) ==
  LET total == Plus(physical, padding)
      i     == Min(OutLacking(total))
      j     == Min(InLacking(total))
      add   == Min({Degree(physical) - OutDegree(total, i),
                    Degree(physical) - InDegree(total, j)})
  IN IF OutLacking(total) = {} THEN padding ELSE [padding EXCEPT ![<<i, j>>] = @ + add]

\* Dummy links until every node sends as much as the busiest.  Each fills up a
\* sender or a receiver, so that there are at most two to a node.
Padding ==
  LET padded[n \in 0 .. 2 * MaxNode] ==
        IF n = 0 THEN NoWeight ELSE Fill(padded[n - 1])
  IN padded[2 * MaxNode]

----------------------------------------------------------------------------
(* One matching: an augmenting path is searched from every source in turn. *)

\* The neighbour of u that dfs() tries next: physical links are listed before
\* dummy ones, each kind in the order of the destinations.
Untried(w, u, seen) == {v \in Node \ seen : w[<<u, v>>] > 0}
NextEnd(u, seen) ==
  Min(IF Untried(real, u, seen) # {} THEN Untried(real, u, seen)
                                     ELSE Untried(dummy, u, seen))

Ends(u) == Untried(real, u, {}) \cup Untried(dummy, u, {})

\* Mutant of Augmented: claim every free end instead of returning after the first.
AugmentedWithoutReturn(u, match) ==
  [v \in Node |-> IF v \in Ends(u) /\ match[v] = -1 THEN u ELSE match[v]]

\* What dfs() comes to from a source, given what it comes to from the sources
\* further on.  Every destination is tried once; one that is matched already is
\* given to source when the source it has finds another.
Search(dfs, source, match, seen) ==
  LET end    == NextEnd(source, seen)
      onward == IF match[end] = -1
                THEN [ok |-> TRUE, match |-> match, seen |-> seen \cup {end}]
                ELSE dfs[<<match[end], match, seen \cup {end}>>]
  IN IF Ends(source) \subseteq seen
       THEN [ok |-> FALSE, match |-> match, seen |-> seen]
     ELSE IF onward.ok THEN [onward EXCEPT !.match[end] = source]
     ELSE dfs[<<source, onward.match, onward.seen>>]

\* A matching names the source of each destination, or -1.
Matching == [Node -> Node \cup {-1}]

\* The matching after the search for an augmenting path from u.
Augmented(u, match) ==
  LET dfs[c \in Node \X Matching \X SUBSET Node] == Search(dfs, c[1], c[2], c[3])
  IN dfs[<<u, match, {}>>].match

\* The matching after a search from each of the sources 1 .. u.
MatchUpTo[u \in 0 .. MaxNode] ==
  IF u = 0 THEN [v \in Node |-> -1] ELSE Augmented(u, MatchUpTo[u - 1])

Pairs(match) == {l \in Link : match[l[2]] = l[1]}

----------------------------------------------------------------------------
Init ==
  /\ \E n \in 1 .. MaxTasks : \E linkOf \in [1 .. n -> Remote] :
       physical = [l \in Link |-> Cardinality({i \in 1 .. n : linkOf[i] = l})]
  /\ real = physical
  /\ dummy = NoWeight
  /\ schedule = <<>>
  /\ phase = "start"

Pad ==
  /\ phase = "start"
  /\ dummy' = Padding
  /\ phase' = "rounds"
  /\ UNCHANGED <<physical, real, schedule>>

\* Mutants of Round: the dummy link of a matched pair is not told apart from
\* the physical one; a round with a dummy link in it is dropped as a whole.
RoundBlindToDummies ==
  /\ phase = "rounds"
  /\ Weight(Plus(real, dummy)) > 0
  /\ \E matched \in {Pairs(MatchUpTo[MaxNode])} :
        /\ real' = [l \in Link |-> IF l \in matched THEN real[l] - 1 ELSE real[l]]
        /\ schedule' = Append(schedule, matched)
  /\ UNCHANGED <<physical, dummy, phase>>
RoundDropsMixed ==
  /\ phase = "rounds"
  /\ Weight(Plus(real, dummy)) > 0
  /\ \E matched \in {Pairs(MatchUpTo[MaxNode])} :
     \E edges \in {{l \in matched : real[l] > 0}} :
        /\ real' = [l \in Link |-> IF l \in edges THEN real[l] - 1 ELSE real[l]]
        /\ dummy' = [l \in Link |-> IF l \in matched \ edges THEN dummy[l] - 1
                                                              ELSE dummy[l]]
        /\ schedule' = IF edges = matched THEN Append(schedule, edges) ELSE schedule
  /\ UNCHANGED <<physical, phase>>

\* A matched pair consumes its physical link before its dummy one; a round
\* that holds dummy links only is dropped.
Round ==
  /\ phase = "rounds"
  /\ Weight(Plus(real, dummy)) > 0
  /\ \E matched \in {Pairs(match) : match \in {MatchUpTo[MaxNode]}} :
     \E edges \in {{l \in matched : real[l] > 0}} :
        /\ real' = [l \in Link |-> IF l \in edges THEN real[l] - 1 ELSE real[l]]
        /\ dummy' = [l \in Link |-> IF l \in matched \ edges THEN dummy[l] - 1
                                                              ELSE dummy[l]]
        /\ schedule' = IF edges = {} THEN schedule ELSE Append(schedule, edges)
  /\ UNCHANGED <<physical, phase>>

Finish ==
  /\ phase = "rounds"
  /\ Weight(Plus(real, dummy)) = 0
  /\ phase' = "done"
  /\ UNCHANGED <<physical, real, dummy, schedule>>

Next == Pad \/ Round \/ Finish

Spec == Init /\ [][Next]_vars

----------------------------------------------------------------------------
TypeOK ==
  /\ physical \in [Link -> 0 .. MaxTasks]
  /\ real \in [Link -> 0 .. MaxTasks]
  /\ dummy \in [Link -> Nat]
  /\ \A r \in DOMAIN schedule : schedule[r] \subseteq Link
  /\ phase \in {"start", "rounds", "done"}

\* In a round no cluster sends twice and no cluster receives twice: that is
\* what the schedule is for.
RoundsAreMatchings ==
  \A r \in DOMAIN schedule : \A k, l \in schedule[r] :
    k # l => k[1] # l[1] /\ k[2] # l[2]

\* Every task of every link is in exactly one round, or still to be scheduled.
EveryTaskOnce ==
  \A l \in Link :
    real[l] + Cardinality({r \in DOMAIN schedule : l \in schedule[r]}) = physical[l]

\* The schedule is as short as any schedule can be: a cluster that has d tasks to
\* send, or to receive, needs d rounds.  It is so only if the padding makes the
\* multigraph regular and every round's matching covers every cluster.
ShortestSchedule ==
  phase = "done" => Len(schedule) = Degree(physical)
============================================================================
