------------------------------ MODULE CodeCommon ------------------------------
(***************************************************************************)
(* What the erasure codes of src/src/ec have in common.  A code is a record *)
(* with its type and parameters; blocks are numbered from 0, data first.    *)
(* Coefficients are left out: what counts is which blocks occur in a parity *)
(* equation.                                                                *)
(*                                                                          *)
(* A repair plan's answer has the parity blocks whose equations are used    *)
(* (par) and the blocks that are read (help).  The program keeps the help    *)
(* blocks in one list per cluster; which cluster reads a block follows from *)
(* where it is, so a set is enough.  An empty help set is the program's      *)
(* "undecodable".                                                           *)
(***************************************************************************)
EXTENDS Integers, Sequences, FiniteSets, SequencesExt

\* The numbers that the program divides by.
Pos == Nat \ {0}

Data(c) == 0 .. c.k - 1

Answer(par, help) == [par |-> par, help |-> help]
Undecodable == Answer({}, {})

DividedUp(n, d) == (n + d - 1) \div d
SumOver(S, f(_)) == FoldSet(LAMBDA x, acc : acc + f(x), 0, S)
\* S as a sequence; Before is a strict total order on it.
InOrder(S, Before(_, _)) ==
  [n \in 1 .. Cardinality(S) |->
     CHOOSE x \in S : Cardinality({y \in S : Before(y, x)}) = n - 1]
Ordered(S) == InOrder(S, <)
\* The n smallest members of S, or all of S.
Least(S, n) == ToSet(SubSeq(Ordered(S), 1, IF n < Cardinality(S) THEN n ELSE Cardinality(S)))
\* The consecutive pieces of n elements of s, the last one perhaps shorter.
Pieces(s, n) ==
  [j \in 1 .. DividedUp(Len(s), n) |->
     SubSeq(s, (j - 1) * n + 1, IF j * n < Len(s) THEN j * n ELSE Len(s))]

\* cl lists every member of U once, and no cluster is empty.
Spreads(cl, U) ==
  /\ cl \in Seq(Seq(U))
  /\ UNION {ToSet(cl[i]) : i \in DOMAIN cl} = U
  /\ \A i, j \in DOMAIN cl : i # j => ToSet(cl[i]) \cap ToSet(cl[j]) = {}
  /\ \A i \in DOMAIN cl : cl[i] # <<>>
  /\ \A i \in DOMAIN cl : \A n, h \in DOMAIN cl[i] : cl[i][n] = cl[i][h] => n = h

----------------------------------------------------------------------------
(* Reading k survivors.  The clusters that lost a block come first, then the *)
(* others, the larger number of usable survivors first; equal clusters keep  *)
(* their order.  clusters is a sequence of sequences of blocks, a slot the    *)
(* number of a cluster and a position in it.                                  *)

Survivors(cluster, F, usable) == {n \in DOMAIN cluster : cluster[n] \in usable \ F}
LostSome(cluster, F) == ToSet(cluster) \cap F # {}

ReadBefore(clusters, F, usable, i, j) ==
  LET left(h) == Cardinality(Survivors(clusters[h], F, usable))
      main(h) == LostSome(clusters[h], F)
  IN \/ main(i) /\ ~main(j)
     \/ main(i) = main(j) /\ left(i) > left(j)
     \/ main(i) = main(j) /\ left(i) = left(j) /\ i < j

FirstSurvivors(k, clusters, F, usable) ==
  LET slots == UNION {{<<i, n>> : n \in Survivors(clusters[i], F, usable)} : i \in DOMAIN clusters}
      earlier(s) == {t \in slots : \/ ReadBefore(clusters, F, usable, t[1], s[1])
                                   \/ t[1] = s[1] /\ t[2] < s[2]}
  IN {clusters[s[1]][s[2]] : s \in {t \in slots : Cardinality(earlier(t)) < k}}
==============================================================================
