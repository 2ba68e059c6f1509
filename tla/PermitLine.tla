----------------------------- MODULE PermitLine -----------------------------
(***************************************************************************)
(* What a first-come-first-served semaphore promises: threads stand in a   *)
(* line, the head of the line goes in while there is room, and whoever is  *)
(* inside leaves.  FifoSemaphore is shown to implement it.                 *)
(***************************************************************************)
EXTENDS Integers, Sequences, FiniteSets

CONSTANTS Threads, Capacity

VARIABLES
  line,    \* threads waiting, first come first
  inside,  \* threads that have a permit
  gone     \* threads that have returned it

lvars == <<line, inside, gone>>

InLine == {line[i] : i \in DOMAIN line}

Init == line = <<>> /\ inside = {} /\ gone = {}

\* A newcomer joins the line.
Join(t) ==
  /\ t \notin InLine \cup inside \cup gone
  /\ line' = Append(line, t)
  /\ UNCHANGED <<inside, gone>>

\* A newcomer finds nobody in line and room inside.
WalkIn(t) ==
  /\ t \notin inside \cup gone
  /\ line = <<>>
  /\ Cardinality(inside) < Capacity
  /\ inside' = inside \cup {t}
  /\ UNCHANGED <<line, gone>>

\* The head of the line goes in.
Admit ==
  /\ line # <<>>
  /\ Cardinality(inside) < Capacity
  /\ inside' = inside \cup {Head(line)}
  /\ line' = Tail(line)
  /\ UNCHANGED gone

Leave(t) ==
  /\ t \in inside
  /\ inside' = inside \ {t}
  /\ gone' = gone \cup {t}
  /\ UNCHANGED line

Next == Admit \/ \E t \in Threads : Join(t) \/ WalkIn(t) \/ Leave(t)

Spec == Init /\ [][Next]_lvars

\* The head of the line is let in, and whoever is inside leaves.
FairSpec == Spec /\ WF_lvars(Admit) /\ \A t \in Threads : WF_lvars(Leave(t))
============================================================================
