--------------------------- MODULE MCFlowDispatch ---------------------------
(* FlowDispatch on two stripes of one plan each over three clusters: every  *)
(* cluster that is main for one stripe helps the other one.                 *)
EXTENDS FlowDispatch

MCTasks    == {"2to1", "3to1", "1to2", "3to2"}
MCStripeOf == [p \in Plans |-> p]
MCMainOf   == [p \in Plans |-> p]
MCAddressOf == [p \in Plans |-> <<p, p>>]
MCPlanOf   == [t \in Tasks |-> IF t \in {"2to1", "3to1"} THEN 1 ELSE 2]
MCHelperOf == [t \in Tasks |-> CASE t = "1to2" -> 1
                                 [] t = "2to1" -> 2
                                 [] OTHER      -> 3]
MCRounds   == <<{"2to1", "3to2"}, {"3to1", "1to2"}>>

\* The repair has returned; handlers that are left behind may wait for ever.
MCNext == Next \/ (Returned /\ UNCHANGED vars)
MCSpec == Init /\ [][MCNext]_vars
            /\ WF_vars(Coordinator \/ Proxies \/ TimeoutAtLast)
============================================================================
