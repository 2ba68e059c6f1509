---------------------------- MODULE MCFlowSerial ----------------------------
(* FlowDispatch on a stripe that has two plans with the same main cluster,  *)
(* hence the same data_port, and a stripe with one plan.                    *)
EXTENDS FlowDispatch

MCTasks     == {"a", "b", "c", "d"}
MCStripeOf  == [p \in Plans |-> IF p = 3 THEN 2 ELSE 1]
MCMainOf    == [p \in Plans |-> MCStripeOf[p]]
MCAddressOf == [p \in Plans |-> <<MCMainOf[p], MCStripeOf[p]>>]
MCPlanOf    == [t \in Tasks |-> CASE t \in {"a", "b"} -> 1
                                  [] t = "c"         -> 2
                                  [] t = "d"         -> 3]
MCHelperOf  == [t \in Tasks |-> CASE t = "a"         -> 2
                                  [] t \in {"b", "c"} -> 3
                                  [] t = "d"         -> 1]
MCRounds    == <<{"a", "d"}, {"b"}, {"c"}>>

\* The repair has returned; handlers that are left behind may wait for ever.
MCNext == Next \/ (Returned /\ UNCHANGED vars)
MCSpec == Init /\ [][MCNext]_vars
            /\ WF_vars(Coordinator \/ Proxies \/ TimeoutAtLast)
============================================================================
