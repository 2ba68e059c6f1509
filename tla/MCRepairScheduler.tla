------------------------- MODULE MCRepairScheduler -------------------------
(* RepairScheduler on four clusters.                                       *)
EXTENDS RepairScheduler

\* compute_schedule has returned.
Returned == phase = "done" /\ UNCHANGED vars

MCNext == Next \/ Returned

MCSpec == Init /\ [][MCNext]_vars
============================================================================
