-------------------------- MODULE MCFifoSemaphore --------------------------
(* FifoSemaphore on four threads and two permits.                          *)
EXTENDS FifoSemaphore

\* Every thread has returned from release(): nothing is left to do.
Finished == /\ \A t \in Threads : pc[t] = "done"
            /\ UNCHANGED vars

MCNext == Next \/ Finished

MCSpec == Init /\ [][MCNext]_vars /\ Fairness
============================================================================
