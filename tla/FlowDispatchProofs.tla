------------------------- MODULE FlowDispatchProofs -------------------------
(***************************************************************************)
(* Proofs about FlowDispatch, for every number of stripes, plans, tasks,   *)
(* clusters, permits and faults, and every schedule RoundsAssumption       *)
(* allows: type correctness, the honesty of the plain and the unordered    *)
(* repair, what the rounds of the join repair guarantee, that the mains of *)
(* the repairs that go plan after plan decode their own data, and that a   *)
(* repair that is left alone writes and locates every block.               *)
(***************************************************************************)
EXTENDS FlowDispatch, FiniteSetTheorems, TLAPS

\* A timeout step is either counted as a fault or not.
TimeoutFaults == UNCHANGED faults \/ Fault

\* Next, flat: one disjunct per action.
LEMMA NextCases ==
  ASSUME Next
  PROVE \/ \E s \in Stripes :
             \/ PlanStripe(s) \/ PlanStripeInPart(s) \/ PlanFails(s)
             \/ SerialStripeDone(s) \/ PlainStripeDone(s)
             \/ LaunchStripe(s) \/ StripeReturns(s)
        \/ \E p \in Plans :
             \/ LaunchPlan(p) \/ LaunchPlain(p) \/ MainListens(p) \/ MainUnbound(p)
             \/ MainWrites(p) \/ MainGone(p)
             \/ MainTimesOut(p) /\ TimeoutFaults
        \/ PlainFails \/ Collect \/ LaunchMains \/ CreateHelps \/ PrepareFirst
        \/ WarmUp \/ StartRound \/ LookAtFlag \/ LeaveRounds \/ FinishGlobal
        \/ \E t \in Tasks :
             \/ HelpStarts(t) \/ HelpDelivers(t) \/ HelpRefused(t)
             \/ HelpWithoutData(t) \/ HelpGone(t) \/ Prepares(t) \/ PrepareGone(t)
             \/ HelpTimesOut(t) /\ TimeoutFaults
             \/ PrepareTimesOut(t) /\ TimeoutFaults
        \/ \E c \in Clusters : ProxyExits(c)
  BY DEF Next, Coordinator, Proxies, Faults, TimeoutAtLast, EarlyTimeout,
         TimeoutFaults

\* Rounds hold tasks only.
LEMMA RoundTasksAreTasks == ASSUME NEW r PROVE RoundTasks(r) \subseteq Tasks
  BY RoundsAssumption DEF RoundTasks

----------------------------------------------------------------------------
(* Type correctness.                                                       *)

LEMMA TypeInit == Init => TypeOK
  BY BoundsAssumption, RoundsAssumption DEF Init, TypeOK

\* A counted fault keeps the counter within its bound.
LEMMA FaultBound == ASSUME TypeOK, TimeoutFaults PROVE faults' \in 0 .. MaxFaults
  BY BoundsAssumption DEF TypeOK, TimeoutFaults, Fault

\* Setting some threads to a legal value keeps the type of help.
HelpValues == {"idle", "dropped", "queued", "preparing", "prepared", "unprepared",
               "inflight", "ok", "failed", "refused"}
LEMMA SetType ==
  ASSUME TypeOK, NEW tasks, NEW value \in HelpValues
  PROVE Set(tasks, value) \in [Tasks -> HelpValues]
  BY DEF TypeOK, Set, HelpValues

\* A thread that calls main_repair is of the right type.
LEMMA CallMainsType ==
  ASSUME TypeOK, NEW plans, CallMains(plans)
  PROVE /\ mainRpc' \in [Plans -> {"none", "dropped", "pending", "ok", "error"}]
        /\ main' \in [Plans -> {"off", "called", "listening", "written", "spoiled",
                                "crashed", "unbound"}]
  BY DEF TypeOK, CallMains

\* Every action keeps the variables in their sets.
LEMMA TypeStep == ASSUME TypeOK, Next PROVE TypeOK'
<1> USE DEF coordinator, calls, proxies
<1>1. ASSUME NEW s \in Stripes, PlanStripe(s) PROVE TypeOK'
  BY <1>1 DEF TypeOK, PlanStripe
<1>2. ASSUME NEW s \in Stripes, PlanFails(s) PROVE TypeOK'
  BY <1>2, FaultBound DEF TypeOK, PlanFails, TimeoutFaults
<1>3. ASSUME NEW s \in Stripes, SerialStripeDone(s) PROVE TypeOK'
  BY <1>3 DEF TypeOK, SerialStripeDone, PlansOf, Made
<1>4. ASSUME NEW s \in Stripes, LaunchStripe(s) PROVE TypeOK'
  BY <1>4, CallMainsType, SetType DEF TypeOK, LaunchStripe, HelpValues
<1>5. ASSUME NEW s \in Stripes, StripeReturns(s) PROVE TypeOK'
  BY <1>5 DEF TypeOK, StripeReturns, PlansOf, Made
<1>6. ASSUME NEW p \in Plans, LaunchPlan(p) PROVE TypeOK'
  BY <1>6, CallMainsType, SetType DEF TypeOK, LaunchPlan, HelpValues
<1>7. ASSUME NEW p \in Plans, MainListens(p) PROVE TypeOK'
  BY <1>7 DEF TypeOK, MainListens
<1>8. ASSUME NEW p \in Plans, MainUnbound(p) PROVE TypeOK'
  BY <1>8 DEF TypeOK, MainUnbound, MainAnswers
<1>9. ASSUME NEW p \in Plans, MainWrites(p) PROVE TypeOK'
  BY <1>9, FaultBound DEF TypeOK, MainWrites, MainAnswers, TimeoutFaults
<1>10. ASSUME NEW p \in Plans, MainGone(p) PROVE TypeOK'
  BY <1>10 DEF TypeOK, MainGone, MainAnswers
<1>11. ASSUME NEW p \in Plans, MainTimesOut(p), TimeoutFaults PROVE TypeOK'
  BY <1>11, FaultBound DEF TypeOK, MainTimesOut
<1>12. CASE Collect
  BY <1>12 DEF TypeOK, Collect
<1>13. CASE LaunchMains
  BY <1>13, CallMainsType DEF TypeOK, LaunchMains
<1>14. CASE CreateHelps
  BY <1>14, SetType DEF TypeOK, CreateHelps, HelpValues
<1>15. CASE PrepareFirst
  BY <1>15, SetType DEF TypeOK, PrepareFirst, HelpValues
<1>16. CASE WarmUp
  BY <1>16, FaultBound DEF TypeOK, WarmUp, TimeoutFaults
<1>17. CASE StartRound
  <2>1. help' \in [Tasks -> HelpValues]
    BY <1>17 DEF TypeOK, StartRound, HelpValues
  <2>2. round' \in 0 .. Len(Rounds)
    BY <1>17, RoundsAssumption DEF TypeOK, StartRound
  <2> QED BY <1>17, <2>1, <2>2 DEF TypeOK, StartRound, HelpValues
<1>18. CASE LeaveRounds
  BY <1>18 DEF TypeOK, LeaveRounds
<1>19. CASE FinishGlobal
  BY <1>19 DEF TypeOK, FinishGlobal, Made
<1>20. ASSUME NEW t \in Tasks, HelpStarts(t) PROVE TypeOK'
  BY <1>20 DEF TypeOK, HelpStarts
<1>21. ASSUME NEW t \in Tasks, HelpDelivers(t) PROVE TypeOK'
  <2>1. got' \in [Plans -> SUBSET Tasks]
    BY <1>21 DEF TypeOK, HelpDelivers, Bound
  <2> QED BY <1>21, <2>1 DEF TypeOK, HelpDelivers, HelpAnswers
<1>22. ASSUME NEW t \in Tasks, HelpRefused(t) PROVE TypeOK'
  BY <1>22 DEF TypeOK, HelpRefused, HelpAnswers
<1>23. ASSUME NEW t \in Tasks, HelpWithoutData(t) PROVE TypeOK'
  BY <1>23 DEF TypeOK, HelpWithoutData, HelpAnswers
<1>24. ASSUME NEW t \in Tasks, HelpGone(t) PROVE TypeOK'
  BY <1>24 DEF TypeOK, HelpGone, HelpAnswers
<1>25. ASSUME NEW t \in Tasks, Prepares(t) PROVE TypeOK'
  BY <1>25 DEF TypeOK, Prepares
<1>26. ASSUME NEW t \in Tasks, PrepareGone(t) PROVE TypeOK'
  BY <1>26 DEF TypeOK, PrepareGone
<1>27. ASSUME NEW t \in Tasks, HelpTimesOut(t), TimeoutFaults PROVE TypeOK'
  BY <1>27, FaultBound DEF TypeOK, HelpTimesOut
<1>28. ASSUME NEW t \in Tasks, PrepareTimesOut(t), TimeoutFaults PROVE TypeOK'
  BY <1>28, FaultBound DEF TypeOK, PrepareTimesOut
<1>29. ASSUME NEW c \in Clusters, ProxyExits(c) PROVE TypeOK'
  BY <1>29, FaultBound DEF TypeOK, ProxyExits, TimeoutFaults
<1>30. ASSUME NEW s \in Stripes, PlainStripeDone(s) PROVE TypeOK'
  BY <1>30 DEF TypeOK, PlainStripeDone, PlansOf, Made
<1>31. ASSUME NEW p \in Plans, LaunchPlain(p) PROVE TypeOK'
  BY <1>31, CallMainsType, SetType DEF TypeOK, LaunchPlain, HelpValues
<1>32. CASE PlainFails
  BY <1>32 DEF TypeOK, PlainFails
<1>33. ASSUME NEW s \in Stripes, PlanStripeInPart(s) PROVE TypeOK'
  BY <1>33, FaultBound, SetType
  DEF TypeOK, PlanStripeInPart, HelpValues, TimeoutFaults
<1>34. CASE LookAtFlag
  BY <1>34 DEF TypeOK, LookAtFlag
<1> QED
  BY NextCases, <1>1, <1>2, <1>3, <1>4, <1>5, <1>6, <1>7, <1>8, <1>9, <1>10,
     <1>11, <1>12, <1>13, <1>14, <1>15, <1>16, <1>17, <1>18, <1>19, <1>20,
     <1>21, <1>22, <1>23, <1>24, <1>25, <1>26, <1>27, <1>28, <1>29, <1>30,
     <1>31, <1>32, <1>33, <1>34

\* The variables keep to their sets: no thread is in a state the code does not
\* have, no round is past the schedule, no fault is past the bound.
THEOREM TypeCorrect == Spec => []TypeOK
<1>1. TypeOK /\ [Next]_vars => TypeOK'
  <2>1. CASE UNCHANGED vars
    BY <2>1 DEF TypeOK, vars, coordinator, calls, proxies
  <2> QED BY <2>1, TypeStep
<1> QED BY TypeInit, <1>1, PTL DEF Spec

----------------------------------------------------------------------------
(***************************************************************************)
(* The plain and the unordered repair are honest.  A stripe moves its      *)
(* blocks after its calls are joined and while stripe_ok (rpc_ok) holds;   *)
(* as long as it holds, every joined main_repair has answered ok, and it   *)
(* does so when it has come to its end.  HonestAnswers alone is not        *)
(* inductive: it does not know that a stripe whose blocks are moved never  *)
(* starts its mains again, nor that all stripes have returned when success *)
(* is answered.                                                            *)
(***************************************************************************)

\* An answer ok comes from a main that came to its end, and stripe_ok remembers
\* every other answer and every stripe that could not be planned.
AnswersInv ==
  /\ \A p \in Plans : mainRpc[p] = "ok" => Ended(p)
  /\ \A p \in Plans : mainRpc[p] = "error" => ~stripeOk
  /\ \A s \in Stripes : st[s] = "unplanned" => ~stripeOk

\* The blocks that are moved are those of stripes that returned in time.
Honest == mode \in {"plain", "unordered"}
MovedInv ==
  Honest =>
    /\ stage = "stripes"
    /\ \A p \in located : Ended(p) /\ st[StripeOf[p]] = "done"
    /\ \A p \in located : mainRpc[p] # "dropped"
    /\ stripeOk => \A p \in Made(Plans) : st[StripeOf[p]] = "done" => p \in located
    /\ response = "success" => located = Made(Plans)

\* The inductive invariant of the honest repairs.
HonestInv == TypeOK /\ AnswersInv /\ MovedInv

\* It holds when no stripe is planned yet.
LEMMA HonestInit == Init => HonestInv
  BY TypeInit, PlansAssumption
  DEF Init, HonestInv, AnswersInv, MovedInv, Honest, Made, TypeOK

\* A stripe returns: its calls are joined, so with stripe_ok all mains came to their end.
LEMMA StripeReturnsEnded ==
  ASSUME HonestInv, NEW s \in Stripes, StripeReturns(s), stripeOk,
         NEW p \in Made(PlansOf(s))
  PROVE Ended(p)
  BY DEF HonestInv, AnswersInv, StripeReturns, Joined, Answered, PlansOf, Made

\* The same for a stripe of the plain repair.
LEMMA PlainStripeEnded ==
  ASSUME HonestInv, NEW s \in Stripes, PlainStripeDone(s), 
         NEW p \in Made(PlansOf(s))
  PROVE Ended(p)
  BY DEF HonestInv, AnswersInv, PlainStripeDone, Joined, Answered, PlansOf, Made

\* Success is answered when every stripe has returned, so with stripe_ok all
\* plans that were made are located.
LEMMA CollectLocated ==
  ASSUME HonestInv, Honest, Collect, response' = "success"
  PROVE located = Made(Plans)
  <1>1. stripeOk
    BY DEF Collect, StripesReturned, Honest, Global, HonestInv, MovedInv
  <1>2. \A s \in Stripes : st[s] = "done"
    BY <1>1 DEF Collect, StripesReturned, Honest, Global, HonestInv, AnswersInv, TypeOK
  <1> QED
    BY <1>1, <1>2, PlansAssumption DEF HonestInv, MovedInv, Made, TypeOK

\* The answer of a main drops no plan and brings none back.
LEMMA AnswersDropNothing ==
  ASSUME TypeOK, NEW p \in Plans, NEW answer \in {"ok", "error"}, MainAnswers(p, answer)
  PROVE /\ \A q \in Plans : mainRpc'[q] = "dropped" <=> mainRpc[q] = "dropped"
        /\ Made(Plans)' = Made(Plans)
<1>1. \A q \in Plans : mainRpc'[q] = "dropped" <=> mainRpc[q] = "dropped"
  BY DEF TypeOK, MainAnswers
<1> QED BY <1>1 DEF Made

\* Every action keeps it; those that move blocks do so with their calls joined.
LEMMA HonestStep == ASSUME HonestInv, Next PROVE HonestInv'
<1> USE DEF HonestInv, Honest, coordinator, calls, proxies
<1>0. TypeOK'
  BY TypeStep
<1>1. ASSUME NEW s \in Stripes, PlanStripe(s) PROVE AnswersInv' /\ MovedInv'
  BY <1>1, PlansAssumption
  DEF AnswersInv, MovedInv, Made, TypeOK, PlanStripe, MayPlan, Ended
<1>2. ASSUME NEW s \in Stripes, PlanFails(s) PROVE AnswersInv' /\ MovedInv'
  BY <1>2, PlansAssumption
  DEF AnswersInv, MovedInv, Made, TypeOK, PlanFails, MayPlan, Ended
<1>3. ASSUME NEW s \in Stripes, SerialStripeDone(s) PROVE AnswersInv' /\ MovedInv'
  BY <1>3 DEF AnswersInv, MovedInv, Made, TypeOK, SerialStripeDone, Ended
<1>4. ASSUME NEW s \in Stripes, LaunchStripe(s) PROVE AnswersInv' /\ MovedInv'
  BY <1>4 DEF AnswersInv, MovedInv, Made, TypeOK, LaunchStripe, Ended, CallMains, PlansOf
<1>5. ASSUME NEW s \in Stripes, StripeReturns(s) PROVE AnswersInv' /\ MovedInv'
  <2>1. AnswersInv'
    BY <1>5 DEF AnswersInv, TypeOK, StripeReturns, Ended
  <2>2. /\ mode = "unordered"
        /\ UNCHANGED <<main, mainRpc, mode, stage, response, stripeOk>>
        /\ located' = IF stripeOk THEN located \cup Made(PlansOf(s)) ELSE located
    BY <1>5 DEF StripeReturns
  <2>3. \A p \in Plans : st'[StripeOf[p]] = "done" <=>
          st[StripeOf[p]] = "done" \/ p \in PlansOf(s)
    BY <1>5, PlansAssumption DEF StripeReturns, TypeOK, PlansOf
  <2>4. /\ \A p \in Made(PlansOf(s)) : p \in PlansOf(s) /\ p \in Made(Plans)
        /\ \A p \in PlansOf(s) : p \in Made(Plans) => p \in Made(PlansOf(s))
        /\ located \subseteq Made(Plans) /\ Made(Plans)' = Made(Plans)
        /\ PlansOf(s) \subseteq Plans /\ Made(Plans) \subseteq Plans
    BY <2>2 DEF PlansOf, Made, MovedInv, TypeOK
  <2>5. stripeOk => \A p \in Made(PlansOf(s)) : Ended(p)
    BY <1>5, StripeReturnsEnded
  <2>6. \A p \in located' : Ended(p)' /\ st'[StripeOf[p]] = "done"
    BY <2>2, <2>3, <2>4, <2>5 DEF MovedInv, Ended
  <2>7. stripeOk' => \A p \in Made(Plans) : st'[StripeOf[p]] = "done" => p \in located'
    BY <2>2, <2>3, <2>4 DEF MovedInv
  <2>8. response' = "success" => located' = Made(Plans)
    BY <2>2, <2>4 DEF MovedInv
  <2>9. \A p \in located' : mainRpc'[p] # "dropped"
    BY <2>2 DEF MovedInv, Made
  <2> QED BY <2>1, <2>2, <2>4, <2>6, <2>7, <2>8, <2>9 DEF MovedInv
<1>6. ASSUME NEW p \in Plans, LaunchPlan(p) PROVE AnswersInv' /\ MovedInv'
  BY <1>6 DEF AnswersInv, MovedInv, Made, TypeOK, LaunchPlan, Ended, CallMains
<1>7. ASSUME NEW p \in Plans, MainListens(p) PROVE AnswersInv' /\ MovedInv'
  BY <1>7 DEF AnswersInv, MovedInv, Made, TypeOK, MainListens, Ended
<1>8. ASSUME NEW p \in Plans, MainUnbound(p) PROVE AnswersInv' /\ MovedInv'
  <2>1. AnswersInv'
    BY <1>8 DEF AnswersInv, TypeOK, MainUnbound, Ended, MainAnswers
  <2>2. /\ \A q \in Plans : mainRpc'[q] = "dropped" <=> mainRpc[q] = "dropped"
        /\ Made(Plans)' = Made(Plans) /\ located \subseteq Plans
    BY <1>8, AnswersDropNothing DEF MainUnbound, TypeOK
  <2>3. /\ UNCHANGED <<mode, stage, st, located, response>> /\ (stripeOk' => stripeOk)
        /\ \A q \in Plans : Ended(q) => Ended(q)'
    BY <1>8 DEF MainUnbound, MainAnswers, Ended, TypeOK
  <2>4. MovedInv'
    BY <2>2, <2>3 DEF MovedInv
  <2> QED BY <2>1, <2>4
<1>9. ASSUME NEW p \in Plans, MainWrites(p) PROVE AnswersInv' /\ MovedInv'
  <2>1. AnswersInv'
    BY <1>9 DEF AnswersInv, TypeOK, MainWrites, Ended, MainAnswers
  <2>2. /\ \A q \in Plans : mainRpc'[q] = "dropped" <=> mainRpc[q] = "dropped"
        /\ Made(Plans)' = Made(Plans) /\ located \subseteq Plans
    BY <1>9, AnswersDropNothing DEF MainWrites, TypeOK
  <2>3. /\ UNCHANGED <<mode, stage, st, located, response>> /\ (stripeOk' => stripeOk)
        /\ \A q \in Plans : Ended(q) => Ended(q)'
    BY <1>9 DEF MainWrites, MainAnswers, Ended, TypeOK
  <2>4. MovedInv'
    BY <2>2, <2>3 DEF MovedInv
  <2> QED BY <2>1, <2>4
<1>10. ASSUME NEW p \in Plans, MainGone(p) PROVE AnswersInv' /\ MovedInv'
  <2>1. AnswersInv'
    BY <1>10 DEF AnswersInv, TypeOK, MainGone, Ended, MainAnswers
  <2>2. /\ \A q \in Plans : mainRpc'[q] = "dropped" <=> mainRpc[q] = "dropped"
        /\ Made(Plans)' = Made(Plans) /\ located \subseteq Plans
    BY <1>10, AnswersDropNothing DEF MainGone, TypeOK
  <2>3. /\ UNCHANGED <<mode, stage, st, located, response>> /\ (stripeOk' => stripeOk)
        /\ \A q \in Plans : Ended(q) => Ended(q)'
    BY <1>10 DEF MainGone, MainAnswers, Ended, TypeOK
  <2>4. MovedInv'
    BY <2>2, <2>3 DEF MovedInv
  <2> QED BY <2>1, <2>4
<1>11. ASSUME NEW p \in Plans, MainTimesOut(p) PROVE AnswersInv' /\ MovedInv'
  BY <1>11 DEF AnswersInv, MovedInv, Made, TypeOK, MainTimesOut, Ended
<1>12. CASE Collect
  <2>1. AnswersInv'
    BY <1>12 DEF AnswersInv, Collect, Ended
  <2>2. MovedInv'
    BY <1>12, CollectLocated DEF MovedInv, Made, Collect, Ended
  <2> QED BY <2>1, <2>2, <1>0
<1>13. CASE LaunchMains
  BY <1>0, <1>13 DEF AnswersInv, MovedInv, Made, TypeOK, LaunchMains, Ended, CallMains, Global
<1>14. CASE CreateHelps
  BY <1>0, <1>14 DEF AnswersInv, MovedInv, Made, TypeOK, CreateHelps, Ended
<1>15. CASE PrepareFirst
  BY <1>0, <1>15 DEF AnswersInv, MovedInv, Made, TypeOK, PrepareFirst, Ended
<1>16. CASE WarmUp
  BY <1>0, <1>16 DEF AnswersInv, MovedInv, Made, TypeOK, WarmUp, Ended
<1>17. CASE StartRound
  BY <1>0, <1>17 DEF AnswersInv, MovedInv, Made, TypeOK, StartRound, Ended
<1>18. CASE LeaveRounds
  BY <1>0, <1>18 DEF AnswersInv, MovedInv, Made, TypeOK, LeaveRounds, Ended
<1>19. CASE FinishGlobal
  BY <1>0, <1>19 DEF AnswersInv, MovedInv, Made, TypeOK, FinishGlobal, Ended
<1>20. ASSUME NEW t \in Tasks, HelpStarts(t) PROVE AnswersInv' /\ MovedInv'
  BY <1>20 DEF AnswersInv, MovedInv, Made, TypeOK, HelpStarts, Ended
<1>21. ASSUME NEW t \in Tasks, HelpDelivers(t) PROVE AnswersInv' /\ MovedInv'
  BY <1>21 DEF AnswersInv, MovedInv, Made, TypeOK, HelpDelivers, Ended, HelpAnswers
<1>22. ASSUME NEW t \in Tasks, HelpRefused(t) PROVE AnswersInv' /\ MovedInv'
  BY <1>22 DEF AnswersInv, MovedInv, Made, TypeOK, HelpRefused, Ended, HelpAnswers
<1>23. ASSUME NEW t \in Tasks, HelpWithoutData(t) PROVE AnswersInv' /\ MovedInv'
  BY <1>23 DEF AnswersInv, MovedInv, Made, TypeOK, HelpWithoutData, Ended, HelpAnswers
<1>24. ASSUME NEW t \in Tasks, HelpGone(t) PROVE AnswersInv' /\ MovedInv'
  BY <1>24 DEF AnswersInv, MovedInv, Made, TypeOK, HelpGone, Ended, HelpAnswers
<1>25. ASSUME NEW t \in Tasks, Prepares(t) PROVE AnswersInv' /\ MovedInv'
  BY <1>25 DEF AnswersInv, MovedInv, Made, TypeOK, Prepares, Ended
<1>26. ASSUME NEW t \in Tasks, PrepareGone(t) PROVE AnswersInv' /\ MovedInv'
  BY <1>26 DEF AnswersInv, MovedInv, Made, TypeOK, PrepareGone, Ended
<1>27. ASSUME NEW t \in Tasks, HelpTimesOut(t) PROVE AnswersInv' /\ MovedInv'
  BY <1>27 DEF AnswersInv, MovedInv, Made, TypeOK, HelpTimesOut, Ended
<1>28. ASSUME NEW t \in Tasks, PrepareTimesOut(t) PROVE AnswersInv' /\ MovedInv'
  BY <1>28 DEF AnswersInv, MovedInv, Made, TypeOK, PrepareTimesOut, Ended
<1>29. ASSUME NEW c \in Clusters, ProxyExits(c) PROVE AnswersInv' /\ MovedInv'
  BY <1>29 DEF AnswersInv, MovedInv, Made, TypeOK, ProxyExits, Ended
<1>30. ASSUME NEW s \in Stripes, PlainStripeDone(s) PROVE AnswersInv' /\ MovedInv'
  <2>1. AnswersInv'
    BY <1>30 DEF AnswersInv, TypeOK, PlainStripeDone, Ended
  <2>2. /\ UNCHANGED <<main, mainRpc, mode, stage, response, stripeOk>>
        /\ mode = "plain" /\ located' = located \cup Made(PlansOf(s))
    BY <1>30 DEF PlainStripeDone
  <2>3. \A p \in Plans : st'[StripeOf[p]] = "done" <=>
          st[StripeOf[p]] = "done" \/ p \in PlansOf(s)
    BY <1>30, PlansAssumption DEF PlainStripeDone, TypeOK, PlansOf
  <2>4. /\ \A p \in Made(PlansOf(s)) : p \in PlansOf(s) /\ p \in Made(Plans)
        /\ \A p \in PlansOf(s) : p \in Made(Plans) => p \in Made(PlansOf(s))
        /\ located \subseteq Made(Plans) /\ Made(Plans)' = Made(Plans)
        /\ PlansOf(s) \subseteq Plans /\ Made(Plans) \subseteq Plans
    BY <2>2 DEF PlansOf, Made, MovedInv, TypeOK
  <2>5. \A p \in Made(PlansOf(s)) : Ended(p)
    BY <1>30, PlainStripeEnded
  <2>6. \A p \in located' : Ended(p)' /\ st'[StripeOf[p]] = "done"
    BY <2>2, <2>3, <2>4, <2>5 DEF MovedInv, Ended
  <2>7. stripeOk' => \A p \in Made(Plans) : st'[StripeOf[p]] = "done" => p \in located'
    BY <2>2, <2>3, <2>4 DEF MovedInv
  <2>8. response' = "success" => located' = Made(Plans)
    BY <2>2, <2>4 DEF MovedInv
  <2>9. \A p \in located' : mainRpc'[p] # "dropped"
    BY <2>2 DEF MovedInv, Made
  <2> QED BY <2>1, <2>2, <2>4, <2>6, <2>7, <2>8, <2>9 DEF MovedInv
<1>31. ASSUME NEW p \in Plans, LaunchPlain(p) PROVE AnswersInv' /\ MovedInv'
  BY <1>31 DEF AnswersInv, MovedInv, Made, TypeOK, LaunchPlain, Ended, CallMains
<1>32. CASE PlainFails
  BY <1>32 DEF AnswersInv, MovedInv, Made, TypeOK, PlainFails, Ended
<1>33. ASSUME NEW s \in Stripes, PlanStripeInPart(s) PROVE AnswersInv' /\ MovedInv'
  <2>1. PICK first \in PlansOf(s) : mainRpc' =
          [p \in Plans |-> IF p \in PlansOf(s) /\ p >= first THEN "dropped" ELSE mainRpc[p]]
    BY <1>33 DEF PlanStripeInPart
  <2>2. /\ UNCHANGED <<main, mode, stage, response, stripeOk, located>>
        /\ response = "none" /\ st[s] = "todo" /\ st' = [st EXCEPT ![s] = "planned"]
    BY <1>33 DEF PlanStripeInPart, MayPlan
  <2>3. \A p \in Plans : mainRpc'[p] = "dropped" \/ mainRpc'[p] = mainRpc[p]
    BY <2>1
  <2>4. AnswersInv'
    BY <2>2, <2>3 DEF AnswersInv, Ended, TypeOK
  <2>5. \A p \in Plans : st'[StripeOf[p]] = "done" <=> st[StripeOf[p]] = "done"
    BY <2>2, PlansAssumption DEF TypeOK
  <2>6. ASSUME NEW p \in located, Honest PROVE mainRpc'[p] # "dropped"
    <3>1. p \in Plans /\ st[StripeOf[p]] = "done" /\ mainRpc[p] # "dropped"
      BY <2>6 DEF MovedInv, TypeOK
    <3>2. p \notin PlansOf(s)
      BY <3>1, <2>2 DEF PlansOf
    <3> QED BY <2>1, <3>1, <3>2
  <2>7. Made(Plans)' \subseteq Made(Plans)
    BY <2>3 DEF Made
  <2> QED BY <2>2, <2>4, <2>5, <2>6, <2>7 DEF MovedInv, Ended, Made, TypeOK
<1>34. CASE LookAtFlag
  BY <1>0, <1>34 DEF AnswersInv, MovedInv, Made, TypeOK, LookAtFlag, Ended
<1> QED
  BY NextCases, <1>0, <1>1, <1>2, <1>3, <1>4, <1>5, <1>6, <1>7, <1>8, <1>9, <1>10,
     <1>11, <1>12, <1>13, <1>14, <1>15, <1>16, <1>17, <1>18, <1>19, <1>20, <1>21,
     <1>22, <1>23, <1>24, <1>25, <1>26, <1>27, <1>28, <1>29, <1>30, <1>31, <1>32,
     <1>33, <1>34

\* Hence it holds always.
LEMMA HonestInvariant == Spec => []HonestInv
<1>1. HonestInv /\ [Next]_vars => HonestInv'
  <2>1. CASE UNCHANGED vars
    BY <2>1 DEF HonestInv, TypeOK, AnswersInv, MovedInv, Made, Honest, Ended, vars,
                coordinator, calls, proxies
  <2> QED BY <2>1, HonestStep
<1> QED BY HonestInit, <1>1, PTL DEF Spec

\* The plain and the unordered repair move a block in the metadata only after its
\* main came to its end, and answer success only when the blocks of all plans that
\* were made are moved, with any number of faults.
THEOREM RepairIsHonest == Spec => []HonestAnswers
<1>1. HonestInv => HonestAnswers
  BY DEF HonestInv, MovedInv, Honest, HonestAnswers
<1> QED BY HonestInvariant, <1>1, PTL

----------------------------------------------------------------------------
(***************************************************************************)
(* The rounds of the join repair.  A send belongs to the round that was    *)
(* started last, because the sends of a round are joined before the next   *)
(* one starts; and its payload is there, because the preparations are      *)
(* joined at the same point, a preparation or a send that failed has       *)
(* cleared stripe_ok before the look at it, and no other send takes a      *)
(* payload away.  What the look has seen of the helps holds still when the *)
(* round starts (ReadyInv), although stripe_ok itself may not.  For the    *)
(* last step the invariant follows every task from "idle" on: tasks of     *)
(* later rounds have not been sent, and a help that was given up is over.  *)
(***************************************************************************)

\* The counter starts with the first round.
CounterInv ==
  /\ stage \in {"stripes", "mains", "prepare"} => round = 0
  /\ stage \in {"prepare", "ready", "rounds"} => mode = "join"

\* Where the tasks of this round and of the later ones stand.
TaskInv ==
  /\ \A t \in Tasks : help[t] # "queued"
  /\ \A t \in InFlight : t \in RoundTasks(round)
  /\ \A q \in DOMAIN Rounds : q > round =>
       \A t \in Rounds[q] :
         help[t] \in {"idle", "dropped", "preparing", "prepared", "unprepared"}
  /\ \A q \in DOMAIN Rounds : q < round => \A t \in Rounds[q] : Over(t)
  /\ \A t \in orphans : Over(t)

\* What is known of the payloads.
PayloadInv ==
  /\ \A t \in Tasks : help[t] \in {"failed", "refused", "unprepared"} => ~stripeOk
  /\ \A t \in Tasks : help[t] = "prepared" => t \in payload \/ HelperOf[t] \in down
  /\ round # 1 => \A t \in InFlight : t \in payload \/ HelperOf[t] \in down

\* What the start of a round relies on: the threads of the round before are over,
\* and from the second round on they ended well.
ReadyInv ==
  stage = "ready" =>
    /\ \A t \in RoundTasks(round) : Over(t)
    /\ round > 0 =>
         /\ \A q \in DOMAIN Rounds : q <= round =>
              \A t \in Rounds[q] : help[t] \in {"ok", "dropped"}
         /\ \A t \in RoundTasks(round + 1) : help[t] \in {"prepared", "dropped"}

\* Only the join repair has rounds.
JoinInv == mode = "join" => TaskInv /\ PayloadInv /\ ReadyInv

\* The inductive invariant of the rounds.
RoundsInv == TypeOK /\ CounterInv /\ JoinInv

\* No round has started in the beginning.
LEMMA RoundsInit == Init => RoundsInv
  BY TypeInit, RoundsAssumption
  DEF Init, RoundsInv, CounterInv, JoinInv, TaskInv, PayloadInv, ReadyInv, InFlight, TypeOK

\* A task is in one round only.
LEMMA RoundsAreDisjoint ==
  ASSUME NEW q, NEW r, NEW t \in RoundTasks(q), t \in RoundTasks(r) PROVE q = r
  BY RoundsAssumption DEF RoundTasks

\* When a round starts, no send is in flight any more.
LEMMA NothingInFlight ==
  ASSUME RoundsInv, mode = "join", StartRound PROVE InFlight = {}
  BY DEF RoundsInv, JoinInv, TaskInv, ReadyInv, Over, InFlight, StartRound

\* What StartRound does to the threads, without the CASE expression.
LEMMA StartRoundHelp ==
  ASSUME TypeOK, StartRound, NEW t \in Tasks
  PROVE /\ t \in Due(round + 1) => help'[t] = "inflight"
        /\ t \in Due(round + 2) => help'[t] = "preparing"
        /\ t \notin Due(round + 1) \cup Due(round + 2) => help'[t] = help[t]
  <1>1. help'[t] = CASE t \in Due(round + 1) -> "inflight"
                     [] t \in Due(round + 2) -> "preparing"
                     [] OTHER                -> help[t]
    BY DEF StartRound
  <1>2. ~(t \in Due(round + 1) /\ t \in Due(round + 2))
    BY RoundsAreDisjoint DEF TypeOK, Due
  <1> QED BY <1>1, <1>2

\* The step from one round to the next, in the join repair.
LEMMA StartRoundInv ==
  ASSUME RoundsInv, mode = "join", StartRound PROVE TaskInv' /\ PayloadInv' /\ ReadyInv'
<1> USE DEF calls, coordinator, proxies
<1>0. /\ round \in Nat /\ round' = round + 1 /\ round < Len(Rounds)
      /\ stage = "ready" /\ stage' = "rounds"
      /\ UNCHANGED <<stripeOk, payload, down, orphans>>
  BY RoundsAssumption DEF RoundsInv, TypeOK, StartRound
<1>1. \A t \in Tasks : help'[t] = "inflight" => t \in Due(round + 1)
  BY NothingInFlight, StartRoundHelp DEF RoundsInv, InFlight
<1>2. \A t \in Tasks : help'[t] # "queued"
  BY StartRoundHelp DEF RoundsInv, JoinInv, TaskInv
<1>3. \A t \in InFlight' : t \in RoundTasks(round')
  BY <1>0, <1>1 DEF InFlight, Due
<1>4. ASSUME NEW q \in DOMAIN Rounds, q > round + 1, NEW t \in Rounds[q]
      PROVE help'[t] \in {"idle", "dropped", "preparing", "prepared", "unprepared"}
  <2>1. t \in RoundTasks(q) /\ t \in Tasks /\ q \in Nat
    BY <1>4, RoundTasksAreTasks, RoundsAssumption DEF RoundTasks
  <2>2. t \notin Due(round + 1)
    BY <1>0, <1>4, <2>1, RoundsAreDisjoint DEF Due
  <2>3. help[t] \in {"idle", "dropped", "preparing", "prepared", "unprepared"}
    BY <1>0, <1>4, <2>1 DEF RoundsInv, JoinInv, TaskInv
  <2> QED BY <2>1, <2>2, <2>3, StartRoundHelp DEF RoundsInv
<1>5. \A r \in {round + 1, round + 2} : \A t \in Due(r) : ~Over(t)
  BY <1>0 DEF RoundsInv, JoinInv, TaskInv, RoundTasks, Due, Over
<1>6. \A t \in Tasks : Over(t) => help'[t] = help[t]
  BY <1>5, StartRoundHelp DEF RoundsInv
<1>7. \A t \in orphans' : Over(t)'
  <2>1. \A t \in orphans : t \in Tasks /\ Over(t)
    BY DEF RoundsInv, TypeOK, JoinInv, TaskInv
  <2> QED BY <1>0, <1>6, <2>1 DEF Over
<1>8. ASSUME NEW q \in DOMAIN Rounds, q < round', NEW t \in Rounds[q] PROVE Over(t)'
  <2>1. t \in Tasks /\ q \in Nat /\ (q = round => t \in RoundTasks(round))
    BY RoundsAssumption DEF RoundTasks
  <2>2. Over(t)
    <3>1. CASE q < round
      BY <1>0, <3>1, <2>1, <1>8 DEF RoundsInv, JoinInv, TaskInv
    <3>2. CASE q = round
      BY <1>0, <3>2, <2>1, <1>8 DEF RoundsInv, JoinInv, ReadyInv
    <3> QED BY <1>0, <1>8, <2>1, <3>1, <3>2
  <2> QED BY <1>6, <2>1, <2>2 DEF Over
<1>9. \A t \in Tasks : help'[t] \in {"failed", "refused", "unprepared"} => ~stripeOk'
  BY <1>0, StartRoundHelp DEF RoundsInv, JoinInv, PayloadInv
<1>10. \A t \in Tasks : help'[t] = "prepared" => t \in payload' \/ HelperOf[t] \in down'
  BY <1>0, StartRoundHelp DEF RoundsInv, JoinInv, PayloadInv
<1>11. ASSUME round' # 1, NEW t \in InFlight' PROVE t \in payload' \/ HelperOf[t] \in down'
  <2>1. t \in Tasks /\ t \in Due(round + 1) /\ round > 0
    BY <1>0, <1>1, <1>11 DEF InFlight
  <2>2. help[t] = "prepared"
    BY <2>1, <1>0 DEF RoundsInv, JoinInv, ReadyInv, Due
  <2> QED BY <1>0, <2>1, <2>2 DEF RoundsInv, JoinInv, PayloadInv
<1>12. TaskInv'
  BY <1>0, <1>2, <1>3, <1>4, <1>7, <1>8 DEF TaskInv
<1>13. PayloadInv'
  BY <1>9, <1>10, <1>11 DEF PayloadInv
<1> QED
  BY <1>0, <1>12, <1>13 DEF ReadyInv

\* When the threads of a round and of the preparation of the next one are joined and
\* stripe_ok holds, all have ended well.
LEMMA LookInv ==
  ASSUME RoundsInv, mode = "join", LookAtFlag PROVE ReadyInv'
<1> USE DEF calls, coordinator, proxies
<1>1. /\ UNCHANGED <<round, help>> /\ (stage' = "ready" => stripeOk) /\ RoundJoined
  BY DEF LookAtFlag
<1> SUFFICES ASSUME stripeOk PROVE ReadyInv'
  BY <1>1 DEF ReadyInv
<1>2. \A t \in Tasks : help[t] \notin {"failed", "refused", "unprepared"}
  BY DEF RoundsInv, JoinInv, PayloadInv
<1>3. /\ \A t \in RoundTasks(round) : help[t] \in {"ok", "dropped"}
      /\ \A t \in RoundTasks(round + 1) : help[t] \in {"prepared", "dropped"}
  BY <1>1, <1>2, RoundTasksAreTasks DEF RoundJoined, HelpsOver, PrepareOver, Over
<1>4. ASSUME NEW q \in DOMAIN Rounds, q <= round, NEW t \in Rounds[q]
      PROVE  help[t] \in {"ok", "dropped"}
  <2>1. q \in Nat /\ round \in Nat /\ t \in Tasks
    BY RoundsAssumption DEF RoundsInv, TypeOK
  <2>2. CASE q < round
    BY <1>2, <1>4, <2>1, <2>2 DEF RoundsInv, JoinInv, TaskInv, Over
  <2>3. CASE q = round
    BY <1>3, <1>4, <2>3 DEF RoundTasks
  <2> QED BY <1>4, <2>1, <2>2, <2>3
<1> QED
  BY <1>1, <1>3, <1>4 DEF ReadyInv, Over

\* A help that ends was in flight or given up; it takes its own payload at most.
LEMMA AnswerInv ==
  ASSUME RoundsInv, mode = "join", NEW t \in Tasks, help[t] = "inflight" \/ t \in orphans,
         NEW outcome \in {"ok", "failed", "refused"}, HelpAnswers(t, outcome),
         payload \ {t} \subseteq payload', UNCHANGED <<stage, round, down>>
  PROVE TaskInv' /\ PayloadInv' /\ ReadyInv'
<1>1. /\ TaskInv /\ PayloadInv /\ ReadyInv /\ help \in [Tasks -> HelpValues]
      /\ orphans \subseteq Tasks
  BY DEF RoundsInv, JoinInv, TypeOK, HelpValues
<1>2. /\ orphans' = orphans \ {t} /\ (stripeOk' => stripeOk)
      /\ \A u \in Tasks : help'[u] = help[u]
            \/ (u = t /\ help[u] = "inflight" /\ help'[u] = outcome /\ (stripeOk' => outcome = "ok"))
  BY <1>1 DEF HelpAnswers
<1>3. Over(t)' /\ \A u \in Tasks : Over(u) => Over(u)' /\ help'[u] = help[u]
  BY <1>1, <1>2 DEF TaskInv, HelpAnswers, Over
<1>4. TaskInv'
  <2>1. \A q \in DOMAIN Rounds : Rounds[q] \subseteq Tasks
    BY RoundsAssumption
  <2> QED BY <1>1, <1>2, <1>3, <2>1 DEF TaskInv, InFlight
<1>5. PayloadInv'
  <2>1. \A u \in Tasks : help'[u] \in {"failed", "refused", "unprepared"} => ~stripeOk'
    BY <1>1, <1>2 DEF PayloadInv
  <2>2. ASSUME NEW u \in Tasks, help'[u] \in {"prepared", "inflight"}
        PROVE  help[u] = help'[u] /\ (u \in payload => u \in payload')
    BY <1>2, <1>3, <2>2 DEF Over
  <2> QED BY <1>1, <2>1, <2>2 DEF PayloadInv, InFlight
<1>6. ReadyInv'
  <2>1. \A q \in DOMAIN Rounds : Rounds[q] \subseteq Tasks
    BY RoundsAssumption
  <2>2. \A u \in Tasks : help[u] \in {"ok", "dropped", "prepared"} => help'[u] = help[u]
    BY <1>2
  <2> QED BY <1>1, <1>3, <2>1, <2>2, RoundTasksAreTasks DEF ReadyInv
<1> QED BY <1>4, <1>5, <1>6

\* Every action keeps it; only the start of a round moves tasks from one to the next.
LEMMA RoundsStep == ASSUME RoundsInv, Next PROVE RoundsInv'
<1> USE DEF RoundsInv, coordinator, calls, proxies
<1>0. TypeOK'
  BY TypeStep
<1>1. ASSUME NEW s \in Stripes, PlanStripe(s) PROVE CounterInv' /\ JoinInv'
  BY <1>1 DEF PlanStripe, CounterInv, JoinInv, TaskInv, PayloadInv, ReadyInv, InFlight, Over, TypeOK
<1>2. ASSUME NEW s \in Stripes, PlanFails(s) PROVE CounterInv' /\ JoinInv'
  BY <1>2 DEF PlanFails, CounterInv, JoinInv, TaskInv, PayloadInv, ReadyInv, InFlight, Over, TypeOK
<1>3. ASSUME NEW s \in Stripes, SerialStripeDone(s) PROVE CounterInv' /\ JoinInv'
  BY <1>3 DEF SerialStripeDone, CounterInv, JoinInv, TaskInv, PayloadInv, ReadyInv, InFlight, Over, TypeOK
<1>4. ASSUME NEW s \in Stripes, LaunchStripe(s) PROVE CounterInv' /\ JoinInv'
  BY <1>4 DEF LaunchStripe, CounterInv, JoinInv
<1>5. ASSUME NEW s \in Stripes, StripeReturns(s) PROVE CounterInv' /\ JoinInv'
  BY <1>5 DEF StripeReturns, CounterInv, JoinInv
<1>6. ASSUME NEW p \in Plans, LaunchPlan(p) PROVE CounterInv' /\ JoinInv'
  BY <1>6 DEF LaunchPlan, CounterInv, JoinInv
<1>7. ASSUME NEW p \in Plans, MainListens(p) PROVE CounterInv' /\ JoinInv'
  BY <1>7 DEF MainListens, CounterInv, JoinInv, TaskInv, PayloadInv, ReadyInv, InFlight, Over, TypeOK
<1>8. ASSUME NEW p \in Plans, MainUnbound(p) PROVE CounterInv' /\ JoinInv'
  BY <1>8 DEF MainUnbound, MainAnswers, CounterInv, JoinInv, TaskInv, PayloadInv, ReadyInv,
     InFlight, Over, TypeOK
<1>9. ASSUME NEW p \in Plans, MainWrites(p) PROVE CounterInv' /\ JoinInv'
  BY <1>9 DEF MainWrites, MainAnswers, CounterInv, JoinInv, TaskInv, PayloadInv, ReadyInv,
     InFlight, Over, TypeOK
<1>10. ASSUME NEW p \in Plans, MainGone(p) PROVE CounterInv' /\ JoinInv'
  BY <1>10 DEF MainGone, MainAnswers, CounterInv, JoinInv, TaskInv, PayloadInv, ReadyInv,
     InFlight, Over, TypeOK
<1>11. ASSUME NEW p \in Plans, MainTimesOut(p) PROVE CounterInv' /\ JoinInv'
  BY <1>11 DEF MainTimesOut, CounterInv, JoinInv, TaskInv, PayloadInv, ReadyInv, InFlight, Over, TypeOK
<1>12. CASE Collect
  BY <1>0, <1>12 DEF Collect, CounterInv, JoinInv, TaskInv, PayloadInv, ReadyInv, InFlight, Over, TypeOK
<1>13. CASE LaunchMains
  BY <1>0, <1>13 DEF LaunchMains, StripesReturned, CallMains, CounterInv, JoinInv,
     TaskInv, PayloadInv, ReadyInv, InFlight, Over, TypeOK
<1>14. CASE CreateHelps
  BY <1>0, <1>14 DEF CreateHelps, CounterInv, JoinInv
<1>15. CASE PrepareFirst
  <2>1. round = 0 /\ mode = "join" /\ UNCHANGED <<round, mode, orphans, payload, down, stripeOk>>
    BY <1>15 DEF PrepareFirst, CounterInv
  <2>2. \A t \in Tasks : t \notin RoundTasks(0)
    BY RoundsAssumption DEF RoundTasks
  <2>3. \A t \in Due(1) : t \in Tasks /\ ~Over(t)
    BY <2>1, RoundTasksAreTasks DEF JoinInv, TaskInv, RoundTasks, Due, Over
  <2>4. \A t \in Tasks : help'[t] = IF t \in Due(1) THEN "preparing" ELSE help[t]
    BY <1>15 DEF PrepareFirst, Set
  <2>5. TaskInv'
    <3>1. TaskInv
      BY <2>1 DEF JoinInv
    <3>2. \A t \in Tasks : help'[t] \notin {"queued", "inflight"}
      BY <3>1, <2>1, <2>2, <2>4 DEF TaskInv, InFlight
    <3>3. \A q \in DOMAIN Rounds : q > round' =>
            \A t \in Rounds[q] :
              help'[t] \in {"idle", "dropped", "preparing", "prepared", "unprepared"}
      BY <3>1, <2>1, <2>4, RoundsAssumption DEF TaskInv
    <3>4. \A t \in orphans' : Over(t)'
      <4>1. \A t \in orphans : t \in Tasks /\ Over(t)
        BY <3>1 DEF TaskInv, TypeOK
      <4>2. \A t \in orphans : help'[t] = help[t]
        BY <4>1, <2>3, <2>4
      <4> QED BY <4>1, <4>2, <2>1 DEF Over
    <3>5. \A q \in DOMAIN Rounds : ~(q < round')
      BY <2>1, RoundsAssumption
    <3> QED BY <3>2, <3>3, <3>4, <3>5 DEF TaskInv, InFlight
  <2>6. PayloadInv'
    BY <2>1, <2>2, <2>4 DEF JoinInv, TaskInv, PayloadInv, ReadyInv, InFlight
  <2>7. ReadyInv'
    BY <1>15 DEF PrepareFirst, ReadyInv
  <2> QED BY <1>0, <2>1, <2>5, <2>6, <2>7 DEF CounterInv, JoinInv
<1>16. CASE WarmUp
  <2>1. /\ round = 0 /\ UNCHANGED <<mode, round, help, payload, down, orphans>>
        /\ stage = "prepare" /\ stage' = "ready" /\ (stripeOk' => stripeOk)
    BY <1>16 DEF WarmUp, CounterInv
  <2>2. TaskInv /\ PayloadInv => TaskInv' /\ PayloadInv'
    BY <2>1 DEF TaskInv, PayloadInv, InFlight, Over
  <2>3. ReadyInv' /\ CounterInv'
    BY <2>1, RoundsAssumption DEF ReadyInv, CounterInv, RoundTasks
  <2> QED BY <1>0, <2>1, <2>2, <2>3 DEF JoinInv
<1>17. CASE StartRound
  <2>1. CounterInv'
    BY <1>17 DEF StartRound, CounterInv
  <2>2. mode' = mode
    BY <1>17 DEF StartRound
  <2> QED BY <1>0, <1>17, <2>1, <2>2, StartRoundInv DEF JoinInv
<1>18. CASE LeaveRounds
  BY <1>0, <1>18 DEF LeaveRounds, CounterInv, JoinInv, TaskInv, PayloadInv, ReadyInv, InFlight, Over, TypeOK
<1>19. CASE FinishGlobal
  BY <1>0, <1>19 DEF FinishGlobal, CounterInv, JoinInv, TaskInv, PayloadInv, ReadyInv, InFlight, Over, TypeOK
<1>20. ASSUME NEW t \in Tasks, HelpStarts(t) PROVE CounterInv' /\ JoinInv'
  BY <1>20 DEF HelpStarts, CounterInv, JoinInv, TaskInv, PayloadInv, ReadyInv, InFlight, Over, TypeOK
<1>21. ASSUME NEW t \in Tasks, HelpDelivers(t) PROVE CounterInv' /\ JoinInv'
  <2>1. /\ UNCHANGED <<mode, stage, round, down>> /\ payload \ {t} \subseteq payload'
        /\ \E outcome \in {"ok", "failed", "refused"} : HelpAnswers(t, outcome)
        /\ help[t] = "inflight" \/ t \in orphans
    BY <1>21 DEF HelpDelivers, Sending
  <2> QED BY <2>1, AnswerInv DEF CounterInv, JoinInv
<1>22. ASSUME NEW t \in Tasks, HelpRefused(t) PROVE CounterInv' /\ JoinInv'
  <2>1. /\ UNCHANGED <<mode, stage, round, down>> /\ payload \ {t} \subseteq payload'
        /\ \E outcome \in {"ok", "failed", "refused"} : HelpAnswers(t, outcome)
        /\ help[t] = "inflight" \/ t \in orphans
    BY <1>22 DEF HelpRefused, Sending
  <2> QED BY <2>1, AnswerInv DEF CounterInv, JoinInv
<1>23. ASSUME NEW t \in Tasks, HelpWithoutData(t) PROVE CounterInv' /\ JoinInv'
  <2>1. /\ UNCHANGED <<mode, stage, round, down>> /\ payload \ {t} \subseteq payload'
        /\ \E outcome \in {"ok", "failed", "refused"} : HelpAnswers(t, outcome)
        /\ help[t] = "inflight" \/ t \in orphans
    BY <1>23 DEF HelpWithoutData, Sending
  <2> QED BY <2>1, AnswerInv DEF CounterInv, JoinInv
<1>24. ASSUME NEW t \in Tasks, HelpGone(t) PROVE CounterInv' /\ JoinInv'
  <2>1. /\ UNCHANGED <<mode, stage, round, down>> /\ payload \ {t} \subseteq payload'
        /\ \E outcome \in {"ok", "failed", "refused"} : HelpAnswers(t, outcome)
        /\ help[t] = "inflight" \/ t \in orphans
    BY <1>24 DEF HelpGone
  <2> QED BY <2>1, AnswerInv DEF CounterInv, JoinInv
<1>25. ASSUME NEW t \in Tasks, Prepares(t) PROVE CounterInv' /\ JoinInv'
  BY <1>25 DEF Prepares, CounterInv, JoinInv, TaskInv, PayloadInv, ReadyInv, InFlight, Over, TypeOK
<1>26. ASSUME NEW t \in Tasks, PrepareGone(t) PROVE CounterInv' /\ JoinInv'
  BY <1>26 DEF PrepareGone, CounterInv, JoinInv, TaskInv, PayloadInv, ReadyInv, InFlight, Over, TypeOK
<1>27. ASSUME NEW t \in Tasks, HelpTimesOut(t) PROVE CounterInv' /\ JoinInv'
  BY <1>27 DEF HelpTimesOut, CounterInv, JoinInv, TaskInv, PayloadInv, ReadyInv, InFlight, Over, TypeOK
<1>28. ASSUME NEW t \in Tasks, PrepareTimesOut(t) PROVE CounterInv' /\ JoinInv'
  BY <1>28 DEF PrepareTimesOut, CounterInv, JoinInv, TaskInv, PayloadInv, ReadyInv, InFlight, Over, TypeOK
<1>29. ASSUME NEW c \in Clusters, ProxyExits(c) PROVE CounterInv' /\ JoinInv'
  BY <1>29 DEF ProxyExits, CounterInv, JoinInv, TaskInv, PayloadInv, ReadyInv, InFlight, Over, TypeOK
<1>30. ASSUME NEW s \in Stripes, PlainStripeDone(s) PROVE CounterInv' /\ JoinInv'
  BY <1>30 DEF PlainStripeDone, CounterInv, JoinInv
<1>31. ASSUME NEW p \in Plans, LaunchPlain(p) PROVE CounterInv' /\ JoinInv'
  BY <1>31 DEF LaunchPlain, CounterInv, JoinInv
<1>32. CASE PlainFails
  BY <1>0, <1>32 DEF PlainFails, CounterInv, JoinInv
<1>33. ASSUME NEW s \in Stripes, PlanStripeInPart(s) PROVE CounterInv' /\ JoinInv'
  <2>1. /\ stage = "stripes" /\ round = 0 /\ stripeOk' = stripeOk
        /\ UNCHANGED <<mode, stage, round, payload, down, orphans>>
    BY <1>33 DEF PlanStripeInPart, MayPlan, CounterInv
  <2>2. \A t \in Tasks : help'[t] = "dropped" \/ help'[t] = help[t]
    BY <1>33 DEF PlanStripeInPart, Set
  <2>3. TaskInv => TaskInv'
    <3>1. \A q \in DOMAIN Rounds : Rounds[q] \subseteq Tasks /\ ~(q < round)
      BY <2>1, RoundsAssumption
    <3>2. orphans \subseteq Tasks
      BY DEF TypeOK
    <3> QED BY <2>1, <2>2, <3>1, <3>2 DEF TaskInv, InFlight, Over
  <2>4. PayloadInv => PayloadInv'
    BY <2>1, <2>2 DEF PayloadInv, InFlight
  <2> QED BY <2>1, <2>3, <2>4 DEF CounterInv, JoinInv, ReadyInv
<1>34. CASE LookAtFlag
  <2>1. /\ stage = "rounds" /\ stage' \in {"ready", "helps"} /\ mode' = mode
        /\ UNCHANGED <<round, help, stripeOk, payload, down, orphans>>
    BY <1>34 DEF LookAtFlag
  <2>2. TaskInv /\ PayloadInv => TaskInv' /\ PayloadInv'
    BY <2>1 DEF TaskInv, PayloadInv, InFlight, Over
  <2> QED BY <1>0, <1>34, <2>1, <2>2, LookInv DEF CounterInv, JoinInv
<1> QED
  BY NextCases, <1>0, <1>1, <1>2, <1>3, <1>4, <1>5, <1>6, <1>7, <1>8, <1>9, <1>10,
     <1>11, <1>12, <1>13, <1>14, <1>15, <1>16, <1>17, <1>18, <1>19, <1>20, <1>21,
     <1>22, <1>23, <1>24, <1>25, <1>26, <1>27, <1>28, <1>29, <1>30, <1>31, <1>32,
     <1>33, <1>34

\* Hence it holds always.
LEMMA RoundsInvariant == Spec => []RoundsInv
<1>1. RoundsInv /\ [Next]_vars => RoundsInv'
  <2>1. CASE UNCHANGED vars
    BY <2>1
    DEF RoundsInv, TypeOK, CounterInv, JoinInv, TaskInv, PayloadInv, ReadyInv, InFlight, Over,
        vars, coordinator, calls, proxies
  <2> QED BY <2>1, RoundsStep
<1> QED BY RoundsInit, <1>1, PTL DEF Spec

\* Two transfers of the join repair that are in flight together share neither
\* their helper cluster nor their main cluster.
THEOREM JoinRoundsDoNotOverlap == Spec => []RoundsDoNotOverlap
<1>1. RoundsInv => RoundsDoNotOverlap
  BY RoundsAssumption
  DEF RoundsInv, JoinInv, TaskInv, RoundsDoNotOverlap, RoundTasks
<1> QED BY RoundsInvariant, <1>1, PTL

\* Every send of the join repair from the second round on finds its payload,
\* unless the proxy that prepared it has ended.
THEOREM JoinSendsWhatItPrepared == Spec => []PreparedBeforeSent
<1>1. RoundsInv => PreparedBeforeSent
  BY DEF RoundsInv, JoinInv, PayloadInv, PreparedBeforeSent
<1> QED BY RoundsInvariant, <1>1, PTL

\* The join repair starts a round after the first only if all sends before it were
\* answered well and all its data is prepared, whatever the mains do to stripe_ok
\* between the look at it and the start.
THEOREM RoundsFollowSuccessHolds == Spec => RoundsFollowSuccess
<1> DEFINE Well ==
      /\ \A q \in 1 .. round : \A t \in RoundTasks(q) : help[t] \in {"ok", "dropped"}
      /\ \A t \in RoundTasks(round + 1) : help[t] \in {"prepared", "dropped"}
<1>1. RoundsInv /\ [Next]_vars => [round' # round /\ round > 0 => Well]_vars
  <2> SUFFICES ASSUME RoundsInv, Next, round' # round, round > 0 PROVE Well
    OBVIOUS
  <2>1. CASE StartRound
    <3>1. /\ mode = "join" /\ stage = "ready" /\ round \in Nat
      BY <2>1 DEF StartRound, RoundsInv, CounterInv, TypeOK
    <3> QED BY <3>1 DEF RoundsInv, JoinInv, ReadyInv, RoundTasks
  <2>2. CASE ~StartRound
    BY <2>2, NextCases
    DEF PlanStripe, PlanStripeInPart, PlanFails, SerialStripeDone, PlainStripeDone,
        LaunchStripe, StripeReturns, LaunchPlan, LaunchPlain, PlainFails, MainListens,
        MainUnbound, MainWrites, MainGone, MainTimesOut, Collect, LaunchMains,
        CreateHelps, PrepareFirst, WarmUp, LookAtFlag, LeaveRounds, FinishGlobal,
        HelpStarts, HelpDelivers, HelpRefused, HelpWithoutData, HelpGone, Prepares,
        PrepareGone, HelpTimesOut, PrepareTimesOut, ProxyExits, coordinator
  <2> QED BY <2>1, <2>2
<1> QED BY RoundsInvariant, <1>1, PTL DEF Spec, RoundsFollowSuccess

----------------------------------------------------------------------------
(***************************************************************************)
(* Whose data a main of the plain or the serial repair decodes.  Plans take *)
(* turns: of two plans that were started, one is quiet, with its main past  *)
(* accepting and no help that may still send.  So whoever sends finds its   *)
(* own main or none, although all plans of a stripe share an address.  The  *)
(* serial repair starts the next plan even if the main of the last one was  *)
(* given up and accepts still; the plain one does not.                      *)
(***************************************************************************)

Launched == {p \in Plans : mainRpc[p] \notin {"none", "dropped"}}

\* Helps belong to plans that were started, and have no other states.
LaunchInv ==
  /\ stage = "stripes"
  /\ \A t \in Tasks : IF PlanOf[t] \in Launched THEN help[t] = "inflight" \/ Over(t)
                                                 ELSE help[t] \in {"idle", "dropped"}
  /\ \A t \in orphans : PlanOf[t] \in Launched
  /\ \A p \in Plans \ Launched : main[p] = "off"

\* Stripes take turns, and so do the plans of a stripe.
TurnInv ==
  /\ \A p \in Plans, q \in Launched : p < q /\ StripeOf[p] = StripeOf[q] => Joined(p)
  /\ \A s, q \in Stripes : q < s /\ st[s] # "todo" => st[q] = "done"
  /\ \A p \in Launched : st[StripeOf[p]] \in {"planned", "done"}
  /\ \A s \in Stripes : st[s] = "done" => \A p \in PlansOf(s) : Joined(p)

\* As long as no call has failed, nothing runs on unseen.
CleanInv ==
  stripeOk =>
    /\ orphans = {}
    /\ \A p \in Plans : mainRpc[p] # "error" /\ (mainRpc[p] = "ok" => Ended(p))

\* As long as the mains decode their own data; and a plan with nothing left to do.
Orderly  == mode = "plain" \/ (mode = "serial" /\ stripeOk)
Quiet(p) == Ended(p) /\ \A t \in TasksOf(p) : Over(t) /\ t \notin orphans

\* Of two plans that were started, one is quiet.
QuietInv ==
  Orderly => \A p, q \in Launched : p # q => Quiet(p) \/ Quiet(q)

\* The inductive invariant of the repairs that go plan after plan.
TurnsInv ==
  TypeOK /\ (OneByOne => LaunchInv /\ TurnInv /\ CleanInv /\ QuietInv
                           /\ OwnDataUntilAFailure)

\* No plan has started in the beginning.
LEMMA TurnsInit == Init => TurnsInv
  BY TypeInit
  DEF Init, TurnsInv, LaunchInv, TurnInv, CleanInv, QuietInv, OwnDataUntilAFailure,
      Launched, TypeOK

\* The actions that the plain and the serial repair take.
StripeStep ==
  \/ PlainFails \/ Collect
  \/ \E s \in Stripes :
       PlanStripe(s) \/ PlanFails(s) \/ SerialStripeDone(s) \/ PlainStripeDone(s)
DropStep == \E s \in Stripes : PlanStripeInPart(s)
LaunchStep == \E p \in Plans : LaunchPlan(p) \/ LaunchPlain(p)
MainStep == \E p \in Plans :
  MainListens(p) \/ MainUnbound(p) \/ MainWrites(p) \/ MainGone(p) \/ MainTimesOut(p)
HelpStep == \E t \in Tasks :
  \/ HelpDelivers(t) \/ HelpRefused(t) \/ HelpWithoutData(t) \/ HelpGone(t)
  \/ HelpTimesOut(t)
ExitStep == \E c \in Clusters : ProxyExits(c)

\* A step of the plain or the serial repair is one of these.
LEMMA OneByOneCases ==
  ASSUME Next, OneByOne, TurnsInv
  PROVE  StripeStep \/ DropStep \/ LaunchStep \/ MainStep \/ HelpStep \/ ExitStep
<1>1. /\ mode \in {"plain", "serial"} /\ stage = "stripes"
      /\ \A t \in Tasks : help[t] \notin {"queued", "preparing"}
  BY DEF OneByOne, TurnsInv, LaunchInv, Over
<1>2. \A s \in Stripes : ~LaunchStripe(s) /\ ~StripeReturns(s)
  BY <1>1 DEF LaunchStripe, StripeReturns
<1>3. ~LaunchMains /\ ~CreateHelps /\ ~PrepareFirst /\ ~WarmUp
  BY <1>1 DEF LaunchMains, Global, CreateHelps, PrepareFirst, WarmUp
<1>4. ~StartRound /\ ~LookAtFlag /\ ~LeaveRounds /\ ~FinishGlobal
  BY <1>1 DEF StartRound, LookAtFlag, LeaveRounds, FinishGlobal
<1>5. \A t \in Tasks : ~HelpStarts(t) /\ ~Prepares(t) /\ ~PrepareGone(t)
                         /\ ~PrepareTimesOut(t)
  BY <1>1 DEF HelpStarts, Prepares, PrepareGone, PrepareTimesOut
<1> QED
  BY NextCases, <1>2, <1>3, <1>4, <1>5
     DEF StripeStep, DropStep, LaunchStep, MainStep, HelpStep, ExitStep

\* What each kind of step leaves alone, of what a quiet plan depends on.
LEMMA StripeStepFrame ==
  ASSUME StripeStep, TypeOK
  PROVE  /\ UNCHANGED <<mode, stage, mainRpc, help, main, got, orphans>>
         /\ stripeOk' => stripeOk
<1> USE DEF coordinator, calls, proxies
<1>1. CASE PlainFails \/ Collect
  BY <1>1 DEF PlainFails, Collect
<1>2. ASSUME NEW s \in Stripes,
             PlanStripe(s) \/ PlanFails(s) \/ SerialStripeDone(s) \/ PlainStripeDone(s)
      PROVE  /\ UNCHANGED <<mode, stage, mainRpc, help, main, got, orphans>>
             /\ stripeOk' => stripeOk
  BY <1>2 DEF PlanStripe, PlanFails, SerialStripeDone, PlainStripeDone
<1> QED
  BY <1>1, <1>2 DEF StripeStep

\* Plans are dropped when their stripe is planned, so before they could be started.
LEMMA DropFrame ==
  ASSUME DropStep, OneByOne, TurnsInv
  PROVE  /\ UNCHANGED <<mode, stage, stripeOk, main, got, orphans>>
         /\ Launched' = Launched
         /\ \A p \in Launched : mainRpc'[p] = mainRpc[p]
         /\ \A t \in Tasks :
              IF PlanOf[t] \in Launched THEN help'[t] = help[t]
                                       ELSE help'[t] \in {"idle", "dropped"}
         /\ \A p \in Plans : Joined(p) => Joined(p)'
         /\ \E s \in Stripes :
              /\ st[s] = "todo" /\ \A q \in 1 .. s - 1 : st[q] = "done"
              /\ st' = [st EXCEPT ![s] = "planned"]
<1> USE DEF coordinator, calls, proxies, TypeOK
<1>1. /\ TypeOK /\ LaunchInv /\ TurnInv
      /\ \A t \in Tasks : PlanOf[t] \in Plans
  BY PlansAssumption DEF TurnsInv
<1>2. PICK s \in Stripes : PlanStripeInPart(s)
  BY DEF DropStep
<1>3. PICK first \in PlansOf(s) :
        LET dropped == {p \in PlansOf(s) : p >= first} IN
        /\ mainRpc' = [p \in Plans |-> IF p \in dropped THEN "dropped" ELSE mainRpc[p]]
        /\ help' = Set(HelpsOf(dropped), "dropped")
  BY <1>2 DEF PlanStripeInPart
<1> DEFINE Dropped == {p \in PlansOf(s) : p >= first}
<1>4. /\ mainRpc' = [p \in Plans |-> IF p \in Dropped THEN "dropped" ELSE mainRpc[p]]
      /\ help' = [t \in Tasks |-> IF PlanOf[t] \in Dropped THEN "dropped" ELSE help[t]]
      /\ Dropped \subseteq Plans
      /\ \A p \in Dropped : StripeOf[p] = s
  BY <1>3 DEF Set, HelpsOf, PlansOf
<1> HIDE DEF Dropped
<1>5. /\ st[s] = "todo" /\ \A q \in 1 .. s - 1 : st[q] = "done"
      /\ st' = [st EXCEPT ![s] = "planned"]
      /\ UNCHANGED <<mode, stage, stripeOk, main, got, orphans>>
  BY <1>2 DEF PlanStripeInPart, MayPlan
<1>6. \A p \in Launched : p \notin Dropped
  BY <1>1, <1>4, <1>5 DEF TurnInv
<1>7. Launched' = Launched /\ \A p \in Launched : mainRpc'[p] = mainRpc[p]
  BY <1>1, <1>4, <1>6 DEF Launched
<1>8. \A t \in Tasks :
        IF PlanOf[t] \in Launched THEN help'[t] = help[t]
                                 ELSE help'[t] \in {"idle", "dropped"}
  BY <1>1, <1>4, <1>6 DEF LaunchInv
<1>9. \A p \in Plans : Joined(p) => Joined(p)'
  BY <1>1, <1>4 DEF Joined, Answered, HelpsOver, Over, TasksOf
<1> QED
  BY <1>5, <1>7, <1>8, <1>9

\* A launch changes its own plan and its tasks.
LEMMA LaunchFrame ==
  ASSUME NEW p \in Plans, LaunchPlan(p) \/ LaunchPlain(p), TypeOK
  PROVE  /\ UNCHANGED <<coordinator, stripeOk, got, orphans>>
         /\ mainRpc[p] = "none" /\ mainRpc' = [mainRpc EXCEPT ![p] = "pending"]
         /\ main' = [main EXCEPT ![p] = "called"]
         /\ help' = [t \in Tasks |-> IF PlanOf[t] = p THEN "inflight" ELSE help[t]]
  BY DEF LaunchPlan, LaunchPlain, CallMains, Set, TasksOf, TypeOK

\* A step of a main changes this main and what its call has answered.
LEMMA MainFrame ==
  ASSUME NEW p \in Plans, TypeOK,
         \/ MainListens(p) \/ MainUnbound(p) \/ MainWrites(p) \/ MainGone(p)
         \/ MainTimesOut(p)
  PROVE  /\ UNCHANGED <<coordinator, help, got, orphans>>
         /\ stripeOk' => stripeOk
         /\ \A q \in Plans : q # p => mainRpc'[q] = mainRpc[q] /\ main'[q] = main[q]
         /\ mainRpc'[p] = mainRpc[p] \/ (mainRpc[p] = "pending" /\ mainRpc'[p] \in {"ok", "error"})
         /\ main'[p] = main[p] \/ main[p] \in {"called", "listening"}
         /\ stripeOk' /\ mainRpc'[p] # mainRpc[p] =>
              mainRpc'[p] = "ok" /\ main'[p] \in {"written", "spoiled"}
         /\ main[p] = "off" => main'[p] = "off"
<1> USE DEF coordinator, calls, proxies, TypeOK
<1>1. CASE MainListens(p)
  BY <1>1 DEF MainListens
<1>2. CASE MainUnbound(p)
  BY <1>2 DEF MainUnbound, MainAnswers
<1>3. CASE MainWrites(p)
  BY <1>3 DEF MainWrites, MainAnswers
<1>4. CASE MainGone(p)
  BY <1>4 DEF MainGone, MainAnswers
<1>5. CASE MainTimesOut(p)
  BY <1>5 DEF MainTimesOut
<1> QED
  BY <1>1, <1>2, <1>3, <1>4, <1>5

\* A step of a help changes this help, and is taken while it is in flight or an orphan.
LEMMA HelpFrame ==
  ASSUME NEW t \in Tasks, TypeOK,
         \/ HelpDelivers(t) \/ HelpRefused(t) \/ HelpWithoutData(t) \/ HelpGone(t)
         \/ HelpTimesOut(t)
  PROVE  /\ UNCHANGED <<coordinator, mainRpc, main>>
         /\ help[t] = "inflight" \/ t \in orphans
         /\ help'[t] = help[t] \/ (help[t] = "inflight" /\ help'[t] \in {"ok", "failed", "refused"})
         /\ \A u \in Tasks : u # t => help'[u] = help[u]
         /\ orphans' \subseteq orphans \cup {t}
         /\ t \in orphans' => help[t] = "inflight" /\ ~stripeOk'
         /\ stripeOk' => stripeOk
<1> USE DEF coordinator, calls, proxies, TypeOK
<1>1. CASE HelpDelivers(t)
  BY <1>1 DEF HelpDelivers, HelpAnswers, Sending
<1>2. CASE HelpRefused(t)
  BY <1>2 DEF HelpRefused, HelpAnswers, Sending
<1>3. CASE HelpWithoutData(t)
  BY <1>3 DEF HelpWithoutData, HelpAnswers, Sending
<1>4. CASE HelpGone(t)
  BY <1>4 DEF HelpGone, HelpAnswers
<1>5. CASE HelpTimesOut(t)
  BY <1>5 DEF HelpTimesOut
<1> QED
  BY <1>1, <1>2, <1>3, <1>4, <1>5

\* A proxy that ends changes neither the calls nor the mains at once.
LEMMA ExitFrame ==
  ASSUME ExitStep
  PROVE  UNCHANGED <<coordinator, calls, main, got>> /\ orphans' \subseteq orphans
  BY DEF ExitStep, ProxyExits


\* An operation stays what it is, and stripe_ok is never set again.
LEMMA OrderlyBefore ==
  ASSUME Next, OneByOne, TurnsInv
  PROVE  mode' = mode /\ (stripeOk' => stripeOk) /\ (Orderly' => Orderly) /\ OneByOne'
<1>1. TypeOK
  BY DEF TurnsInv
<1>2. mode' = mode /\ (stripeOk' => stripeOk)
  <2>1. CASE StripeStep
    BY <2>1, <1>1, StripeStepFrame
  <2>2. CASE LaunchStep
    BY <2>2, <1>1, LaunchFrame DEF LaunchStep, coordinator
  <2>3. CASE MainStep
    BY <2>3, <1>1, MainFrame DEF MainStep, coordinator
  <2>4. CASE HelpStep
    BY <2>4, <1>1, HelpFrame DEF HelpStep, coordinator
  <2>5. CASE ExitStep
    BY <2>5, ExitFrame DEF coordinator, calls
  <2>6. CASE DropStep
    BY <2>6, DropFrame
  <2> QED
    BY <2>1, <2>2, <2>3, <2>4, <2>5, <2>6, OneByOneCases
<1> QED
  BY <1>2 DEF Orderly, OneByOne

\* A plan that is over stays over.
LEMMA QuietStays ==
  ASSUME Next, OneByOne, TurnsInv, NEW p \in Launched, Quiet(p)
  PROVE  Quiet(p)'
<1>1. /\ p \in Plans /\ main[p] \in {"written", "spoiled"} /\ TypeOK
      /\ mainRpc[p] # "none"
      /\ \A t \in TasksOf(p) :
           t \in Tasks /\ PlanOf[t] = p /\ help[t] # "inflight" /\ t \notin orphans
  BY DEF Launched, Quiet, Ended, TurnsInv, TasksOf, Over
<1>2. /\ main'[p] \in {"written", "spoiled"}
      /\ \A t \in TasksOf(p) : help'[t] = help[t] /\ t \notin orphans'
  <2>1. CASE StripeStep
    BY <2>1, <1>1, StripeStepFrame
  <2>2. CASE LaunchStep
    <3>1. PICK q \in Plans : LaunchPlan(q) \/ LaunchPlain(q)
      BY <2>2 DEF LaunchStep
    <3> QED
      BY <3>1, <1>1, LaunchFrame DEF TypeOK
  <2>3. CASE MainStep
    <3>1. PICK q \in Plans : \/ MainListens(q) \/ MainUnbound(q) \/ MainWrites(q)
                             \/ MainGone(q) \/ MainTimesOut(q)
      BY <2>3 DEF MainStep
    <3> QED
      BY <3>1, <1>1, MainFrame
  <2>4. CASE HelpStep
    <3>1. PICK t \in Tasks : \/ HelpDelivers(t) \/ HelpRefused(t) \/ HelpWithoutData(t)
                             \/ HelpGone(t) \/ HelpTimesOut(t)
      BY <2>4 DEF HelpStep
    <3>2. t \notin TasksOf(p)
      BY <3>1, <1>1, HelpFrame
    <3> QED
      BY <3>1, <3>2, <1>1, HelpFrame
  <2>5. CASE ExitStep
    BY <2>5, <1>1, ExitFrame DEF calls
  <2>6. CASE DropStep
    BY <2>6, <1>1, DropFrame
  <2> QED
    BY <2>1, <2>2, <2>3, <2>4, <2>5, <2>6, OneByOneCases
<1>3. TasksOf(p)' = TasksOf(p)
  BY DEF TasksOf
<1> QED
  BY <1>2, <1>3 DEF Quiet, Ended, Over

\* Joined calls stay joined, except that a plan may be started.
LEMMA JoinedStays ==
  ASSUME Next, OneByOne, TurnsInv, NEW p \in Plans, Joined(p)
  PROVE  Joined(p)'
<1>1. /\ mainRpc[p] \in {"dropped", "ok", "error"} /\ TypeOK
      /\ \A t \in TasksOf(p) : t \in Tasks /\ PlanOf[t] = p /\ Over(t) /\ help[t] # "inflight"
  BY DEF Joined, Answered, HelpsOver, TasksOf, TurnsInv, Over
<1>2. CASE DropStep
  BY <1>2, DropFrame
<1>3. ASSUME ~DropStep
      PROVE  mainRpc'[p] = mainRpc[p] /\ \A t \in TasksOf(p) : help'[t] = help[t]
  <2>1. CASE StripeStep
    BY <2>1, <1>1, StripeStepFrame
  <2>2. CASE LaunchStep
    <3>1. PICK q \in Plans : LaunchPlan(q) \/ LaunchPlain(q)
      BY <2>2 DEF LaunchStep
    <3> QED
      BY <3>1, <1>1, LaunchFrame DEF TypeOK
  <2>3. CASE MainStep
    <3>1. PICK q \in Plans : \/ MainListens(q) \/ MainUnbound(q) \/ MainWrites(q)
                             \/ MainGone(q) \/ MainTimesOut(q)
      BY <2>3 DEF MainStep
    <3> QED
      BY <3>1, <1>1, MainFrame
  <2>4. CASE HelpStep
    <3>1. PICK t \in Tasks : \/ HelpDelivers(t) \/ HelpRefused(t) \/ HelpWithoutData(t)
                             \/ HelpGone(t) \/ HelpTimesOut(t)
      BY <2>4 DEF HelpStep
    <3> QED
      BY <3>1, <1>1, HelpFrame
  <2>5. CASE ExitStep
    BY <2>5, <1>1, ExitFrame DEF calls
  <2> QED
    BY <1>3, <2>1, <2>2, <2>3, <2>4, <2>5, OneByOneCases
<1>4. TasksOf(p)' = TasksOf(p)
  BY DEF TasksOf
<1> QED
  BY <1>1, <1>2, <1>3, <1>4 DEF Joined, Answered, HelpsOver, Over

\* Helps go on belonging to plans that were started.
LEMMA LaunchInvStep ==
  ASSUME Next, OneByOne, TurnsInv
  PROVE  LaunchInv'
<1>1. TypeOK /\ LaunchInv
  BY DEF TurnsInv
<1>2. \A t \in Tasks : PlanOf[t] \in Plans
  BY PlansAssumption
<1>3. CASE StripeStep
  BY <1>3, <1>1, StripeStepFrame DEF LaunchInv, Launched, Over
<1>4. CASE LaunchStep
  <2>1. PICK p \in Plans : LaunchPlan(p) \/ LaunchPlain(p)
    BY <1>4 DEF LaunchStep
  <2>2. Launched' = Launched \cup {p}
    BY <2>1, <1>1, LaunchFrame DEF Launched, TypeOK
  <2> QED
    BY <2>1, <2>2, <1>1, <1>2, LaunchFrame DEF LaunchInv, Over, coordinator, TypeOK
<1>5. CASE MainStep
  <2>1. PICK p \in Plans : \/ MainListens(p) \/ MainUnbound(p) \/ MainWrites(p)
                           \/ MainGone(p) \/ MainTimesOut(p)
    BY <1>5 DEF MainStep
  <2>2. Launched' = Launched
    BY <2>1, <1>1, MainFrame DEF Launched
  <2>3. \A q \in Plans \ Launched : main'[q] = "off"
    BY <2>1, <1>1, MainFrame DEF LaunchInv, Launched
  <2> QED
    BY <2>1, <2>2, <2>3, <1>1, MainFrame DEF LaunchInv, Over, coordinator
<1>6. CASE HelpStep
  <2>1. PICK t \in Tasks : \/ HelpDelivers(t) \/ HelpRefused(t) \/ HelpWithoutData(t)
                           \/ HelpGone(t) \/ HelpTimesOut(t)
    BY <1>6 DEF HelpStep
  <2>2. Launched' = Launched /\ main' = main /\ stage' = stage
    BY <2>1, <1>1, HelpFrame DEF Launched, coordinator
  <2>3. PlanOf[t] \in Launched
    BY <2>1, <1>1, HelpFrame DEF LaunchInv
  <2> QED
    BY <2>1, <2>2, <2>3, <1>1, HelpFrame DEF LaunchInv, Over
<1>7. CASE ExitStep
  BY <1>7, <1>1, ExitFrame DEF LaunchInv, Launched, Over, coordinator, calls
<1>8. CASE DropStep
  BY <1>8, <1>1, DropFrame DEF LaunchInv, Over
<1> QED
  BY <1>3, <1>4, <1>5, <1>6, <1>7, <1>8, OneByOneCases

\* When a plan is started, the calls of all others are over.
LEMMA OthersJoined ==
  ASSUME OneByOne, TurnsInv, NEW p \in Plans, LaunchPlan(p) \/ LaunchPlain(p),
         NEW q \in Launched
  PROVE  q # p /\ Joined(q)
<1>1. /\ mainRpc[p] = "none" /\ st[StripeOf[p]] = "planned"
      /\ \A o \in PlansOf(StripeOf[p]) : o < p => Joined(o)
  BY DEF LaunchPlan, LaunchPlain
<1>2. q \in Plans /\ q # p /\ TurnInv
  BY <1>1 DEF Launched, TurnsInv
<1>3. /\ p \in Nat /\ q \in Nat /\ StripeOf[p] \in Stripes /\ StripeOf[q] \in Stripes
      /\ Stripes \subseteq Int
  BY <1>2, PlansAssumption, BoundsAssumption DEF Stripes
<1>4. CASE StripeOf[q] = StripeOf[p]
  <2>1. ~Joined(p)
    BY <1>1 DEF Joined, Answered
  <2>2. ~(p < q)
    BY <1>2, <1>4, <2>1 DEF TurnInv
  <2> QED
    BY <1>1, <1>2, <1>3, <1>4, <2>2 DEF PlansOf
<1>5. CASE StripeOf[q] < StripeOf[p]
  <2>1. st[StripeOf[q]] = "done"
    BY <1>1, <1>2, <1>3, <1>5 DEF TurnInv
  <2> QED
    BY <1>2, <1>3, <2>1 DEF TurnInv, PlansOf
<1>6. CASE StripeOf[p] < StripeOf[q]
  <2>1. st[StripeOf[q]] # "todo"
    BY <1>2 DEF TurnInv
  <2> QED
    BY <1>1, <1>2, <1>3, <1>6, <2>1 DEF TurnInv
<1>7. \/ StripeOf[q] = StripeOf[p]
      \/ StripeOf[q] < StripeOf[p] \/ StripeOf[p] < StripeOf[q]
  BY <1>3, BoundsAssumption DEF Stripes
<1> QED
  BY <1>2, <1>4, <1>5, <1>6, <1>7

\* What is joined while no call has failed is quiet.
LEMMA JoinedIsQuiet ==
  ASSUME OneByOne, TurnsInv, stripeOk, NEW q \in Launched, Joined(q)
  PROVE  Quiet(q)
BY DEF TurnsInv, CleanInv, Joined, Answered, HelpsOver, Quiet, Launched

\* A plan starts when all others are quiet, so two are never busy together.
LEMMA QuietInvStep ==
  ASSUME Next, OneByOne, TurnsInv
  PROVE  QuietInv'
<1> SUFFICES ASSUME Orderly', NEW p \in Launched', NEW q \in Launched', p # q
             PROVE  Quiet(p)' \/ Quiet(q)'
  BY DEF QuietInv
<1>1. Orderly /\ TypeOK
  BY OrderlyBefore DEF TurnsInv
<1>2. CASE p \in Launched /\ q \in Launched
  <2>1. Quiet(p) \/ Quiet(q)
    BY <1>1, <1>2 DEF TurnsInv, QuietInv
  <2> QED
    BY <1>2, <2>1, QuietStays
<1>3. CASE ~(p \in Launched /\ q \in Launched)
  <2>1. LaunchStep
    <3>1. CASE StripeStep
      BY <3>1, <1>1, <1>3, StripeStepFrame DEF Launched
    <3>2. CASE MainStep
      BY <3>2, <1>1, <1>3, MainFrame DEF Launched, MainStep
    <3>3. CASE HelpStep
      BY <3>3, <1>1, <1>3, HelpFrame DEF Launched, HelpStep
    <3>4. CASE ExitStep
      BY <3>4, <1>1, <1>3, ExitFrame DEF Launched, calls
    <3>5. CASE DropStep
      BY <3>5, <1>3, DropFrame
    <3> QED
      BY <3>1, <3>2, <3>3, <3>4, <3>5, OneByOneCases
  <2>2. PICK o \in Plans : LaunchPlan(o) \/ LaunchPlain(o)
    BY <2>1 DEF LaunchStep
  <2>3. Launched' = Launched \cup {o}
    BY <2>2, <1>1, LaunchFrame DEF Launched, TypeOK
  <2>4. stripeOk
    BY <1>1, <2>2 DEF Orderly, LaunchPlan, LaunchPlain
  <2>5. \A x \in Launched : Quiet(x)
    BY <2>2, <2>4, OthersJoined, JoinedIsQuiet
  <2>6. \A x \in Launched : Quiet(x)'
    BY <2>5, QuietStays
  <2> QED
    BY <2>3, <2>6
<1> QED
  BY <1>2, <1>3

\* Without a failed call nothing comes to run on unseen.
LEMMA CleanInvStep ==
  ASSUME Next, OneByOne, TurnsInv
  PROVE  CleanInv'
<1> SUFFICES ASSUME stripeOk'
             PROVE  /\ orphans' = {}
                    /\ \A p \in Plans : mainRpc'[p] # "error"
                                      /\ (mainRpc'[p] = "ok" =>
                                            main'[p] \in {"written", "spoiled"})
  BY DEF CleanInv, Ended
<1>1. /\ TypeOK /\ stripeOk /\ orphans = {}
      /\ \A p \in Plans :
           /\ mainRpc[p] # "error"
           /\ mainRpc[p] = "ok" => main[p] \in {"written", "spoiled"}
  BY OrderlyBefore DEF TurnsInv, CleanInv, Ended
<1>2. CASE StripeStep
  BY <1>1, <1>2, StripeStepFrame
<1>3. CASE LaunchStep
  BY <1>1, <1>3, LaunchFrame DEF LaunchStep, TypeOK
<1>4. CASE MainStep
  <2>1. PICK p \in Plans : \/ MainListens(p) \/ MainUnbound(p) \/ MainWrites(p)
                           \/ MainGone(p) \/ MainTimesOut(p)
    BY <1>4 DEF MainStep
  <2> QED
    BY <2>1, <1>1, MainFrame
<1>5. CASE HelpStep
  <2>1. PICK t \in Tasks : \/ HelpDelivers(t) \/ HelpRefused(t) \/ HelpWithoutData(t)
                           \/ HelpGone(t) \/ HelpTimesOut(t)
    BY <1>5 DEF HelpStep
  <2> QED
    BY <2>1, <1>1, HelpFrame
<1>6. CASE ExitStep
  BY <1>1, <1>6, ExitFrame DEF calls
<1>7. CASE DropStep
  <2>1. \A p \in Plans : p \in Launched' <=> p \in Launched
    BY <1>7, DropFrame
  <2> QED
    BY <1>1, <1>7, <2>1, DropFrame DEF Launched
<1> QED
  BY <1>2, <1>3, <1>4, <1>5, <1>6, <1>7, OneByOneCases

\* Stripes and plans go on taking turns.
LEMMA TurnInvStep ==
  ASSUME Next, OneByOne, TurnsInv
  PROVE  TurnInv'
<1>1. TypeOK /\ TurnInv
  BY DEF TurnsInv
<1>2. \A p \in Plans : StripeOf[p] \in Stripes
  BY PlansAssumption
<1>3. \A p \in Plans : Joined(p) => Joined(p)'
  BY JoinedStays
<1>4. CASE UNCHANGED st /\ Launched' = Launched
  BY <1>1, <1>3, <1>4 DEF TurnInv, PlansOf, Launched
<1>5. CASE StripeStep /\ st' # st
  <2>1. Launched' = Launched
    BY <1>1, <1>5, StripeStepFrame DEF Launched
  <2>2. PICK s \in Stripes :
          PlanStripe(s) \/ PlanFails(s) \/ SerialStripeDone(s) \/ PlainStripeDone(s)
    BY <1>5 DEF StripeStep, PlainFails, Collect
  <2>3. CASE PlanStripe(s) \/ PlanFails(s)
    <3>1. /\ st[s] = "todo" /\ \A q \in 1 .. s - 1 : st[q] = "done"
          /\ st' = [st EXCEPT ![s] = st'[s]] /\ st'[s] \in {"planned", "unplanned"}
      BY <1>1, <2>3 DEF PlanStripe, PlanFails, MayPlan, TypeOK
    <3>2. \A q \in Stripes : q < s => st[q] = "done"
      BY <3>1, BoundsAssumption DEF Stripes
    <3>3. \A r, q \in Stripes : q < r /\ st'[r] # "todo" => st'[q] = "done"
      BY <1>1, <3>1, <3>2 DEF TurnInv, TypeOK
    <3>4. \A p \in Launched : st'[StripeOf[p]] \in {"planned", "done"}
      BY <1>1, <1>2, <3>1 DEF TurnInv, TypeOK, Launched
    <3>5. \A r \in Stripes : st'[r] = "done" => st[r] = "done"
      BY <1>1, <3>1 DEF TypeOK
    <3> QED
      BY <1>1, <1>3, <2>1, <3>3, <3>4, <3>5 DEF TurnInv, PlansOf, Launched
  <2>4. CASE SerialStripeDone(s) \/ PlainStripeDone(s)
    <3>1. /\ st[s] = "planned" /\ \A p \in PlansOf(s) : Joined(p)
          /\ st' = [st EXCEPT ![s] = "done"]
      BY <2>4 DEF SerialStripeDone, PlainStripeDone
    <3>2. \A r, q \in Stripes : q < r /\ st'[r] # "todo" => st'[q] = "done"
      BY <1>1, <3>1 DEF TurnInv, TypeOK
    <3>3. \A p \in Launched : st'[StripeOf[p]] \in {"planned", "done"}
      BY <1>1, <1>2, <3>1 DEF TurnInv, TypeOK, Launched
    <3>4. \A r \in Stripes : st'[r] = "done" => \A p \in PlansOf(r) : Joined(p)
      BY <1>1, <3>1 DEF TurnInv, TypeOK
    <3> QED
      BY <1>1, <1>3, <2>1, <3>2, <3>3, <3>4 DEF TurnInv, PlansOf, Launched
  <2> QED
    BY <2>2, <2>3, <2>4
<1>6. CASE LaunchStep
  <2>1. PICK p \in Plans : LaunchPlan(p) \/ LaunchPlain(p)
    BY <1>6 DEF LaunchStep
  <2>2. Launched' = Launched \cup {p} /\ st' = st
    BY <2>1, <1>1, LaunchFrame DEF Launched, TypeOK, coordinator
  <2>3. /\ st[StripeOf[p]] = "planned"
        /\ \A q \in Plans : q < p /\ StripeOf[q] = StripeOf[p] => Joined(q)
    BY <2>1 DEF LaunchPlan, LaunchPlain, PlansOf
  <2>4. \A q \in Plans, o \in Launched' :
          q < o /\ StripeOf[q] = StripeOf[o] => Joined(q)
    BY <1>1, <2>2, <2>3 DEF TurnInv
  <2>5. \A s \in Stripes : st[s] = "done" => \A q \in PlansOf(s) : Joined(q)
    BY <1>1 DEF TurnInv
  <2> QED
    BY <1>1, <1>3, <2>2, <2>3, <2>4, <2>5 DEF TurnInv, PlansOf
<1>7. CASE MainStep
  BY <1>1, <1>4, <1>7, MainFrame DEF MainStep, Launched, coordinator
<1>8. CASE HelpStep
  BY <1>1, <1>4, <1>8, HelpFrame DEF HelpStep, Launched, coordinator
<1>9. CASE ExitStep
  BY <1>1, <1>4, <1>9, ExitFrame DEF Launched, coordinator, calls
<1>10. CASE StripeStep /\ st' = st
  BY <1>1, <1>4, <1>10, StripeStepFrame DEF Launched
<1>11. CASE DropStep
  <2>1. PICK s \in Stripes :
          /\ st[s] = "todo" /\ \A q \in 1 .. s - 1 : st[q] = "done"
          /\ st' = [st EXCEPT ![s] = "planned"]
    BY <1>11, DropFrame
  <2>2. Launched' = Launched
    BY <1>11, DropFrame
  <2>3. \A q \in Stripes : q < s => st[q] = "done"
    BY <2>1, BoundsAssumption DEF Stripes
  <2>4. \A r, q \in Stripes : q < r /\ st'[r] # "todo" => st'[q] = "done"
    BY <1>1, <2>1, <2>3 DEF TurnInv, TypeOK
  <2>5. \A p \in Launched : st'[StripeOf[p]] \in {"planned", "done"}
    BY <1>1, <1>2, <2>1 DEF TurnInv, TypeOK, Launched
  <2>6. \A r \in Stripes : st'[r] = "done" => st[r] = "done"
    BY <1>1, <2>1 DEF TypeOK
  <2> QED
    BY <1>1, <1>3, <2>2, <2>4, <2>5, <2>6 DEF TurnInv, PlansOf, Launched
<1> QED
  BY <1>5, <1>6, <1>7, <1>8, <1>9, <1>10, <1>11, OneByOneCases

\* A transfer reaches the main of its own plan.
LEMMA OwnStep ==
  ASSUME Next, OneByOne, TurnsInv
  PROVE  OwnDataUntilAFailure'
<1> SUFFICES ASSUME Orderly', NEW p \in Plans
             PROVE  got'[p] \subseteq TasksOf(p)
  BY DEF OwnDataUntilAFailure, Orderly, TasksOf
<1>1. Orderly /\ TypeOK /\ got[p] \subseteq TasksOf(p)
  BY OrderlyBefore DEF TurnsInv, OwnDataUntilAFailure, Orderly
<1>2. CASE \E t \in Tasks : HelpDelivers(t)
  <2>1. PICK t \in Tasks : HelpDelivers(t)
    BY <1>2
  <2>2. PICK q \in Bound(TargetOf(t)) : got' = [got EXCEPT ![q] = @ \cup {t}]
    BY <2>1 DEF HelpDelivers
  <2>3. q \in Plans /\ q \in Launched /\ ~Quiet(q)
    <3>1. q \in Plans /\ main[q] \in {"listening", "called"}
      BY <2>2 DEF Bound, Reachable
    <3> QED
      BY <3>1 DEF TurnsInv, LaunchInv, Quiet, Ended
  <2>4. PlanOf[t] \in Launched /\ ~Quiet(PlanOf[t])
    <3>1. help[t] = "inflight" \/ t \in orphans
      BY <2>1 DEF HelpDelivers, Sending
    <3>2. t \in TasksOf(PlanOf[t])
      BY DEF TasksOf
    <3> QED
      BY <3>1, <3>2 DEF TurnsInv, LaunchInv, Quiet, Over
  <2>5. q = PlanOf[t]
    BY <1>1, <2>3, <2>4 DEF TurnsInv, QuietInv
  <2> QED
    BY <1>1, <2>2, <2>3, <2>5 DEF TasksOf, TypeOK
<1>3. CASE ~ \E t \in Tasks : HelpDelivers(t)
  <2>1. got' = got
    <3>1. CASE HelpStep
      BY <1>3, <3>1 DEF HelpStep, HelpRefused, HelpWithoutData, HelpGone, HelpTimesOut
    <3>2. CASE StripeStep
      BY <1>1, <3>2, StripeStepFrame
    <3>3. CASE LaunchStep
      BY <1>1, <3>3, LaunchFrame DEF LaunchStep
    <3>4. CASE MainStep
      BY <1>1, <3>4, MainFrame DEF MainStep
    <3>5. CASE ExitStep
      BY <3>5, ExitFrame
    <3>6. CASE DropStep
      BY <3>6, DropFrame
    <3> QED
      BY <3>1, <3>2, <3>3, <3>4, <3>5, <3>6, OneByOneCases
  <2> QED
    BY <1>1, <2>1
<1> QED
  BY <1>2, <1>3

\* No action changes the operation.
LEMMA ModeStays == ASSUME Next, TypeOK PROVE mode' = mode
  BY NextCases
  DEF PlanStripe, PlanFails, SerialStripeDone, PlainStripeDone, LaunchStripe,
      StripeReturns, LaunchPlan, LaunchPlain, PlainFails, MainListens, MainUnbound,
      MainWrites, MainGone, MainTimesOut, Collect, LaunchMains, CreateHelps, PrepareFirst,
      WarmUp, StartRound, LookAtFlag, LeaveRounds, FinishGlobal, HelpStarts,
      PlanStripeInPart, HelpDelivers, HelpRefused, HelpWithoutData, HelpGone, Prepares, PrepareGone, HelpTimesOut, PrepareTimesOut,
      ProxyExits, coordinator

\* The invariant of the turns holds always.
LEMMA TurnsInvariant == Spec => []TurnsInv
<1>1. TurnsInv /\ [Next]_vars => TurnsInv'
  <2>1. CASE UNCHANGED vars
    BY <2>1
    DEF TurnsInv, TypeOK, OneByOne, LaunchInv, TurnInv, CleanInv, QuietInv, Orderly,
        OwnDataUntilAFailure, Launched, Quiet, Ended, Joined, Answered, HelpsOver, Over,
        PlansOf, TasksOf, vars, coordinator, calls, proxies
  <2>2. ASSUME TurnsInv, Next PROVE TurnsInv'
    <3>1. TypeOK' /\ (OneByOne' => OneByOne)
      BY <2>2, TypeStep, ModeStays DEF TurnsInv, OneByOne
    <3> QED
      BY <2>2, <3>1, LaunchInvStep, TurnInvStep, CleanInvStep, QuietInvStep, OwnStep
         DEF TurnsInv
  <2> QED BY <2>1, <2>2
<1> QED BY TurnsInit, <1>1, PTL DEF Spec

\* Although the plans of a stripe share a data_port, or the acceptor of their proxy,
\* a main_repair of the plain repair decodes the transfers of its own plan only,
\* whatever fails, and one of the serial repair until a call has failed.
THEOREM MainsDecodeTheirOwn == Spec => []OwnDataUntilAFailure
<1>1. TurnsInv => OwnDataUntilAFailure
  BY DEF TurnsInv, OneByOne, OwnDataUntilAFailure
<1> QED BY TurnsInvariant, <1>1, PTL
----------------------------------------------------------------------------
(***************************************************************************)
(* A repair that is left alone comes to its end.  UndisturbedRunRepairs    *)
(* speaks of the state in which the repair has returned; what makes it true *)
(* is that no timeout is met on the way.  A main could wait for a transfer *)
(* that a main with the same address has taken, a handler for a worker all *)
(* of which wait themselves, a send for data that was not prepared, a join *)
(* for a round that was left behind.  The invariant says what each of them *)
(* has: a main has received no more than it waits for, so that a count over *)
(* the mains of an address shows the missing transfers still to come; the  *)
(* join repair has the data of what it sends and no round behind it; and   *)
(* when blocks are moved, their calls are answered.  It holds as long as   *)
(* nothing disturbs the repair, and what disturbs it once shows for ever   *)
(* (OverStays), because threads are started once only (StartedInv).        *)
(***************************************************************************)

\* No proxy runs out of workers: the plans that are carried out at a time leave
\* one for the helps at every proxy.
EnoughWorkers ==
  IF OneByOne THEN Workers > 1
  ELSE \A c \in Clusters : Cardinality({p \in Plans : MainOf[p] = c}) < Workers

\* Threads and handlers that were not started yet are as they were at the
\* beginning, no plan is dropped and no block spoiled, and the stages belong to the
\* repairs that have them.
Started ==
  /\ \A p \in Plans : mainRpc[p] # "dropped" /\ main[p] # "spoiled"
  /\ \A t \in Tasks : help[t] # "dropped"
  /\ \A p \in Plans : mainRpc[p] = "none" => main[p] = "off"
  /\ \A t \in Tasks : mainRpc[PlanOf[t]] = "none" => help[t] = "idle"
  /\ mode = "unordered" =>
       /\ \A p \in Plans : st[StripeOf[p]] \in {"todo", "planned"} => mainRpc[p] = "none"
       /\ \A t \in Tasks : help[t] \in {"idle", "queued", "inflight"} \/ Over(t)
       /\ \A t \in Tasks : mainRpc[PlanOf[t]] # "none" => help[t] # "idle"
  /\ stage # "stripes" => Global
  /\ Global => \A p \in Plans : mainRpc[p] = "none" <=> stage = "stripes"
  /\ stage = "mains" => \A t \in Tasks : help[t] = "idle"
  /\ stage \in {"prepare", "ready", "rounds"} => mode = "join"
  /\ mode = "ordered" /\ stage \in {"helps", "over"} =>
       \A t \in Tasks : help[t] \in {"queued", "inflight"} \/ Over(t)
StartedInv == faults = 0 => Started

\* Every transfer that was sent has been received by a main at the address it was
\* sent to, and no main has received more than it waits for.
ReceivedInv ==
  /\ \A p \in Plans : \A t \in got[p] : TargetOf(t) = Address(p)
  /\ \A p \in Plans : Cardinality(got[p]) <= Cardinality(TasksOf(p))
  /\ \A p \in Plans : got[p] # {} => mainRpc[p] # "none"
  /\ \A t \in Tasks : help[t] = "ok" => \E p \in Plans : t \in got[p]

\* The join repair has the data of what it is about to send, and leaves no round
\* behind that is not sent.
SentInv ==
  mode = "join" =>
    /\ \A t \in Tasks : help[t] \in {"prepared", "inflight"} => t \in payload
    /\ stage = "ready" =>
         /\ \A t \in RoundTasks(round + 1) : help[t] = "prepared"
         /\ HelpsOver(RoundTasks(round))
    /\ \A q \in DOMAIN Rounds : q < round => HelpsOver(Rounds[q])
    /\ stage \in {"helps", "over"} => HelpsOver(Tasks)

\* What is answered, and what the metadata says by then.
EndInv ==
  /\ mode = "serial" => \A p \in Plans : st[StripeOf[p]] = "done" => p \in located
  /\ response # "failure"
  /\ response = "success" => located = Plans /\ \A p \in Plans : Written(p)

\* What holds while nothing has disturbed the repair.
Alone ==
  /\ stripeOk /\ down = {} /\ orphans = {}
  /\ \A t \in Tasks : help[t] \notin {"failed", "unprepared"}
  /\ ReceivedInv /\ SentInv /\ EndInv
AloneInv == EnoughWorkers /\ Undisturbed => Alone

\* What was proved above of every state without a fault, which Alone builds on.
Known == HonestInv /\ RoundsInv /\ TurnsInv /\ Started

\* The steps of a repair that is left alone.
CalmStep ==
  \/ \E s \in Stripes :
       \/ PlanStripe(s) \/ SerialStripeDone(s) \/ PlainStripeDone(s)
       \/ LaunchStripe(s) \/ StripeReturns(s)
  \/ \E p \in Plans :
       LaunchPlan(p) \/ LaunchPlain(p) \/ MainListens(p) \/ (MainWrites(p) /\ ~Fault)
  \/ Collect \/ LaunchMains \/ CreateHelps \/ PrepareFirst
  \/ WarmUp /\ ~Fault
  \/ StartRound \/ LookAtFlag \/ LeaveRounds \/ FinishGlobal
  \/ \E t \in Tasks : HelpStarts(t) \/ HelpDelivers(t) \/ Prepares(t)

\* A step counts at most one fault.
LEMMA FaultsCount == ASSUME Next, TypeOK PROVE faults' = faults \/ Fault
<1> USE DEF coordinator, calls, proxies
<1> QED
  BY NextCases
  DEF PlanStripe, PlanFails, SerialStripeDone, PlainStripeDone, LaunchStripe,
      StripeReturns, LaunchPlan, LaunchPlain, PlainFails, MainListens, MainUnbound,
      MainWrites, MainGone, Collect, LaunchMains, CreateHelps, PrepareFirst,
      WarmUp, StartRound, LookAtFlag, LeaveRounds, FinishGlobal, HelpStarts,
      PlanStripeInPart, HelpDelivers, HelpRefused, HelpWithoutData, HelpGone, Prepares,
      PrepareGone, ProxyExits, TimeoutFaults

\* So a step after which there is none counts none.
LEMMA NoFault ==
  ASSUME Next, TypeOK, faults' = 0
  PROVE  faults = 0 /\ ~Fault /\ \A s \in Stripes : ~PlanStripeInPart(s)
<1>1. faults = 0 /\ ~Fault
  BY FaultsCount, BoundsAssumption DEF Fault, TypeOK
<1> QED
  BY <1>1 DEF PlanStripeInPart

\* Where no plan was dropped, those that were made are all, and so are their helps.
LEMMA AllAreMade ==
  ASSUME Started
  PROVE  /\ \A plans \in SUBSET Plans : Made(plans) = plans
         /\ HelpsOf(Plans) = Tasks
         /\ \A r : Due(r) = RoundTasks(r)
<1>1. \A plans \in SUBSET Plans : Made(plans) = plans
  BY DEF Started, Made
<1>2. HelpsOf(Plans) = Tasks
  BY PlansAssumption DEF HelpsOf
<1>3. ASSUME NEW r PROVE Due(r) = RoundTasks(r)
  <2>1. RoundTasks(r) \subseteq Tasks
    BY RoundTasksAreTasks
  <2> QED
    BY <2>1 DEF Started, Due
<1> QED
  BY <1>1, <1>2, <1>3

\* Calls and threads that are over stay as they ended.
LEMMA OverStays ==
  ASSUME Next, RoundsInv, Started, faults' = 0
  PROVE  /\ \A t \in Tasks : Over(t) => help'[t] = help[t]
         /\ \A p \in Plans : mainRpc[p] # "none" => mainRpc'[p] # "none"
         /\ \A p \in Plans : main[p] \in {"written", "crashed", "unbound"} => main'[p] = main[p]
<1> DEFINE Stays ==
      /\ \A t \in Tasks : Over(t) => help'[t] = help[t]
      /\ \A p \in Plans : mainRpc[p] # "none" => mainRpc'[p] # "none"
      /\ \A p \in Plans : main[p] \in {"written", "crashed", "unbound"} => main'[p] = main[p]
<1> USE DEF coordinator, calls, proxies
<1>1. TypeOK
  BY DEF RoundsInv
<1>2. \A t \in Tasks : PlanOf[t] \in Plans
  BY PlansAssumption
<1>3. CASE UNCHANGED <<mainRpc, main, help>>
  BY <1>3
<1>4. ASSUME NEW s \in Stripes,
             \/ PlanStripe(s) \/ PlanFails(s) \/ SerialStripeDone(s)
             \/ PlainStripeDone(s) \/ StripeReturns(s)
      PROVE  UNCHANGED <<mainRpc, main, help>>
  BY <1>4 DEF PlanStripe, PlanFails, SerialStripeDone, PlainStripeDone, StripeReturns
<1>5. ASSUME PlainFails \/ Collect \/ WarmUp \/ LookAtFlag \/ LeaveRounds \/ FinishGlobal
      PROVE  UNCHANGED <<mainRpc, main, help>>
  BY <1>5 DEF PlainFails, Collect, WarmUp, LookAtFlag, LeaveRounds, FinishGlobal
<1>6. ASSUME NEW c \in Clusters, ProxyExits(c) PROVE UNCHANGED <<mainRpc, main, help>>
  BY <1>6 DEF ProxyExits
<1>7. ASSUME NEW plans \in SUBSET Plans, CallMains(plans),
             \A p \in plans : mainRpc[p] = "none",
             NEW tasks, \A t \in tasks : PlanOf[t] \in plans, NEW value,
             help' = Set(tasks, value)
      PROVE  Stays
  <2>1. \A t \in Tasks : t \in tasks => help[t] = "idle"
    BY <1>2, <1>7 DEF Started
  <2>2. \A p \in plans : main[p] = "off"
    BY <1>7 DEF Started
  <2> QED
    BY <1>1, <1>7, <2>1, <2>2 DEF CallMains, Set, Over, TypeOK
<1>8. ASSUME NEW p \in Plans, LaunchPlan(p) \/ LaunchPlain(p) PROVE Stays
  <2>1. /\ CallMains({p}) /\ mainRpc[p] = "none" /\ help' = Set(TasksOf(p), "inflight")
        /\ \A t \in TasksOf(p) : PlanOf[t] \in {p}
    BY <1>8 DEF LaunchPlan, LaunchPlain, TasksOf
  <2> QED
    BY <2>1, <1>7
<1>9. ASSUME NEW s \in Stripes, LaunchStripe(s) PROVE Stays
  <2>1. /\ CallMains(PlansOf(s)) /\ PlansOf(s) \in SUBSET Plans
        /\ help' = Set(HelpsOf(PlansOf(s)), "queued")
        /\ \A t \in HelpsOf(PlansOf(s)) : PlanOf[t] \in PlansOf(s)
    BY <1>9, AllAreMade DEF LaunchStripe, PlansOf, HelpsOf
  <2>2. \A p \in PlansOf(s) : mainRpc[p] = "none"
    BY <1>9 DEF LaunchStripe, PlansOf, Started
  <2> QED
    BY <2>1, <2>2, <1>7
<1>10. CASE LaunchMains
  <2>1. CallMains(Plans) /\ help' = help /\ \A p \in Plans : mainRpc[p] = "none"
    BY <1>10, AllAreMade DEF LaunchMains, StripesReturned, Started
  <2> QED
    BY <2>1 DEF CallMains, Started
<1>11. CASE CreateHelps \/ PrepareFirst
  <2>1. /\ UNCHANGED <<mainRpc, main>> /\ \A t \in Tasks : help[t] = "idle"
    BY <1>11 DEF CreateHelps, PrepareFirst, Started
  <2> QED
    BY <2>1 DEF Over
<1>12. CASE StartRound
  <2>1. UNCHANGED <<mainRpc, main>> /\ mode = "join" /\ round \in Nat /\ round < Len(Rounds)
    BY <1>1, <1>12, RoundsAssumption DEF StartRound, Started, TypeOK
  <2>2. ASSUME NEW q \in {round + 1, round + 2}, NEW t \in RoundTasks(q) PROVE ~Over(t)
    <3>1. t \in Tasks /\ q > round /\ q \in DOMAIN Rounds /\ t \in Rounds[q]
      BY <2>1, RoundTasksAreTasks DEF RoundTasks
    <3>2. help[t] \in {"idle", "preparing", "prepared", "unprepared"}
      BY <2>1, <3>1 DEF RoundsInv, JoinInv, TaskInv, Started
    <3> QED
      BY <3>2 DEF Over
  <2> QED
    BY <1>1, <1>12, <2>1, <2>2, StartRoundHelp, AllAreMade
<1>13. ASSUME NEW p \in Plans,
              \/ MainListens(p) \/ MainUnbound(p) \/ MainWrites(p) \/ MainGone(p)
              \/ MainTimesOut(p)
       PROVE  Stays
  BY <1>1, <1>13, MainFrame
<1>14. ASSUME NEW t \in Tasks,
              \/ HelpStarts(t) \/ HelpDelivers(t) \/ HelpRefused(t) \/ HelpWithoutData(t)
              \/ HelpGone(t) \/ HelpTimesOut(t)
              \/ Prepares(t) \/ PrepareGone(t) \/ PrepareTimesOut(t)
       PROVE  Stays
  <2>1. CASE HelpStarts(t) \/ Prepares(t) \/ PrepareGone(t) \/ PrepareTimesOut(t)
    BY <1>1, <2>1 DEF HelpStarts, Prepares, PrepareGone, PrepareTimesOut, Over, TypeOK
  <2>2. CASE ~(HelpStarts(t) \/ Prepares(t) \/ PrepareGone(t) \/ PrepareTimesOut(t))
    BY <1>1, <1>14, <2>2, HelpFrame DEF Over
  <2> QED
    BY <2>1, <2>2
<1>15. Stays
  BY NextCases, NoFault, <1>1, <1>3, <1>4, <1>5, <1>6, <1>8, <1>9, <1>10, <1>11, <1>12, <1>13,
     <1>14
<1> QED
  BY <1>15

\* Nothing has started in the beginning.
LEMMA StartedInit == Init => StartedInv
  BY PlansAssumption DEF Init, StartedInv, Started, Over

\* Every action starts what was not started, and in its own stage.
LEMMA StartedStep ==
  ASSUME Next, RoundsInv, Started, faults' = 0
  PROVE  Started'
<1> USE DEF coordinator, calls, proxies, Started
<1>1. TypeOK /\ TypeOK' /\ ~Fault
  BY TypeStep, NoFault DEF RoundsInv
<1>2. /\ \A t \in Tasks : PlanOf[t] \in Plans
      /\ \A p \in Plans : StripeOf[p] \in Stripes
  BY PlansAssumption
<1>3. ASSUME NEW s \in Stripes, PlanStripe(s) \/ PlanFails(s) PROVE Started'
  <2>1. UNCHANGED <<mode, stage, mainRpc, help, main>>
    BY <1>3 DEF PlanStripe, PlanFails
  <2>2. \A r \in Stripes : st'[r] \in {"todo", "planned"} => st[r] \in {"todo", "planned"}
    BY <1>1, <1>3 DEF PlanStripe, PlanFails, MayPlan, TypeOK
  <2> QED
    BY <1>2, <2>1, <2>2 DEF Over, Global
<1>4. ASSUME NEW s \in Stripes,
             SerialStripeDone(s) \/ PlainStripeDone(s) \/ StripeReturns(s)
      PROVE  Started'
  <2>1. UNCHANGED <<mode, stage, mainRpc, help, main>> /\ st' = [st EXCEPT ![s] = "done"]
    BY <1>4 DEF SerialStripeDone, PlainStripeDone, StripeReturns
  <2> QED
    BY <1>1, <1>2, <2>1 DEF Over, Global, TypeOK
<1>5. ASSUME PlainFails \/ Collect PROVE Started'
  BY <1>5 DEF PlainFails, Collect, Over, Global
<1>6. ASSUME WarmUp \/ LookAtFlag \/ LeaveRounds \/ FinishGlobal PROVE Started'
  <2>1. UNCHANGED <<mode, mainRpc, main, help, st>> /\ stage' \in {"ready", "helps", "over"}
    BY <1>6 DEF WarmUp, LookAtFlag, LeaveRounds, FinishGlobal
  <2>2. CASE WarmUp
    BY <2>1, <2>2 DEF WarmUp, Global
  <2>3. CASE LookAtFlag \/ LeaveRounds
    BY <2>1, <2>3 DEF LookAtFlag, LeaveRounds, Global
  <2>4. CASE FinishGlobal
    BY <2>1, <2>4 DEF FinishGlobal, Global, Over
  <2> QED
    BY <1>6, <2>2, <2>3, <2>4
<1>7. ASSUME NEW c \in Clusters, ProxyExits(c) PROVE Started'
  BY <1>7 DEF ProxyExits, Over, Global
<1>8. ASSUME NEW p \in Plans, LaunchPlan(p) \/ LaunchPlain(p) PROVE Started'
  <2>1. mode \in {"plain", "serial"} /\ UNCHANGED coordinator
    BY <1>1, <1>8, LaunchFrame DEF LaunchPlan, LaunchPlain
  <2> QED
    BY <1>1, <1>2, <1>8, <2>1, LaunchFrame DEF Global, TypeOK
<1>9. ASSUME NEW s \in Stripes, LaunchStripe(s) PROVE Started'
  <2>1. /\ mode = "unordered" /\ st' = [st EXCEPT ![s] = "running"] /\ UNCHANGED <<mode, stage>>
        /\ \A p \in Plans : IF p \in PlansOf(s) THEN mainRpc'[p] = "pending" /\ main'[p] = "called"
                                                ELSE mainRpc'[p] = mainRpc[p] /\ main'[p] = main[p]
        /\ \A t \in Tasks : help'[t] = IF PlanOf[t] \in PlansOf(s) THEN "queued" ELSE help[t]
    BY <1>2, <1>9, AllAreMade DEF LaunchStripe, CallMains, Set, HelpsOf, PlansOf
  <2> QED
    BY <1>1, <1>2, <2>1 DEF Global, PlansOf, TypeOK, Over
<1>10. CASE LaunchMains
  <2>1. /\ Global /\ mode' = mode /\ stage' = "mains" /\ help' = help
        /\ CallMains(Plans)
    BY <1>10, AllAreMade DEF LaunchMains
  <2>2. \A p \in Plans : mainRpc'[p] = "pending" /\ mainRpc[p] = "none" /\ main'[p] = "called"
    BY <1>10, <2>1 DEF LaunchMains, CallMains, StripesReturned
  <2> QED
    BY <1>2, <2>1, <2>2 DEF Global
<1>11. CASE CreateHelps \/ PrepareFirst
  <2>1. /\ stage = "mains" /\ UNCHANGED <<mode, mainRpc, main, st>>
        /\ CreateHelps => mode = "ordered" /\ stage' = "helps" /\ help' = Set(Tasks, "queued")
        /\ PrepareFirst => mode = "join" /\ stage' = "prepare"
                             /\ help' = Set(RoundTasks(1), "preparing")
    BY <1>11, AllAreMade DEF CreateHelps, PrepareFirst
  <2>2. \A p \in Plans : mainRpc[p] # "none"
    BY <2>1
  <2>3. CASE CreateHelps
    <3>1. \A t \in Tasks : help'[t] = "queued"
      BY <2>1, <2>3 DEF Set
    <3> QED
      BY <1>2, <2>1, <2>2, <2>3, <3>1 DEF Global
  <2>4. CASE PrepareFirst
    <3>1. \A t \in Tasks : help'[t] \in {"idle", "preparing"}
      BY <2>1, <2>4 DEF Set
    <3> QED
      BY <1>2, <2>1, <2>2, <2>4, <3>1 DEF Global
  <2> QED
    BY <1>11, <2>3, <2>4
<1>12. CASE StartRound
  <2>1. UNCHANGED <<mainRpc, main, mode>> /\ mode = "join" /\ stage' = "rounds"
         /\ stage = "ready"
    BY <1>12 DEF StartRound
  <2>2. \A t \in Tasks : help'[t] # "dropped"
    BY <1>1, <1>12, StartRoundHelp
  <2> QED
    BY <1>2, <2>1, <2>2 DEF Global
<1>13. ASSUME NEW p \in Plans,
              \/ MainListens(p) \/ MainUnbound(p) \/ MainWrites(p) \/ MainGone(p)
              \/ MainTimesOut(p)
       PROVE  Started'
  <2>1. /\ UNCHANGED <<mode, stage, st, help>>
        /\ \A q \in Plans : (mainRpc'[q] = "none" <=> mainRpc[q] = "none")
        /\ \A q \in Plans : mainRpc[q] = "none" => main'[q] = "off"
        /\ \A q \in Plans : mainRpc'[q] # "dropped"
    BY <1>1, <1>13, MainFrame
  <2>2. \A q \in Plans : main'[q] # "spoiled"
    BY <1>1, <1>13 DEF MainListens, MainUnbound, MainWrites, MainGone, MainTimesOut, TypeOK
  <2> QED
    BY <1>2, <2>1, <2>2 DEF Global, Over
<1>14. ASSUME NEW t \in Tasks,
              \/ HelpStarts(t) \/ HelpDelivers(t) \/ HelpRefused(t) \/ HelpWithoutData(t)
              \/ HelpGone(t) \/ HelpTimesOut(t)
              \/ Prepares(t) \/ PrepareGone(t) \/ PrepareTimesOut(t)
       PROVE  Started'
  <2>1. /\ UNCHANGED <<mode, stage, st, mainRpc, main>>
        /\ \A u \in Tasks : u # t => help'[u] = help[u]
        /\ \/ help'[t] = help[t]
           \/ help[t] \in {"queued", "inflight"} /\ help'[t] \in {"inflight", "ok", "failed", "refused"}
           \/ help[t] = "preparing" /\ help'[t] \in {"prepared", "unprepared"}
    <3>1. CASE HelpStarts(t)
      BY <1>1, <3>1 DEF HelpStarts, TypeOK
    <3>2. CASE Prepares(t) \/ PrepareGone(t) \/ PrepareTimesOut(t)
      BY <1>1, <3>2 DEF Prepares, PrepareGone, PrepareTimesOut, TypeOK
    <3>3. CASE \/ HelpDelivers(t) \/ HelpRefused(t) \/ HelpWithoutData(t) \/ HelpGone(t)
               \/ HelpTimesOut(t)
      BY <1>1, <3>3, HelpFrame
    <3> QED
      BY <1>14, <3>1, <3>2, <3>3
  <2> QED
    BY <1>2, <2>1 DEF Global, Over
<1> QED
  BY NextCases, NoFault, <1>1, <1>3, <1>4, <1>5, <1>6, <1>7, <1>8, <1>9, <1>10, <1>11, <1>12,
     <1>13, <1>14

\* What was disturbed once stays so.
LEMMA UndisturbedBefore ==
  ASSUME Next, RoundsInv, StartedInv, Undisturbed'
  PROVE  Undisturbed /\ ~Fault /\ Started
<1>1. faults' = 0 /\ TypeOK
  BY DEF RoundsInv, Undisturbed
<1>2. faults = 0 /\ ~Fault /\ Started
  BY <1>1, NoFault DEF StartedInv
<1>3. \A t \in Tasks : help[t] # "refused"
  BY <1>1, <1>2, OverStays DEF Undisturbed, Over
<1>4. \A p \in Plans : main[p] # "unbound"
  BY <1>1, <1>2, OverStays DEF Undisturbed
<1> QED
  BY <1>2, <1>3, <1>4 DEF Undisturbed

\* A set that is not larger than another one can be mapped into it.
LEMMA SmallerInjects ==
  ASSUME NEW S, NEW T, IsFiniteSet(S), IsFiniteSet(T), Cardinality(S) <= Cardinality(T)
  PROVE  \E f \in [S -> T] : \A x, y \in S : f[x] = f[y] => x = y
<1>1. /\ Cardinality(S) \in Nat /\ ExistsBijection(1 .. Cardinality(S), S)
      /\ Cardinality(T) \in Nat /\ ExistsBijection(1 .. Cardinality(T), T)
  BY FS_CardinalityType
<1>2. PICK b \in [1 .. Cardinality(S) -> S] :
        \A x \in S : \E i \in 1 .. Cardinality(S) : b[i] = x
  BY <1>1 DEF ExistsBijection, Bijection, Surjection
<1>3. PICK c \in [1 .. Cardinality(T) -> T] :
        \A i, j \in 1 .. Cardinality(T) : c[i] = c[j] => i = j
  BY <1>1 DEF ExistsBijection, Bijection, Injection, IsInjective
<1> DEFINE At(x) == CHOOSE i \in 1 .. Cardinality(S) : b[i] = x
<1>4. \A x \in S : At(x) \in 1 .. Cardinality(S) /\ b[At(x)] = x
  BY <1>2
<1>5. \A x \in S : At(x) \in 1 .. Cardinality(T)
  BY <1>1, <1>4
<1> HIDE DEF At
<1>6. [x \in S |-> c[At(x)]] \in [S -> T]
  BY <1>3, <1>5
<1>7. \A x, y \in S : c[At(x)] = c[At(y)] => x = y
  BY <1>3, <1>4, <1>5
<1> QED
  BY <1>6, <1>7

\* Sets that are each not larger than their counterpart are not larger together,
\* when the counterparts are apart.
LEMMA NotLargerTogether ==
  ASSUME NEW U, IsFiniteSet(U), NEW I, NEW A \in [I -> SUBSET U], NEW B \in [I -> SUBSET U],
         \A i \in I : Cardinality(A[i]) <= Cardinality(B[i]),
         \A i, j \in I : i # j => B[i] \cap B[j] = {}
  PROVE  Cardinality(UNION {A[i] : i \in I}) <= Cardinality(UNION {B[i] : i \in I})
<1> DEFINE UA == UNION {A[i] : i \in I}
           UB == UNION {B[i] : i \in I}
           Fits(i, f) == f \in [A[i] -> B[i]] /\ \A x, y \in A[i] : f[x] = f[y] => x = y
           Into(i) == CHOOSE f : Fits(i, f)
           Own(x) == CHOOSE i \in I : x \in A[i]
<1>1. \A i \in I : Fits(i, Into(i))
  <2>1. \A i \in I : IsFiniteSet(A[i]) /\ IsFiniteSet(B[i])
    BY FS_Subset
  <2>2. \A i \in I : \E f : Fits(i, f)
    BY <2>1, SmallerInjects
  <2> QED
    BY <2>2
<1>2. \A x \in UA : Own(x) \in I /\ x \in A[Own(x)]
  OBVIOUS
<1> HIDE DEF Into, Own
<1>3. \A x \in UA : Into(Own(x))[x] \in B[Own(x)]
  BY <1>1, <1>2
<1>4. \A x, y \in UA : Into(Own(x))[x] = Into(Own(y))[y] => x = y
  <2> SUFFICES ASSUME NEW x \in UA, NEW y \in UA, Into(Own(x))[x] = Into(Own(y))[y]
               PROVE  x = y
    OBVIOUS
  <2>1. Own(x) = Own(y)
    BY <1>2, <1>3
  <2> QED
    BY <1>1, <1>2, <2>1
<1>5. \A x \in UA : Into(Own(x))[x] \in UB
  BY <1>2, <1>3
<1> DEFINE g == [x \in UA |-> Into(Own(x))[x]]
<1>6. g \in Injection(UA, UB)
  BY <1>4, <1>5 DEF Injection, IsInjective
<1>7. IsFiniteSet(UB)
  BY FS_Subset
<1> HIDE DEF UA, UB, g
<1>8. Cardinality(UA) <= Cardinality(UB)
  BY <1>6, <1>7, FS_Injection
<1> QED
  BY <1>8 DEF UA, UB

\* A proxy has a worker left for a handler that wants to begin.
LEMMA WorkersLeft ==
  ASSUME Known, EnoughWorkers, stripeOk, NEW c \in Clusters
  PROVE  WorkerFree(c)
<1> DEFINE Busy == {p \in Plans : main[p] = "listening" /\ MainOf[p] = c}
<1>1. IsFiniteSet(Busy) /\ Cardinality(Busy) \in Nat
  BY PlansAssumption, FS_Subset, FS_CardinalityType
<1>2. CASE OneByOne
  <2>1. \A p, q \in Busy : p = q
    BY <1>2 DEF Known, TurnsInv, QuietInv, LaunchInv, Launched, Orderly, OneByOne, Quiet,
                Ended
  <2>2. Busy = {} \/ \E p : Busy = {p}
    BY <2>1
  <2>3. Cardinality(Busy) <= 1
    <3> HIDE DEF Busy
    <3>1. CASE Busy = {}
      BY <3>1, FS_EmptySet
    <3>2. ASSUME NEW p, Busy = {p} PROVE Cardinality(Busy) <= 1
      <4>1. Cardinality({p}) = 1
        BY ONLY FS_Singleton, Zenon
      <4> QED
        BY <3>2, <4>1
    <3> QED
      BY <2>2, <3>1, <3>2
  <2> QED
    BY <1>1, <1>2, <2>3, BoundsAssumption DEF EnoughWorkers, WorkerFree
<1>3. CASE ~OneByOne
  <2> DEFINE AtC == {p \in Plans : MainOf[p] = c}
  <2>1. Cardinality(AtC) < Workers /\ IsFiniteSet(AtC) /\ Busy \in SUBSET AtC
    BY <1>3, PlansAssumption, FS_Subset DEF EnoughWorkers
  <2>2. Cardinality(AtC) \in Nat /\ Cardinality(Busy) <= Cardinality(AtC)
    BY <2>1, FS_Subset, FS_CardinalityType
  <2> HIDE DEF AtC
  <2> QED
    BY <1>1, <2>1, <2>2, BoundsAssumption DEF WorkerFree
<1> QED
  BY <1>2, <1>3

\* A transfer of a plan that was started has arrived or may still come.
LEMMA ArrivesOrComes ==
  ASSUME Known, Undisturbed, Alone, NEW t \in Tasks, mainRpc[PlanOf[t]] # "none",
         help[t] # "ok"
  PROVE  MayCome(t)
<1>1. ~Over(t) /\ mode \in {"plain", "serial", "unordered", "ordered", "join"}
  BY BoundsAssumption DEF Alone, Undisturbed, Over, Known, Started, TurnsInv, TypeOK
<1>2. PlanOf[t] \in Plans
  BY PlansAssumption
<1>3. CASE OneByOne
  BY <1>1, <1>2, <1>3 DEF Known, Started, TurnsInv, LaunchInv, Launched, MayCome
<1>4. CASE mode = "unordered"
  BY <1>1, <1>4 DEF Known, Started, MayCome
<1>5. CASE Global
  <2>1. CASE stage # "helps"
    BY <1>1, <1>5, <2>1 DEF MayCome
  <2>2. CASE stage = "helps"
    BY <1>1, <1>5, <2>2 DEF Global, Known, Started, Alone, SentInv, HelpsOver, MayCome
  <2> QED
    BY <2>1, <2>2
<1> QED
  BY <1>1, <1>3, <1>4, <1>5 DEF OneByOne, Global

\* A main that accepts is owed no more than may still come: what the other mains
\* at its address have received of its transfers, they leave of their own.
LEMMA OwedCanCome ==
  ASSUME Known, Undisturbed, Alone, NEW p \in Plans, main[p] = "listening"
  PROVE  Cardinality(got[p])
           + Cardinality({t \in Tasks : MayCome(t) /\ TargetOf(t) = Address(p)})
         >= Cardinality(TasksOf(p))
<1> DEFINE I == {q \in Launched : q # p /\ Address(q) = Address(p)}
           A == [q \in I |-> got[q]]
           B == [q \in I |-> TasksOf(q)]
           R == UNION {A[q] : q \in I}
           D == UNION {B[q] : q \in I}
           M == {t \in Tasks : MayCome(t) /\ TargetOf(t) = Address(p)}
<1>1. TypeOK /\ p \in Launched /\ I \subseteq Plans
  BY DEF Known, TurnsInv, Started, Launched
<1>2. A \in [I -> SUBSET Tasks] /\ B \in [I -> SUBSET Tasks]
  BY <1>1 DEF TypeOK, TasksOf
<1>3. /\ \A q \in I : Cardinality(A[q]) <= Cardinality(B[q])
      /\ \A q, r \in I : q # r => B[q] \cap B[r] = {}
  BY <1>1 DEF Alone, ReceivedInv, TasksOf
<1>4. TasksOf(p) \cup D \subseteq got[p] \cup (R \cup M)
  <2> SUFFICES ASSUME NEW t \in TasksOf(p) \cup D, t \notin M
               PROVE  t \in got[p] \cup R
    OBVIOUS
  <2>1. /\ t \in Tasks /\ PlanOf[t] \in Launched /\ PlanOf[t] \in Plans
        /\ TargetOf(t) = Address(p)
    BY <1>1 DEF TasksOf, TargetOf
  <2>2. help[t] = "ok"
    BY <2>1, ArrivesOrComes DEF Launched
  <2>3. PICK q \in Plans : t \in got[q]
    BY <2>1, <2>2 DEF Alone, ReceivedInv
  <2>4. Address(q) = Address(p) /\ q \in Launched
    BY <2>1, <2>3 DEF Alone, ReceivedInv, Launched, Known, Started
  <2> QED
    BY <2>3, <2>4
<1>5. TasksOf(p) \cap D = {}
  BY DEF TasksOf
<1>6. got[p] \subseteq Tasks /\ TasksOf(p) \subseteq Tasks /\ D \subseteq Tasks /\ R \subseteq Tasks
  BY <1>1, <1>2 DEF TypeOK, TasksOf
<1>7. M \subseteq Tasks /\ IsFiniteSet(Tasks)
  BY PlansAssumption
<1> HIDE DEF I, M
<1> HIDE DEF A, B
<1>8. Cardinality(R) <= Cardinality(D)
  BY <1>2, <1>3, <1>7, NotLargerTogether
<1> HIDE DEF R, D
<1>9. \A S \in SUBSET Tasks : IsFiniteSet(S) /\ Cardinality(S) \in Nat
  BY <1>7, FS_Subset, FS_CardinalityType
<1>10. \A S, T \in SUBSET Tasks :
         Cardinality(S \cup T) = Cardinality(S) + Cardinality(T) - Cardinality(S \cap T)
  BY <1>9, FS_Union
<1>11. Cardinality(TasksOf(p) \cup D) = Cardinality(TasksOf(p)) + Cardinality(D)
  <2>1. /\ TasksOf(p) \in SUBSET Tasks /\ D \in SUBSET Tasks
        /\ Cardinality(TasksOf(p) \cap D) = 0
    BY <1>5, <1>6, FS_EmptySet
  <2>2. Cardinality(TasksOf(p) \cup D) =
          Cardinality(TasksOf(p)) + Cardinality(D) - Cardinality(TasksOf(p) \cap D)
    BY ONLY <2>1, <1>10
  <2>3. Cardinality(TasksOf(p)) \in Nat /\ Cardinality(D) \in Nat
    BY <2>1, <1>9
  <2> QED
    BY ONLY <2>1, <2>2, <2>3
<1>12. Cardinality(TasksOf(p) \cup D) <= Cardinality(got[p] \cup (R \cup M))
  <2>1. got[p] \cup (R \cup M) \in SUBSET Tasks
    BY <1>6, <1>7
  <2>2. TasksOf(p) \cup D \in SUBSET (got[p] \cup (R \cup M))
    BY <1>4
  <2> QED
    BY <1>9, <2>1, <2>2, FS_Subset
<1>13. /\ Cardinality(got[p] \cup (R \cup M)) <= Cardinality(got[p]) + Cardinality(R \cup M)
       /\ Cardinality(R \cup M) <= Cardinality(R) + Cardinality(M)
  <2>1. ASSUME NEW S \in SUBSET Tasks, NEW T \in SUBSET Tasks
        PROVE  S \cup T \in SUBSET Tasks
                 /\ Cardinality(S \cup T) <= Cardinality(S) + Cardinality(T)
    <3>1. S \cap T \in SUBSET Tasks /\ S \cup T \in SUBSET Tasks
      OBVIOUS
    <3>2. /\ Cardinality(S) \in Nat /\ Cardinality(T) \in Nat
          /\ Cardinality(S \cap T) \in Nat
      BY <3>1, <1>9
    <3>3. Cardinality(S \cup T) = Cardinality(S) + Cardinality(T) - Cardinality(S \cap T)
      BY ONLY <1>10, S \in SUBSET Tasks, T \in SUBSET Tasks
    <3> QED
      BY ONLY <3>1, <3>2, <3>3
  <2> QED
    BY <1>6, <1>7, <2>1
<1>14. \A S \in {got[p], R, M, D, TasksOf(p), R \cup M} : Cardinality(S) \in Nat
  BY <1>6, <1>7, <1>9
<1>15. Cardinality(got[p]) + Cardinality(M) >= Cardinality(TasksOf(p))
  <2> DEFINE g == Cardinality(got[p])
             r == Cardinality(R)
             m == Cardinality(M)
             d == Cardinality(D)
             k == Cardinality(TasksOf(p))
             rm == Cardinality(R \cup M)
  <2>1. \A n \in {g, r, m, d, k, rm} : n \in Nat
    BY <1>14
  <2>2. r <= d /\ k + d <= g + rm /\ rm <= r + m
    <3>1. Cardinality(got[p] \cup (R \cup M)) \in Nat
      BY <1>6, <1>7, <1>9
    <3> QED
      BY <3>1, <2>1, <1>8, <1>11, <1>12, <1>13
  <2> HIDE DEF g, r, m, d, k, rm
  <2>3. g + m >= k
    BY ONLY <2>1, <2>2
  <2> QED
    BY <2>3 DEF g, m, k
<1> QED
  BY <1>15 DEF M

\* Left alone, nobody waits for a worker or for transfers that will never come.
LEMMA NobodyStarves ==
  ASSUME Known, EnoughWorkers, Undisturbed, Alone
  PROVE  /\ \A p \in Plans : ~MainStarves(p)
         /\ \A t \in Tasks : ~HelpStarves(t)
<1>1. stripeOk /\ TypeOK
  BY DEF Alone, Known, TurnsInv
<1>2. ASSUME NEW p \in Plans PROVE ~MainStarves(p)
  <2> DEFINE M == {t \in Tasks : MayCome(t) /\ TargetOf(t) = Address(p)}
  <2>1. WorkerFree(MainOf[p])
    BY <1>1, WorkersLeft, PlansAssumption
  <2>2. /\ Cardinality(got[p]) \in Nat /\ Cardinality(M) \in Nat
        /\ Cardinality(TasksOf(p)) \in Nat
    BY <1>1, PlansAssumption, FS_Subset, FS_CardinalityType DEF TypeOK, TasksOf
  <2>3. main[p] = "listening" => Cardinality(got[p]) + Cardinality(M) >= Cardinality(TasksOf(p))
    BY OwedCanCome
  <2> HIDE DEF M
  <2>4. ~(Cardinality(got[p]) + Cardinality(M) < Cardinality(TasksOf(p)))
          \/ main[p] # "listening"
    BY <2>2, <2>3
  <2> QED
    BY <2>1, <2>4 DEF MainStarves, M
<1>3. ASSUME NEW t \in Tasks PROVE ~HelpStarves(t)
  BY <1>1, WorkersLeft, PlansAssumption DEF HelpStarves
<1> QED
  BY <1>2, <1>3

\* When nothing disturbs the repair, no call is answered with an error, nothing is
\* missing, and no timeout is met.
LEMMA CalmCases ==
  ASSUME Known, EnoughWorkers, Undisturbed, Alone, Next, Undisturbed', ~Fault
  PROVE  CalmStep
<1>1. TypeOK /\ stripeOk /\ down = {} /\ orphans = {}
  BY DEF Known, TurnsInv, Alone
<1>2. Coordinator \/ Proxies \/ TimeoutAtLast \/ Faults
  BY DEF Next
<1>3. ~TimeoutAtLast
  BY NobodyStarves DEF TimeoutAtLast
<1>4. ~Faults
  BY DEF Faults, PlanFails, PlanStripeInPart, ProxyExits, EarlyTimeout
<1>5. ~PlainFails
  BY <1>1 DEF PlainFails
<1>6. ASSUME NEW p \in Plans, MainUnbound(p) PROVE FALSE
  BY <1>1, <1>6 DEF MainUnbound, Undisturbed, TypeOK
<1>7. ASSUME NEW p \in Plans, MainGone(p) PROVE FALSE
  BY <1>1, <1>7 DEF MainGone
<1>8. ASSUME NEW t \in Tasks, HelpRefused(t) PROVE FALSE
  BY <1>1, <1>8 DEF HelpRefused, HelpAnswers, Sending, Undisturbed, TypeOK
<1>9. ASSUME NEW t \in Tasks, HelpWithoutData(t) PROVE FALSE
  BY <1>1, <1>9 DEF HelpWithoutData, Sending, HasData, Alone, SentInv
<1>10. ASSUME NEW t \in Tasks, HelpGone(t) \/ PrepareGone(t) PROVE FALSE
  BY <1>1, <1>10 DEF HelpGone, PrepareGone
<1>11. Coordinator => CalmStep
  BY <1>5 DEF Coordinator, CalmStep
<1>12. Proxies => CalmStep
  BY <1>6, <1>7, <1>8, <1>9, <1>10 DEF Proxies, CalmStep
<1> QED
  BY <1>2, <1>3, <1>4, <1>11, <1>12

\* Left alone, the mains go on receiving what they wait for.
LEMMA ReceivedStep ==
  ASSUME Known, Alone, Next, faults' = 0, CalmStep
  PROVE  ReceivedInv' /\ stripeOk' /\ down' = {} /\ orphans' = {}
         /\ \A t \in Tasks : help'[t] \notin {"failed", "unprepared"}
<1> USE DEF coordinator, calls, proxies
<1> DEFINE Fine == /\ stripeOk' /\ down' = {} /\ orphans' = {}
                   /\ \A t \in Tasks : help'[t] \notin {"failed", "unprepared"}
<1>1. /\ TypeOK /\ RoundsInv /\ Started /\ ReceivedInv /\ stripeOk
      /\ down = {} /\ orphans = {} /\ \A t \in Tasks : help[t] \notin {"failed", "unprepared"}
  BY DEF Known, TurnsInv, Alone
<1>2. mode' = mode /\ \A p \in Plans : mainRpc[p] # "none" => mainRpc'[p] # "none"
  BY <1>1, ModeStays, OverStays
<1>3. ASSUME got' = got, \A t \in Tasks : help'[t] = "ok" => help[t] = "ok"
      PROVE  ReceivedInv'
  BY <1>1, <1>2, <1>3 DEF ReceivedInv, Address, TargetOf, TasksOf
<1>4. ASSUME NEW s \in Stripes,
             \/ PlanStripe(s) \/ SerialStripeDone(s) \/ PlainStripeDone(s)
             \/ LaunchStripe(s) \/ StripeReturns(s)
      PROVE  ReceivedInv' /\ Fine
  <2>1. CASE LaunchStripe(s)
    BY <1>1, <1>3, <2>1 DEF LaunchStripe, Set
  <2>2. CASE ~LaunchStripe(s)
    BY <1>1, <1>3, <1>4, <2>2
       DEF PlanStripe, SerialStripeDone, PlainStripeDone, StripeReturns
  <2> QED
    BY <2>1, <2>2
<1>5. ASSUME NEW p \in Plans, LaunchPlan(p) \/ LaunchPlain(p) PROVE ReceivedInv' /\ Fine
  BY <1>1, <1>3, <1>5 DEF LaunchPlan, LaunchPlain, Set
<1>6. ASSUME NEW p \in Plans, MainListens(p) \/ MainWrites(p)
      PROVE  ReceivedInv' /\ Fine
  BY <1>1, <1>3, <1>6 DEF MainListens, MainWrites, MainAnswers
<1>7. ASSUME Collect \/ LaunchMains \/ CreateHelps \/ PrepareFirst \/ (WarmUp /\ ~Fault)
             \/ LookAtFlag \/ LeaveRounds \/ FinishGlobal
      PROVE  ReceivedInv' /\ Fine
  <2>1. CASE CreateHelps \/ PrepareFirst
    BY <1>1, <1>3, <2>1 DEF CreateHelps, PrepareFirst, Set
  <2>2. CASE ~(CreateHelps \/ PrepareFirst)
    BY <1>1, <1>3, <1>7, <2>2
       DEF Collect, LaunchMains, WarmUp, LookAtFlag, LeaveRounds, FinishGlobal
  <2> QED
    BY <2>1, <2>2
<1>8. ASSUME StartRound PROVE ReceivedInv' /\ Fine
  <2>1. UNCHANGED <<got, down, orphans, stripeOk>>
    BY <1>8 DEF StartRound
  <2>2. \A t \in Tasks : help'[t] \in {"inflight", "preparing"} \/ help'[t] = help[t]
    BY <1>1, <1>8, StartRoundHelp
  <2> QED
    BY <1>1, <1>3, <2>1, <2>2
<1>9. ASSUME NEW t \in Tasks, HelpStarts(t) \/ Prepares(t) PROVE ReceivedInv' /\ Fine
  BY <1>1, <1>3, <1>9 DEF HelpStarts, Prepares, TypeOK
<1>10. ASSUME NEW t \in Tasks, HelpDelivers(t) PROVE ReceivedInv' /\ Fine
  <2>1. /\ help[t] = "inflight" /\ help' = [help EXCEPT ![t] = "ok"]
        /\ stripeOk' = stripeOk /\ orphans' = {} /\ down' = down
    BY <1>1, <1>10 DEF HelpDelivers, HelpAnswers, Sending, TypeOK
  <2>2. PICK p \in Bound(TargetOf(t)) : ~Full(p) /\ got' = [got EXCEPT ![p] = @ \cup {t}]
    BY <1>10 DEF HelpDelivers
  <2>3. p \in Plans /\ Address(p) = TargetOf(t) /\ mainRpc[p] # "none"
    BY <1>1, <2>2 DEF Bound, Reachable, Started
  <2>4. Fine
    BY <1>1, <2>1 DEF TypeOK
  <2>5. /\ \A q \in Plans : q # p => got'[q] = got[q]
        /\ got'[p] = got[p] \cup {t}
    BY <1>1, <2>2, <2>3 DEF TypeOK
  <2>6. Cardinality(got'[p]) <= Cardinality(TasksOf(p))
    <3>1. /\ got[p] \in SUBSET Tasks /\ TasksOf(p) \in SUBSET Tasks
      BY <1>1, <2>3 DEF TypeOK, TasksOf
    <3>2. IsFiniteSet(got[p]) /\ IsFiniteSet(TasksOf(p))
      BY <3>1, PlansAssumption, FS_Subset
    <3>3. Cardinality(got[p]) \in Nat /\ Cardinality(TasksOf(p)) \in Nat
      BY <3>2, FS_CardinalityType
    <3>4. Cardinality(got[p]) < Cardinality(TasksOf(p))
      BY <1>1, <2>2, <2>3, <3>3 DEF Full, ReceivedInv
    <3>5. Cardinality(got[p] \cup {t}) <= Cardinality(got[p]) + 1
      <4>1. Cardinality(got[p] \cup {t}) =
              IF t \in got[p] THEN Cardinality(got[p]) ELSE Cardinality(got[p]) + 1
        BY ONLY <3>2, FS_AddElement, Zenon
      <4> QED
        BY ONLY <3>3, <4>1
    <3>6. Cardinality(got[p] \cup {t}) \in Nat
      BY <3>2, FS_AddElement, FS_CardinalityType
    <3> QED
      BY <2>5, <3>3, <3>4, <3>5, <3>6
  <2>7. \A q \in Plans : \A u \in got'[q] : TargetOf(u) = Address(q)
    BY <1>1, <2>3, <2>5 DEF ReceivedInv
  <2>8. \A q \in Plans : Cardinality(got'[q]) <= Cardinality(TasksOf(q))
    BY <1>1, <2>5, <2>6 DEF ReceivedInv
  <2>9. \A q \in Plans : got'[q] # {} => mainRpc'[q] # "none"
    BY <1>1, <1>2, <2>3, <2>5 DEF ReceivedInv
  <2>10. \A u \in Tasks : help'[u] = "ok" => \E q \in Plans : u \in got'[q]
    <3> SUFFICES ASSUME NEW u \in Tasks, help'[u] = "ok" PROVE \E q \in Plans : u \in got'[q]
      OBVIOUS
    <3>1. CASE u = t
      BY <2>3, <2>5, <3>1
    <3>2. CASE u # t
      <4>1. help[u] = "ok"
        BY <1>1, <2>1, <3>2 DEF TypeOK
      <4>2. PICK q \in Plans : u \in got[q]
        BY <1>1, <4>1 DEF ReceivedInv
      <4> QED
        BY <2>5, <4>2
    <3> QED
      BY <3>1, <3>2
  <2> QED
    BY <1>2, <2>4, <2>7, <2>8, <2>9, <2>10 DEF ReceivedInv, Address, TargetOf, TasksOf
<1> QED
  BY <1>4, <1>5, <1>6, <1>7, <1>8, <1>9, <1>10 DEF CalmStep

\* Left alone, the join repair prepares before it sends and sends before it goes on.
LEMMA SentStep ==
  ASSUME Known, Alone, Next, faults' = 0, CalmStep
  PROVE  SentInv'
<1> USE DEF coordinator, calls, proxies
<1>1. /\ TypeOK /\ TypeOK' /\ RoundsInv /\ Started
      /\ \A t \in Tasks : help[t] \notin {"failed", "unprepared"}
  BY TypeStep DEF Known, TurnsInv, Alone
<1>2. mode' = mode /\ \A t \in Tasks : Over(t) => help'[t] = help[t]
  BY <1>1, ModeStays, OverStays
<1> SUFFICES ASSUME mode = "join" PROVE SentInv'
  BY <1>2 DEF SentInv
<1>3. /\ SentInv /\ TaskInv /\ CounterInv /\ round \in Nat
  BY <1>1 DEF Alone, RoundsInv, JoinInv, TypeOK
<1>4. \A tasks \in SUBSET Tasks : HelpsOver(tasks) => \A t \in tasks : help'[t] = help[t]
  BY <1>2 DEF HelpsOver
<1>5. \A q \in DOMAIN Rounds : Rounds[q] \in SUBSET Tasks
  BY RoundsAssumption
<1>6. ASSUME UNCHANGED <<stage, round, payload>>,
             \A t \in Tasks : help'[t] = help[t]
      PROVE  SentInv'
  BY <1>2, <1>3, <1>5, <1>6, RoundTasksAreTasks DEF SentInv, HelpsOver, Over
<1>7. ASSUME NEW s \in Stripes,
             \/ PlanStripe(s) \/ SerialStripeDone(s) \/ PlainStripeDone(s)
             \/ LaunchStripe(s) \/ StripeReturns(s)
      PROVE  SentInv'
  BY <1>6, <1>7 DEF PlanStripe, SerialStripeDone, PlainStripeDone, LaunchStripe, StripeReturns
<1>8. ASSUME NEW p \in Plans,
             LaunchPlan(p) \/ LaunchPlain(p) \/ MainListens(p) \/ MainWrites(p)
      PROVE  SentInv'
  BY <1>6, <1>8 DEF LaunchPlan, LaunchPlain, MainListens, MainWrites
<1>9. CASE Collect
  BY <1>6, <1>9 DEF Collect
<1>10. CASE LaunchMains
  BY <1>2, <1>3, <1>5, <1>10 DEF LaunchMains, SentInv, HelpsOver, Over
<1>11. CASE CreateHelps
  BY <1>11 DEF CreateHelps
<1>12. CASE PrepareFirst
  <2>1. /\ stage = "mains" /\ stage' = "prepare" /\ round = 0 /\ UNCHANGED <<round, payload>>
        /\ \A t \in Tasks : help[t] = "idle"
        /\ \A t \in Tasks : help'[t] \in {"idle", "preparing"}
    BY <1>1, <1>3, <1>12 DEF PrepareFirst, Set, Started, CounterInv
  <2> QED
    BY <2>1, RoundsAssumption DEF SentInv
<1>13. CASE WarmUp
  <2>1. /\ stage' = "ready" /\ UNCHANGED <<round, payload, help>> /\ round = 0
        /\ \A t \in RoundTasks(1) : help[t] = "prepared"
    BY <1>1, <1>3, <1>13, RoundTasksAreTasks DEF WarmUp, PrepareOver, Started, CounterInv
  <2>2. RoundTasks(0) = {}
    BY RoundsAssumption DEF RoundTasks
  <2> QED
    BY <1>2, <1>3, <1>5, <2>1, <2>2 DEF SentInv, HelpsOver, Over
<1>14. CASE StartRound
  <2>1. /\ stage' = "rounds" /\ round' = round + 1 /\ round < Len(Rounds) /\ payload' = payload
        /\ stage = "ready"
    BY <1>14 DEF StartRound
  <2>2. /\ \A t \in RoundTasks(round + 1) : help[t] = "prepared"
        /\ HelpsOver(RoundTasks(round))
    BY <1>3, <2>1 DEF SentInv
  <2>3. \A t \in Tasks : help'[t] \in {"prepared", "inflight"} => t \in payload'
    BY <1>1, <1>3, <1>14, <2>1, <2>2, StartRoundHelp, AllAreMade DEF SentInv
  <2>4. ASSUME NEW q \in DOMAIN Rounds, q < round + 1, NEW t \in Rounds[q] PROVE Over(t)'
    <3>1. t \in Tasks /\ q \in Nat
      BY <1>5, RoundsAssumption
    <3>2. Over(t)
      <4>1. CASE q < round
        BY <1>3, <4>1 DEF SentInv, HelpsOver
      <4>2. CASE q = round
        BY <2>2, <4>2, <2>4 DEF HelpsOver, RoundTasks
      <4> QED
        BY <1>3, <2>4, <3>1, <4>1, <4>2
    <3> QED
      BY <1>2, <3>1, <3>2 DEF Over
  <2> QED
    BY <2>1, <2>3, <2>4 DEF SentInv, HelpsOver
<1>15. CASE LeaveRounds
  <2>1. /\ stage = "ready" /\ stage' = "helps" /\ UNCHANGED <<round, payload, help>>
    BY <1>15 DEF LeaveRounds
  <2>2. round = Len(Rounds)
    BY <1>15 DEF LeaveRounds
  <2>3. ASSUME NEW t \in Tasks PROVE Over(t)
    <3>1. PICK q \in DOMAIN Rounds : t \in Rounds[q]
      BY RoundsAssumption
    <3>2. q \in 1 .. Len(Rounds)
      BY RoundsAssumption
    <3>3. CASE q < round
      BY <1>3, <3>1, <3>3 DEF SentInv, HelpsOver
    <3>4. CASE q = round
      BY <1>3, <2>1, <3>1, <3>4 DEF SentInv, HelpsOver, RoundTasks
    <3> QED
      BY <1>3, <2>2, <3>2, <3>3, <3>4
  <2> QED
    BY <1>2, <1>3, <1>5, <2>1, <2>3 DEF SentInv, HelpsOver, Over
<1>16. CASE FinishGlobal
  <2>1. stage = "helps" /\ stage' = "over" /\ UNCHANGED <<round, payload, help>>
    BY <1>16 DEF FinishGlobal
  <2> QED
    BY <1>2, <1>3, <1>5, <2>1 DEF SentInv, HelpsOver, Over
<1>17. ASSUME NEW t \in Tasks, HelpStarts(t) PROVE SentInv'
  BY <1>3, <1>17 DEF HelpStarts, TaskInv
<1>18. ASSUME NEW t \in Tasks, HelpDelivers(t) \/ Prepares(t) PROVE SentInv'
  <2>1. UNCHANGED <<stage, round>>
    BY <1>18 DEF HelpDelivers, Prepares
  <2>2. /\ \A u \in Tasks : u # t => help'[u] = help[u] /\ (u \in payload' <=> u \in payload)
        /\ \/ help'[t] = "ok" /\ help[t] = "inflight"
           \/ help'[t] = "prepared" /\ t \in payload' /\ help[t] = "preparing"
    <3>1. CASE HelpDelivers(t)
      BY <1>1, <3>1 DEF HelpDelivers, HelpAnswers, Sending, Alone, TypeOK
    <3>2. CASE Prepares(t)
      BY <1>1, <3>2 DEF Prepares, TypeOK
    <3> QED
      BY <1>18, <3>1, <3>2
  <2>3. \A u \in Tasks : Over(u) => Over(u)'
    BY <1>2 DEF Over
  <2> QED
    BY <1>2, <1>3, <1>5, <2>1, <2>2, <2>3, RoundTasksAreTasks DEF SentInv, HelpsOver
<1>19. CASE LookAtFlag
  <2>1. /\ stage = "rounds" /\ stage' = "ready" /\ RoundJoined
        /\ UNCHANGED <<round, payload, help>>
    BY <1>19 DEF LookAtFlag, Alone
  <2>2. /\ \A t \in RoundTasks(round + 1) : help[t] = "prepared"
        /\ HelpsOver(RoundTasks(round))
    BY <1>1, <2>1, RoundTasksAreTasks DEF RoundJoined, PrepareOver, Started
  <2> QED
    BY <1>2, <1>3, <1>5, <2>1, <2>2 DEF SentInv, HelpsOver, Over, RoundTasks
<1> QED
  BY <1>7, <1>8, <1>9, <1>10, <1>11, <1>12, <1>13, <1>14, <1>15, <1>16, <1>17, <1>18, <1>19
     DEF CalmStep

\* Left alone, an answer is a success, and it comes when all is written and located.
LEMMA EndStep ==
  ASSUME Known, Alone, Next, faults' = 0, CalmStep
  PROVE  EndInv'
<1> USE DEF coordinator, calls, proxies
<1>1. /\ TypeOK /\ TypeOK' /\ RoundsInv /\ Started /\ HonestInv /\ EndInv /\ stripeOk
  BY TypeStep DEF Known, TurnsInv, Alone
<1>2. /\ mode' = mode /\ \A p \in Plans : Written(p) => Written(p)'
  BY <1>1, ModeStays, OverStays DEF Written
<1>3. \A p \in Plans : StripeOf[p] \in Stripes
  BY PlansAssumption
<1>4. \A p \in Plans : Answered(p) => Written(p)
  BY <1>1 DEF HonestInv, AnswersInv, Answered, Started, Ended, Written
<1>5. located \subseteq Plans /\ located' \subseteq Plans
  BY <1>1 DEF TypeOK
<1>6. ASSUME UNCHANGED <<response, located>>,
             mode = "serial" => \A s \in Stripes : st'[s] = "done" => st[s] = "done"
      PROVE  EndInv'
  BY <1>1, <1>2, <1>3, <1>6 DEF EndInv
<1>7. ASSUME NEW s \in Stripes,
             PlanStripe(s) \/ LaunchStripe(s)
      PROVE  EndInv'
  <2>1. UNCHANGED <<response, located>> /\ \A r \in Stripes : st'[r] = "done" => st[r] = "done"
    BY <1>1, <1>7 DEF PlanStripe, LaunchStripe, TypeOK
  <2> QED
    BY <1>6, <2>1
<1>8. ASSUME NEW s \in Stripes,
             SerialStripeDone(s) \/ PlainStripeDone(s) \/ StripeReturns(s)
      PROVE  EndInv'
  <2>1. /\ response' = response /\ located \subseteq located'
        /\ mode = "serial" => PlansOf(s) \subseteq located'
        /\ st' = [st EXCEPT ![s] = "done"]
    <3>1. Made(PlansOf(s)) = PlansOf(s) /\ mode \in Modes
      BY <1>1, AllAreMade DEF PlansOf, TypeOK
    <3>2. CASE SerialStripeDone(s)
      BY <3>1, <3>2 DEF SerialStripeDone
    <3>3. CASE PlainStripeDone(s)
      BY <3>1, <3>3 DEF PlainStripeDone
    <3>4. CASE StripeReturns(s)
      BY <3>1, <3>4 DEF StripeReturns
    <3> QED
      BY <1>8, <3>2, <3>3, <3>4
  <2>2. mode = "serial" => \A p \in Plans : st'[StripeOf[p]] = "done" => p \in located'
    BY <1>1, <1>3, <2>1 DEF EndInv, PlansOf, TypeOK
  <2> QED
    BY <1>1, <1>2, <1>5, <2>1, <2>2 DEF EndInv
<1>9. ASSUME NEW p \in Plans,
             LaunchPlan(p) \/ LaunchPlain(p) \/ MainListens(p) \/ MainWrites(p)
      PROVE  EndInv'
  BY <1>6, <1>9 DEF LaunchPlan, LaunchPlain, MainListens, MainWrites
<1>10. CASE Collect
  <2>1. /\ ~Global /\ response' = "success" /\ UNCHANGED <<st, located>>
        /\ \A s \in Stripes : st[s] \in {"unplanned", "done"}
    BY <1>1, <1>10 DEF Collect, StripesReturned
  <2>2. \A s \in Stripes : st[s] = "done"
    BY <1>1, <2>1 DEF HonestInv, AnswersInv
  <2>3. CASE mode = "serial"
    <3>1. located = Plans
      BY <1>1, <1>3, <1>5, <2>2, <2>3 DEF EndInv
    <3>2. \A p \in Plans : Answered(p)
      BY <1>3, <2>2, <2>3 DEF Known, TurnsInv, OneByOne, TurnInv, PlansOf, Joined
    <3> QED
      BY <1>2, <1>4, <2>1, <2>2, <3>1, <3>2 DEF EndInv
  <2>4. CASE mode # "serial"
    <3>1. Honest
      BY <1>1, <2>1, <2>4, BoundsAssumption DEF Honest, Global, TypeOK
    <3>2. located = Plans
      BY <1>1, <1>10, <2>1, <3>1, CollectLocated, AllAreMade
    <3>3. \A p \in Plans : Written(p)
      BY <1>1, <3>1, <3>2 DEF HonestInv, MovedInv, Started, Ended, Written
    <3> QED
      BY <1>2, <2>1, <2>4, <3>2, <3>3 DEF EndInv
  <2> QED
    BY <2>3, <2>4
<1>11. ASSUME \/ LaunchMains \/ CreateHelps \/ PrepareFirst \/ WarmUp
              \/ StartRound \/ LookAtFlag \/ LeaveRounds
       PROVE  EndInv'
  BY <1>6, <1>11
     DEF LaunchMains, CreateHelps, PrepareFirst, WarmUp, StartRound, LookAtFlag, LeaveRounds
<1>12. CASE FinishGlobal
  <2>1. /\ located' = Plans /\ response' = "success" /\ \A p \in Plans : Written(p)
    BY <1>1, <1>4, <1>12, AllAreMade DEF FinishGlobal
  <2> QED
    BY <1>2, <2>1 DEF EndInv
<1>13. ASSUME NEW t \in Tasks, HelpStarts(t) \/ HelpDelivers(t) \/ Prepares(t) PROVE EndInv'
  BY <1>6, <1>13 DEF HelpStarts, HelpDelivers, Prepares
<1> QED
  BY <1>7, <1>8, <1>9, <1>10, <1>11, <1>12, <1>13 DEF CalmStep

\* In the beginning nothing was received, sent or answered.
LEMMA AloneInit == Init => AloneInv
<1> SUFFICES ASSUME Init PROVE Alone
  BY DEF AloneInv
<1>1. ReceivedInv
  <2>1. \A p \in Plans : Cardinality(TasksOf(p)) \in Nat
    BY PlansAssumption, FS_Subset, FS_CardinalityType DEF TasksOf
  <2> QED
    BY <2>1, FS_EmptySet DEF Init, ReceivedInv
<1>2. SentInv
  BY RoundsAssumption DEF Init, SentInv
<1> QED
  BY <1>1, <1>2, PlansAssumption DEF Init, Alone, EndInv

\* A step that leaves the repair undisturbed is a calm one, and keeps what Alone says.
LEMMA AloneStep ==
  ASSUME HonestInv, RoundsInv, TurnsInv, StartedInv, AloneInv, Next
  PROVE  AloneInv'
<1> SUFFICES ASSUME EnoughWorkers', Undisturbed' PROVE Alone'
  BY DEF AloneInv
<1>1. EnoughWorkers
  BY ModeStays DEF EnoughWorkers, OneByOne, TurnsInv
<1>2. Undisturbed /\ ~Fault /\ Known /\ faults' = 0
  BY UndisturbedBefore DEF Known, Undisturbed
<1>3. Alone
  BY <1>1, <1>2 DEF AloneInv
<1>4. CalmStep
  BY <1>1, <1>2, <1>3, CalmCases
<1> QED
  BY <1>2, <1>3, <1>4, ReceivedStep, SentStep, EndStep DEF Alone

\* Threads are started once only, always.
LEMMA StartedInvariant == Spec => []StartedInv
<1>1. RoundsInv /\ StartedInv /\ [Next]_vars => StartedInv'
  <2>1. CASE UNCHANGED vars
    BY <2>1 DEF StartedInv, Started, Over, Global, vars, coordinator, calls, proxies
  <2> QED BY <2>1, StartedStep, NoFault DEF StartedInv, RoundsInv
<1> QED BY StartedInit, <1>1, RoundsInvariant, PTL DEF Spec

\* An undisturbed repair is always as Alone says.
LEMMA AloneInvariant == Spec => []AloneInv
<1>1. HonestInv /\ RoundsInv /\ TurnsInv /\ StartedInv /\ AloneInv /\ [Next]_vars => AloneInv'
  <2>1. CASE UNCHANGED vars
    BY <2>1
    DEF AloneInv, EnoughWorkers, OneByOne, Undisturbed, Alone, ReceivedInv, SentInv, EndInv,
        TargetOf, Address, TasksOf, HelpsOver, Over, RoundTasks, Written, vars, coordinator,
        calls, proxies
  <2> QED BY <2>1, AloneStep
<1> QED
  BY AloneInit, <1>1, HonestInvariant, RoundsInvariant, TurnsInvariant, StartedInvariant, PTL
     DEF Spec

\* A repair, by any of the five operations, that meets no fault, no refused help and
\* no port in use returns with success, every block written and located where it is,
\* if the proxies have workers for its mains and one more: no call is lost to a
\* timeout because its main waits for a transfer that another main has taken, for
\* data that was not prepared, or for a worker that waits itself.
THEOREM LeftAloneItRepairs == Spec => [](EnoughWorkers => UndisturbedRunRepairs)
<1>1. TypeOK /\ AloneInv => (EnoughWorkers => UndisturbedRunRepairs)
  BY DEF TypeOK, AloneInv, Alone, EndInv, UndisturbedRunRepairs, Returned
<1> QED BY AloneInvariant, TypeCorrect, <1>1, PTL
=============================================================================
