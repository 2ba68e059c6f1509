---------------------------- MODULE FlowDispatch ----------------------------
(***************************************************************************)
(* How a repair is carried out: do_repair and do_flow_repair_common of     *)
(* src/src/coordinator/repair.cpp with the handlers of                     *)
(* src/src/proxy/handle_repair.cpp they call.                              *)
(*                                                                         *)
(* Every failed stripe has repair plans.  The main proxy of a plan listens *)
(* on a port, receives one transfer per help task, decodes and writes the  *)
(* repaired blocks; the help proxies read, encode and send.  The           *)
(* coordinator calls both with RPCs that have a timeout, one thread per    *)
(* call, joins the threads, then moves the blocks in its metadata.         *)
(*                                                                         *)
(* do_repair is "plain": stripe after stripe, plan after plan, until a call *)
(* fails.  The four flow repairs run one function with different flags:    *)
(*   "serial"     stripe after stripe, plan after plan                     *)
(*   "unordered"  all stripes at once, help RPCs bounded by a semaphore    *)
(*   "ordered"    one schedule for all stripes, started in its order       *)
(*   "join"       one schedule, round after round; the data of the next    *)
(*                round is prepared while this round is sent               *)
(* A thread may take its ticket of the semaphore late, so permits go to    *)
(* the waiting threads in any order (FifoSemaphore has the details).       *)
(***************************************************************************)
EXTENDS Integers, Sequences, FiniteSets

CONSTANTS
  NStripes,  \* failed stripes, in the order of ordered_stripe_ids
  Plans,     \* repair plans of all stripes, numbered in launch order
  Tasks,     \* help tasks of all plans
  Clusters,  \* each has one proxy
  StripeOf,  \* the stripe of each plan
  MainOf,    \* main cluster of each plan
  AddressOf, \* where its main proxy listens: the proxy and the data_port
  PlanOf,    \* the plan of each task
  HelperOf,  \* helper cluster of each task
  Rounds,    \* compute_schedule: the tasks of each round
  Capacity,  \* permits of help_rpc_sem
  Workers,   \* handlers that a proxy runs at a time
  Modes,     \* the repair operations to consider
  MaxFaults  \* bound on crashes, lost calls, early timeouts, hopeless stripes,
             \* dropped plans and spoiled blocks

Stripes    == 1 .. NStripes
TasksOf(p) == {t \in Tasks : PlanOf[t] = p}
PlansOf(s) == {p \in Plans : StripeOf[p] = s}
ASSUME BoundsAssumption ==
  /\ NStripes \in Nat /\ Capacity \in Nat \ {0} /\ Workers \in Nat \ {0}
  /\ MaxFaults \in Nat
  /\ Modes \subseteq {"plain", "serial", "unordered", "ordered", "join"}
ASSUME PlansAssumption ==
  /\ Plans \subseteq Nat /\ IsFiniteSet(Plans) /\ IsFiniteSet(Tasks)
  /\ StripeOf \in [Plans -> Stripes] /\ MainOf \in [Plans -> Clusters]
  /\ DOMAIN AddressOf = Plans
  /\ PlanOf \in [Tasks -> Plans] /\ HelperOf \in [Tasks -> Clusters]
\* What RepairScheduler is shown to return: every task in one round, and in a
\* round no cluster twice on the same side.
ASSUME RoundsAssumption ==
  /\ Rounds \in Seq(SUBSET Tasks)
  /\ \A t \in Tasks : \E r \in DOMAIN Rounds : t \in Rounds[r]
  /\ \A q, r \in DOMAIN Rounds : q # r => Rounds[q] \cap Rounds[r] = {}
  /\ \A r \in DOMAIN Rounds : \A t, u \in Rounds[r] : t # u =>
       /\ HelperOf[t] # HelperOf[u]
       /\ MainOf[PlanOf[t]] # MainOf[PlanOf[u]]

VARIABLES
  mode,      \* the operation of this behaviour
  stage,     \* how far the function as a whole is
  round,     \* "join": the round being sent
  st,        \* what run_one_stripe has done for each stripe
  mainRpc,   \* the main_repair call of each plan, seen by the coordinator
  help,      \* the help thread of each task
  stripeOk,  \* stripe_ok; rpc_ok of the plain repair
  located,   \* plans whose new locations are in blocks2nodes
  response,  \* "none" until the function returns
  main,      \* the main_repair handler of each plan
  got,       \* the transfers that handler has received
  payload,   \* tasks in prepared_help_payloads_ of their help proxy
  down,      \* clusters whose proxy process has ended
  orphans,   \* help handlers that run on after the coordinator gave them up
  faults     \* faults so far

coordinator == <<mode, stage, round, st, located, response>>
calls       == <<mainRpc, help, stripeOk>>
proxies     == <<main, got, payload, down, orphans>>
vars        == <<coordinator, calls, proxies, faults>>

TypeOK ==
  /\ mode \in Modes
  /\ stage \in {"stripes", "mains", "prepare", "ready", "rounds", "helps", "over"}
  /\ round \in 0 .. Len(Rounds)
  /\ st \in [Stripes -> {"todo", "planned", "running", "done", "unplanned"}]
  /\ mainRpc \in [Plans -> {"none", "dropped", "pending", "ok", "error"}]
  /\ help \in [Tasks -> {"idle", "dropped", "queued", "preparing", "prepared",
                         "unprepared", "inflight", "ok", "failed", "refused"}]
  /\ stripeOk \in BOOLEAN
  /\ located \subseteq Plans
  /\ response \in {"none", "success", "failure"}
  /\ main \in [Plans -> {"off", "called", "listening", "written", "spoiled",
                         "crashed", "unbound"}]
  /\ got \in [Plans -> SUBSET Tasks]
  /\ payload \subseteq Tasks
  /\ down \subseteq Clusters
  /\ orphans \subseteq Tasks
  /\ faults \in 0 .. MaxFaults

Made(plans) == {p \in plans : mainRpc[p] # "dropped"}
Answered(p) == mainRpc[p] \in {"dropped", "ok", "error"}
Over(t)     == help[t] \in {"dropped", "ok", "failed", "refused"}
HelpsOver(tasks) == \A t \in tasks : Over(t)
Joined(p)   == Answered(p) /\ HelpsOver(TasksOf(p))
InFlight    == {t \in Tasks : help[t] = "inflight"}
Global      == mode \in {"ordered", "join"}
OneByOne    == mode \in {"plain", "serial"}

Fault == faults < MaxFaults /\ faults' = faults + 1

\* Threads that call main_repair for these plans.
CallMains(plans) ==
  /\ mainRpc' = [p \in Plans |-> IF p \in plans THEN "pending" ELSE mainRpc[p]]
  /\ main' = [p \in Plans |-> IF p \in plans THEN "called" ELSE main[p]]
Set(tasks, value) ==
  [t \in Tasks |-> IF t \in tasks THEN value ELSE help[t]]
HelpsOf(plans) == {t \in Tasks : PlanOf[t] \in plans}

----------------------------------------------------------------------------
Init ==
  /\ mode \in Modes
  /\ stage = "stripes"
  /\ round = 0
  /\ st = [s \in Stripes |-> "todo"]
  /\ mainRpc = [p \in Plans |-> "none"]
  /\ help = [t \in Tasks |-> "idle"]
  /\ stripeOk = TRUE
  /\ located = {}
  /\ response = "none"
  /\ main = [p \in Plans |-> "off"]
  /\ got = [p \in Plans |-> {}]
  /\ payload = {}
  /\ down = {}
  /\ orphans = {}
  /\ faults = 0

(* run_one_stripe: planning.                                               *)

MayPlan(s) ==
  /\ stage = "stripes" /\ response = "none" /\ st[s] = "todo"
  /\ OneByOne => \A q \in 1 .. s - 1 : st[q] = "done"

PlanStripe(s) ==
  /\ MayPlan(s)
  /\ st' = [st EXCEPT ![s] = "planned"]
  /\ UNCHANGED <<mode, stage, round, located, response, calls, proxies, faults>>

\* concrete_flow_repair_plans stops at a plan whose main cluster has no free node
\* for a block, and its answer is not looked at: the plans before it are carried
\* out, it and those after it are dropped.
PlanStripeInPart(s) ==
  /\ MayPlan(s) /\ mode # "plain"
  /\ Fault
  /\ st' = [st EXCEPT ![s] = "planned"]
  /\ \E first \in PlansOf(s) :
       LET dropped == {p \in PlansOf(s) : p >= first} IN
       /\ mainRpc' = [p \in Plans |-> IF p \in dropped THEN "dropped" ELSE mainRpc[p]]
       /\ help' = Set(HelpsOf(dropped), "dropped")
  /\ UNCHANGED <<mode, stage, round, located, response, stripeOk, proxies>>

\* The code cannot decode what is left of the stripe.  The plain repair and the
\* serial loop return at once, the others after every stripe has returned.
PlanFails(s) ==
  /\ MayPlan(s)
  /\ Fault
  /\ st' = [st EXCEPT ![s] = "unplanned"]
  /\ stripeOk' = FALSE
  /\ response' = IF OneByOne THEN "failure" ELSE response
  /\ UNCHANGED <<mode, stage, round, located, mainRpc, help, proxies>>

(* run_one_stripe, "serial": the main and the helps of one plan at a time. *)

\* Mutants of LaunchPlan: the plans of a stripe are not joined one by one; the
\* next plan waits for the success of the one before.
LaunchPlanAtOnce(p) ==
  /\ mode = "serial" /\ st[StripeOf[p]] = "planned" /\ mainRpc[p] = "none"
  /\ CallMains({p})
  /\ help' = Set(TasksOf(p), "inflight")
  /\ UNCHANGED <<coordinator, stripeOk, got, payload, down, orphans, faults>>
LaunchPlanAfterSuccess(p) ==
  /\ LaunchPlanAtOnce(p)
  /\ \A q \in PlansOf(StripeOf[p]) : q < p => mainRpc[q] = "ok"

LaunchPlan(p) ==
  /\ mode = "serial" /\ st[StripeOf[p]] = "planned" /\ mainRpc[p] = "none"
  /\ \A q \in PlansOf(StripeOf[p]) : q < p => Joined(q)
  /\ CallMains({p})
  /\ help' = Set(TasksOf(p), "inflight")
  /\ UNCHANGED <<coordinator, stripeOk, got, payload, down, orphans, faults>>

\* The blocks are moved in the metadata whatever the RPCs answered.
SerialStripeDone(s) ==
  /\ mode = "serial" /\ st[s] = "planned"
  /\ \A p \in PlansOf(s) : Joined(p)
  /\ located' = located \cup Made(PlansOf(s))
  /\ st' = [st EXCEPT ![s] = "done"]
  /\ UNCHANGED <<mode, stage, round, response, calls, proxies, faults>>

(* do_repair: as the serial flow repair, but it looks at rpc_ok after every *)
(* plan and returns when a call has failed.                                 *)

LaunchPlain(p) ==
  /\ mode = "plain" /\ response = "none" /\ stripeOk
  /\ st[StripeOf[p]] = "planned" /\ mainRpc[p] = "none"
  /\ \A q \in PlansOf(StripeOf[p]) : q < p => Joined(q)
  /\ CallMains({p})
  /\ help' = Set(TasksOf(p), "inflight")
  /\ UNCHANGED <<coordinator, stripeOk, got, payload, down, orphans, faults>>

PlainFails ==
  /\ mode = "plain" /\ response = "none" /\ ~stripeOk
  /\ \A p \in Plans : mainRpc[p] # "none" => Joined(p)
  /\ response' = "failure"
  /\ UNCHANGED <<mode, stage, round, st, located, calls, proxies, faults>>

PlainStripeDone(s) ==
  /\ mode = "plain" /\ st[s] = "planned" /\ stripeOk
  /\ \A p \in PlansOf(s) : Joined(p)
  /\ located' = located \cup Made(PlansOf(s))
  /\ st' = [st EXCEPT ![s] = "done"]
  /\ UNCHANGED <<mode, stage, round, response, calls, proxies, faults>>

(* run_one_stripe, "unordered": all plans of the stripe.                   *)

LaunchStripe(s) ==
  /\ mode = "unordered" /\ st[s] = "planned"
  /\ st' = [st EXCEPT ![s] = "running"]
  /\ CallMains(Made(PlansOf(s)))
  /\ help' = Set(HelpsOf(Made(PlansOf(s))), "queued")
  /\ UNCHANGED <<mode, stage, round, located, response, stripeOk, got, payload,
                 down, orphans, faults>>

\* Mutant of StripeReturns: stripe_ok is not looked at.
StripeReturnsAnyway(s) ==
  /\ mode = "unordered" /\ st[s] = "running"
  /\ \A p \in PlansOf(s) : Joined(p)
  /\ st' = [st EXCEPT ![s] = "done"]
  /\ located' = located \cup Made(PlansOf(s))
  /\ UNCHANGED <<mode, stage, round, response, calls, proxies, faults>>

\* stripe_ok is one flag for all stripes: a stripe that returns after another
\* one has failed leaves its blocks where they were.
StripeReturns(s) ==
  /\ mode = "unordered" /\ st[s] = "running"
  /\ \A p \in PlansOf(s) : Joined(p)
  /\ st' = [st EXCEPT ![s] = "done"]
  /\ located' = IF stripeOk THEN located \cup Made(PlansOf(s)) ELSE located
  /\ UNCHANGED <<mode, stage, round, response, calls, proxies, faults>>

(* After the stripes.                                                      *)

StripesReturned ==
  /\ stage = "stripes" /\ response = "none"
  /\ \A s \in Stripes :
       st[s] \in {"unplanned", IF Global THEN "planned" ELSE "done"}

\* Nothing checks stripe_ok after the serial loop, and the plain repair comes here
\* only if it holds.
Collect ==
  /\ StripesReturned
  /\ ~Global \/ ~stripeOk
  /\ response' = IF mode # "serial" /\ ~stripeOk THEN "failure" ELSE "success"
  /\ UNCHANGED <<mode, stage, round, st, located, calls, proxies, faults>>

LaunchMains ==
  /\ Global /\ StripesReturned /\ stripeOk
  /\ CallMains(Made(Plans))
  /\ stage' = "mains"
  /\ UNCHANGED <<mode, round, st, located, response, help, stripeOk, got,
                 payload, down, orphans, faults>>

(* "ordered": the help threads of all rounds, behind the semaphore.        *)

CreateHelps ==
  /\ mode = "ordered" /\ stage = "mains"
  /\ help' = Set(HelpsOf(Made(Plans)), "queued")
  /\ stage' = "helps"
  /\ UNCHANGED <<mode, round, st, located, response, mainRpc, stripeOk, proxies,
                 faults>>

(* "join": prepare, warm the links up, then round after round.             *)

RoundTasks(r) == IF r \in DOMAIN Rounds THEN Rounds[r] ELSE {}
Due(r) == {t \in RoundTasks(r) : help[t] # "dropped"}
PrepareOver(tasks) ==
  \A t \in tasks : help[t] \in {"prepared", "unprepared", "dropped"}

PrepareFirst ==
  /\ mode = "join" /\ stage = "mains"
  /\ help' = Set(Due(1), "preparing")
  /\ stage' = "prepare"
  /\ UNCHANGED <<mode, round, st, located, response, mainRpc, stripeOk, proxies,
                 faults>>

WarmUp ==
  /\ stage = "prepare" /\ PrepareOver(RoundTasks(1))
  /\ stage' = "ready"
  /\ \/ UNCHANGED <<stripeOk, faults>>
     \/ Fault /\ Due(1) # {} /\ stripeOk' = FALSE
  /\ UNCHANGED <<mode, round, st, located, response, mainRpc, help, proxies>>

\* Mutants of RoundJoined: the sends, or the preparations, are not joined.
OnlyPreparesJoined == PrepareOver(RoundTasks(round + 1))
OnlySendsJoined    == HelpsOver(RoundTasks(round))

\* The sends of a round and the preparations of the next one are joined before
\* stripe_ok is looked at; the first round starts without looking at it.
RoundJoined ==
  /\ HelpsOver(RoundTasks(round))
  /\ PrepareOver(RoundTasks(round + 1))

\* Mutant of LookAtFlag: goes on whatever stripe_ok says.
LookAway ==
  /\ stage = "rounds" /\ RoundJoined
  /\ stage' = "ready"
  /\ UNCHANGED <<mode, round, st, located, response, calls, proxies, faults>>

LookAtFlag ==
  /\ stage = "rounds" /\ RoundJoined
  /\ stage' = IF stripeOk THEN "ready" ELSE "helps"
  /\ UNCHANGED <<mode, round, st, located, response, calls, proxies, faults>>

\* Mutant of StartRound: one round too many.
StartRoundPastEnd ==
  /\ stage = "ready" /\ round <= Len(Rounds)
  /\ round' = round + 1
  /\ help' = [t \in Tasks |-> CASE t \in Due(round + 1) -> "inflight"
                                [] t \in Due(round + 2) -> "preparing"
                                [] OTHER                -> help[t]]
  /\ stage' = "rounds"
  /\ UNCHANGED <<mode, st, located, response, mainRpc, stripeOk, proxies, faults>>

\* The thread of a main may clear stripe_ok between the look and the start.
StartRound ==
  /\ stage = "ready" /\ round < Len(Rounds)
  /\ round' = round + 1
  /\ help' = [t \in Tasks |-> CASE t \in Due(round + 1) -> "inflight"
                                [] t \in Due(round + 2) -> "preparing"
                                [] OTHER                -> help[t]]
  /\ stage' = "rounds"
  /\ UNCHANGED <<mode, st, located, response, mainRpc, stripeOk, proxies, faults>>

LeaveRounds ==
  /\ stage = "ready" /\ round = Len(Rounds)
  /\ stage' = "helps"
  /\ UNCHANGED <<mode, round, st, located, response, calls, proxies, faults>>

\* Mutants of FinishGlobal: does not join the mains; joins the helps of rounds
\* that never began as well.
FinishGlobalEarly ==
  /\ stage = "helps"
  /\ mode = "ordered" => HelpsOver(Tasks)
  /\ located' = Made(Plans)
  /\ response' = "success"
  /\ stage' = "over"
  /\ UNCHANGED <<mode, round, st, calls, proxies, faults>>
FinishGlobalJoinsAll ==
  /\ stage = "helps"
  /\ HelpsOver(Tasks)
  /\ \A p \in Plans : Answered(p)
  /\ located' = Made(Plans)
  /\ response' = "success"
  /\ stage' = "over"
  /\ UNCHANGED <<mode, round, st, calls, proxies, faults>>

\* Both: join the helps that were started and the mains, then move the blocks
\* of every stripe; stripe_ok is not looked at, the answer is success.
FinishGlobal ==
  /\ stage = "helps"
  /\ mode = "ordered" => HelpsOver(Tasks)
  /\ \A p \in Plans : Answered(p)
  /\ located' = Made(Plans)
  /\ response' = "success"
  /\ stage' = "over"
  /\ UNCHANGED <<mode, round, st, calls, proxies, faults>>

----------------------------------------------------------------------------
(* The proxies.                                                            *)

\* The plain repair has no data_port: its mains use the acceptor of their proxy,
\* which is always bound and keeps connections until main_repair accepts them.
Address(p)   == IF mode = "plain" THEN MainOf[p] ELSE AddressOf[p]
TargetOf(t)  == Address(PlanOf[t])
Reachable(p) == main[p] = "listening" \/ (mode = "plain" /\ main[p] = "called")
Bound(a) ==
  {p \in Plans : Address(p) = a /\ Reachable(p) /\ MainOf[p] \notin down}
Full(p)  == Cardinality(got[p]) = Cardinality(TasksOf(p))

\* Another main_repair has bound the port of p, or holds the lock of the acceptor.
PortInUse(p) ==
  \E q \in Bound(Address(p)) : main[q] = "listening"

\* main_repair keeps its worker until it has received everything.
WorkerFree(c) ==
  Cardinality({p \in Plans : main[p] = "listening" /\ MainOf[p] = c}) < Workers

\* The main_repair call of p ends, unless the coordinator gave it up before.
MainAnswers(p, answer) ==
  /\ mainRpc' = [mainRpc EXCEPT ![p] = IF @ = "pending" THEN answer ELSE @]
  /\ stripeOk' = (stripeOk /\ (mainRpc[p] = "pending" => answer = "ok"))

\* main_repair begins: it binds the data_port, or takes the lock.
MainListens(p) ==
  /\ main[p] = "called" /\ MainOf[p] \notin down /\ WorkerFree(MainOf[p])
  /\ ~PortInUse(p)
  /\ main' = [main EXCEPT ![p] = "listening"]
  /\ UNCHANGED <<coordinator, calls, got, payload, down, orphans, faults>>

\* The port is in use: the constructor of the acceptor throws.
MainUnbound(p) ==
  /\ main[p] = "called" /\ MainOf[p] \notin down /\ WorkerFree(MainOf[p])
  /\ mode # "plain" /\ PortInUse(p)
  /\ main' = [main EXCEPT ![p] = "unbound"]
  /\ MainAnswers(p, "error")
  /\ UNCHANGED <<coordinator, help, got, payload, down, orphans, faults>>

\* As many transfers as the plan has helps: decode, write the blocks, answer.  A
\* block that could not be stored, or was decoded from one that could not be read,
\* does not show: write_to_datanode and read_from_datanode keep it to themselves.
MainWrites(p) ==
  /\ main[p] = "listening" /\ MainOf[p] \notin down /\ Full(p)
  /\ \/ main' = [main EXCEPT ![p] = "written"] /\ UNCHANGED faults
     \/ main' = [main EXCEPT ![p] = "spoiled"] /\ Fault
  /\ MainAnswers(p, "ok")
  /\ UNCHANGED <<coordinator, help, got, payload, down, orphans>>

\* A proxy ends: a failed read or a failed my_assert exits the process.
ProxyExits(c) ==
  /\ c \notin down /\ Fault
  /\ down' = down \cup {c}
  /\ payload' = {t \in payload : HelperOf[t] # c}
  /\ orphans' = {t \in orphans : HelperOf[t] # c}
  /\ UNCHANGED <<coordinator, calls, main, got>>

MainGone(p) ==
  /\ main[p] \in {"called", "listening"} /\ MainOf[p] \in down
  /\ main' = [main EXCEPT ![p] = "crashed"]
  /\ MainAnswers(p, "error")
  /\ UNCHANGED <<coordinator, help, got, payload, down, orphans, faults>>

\* A help thread whose RPC ended with this outcome; threads that fail clear
\* stripe_ok.  An orphan tells nobody.
HelpAnswers(t, outcome) ==
  /\ help' = [help EXCEPT ![t] = IF @ = "inflight" THEN outcome ELSE @]
  /\ stripeOk' = (stripeOk /\ (help[t] = "inflight" => outcome = "ok"))
  /\ orphans' = orphans \ {t}

\* A help thread passes the semaphore and calls its proxy.
HelpStarts(t) ==
  /\ help[t] = "queued" /\ Cardinality(InFlight) < Capacity
  /\ help' = [help EXCEPT ![t] = "inflight"]
  /\ UNCHANGED <<coordinator, mainRpc, stripeOk, proxies, faults>>

\* The handler of help_repair, or of send_prepared_help_repair_data, can run.
Sending(t) ==
  /\ help[t] = "inflight" \/ t \in orphans
  /\ HelperOf[t] \notin down /\ WorkerFree(HelperOf[t])

HasData(t) == mode = "join" => t \in payload

\* The data reaches whoever accepts at the address of the main proxy.
HelpDelivers(t) ==
  /\ Sending(t) /\ HasData(t)
  /\ \E p \in Bound(TargetOf(t)) :
       ~Full(p) /\ got' = [got EXCEPT ![p] = @ \cup {t}]
  /\ payload' = payload \ {t}
  /\ HelpAnswers(t, "ok")
  /\ UNCHANGED <<coordinator, mainRpc, main, down, faults>>

\* Nobody listens: connect or the first write fails.
HelpRefused(t) ==
  /\ Sending(t) /\ HasData(t)
  /\ Bound(TargetOf(t)) = {}
  /\ payload' = payload \ {t}
  /\ HelpAnswers(t, "refused")
  /\ UNCHANGED <<coordinator, mainRpc, main, got, down, faults>>

\* "prepared payload not found"
HelpWithoutData(t) ==
  /\ Sending(t) /\ ~HasData(t)
  /\ HelpAnswers(t, "failed")
  /\ UNCHANGED <<coordinator, mainRpc, main, got, payload, down, faults>>

HelpGone(t) ==
  /\ help[t] = "inflight" /\ HelperOf[t] \in down
  /\ HelpAnswers(t, "failed")
  /\ UNCHANGED <<coordinator, mainRpc, main, got, payload, down, faults>>

\* prepare_help_repair_data: read, encode, keep the payload for the send.
Prepares(t) ==
  /\ help[t] = "preparing" /\ HelperOf[t] \notin down /\ WorkerFree(HelperOf[t])
  /\ help' = [help EXCEPT ![t] = "prepared"]
  /\ payload' = payload \cup {t}
  /\ UNCHANGED <<coordinator, mainRpc, stripeOk, main, got, down, orphans, faults>>

PrepareGone(t) ==
  /\ help[t] = "preparing" /\ HelperOf[t] \in down
  /\ help' = [help EXCEPT ![t] = "unprepared"]
  /\ stripeOk' = FALSE
  /\ UNCHANGED <<coordinator, mainRpc, proxies, faults>>

(* RPC timeouts.  The handler does not learn of them.                      *)

AtDownProxy == {t \in Tasks : HelperOf[t] \in down}

MainTimesOut(p) ==
  /\ mainRpc[p] = "pending"
  /\ mainRpc' = [mainRpc EXCEPT ![p] = "error"]
  /\ stripeOk' = FALSE
  /\ UNCHANGED <<coordinator, help, proxies>>

\* The call, or the answer, may be lost instead: then no handler runs on.
HelpTimesOut(t) ==
  /\ help[t] = "inflight"
  /\ help' = [help EXCEPT ![t] = "failed"]
  /\ stripeOk' = FALSE
  /\ orphans' \in {orphans, orphans \cup ({t} \ AtDownProxy)}
  /\ UNCHANGED <<coordinator, mainRpc, main, got, payload, down>>

PrepareTimesOut(t) ==
  /\ help[t] = "preparing"
  /\ help' = [help EXCEPT ![t] = "unprepared"]
  /\ stripeOk' = FALSE
  /\ payload' \in {payload, payload \cup ({t} \ AtDownProxy)}
  /\ UNCHANGED <<coordinator, mainRpc, main, got, down, orphans>>

\* Transfers that may still reach the main of p, and the mains, helps and
\* preparations that can only wait for their timeout.
MayCome(t) ==
  \/ help[t] \in {"queued", "inflight"}
  \/ t \in orphans /\ WorkerFree(HelperOf[t])
  \/ Global /\ stage # "helps" /\ ~Over(t)
MainStarves(p) ==
  \/ main[p] = "called" /\ ~WorkerFree(MainOf[p])
  \/ main[p] = "listening" /\
       Cardinality(got[p]) + Cardinality({t \in Tasks : MayCome(t) /\ TargetOf(t) = Address(p)})
         < Cardinality(TasksOf(p))
HelpStarves(t) == HelperOf[t] \notin down /\ ~WorkerFree(HelperOf[t])

TimeoutAtLast ==
  /\ \/ \E p \in Plans : MainStarves(p) /\ MainTimesOut(p)
     \/ \E t \in Tasks : HelpStarves(t) /\ (HelpTimesOut(t) \/ PrepareTimesOut(t))
  /\ UNCHANGED faults

EarlyTimeout ==
  /\ \/ \E p \in Plans : MainTimesOut(p)
     \/ \E t \in Tasks : HelpTimesOut(t) \/ PrepareTimesOut(t)
  /\ Fault

----------------------------------------------------------------------------
Coordinator ==
  \/ \E s \in Stripes :
       \/ PlanStripe(s) \/ SerialStripeDone(s) \/ PlainStripeDone(s)
       \/ LaunchStripe(s) \/ StripeReturns(s)
  \/ \E p \in Plans : LaunchPlan(p) \/ LaunchPlain(p)
  \/ PlainFails \/ Collect \/ LaunchMains \/ CreateHelps
  \/ PrepareFirst \/ WarmUp \/ StartRound \/ LookAtFlag \/ LeaveRounds
  \/ FinishGlobal
  \/ \E t \in Tasks : HelpStarts(t)

Proxies ==
  \/ \E p \in Plans :
       MainListens(p) \/ MainUnbound(p) \/ MainWrites(p) \/ MainGone(p)
  \/ \E t \in Tasks :
       \/ HelpDelivers(t) \/ HelpRefused(t) \/ HelpWithoutData(t) \/ HelpGone(t)
       \/ Prepares(t) \/ PrepareGone(t)

Faults ==
  \/ \E s \in Stripes : PlanFails(s) \/ PlanStripeInPart(s)
  \/ \E c \in Clusters : ProxyExits(c)
  \/ EarlyTimeout

Next == Coordinator \/ Proxies \/ TimeoutAtLast \/ Faults

Spec == Init /\ [][Next]_vars

\* Threads and handlers that can run do run, and a call that nothing can answer
\* any more meets its timeout (call_for).  No fault has to happen.  No action
\* can be taken for ever, so fairness of the disjunction is enough.
FairSpec == Spec /\ WF_vars(Coordinator \/ Proxies \/ TimeoutAtLast)

----------------------------------------------------------------------------
Returned == response # "none"
Written(p) == main[p] = "written"
\* The main did all it does, whether or not the blocks are good.
Ended(p)   == main[p] \in {"written", "spoiled"}

\* Nothing went wrong outside the protocol.
Undisturbed ==
  /\ faults = 0
  /\ \A t \in Tasks : help[t] # "refused"
  /\ \A p \in Plans : main[p] # "unbound"

\* Left alone, a repair comes to its end: no main is left waiting for a
\* transfer, no proxy or permit is needed by those who wait for each other, and
\* every block is written and found where the metadata says it is.
UndisturbedRunRepairs ==
  Undisturbed /\ Returned =>
    /\ response = "success" /\ stripeOk
    /\ \A p \in Plans : Written(p)
    /\ located = Plans

\* The plain and the unordered repair move a block in the metadata only after its
\* main came to its end, and say success only when all plans that were made are
\* moved, even if a stripe fails while another one returns.  (More does not hold: a
\* main answers well whatever became of its writes, and dropped plans are no
\* failure.)
HonestAnswers ==
  mode \in {"plain", "unordered"} =>
    /\ \A p \in located : Ended(p)
    /\ response = "success" => located = Made(Plans)

\* The plans of a stripe use the same port, or acceptor, one after the other.  A main
\* of the plain repair decodes its own transfers only, whatever fails; one of the
\* serial repair until an RPC has failed.  (Afterwards it need not: a main that was
\* given up goes on accepting, and a help of the next plan may find it.)
OwnDataUntilAFailure ==
  mode = "plain" \/ (mode = "serial" /\ stripeOk) =>
    \A p \in Plans : got[p] \subseteq TasksOf(p)

\* The join repair sends what the schedule allows only: two transfers in
\* flight never share a helper or a main cluster.
RoundsDoNotOverlap ==
  mode = "join" => \A t, u \in InFlight : t # u =>
    HelperOf[t] # HelperOf[u] /\ MainOf[PlanOf[t]] # MainOf[PlanOf[u]]

\* Although a round is sent while the next one is prepared, a send finds its
\* payload, except in the first round, which starts whatever became of its
\* preparation, or after its proxy has ended.
PreparedBeforeSent ==
  mode = "join" /\ round # 1 =>
    \A t \in InFlight : t \in payload \/ HelperOf[t] \in down

\* The join repair starts a round after the first only if every send of the rounds
\* before was answered well and all the data of the new round is prepared, although
\* the calls of the mains clear the same flag at any time, after the look at it too.
RoundsFollowSuccess ==
  [][round' # round /\ round > 0 =>
       /\ \A q \in 1 .. round : \A t \in RoundTasks(q) : help[t] \in {"ok", "dropped"}
       /\ \A t \in RoundTasks(round + 1) : help[t] \in {"prepared", "dropped"}]_vars

\* Every repair operation returns, whatever fails.
RepairReturns == <>Returned

----------------------------------------------------------------------------
(* What lines of the code and its client say, and runs refute.             *)

\* repair.cpp:3161 and 3183: the mains are started before the helps so that they
\* listen when the helps send.
HelpsFindTheirMain == \A t \in Tasks : help[t] # "refused"

\* repair.cpp:3107: a data_port per stripe keeps the acceptors of several
\* main_repair on one proxy apart.
PortsDoNotCollide == \A p \in Plans : main[p] # "unbound"

\* run_client.cpp:103: a flow repair that failed answers success = false.
SuccessMeansWritten == response = "success" => \A p \in Plans : Written(p)
============================================================================
