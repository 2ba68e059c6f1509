# Formal models of the erasure-coded storage prototype

The program (namespace `ECProject`, everything under `src/src/`) stores objects
in erasure-coded stripes: a coordinator plans, proxies (one per cluster) encode,
decode and move blocks, datanodes keep them.  This directory holds TLA+ models
of the parts whose correctness depends on the order in which threads, RPCs and
sockets act, TLC configurations that check them on small instances, and TLAPS
proofs of the properties that matter most.

## 1. Inventory

| Component | State | Operations | Modelled |
|---|---|---|---|
| Help RPC semaphore, `coordinator/repair.cpp` 193-233 | `count_`, `next_ticket_`, `waiting_`, one mutex, one condition variable | `acquire`, `release` | yes |
| Round scheduler, `repair.cpp` 24-140 | weight matrices of physical and dummy links | `compute_schedule`, `dfs` | yes |
| Flow repair dispatch, `repair.cpp` 1519-3529 | `stripe_ok`, threads of mains and helps, `blocks2nodes` | the serial, unordered, ordered and join repair | control: yes; measurements: no |
| Proxy repair handlers, `proxy/handle_repair.cpp` | acceptors on data ports, `prepared_help_payloads_` | `main_repair`, `help_repair`, `prepare_help_repair_data`, `send_prepared_help_repair_data` | as far as the flow repair calls them |
| Plain repair, `repair.cpp` 414-704 | `rpc_ok`, threads of one plan | `do_repair` | yes (a fifth mode of the dispatch) |
| Concrete plans, `repair.cpp` 802-1231, 3531-3777 | free nodes per cluster, ports | block choice, helper choice, new locations | the choice of new nodes of `concrete_repair_plans`; not helpers and the flow variant |
| Repair plans of the codes, `ec/lrc.cpp`, `rs.cpp`, `pc.cpp` | `failed_map`, `fb_group_cnt`, `failures_idxs` | `generate_repair_plan`, `help_blocks_*`, `repair_multi_*`, `check_if_decodable`, `generate_partition` | yes, without coefficients |
| Metadata, `coordinator/coordinator.cpp` | object tables, stripe table, snapshot, `cur_stripe_id_`, `cur_block_id_` | `request_set`, `commit_object`, `request_get`, `list_stripes`, `request_delete_by_stripe`, snapshot, revert, reset | yes, one object per request |
| Placement, `coordinator/placement.cpp` | `blocks2nodes`, merge groups | partitions and node selection per placement rule | partitions of all codes; node selection for merge groups |
| Stripe merge, `coordinator/merge.cpp`, `proxy/handle_merge.cpp` | merge groups, `larger_stripe`, `blocks_to_move` | recalculation, relief of crowded clusters, separation of blocks, relocation, deletion | `do_stripe_merge` for one merge group; the recalculation's transfers are one step |
| Datanode, `datanode/datanode.cpp` | block files, one shared acceptor | `handle_set`, `handle_get`, `handle_delete` | transfers and files of the on-disk build; not the merge handlers |
| Object path of the proxy, `proxy/proxy.cpp` 75-745 | one acceptor, a thread per announced object | encode and store, decode and get | who meets whom at the acceptor, what is stored where; transfers with datanodes apart |
| Erasure codes, `ec/` | none (pure) | layout, local groups, parity equations, decodability | yes; the field arithmetic no |
| Client and command line, `client/` | none | set, get, delete, cancel, the order of calls in `run_client.cpp` | as far as they drive `ObjectStore` |
| Utilities, configuration, tests, vendored and generated code | - | - | no |
| Min-cost max-flow planner | external process | chooses helper clusters | no: external |

How they interact.  The client calls the coordinator by RPC (four RPC threads;
`mutex_` protects the object tables only).  The coordinator calls proxies by RPC
with timeouts of 500 s for repairs, one operating-system thread per call, and
joins the threads.  Proxies have 128 RPC workers each; data between proxies and
between proxy and datanode goes over separate TCP connections whose acceptor is
bound to a port that the plan names (`SOCKET_PORT_OFFSET` from the RPC port).  A
datanode has one RPC thread and one acceptor for all transfers.  A failed
`my_assert` ends the process.

What is hard, per component, and what makes it correct:

* *Semaphore*: wake-ups are `notify_all` after the mutex is given up; a thread that
  leaves the queue notifies nobody.  Correct: permits conserved, service in ticket
  order, nobody asleep beside a free permit, everybody served.
* *Scheduler*: augmenting paths over a padded multigraph.  Correct: every round a
  matching, every task in one round, as few rounds as the busiest cluster has tasks.
* *Dispatch and handlers*: mains and helps run at the same time on the same
  proxies, hold workers, permits and ports while they wait for each other; calls are
  given up while the handler runs on; the join repair overlaps the sends of a round
  with the preparations of the next.  Correct: an undisturbed run repairs, the
  answer is honest, rounds do not overlap, no foreign data is decoded, every
  operation returns.
* *Metadata and object path*: check and update in different critical sections, stripe
  numbers taken back by an abort, snapshots older than the placement, threads that
  accept on one socket and store whatever comes under their own block numbers.
  Correct: a get returns what the last set of the key wrote; the object table and the
  stripe table agree; the coordinator's assertions hold.
* *Plans*: several loops keep the lost blocks, their counts per group and their indexes
  side by side.  Correct: a plan reads nothing that is lost and can be solved; every
  lost block is in one plan; the planner ends and agrees with `check_if_decodable`; no
  two restored blocks get one node.
* *Placement*: correct: the loss of any one cluster can be repaired.
* *Merge*: block indexes are renumbered, blocks are moved in two passes that do not
  know of each other, and the moves run at the same time.  Correct: the larger stripe
  is one of the merged code, tolerates a cluster again, has one block per node, and its
  blocks are where the metadata says.
* *Datanode*: two announced transfers share an acceptor.  Correct: a block receives
  its own bytes.

`PROJECT.json` lists every hazard at its line with the properties that cover it.

## 2. Modules

| Module | Models | Notes |
|---|---|---|
| `PermitLine` | abstract specification of the semaphore | a line of threads, a number of permits: the first in line takes a permit |
| `FifoSemaphore` | `FifoSemaphore` and the thread that uses it | one action per stretch of code between lock, wait, unlock and notify |
| `RepairScheduler` | `compute_schedule`, `dfs` | the dummy links and the chosen pairs of a round are computed by recursive functions |
| `FlowDispatch` | `do_repair`, `do_flow_repair_common`, `run_one_stripe`, and the handlers they call | the five repair operations are values of `mode` |
| `DatanodeTransfer` | `write_to_datanode`, `read_from_datanode`, `delete_in_datanode`, `block_migration`, the datanode's handlers | proxy threads follow scripts |
| `CodeCommon`, `LrcLayout`, `LrcPlans`, `RsPcPlans` | the codes of `src/src/ec` as pure operators: groups, parity equations, decodability, the grid of a product code, what a repair reads | no state; used by the next two |
| `RepairPlanning` | `generate_partition`, `generate_repair_plan`, the new nodes of `concrete_repair_plans` | one action per plan of the planner's loops |
| `StripeMerge` | `generate_placement`, `do_stripe_merge`, `block_relocation` | one action per phase, per moved batch and per half of a move |
| `ObjectStore` | `coordinator.cpp` and the object path of client and proxy | one action per stretch without a lock or a message |
| `CodeLemmas` | lemmas about the operators of `CodeCommon` | shared by the proofs about plans and merges |
| `FifoSemaphoreProofs`, `RepairSchedulerProofs`, `FlowDispatchProofs`, `RepairPlanningProofs`, `DatanodeTransferProofs`, `ObjectStoreProofs`, `StripeMergeProofs` | theorems | section 5 |
| `MC...` | instances for TLC | stuttering after the end, so that deadlock stays checked |

The modules meet in four places.  `RepairScheduler` establishes what `FlowDispatch`
assumes of `Rounds`; `FifoSemaphore` justifies the permits of `FlowDispatch`;
`LrcLayout` and `RsPcPlans` are the codes both of `RepairPlanning` and of `StripeMerge`;
`DatanodeTransfer` is the detail of what `FlowDispatch`, `StripeMerge` and `ObjectStore`
take as one step, the transfer of a block between a proxy and a datanode.

**FifoSemaphore.**  `pc[t]` says where thread `t` is: created, sleeping in `wait`,
woken and about to check again, past `acquire`, between the increment and the
notification of `release`, done.  `waiting` is the queue of tickets, `count` the
permits.  Spurious wake-ups are an action of their own.  `LineSpec` is the
refinement to `PermitLine`: the waiting threads in ticket order are the line.

**RepairScheduler.**  `Init` chooses any set of tasks between clusters (at most one
link per task; helper and main differ, which line 3680 guarantees for the callers);
`Pad` adds the dummy links; each `Round` computes the matching of the code,
displacements included, takes one physical link of each matched pair if there is
one, else a dummy.

**FlowDispatch.**  The coordinator's actions are the stretches of
`do_flow_repair_common`, or of `do_repair`, between joins.  `mainRpc` and `help` are what the threads of
the coordinator know of each call; `main`, `got`, `payload` and `orphans` are what
the handlers do, which may differ once a call was given up.  `AddressOf` gives the
address on which a main listens (proxy and data port); plans of one stripe share the
port, as lines 2237-2239 and 3119 make them.  A help reaches whichever main is
bound at that address.  `Workers` is the number of handlers that a proxy runs at a
time; `Capacity` the permits of `help_rpc_sem`, which are given to any waiting
thread (`FifoSemaphore` shows that permits follow tickets, but a thread may take
its ticket late).  `Rounds` is any schedule with the properties that
`RepairScheduler` is shown to have (`RoundsAssumption`).  The plain repair has no data port: its mains accept on the acceptor of their
proxy (`Address`), which is bound as long as the proxy runs, so that a connection waits
until some `main_repair` accepts it (`Reachable`), and `main_repair_accept_mutex_` lets
one at a time accept (`PortInUse`); it looks at `rpc_ok` after every plan (626-629).
Lines 2729-2924, the
ordered repair of one stripe, cannot be reached: `enable_global_schedule`
(1545-1546) holds whenever that branch's condition does and `run_one_stripe` returns
at 2651; they are not modelled.  Byte counts, times and log output are left out.

The look at `stripe_ok` after a round (3327, `LookAtFlag`) and the start of the next round
(3292-3314, `StartRound`) are two steps, since the threads of the mains clear the flag at any time.

Faults: a planning error of a stripe (`PlanFails`), a main cluster without a free node, at which
`concrete_flow_repair_plans` stops and whose answer nobody looks at (2237, `PlanStripeInPart`: the
plan and those after it are `"dropped"`), a block that is not written or is decoded from one that
could not be read, of which nobody is told (`proxy.cpp` 106-131 and 161-169; the main is
`"spoiled"` and answers well), the end of a proxy process
(`ProxyExits`), a timeout that comes although the handler would have answered
(`EarlyTimeout`, the handler runs on or the call was lost).  `MaxFaults` bounds them.
`TimeoutAtLast` is not a fault: it is the timeout of a call that nothing can answer
any more, and it is the only timeout that fairness forces.

**DatanodeTransfer.**  A thread of a proxy (`at`, `step`, `hand`) goes through a
script of sets, gets, deletions and migrations.  `Announce` is the RPC `handle_set` or
`handle_get` (`proxy.cpp` 83, 146, 240), for which the datanode starts a detached thread
(`datanode.cpp` 312, 381) that accepts; the datanode's accepting threads are
`handlers`, the connections in the listen queue are `backlog`.  `Connect` is the proxy's
connection, `Pull` the second half of `block_migration` (`proxy.cpp` 248-252), during
which the destination's only RPC thread is `busy`; `Delete` is the RPC
`handle_delete`, which `block_migration` calls whether or not the pull succeeded
(`block_relocation`, 789-802).  All handlers of a datanode accept on one socket, so
any of them may take the first connection: a push taken by the thread of
another push is stored correctly, because id and length travel with the block
(`Stores`); a read taken by the thread of another read gets the other block, as nobody
compares the key that was sent (`Sends`); a push taken by a read's thread is lost or blocks
both sides, depending on what the socket buffers hold (`Loses`); a read taken by a
push's thread blocks both (`Hangs`).  What a thread holds is abstracted to which
stripe it is a part of, so "get, then set" stands for a repair that reads one block and
writes another.  The auxiliary variable `mixed` records the datanodes at which a read
was announced while another transfer was outstanding (or the reverse); no action
reads it, only the properties do.  Faults: a datanode ends at rest, or in the middle of
a block, after which `read_from_datanode` still answers true with what it has and a pull stores
a torn block; a proxy thread ends in the middle of what it pushes, and the datanode, which does not look
at the errors of its reads (195-205), stores what it got (`PusherEnds`); a file cannot be written, stays as
it was or holds a part, and the 0 that answers a push is only logged (`proxy.cpp` 119-121,
`StoreFails`) and that of a pull not even sent to the caller, who deletes the source (`PullStoreFails`); a file cannot
be read, which `access_data` does not notice (`ReadFails`), or not be removed (`DeleteFails`).  `unwritten` records the
files whose last write failed.  A sender whose peer has ended throws at `datanode.cpp` 356, where nothing
catches, and ends as well (`Follows`).  The on-disk build is modelled, not the in-memory
store; the RPC library's own timeouts, lengths and checks of the local directory are
left out.

**The codes.**  A code is a record with its type and parameters.  An answer of a
`help_blocks_*` function is the set of parity blocks whose equations are used and the
set of blocks that are read.  Coefficients are generic: a square system is taken to have
a solution when every unknown can have an equation of its own.  That is an idealisation:
whether the matrices that `ec/` makes over GF(2^8) really are invertible is a question
about field arithmetic, which no module models.
The lists that the program keeps per cluster are sets here, since the cluster of a
block follows from its place.

**RepairPlanning.**  A behaviour is one stripe: `PlaceFlat`, `PlaceOptimal` or the steps
of a random placement; `Lose` chooses the lost blocks and the client's options; then one
action per plan, with the state that the loops keep: `todo` (`failed_map`), `cnt`
(`fb_group_cnt`), `iter` (`iter_cnt`).  `"refused"` is the program's "undecodable",
`"wild"` an index that was never set.  `Concretise` picks nodes for the restored blocks
of one plan (`concrete_repair_plans` 802-1002); clusters in which earlier plans have put
blocks keep their list of free nodes.

**StripeMerge.**  A behaviour places `x` stripes by the rule of the setup and merges
them.  `larger` is `larger_stripe`; `made` records the blocks a new parity block was
computed from, by their positions in the code it was computed with, so that a wrong
renumbering shows.  `MoveToSmaller`, `MoveToFree`, `MoveGroup` and `MoveColumn` move blocks, groups or
columns out of clusters that hold too many.  One pass over the blocks then separates those that share a
node: `PartBlocks` moves the next block (`Turn`) that shares its node when its turn comes, `look` is where
the pass has come to, and it ends when no block after that shares its node, whatever may be
true of the ones before. `Copy` and `Drop` are the halves of
`block_migration`; only the moves of one block interleave, as moves of different
blocks touch different files.  Where the code reads or writes past a vector or draws from
an empty one (no cluster is free, or fewer nodes than blocks to move, `NodesShort`), the model stops in `"undefined"`.

**ObjectStore.**  A set is `Set` (the call), `Check`, `Number` and `MakeStripe` per stripe,
`Enter`, `Dispatch`, the client's `Connect`, the proxy's `Store`, and `Commit` or
`Abort`.  `Number` and `MakeStripe` are two steps because `cur_stripe_id_++` is not
protected.  `storing` are the threads in `accept` at a proxy, `conns` the connections of
clients; `Store` pairs any of the former with any of the latter at the same proxy.  A get looks
its stripes up in one step and reads the blocks later; a deletion is four steps.  Datanodes fail, and
nobody looks: `StoreFails` leaves what lay under the failed blocks' numbers, or a mixture, and the set
is answered all the same (`write_to_datanode`, 106-131, and the constant answer at 437); `ReadTorn` gives a
get a block of zeros or one that ends in zeros (`read_from_datanode`, 161-170, 210-214); a
deletion may leave blocks behind.  A datanode's threads accept any connection, so that two gets may give
each other's blocks (`ReadsCross`) and a get may take a write's connection.  `stripe_table_` has no lock:
`TablesBreak` and `EraseBreaks` are the insertions and erasures that meet another call there, and
they may end the process.  A
`Workload` bounds how often each call and fault happens.  `current`, `fresh` and `trouble`
are history variables; `trouble` names what has happened that the program has no
protection from, and the properties say which troubles are needed for which harm:

| Trouble | What it is |
|---|---|
| overlap | two handlers of `request_set` between `mutex_.unlock()` (97) and their answer |
| same_key | two sets of one key, or a set of a committed key (assertion at 93) |
| shared_proxy | two threads in `accept` at one proxy, of which one may be left by a set that was given up |
| bad_abort | an abort of a set that did not make the last stripe and only that one |
| stale_revert | a revert after block or stripe numbers were given again |
| reset_early | `set_erasure_coding_parameters` while calls run |
| deleted_early | stripes deleted that are being set or read |
| absent_key | a get of a key that is not committed |
| lost | a block was lost, or its write failed |
| old_kept | a write failed where an older block lay under the same number |
| read_broken | a read that broke off and counted |
| transfers_meet | two gets read at one datanode at a time |
| erased_in_use | a deletion, an abort or a reset erases from `stripe_table_` while another call is in it |
| repaired_early | a repair of a stripe whose value is not written yet |

## 3. Runs

| Run | Instance | Distinct states | Question |
|---|---|---|---|
| `fifo_semaphore` | 4 threads, 2 permits | 4 349 | conservation, ticket order, no lost wake-up, everyone served, refinement |
| `fifo_creation` | the same | violation | do permits follow the creation of the threads? |
| `repair_scheduler` | 4 clusters, up to 4 tasks | 9 812 | matchings, every task once, shortest schedule |
| `flow_parallel` | 2 stripes of one plan, 4 tasks, 3 clusters, 2 permits, 2 workers, at most 2 faults; plain, unordered, ordered and join | 173 276 | progress, honesty, rounds, return |
| `flow_serial` | 2 plans on one port or acceptor, then a second stripe; at most 2 faults; serial and plain | 21 228 | own data, return |
| `datanode_transfer` | 4 threads, 3 datanodes, 7 blocks, at most 1 fault | 237 325 | right contents, no lost push but a failed one, migrations keep the block, every transfer ends |
| `repair_plans` | 22 settings of the 8 codes, flat, optimal and (7 of them) random placement, up to 3 lost blocks, all options | 901 130 | plans decode, every loss once, planner ends and agrees with the check, placements tolerate a cluster, new nodes differ |
| `merge` | 15 setups, 5 clusters of 4 nodes | 322 697 | is the merged stripe one of the merged code, tolerant, spread, and in place? |
| `object_store` | 2 clients, 2 keys, 2 proxies, 15 workloads, symmetric | 881 618 | does a get return the value? do the tables agree? does the coordinator stay up? |
| `flow_ports` | as `flow_serial`, unordered | violation | do ports per stripe keep mains apart? |
| `flow_refused` | as `flow_parallel`, no fault | violation | does every help find its main listening? |
| `flow_success` | as `flow_parallel`, no fault | violation | does success mean written? |

Why the bounds are enough to show the interesting cases.  Two permits and four
threads make two threads wait while another leaves the queue and a release is
between increment and notification.  Four tasks over four clusters include pairs
with two tasks, degrees that differ (so padding is needed) and matchings that need
a displacement.  In `flow_parallel` cluster 1 and 2 are each main for one stripe and
helper for the other, so a worker held by a waiting main is wanted by the help of
another, there are more tasks than permits, and there are two rounds, so that a
round is sent while the next is prepared.  Two faults allow a fault of each of two
stripes, or a lost call followed by the end of a proxy.  With `Workers = 1` mains
that wait for each other's helps could starve (they would end by timeout); the
program starts 128, so two, one more than the mains of a cluster, stand for "enough".
In `flow_serial` two plans follow each other on one port, which is where a main that
was given up meets the transfers of the next plan.

In `datanode_transfer` one thread writes a block to datanode 1, one repairs a block
(get from 2, then set to 1), and two migrate blocks, from 3 to 2 and, at the same time,
from 2 to 3 and then from 1 to 2; one of them then deletes a block of 3.  So two
pushes can meet at datanode 1, a push and a read at 1, two reads at 2; migrations
run in opposite directions and two have the same destination, whose RPC thread takes
one at a time.  One fault of any kind suffices for the cascade, since the second end needs none.

In `repair_plans` every code occurs with parameters for which its branches differ: even
and uneven groups (Azure, Optimal), global parities in a group of their own and in local
groups, groups of the optimal Cauchy code smaller and not smaller than the data (6,2,2 and
4,2,2).  Three losses reach every branch of the multi-block methods: with two global
parity blocks, three losses are the most that most of the codes restore, and the smallest
loss that mixes data, global and local blocks; four settings have three global parity blocks or three
groups, so that fewer are lost than could be.  Random placements are explored for seven settings of
four to six blocks or three columns, all five local codes among them (five more settings, small because every order of the
clusters and blocks is drawn); Rs(4,2) and Rs(3,2) lose more than they can restore, too.  New nodes are explored for three settings (seven nodes per cluster: the four
blocks of a cluster at most, and three losses).

In `merge` the groups have two to four stripes (four, so that a cluster has a larger surplus than another has free nodes).  Five clusters of four nodes are few enough that
stripes of one group share clusters, that a cluster has more blocks than its code tolerates,
that no cluster is free and that two blocks meet on a node.  The nodes of a partition follow
each other from one or two first nodes, moved blocks take free nodes in ascending order and
hash maps are walked in two orders (each named "bound" in the module): which cluster a block
is in is explored fully, which node only as far as two blocks meet.

In `object_store` the workloads are the pairs of troubles that can meet: two sets with a get
and a deletion, with a client that gives up, three with an abort, values of two stripes with
an abort or a loss, a snapshot with a reset and a revert, a repair of a stripe that a set has
only planned after a reset, two gets at a time, and one failing read, write or deletion with or without a reset before it.  Two clients
suffice for each trouble, since each is a meeting of two calls; a third set is needed to
overwrite what an abort gave back.

Every property of a passing run has a mutant of the code's definition under which
TLC finds it violated (`PROJECT.json`, "mutants").

Fairness.  In `FifoSemaphore` every thread that can take a step of its own does so
in the end (weak fairness per thread, for the steps the scheduler of the operating
system gives it; spurious wake-ups are never forced).  In `FlowDispatch` weak
fairness of "some thread, handler or last timeout acts": threads and handlers run,
and `call_for` returns after its timeout (1612, 2248; in the plain repair the same).  No action can be repeated
for ever, so fairness of the disjunction means that the system acts as long as it
can.  No fault is ever forced.  The same holds in `DatanodeTransfer` for proxy threads and
datanode threads; nothing has a timeout there, so `EveryTransferEnds` is claimed only of
behaviours in which no read meets another transfer.  `RepairScheduler`, `RepairPlanning`,
`StripeMerge` and `ObjectStore` state no fairness and claim safety only.  That the planner's
loops end is a safety property there: `iter` and `made` are bounded in `TypeOK`, and the deadlock
check, with stuttering allowed only after the last step, shows that no step is stuck.

## 4. What the refuted runs show

1. `fifo_creation`: a thread takes its ticket itself inside `acquire`, so the order of
   tickets is the order in which threads reach the mutex; the comments at
   `repair.cpp` 194 and 3335 say it is the order of creation.
2. `flow_ports`: two plans of one stripe get the same data port and are started
   together by the unordered and ordered repairs; the second bind fails.  The comment
   at 3107 says that ports per stripe avoid this.
3. `flow_refused`: the mains are called before the helps but nothing waits until they
   listen; a help that comes first is refused.  Comment and log at 3161-3162 and 3184
   say otherwise.
4. `flow_success`: the serial, ordered and join repairs move the blocks in the
   metadata and answer success although an RPC failed (a refused help is enough); the client
   (`run_client.cpp` 103-106) reads the answer as the outcome.

### Exceptions that the properties state

Some properties hold only with an exception.  Each exception is written into the property as a
condition on the state, and none is there in vain: when any one of the conditions below, or any
one name of a trouble in a property of `ObjectStore`, is taken out, TLC violates the property.  No document of the repository denies these behaviours, so
they are listed as hazards and not as findings.

*Own data* (`OwnDataUntilAFailure`).  The mains of the plain repair decode only transfers of
their own plan, whatever fails, since a failed call ends the repair before the next plan.  The
serial repair goes on: when a help of plan 1 is lost, its abandoned main still listens on the
port when plan 2 sends, and takes its transfer.  The property is therefore stated for the serial
repair up to the first failed call.

*Honest answers* (`HonestAnswers`).  The plain and the unordered repair locate a block when its main
came to its end (`Ended`), not when it is written: a write that fails is not reported by
`write_to_datanode`, nor a read by `read_from_datanode`, and the main answers well.  Success means that the
blocks of all plans that were *made* are located, since plans that are dropped are no failure to the
code.  `UndisturbedRunRepairs`, where every block is written, has none of these faults.

*Transfers* (`DatanodeTransfer`).  The properties are stated for datanodes at which no read has met
another transfer.  The program mostly respects this, since a stripe's blocks are on different
datanodes; the repair of several stripes at a time may read two blocks of one datanode
together, which may swap them.  `WritesLand` leaves out the files that could not be written (`unwritten`),
which no caller learns, and `MovesKeepTheBlock` is claimed while nothing has failed: a migration deletes its source
whatever became of the copy.

*Plans* (`PlansDecode`, `AgreesWithCheck`, `SingleClusterTolerant`, `SpreadKept`).
- `BeyondRepair`: `check_out_failures` counts whatever nodes failed, and `RSCode::generate_repair_plan`
  (`rs.cpp` 506-530) never asks `check_if_decodable`: a Reed-Solomon stripe that lost more than `m` blocks gets a plan
  that reads fewer than `k` blocks, and the repair is carried out with it.  Such a plan decodes nothing (`PlansDecode`),
  and the planner does not agree with the check (`AgreesWithCheck`); what it reads, which blocks it names and where
  it puts them is checked all the same.
- `MixesGlobals`: `partition_random` of the local codes (`lrc.cpp` 236-259) draws up to `g + 1` blocks "at least subject to
  single-region fault tolerance".  Of the optimal Cauchy code a cluster of `g + 1` data and global parity blocks may be
  drawn (blocks 0, 6 and 7 of the 6,2,2 code) whose loss `check_if_decodable` (2849-2866) refuses, since fewer groups are
  whole than global parity blocks are lost.  `SingleClusterTolerant` leaves such clusters out and holds for all others.
- `NotMeantToDecode`: a Reed-Solomon plan without the partial scheme names another number
  of parity blocks than blocks are lost, and with it, where fewer than `m` blocks, data and parity,
  are lost, as many parity blocks may be read as blocks are lost, which `rs.cpp` 50 takes for the
  equations of all, although a lost parity block has none; method 2 with local priority lists, for a
  plan of several global parity blocks lost together with local ones, the parity blocks of everything
  that is lost; the optimal Cauchy code with groups no smaller than the data says "local" and reads
  `k` survivors.
- `HealthyGroupsIgnored`: `check_if_decodable` restores several lost global parity blocks of the optimal
  Cauchy code in groups that lost nothing else; the planner, whose counts are then above one, refuses
  a loss of more data than global parity blocks are left.
- `Beside` in `SpreadKept`: `concrete_repair_plans` thinks every node of a cluster free that holds none of the
  blocks that the plan restores or reads (853-893), so that a restored block may join a survivor that
  is not read.  A Reed-Solomon plan reads the survivors of the clusters that lost blocks first, so this cannot
  happen where these are no more than `k`.
- `CountsGoStale`: method 2 of the optimal Cauchy code ends with "generate repair plan
  error" although `check_if_decodable` accepts the loss.
- `EvenGroups`: with uneven local groups the optimal placement may put a cluster together
  whose loss `check_if_decodable` refuses, and Azure's is not tolerant.

*Merge* (`MergedCodeRight`, `WithinTolerance`, `BlocksInPlace`).
- `Mergeable`: a product code of type `HV_PC`, an Azure code whose `k` is no multiple of `l`,
  and a vertical merge of a product code with `m2 >= 2` get wrong or out-of-range positions
  (`merge.cpp` around 1090-1138).
- `Misled`: one free cluster takes the whole surplus of a cluster with more than `2m` blocks
  (213), `des_cid` stays 0 for local groups after the first (626), columns are looked up
  under 0, 1, ... (1226).
- `Astray`: a block that the relief and the separation both move is copied twice and its end
  depends on the order (`proxy.cpp` 810); one whose destination is its own node is copied
  and then deleted (799, 808).
- A behaviour ends in `"undefined"` where the search for a free node (245-251) passes the last
  node of the cluster, because `random_range` includes its upper end, or where
  `random_index` is called for an empty list of free clusters or free nodes.

*Objects* (`ReadsReturnTheValue`, `IndexAgrees`, `CoordinatorStaysUp`).
- A thread that a given-up set left in `accept` takes the connection of the next set at that
  proxy and stores its value under the blocks of the old one; both report success.
- An abort gives one stripe number back whichever stripes the set had made, so that the
  next set overwrites a live stripe.
- Neither `set_erasure_coding_parameters` nor a deletion clears the snapshot; block numbers
  start again, and a revert makes a get read blocks of an earlier experiment.
- A repair of a stripe that a set has planned and not yet written moves, after a reset, the old
  block of the same number: the set then writes the block where the stripe was, and a get reads
  the old one where the stripe is.
- A read that breaks off, or meets another one at the datanode, gives a wrong value, and a write that fails keeps
  what lay there; nothing is reported.  A write that fails where nothing lay (no reset has come before it) is a loss: a get
  then returns less, but nothing wrong.
- Insertions into and erasures from `stripe_table_` are not protected from calls that look stripes up or list them,
  so that the coordinator may end whenever a deletion, an abort, a reset or a set runs beside another call
  ("overlap", "erased_in_use").
- Of a value of several stripes the first stripe only is listed, so a get returns its first
  part.  A lost block gives an empty value, since the lines that would append the decoded
  data (`proxy.cpp` 699-703) are commented out.

## 5. Proofs

For every value of the constants that satisfies the named assumptions:

*FifoSemaphoreProofs.*  `Invariance` (the inductive invariant), `TypeCorrect`,
`PermitsAreConserved`, `FirstComeFirstServed`, `NoLostWakeUp`, `ImplementsLine`
(refinement of `PermitLine`'s safety part).  The safety properties are not inductive by
themselves: the queue must be known to hold each ticket once and in increasing order,
below `next_ticket`, and exactly the tickets of the threads that wait; and the thread
at the front, when a permit is free, must be awake or some thread must still owe a
notification.  That last conjunct is the argument why `release` may notify after
unlocking and why a thread that leaves the queue need not notify.

*FlowDispatchProofs.*  `TypeCorrect`, `RepairIsHonest`,
`JoinRoundsDoNotOverlap`, `JoinSendsWhatItPrepared`, `RoundsFollowSuccessHolds`,
`MainsDecodeTheirOwn` and `LeftAloneItRepairs`, from `BoundsAssumption`, `PlansAssumption` and
`RoundsAssumption`.  These are all the invariants that the runs check of this component and its action
property.  Four inductive invariants.  `HonestInv`: while `stripe_ok` is still set, every main call that is
answered was answered after its main came to its end (`AnswersInv`), and what the plain or the unordered
repair has moved is of such mains (`MovedInv`).  `RoundsInv`: the round counter against the stage
(`CounterInv`), the state of every task against the round that holds it
(`TaskInv`: in flight only in the current round, prepared only in the next), and a
prepared payload is there unless its proxy ended (`PayloadInv`), and once the flag was looked at, all
threads of the rounds so far have ended well, whatever the flag says when the next round starts
(`ReadyInv`).  With these,
`RoundsAssumption` gives that two tasks in flight share no cluster.  `TurnsInv`, for the
repairs that go plan after plan: a plan is launched when all earlier ones of its stripe
are joined and all earlier stripes done (`TurnInv`), as long as no call has failed nothing runs on
unseen (`CleanInv`), and therefore of two launched plans one is quiet, that is at its end and with
no transfer under way (`QuietInv`).  A main that is listening and a transfer that is under way are
then of one plan, although port and acceptor would let any two meet.  `AloneInv`, for a repair by any of the
five operations that nothing disturbs, is why `UndisturbedRunRepairs` holds: `NobodyStarves`, no timeout is
met.  A main may receive transfers of another one at its address; what it is owed can still come,
because no main at the address has received more than it waits for itself (`OwedCanCome`: the sets that the
other mains have received are together not larger than the sets of their own transfers, `NotLargerTogether`,
so what they took of its transfers they leave of their own).  The join repair has the data
of what it sends and leaves no round unsent (`SentInv`); blocks are moved when their calls are answered
(`EndInv`).  The hypothesis of the theorem, `EnoughWorkers`, is that every proxy has more workers than mains (more
than one, where plans are carried out one by one): with fewer, the mains of two proxies that help each other
hold the workers which their helps wait for.  The instance of the run satisfies it (one main and two workers to a
proxy).  That an undisturbed repair does not come to be disturbed by what it starts is `OverStays`: calls
and threads that are over are not started again.

*RepairSchedulerProofs.*  `SchedulerTypes`, `RoundsShareTheTasks`, `NoClusterTwiceInARound` and
`ScheduleIsShortest`, for any number of clusters and any tasks (`SizesAssumption`: the two bounds are
numbers).  That is all that the run checks of this component.  `RoundsShareTheTasks` needs only
that appending a round counts once for each link in it (`AppendedRound`).  The others are about what
recursive functions compute, and the library's induction theorems cannot be instantiated here; what they
are used for is proved from sets instead: a set of numbers that holds 0 and is handed on from each number
to the next holds all (`UpTo`, by a least counterexample), so that a function defined by its value at 0
and a step exists (`Recursion`); and the recursion of `dfs` ends because each call has tried one
destination more (`SearchInduction`), so that the function it defines exists too (`DfsExists`).
From there the argument is Koenig's theorem, done for this program.  `DfsPlain` and `DfsGives`: a search
keeps a matching a matching, gives its source a destination and takes none from any other source; if it
fails it changes nothing, and the destinations it has seen are closed under asking their sources for
others.  `PaddingIsRegular`: the padding loop, each of whose dummy links fills up a sender or a
receiver (`FillFits`), ends with at most two links to a node and with every node sending and
receiving as much as the busiest; in particular the inner loop always finds a receiver, without which
the `while` of line 77 would not end.  `SearchSucceeds`: a search that failed would leave `|S| + 1`
sources whose tasks, `d` each, all go to the `|S|` destinations seen, which receive `d` each.  So every
matching is perfect (`MatchingIsPerfect`), every round leaves the links as even as they were
(`RoundLeavesEven`), and no round is dropped, since the busiest node has no dummy link
(`RoundHasTasks`).  The inductive invariant `SchedulerInv` says just that: after `n` rounds every node
has `Degree(physical) - n` tasks left, dummies included.

*RepairPlanningProofs.*  `PlansPartitionTheLoss`, `PlannerTypes`, `PlansReadInOrder`, `PlannerNeverWild` and
`SpreadIsKept`, for every set of codes, any placement, loss and options, from `CodesAssumption` (the parameters
are numbers, those that the program divides by positive, and Azure LRC+1 has the two groups that `lrc.h` 158 asserts) and `LayoutsCover` (`partition_optimal` of the local codes leaves
no block out and takes none twice, a fact about nested loops over pieces of pieces that the provers cannot reach; TLC evaluates it for every code
of the run).  The inductive invariant `PlannerInv` has eight parts, each of which needs some of the others:
`ClusterInv`, every block is in one cluster and once, whichever way the stripe was placed; `PlanInv`, what is left and
what the plans restore split the lost blocks without overlap; `CountInv`, the count of every group is the number
of blocks that it still misses (`CountsRight`), except in the optimal Cauchy code after a plan for several
global parity blocks, from when on no group counts one; `HelpInv`, plans read blocks of the stripe and none that
is lost when their turn comes; `NodesInv`, while nodes are chosen, a block without a new node is
where it was, a restored one is on a node that was neither free nor used by its plan, and no two restored blocks share
one; `WildInv`, the planner goes wild only where a cluster is crowded; `ShapeInv`, the passes end; `RsInv`, a Reed-Solomon
stripe has one plan, which reads the first survivors.  `PlannerNeverWild` has a condition for the codes whose nodes are
chosen, `EnoughNodes`: every cluster has a node for each of its blocks and another for each that is lost.  Without
it `random_index(0)` is what the code does.  `PlansReadInOrder` is the half of `PlansDecode` about the order in which plans
are made.  Each of the two dozen answers of `LrcPlans` and `RsPcPlans` has a lemma that says that it reads nothing of what
the planner passes to it as lost; the argument is about the answers that are given less than all that is lost: a single
block in its group (`SingleReads`: the count of the group is right and says one), a global parity block of the optimal
Cauchy code in a group that lost nothing else (`AloneInGroup`), the same after the groups are done, when only data decide
(`GlobalsRead`: the groups that count as many as there are global parity blocks have lost none of their own), and a block of
a product code, whose row and column are found back from its number (`CellTrip`).  `SpreadIsKept` needs that the first `k` survivors in the order of
`cmp_descending` include all of the clusters that lost blocks, if these are no more than `k` (`BesideIsRead`), a fact about
counting predecessors in a total order.  The proofs corrected the model in four places: `LeftOf` was parenthesised in a way
that two parsers read differently; `NotMeantToDecode` excused too much; the instance had no code in which
`HealthyGroupsIgnored` or a crowded `Beside` occurs, and the properties claimed more than the code does.

*CodeLemmas.*  What the operators of `CodeCommon` return: an enumeration in order lists every member of a finite set once
(`InOrder`, for any strict total order), the pieces of a list cover it, the `n` least members are members, the first survivors
are usable and not lost, and where the order puts `n` things first, with `n` at most `k`, the first `k` include them; and that `bid2rowcol` undoes
`rowcol2bid` (`CellTrip`), with the arithmetic of quotients and remainders that this and the merge need.

*DatanodeTransferProofs.*  `TypeCorrect`, `RightContentHolds` and `WritesLandHolds`, from
`ScriptAssumption` and, for the latter two, `WritesFollowReads` (a thread that writes a block
holds what it read or brought, as every caller in `proxy.cpp` does); `MovesKeep` from
`MovesApart` as well, its hypothesis that only one migration touches a block and nothing else does.
The instance that TLC checks satisfies both, and asserts the second (`MigrationsApart`);
`StripeMerge` shows that a merge may break it.  The two content properties speak of datanodes at
which no read has met another transfer, and are not inductive, since any accepting thread may take
any connection.  What the invariants add: a queued connection belongs to a proxy thread that waits
for it, or to a pull whose caller is gone (`QueueInv`); every announcement leaves one accepting
thread (`CountInv`); where nothing is mixed, a read is alone with the thread that was started for
it, so that it is that thread that serves it (`SoloInv`); and what a proxy thread holds is what it
asked for (`HandInv`).  A migration is followed through three phases: the block is at the source,
at both ends, at the destination (`MoveInv`).

*ObjectStoreProofs.*  `TypeCorrect`, `IndexAgreesHolds`, `StaysUpHolds` and `ReadsHold`, from
`WorkloadsAssumption` only: any number of clients, keys and proxies, values of any number of stripes,
calls in any order and number.  The argument behind all four is that, without the named troubles, a
stripe number and a block number belong to one owner at a time: the set that drew it, then the
object that set became.  The parts, each under the troubles it cannot bear:
`TypeInv` (none); `NumbersInv`, the numbers that are given lie below the counters and no two sets
hold the same; `IndexInv`, the tables and the stages of sets and deletions agree; `StaysUp`;
`ValuesInv`, every thread in `accept` writes where no other does, what lies where an object's or a set's first
stripe may be looked for is a part of the value of its owner, or nothing, and whatever a get may still read is of the set it asked
for; `WholeInv`, no block is missing where a get may look for it, as long as nothing was lost or
deleted early.  `Finishes` says what the two ends of a write, `Store` and `StoreFails`, have in common, so that each
part of the invariant has one lemma for both: unless something older is kept, what lies where the thread was to write is
what it was given to write, or nothing.  The proof attempts corrected the model in four places: two aborts may take the counter of
stripes below 0 (the code's is unsigned and wraps); an abort looks its key up with `operator[]`
(234), which makes an entry where there is none; a repair may come before the set has written
(trouble "repaired_early", with a workload of its own); and a get of an absent key that is also being
deleted suffered an arbitrary one of two troubles.

*StripeMergeProofs.*  `TypeCorrect`, `OneBlockPerNodeHolds`, `BlocksInPlaceHolds`, `MergedCodeRightHolds` and
`WithinToleranceHolds`, for every number of clusters and nodes, every code, every rule and every number of stripes of a group, from
`SetupsAssumption` (numbers by which the program divides are positive, and two or more stripes are
merged) and `LayoutsCover` (the partitions in use put every block in one: what the functions of the codes
compute cannot be proved here; TLC evaluates it for the setups of the run), and, for
`WithinToleranceHolds` only, `PartitionsOfGroups` (what it returns for Azure LRC: partitions without a common
block, none but the last empty, none with more than `g + 1` blocks of a group; evaluated in the same way).  The inductive invariant
`IInv` has six parts.  `TypeInv`; `PlacedInv`, placement gives the blocks of a group ids of their own
and the disks hold them; `LargerInv`, kept blocks keep their ids and new parity blocks have new ones;
`SearchInv`, the relief handles slots of the larger stripe only; `TrailInv`, a block without a move in the
plan is where its old stripe had it, and one with a single move goes from there to where the
larger stripe says; `DiskInv`, where the disks have such a block before, between and after the halves of
its move, whatever the other moves do.  The fact about data on which the last two rest is `Covered`: for
a mergeable code the kept blocks and the new parity blocks fill every slot of the larger stripe, from
which `SlotIds` gives that no two slots have one block.  It is proved for Reed-Solomon, for Azure
LRC with even groups, and for product codes in both directions, from the arithmetic of rows and columns
(`GridTrip`, from `CellTrip`).  `SlotIds` is also why deleting the old parity
blocks meets no block of the larger stripe.  `OneBlockPerNodeHolds` rests on the part of `SearchInv` that
follows the pass: every block that it has passed is alone on its node, and stays so, because a block is
moved to a node that has none; the relief may have left any number on a node.  The hypothesis "moved at most once" cannot be
dropped: `Astray` is what the relief followed by `PartBlocks` really does.
`MergedCodeRightHolds` is proved in both directions, that a mergeable setup gets a stripe of the merged
code and that any other does not.  Its invariant `NumberInv` adds to `IInv` that the new parity blocks have
the sources that the merge chose and that an empty slot has id 0 (`CountInv`), that the group's ids begin with 0 (`FirstInv`),
and which setups are written past the end (`PastEndInv`).  For the first direction every kept block and every new
parity block has a slot of its own (`Numbered`, `Seated`), a new parity block is computed from the
blocks of its equation in the merged code, each at its position (`Computes`), and the blocks that a kept parity
block covers go to those that its slot covers (`StillCovers`); each is proved for codes in a line (`Flat...`) and for
grids, by their cells (`Pc...`).  For the second, one slot is enough: with uneven local groups slot `k` is that of the first
data block of the second stripe, which the numbering counts to a group of the first one
(`UnevenIsWrong`); a vertical merge with `m2 >= 2` leaves a slot empty, whose id 0 is also the id of the group's
first block (`OverlapIsWrong`); and `HV_PC` is written past the end of the stripe.
`WithinToleranceHolds` is about how many blocks the relief leaves in each cluster.  Whatever the code, every cluster
that was in use has its turn once, what it is to lose is still there when its turn comes, and the free clusters are
empty, except where `Misled` (`QueueInv`).  What a turn leaves is then said of each kind of code.  A Reed-Solomon
cluster ends with at most `m` blocks, and a cluster that takes some of another has no more either, unless the whole
surplus went to one free cluster (`RsReliefInv`).  A product code's keeps at most `m1` columns besides those that are
to leave, and every free cluster is given at most `m1` (`PcReliefInv`).  For Azure LRC, `LrcReliefInv`, a cluster loses
whole groups, and no group that moves is larger than a cluster may lose, because no cluster has more than
`g + 1` blocks of a group.  That is a fact about placement (`SpreadInv`) and it has an exception: where placement in
order meets more partitions than there are clusters (`Crammed`), it puts several in one.  But then no cluster is
free, so that no group ever leaves one: the program draws from nothing at the first cluster that it would have to
relieve, and ends the relief only if every cluster can bear its loss as it is (`FullInv`).

Only model-checked, and why:
- every liveness property (`EveryThreadServed`, `RepairReturns`, `EveryTransferEnds`, the fairness
  part of `LineSpec`): beyond the prover;
- that plans decode (the second half of `PlansDecode`), `AgreesWithCheck` and `SingleClusterTolerant` of `RepairPlanning`:
  facts about the data of the codes (is there a system of distinct equations? is this set of blocks
  decodable?) rather than about orders of steps; most are decided by enumeration.

## 6. What is left

Proofs: what section 5 lists as only model-checked; what is left of `RepairPlanning` needs the decoders' search for
a system of equations.

Models, in order of importance:

1. Two repairs in one behaviour: payloads that an aborted join repair leaves
   (`handle_repair.cpp` 1079), a main that was given up and keeps
   `main_repair_accept_mutex_` for the next plain repair.
2. `FlowDispatch` with `ObjectStore`: the plain repair's mains and the sets of clients accept
   on one acceptor (`handle_repair.cpp` 376).
3. RPC failures of a merge (`merge.cpp` 394-406) and the transfers of its recalculation
   (`proxy/handle_merge.cpp`), with `StripeMerge` over `DatanodeTransfer`; the object lists that a
   merge rewrites; several merge groups.
4. `concrete_flow_repair_plans` (3531-3777) and the helpers of `concrete_repair_plans`, with
   the metadata move of product codes, which takes row and column numbers for blocks
   (`repair.cpp` 659).
5. Several objects in one request, objects that share a stripe, values of different lengths.

Not modelled, and why: arithmetic over Galois fields and the choice of coefficients (`ec/`
and the Jerasure calls: no protocol state, and a question for algebra rather than for
interleavings); measurement, simulation of the network (`IF_SIMULATION`) and logging (no property
is about them); reading of configuration and command line (pure input); the external planner
(`main_clusters` it returns are arbitrary in `FlowDispatch`); `tinyxml2` and generated build
files (vendored); the offline tests.
