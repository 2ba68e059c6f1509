-------------------------- MODULE DatanodeTransfer --------------------------
(***************************************************************************)
(* How blocks reach the datanodes: write_to_datanode, read_from_datanode,  *)
(* delete_in_datanode and block_migration of src/src/proxy/proxy.cpp with  *)
(* the handlers of src/src/datanode/datanode.cpp.                          *)
(*                                                                         *)
(* A transfer is announced with an RPC, for which the datanode starts a    *)
(* thread that accepts one connection, and is then carried out over a      *)
(* connection of its own.  All threads of a datanode accept on one socket, *)
(* so an announcement and a connection are not tied to each other: a       *)
(* connection may be served by the thread of another announcement.  What   *)
(* is pushed carries its block id with it; what is read does not check it. *)
(*                                                                         *)
(* The proxy threads run a script each.  What a thread holds is abstracted *)
(* to the content the block should have (of which stripe it is a part), so *)
(* a repair that reads one block and writes another is "get, then set".    *)
(***************************************************************************)
EXTENDS Integers, Sequences, FiniteSets

CONSTANTS
  Threads,    \* proxy threads
  Nodes,      \* datanodes, each with one RPC thread and one acceptor
  Blocks,
  ContentOf,  \* what each block should hold
  Stored,     \* the blocks each datanode holds at first
  Script,     \* the operations of each thread
  Absent,     \* no such file
  Torn,       \* the content of a block that was received in part
  MaxFaults   \* bound on what fails: datanodes, pushes, reads and writes of files

\* How many operations thread t has.
Length(t) == Len(Script[t])
Contents  == {ContentOf[b] : b \in Blocks}
Operations == [op : {"set", "get", "delete", "move"}, block : Blocks,
               node : Nodes, to : Nodes]
Transfers == {x \in Threads \X (1 .. 4) : x[2] <= Length(x[1])}

ASSUME ScriptAssumption ==
  /\ MaxFaults \in Nat
  /\ DOMAIN ContentOf = Blocks /\ Absent \notin Contents /\ Torn \notin Contents
  /\ Absent # Torn
  /\ Stored \in [Nodes -> SUBSET Blocks]
  /\ Script \in [Threads -> Seq(Operations)]
  /\ \A t \in Threads : Length(t) \in 1 .. 4

\* A thread that has more to do than to write writes what the read before it is
\* for, or the same again.
ASSUME WritesFollowReads ==
  \A t \in Threads : \A k \in 2 .. Length(t) :
    Script[t][k].op = "set" =>
      /\ Script[t][k - 1].op \in {"get", "set"}
      /\ ContentOf[Script[t][k - 1].block] = ContentOf[Script[t][k].block]

VARIABLES
  at,       \* the operation each thread is at
  step,     \* how far it is with it
  hand,     \* what it has read, or is to write
  store,    \* the files of each datanode
  handlers, \* threads of a datanode that accept, by the transfer they are for
  backlog,  \* connections that nobody has accepted
  busy,     \* the thread for which a datanode's RPC thread pulls a block
  down,     \* datanodes whose process has ended
  mixed,    \* auxiliary: datanodes where a read met another transfer
  unwritten, \* auxiliary: the files whose last write failed
  faults

vars == <<at, step, hand, store, handlers, backlog, busy, down, mixed, unwritten,
          faults>>

Ended(t) == at[t] > Length(t) \/ step[t] = "failed"
Op(t)    == Script[t][at[t]]
OpOf(x)  == Script[x[1]][x[2]]
Reads(x) == OpOf(x).op \in {"get", "move"}
At(t, s) == ~Ended(t) /\ step[t] = s

TypeOK ==
  /\ at \in [Threads -> 1 .. 5]
  /\ step \in [Threads -> {"call", "connect", "wait", "pull", "drop", "failed"}]
  /\ hand \in [Threads -> Contents \cup {Absent, Torn}]
  /\ store \in [Nodes -> [Blocks -> Contents \cup {Absent, Torn}]]
  /\ handlers \in [Nodes -> SUBSET Transfers]
  /\ backlog \in [Nodes -> Seq(Transfers)]
  /\ busy \in [Nodes -> SUBSET Threads]
  /\ down \subseteq Nodes /\ mixed \subseteq Nodes
  /\ unwritten \subseteq Nodes \X Blocks
  /\ faults \in 0 .. MaxFaults
  /\ \A t \in Threads : at[t] <= Length(t) + 1
  /\ \A n \in Nodes : Cardinality(busy[n]) <= 1

Init ==
  /\ at = [t \in Threads |-> 1]
  /\ step = [t \in Threads |-> "call"]
  /\ hand = [t \in Threads |->
               IF Script[t][1].op = "set" THEN ContentOf[Script[t][1].block]
                                          ELSE Absent]
  /\ store = [n \in Nodes |-> [b \in Blocks |->
                IF b \in Stored[n] THEN ContentOf[b] ELSE Absent]]
  /\ handlers = [n \in Nodes |-> {}]
  /\ backlog = [n \in Nodes |-> << >>]
  /\ busy = [n \in Nodes |-> {}]
  /\ down = {} /\ mixed = {} /\ unwritten = {}
  /\ faults = 0

\* The threads of ts are through with their operation.
Advance(ts) ==
  /\ at' = [t \in Threads |-> IF t \in ts THEN at[t] + 1 ELSE at[t]]
  /\ step' = [t \in Threads |-> IF t \in ts THEN "call" ELSE step[t]]

\* Mutant of Ready: a datanode has as many RPC threads as it needs.
ReadyAlways(n) == TRUE

\* The RPC thread of n answers at once, or the call fails at once; the error is
\* not looked at.
Ready(n) == busy[n] = {}

Outstanding(n) == handlers[n] \cup {backlog[n][i] : i \in DOMAIN backlog[n]}

----------------------------------------------------------------------------
(* The proxy.                                                              *)

\* handle_set(push) or handle_get is called: a thread that will accept.
Announce(t) ==
  /\ At(t, "call") /\ Op(t).op \in {"set", "get", "move"} /\ Ready(Op(t).node)
  /\ LET n == Op(t).node
         x == <<t, at[t]>>
     IN /\ handlers' = IF n \in down THEN handlers
                       ELSE [handlers EXCEPT ![n] = @ \cup {x}]
        /\ mixed' = IF n \notin down /\ Outstanding(n) # {}
                         /\ \E y \in Outstanding(n) \cup {x} : Reads(y)
                      THEN mixed \cup {n} ELSE mixed
  /\ step' = [step EXCEPT ![t] = IF Op(t).op = "move" THEN "pull" ELSE "connect"]
  /\ UNCHANGED <<at, hand, store, backlog, busy, down, unwritten, faults>>

\* Mutant of Connect: a push does not wait for its answer.
ConnectAndForget(t) ==
  /\ At(t, "connect") /\ Op(t).node \notin down
  /\ backlog' = [backlog EXCEPT ![Op(t).node] = Append(@, <<t, at[t]>>)]
  /\ IF Op(t).op = "set" THEN Advance({t})
     ELSE at' = at /\ step' = [step EXCEPT ![t] = "wait"]
  /\ UNCHANGED <<hand, store, handlers, busy, down, mixed, unwritten, faults>>

\* The connection of a set or a get.
Connect(t) ==
  /\ At(t, "connect") /\ Op(t).node \notin down
  /\ backlog' = [backlog EXCEPT ![Op(t).node] = Append(@, <<t, at[t]>>)]
  /\ step' = [step EXCEPT ![t] = "wait"]
  /\ UNCHANGED <<at, hand, store, handlers, busy, down, mixed, unwritten, faults>>

\* Mutant of ConnectFails: what throws is tried again.
ConnectAgain(t) ==
  /\ At(t, "connect") /\ Op(t).node \in down
  /\ step' = [step EXCEPT ![t] = "call"]
  /\ UNCHANGED <<at, hand, store, handlers, backlog, busy, down, mixed, unwritten, faults>>

\* Without a connection a read fails; a write throws, which is caught and
\* forgotten.
ConnectFails(t) ==
  /\ At(t, "connect") /\ Op(t).node \in down
  /\ IF Op(t).op = "set" THEN Advance({t})
     ELSE at' = at /\ step' = [step EXCEPT ![t] = "failed"]
  /\ UNCHANGED <<hand, store, handlers, backlog, busy, down, mixed, unwritten, faults>>

\* block_migration: handle_set(pull) on the destination, whose RPC thread waits
\* until it has the block.
Pull(t) ==
  /\ At(t, "pull") /\ Op(t).to \notin down /\ Ready(Op(t).to)
  /\ Op(t).node \notin down
  /\ busy' = [busy EXCEPT ![Op(t).to] = @ \cup {t}]
  /\ backlog' = [backlog EXCEPT ![Op(t).node] = Append(@, <<t, at[t]>>)]
  /\ step' = [step EXCEPT ![t] = "wait"]
  /\ UNCHANGED <<at, hand, store, handlers, down, mixed, unwritten, faults>>

PullFails(t) ==
  /\ At(t, "pull")
  /\ \/ Op(t).to \in down
     \/ Ready(Op(t).to) /\ Op(t).node \in down
  /\ step' = [step EXCEPT ![t] = "drop"]
  /\ UNCHANGED <<at, hand, store, handlers, backlog, busy, down, mixed, unwritten, faults>>

\* Mutant of Drops: the block is deleted while it is pulled.
DropsEarly(t) == At(t, "drop") \/ (At(t, "wait") /\ Op(t).op = "move")

\* When a block is deleted: by delete_blocks, or after its migration, whether or
\* not that succeeded.
Drops(t) == At(t, "drop")
Deletes(t) == Drops(t) \/ (At(t, "call") /\ Op(t).op = "delete")

Delete(t) ==
  /\ Deletes(t) /\ Ready(Op(t).node)
  /\ store' = IF Op(t).node \in down THEN store
              ELSE [store EXCEPT ![Op(t).node][Op(t).block] = Absent]
  /\ Advance({t})
  /\ UNCHANGED <<hand, handlers, backlog, busy, down, mixed, unwritten, faults>>

----------------------------------------------------------------------------
(* The datanode: some accepting thread h gets the first connection c.      *)

Accepting(n, h, c) ==
  /\ n \notin down /\ h \in handlers[n] /\ backlog[n] # << >> /\ c = Head(backlog[n])
Accepts(n, h, c) ==
  /\ Accepting(n, h, c)
  /\ handlers' = [handlers EXCEPT ![n] = @ \ {h}]
  /\ backlog' = [backlog EXCEPT ![n] = Tail(@)]

\* Mutant of Named: the block is stored as the one that was announced.
Announced(h, c) == OpOf(h).block

\* The block id under which a pushed block is stored comes with the block.
Named(h, c) == OpOf(c).block

\* A push is accepted by a thread for pushes.
Stores(n, h, c) ==
  /\ ~Reads(h) /\ ~Reads(c) /\ Accepts(n, h, c)
  /\ store' = [store EXCEPT ![n][Named(h, c)] = hand[c[1]]]
  /\ unwritten' = unwritten \ {<<n, Named(h, c)>>}
  /\ Advance({c[1]})
  /\ UNCHANGED <<hand, busy, down, mixed, faults>>

\* A read is accepted by a thread for reads, and gets the block of the thread.
Sends(n, h, c) ==
  /\ Reads(h) /\ OpOf(c).op = "get" /\ Accepts(n, h, c)
  /\ IF store[n][OpOf(h).block] = Absent
       THEN /\ step' = [step EXCEPT ![c[1]] = "failed"]
            /\ UNCHANGED <<at, hand>>
       ELSE /\ hand' = [hand EXCEPT ![c[1]] = store[n][OpOf(h).block]]
            /\ Advance({c[1]})
  /\ UNCHANGED <<store, busy, down, mixed, unwritten, faults>>

\* The RPC of the destination is answered.  What became of the block is not.
Answered(c) ==
  /\ busy' = [busy EXCEPT ![OpOf(c).to] = {}]
  /\ step' = [step EXCEPT ![c[1]] = "drop"]

\* The same for a pull: the destination stores what it is sent under the name
\* it is sent.
SendsPull(n, h, c) ==
  /\ Reads(h) /\ OpOf(c).op = "move" /\ OpOf(c).to \notin down /\ Accepts(n, h, c)
  /\ LET v == store[n][OpOf(h).block]
     IN IF v = Absent THEN UNCHANGED <<store, unwritten>>
        ELSE /\ store' = [store EXCEPT ![OpOf(c).to][OpOf(h).block] = v]
             /\ unwritten' = unwritten \ {<<OpOf(c).to, OpOf(h).block>>}
  /\ Answered(c)
  /\ UNCHANGED <<at, hand, down, mixed, faults>>

\* A push is accepted by a thread for reads.  Both write first: what fits into
\* the sockets is taken for the answer, and the block is lost; what does not
\* blocks both for ever.
Loses(n, h, c) ==
  /\ Reads(h) /\ ~Reads(c) /\ Accepts(n, h, c)
  /\ \/ Advance({c[1]})
     \/ store[n][OpOf(h).block] # Absent /\ UNCHANGED <<at, step>>
  /\ UNCHANGED <<hand, store, busy, down, mixed, unwritten, faults>>

\* A read is accepted by a thread for pushes: both wait for the other.
Hangs(n, h, c) ==
  /\ ~Reads(h) /\ Reads(c) /\ Accepts(n, h, c)
  /\ UNCHANGED <<at, step, hand, store, busy, down, mixed, unwritten, faults>>

(* What fails.                                                             *)

Fault == faults < MaxFaults /\ faults' = faults + 1

\* store_data of block b fails at n.  A file that cannot be opened stays as it
\* was, one that cannot be written holds a part.
Unstored(n, b) ==
  /\ \E v \in {store[n][b], Torn} : store' = [store EXCEPT ![n][b] = v]
  /\ unwritten' = unwritten \cup {<<n, b>>}

\* Of a push: the answer is 0, which the proxy writes to its log.
StoreFails(n, h, c) ==
  /\ ~Reads(h) /\ ~Reads(c) /\ Accepts(n, h, c) /\ Fault
  /\ Unstored(n, Named(h, c))
  /\ Advance({c[1]})
  /\ UNCHANGED <<hand, busy, down, mixed>>

\* At the destination of a pull: the RPC is answered like any other.
PullStoreFails(n, h, c) ==
  /\ Reads(h) /\ OpOf(c).op = "move" /\ OpOf(c).to \notin down /\ Accepts(n, h, c)
  /\ Fault
  /\ store[n][OpOf(h).block] # Absent
  /\ Unstored(OpOf(c).to, OpOf(h).block)
  /\ Answered(c)
  /\ UNCHANGED <<at, hand, down, mixed>>

\* The process that pushes ends.  The thread of the datanode does not look at the
\* errors of its reads: with a size it stores what it got, padded.
PusherEnds(n, h, c) ==
  /\ ~Reads(h) /\ ~Reads(c) /\ Accepts(n, h, c) /\ Fault
  /\ \/ UNCHANGED store
     \/ store' = [store EXCEPT ![n][Named(h, c)] = Torn]
  /\ step' = [step EXCEPT ![c[1]] = "failed"]
  /\ UNCHANGED <<at, hand, busy, down, mixed, unwritten>>

\* access_data does not look at the errors of its reads either.
ReadFails(n, h, c) ==
  /\ Reads(h) /\ Reads(c) /\ Accepts(n, h, c) /\ Fault
  /\ store[n][OpOf(h).block] # Absent
  /\ \/ /\ OpOf(c).op = "get"
        /\ hand' = [hand EXCEPT ![c[1]] = Torn]
        /\ Advance({c[1]})
        /\ UNCHANGED <<store, busy>>
     \/ /\ OpOf(c).op = "move" /\ OpOf(c).to \notin down
        /\ store' = [store EXCEPT ![OpOf(c).to][OpOf(h).block] = Torn]
        /\ Answered(c)
        /\ UNCHANGED <<at, hand>>
  /\ UNCHANGED <<down, mixed, unwritten>>

\* A file cannot be removed: handle_delete returns nothing.
DeleteFails(t) ==
  /\ Deletes(t) /\ Ready(Op(t).node) /\ Op(t).node \notin down /\ Fault
  /\ Advance({t})
  /\ UNCHANGED <<hand, store, handlers, backlog, busy, down, mixed, unwritten>>

(* A datanode ends.  Its clients see their connections closed.             *)

Waiting(n) == {t \in Threads : At(t, "wait") /\ Op(t).node = n}
Writers(n) == {t \in Waiting(n) : Op(t).op = "set"}
Movers(n)  == {t \in Threads : At(t, "wait") /\ Op(t).op = "move"
                                  /\ n \in {Op(t).node, Op(t).to}}

\* The process of n ends.  The threads of through do not notice: an error of a
\* write is caught.  A migration goes on with the deletion, a read fails.
Ends(n, through) ==
  /\ n \notin down
  /\ down' = down \cup {n}
  /\ handlers' = [handlers EXCEPT ![n] = {}]
  /\ backlog' = [backlog EXCEPT ![n] = << >>]
  /\ busy' = [m \in Nodes |-> IF m = n THEN {} ELSE busy[m] \ Movers(n)]
  /\ at' = [t \in Threads |-> IF t \in through THEN at[t] + 1 ELSE at[t]]
  /\ step' = [t \in Threads |-> CASE t \in through    -> "call"
                                   [] t \in Movers(n)  -> "drop"
                                   [] t \in Waiting(n) \ (through \cup Movers(n))
                                                       -> "failed"
                                   [] OTHER            -> step[t]]
  /\ UNCHANGED <<mixed, unwritten>>

NodeEnds(n) ==
  /\ Fault
  /\ Ends(n, Writers(n))
  /\ UNCHANGED <<hand, store>>

\* It ends in the middle of a block.  What was received of it counts as the
\* block: read_from_datanode returns true, a pull stores it.
EndsSending(n, h, c) ==
  /\ Accepting(n, h, c) /\ Reads(h) /\ Reads(c) /\ Fault
  /\ store[n][OpOf(h).block] # Absent
  /\ \/ /\ OpOf(c).op = "get"
        /\ Ends(n, Writers(n) \cup {c[1]})
        /\ hand' = [hand EXCEPT ![c[1]] = Torn]
        /\ UNCHANGED store
     \/ /\ OpOf(c).op = "move" /\ OpOf(c).to \notin down
        /\ Ends(n, Writers(n))
        /\ store' = [store EXCEPT ![OpOf(c).to][OpOf(h).block] = Torn]
        /\ UNCHANGED hand

\* The destination of a pull has ended: the thread that sends to it reads the
\* end of the stream and throws where nothing catches, which ends its process.
Orphaned(c) == OpOf(c).op = "move" /\ OpOf(c).to \in down
Follows(n, h, c) ==
  /\ Accepting(n, h, c) /\ Reads(h) /\ Orphaned(c)
  /\ store[n][OpOf(h).block] # Absent
  /\ Ends(n, Writers(n))
  /\ UNCHANGED <<hand, store, faults>>
SendsNothing(n, h, c) ==
  /\ Reads(h) /\ Orphaned(c) /\ Accepts(n, h, c)
  /\ store[n][OpOf(h).block] = Absent
  /\ UNCHANGED <<at, step, hand, store, busy, down, mixed, unwritten, faults>>

----------------------------------------------------------------------------
Proxy(t) ==
  \/ Announce(t) \/ Connect(t) \/ ConnectFails(t)
  \/ Pull(t) \/ PullFails(t) \/ Delete(t)

Datanode(n) ==
  \E h \in handlers[n], c \in Transfers :
    \/ Stores(n, h, c) \/ Sends(n, h, c) \/ SendsPull(n, h, c)
    \/ Loses(n, h, c) \/ Hangs(n, h, c) \/ Follows(n, h, c) \/ SendsNothing(n, h, c)

Faults ==
  \/ \E t \in Threads : DeleteFails(t)
  \/ \E n \in Nodes :
       \/ NodeEnds(n)
       \/ \E h \in handlers[n], c \in Transfers :
            \/ EndsSending(n, h, c) \/ StoreFails(n, h, c) \/ PullStoreFails(n, h, c)
            \/ PusherEnds(n, h, c) \/ ReadFails(n, h, c)

Next ==
  \/ \E t \in Threads : Proxy(t)
  \/ \E n \in Nodes : Datanode(n)
  \/ Faults

Spec == Init /\ [][Next]_vars

\* Threads run; nothing has to fail.
Fairness == WF_vars(\/ \E t \in Threads : Proxy(t)
                    \/ \E n \in Nodes : Datanode(n))
FairSpec == Spec /\ Fairness

----------------------------------------------------------------------------
Done(t, k) == at[t] > k
AllEnded   == \A t \in Threads : Ended(t)
Quiet      == mixed = {} /\ faults = 0
Removed    == {OpOf(x).block : x \in {y \in Transfers : OpOf(y).op \in {"move", "delete"}}}

\* As long as no read met another transfer at its datanode, and whatever pushes
\* met each other, every file holds what its block should hold, and so do the
\* blocks that are written from what was read; parts of a block are found only
\* after something has failed.
RightContent ==
  mixed = {} => \A n \in Nodes, b \in Blocks :
    store[n][b] \in {Absent, ContentOf[b]} \cup (IF faults = 0 THEN {} ELSE {Torn})

\* A push that returned has been stored, even if the thread of another push
\* received it, unless it met a read, its datanode has ended or the file could
\* not be written, which nobody is told.
WritesLand ==
  \A x \in Transfers :
    /\ OpOf(x).op = "set" /\ Done(x[1], x[2]) /\ OpOf(x).block \notin Removed
    /\ OpOf(x).node \notin mixed \cup down
    /\ <<OpOf(x).node, OpOf(x).block>> \notin unwritten
    => store[OpOf(x).node][OpOf(x).block] # Absent

\* Migrations that go to another datanode, of blocks that are there and that
\* nothing else moves, writes or deletes.
Changes(x) == OpOf(x).op \in {"set", "move", "delete"}
MovesApart ==
  \A x \in Transfers : OpOf(x).op = "move" =>
    /\ OpOf(x).node # OpOf(x).to /\ OpOf(x).block \in Stored[OpOf(x).node]
    /\ \A y \in Transfers \ {x} : Changes(y) => OpOf(y).block # OpOf(x).block

\* As long as nothing fails, a migration never loses the block: it is at the source or at the
\* destination all the time, and only at the destination afterwards.
MovesKeepTheBlock ==
  Quiet => \A x \in Transfers : OpOf(x).op = "move" =>
    LET b == OpOf(x).block
    IN /\ store[OpOf(x).node][b] # Absent \/ store[OpOf(x).to][b] = ContentOf[b]
       /\ Done(x[1], x[2]) => /\ store[OpOf(x).node][b] = Absent
                             /\ store[OpOf(x).to][b] = ContentOf[b]

\* Although nothing here has a timeout, all threads come to their end, whatever
\* fails, if no read meets another transfer.
EveryTransferEnds == [](mixed = {}) => <>AllEnded

============================================================================
