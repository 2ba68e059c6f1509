----------------------- MODULE DatanodeTransferProofs -----------------------
(***************************************************************************)
(* Proofs about DatanodeTransfer, for any threads, datanodes, blocks and   *)
(* scripts that ScriptAssumption and WritesFollowReads allow, and for any  *)
(* number of faults.                                                       *)
(*                                                                         *)
(* The argument: a connection in a queue belongs to a thread that waits    *)
(* for it (QueueInv); every announcement leaves a thread at the datanode,  *)
(* so where no thread accepts nobody is about to connect either            *)
(* (CountInv); hence a read that meets nothing outstanding is alone with   *)
(* its thread until a datanode is marked (SoloInv), and gets its own       *)
(* block.  What is read is therefore right, what is written from it too    *)
(* (HandInv), and so are the files.                                        *)
(***************************************************************************)
EXTENDS DatanodeTransfer, FiniteSetTheorems, TLAPS

\* The transfer a thread is at; the connections of a queue, and that none is
\* there twice; the threads that have announced a transfer at n and are not
\* connected.
Here(t)     == <<t, at[t]>>
Members(q)  == {q[i] : i \in DOMAIN q}
Distinct(q) == \A i, j \in DOMAIN q : i # j => q[i] # q[j]
Queued(n)   == Members(backlog[n])
Pending(n)  == {t \in Threads : (At(t, "connect") \/ At(t, "pull")) /\ Op(t).node = n}

\* TypeOK with the last conjunct in a form that needs no counting, and that no
\* datanode ends of itself.
Types ==
  /\ at \in [Threads -> 1 .. 5]
  /\ step \in [Threads -> {"call", "connect", "wait", "pull", "drop", "failed"}]
  /\ hand \in [Threads -> Contents \cup {Absent, Torn}]
  /\ store \in [Nodes -> [Blocks -> Contents \cup {Absent, Torn}]]
  /\ handlers \in [Nodes -> SUBSET Transfers]
  /\ backlog \in [Nodes -> Seq(Transfers)]
  /\ busy \in [Nodes -> SUBSET Threads]
  /\ down \subseteq Nodes /\ mixed \subseteq Nodes
  /\ unwritten \subseteq Nodes \X Blocks
  /\ faults \in 0 .. MaxFaults /\ (faults = 0 => down = {})
  /\ \A t \in Threads : at[t] <= Length(t) + 1
  /\ \A n \in Nodes : \A t, u \in busy[n] : t = u

\* What a thread is waiting for or about to do fits its operation.
StepInv ==
  \A t \in Threads :
    /\ step[t] # "call" => at[t] <= Length(t)
    /\ step[t] = "connect" => Op(t).op \in {"set", "get"}
    /\ step[t] \in {"pull", "drop"} => Op(t).op = "move"
    /\ step[t] = "wait" => Op(t).op \in {"set", "get", "move"}
    /\ step[t] = "failed" => Op(t).op \in {"get", "set"}

\* A connection belongs to a thread that waits for it; that of a migration may
\* outlive the wait if the destination has ended.
Waits(c) == at[c[1]] = c[2] /\ step[c[1]] = "wait"
Linked(n, c) ==
  /\ OpOf(c).node = n /\ OpOf(c).op # "delete"
  /\ OpOf(c).op \in {"set", "get"} => Waits(c)
  /\ OpOf(c).op = "move" =>
       /\ OpOf(c).to \notin down => Waits(c)
       /\ at[c[1]] > c[2] \/ (at[c[1]] = c[2] /\ step[c[1]] \in {"wait", "drop"})
QueueInv ==
  \A n \in Nodes : Distinct(backlog[n]) /\ \A c \in Queued(n) : Linked(n, c)

----------------------------------------------------------------------------
(* Queues, transfers and positions.                                         *)

\* What a queue holds after a connection is put at its end, ...
LEMMA AppendMembers ==
  ASSUME NEW q \in Seq(Transfers), NEW x \in Transfers
  PROVE  /\ Members(Append(q, x)) = Members(q) \cup {x}
         /\ Distinct(q) /\ x \notin Members(q) => Distinct(Append(q, x))
<1>1. /\ DOMAIN Append(q, x) = DOMAIN q \cup {Len(q) + 1}
      /\ Append(q, x)[Len(q) + 1] = x
      /\ \A i \in DOMAIN q : Append(q, x)[i] = q[i]
  OBVIOUS
<1> DEFINE longer == Append(q, x)
           last   == Len(q) + 1
<1> HIDE DEF longer, last
<1>2. /\ DOMAIN longer = DOMAIN q \cup {last}
      /\ longer[last] = x /\ \A i \in DOMAIN q : longer[i] = q[i]
  BY <1>1 DEF longer, last
<1>3. Members(longer) = Members(q) \cup {x}
  BY <1>2 DEF Members
<1>4. Distinct(q) /\ x \notin Members(q) => Distinct(longer)
  BY <1>2 DEF Distinct, Members
<1> QED BY <1>3, <1>4 DEF longer

\* ... and after the first is taken.
LEMMA TailMembers ==
  ASSUME NEW q \in Seq(Transfers), q # <<>>, Distinct(q)
  PROVE  /\ Head(q) \in Members(q)
         /\ Members(Tail(q)) = Members(q) \ {Head(q)}
         /\ Distinct(Tail(q))
         /\ Tail(q) \in Seq(Transfers) /\ Len(Tail(q)) = Len(q) - 1
<1>1. /\ Tail(q) \in Seq(Transfers) /\ Len(Tail(q)) = Len(q) - 1
      /\ 1 \in DOMAIN q /\ Head(q) = q[1]
      /\ DOMAIN q = 1 .. Len(q) /\ Len(q) \in Nat /\ Len(q) >= 1
      /\ DOMAIN Tail(q) = 1 .. Len(q) - 1
      /\ \A i \in 1 .. Len(q) - 1 : Tail(q)[i] = q[i + 1]
  OBVIOUS
<1> DEFINE rest == Tail(q)
           l    == Len(q)
<1> HIDE DEF rest, l
<1>2. /\ DOMAIN q = 1 .. l /\ l \in Nat /\ l >= 1
      /\ DOMAIN rest = 1 .. l - 1
      /\ \A i \in 1 .. l - 1 : rest[i] = q[i + 1]
  BY <1>1 DEF rest, l
<1>3. ASSUME NEW i \in DOMAIN rest
      PROVE  i + 1 \in DOMAIN q /\ i + 1 # 1 /\ rest[i] = q[i + 1]
  BY <1>2
<1>4. ASSUME NEW i \in DOMAIN q, i # 1
      PROVE  i - 1 \in DOMAIN rest /\ rest[i - 1] = q[i]
  BY <1>2, <1>4
<1>5. Members(rest) = Members(q) \ {q[1]}
  <2>1. ASSUME NEW x \in Members(rest) PROVE x \in Members(q) \ {q[1]}
    <3>1. PICK i \in DOMAIN rest : x = rest[i]
      BY DEF Members
    <3> QED BY <3>1, <1>1, <1>3 DEF Members, Distinct
  <2>2. ASSUME NEW x \in Members(q) \ {q[1]} PROVE x \in Members(rest)
    <3>1. PICK i \in DOMAIN q : x = q[i] /\ i # 1
      BY DEF Members
    <3> QED BY <3>1, <1>4 DEF Members
  <2> QED BY <2>1, <2>2
<1>6. Distinct(rest)
  <2> SUFFICES ASSUME NEW i \in DOMAIN rest, NEW j \in DOMAIN rest, i # j
               PROVE  rest[i] # rest[j]
    BY DEF Distinct
  <2>1. i + 1 # j + 1
    BY <1>2
  <2> QED BY <2>1, <1>3 DEF Distinct
<1>7. Head(q) \in Members(q)
  BY <1>1 DEF Members
<1> QED BY <1>1, <1>5, <1>6, <1>7 DEF rest

\* A transfer, its thread and its operation.
LEMMA TransferType ==
  ASSUME NEW x \in Transfers
  PROVE  /\ x = <<x[1], x[2]>> /\ x[1] \in Threads /\ x[2] \in Nat
         /\ 1 <= x[2] /\ x[2] <= Length(x[1])
         /\ OpOf(x) = Script[x[1]][x[2]]
         /\ OpOf(x).op \in {"set", "get", "delete", "move"}
         /\ OpOf(x).block \in Blocks /\ OpOf(x).node \in Nodes /\ OpOf(x).to \in Nodes
<1>1. x[1] \in Threads /\ x[2] \in 1 .. 4 /\ x = <<x[1], x[2]>> /\ x[2] <= Length(x[1])
  BY DEF Transfers
<1>2. Script[x[1]] \in Seq(Operations) /\ x[2] \in 1 .. Len(Script[x[1]])
  BY <1>1, ScriptAssumption DEF Length
<1>3. OpOf(x) \in Operations
  BY <1>1, <1>2 DEF OpOf
<1>4. /\ OpOf(x).op \in {"set", "get", "delete", "move"}
      /\ OpOf(x).block \in Blocks /\ OpOf(x).node \in Nodes /\ OpOf(x).to \in Nodes
  BY <1>3 DEF Operations
<1> QED BY <1>1, <1>4 DEF OpOf

\* The operation a thread is at.
LEMMA CurrentTransfer ==
  ASSUME Types, NEW t \in Threads, at[t] <= Length(t)
  PROVE  /\ Here(t) \in Transfers /\ OpOf(Here(t)) = Op(t)
         /\ Op(t).op \in {"set", "get", "delete", "move"}
         /\ Op(t).block \in Blocks /\ Op(t).node \in Nodes /\ Op(t).to \in Nodes
<1>1. at[t] \in 1 .. 4
  <2>1. at[t] \in 1 .. 5 /\ Length(t) \in 1 .. 4
    BY ScriptAssumption DEF Types
  <2> QED BY <2>1
<1>2. Here(t) \in Transfers /\ OpOf(Here(t)) = Op(t)
  BY <1>1 DEF Transfers, Here, OpOf, Op
<1> QED BY <1>2, TransferType

\* Contents are neither Absent nor Torn.
LEMMA ContentType ==
  /\ \A b \in Blocks : ContentOf[b] \in Contents
  /\ Absent \notin Contents /\ Torn \notin Contents /\ Absent # Torn
BY ScriptAssumption DEF Contents

\* The connection that is accepted is the first of the queue, and leaves it.
LEMMA HeadIs ==
  ASSUME Types, QueueInv, NEW n \in Nodes, NEW h, NEW c, Accepting(n, h, c)
  PROVE  /\ c \in Queued(n) /\ c \in Transfers /\ h \in Transfers /\ h \in handlers[n]
         /\ Linked(n, c) /\ n \notin down
         /\ backlog[n] \in Seq(Transfers) /\ Tail(backlog[n]) \in Seq(Transfers)
         /\ Len(Tail(backlog[n])) = Len(backlog[n]) - 1
         /\ Members(Tail(backlog[n])) = Queued(n) \ {c}
         /\ Distinct(Tail(backlog[n]))
<1>1. /\ backlog[n] \in Seq(Transfers) /\ backlog[n] # <<>> /\ c = Head(backlog[n])
      /\ n \notin down /\ h \in handlers[n] /\ h \in Transfers
  BY DEF Types, Accepting
<1>2. Distinct(backlog[n]) /\ \A d \in Queued(n) : Linked(n, d)
  BY DEF QueueInv
<1>3. /\ c \in Queued(n) /\ Members(Tail(backlog[n])) = Queued(n) \ {c}
      /\ Distinct(Tail(backlog[n]))
      /\ Tail(backlog[n]) \in Seq(Transfers)
      /\ Len(Tail(backlog[n])) = Len(backlog[n]) - 1
  BY <1>1, <1>2, TailMembers DEF Queued
<1>4. c \in Transfers
  BY <1>1, <1>3 DEF Queued, Members
<1> QED BY <1>1, <1>2, <1>3, <1>4

\* Threads have one to four operations.
LEMMA LengthType == \A t \in Threads : Length(t) \in Nat /\ Length(t) >= 1 /\ Length(t) <= 4
BY ScriptAssumption

\* A thread is at one of its operations or behind the last.
LEMMA IndexType ==
  ASSUME Types, NEW t \in Threads
  PROVE  /\ at[t] \in Int /\ 1 <= at[t] /\ at[t] <= 5 /\ at[t] <= Length(t) + 1
         /\ Length(t) \in Int /\ Length(t) >= 1 /\ Length(t) <= 4
<1>1. at[t] \in 1 .. 5 /\ at[t] <= Length(t) + 1
  BY DEF Types
<1> QED BY <1>1, LengthType

\* A thread that has not ended is at one of its operations.
LEMMA NotEnded ==
  ASSUME Types, NEW t \in Threads, ~Ended(t)
  PROVE  at[t] <= Length(t) /\ step[t] # "failed"
<1>1. ~(at[t] > Length(t)) /\ step[t] # "failed"
  BY DEF Ended
<1> QED BY <1>1, IndexType

\* The steps in which a file or who pushes it fails.
Fails(n, h, c) ==
  \/ StoreFails(n, h, c) \/ PullStoreFails(n, h, c)
  \/ PusherEnds(n, h, c) \/ ReadFails(n, h, c)

\* They are accepted connections with another outcome.
LEMMA FailsIs ==
  ASSUME Types, QueueInv, NEW n \in Nodes, NEW h, NEW c \in Transfers, Fails(n, h, c)
  PROVE  /\ Accepts(n, h, c) /\ Waits(c) /\ c[1] \in Threads /\ at[c[1]] <= Length(c[1])
         /\ Op(c[1]) = OpOf(c) /\ h \in Transfers
         /\ Reads(h) => OpOf(c).op \in {"get", "move"}
         /\ ~Reads(h) => OpOf(c).op = "set"
         /\ down' = down /\ mixed' = mixed /\ Fault
         /\ \/ Advance({c[1]}) /\ OpOf(c).op \in {"get", "set"}
            \/ /\ at' = at /\ step' = [step EXCEPT ![c[1]] = "drop"]
               /\ OpOf(c).op = "move"
            \/ /\ at' = at /\ step' = [step EXCEPT ![c[1]] = "failed"]
               /\ OpOf(c).op = "set"
<1>1. Accepts(n, h, c) /\ Fault /\ down' = down /\ mixed' = mixed
  BY DEF Fails, StoreFails, PullStoreFails, PusherEnds, ReadFails
<1>2. Linked(n, c) /\ h \in Transfers
  BY <1>1, HeadIs DEF Accepts
<1>3. /\ Reads(h) => \/ OpOf(c).op = "get"
                     \/ OpOf(c).op = "move" /\ OpOf(c).to \notin down
      /\ ~Reads(h) => OpOf(c).op = "set"
  BY <1>2, TransferType
     DEF Fails, StoreFails, PullStoreFails, PusherEnds, ReadFails, Reads, Linked
<1>4. Waits(c)
  BY <1>2, <1>3 DEF Linked
<1>5. c[1] \in Threads /\ at[c[1]] <= Length(c[1]) /\ Op(c[1]) = OpOf(c)
  BY <1>4, TransferType DEF Waits, Op, OpOf
<1>6. \/ Advance({c[1]}) /\ OpOf(c).op \in {"get", "set"}
      \/ at' = at /\ step' = [step EXCEPT ![c[1]] = "drop"] /\ OpOf(c).op = "move"
      \/ at' = at /\ step' = [step EXCEPT ![c[1]] = "failed"] /\ OpOf(c).op = "set"
  BY <1>3 DEF Fails, StoreFails, PullStoreFails, PusherEnds, ReadFails, Answered
<1> QED BY <1>1, <1>2, <1>3, <1>4, <1>5, <1>6

\* What they leave in files and hands.
LEMMA FailsLeaves ==
  ASSUME Types, QueueInv, NEW n \in Nodes, NEW h, NEW c \in Transfers, Fails(n, h, c)
  PROVE  /\ \/ store' = store
            \/ \E m \in Nodes, b \in Blocks :
                 \/ store' = [store EXCEPT ![m][b] = Torn]
                 \/ store' = [store EXCEPT ![m][b] = store[m][b]]
         /\ \/ hand' = hand
            \/ hand' = [hand EXCEPT ![c[1]] = Torn] /\ OpOf(c).op = "get"
         /\ \/ busy' = busy
            \/ \E m \in Nodes : busy' = [busy EXCEPT ![m] = {}]
         /\ unwritten \subseteq unwritten' /\ unwritten' \subseteq Nodes \X Blocks
<1>1. h \in Transfers /\ OpOf(h).block \in Blocks /\ OpOf(c).block \in Blocks
      /\ OpOf(c).to \in Nodes
  BY FailsIs, TransferType
<1>0. ASSUME NEW m \in Nodes, NEW b \in Blocks, Unstored(m, b)
      PROVE  /\ \E k \in Nodes, a \in Blocks :
                  \/ store' = [store EXCEPT ![k][a] = Torn]
                  \/ store' = [store EXCEPT ![k][a] = store[k][a]]
             /\ unwritten \subseteq unwritten' /\ unwritten' \subseteq Nodes \X Blocks
  <2>1. \/ store' = [store EXCEPT ![m][b] = Torn]
        \/ store' = [store EXCEPT ![m][b] = store[m][b]]
    BY <1>0 DEF Unstored
  <2>2. unwritten' = unwritten \cup {<<m, b>>} /\ unwritten \subseteq Nodes \X Blocks
    BY <1>0 DEF Unstored, Types
  <2> QED BY <2>1, <2>2
<1>2. CASE StoreFails(n, h, c)
  <2>1. Unstored(n, OpOf(c).block) /\ hand' = hand /\ busy' = busy
    BY <1>2 DEF StoreFails, Named
  <2> QED BY <1>0, <1>1, <2>1
<1>3. CASE PullStoreFails(n, h, c)
  <2>1. /\ Unstored(OpOf(c).to, OpOf(h).block) /\ hand' = hand
        /\ busy' = [busy EXCEPT ![OpOf(c).to] = {}]
    BY <1>3 DEF PullStoreFails, Answered
  <2> QED BY <1>0, <1>1, <2>1
<1>4. CASE PusherEnds(n, h, c)
  BY <1>1, <1>4 DEF PusherEnds, Named, Types
<1>5. CASE ReadFails(n, h, c)
  BY <1>1, <1>5 DEF ReadFails, Answered, Types
<1> QED BY <1>2, <1>3, <1>4, <1>5 DEF Fails

----------------------------------------------------------------------------
(* Type correctness.                                                        *)

\* Where threads are that go on from an operation.
LEMMA NextIndex ==
  ASSUME Types, NEW S \in SUBSET Threads, \A t \in S : at[t] <= Length(t),
         at' = [t \in Threads |-> IF t \in S THEN at[t] + 1 ELSE at[t]]
  PROVE  /\ at' \in [Threads -> 1 .. 5]
         /\ \A t \in Threads : at'[t] <= Length(t) + 1
<1>1. ASSUME NEW t \in Threads
      PROVE  at'[t] \in 1 .. 5 /\ at'[t] <= Length(t) + 1
  <2>1. CASE t \in S
    <3>1. at'[t] = at[t] + 1 /\ at[t] <= Length(t)
      BY <2>1
    <3> QED BY <3>1, IndexType
  <2>2. CASE t \notin S
    <3>1. at'[t] = at[t]
      BY <2>2
    <3> QED BY <3>1, IndexType
  <2> QED BY <2>1, <2>2
<1> QED BY <1>1

\* A thread that goes on keeps its types, ...
LEMMA AdvanceType ==
  ASSUME Types, NEW t \in Threads, at[t] <= Length(t), Advance({t})
  PROVE  /\ at' \in [Threads -> 1 .. 5]
         /\ \A u \in Threads : at'[u] <= Length(u) + 1
         /\ step' \in [Threads -> {"call", "connect", "wait", "pull", "drop", "failed"}]
<1>1. /\ at' \in [Threads -> 1 .. 5]
      /\ \A u \in Threads : at'[u] <= Length(u) + 1
  BY NextIndex DEF Advance
<1>2. step' \in [Threads -> {"call", "connect", "wait", "pull", "drop", "failed"}]
  BY DEF Advance, Types
<1> QED BY <1>1, <1>2

\* The part of Types that the end of a datanode touches.
ControlTypes ==
  /\ at \in [Threads -> 1 .. 5]
  /\ \A u \in Threads : at[u] <= Length(u) + 1
  /\ step \in [Threads -> {"call", "connect", "wait", "pull", "drop", "failed"}]
  /\ handlers \in [Nodes -> SUBSET Transfers]
  /\ backlog \in [Nodes -> Seq(Transfers)]
  /\ busy \in [Nodes -> SUBSET Threads]
  /\ \A m \in Nodes : \A t, u \in busy[m] : t = u
  /\ down \subseteq Nodes /\ mixed \subseteq Nodes
  /\ unwritten \subseteq Nodes \X Blocks

\* ... and so does everything when a datanode ends.
LEMMA EndsType ==
  ASSUME Types, NEW n \in Nodes, NEW through, Ends(n, through),
         through \subseteq Threads, \A t \in through : at[t] <= Length(t)
  PROVE  ControlTypes'
<1>1. /\ at' \in [Threads -> 1 .. 5]
      /\ \A u \in Threads : at'[u] <= Length(u) + 1
  BY NextIndex DEF Ends
<1>2. step' \in [Threads -> {"call", "connect", "wait", "pull", "drop", "failed"}]
  <2> SUFFICES ASSUME NEW t \in Threads
      PROVE (CASE t \in through    -> "call"
                                   [] t \in Movers(n)  -> "drop"
                                   [] t \in Waiting(n) \ (through \cup Movers(n))
                                                       -> "failed"
                                   [] OTHER            -> step[t])
             \in {"call", "connect", "wait", "pull", "drop", "failed"}
    BY Zenon DEF Ends
  <2>1. step[t] \in {"call", "connect", "wait", "pull", "drop", "failed"}
    BY DEF Types
  <2> QED BY <2>1
<1>3. /\ handlers' \in [Nodes -> SUBSET Transfers]
      /\ backlog' \in [Nodes -> Seq(Transfers)]
      /\ busy' \in [Nodes -> SUBSET Threads]
      /\ \A m \in Nodes : \A t, u \in busy'[m] : t = u
      /\ down' \subseteq Nodes /\ mixed' \subseteq Nodes
      /\ unwritten' \subseteq Nodes \X Blocks
  BY DEF Ends, Types
<1> QED BY <1>1, <1>2, <1>3 DEF ControlTypes

\* Threads that wait for a push are at one of their operations.
LEMMA WritersType ==
  ASSUME Types, NEW n
  PROVE  Writers(n) \subseteq Threads /\ \A t \in Writers(n) : at[t] <= Length(t)
BY NotEnded DEF Writers, Waiting, At

\* No step of a thread, of a datanode or of a fault leaves the types.
LEMMA TypeStep == Types /\ StepInv /\ QueueInv /\ Next => Types'
<1> SUFFICES ASSUME Types, StepInv, QueueInv, Next PROVE Types'
  OBVIOUS
<1>1. ASSUME NEW t \in Threads, Announce(t) PROVE Types'
  <2>1. at[t] <= Length(t)
    BY <1>1, NotEnded DEF Announce, At
  <2>2. Op(t).node \in Nodes /\ Here(t) \in Transfers
    BY <2>1, CurrentTransfer
  <2>3. /\ handlers' \in [Nodes -> SUBSET Transfers]
        /\ mixed' \subseteq Nodes
    <3>1. handlers' = handlers \/ handlers' = [handlers EXCEPT ![Op(t).node] = @ \cup {Here(t)}]
      BY <1>1 DEF Announce, Here
    <3>2. mixed' = mixed \/ mixed' = mixed \cup {Op(t).node}
      BY <1>1 DEF Announce
    <3>3. handlers' \in [Nodes -> SUBSET Transfers]
      <4> DEFINE n == Op(t).node
                 x == Here(t)
      <4>1. handlers \in [Nodes -> SUBSET Transfers] /\ n \in Nodes /\ x \in Transfers
        BY <2>2 DEF Types
      <4> HIDE DEF n, x
      <4>2. [handlers EXCEPT ![n] = @ \cup {x}] \in [Nodes -> SUBSET Transfers]
        BY <4>1
      <4> QED BY <3>1, <4>1, <4>2 DEF n, x
    <3>4. mixed' \subseteq Nodes
      BY <2>2, <3>2 DEF Types
    <3> QED BY <3>3, <3>4
  <2> QED BY <1>1, <2>3 DEF Announce, Types
<1>2. ASSUME NEW t \in Threads, Connect(t) PROVE Types'
  <2>1. at[t] <= Length(t)
    BY <1>2, NotEnded DEF Connect, At
  <2> QED BY <1>2, <2>1, CurrentTransfer DEF Connect, Types, Here
<1>3. ASSUME NEW t \in Threads, ConnectFails(t) PROVE Types'
  <2>1. at[t] <= Length(t)
    BY <1>3, NotEnded DEF ConnectFails, At
  <2>2. CASE Advance({t})
    BY <1>3, <2>1, <2>2, AdvanceType DEF ConnectFails, Types
  <2>3. CASE at' = at /\ step' = [step EXCEPT ![t] = "failed"]
    BY <1>3, <2>1, <2>3 DEF ConnectFails, Types
  <2> QED BY <1>3, <2>2, <2>3 DEF ConnectFails
<1>4. ASSUME NEW t \in Threads, Pull(t) PROVE Types'
  <2>1. at[t] <= Length(t)
    BY <1>4, NotEnded DEF Pull, At
  <2> QED BY <1>4, <2>1, CurrentTransfer DEF Pull, Types, Here, Ready
<1>5. ASSUME NEW t \in Threads, PullFails(t) PROVE Types'
  BY <1>5 DEF PullFails, Types
<1>6. ASSUME NEW t \in Threads, Delete(t) PROVE Types'
  <2>1. at[t] <= Length(t)
    BY <1>6, NotEnded DEF Delete, Deletes, Drops, At
  <2>2. store' \in [Nodes -> [Blocks -> Contents \cup {Absent, Torn}]]
    BY <1>6, <2>1, CurrentTransfer DEF Delete, Types
  <2>3. Advance({t})
    BY <1>6 DEF Delete
  <2> QED BY <1>6, <2>1, <2>2, <2>3, AdvanceType DEF Delete, Types
<1>7. ASSUME NEW n \in Nodes, NEW h, NEW c \in Transfers, Accepts(n, h, c)
      PROVE  /\ handlers' \in [Nodes -> SUBSET Transfers]
             /\ backlog' \in [Nodes -> Seq(Transfers)]
  BY <1>7, HeadIs DEF Accepts, Types
<1>8. ASSUME NEW c \in Transfers, Waits(c)
      PROVE  c[1] \in Threads /\ at[c[1]] <= Length(c[1]) /\ c = Here(c[1])
  BY <1>8, TransferType DEF Waits, Here
<1>9. ASSUME NEW n \in Nodes, NEW h, NEW c \in Transfers, Stores(n, h, c) PROVE Types'
  <2>1. OpOf(c).op = "set"
    BY <1>9, HeadIs, TransferType DEF Stores, Reads, Linked, Accepts
  <2>2. c[1] \in Threads /\ at[c[1]] <= Length(c[1])
    BY <1>9, <2>1, HeadIs, <1>8 DEF Linked, Stores, Accepts
  <2>3. store' \in [Nodes -> [Blocks -> Contents \cup {Absent, Torn}]]
    BY <1>9, <2>2, TransferType DEF Stores, Types, Named
  <2>4. Advance({c[1]}) /\ unwritten' \subseteq Nodes \X Blocks
    BY <1>9 DEF Stores, Types
  <2> QED BY <1>9, <1>7, <2>2, <2>3, <2>4, AdvanceType DEF Stores, Types
<1>10. ASSUME NEW n \in Nodes, NEW h, NEW c \in Transfers, Sends(n, h, c) PROVE Types'
  <2>2. c[1] \in Threads /\ at[c[1]] <= Length(c[1])
    BY <1>10, HeadIs, <1>8 DEF Linked, Sends, Accepts
  <2>3. CASE store[n][OpOf(h).block] = Absent
    BY <1>10, <1>7, <2>2, <2>3 DEF Sends, Types
  <2>4. CASE store[n][OpOf(h).block] # Absent
    <3>1. hand' \in [Threads -> Contents \cup {Absent, Torn}]
      <4>1. h \in Transfers /\ OpOf(h).block \in Blocks
        BY <1>10, HeadIs, TransferType DEF Sends, Accepts
      <4> QED BY <1>10, <4>1, <2>2, <2>4 DEF Sends, Types
    <3>2. Advance({c[1]})
      BY <1>10, <2>4 DEF Sends
    <3> QED BY <1>10, <1>7, <2>2, <2>4, <3>1, <3>2, AdvanceType DEF Sends, Types
  <2> QED BY <2>3, <2>4
<1>11. ASSUME NEW n \in Nodes, NEW h, NEW c \in Transfers, SendsPull(n, h, c) PROVE Types'
  <2>1. c[1] \in Threads /\ h \in Transfers
    BY <1>11, HeadIs, TransferType DEF SendsPull, Accepts
  <2>2. store' \in [Nodes -> [Blocks -> Contents \cup {Absent, Torn}]]
    <3>1. OpOf(h).block \in Blocks /\ OpOf(c).to \in Nodes
      BY <2>1, TransferType
    <3>2. /\ store[n][OpOf(h).block] \in Contents \cup {Absent, Torn}
          /\ store \in [Nodes -> [Blocks -> Contents \cup {Absent, Torn}]]
      BY <3>1 DEF Types
    <3>3. \/ store' = store
          \/ store' = [store EXCEPT ![OpOf(c).to][OpOf(h).block] = store[n][OpOf(h).block]]
      BY <1>11 DEF SendsPull
    <3> QED BY <3>1, <3>2, <3>3
  <2>3. unwritten' \subseteq Nodes \X Blocks
    <3>1. \/ unwritten' = unwritten
          \/ unwritten' = unwritten \ {<<OpOf(c).to, OpOf(h).block>>}
      BY <1>11 DEF SendsPull
    <3> QED BY <3>1 DEF Types
  <2>4. /\ busy' \in [Nodes -> SUBSET Threads]
        /\ \A m \in Nodes : \A t, u \in busy'[m] : t = u
        /\ step' \in [Threads -> {"call", "connect", "wait", "pull", "drop", "failed"}]
    <3>1. /\ busy' = [busy EXCEPT ![OpOf(c).to] = {}]
          /\ step' = [step EXCEPT ![c[1]] = "drop"]
      BY <1>11 DEF SendsPull, Answered
    <3> QED BY <3>1 DEF Types
  <2>5. Accepts(n, h, c) /\ UNCHANGED <<at, hand, down, mixed, faults>>
    BY <1>11 DEF SendsPull
  <2> QED BY <1>7, <2>2, <2>3, <2>4, <2>5 DEF Types
<1>12. ASSUME NEW n \in Nodes, NEW h, NEW c \in Transfers, Loses(n, h, c) PROVE Types'
  <2>1. OpOf(c).op = "set"
    BY <1>12, HeadIs, TransferType DEF Loses, Reads, Linked, Accepts
  <2>2. c[1] \in Threads /\ at[c[1]] <= Length(c[1])
    BY <1>12, <2>1, HeadIs, <1>8 DEF Linked, Loses, Accepts
  <2>3. CASE Advance({c[1]})
    BY <1>12, <1>7, <2>2, <2>3, AdvanceType DEF Loses, Types
  <2>4. CASE UNCHANGED <<at, step>>
    BY <1>12, <1>7, <2>4 DEF Loses, Types
  <2> QED BY <1>12, <2>3, <2>4 DEF Loses
<1>13. ASSUME NEW n \in Nodes, NEW h, NEW c \in Transfers, Hangs(n, h, c) \/ SendsNothing(n, h, c)
       PROVE Types'
  BY <1>13, <1>7 DEF Hangs, SendsNothing, Types
<1>14. ASSUME NEW n \in Nodes, NEW h, NEW c \in Transfers, Follows(n, h, c) PROVE Types'
  <2>1. down # {}
    BY <1>14 DEF Follows, Orphaned
  <2> QED BY <1>14, <2>1, WritersType, EndsType DEF Follows, Types, ControlTypes
<1>15. ASSUME NEW n \in Nodes, NodeEnds(n) PROVE Types'
  <2>1. /\ Ends(n, Writers(n)) /\ UNCHANGED <<hand, store>>
        /\ faults' \in 0 .. MaxFaults /\ faults' # 0
    BY <1>15, ScriptAssumption DEF NodeEnds, Fault, Types
  <2>2. ControlTypes'
    BY <2>1, WritersType, EndsType
  <2> QED BY <2>1, <2>2 DEF Types, ControlTypes
<1>16. ASSUME NEW n \in Nodes, NEW h, NEW c \in Transfers, EndsSending(n, h, c) PROVE Types'
  <2>1. h \in Transfers /\ c[1] \in Threads
    BY <1>16, HeadIs, TransferType DEF EndsSending
  <2>2. CASE OpOf(c).op = "get" /\ Ends(n, Writers(n) \cup {c[1]})
            /\ hand' = [hand EXCEPT ![c[1]] = Torn] /\ UNCHANGED store
    <3>1. at[c[1]] <= Length(c[1])
      BY <1>16, <2>2, HeadIs, <1>8 DEF Linked, EndsSending
    <3>2. /\ Writers(n) \cup {c[1]} \subseteq Threads
          /\ \A t \in Writers(n) \cup {c[1]} : at[t] <= Length(t)
      BY <2>1, <3>1, WritersType
    <3>3. hand' \in [Threads -> Contents \cup {Absent, Torn}] /\ store' = store
      BY <2>1, <2>2 DEF Types
    <3>4. faults' \in 0 .. MaxFaults /\ faults' # 0
      BY <1>16, ScriptAssumption DEF EndsSending, Fault, Types
    <3>5. ControlTypes'
      BY <2>2, <3>2, EndsType
    <3> QED BY <3>3, <3>4, <3>5 DEF Types, ControlTypes
  <2>3. CASE OpOf(c).op = "move" /\ Ends(n, Writers(n)) /\ UNCHANGED hand
            /\ store' = [store EXCEPT ![OpOf(c).to][OpOf(h).block] = Torn]
    <3>1. store' \in [Nodes -> [Blocks -> Contents \cup {Absent, Torn}]]
      BY <1>16, <2>1, <2>3, TransferType DEF Types
    <3>2. ControlTypes'
      BY <2>3, WritersType, EndsType
    <3>3. faults' \in 0 .. MaxFaults /\ faults' # 0
      BY <1>16, ScriptAssumption DEF EndsSending, Fault, Types
    <3> QED BY <2>3, <3>1, <3>2, <3>3 DEF Types, ControlTypes
  <2> QED BY <1>16, <2>2, <2>3 DEF EndsSending
<1>17. ASSUME NEW n \in Nodes, NEW h, NEW c \in Transfers, Fails(n, h, c) PROVE Types'
  <2>1. /\ Accepts(n, h, c) /\ c[1] \in Threads /\ at[c[1]] <= Length(c[1])
        /\ down' = down /\ mixed' = mixed /\ Fault
    BY <1>17, FailsIs
  <2>2. /\ at' \in [Threads -> 1 .. 5]
        /\ \A u \in Threads : at'[u] <= Length(u) + 1
        /\ step' \in [Threads -> {"call", "connect", "wait", "pull", "drop", "failed"}]
    <3>1. CASE Advance({c[1]})
      BY <2>1, <3>1, AdvanceType
    <3>2. CASE at' = at /\ \E s \in {"drop", "failed"} : step' = [step EXCEPT ![c[1]] = s]
      BY <3>2 DEF Types
    <3> QED BY <1>17, <3>1, <3>2, FailsIs
  <2>3. /\ store' \in [Nodes -> [Blocks -> Contents \cup {Absent, Torn}]]
        /\ hand' \in [Threads -> Contents \cup {Absent, Torn}]
        /\ busy' \in [Nodes -> SUBSET Threads]
        /\ \A m \in Nodes : \A t, u \in busy'[m] : t = u
        /\ unwritten' \subseteq Nodes \X Blocks
    <3>1. store' \in [Nodes -> [Blocks -> Contents \cup {Absent, Torn}]]
      <4>1. CASE store' = store
        BY <4>1 DEF Types
      <4>2. ASSUME NEW m \in Nodes, NEW b \in Blocks,
                   \/ store' = [store EXCEPT ![m][b] = Torn]
                   \/ store' = [store EXCEPT ![m][b] = store[m][b]]
            PROVE  store' \in [Nodes -> [Blocks -> Contents \cup {Absent, Torn}]]
        <5>1. /\ store[m][b] \in Contents \cup {Absent, Torn}
              /\ store \in [Nodes -> [Blocks -> Contents \cup {Absent, Torn}]]
          BY DEF Types
        <5> QED BY <4>2, <5>1
      <4>3. \/ store' = store
            \/ \E m \in Nodes, b \in Blocks :
                 \/ store' = [store EXCEPT ![m][b] = Torn]
                 \/ store' = [store EXCEPT ![m][b] = store[m][b]]
        BY <1>17, FailsLeaves
      <4> QED BY <4>1, <4>2, <4>3
    <3>2. hand' \in [Threads -> Contents \cup {Absent, Torn}]
      BY <1>17, FailsLeaves DEF Types
    <3>3. /\ busy' \in [Nodes -> SUBSET Threads]
          /\ \A m \in Nodes : \A t, u \in busy'[m] : t = u
      <4>1. CASE busy' = busy
        BY <4>1 DEF Types
      <4>2. ASSUME NEW k \in Nodes, busy' = [busy EXCEPT ![k] = {}]
            PROVE  /\ busy' \in [Nodes -> SUBSET Threads]
                   /\ \A m \in Nodes : \A t, u \in busy'[m] : t = u
        BY <4>2 DEF Types
      <4> QED BY <1>17, <4>1, <4>2, FailsLeaves
    <3> QED BY <1>17, <3>1, <3>2, <3>3, FailsLeaves
  <2>4. faults' \in 0 .. MaxFaults /\ faults' # 0
    BY <2>1, ScriptAssumption DEF Fault, Types
  <2> QED BY <2>1, <2>2, <2>3, <2>4, <1>7 DEF Types
<1>18. ASSUME NEW t \in Threads, DeleteFails(t) PROVE Types'
  <2>1. at[t] <= Length(t)
    BY <1>18, NotEnded DEF DeleteFails, Deletes, Drops, At
  <2>2. Advance({t}) /\ faults' \in 0 .. MaxFaults /\ faults' # 0
    BY <1>18, ScriptAssumption DEF DeleteFails, Fault, Types
  <2> QED BY <1>18, <2>1, <2>2, AdvanceType DEF DeleteFails, Types
<1> QED
  BY <1>1, <1>2, <1>3, <1>4, <1>5, <1>6, <1>9, <1>10, <1>11, <1>12, <1>13, <1>14, <1>15, <1>16,
     <1>17, <1>18
     DEF Next, Proxy, Datanode, Faults, Fails

----------------------------------------------------------------------------
(* Steps belong to operations.                                              *)

\* A thread that goes on to its next operation starts with its call.
LEMMA AdvanceStep ==
  ASSUME Types, StepInv, NEW S \in SUBSET Threads, Advance(S)
  PROVE  StepInv'
BY IndexType DEF Advance, StepInv, Op, Types

\* Who pushes does not migrate.
LEMMA WritersDoNotMove ==
  ASSUME NEW n
  PROVE  Writers(n) \cap Movers(n) = {}
BY DEF Writers, Waiting, Movers

\* When a datanode ends its threads are where their operations allow.
LEMMA EndsStep ==
  ASSUME Types, StepInv, NEW n \in Nodes, NEW through \in SUBSET Threads,
         Ends(n, through), Writers(n) \subseteq through, through \cap Movers(n) = {}
  PROVE  StepInv'
<1> SUFFICES ASSUME NEW t \in Threads
    PROVE  /\ step'[t] # "call" => at'[t] <= Length(t)
           /\ step'[t] = "connect" => Op(t)'.op \in {"set", "get"}
           /\ step'[t] \in {"pull", "drop"} => Op(t)'.op = "move"
           /\ step'[t] = "wait" => Op(t)'.op \in {"set", "get", "move"}
           /\ step'[t] = "failed" => Op(t)'.op \in {"get", "set"}
  BY DEF StepInv
<1>1. CASE t \in through
  <2>1. step'[t] = "call"
    BY <1>1 DEF Ends
  <2> QED BY <2>1
<1>2. CASE t \notin through
  <2>1. at'[t] = at[t] /\ Op(t)' = Op(t)
    BY <1>2 DEF Ends, Op
  <2>2. step'[t] = CASE t \in Movers(n)  -> "drop"
                     [] t \in Waiting(n) \ (through \cup Movers(n)) -> "failed"
                     [] OTHER            -> step[t]
    BY <1>2 DEF Ends
  <2>3. CASE t \in Movers(n)
    BY <2>1, <2>2, <2>3, NotEnded DEF Movers, At
  <2>4. CASE t \in Waiting(n) /\ t \notin Movers(n)
    <3>1. step[t] = "wait" /\ ~Ended(t) /\ Op(t).op # "set" /\ Op(t).op # "move"
      BY <1>2, <2>4 DEF Waiting, Movers, Writers, At
    <3>2. step'[t] = "failed"
      BY <2>2, <2>4, <1>2
    <3> QED BY <2>1, <3>1, <3>2, NotEnded DEF StepInv
  <2>5. CASE t \notin Waiting(n) /\ t \notin Movers(n)
    <3>1. step'[t] = step[t]
      BY <2>2, <2>5
    <3> QED BY <2>1, <3>1 DEF StepInv
  <2> QED BY <2>3, <2>4, <2>5
<1> QED BY <1>1, <1>2

\* Every step of a thread belongs to its operation.
LEMMA StepStep == Types /\ StepInv /\ QueueInv /\ Next => StepInv'
<1> SUFFICES ASSUME Types, StepInv, QueueInv, Next PROVE StepInv'
  OBVIOUS
<1>0. ASSUME NEW t \in Threads, NEW s, at' = at, step' = [step EXCEPT ![t] = s],
             at[t] <= Length(t),
             s \in {"call", "connect", "wait", "pull", "drop", "failed"},
             s = "connect" => Op(t).op \in {"set", "get"},
             s \in {"pull", "drop"} => Op(t).op = "move",
             s = "wait" => Op(t).op \in {"set", "get", "move"},
             s = "failed" => Op(t).op \in {"get", "set"}
      PROVE  StepInv'
  BY <1>0 DEF StepInv, Op, Types
<1>1. ASSUME NEW t \in Threads, Announce(t) PROVE StepInv'
  BY <1>1, <1>0, NotEnded DEF Announce, At
<1>2. ASSUME NEW t \in Threads, Connect(t) PROVE StepInv'
  BY <1>2, <1>0, NotEnded DEF Connect, At, StepInv
<1>3. ASSUME NEW t \in Threads, ConnectFails(t) PROVE StepInv'
  <2>1. CASE Op(t).op = "set"
    BY <1>3, <2>1, AdvanceStep DEF ConnectFails
  <2>2. CASE Op(t).op # "set"
    BY <1>3, <2>2, <1>0, NotEnded DEF ConnectFails, At, StepInv
  <2> QED BY <2>1, <2>2
<1>4. ASSUME NEW t \in Threads, Pull(t) PROVE StepInv'
  BY <1>4, <1>0, NotEnded DEF Pull, At, StepInv
<1>5. ASSUME NEW t \in Threads, PullFails(t) PROVE StepInv'
  BY <1>5, <1>0, NotEnded DEF PullFails, At, StepInv
<1>6. ASSUME NEW t \in Threads, Delete(t) PROVE StepInv'
  BY <1>6, AdvanceStep DEF Delete
<1>7. ASSUME NEW n \in Nodes, NEW h, NEW c \in Transfers, Accepts(n, h, c), Waits(c)
      PROVE  c[1] \in Threads /\ at[c[1]] <= Length(c[1]) /\ c = Here(c[1]) /\ OpOf(c) = Op(c[1])
  BY <1>7, TransferType DEF Waits, Here, OpOf, Op
<1>8. ASSUME NEW n \in Nodes, NEW h, NEW c \in Transfers, Stores(n, h, c) PROVE StepInv'
  BY <1>8, AdvanceStep, TransferType DEF Stores
<1>9. ASSUME NEW n \in Nodes, NEW h, NEW c \in Transfers, Sends(n, h, c) PROVE StepInv'
  <2>1. CASE store[n][OpOf(h).block] = Absent
    <3>1. Waits(c) /\ OpOf(c).op = "get"
      BY <1>9, HeadIs DEF Sends, Accepts, Linked
    <3> QED BY <1>9, <2>1, <3>1, <1>7, <1>0 DEF Sends
  <2>2. CASE store[n][OpOf(h).block] # Absent
    BY <1>9, <2>2, AdvanceStep, TransferType DEF Sends
  <2> QED BY <2>1, <2>2
<1>10. ASSUME NEW n \in Nodes, NEW h, NEW c \in Transfers, SendsPull(n, h, c) PROVE StepInv'
  <2>1. Waits(c) /\ OpOf(c).op = "move"
    BY <1>10, HeadIs DEF SendsPull, Accepts, Linked
  <2> QED BY <1>10, <2>1, <1>7, <1>0 DEF SendsPull, Answered
<1>11. ASSUME NEW n \in Nodes, NEW h, NEW c \in Transfers, Loses(n, h, c) PROVE StepInv'
  <2>1. CASE Advance({c[1]})
    BY <2>1, AdvanceStep, TransferType
  <2>2. CASE UNCHANGED <<at, step>>
    BY <2>2 DEF StepInv, Op
  <2> QED BY <1>11, <2>1, <2>2 DEF Loses
<1>12. ASSUME NEW n \in Nodes, NEW h, NEW c \in Transfers, Hangs(n, h, c) \/ SendsNothing(n, h, c)
       PROVE StepInv'
  BY <1>12 DEF Hangs, SendsNothing, StepInv, Op
<1>13. ASSUME NEW n \in Nodes, NEW h, NEW c \in Transfers, Follows(n, h, c) PROVE StepInv'
  BY <1>13, WritersType, WritersDoNotMove, EndsStep DEF Follows
<1>14. ASSUME NEW n \in Nodes, NodeEnds(n) PROVE StepInv'
  BY <1>14, WritersType, WritersDoNotMove, EndsStep DEF NodeEnds
<1>15. ASSUME NEW n \in Nodes, NEW h, NEW c \in Transfers, EndsSending(n, h, c) PROVE StepInv'
  <2>1. CASE OpOf(c).op = "get" /\ Ends(n, Writers(n) \cup {c[1]})
    <3>1. Waits(c)
      BY <1>15, <2>1, HeadIs DEF EndsSending, Linked
    <3>2. c[1] \notin Movers(n)
      BY <2>1, <3>1 DEF Movers, Waits, Op, OpOf
    <3> QED BY <2>1, <3>2, TransferType, WritersType, WritersDoNotMove, EndsStep
  <2>2. CASE Ends(n, Writers(n))
    BY <2>2, WritersType, WritersDoNotMove, EndsStep
  <2> QED BY <1>15, <2>1, <2>2 DEF EndsSending
<1>16. ASSUME NEW n \in Nodes, NEW h, NEW c \in Transfers, Fails(n, h, c) PROVE StepInv'
  <2>1. /\ c[1] \in Threads /\ at[c[1]] <= Length(c[1]) /\ Op(c[1]) = OpOf(c)
        /\ \/ Advance({c[1]})
           \/ /\ at' = at /\ step' = [step EXCEPT ![c[1]] = "drop"]
              /\ OpOf(c).op = "move"
           \/ /\ at' = at /\ step' = [step EXCEPT ![c[1]] = "failed"]
              /\ OpOf(c).op = "set"
    BY <1>16, FailsIs
  <2>2. CASE Advance({c[1]})
    BY <2>1, <2>2, AdvanceStep
  <2>3. CASE ~Advance({c[1]})
    BY <2>1, <2>3, <1>0
  <2> QED BY <2>2, <2>3
<1>17. ASSUME NEW t \in Threads, DeleteFails(t) PROVE StepInv'
  BY <1>17, AdvanceStep DEF DeleteFails
<1> QED
  BY <1>1, <1>2, <1>3, <1>4, <1>5, <1>6, <1>8, <1>9, <1>10, <1>11, <1>12, <1>13, <1>14, <1>15,
     <1>16, <1>17
     DEF Next, Proxy, Datanode, Faults, Fails

----------------------------------------------------------------------------
(* Connections belong to waiting threads.                                   *)

\* A connection whose thread does not wait is that of a migration the destination
\* of which has ended; its thread is at the deletion or past it.
LEMMA Forsaken ==
  ASSUME Types, QueueInv, NEW n \in Nodes, NEW d \in Queued(n), ~Waits(d)
  PROVE  /\ d \in Transfers /\ OpOf(d).node = n
         /\ OpOf(d).op = "move" /\ OpOf(d).to \in down
         /\ at[d[1]] > d[2] \/ (at[d[1]] = d[2] /\ step[d[1]] = "drop")
<1>1. Linked(n, d)
  BY DEF QueueInv
<1>2. d \in Transfers
  BY DEF Queued, Members, Types
<1> QED BY <1>1, <1>2, TransferType DEF Linked, Waits

\* Connections stay linked when their threads do not move, ...
LEMMA LinkedFrame ==
  ASSUME Types, QueueInv, NEW n \in Nodes, NEW d \in Queued(n), down \subseteq down',
         at'[d[1]] = at[d[1]], step'[d[1]] = step[d[1]]
  PROVE  Linked(n, d)'
BY DEF QueueInv, Linked, Waits, OpOf

\* ... and when they are past the transfer of the connection.
LEMMA LinkedPast ==
  ASSUME NEW n \in Nodes, NEW d \in Transfers, OpOf(d).node = n,
         OpOf(d).op = "move", OpOf(d).to \in down', at'[d[1]] > d[2]
  PROVE  Linked(n, d)'
BY DEF Linked, Waits, OpOf

\* Thread t goes on from where it does not wait, to the next operation or not.
LEMMA LinkedOthers ==
  ASSUME Types, QueueInv, NEW t \in Threads, step[t] # "wait", down \subseteq down',
         \A u \in Threads \ {t} : at'[u] = at[u] /\ step'[u] = step[u],
         at'[t] = at[t] + 1 \/ (at'[t] = at[t] /\ step[t] # "drop"),
         NEW n \in Nodes, NEW d \in Queued(n)
  PROVE  Linked(n, d)'
<1>1. CASE d[1] = t
  <2>1. ~Waits(d)
    BY <1>1 DEF Waits
  <2>2. /\ d \in Transfers /\ OpOf(d).node = n
        /\ OpOf(d).op = "move" /\ OpOf(d).to \in down
        /\ at[t] > d[2] \/ (at[t] = d[2] /\ step[t] = "drop")
    BY <1>1, <2>1, Forsaken
  <2>3. at'[d[1]] > d[2]
    BY <1>1, <2>2, IndexType, TransferType
  <2> QED BY <2>2, <2>3, LinkedPast
<1>2. CASE d[1] # t
  <2>1. d \in Transfers
    BY DEF Queued, Members, Types
  <2>2. d[1] \in Threads
    BY <2>1, TransferType
  <2> QED BY <1>2, <2>2, LinkedFrame
<1> QED BY <1>1, <1>2

\* The thread of a connection goes on when that connection is accepted.
LEMMA LinkedAccepted ==
  ASSUME Types, QueueInv, NEW c \in Transfers, Waits(c), down \subseteq down',
         \A u \in Threads \ {c[1]} : at'[u] = at[u] /\ step'[u] = step[u],
         at'[c[1]] = at[c[1]] + 1 \/ at'[c[1]] = at[c[1]],
         NEW n \in Nodes, NEW d \in Queued(n), d # c
  PROVE  Linked(n, d)'
<1>0. d \in Transfers /\ d[1] \in Threads /\ d[2] \in Nat /\ d = <<d[1], d[2]>>
      /\ c[1] \in Threads /\ c = <<c[1], c[2]>>
  <2>1. d \in Transfers
    BY DEF Queued, Members, Types
  <2> QED BY <2>1, TransferType
<1>1. CASE d[1] = c[1]
  <2>1. ~Waits(d)
    BY <1>0, <1>1 DEF Waits
  <2>2. /\ OpOf(d).node = n /\ OpOf(d).op = "move" /\ OpOf(d).to \in down
        /\ at[d[1]] > d[2]
    BY <1>1, <2>1, Forsaken DEF Waits
  <2>3. at'[d[1]] > d[2]
    BY <1>0, <1>1, <2>2, IndexType
  <2> QED BY <1>0, <2>2, <2>3, LinkedPast
<1>2. CASE d[1] # c[1]
  BY <1>0, <1>2, LinkedFrame
<1> QED BY <1>1, <1>2

\* A thread that goes on does not move the others.
LEMMA AdvanceOthers ==
  ASSUME Types, NEW t \in Threads, Advance({t})
  PROVE  /\ at'[t] = at[t] + 1
         /\ \A u \in Threads \ {t} : at'[u] = at[u] /\ step'[u] = step[u]
BY DEF Advance

\* A step that makes no connection and accepts none.
LEMMA QueuesKept ==
  ASSUME QueueInv, backlog' = backlog,
         \A n \in Nodes : \A d \in Queued(n) : Linked(n, d)'
  PROVE  QueueInv'
BY DEF QueueInv, Queued

\* A connection is made: no earlier one is of the same transfer.
LEMMA ConnectQueue ==
  ASSUME Types, QueueInv, NEW t \in Threads, at[t] <= Length(t),
         step[t] \in {"connect", "pull"}, Op(t).op \in {"set", "get", "move"},
         at' = at, step' = [step EXCEPT ![t] = "wait"], down' = down,
         NEW n, n = Op(t).node, NEW x, x = Here(t),
         backlog' = [backlog EXCEPT ![n] = Append(@, x)]
  PROVE  QueueInv'
<1>1. n \in Nodes /\ x \in Transfers /\ OpOf(x) = Op(t)
  BY CurrentTransfer
<1>2. backlog[n] \in Seq(Transfers) /\ Distinct(backlog[n])
  BY <1>1 DEF Types, QueueInv
<1>3. x \notin Queued(n)
  <2> SUFFICES ASSUME x \in Queued(n) PROVE FALSE
    OBVIOUS
  <2>1. x[1] = t /\ x[2] = at[t]
    BY DEF Here
  <2>2. ~Waits(x)
    BY <2>1 DEF Waits
  <2>3. at[t] > at[t] \/ step[t] = "drop"
    BY <1>1, <2>1, <2>2, Forsaken
  <2> QED BY <2>3, IndexType
<1>4. Linked(n, x)'
  <2>1. x[1] = t /\ x[2] = at[t]
    BY DEF Here
  <2>2. at'[t] = at[t] /\ step'[t] = "wait"
    BY DEF Types
  <2> QED BY <1>1, <2>1, <2>2 DEF Linked, Waits, OpOf
<1>5. ASSUME NEW m \in Nodes, NEW d \in Queued(m)
      PROVE  Linked(m, d)'
  <2>1. \A u \in Threads \ {t} : at'[u] = at[u] /\ step'[u] = step[u]
    BY DEF Types
  <2> QED BY <2>1, LinkedOthers
<1>6. ASSUME NEW m \in Nodes
      PROVE  Distinct(backlog'[m]) /\ \A d \in Members(backlog'[m]) : Linked(m, d)'
  <2>1. CASE m = n
    <3>1. backlog'[m] = Append(backlog[n], x)
      BY <1>1, <2>1 DEF Types
    <3> QED BY <1>1, <1>2, <1>3, <1>4, <1>5, <2>1, <3>1, AppendMembers DEF Queued
  <2>2. CASE m # n
    <3>1. backlog'[m] = backlog[m]
      BY <2>2 DEF Types
    <3> QED BY <1>5, <3>1 DEF QueueInv, Queued
  <2> QED BY <2>1, <2>2
<1> QED BY <1>6 DEF QueueInv, Queued

\* A connection is accepted.
LEMMA AcceptQueue ==
  ASSUME Types, QueueInv, NEW n \in Nodes, NEW h, NEW c \in Transfers, Accepts(n, h, c),
         \A m \in Nodes : \A d \in Queued(m) \ {c} : Linked(m, d)'
  PROVE  QueueInv'
<1>0. Accepting(n, h, c) /\ backlog' = [backlog EXCEPT ![n] = Tail(@)]
  BY DEF Accepts
<1>1. ASSUME NEW m \in Nodes
      PROVE  Distinct(backlog'[m]) /\ \A d \in Members(backlog'[m]) : Linked(m, d)'
  <2>1. CASE m = n
    <3>1. backlog'[m] = Tail(backlog[n])
      BY <1>0, <2>1 DEF Types
    <3> QED BY <1>0, <2>1, <3>1, HeadIs
  <2>2. CASE m # n
    <3>1. backlog'[m] = backlog[m]
      BY <1>0, <2>2 DEF Types
    <3>2. c \notin Queued(m)
      BY <1>0, <2>2, HeadIs DEF QueueInv, Linked
    <3> QED BY <3>1, <3>2 DEF QueueInv, Queued
  <2> QED BY <2>1, <2>2
<1> QED BY <1>1 DEF QueueInv, Queued

\* A datanode ends: migrations to it are forsaken.
LEMMA EndsQueue ==
  ASSUME Types, QueueInv, NEW n \in Nodes, NEW through \in SUBSET Threads, Ends(n, through),
         \A t \in through : step[t] = "wait" /\ Op(t).node = n /\ Op(t).op # "move"
  PROVE  QueueInv'
<1>1. ASSUME NEW m \in Nodes, m # n, NEW d \in Queued(m)
      PROVE  Linked(m, d)'
  <2>0. d \in Transfers /\ d[1] \in Threads /\ Linked(m, d)
    <3>1. d \in Transfers
      BY DEF Queued, Members, Types
    <3> QED BY <3>1, TransferType DEF QueueInv
  <2> DEFINE t == d[1]
  <2>1. down' = down \cup {n}
    BY DEF Ends
  <2>2. CASE Waits(d)
    <3>1. Op(t) = OpOf(d) /\ at[t] = d[2] /\ step[t] = "wait"
      BY <2>2 DEF Op, OpOf, Waits
    <3>2. t \notin Waiting(n) /\ t \notin through
      BY <1>1, <2>0, <3>1 DEF Waiting, Linked
    <3>3. at'[t] = at[t]
      BY <2>0, <3>2 DEF Ends
    <3>4. CASE t \in Movers(n)
      <4>1. step'[t] = "drop"
        BY <2>0, <3>2, <3>4 DEF Ends
      <4>2. OpOf(d).op = "move" /\ OpOf(d).node = m /\ OpOf(d).to = n
        BY <1>1, <2>0, <3>1, <3>4 DEF Movers, Linked
      <4> QED BY <2>1, <3>1, <3>3, <4>1, <4>2 DEF Linked, Waits, OpOf
    <3>5. CASE t \notin Movers(n)
      <4>1. step'[t] = step[t]
        BY <2>0, <3>2, <3>5 DEF Ends
      <4> QED BY <2>1, <3>3, <4>1, LinkedFrame
    <3> QED BY <3>4, <3>5
  <2>3. CASE ~Waits(d)
    <3>1. /\ OpOf(d).node = m /\ OpOf(d).op = "move" /\ OpOf(d).to \in down
          /\ at[t] > d[2] \/ (at[t] = d[2] /\ step[t] = "drop")
      BY <2>3, Forsaken
    <3>2. at'[t] = at[t] \/ at'[t] = at[t] + 1
      BY <2>0 DEF Ends
    <3>3. CASE at[t] > d[2]
      <4>1. at'[t] > d[2]
        BY <2>0, <3>2, <3>3, IndexType, TransferType
      <4> QED BY <2>0, <2>1, <3>1, <4>1, LinkedPast
    <3>4. CASE at[t] = d[2] /\ step[t] = "drop"
      <4>1. t \notin through /\ t \notin Movers(n) /\ t \notin Waiting(n)
        BY <3>4 DEF Movers, Waiting, At
      <4>2. at'[t] = at[t] /\ step'[t] = step[t]
        BY <2>0, <4>1 DEF Ends
      <4> QED BY <2>1, <4>2, LinkedFrame
    <3> QED BY <3>1, <3>3, <3>4
  <2> QED BY <2>2, <2>3
<1>2. ASSUME NEW m \in Nodes
      PROVE  Distinct(backlog'[m]) /\ \A d \in Members(backlog'[m]) : Linked(m, d)'
  <2>1. CASE m = n
    <3>1. backlog'[m] = <<>>
      BY <2>1 DEF Ends, Types
    <3> QED BY <3>1 DEF Distinct, Members
  <2>2. CASE m # n
    <3>1. backlog'[m] = backlog[m]
      BY <2>2 DEF Ends, Types
    <3> QED BY <1>1, <2>2, <3>1 DEF QueueInv, Queued
  <2> QED BY <2>1, <2>2
<1> QED BY <1>2 DEF QueueInv, Queued

\* Connections keep belonging to threads that wait for them.
LEMMA QueueStep == Types /\ StepInv /\ QueueInv /\ Next => QueueInv'
<1> SUFFICES ASSUME Types, StepInv, QueueInv, Next PROVE QueueInv'
  OBVIOUS
<1>0. ASSUME NEW t \in Threads, step[t] # "wait", down' = down, backlog' = backlog,
             \A u \in Threads \ {t} : at'[u] = at[u] /\ step'[u] = step[u],
             at'[t] = at[t] + 1 \/ (at'[t] = at[t] /\ step[t] # "drop")
      PROVE  QueueInv'
  <2>1. ASSUME NEW n \in Nodes, NEW d \in Queued(n) PROVE Linked(n, d)'
    BY <1>0, LinkedOthers
  <2> QED BY <1>0, <2>1, QueuesKept
<1>1. ASSUME NEW t \in Threads, Announce(t) PROVE QueueInv'
  BY <1>1, <1>0 DEF Announce, At, Types
<1>2. ASSUME NEW t \in Threads, Connect(t) PROVE QueueInv'
  BY <1>2, NotEnded, ConnectQueue DEF Connect, At, Here, StepInv
<1>3. ASSUME NEW t \in Threads, ConnectFails(t) PROVE QueueInv'
  <2>1. CASE Advance({t})
    BY <1>3, <1>0, <2>1, AdvanceOthers DEF ConnectFails, At
  <2>2. CASE at' = at /\ step' = [step EXCEPT ![t] = "failed"]
    BY <1>3, <1>0, <2>2 DEF ConnectFails, At, Types
  <2> QED BY <1>3, <2>1, <2>2 DEF ConnectFails
<1>4. ASSUME NEW t \in Threads, Pull(t) PROVE QueueInv'
  BY <1>4, NotEnded, ConnectQueue DEF Pull, At, Here, StepInv
<1>5. ASSUME NEW t \in Threads, PullFails(t) PROVE QueueInv'
  BY <1>5, <1>0 DEF PullFails, At, Types
<1>6. ASSUME NEW t \in Threads, Delete(t) PROVE QueueInv'
  BY <1>6, <1>0, AdvanceOthers DEF Delete, Deletes, Drops, At
<1>7. ASSUME NEW n \in Nodes, NEW h, NEW c \in Transfers, Accepts(n, h, c), Waits(c),
             down' = down,
             \A u \in Threads \ {c[1]} : at'[u] = at[u] /\ step'[u] = step[u],
             at'[c[1]] = at[c[1]] + 1 \/ at'[c[1]] = at[c[1]]
      PROVE  QueueInv'
  <2>1. ASSUME NEW m \in Nodes, NEW d \in Queued(m) \ {c} PROVE Linked(m, d)'
    BY <1>7, LinkedAccepted
  <2> QED BY <1>7, <2>1, AcceptQueue
<1>8. ASSUME NEW n \in Nodes, NEW h, NEW c \in Transfers, Accepts(n, h, c),
             down' = down, at' = at, step' = step
      PROVE  QueueInv'
  <2>1. ASSUME NEW m \in Nodes, NEW d \in Queued(m) \ {c} PROVE Linked(m, d)'
    BY <1>8, LinkedFrame
  <2> QED BY <1>8, <2>1, AcceptQueue
<1>9. ASSUME NEW n \in Nodes, NEW h, NEW c \in Transfers, Accepting(n, h, c)
      PROVE  /\ OpOf(c).op \in {"set", "get"} \/ (OpOf(c).op = "move" /\ OpOf(c).to \notin down)
                  => Waits(c)
             /\ ~Reads(c) => OpOf(c).op = "set"
             /\ c[1] \in Threads
  BY <1>9, HeadIs, TransferType DEF Linked, Reads
<1>10. ASSUME NEW n \in Nodes, NEW h, NEW c \in Transfers, Stores(n, h, c) PROVE QueueInv'
  BY <1>10, <1>7, <1>9, AdvanceOthers DEF Stores, Accepts
<1>11. ASSUME NEW n \in Nodes, NEW h, NEW c \in Transfers, Sends(n, h, c) PROVE QueueInv'
  <2>1. Waits(c) /\ c[1] \in Threads
    BY <1>11, <1>9 DEF Sends, Accepts
  <2>2. CASE Advance({c[1]})
    BY <1>11, <1>7, <2>1, <2>2, AdvanceOthers DEF Sends
  <2>3. CASE step' = [step EXCEPT ![c[1]] = "failed"] /\ at' = at
    BY <1>11, <1>7, <2>1, <2>3 DEF Sends, Types
  <2> QED BY <1>11, <2>2, <2>3 DEF Sends
<1>12. ASSUME NEW n \in Nodes, NEW h, NEW c \in Transfers, SendsPull(n, h, c) PROVE QueueInv'
  <2>1. Waits(c) /\ c[1] \in Threads
    BY <1>12, <1>9 DEF SendsPull, Accepts
  <2> QED BY <1>12, <1>7, <2>1 DEF SendsPull, Answered, Types
<1>13. ASSUME NEW n \in Nodes, NEW h, NEW c \in Transfers, Loses(n, h, c) PROVE QueueInv'
  <2>1. Waits(c) /\ c[1] \in Threads
    BY <1>13, <1>9 DEF Loses, Accepts
  <2>2. CASE Advance({c[1]})
    BY <1>13, <1>7, <2>1, <2>2, AdvanceOthers DEF Loses
  <2>3. CASE UNCHANGED <<at, step>>
    BY <1>13, <1>8, <2>3 DEF Loses
  <2> QED BY <1>13, <2>2, <2>3 DEF Loses
<1>14. ASSUME NEW n \in Nodes, NEW h, NEW c \in Transfers, Hangs(n, h, c) \/ SendsNothing(n, h, c)
       PROVE QueueInv'
  BY <1>14, <1>8 DEF Hangs, SendsNothing
<1>15. ASSUME NEW n
       PROVE  \A t \in Writers(n) : step[t] = "wait" /\ Op(t).node = n /\ Op(t).op # "move"
  BY DEF Writers, Waiting, At
<1>16. ASSUME NEW n \in Nodes, Ends(n, Writers(n)) PROVE QueueInv'
  BY <1>15, <1>16, WritersType, EndsQueue
<1>17. ASSUME NEW n \in Nodes, NEW h, NEW c \in Transfers, EndsSending(n, h, c) PROVE QueueInv'
  <2>1. CASE OpOf(c).op = "get" /\ Ends(n, Writers(n) \cup {c[1]})
    <3>1. Waits(c) /\ c[1] \in Threads /\ OpOf(c).node = n
      BY <1>17, <2>1, <1>9, HeadIs DEF EndsSending, Linked
    <3>2. step[c[1]] = "wait" /\ Op(c[1]).node = n /\ Op(c[1]).op # "move"
      BY <2>1, <3>1 DEF Waits, Op, OpOf
    <3> QED BY <2>1, <3>1, <3>2, <1>15, WritersType, EndsQueue
  <2>2. CASE Ends(n, Writers(n))
    BY <2>2, <1>16
  <2> QED BY <1>17, <2>1, <2>2 DEF EndsSending
<1>18. ASSUME NEW n \in Nodes, NEW h, NEW c \in Transfers, Fails(n, h, c) PROVE QueueInv'
  <2>1. /\ Accepts(n, h, c) /\ Waits(c) /\ c[1] \in Threads /\ down' = down
        /\ \/ Advance({c[1]})
           \/ at' = at /\ \E s \in {"drop", "failed"} : step' = [step EXCEPT ![c[1]] = s]
    BY <1>18, FailsIs
  <2>2. CASE Advance({c[1]})
    BY <2>1, <2>2, <1>7, AdvanceOthers
  <2>3. CASE at' = at /\ \E s \in {"drop", "failed"} : step' = [step EXCEPT ![c[1]] = s]
    BY <2>1, <2>3, <1>7 DEF Types
  <2> QED BY <2>1, <2>2, <2>3
<1>19. ASSUME NEW t \in Threads, DeleteFails(t) PROVE QueueInv'
  BY <1>19, <1>0, AdvanceOthers DEF DeleteFails, Deletes, Drops, At
<1> QED
  BY <1>1, <1>2, <1>3, <1>4, <1>5, <1>6, <1>10, <1>11, <1>12, <1>13, <1>14, <1>16, <1>17,
     <1>18, <1>19
     DEF Next, Proxy, Datanode, Faults, Fails, Follows, NodeEnds

----------------------------------------------------------------------------
(* Connections find threads, and reads are alone.                           *)

\* What has been announced is past its announcement.
HandlersInv ==
  \A n \in Nodes : \A h \in handlers[n] :
    at[h[1]] > h[2] \/ (at[h[1]] = h[2] /\ step[h[1]] # "call")

\* Every connection that was made, or is about to be, finds a thread.  There may
\* be more threads: a migration that is not pulled leaves one behind.
Served(n) ==
  /\ IsFiniteSet(handlers[n]) /\ IsFiniteSet(Pending(n))
  /\ Cardinality(Pending(n)) + Len(backlog[n]) <= Cardinality(handlers[n])
CountInv == \A n \in Nodes \ down : Served(n)

\* A read is alone at its datanode until one is marked.
Around(n) == Outstanding(n) \cup {Here(t) : t \in Pending(n)}
Solo(n)   == \A x, y \in Around(n) : Reads(x) => y = x
SoloInv   == \A n \in Nodes \ (down \cup mixed) : Solo(n)

StationInv == HandlersInv /\ CountInv /\ SoloInv

\* No thread goes back.
Onward ==
  \A t \in Threads :
    \/ at'[t] = at[t] + 1
    \/ at'[t] = at[t] /\ (step'[t] = "call" => step[t] = "call")

\* The threads that move are not about to connect, neither before nor after.
Elsewhere ==
  \A t \in Threads :
    \/ at'[t] = at[t] /\ step'[t] = step[t]
    \/ step[t] \notin {"connect", "pull"} /\ step'[t] \notin {"connect", "pull"}

\* Threads of a datanode stay those of transfers that were announced.
LEMMA HandlersKept ==
  ASSUME Types, Onward, HandlersInv, \A n \in Nodes : handlers'[n] \subseteq handlers[n]
  PROVE  HandlersInv'
<1> SUFFICES ASSUME NEW n \in Nodes, NEW h \in handlers[n]
             PROVE  at'[h[1]] > h[2] \/ (at'[h[1]] = h[2] /\ step'[h[1]] # "call")
  BY DEF HandlersInv
<1>1. h \in Transfers
  BY DEF Types
<1>2. h[1] \in Threads /\ h[2] \in Nat
  BY <1>1, TransferType
<1>3. at[h[1]] > h[2] \/ (at[h[1]] = h[2] /\ step[h[1]] # "call")
  BY DEF HandlersInv
<1>4. at[h[1]] \in Int
  BY <1>2, IndexType
<1>5. \/ at'[h[1]] = at[h[1]] + 1
      \/ at'[h[1]] = at[h[1]] /\ (step'[h[1]] = "call" => step[h[1]] = "call")
  BY <1>2 DEF Onward
<1> QED BY <1>2, <1>3, <1>4, <1>5

\* Who is about to connect stays so when other threads move.
LEMMA PendingKept ==
  ASSUME Elsewhere, NEW n \in Nodes
  PROVE  Pending(n)' = Pending(n) /\ \A t \in Pending(n) : Here(t)' = Here(t)
<1>1. ASSUME NEW t \in Threads
      PROVE  /\ t \in Pending(n)' <=> t \in Pending(n)
             /\ t \in Pending(n) => Here(t)' = Here(t)
  <2>1. CASE at'[t] = at[t] /\ step'[t] = step[t]
    BY <2>1 DEF Pending, At, Ended, Op, Here
  <2>2. CASE step[t] \notin {"connect", "pull"} /\ step'[t] \notin {"connect", "pull"}
    BY <2>2 DEF Pending, At
  <2> QED BY <2>1, <2>2 DEF Elsewhere
<1> QED BY <1>1 DEF Pending

\* The thread that connects, or fails to, is not pending any more.
LEMMA PendingLeft ==
  ASSUME Types, NEW t \in Threads, At(t, "connect") \/ At(t, "pull"),
         step'[t] \notin {"connect", "pull"},
         \A u \in Threads \ {t} : at'[u] = at[u] /\ step'[u] = step[u],
         NEW n \in Nodes
  PROVE  /\ Pending(n)' = Pending(n) \ {t} /\ \A u \in Pending(n)' : Here(u)' = Here(u)
         /\ t \in Pending(n) <=> Op(t).node = n
<1>1. ASSUME NEW u \in Threads \ {t}
      PROVE  /\ u \in Pending(n)' <=> u \in Pending(n)
             /\ Here(u)' = Here(u)
  BY DEF Pending, At, Ended, Op, Here
<1>2. t \notin Pending(n)'
  BY DEF Pending, At
<1> QED BY <1>1, <1>2 DEF Pending

\* A thread that has announced its transfer is about to connect.
LEMMA PendingJoined ==
  ASSUME Types, NEW t \in Threads, At(t, "call"), at' = at,
         step' = [step EXCEPT ![t] = "connect"] \/ step' = [step EXCEPT ![t] = "pull"],
         NEW n \in Nodes
  PROVE  /\ \A u \in Threads : Here(u)' = Here(u)
         /\ t \notin Pending(n)
         /\ Pending(n)' = IF Op(t).node = n THEN Pending(n) \cup {t} ELSE Pending(n)
<1>1. ASSUME NEW u \in Threads \ {t}
      PROVE  u \in Pending(n)' <=> u \in Pending(n)
  <2>1. at'[u] = at[u] /\ step'[u] = step[u]
    BY DEF Types
  <2> QED BY <2>1 DEF Pending, At, Ended, Op
<1>2. t \in Pending(n)' <=> Op(t).node = n
  BY DEF Pending, At, Ended, Op, Types
<1>3. t \notin Pending(n)
  BY DEF Pending, At
<1>4. Pending(n) \subseteq Threads /\ Pending(n)' \subseteq Threads
  BY DEF Pending
<1> QED BY <1>1, <1>2, <1>3, <1>4 DEF Here

\* A datanode where nothing comes up.
LEMMA StationKept ==
  ASSUME Types, NEW n \in Nodes, handlers'[n] = handlers[n], backlog'[n] = backlog[n],
         Pending(n)' \subseteq Pending(n), \A u \in Pending(n)' : Here(u)' = Here(u)
  PROVE  (Served(n) => Served(n)') /\ (Solo(n) => Solo(n)')
<1>1. ASSUME Served(n) PROVE Served(n)'
  <2>1. Len(backlog[n]) \in Nat
    BY DEF Types
  <2>2. IsFiniteSet(Pending(n)') /\ Cardinality(Pending(n)') <= Cardinality(Pending(n))
    BY <1>1, FS_Subset DEF Served
  <2>3. Cardinality(Pending(n)) \in Nat /\ Cardinality(Pending(n)') \in Nat
        /\ Cardinality(handlers[n]) \in Nat
    BY <1>1, <2>2, FS_CardinalityType DEF Served
  <2> QED BY <1>1, <2>1, <2>2, <2>3 DEF Served
<1>2. Around(n)' \subseteq Around(n)
  BY DEF Around, Outstanding
<1>3. Solo(n) => Solo(n)'
  BY <1>2 DEF Solo, Reads, OpOf
<1> QED BY <1>1, <1>3

\* A thread connects.
LEMMA ConnectStation ==
  ASSUME Types, StationInv, NEW t \in Threads, at[t] <= Length(t),
         At(t, "connect") \/ At(t, "pull"), at' = at, step' = [step EXCEPT ![t] = "wait"],
         handlers' = handlers, down' = down, mixed' = mixed,
         backlog' = [backlog EXCEPT ![Op(t).node] = Append(@, Here(t))]
  PROVE  StationInv'
<1>1. Op(t).node \in Nodes /\ Here(t) \in Transfers
  BY CurrentTransfer
<1>2. HandlersInv'
  BY HandlersKept DEF StationInv, Onward, Types
<1>3. ASSUME NEW n \in Nodes
      PROVE  (Served(n) => Served(n)') /\ (Solo(n) => Solo(n)')
  <2>0. /\ Pending(n)' = Pending(n) \ {t} /\ \A u \in Pending(n)' : Here(u)' = Here(u)
        /\ t \in Pending(n) <=> Op(t).node = n
    BY PendingLeft DEF Types
  <2>1. CASE n = Op(t).node
    <3>1. backlog'[n] = Append(backlog[n], Here(t)) /\ backlog[n] \in Seq(Transfers)
      BY <1>1, <2>1 DEF Types
    <3>2. Len(backlog'[n]) = Len(backlog[n]) + 1 /\ Len(backlog[n]) \in Nat
          /\ Members(backlog'[n]) = Members(backlog[n]) \cup {Here(t)}
      BY <1>1, <3>1, AppendMembers
    <3>3. ASSUME Served(n) PROVE Served(n)'
      <4>1. IsFiniteSet(Pending(n)') /\ Cardinality(Pending(n)') = Cardinality(Pending(n)) - 1
        BY <2>0, <2>1, <3>3, FS_RemoveElement DEF Served
      <4>2. Cardinality(Pending(n)) \in Nat /\ Cardinality(handlers[n]) \in Nat
        BY <3>3, FS_CardinalityType DEF Served
      <4> QED BY <3>2, <3>3, <4>1, <4>2 DEF Served
    <3>4. Around(n)' \subseteq Around(n)
      BY <2>0, <2>1, <3>2 DEF Around, Outstanding, Members
    <3> QED BY <3>3, <3>4 DEF Solo, Reads, OpOf
  <2>2. CASE n # Op(t).node
    <3>1. backlog'[n] = backlog[n]
      BY <2>2 DEF Types
    <3> QED BY <2>0, <3>1, StationKept
  <2> QED BY <2>1, <2>2
<1> QED BY <1>2, <1>3 DEF StationInv, CountInv, SoloInv

\* A connection is accepted.
LEMMA AcceptStation ==
  ASSUME Types, QueueInv, StationInv, Onward, Elsewhere, down' = down, mixed' = mixed,
         NEW n \in Nodes, NEW h, NEW c \in Transfers, Accepts(n, h, c)
  PROVE  StationInv'
<1>1. /\ handlers' = [handlers EXCEPT ![n] = @ \ {h}]
      /\ backlog' = [backlog EXCEPT ![n] = Tail(@)] /\ Accepting(n, h, c)
  BY DEF Accepts
<1>2. HandlersInv'
  BY <1>1, HandlersKept DEF StationInv, Types
<1>3. ASSUME NEW m \in Nodes
      PROVE  (Served(m) => Served(m)') /\ (Solo(m) => Solo(m)')
  <2>0. Pending(m)' = Pending(m) /\ \A t \in Pending(m) : Here(t)' = Here(t)
    BY PendingKept
  <2>1. CASE m = n
    <3>1. /\ backlog'[n] = Tail(backlog[n]) /\ handlers'[n] = handlers[n] \ {h}
          /\ Len(backlog[n]) \in Nat /\ h \in handlers[n]
          /\ Len(backlog'[n]) = Len(backlog[n]) - 1
          /\ Members(backlog'[n]) = Queued(n) \ {c}
      BY <1>1, HeadIs DEF Types
    <3>2. ASSUME Served(n) PROVE Served(n)'
      <4>1. /\ IsFiniteSet(handlers'[n])
            /\ Cardinality(handlers'[n]) = Cardinality(handlers[n]) - 1
        BY <3>1, <3>2, FS_RemoveElement DEF Served
      <4>2. Cardinality(Pending(n)) \in Nat /\ Cardinality(handlers[n]) \in Nat
        BY <3>2, FS_CardinalityType DEF Served
      <4> QED BY <2>0, <2>1, <3>1, <3>2, <4>1, <4>2 DEF Served
    <3>3. Around(n)' \subseteq Around(n)
      BY <2>0, <2>1, <3>1 DEF Around, Outstanding, Queued, Members
    <3> QED BY <2>1, <3>2, <3>3 DEF Solo, Reads, OpOf
  <2>2. CASE m # n
    <3>1. backlog'[m] = backlog[m] /\ handlers'[m] = handlers[m]
      BY <1>1, <2>2 DEF Types
    <3> QED BY <2>0, <3>1, StationKept
  <2> QED BY <2>1, <2>2
<1> QED BY <1>2, <1>3 DEF StationInv, CountInv, SoloInv

\* A thread is not about to connect any more.
LEMMA LeaveStation ==
  ASSUME Types, StationInv, Onward, handlers' = handlers, backlog' = backlog,
         down' = down, mixed' = mixed,
         \A n \in Nodes : Pending(n)' \subseteq Pending(n),
         \A n \in Nodes : \A u \in Pending(n)' : Here(u)' = Here(u)
  PROVE  StationInv'
<1>1. HandlersInv'
  BY HandlersKept DEF StationInv
<1>2. ASSUME NEW n \in Nodes
      PROVE  (Served(n) => Served(n)') /\ (Solo(n) => Solo(n)')
  BY StationKept
<1> QED BY <1>1, <1>2 DEF StationInv, CountInv, SoloInv

\* A datanode ends.
LEMMA EndsStation ==
  ASSUME Types, StationInv, NEW n \in Nodes, NEW through \in SUBSET Threads, Ends(n, through),
         \A t \in through : step[t] = "wait", through \cap Movers(n) = {}
  PROVE  StationInv'
<1>1. ASSUME NEW t \in Threads
      PROVE  /\ at'[t] = IF t \in through THEN at[t] + 1 ELSE at[t]
             /\ \/ t \notin through /\ step'[t] = step[t]
                \/ t \in through /\ step'[t] = "call"
                \/ t \notin through /\ step[t] = "wait" /\ step'[t] \in {"drop", "failed"}
  <2>1. at'[t] = IF t \in through THEN at[t] + 1 ELSE at[t]
    BY DEF Ends
  <2>2. step'[t] = CASE t \in through    -> "call"
                     [] t \in Movers(n)  -> "drop"
                     [] t \in Waiting(n) \ (through \cup Movers(n)) -> "failed"
                     [] OTHER            -> step[t]
    BY DEF Ends
  <2>3. CASE t \in through
    <3>1. t \notin Waiting(n) \ (through \cup Movers(n)) /\ t \notin Movers(n)
      BY <2>3
    <3>2. step'[t] = "call"
      BY <2>2, <2>3, <3>1
    <3> QED BY <2>1, <2>3, <3>2
  <2>4. CASE t \notin through /\ t \in Movers(n)
    BY <2>1, <2>2, <2>4 DEF Movers, At
  <2>5. CASE t \notin through /\ t \notin Movers(n) /\ t \in Waiting(n)
    BY <2>1, <2>2, <2>5 DEF Waiting, At
  <2>6. CASE t \notin through /\ t \notin Movers(n) /\ t \notin Waiting(n)
    BY <2>1, <2>2, <2>6
  <2> QED BY <2>3, <2>4, <2>5, <2>6
<1>2. Onward /\ Elsewhere
  <2>1. Onward
    BY <1>1 DEF Onward
  <2>2. Elsewhere
    BY <1>1 DEF Elsewhere
  <2> QED BY <2>1, <2>2
<1>3. ASSUME NEW m \in Nodes
      PROVE  handlers'[m] = (IF m = n THEN {} ELSE handlers[m])
             /\ (m # n => backlog'[m] = backlog[m])
  BY DEF Ends, Types
<1>4. HandlersInv'
  BY <1>2, <1>3, HandlersKept DEF StationInv
<1>5. ASSUME NEW m \in Nodes, m # n
      PROVE  (Served(m) => Served(m)') /\ (Solo(m) => Solo(m)')
  BY <1>2, <1>3, <1>5, PendingKept, StationKept
<1>6. down' = down \cup {n} /\ mixed' = mixed
  BY DEF Ends
<1> QED BY <1>4, <1>5, <1>6 DEF StationInv, CountInv, SoloInv

\* A thread announces its transfer: it is alone, or it and what it meets are
\* pushes, or the datanode is marked.
LEMMA AnnounceStation ==
  ASSUME Types, QueueInv, StationInv, NEW t \in Threads, Announce(t),
         NEW k, k = Op(t).node, NEW x, x = Here(t)
  PROVE  StationInv'
<1>0. at[t] <= Length(t) /\ At(t, "call")
  BY NotEnded DEF Announce, At
<1>1. k \in Nodes /\ x \in Transfers /\ x = <<t, at[t]>> /\ x[1] = t /\ x[2] = at[t]
  BY <1>0, CurrentTransfer DEF Here
<1>2. /\ handlers' = IF k \in down THEN handlers ELSE [handlers EXCEPT ![k] = @ \cup {x}]
      /\ mixed' = IF k \notin down /\ Outstanding(k) # {}
                       /\ \E y \in Outstanding(k) \cup {x} : Reads(y)
                    THEN mixed \cup {k} ELSE mixed
      /\ at' = at /\ backlog' = backlog /\ down' = down
      /\ step' = [step EXCEPT ![t] = "connect"] \/ step' = [step EXCEPT ![t] = "pull"]
  BY <1>1 DEF Announce
<1>3. HandlersInv'
  <2> SUFFICES ASSUME NEW n \in Nodes, NEW h \in handlers'[n]
               PROVE  at'[h[1]] > h[2] \/ (at'[h[1]] = h[2] /\ step'[h[1]] # "call")
    BY DEF HandlersInv
  <2>1. h \in handlers[n] \/ h = x
    BY <1>1, <1>2 DEF Types
  <2>2. CASE h = x
    BY <1>0, <1>1, <1>2, <2>2 DEF Types
  <2>3. CASE h \in handlers[n]
    <3>1. /\ h \in Transfers
          /\ at[h[1]] > h[2] \/ (at[h[1]] = h[2] /\ step[h[1]] # "call")
      BY <2>3 DEF StationInv, HandlersInv, Types
    <3>2. h[1] \in Threads
      BY <3>1, TransferType
    <3>3. CASE h[1] = t
      BY <1>0, <1>2, <3>1, <3>3 DEF At
    <3>4. CASE h[1] # t
      BY <1>2, <3>1, <3>2, <3>4 DEF Types
    <3> QED BY <3>3, <3>4
  <2> QED BY <2>1, <2>2, <2>3
<1>4. x \notin handlers[k]
  <2> SUFFICES ASSUME x \in handlers[k] PROVE FALSE
    OBVIOUS
  <2>1. at[t] > at[t] \/ step[t] # "call"
    BY <1>1 DEF StationInv, HandlersInv
  <2> QED BY <1>0, <2>1, IndexType DEF At
<1>5. ASSUME NEW n \in Nodes
      PROVE  /\ \A u \in Threads : Here(u)' = Here(u)
             /\ t \notin Pending(n)
             /\ Pending(n)' = IF k = n THEN Pending(n) \cup {t} ELSE Pending(n)
  BY <1>0, <1>2, PendingJoined
<1>6. ASSUME NEW n \in Nodes, n # k
      PROVE  (Served(n) => Served(n)') /\ (Solo(n) => Solo(n)')
  <2>1. handlers'[n] = handlers[n]
    BY <1>2, <1>6 DEF Types
  <2>2. Pending(n)' = Pending(n) /\ \A u \in Pending(n)' : Here(u)' = Here(u)
    BY <1>5, <1>6 DEF Pending
  <2> QED BY <1>2, <2>1, <2>2, StationKept
<1>7. ASSUME k \notin down PROVE Served(k)'
  <2>1. handlers'[k] = handlers[k] \cup {x} /\ Served(k)
    BY <1>1, <1>2, <1>7 DEF Types, StationInv, CountInv
  <2>2. IsFiniteSet(handlers'[k]) /\ Cardinality(handlers'[k]) = Cardinality(handlers[k]) + 1
    <3>1. IsFiniteSet(handlers[k])
      BY <2>1 DEF Served
    <3>2. /\ IsFiniteSet(handlers[k] \cup {x})
          /\ Cardinality(handlers[k] \cup {x}) = Cardinality(handlers[k]) + 1
      BY <1>4, <3>1, FS_AddElement
    <3> QED BY <2>1, <3>2
  <2>3. IsFiniteSet(Pending(k)') /\ Cardinality(Pending(k)') = Cardinality(Pending(k)) + 1
    BY <1>1, <1>5, <2>1, FS_AddElement DEF Served
  <2>4. Cardinality(Pending(k)) \in Nat /\ Cardinality(handlers[k]) \in Nat
        /\ Len(backlog[k]) \in Nat
    BY <1>1, <2>1, FS_CardinalityType DEF Served, Types
  <2> QED BY <1>2, <2>1, <2>2, <2>3, <2>4 DEF Served
<1>8. ASSUME k \notin down, k \notin mixed' PROVE Solo(k)'
  <2>1. handlers'[k] = handlers[k] \cup {x} /\ Served(k) /\ k \notin mixed /\ Solo(k)
    BY <1>1, <1>2, <1>8 DEF Types, StationInv, CountInv, SoloInv
  <2>2. Around(k)' = Around(k) \cup {x}
    <3>1. Outstanding(k)' = Outstanding(k) \cup {x}
      BY <1>2, <2>1 DEF Outstanding
    <3>2. Pending(k)' = Pending(k) \cup {t} /\ \A u \in Threads : Here(u)' = Here(u)
      BY <1>1, <1>5
    <3>3. Pending(k) \subseteq Threads
      BY DEF Pending
    <3> QED BY <3>1, <3>2, <3>3 DEF Around
  <2>3. CASE Outstanding(k) = {}
    <3>1. handlers[k] = {}
      BY <2>3 DEF Outstanding
    <3>2. Cardinality(handlers[k]) = 0
      BY <3>1, FS_EmptySet
    <3>3. Cardinality(Pending(k)) = 0
      <4>1. Cardinality(Pending(k)) \in Nat /\ Len(backlog[k]) \in Nat
        BY <1>1, <2>1, FS_CardinalityType DEF Served, Types
      <4> QED BY <2>1, <3>2, <4>1 DEF Served
    <3>4. Pending(k) = {}
      BY <2>1, <3>3, FS_EmptySet DEF Served
    <3>5. Around(k) = {}
      BY <2>3, <3>4 DEF Around
    <3> QED BY <2>2, <3>5 DEF Solo
  <2>4. CASE Outstanding(k) # {}
    <3>1. ~Reads(x) /\ \A y \in Outstanding(k) : ~Reads(y)
      BY <1>1, <1>2, <1>8, <2>4
    <3>2. \A y \in Around(k) : ~Reads(y)
      BY <2>1, <2>4, <3>1 DEF Solo, Around
    <3>3. \A y \in Around(k)' : ~Reads(y)
      BY <2>2, <3>1, <3>2
    <3> QED BY <3>3 DEF Solo, Reads, OpOf
  <2> QED BY <2>3, <2>4
<1>9. \A n \in Nodes : n \notin mixed' => n \notin mixed
  BY <1>2
<1> QED BY <1>2, <1>3, <1>6, <1>7, <1>8, <1>9 DEF StationInv, CountInv, SoloInv

\* Connections keep finding threads, and reads keep being alone.
LEMMA StationStep == Types /\ StepInv /\ QueueInv /\ StationInv /\ Next => StationInv'
<1> SUFFICES ASSUME Types, StepInv, QueueInv, StationInv, Next PROVE StationInv'
  OBVIOUS
<1>1. ASSUME NEW t \in Threads, Announce(t) PROVE StationInv'
  BY <1>1, AnnounceStation
<1>2. ASSUME NEW t \in Threads, Connect(t) PROVE StationInv'
  BY <1>2, NotEnded, ConnectStation DEF Connect, At, Here
<1>3. ASSUME NEW t \in Threads, Pull(t) PROVE StationInv'
  BY <1>3, NotEnded, ConnectStation DEF Pull, At, Here
<1>4. ASSUME NEW t \in Threads, At(t, "connect") \/ At(t, "pull"),
             step'[t] \notin {"connect", "pull"},
             \A u \in Threads \ {t} : at'[u] = at[u] /\ step'[u] = step[u],
             at'[t] = at[t] + 1 \/ (at'[t] = at[t] /\ step'[t] # "call"),
             handlers' = handlers, backlog' = backlog, down' = down, mixed' = mixed
      PROVE  StationInv'
  <2>1. Onward
    BY <1>4 DEF Onward
  <2>2. ASSUME NEW n \in Nodes
        PROVE  Pending(n)' \subseteq Pending(n) /\ \A u \in Pending(n)' : Here(u)' = Here(u)
    BY <1>4, PendingLeft
  <2> QED BY <1>4, <2>1, <2>2, LeaveStation
<1>5. ASSUME NEW t \in Threads, ConnectFails(t) PROVE StationInv'
  <2>1. CASE Advance({t})
    BY <1>5, <2>1, <1>4 DEF ConnectFails, Advance
  <2>2. CASE at' = at /\ step' = [step EXCEPT ![t] = "failed"]
    BY <1>5, <2>2, <1>4 DEF ConnectFails, Types
  <2> QED BY <1>5, <2>1, <2>2 DEF ConnectFails
<1>6. ASSUME NEW t \in Threads, PullFails(t) PROVE StationInv'
  BY <1>6, <1>4 DEF PullFails, Types
<1>7. ASSUME NEW t \in Threads, step[t] \notin {"connect", "pull"},
             \/ Advance({t})
             \/ UNCHANGED <<at, step>>
             \/ at' = at /\ \E s \in {"drop", "failed"} : step' = [step EXCEPT ![t] = s]
      PROVE  Onward /\ Elsewhere
  <2>1. CASE Advance({t})
    BY <1>7, <2>1 DEF Advance, Onward, Elsewhere
  <2>2. CASE UNCHANGED <<at, step>>
    BY <2>2 DEF Onward, Elsewhere
  <2>3. ASSUME NEW s \in {"drop", "failed"}, at' = at, step' = [step EXCEPT ![t] = s]
        PROVE  Onward /\ Elsewhere
    BY <1>7, <2>3 DEF Onward, Elsewhere, Types
  <2> QED BY <1>7, <2>1, <2>2, <2>3
<1>8. ASSUME NEW t \in Threads, Delete(t) PROVE StationInv'
  <2>1. Onward /\ Elsewhere
    BY <1>8, <1>7 DEF Delete, Deletes, Drops, At
  <2>2. ASSUME NEW n \in Nodes
        PROVE  Pending(n)' \subseteq Pending(n) /\ \A u \in Pending(n)' : Here(u)' = Here(u)
    BY <2>1, PendingKept
  <2> QED BY <1>8, <2>1, <2>2, LeaveStation DEF Delete
<1>9. ASSUME NEW n \in Nodes, NEW h, NEW c \in Transfers, Accepts(n, h, c),
             Waits(c) \/ UNCHANGED <<at, step>>, down' = down, mixed' = mixed,
             \/ Advance({c[1]})
             \/ UNCHANGED <<at, step>>
             \/ at' = at /\ \E s \in {"drop", "failed"} : step' = [step EXCEPT ![c[1]] = s]
      PROVE  StationInv'
  <2>1. CASE Waits(c)
    <3>1. c[1] \in Threads /\ step[c[1]] \notin {"connect", "pull"}
      BY <2>1, TransferType DEF Waits
    <3> QED BY <1>9, <3>1, <1>7, AcceptStation
  <2>2. CASE UNCHANGED <<at, step>>
    BY <1>9, <2>2, AcceptStation DEF Onward, Elsewhere
  <2> QED BY <1>9, <2>1, <2>2
<1>10. ASSUME NEW n \in Nodes, NEW h, NEW c \in Transfers, Accepting(n, h, c)
       PROVE  /\ OpOf(c).op \in {"set", "get"} \/ (OpOf(c).op = "move" /\ OpOf(c).to \notin down)
                   => Waits(c)
              /\ ~Reads(c) => OpOf(c).op = "set"
              /\ OpOf(c).node = n /\ c[1] \in Threads
  BY <1>10, HeadIs, TransferType DEF Linked, Reads
<1>11. ASSUME NEW n \in Nodes, NEW h, NEW c \in Transfers,
              \/ Stores(n, h, c) \/ Loses(n, h, c) \/ Hangs(n, h, c) \/ SendsNothing(n, h, c)
       PROVE  StationInv'
  <2>1. CASE Stores(n, h, c)
    BY <2>1, <1>9, <1>10 DEF Stores, Accepts
  <2>2. CASE Loses(n, h, c)
    BY <2>2, <1>9, <1>10 DEF Loses, Accepts
  <2>3. CASE Hangs(n, h, c) \/ SendsNothing(n, h, c)
    BY <2>3, <1>9 DEF Hangs, SendsNothing
  <2> QED BY <1>11, <2>1, <2>2, <2>3
<1>12. ASSUME NEW n \in Nodes, NEW h, NEW c \in Transfers, Sends(n, h, c) PROVE StationInv'
  <2>1. Waits(c)
    BY <1>12, <1>10 DEF Sends, Accepts
  <2> QED BY <1>12, <2>1, <1>9 DEF Sends
<1>13. ASSUME NEW n \in Nodes, NEW h, NEW c \in Transfers, SendsPull(n, h, c) PROVE StationInv'
  <2>1. Waits(c)
    BY <1>13, <1>10 DEF SendsPull, Accepts
  <2> QED BY <1>13, <2>1, <1>9 DEF SendsPull, Answered
<1>14. ASSUME NEW n \in Nodes, Ends(n, Writers(n)) PROVE StationInv'
  BY <1>14, WritersType, WritersDoNotMove, EndsStation DEF Writers, Waiting, At
<1>15. ASSUME NEW n \in Nodes, NEW h, NEW c \in Transfers, EndsSending(n, h, c)
       PROVE  StationInv'
  <2>1. CASE OpOf(c).op = "get" /\ Ends(n, Writers(n) \cup {c[1]})
    <3>1. Waits(c) /\ c[1] \in Threads
      BY <1>15, <2>1, <1>10 DEF EndsSending
    <3>2. \A t \in Writers(n) \cup {c[1]} : step[t] = "wait"
      BY <3>1 DEF Writers, Waiting, At, Waits
    <3>3. c[1] \notin Movers(n)
      BY <2>1, <3>1 DEF Movers, Waits, Op, OpOf
    <3> QED BY <2>1, <3>1, <3>2, <3>3, WritersType, WritersDoNotMove, EndsStation
  <2>2. CASE Ends(n, Writers(n))
    BY <2>2, <1>14
  <2> QED BY <1>15, <2>1, <2>2 DEF EndsSending
<1>16. ASSUME NEW n \in Nodes, NEW h, NEW c \in Transfers, Fails(n, h, c)
       PROVE  StationInv'
  BY <1>16, <1>9, FailsIs
<1>17. ASSUME NEW t \in Threads, DeleteFails(t) PROVE StationInv'
  <2>1. Onward /\ Elsewhere
    BY <1>17, <1>7 DEF DeleteFails, Deletes, Drops, At
  <2>2. ASSUME NEW n \in Nodes
        PROVE  Pending(n)' \subseteq Pending(n) /\ \A u \in Pending(n)' : Here(u)' = Here(u)
    BY <2>1, PendingKept
  <2> QED BY <1>17, <2>1, <2>2, LeaveStation DEF DeleteFails
<1> QED
  BY <1>1, <1>2, <1>3, <1>5, <1>6, <1>8, <1>11, <1>12, <1>13, <1>14, <1>15, <1>16, <1>17
     DEF Next, Proxy, Datanode, Faults, Fails, Follows, NodeEnds

----------------------------------------------------------------------------
(* What threads hold.                                                       *)

TornOnes   == IF faults = 0 THEN {} ELSE {Torn}
Fits(v, b) == v \in {ContentOf[b]} \cup TornOnes

\* What a thread is to write is what belongs into the block, unless a read met
\* another transfer; in any case it is something.
HandOf(t) ==
  at[t] <= Length(t) /\ Op(t).op = "set" =>
    hand[t] # Absent /\ (mixed = {} => Fits(hand[t], Op(t).block))
HandInv == \A t \in Threads : HandOf(t)

\* What fits now fits later: faults are not undone.
LEMMA FitsLater ==
  ASSUME faults' = 0 => faults = 0, NEW v, NEW b, Fits(v, b)
  PROVE  Fits(v, b)'
BY DEF Fits, TornOnes

\* A write that follows another operation follows a read or a write of the same.
LEMMA NextSet ==
  ASSUME Types, NEW t \in Threads, at[t] <= Length(t), at'[t] = at[t] + 1,
         at'[t] <= Length(t), Op(t)'.op = "set"
  PROVE  Op(t).op \in {"get", "set"} /\ ContentOf[Op(t).block] = ContentOf[Op(t)'.block]
<1>1. at[t] + 1 \in 2 .. Length(t) /\ (at[t] + 1) - 1 = at[t]
  BY IndexType
<1>2. Op(t)' = Script[t][at[t] + 1] /\ Op(t) = Script[t][at[t]]
  BY DEF Op
<1> QED BY <1>1, <1>2, WritesFollowReads

\* A thread keeps what it holds until it has read something else.
LEMMA HandKept ==
  ASSUME Types, HandInv, NEW t \in Threads, faults' = 0 => faults = 0,
         mixed \subseteq mixed',
         hand'[t] = hand[t],
         \/ at'[t] = at[t]
         \/ at'[t] = at[t] + 1 /\ ~Ended(t) /\ Op(t).op # "get"
  PROVE  HandOf(t)'
<1> SUFFICES ASSUME at'[t] <= Length(t), Op(t)'.op = "set", NEW v, v = hand[t],
                    NEW b, b = Op(t)'.block
             PROVE  v # Absent /\ (mixed = {} => Fits(v, b)')
  BY DEF HandOf, Fits
<1>1. CASE at'[t] = at[t]
  <2>1. Op(t)' = Op(t) /\ at[t] <= Length(t)
    BY <1>1 DEF Op
  <2> QED BY <2>1, FitsLater DEF HandInv, HandOf
<1>2. CASE at'[t] = at[t] + 1 /\ ~Ended(t) /\ Op(t).op # "get"
  <2>1. Op(t).op = "set" /\ ContentOf[Op(t).block] = ContentOf[Op(t)'.block]
    BY <1>2, NotEnded, NextSet
  <2>2. hand[t] # Absent /\ (mixed = {} => Fits(hand[t], Op(t).block))
    BY <1>2, <2>1, NotEnded DEF HandInv, HandOf
  <2> QED BY <2>1, <2>2, FitsLater DEF Fits
<1> QED BY <1>1, <1>2

\* Threads that advance without a read.
Steady ==
  \A t \in Threads :
    at'[t] = at[t] \/ (at'[t] = at[t] + 1 /\ ~Ended(t) /\ Op(t).op # "get")

\* The thread of a connection for which it waits is at its operation.
LEMMA WaitsHere ==
  ASSUME Types, NEW c \in Transfers, Waits(c)
  PROVE  /\ c[1] \in Threads /\ c = Here(c[1]) /\ Op(c[1]) = OpOf(c)
         /\ ~Ended(c[1]) /\ at[c[1]] = c[2] /\ step[c[1]] = "wait"
BY TransferType, IndexType DEF Waits, Here, Op, OpOf, Ended

\* Which connections are accepted.
LEMMA AcceptedIs ==
  ASSUME Types, QueueInv, NEW n \in Nodes, NEW h, NEW c \in Transfers, Accepting(n, h, c)
  PROVE  /\ OpOf(c).op \in {"set", "get"} \/ (OpOf(c).op = "move" /\ OpOf(c).to \notin down)
              => Waits(c)
         /\ ~Reads(c) => OpOf(c).op = "set"
         /\ OpOf(c).node = n /\ c[1] \in Threads /\ n \notin down
         /\ h \in Transfers /\ h \in Around(n) /\ c \in Around(n)
BY HeadIs, TransferType DEF Linked, Reads, Around, Outstanding, Queued, Members

\* A read that is accepted where none met another transfer has its own thread.
LEMMA OwnThread ==
  ASSUME Types, QueueInv, StationInv, NEW n \in Nodes, n \notin mixed, NEW h,
         NEW c \in Transfers, Accepting(n, h, c), Reads(h) \/ Reads(c)
  PROVE  h = c
BY AcceptedIs DEF StationInv, SoloInv, Solo

\* Steps that leave hands alone.
LEMMA SteadyStep ==
  ASSUME Types, StepInv, QueueInv, NEW t \in Threads, Proxy(t)
  PROVE  hand' = hand /\ Steady /\ faults' = faults /\ mixed \subseteq mixed'
<1>1. CASE Advance({t}) /\ ~Ended(t) /\ Op(t).op # "get"
  BY <1>1 DEF Advance, Steady, Proxy, ConnectFails, Delete, Announce, Connect, Pull, PullFails
<1>2. CASE at' = at
  BY <1>2 DEF Steady, Proxy, ConnectFails, Delete, Announce, Connect, Pull, PullFails
<1>3. Announce(t) \/ Connect(t) \/ Pull(t) \/ PullFails(t) => at' = at
  BY DEF Announce, Connect, Pull, PullFails
<1>4. ConnectFails(t) => at' = at \/ (Advance({t}) /\ ~Ended(t) /\ Op(t).op # "get")
  BY DEF ConnectFails, At
<1>5. Delete(t) => Advance({t}) /\ ~Ended(t) /\ Op(t).op # "get"
  BY DEF Delete, Deletes, Drops, At, StepInv
<1> QED BY <1>1, <1>2, <1>3, <1>4, <1>5 DEF Proxy

\* The end of a datanode leaves hands alone if nothing is read from it.
LEMMA EndsSteady ==
  ASSUME Types, NEW n \in Nodes, Ends(n, Writers(n))
  PROVE  Steady /\ mixed' = mixed
<1>1. ASSUME NEW t \in Threads
      PROVE  at'[t] = at[t] \/ (at'[t] = at[t] + 1 /\ ~Ended(t) /\ Op(t).op # "get")
  <2>1. CASE t \in Writers(n)
    BY <2>1 DEF Ends, Writers, Waiting, At
  <2>2. CASE t \notin Writers(n)
    BY <2>2 DEF Ends
  <2> QED BY <2>1, <2>2
<1> QED BY <1>1 DEF Ends, Steady

\* Threads keep having the right content to write.
LEMMA HandStep ==
  Types /\ StepInv /\ QueueInv /\ StationInv /\ HandInv /\ RightContent /\ Next => HandInv'
<1> SUFFICES ASSUME Types, StepInv, QueueInv, StationInv, HandInv, RightContent, Next
             PROVE  HandInv'
  OBVIOUS
<1>1. ASSUME hand' = hand, Steady, faults' = 0 => faults = 0, mixed \subseteq mixed'
      PROVE  HandInv'
  BY <1>1, HandKept DEF HandInv, Steady
<1>2. ASSUME NEW t \in Threads, Proxy(t) PROVE HandInv'
  BY <1>1, <1>2, SteadyStep
<1>3. ASSUME NEW n \in Nodes, NEW h, NEW c \in Transfers, Accepting(n, h, c), ~Reads(c),
             Advance({c[1]})
      PROVE  Steady
  <2>1. c[1] \in Threads /\ ~Ended(c[1]) /\ Op(c[1]).op = "set"
    BY <1>3, AcceptedIs, WaitsHere
  <2> QED BY <1>3, <2>1 DEF Advance, Steady
<1>4. ASSUME NEW n \in Nodes, NEW h, NEW c \in Transfers, Stores(n, h, c) \/ Loses(n, h, c)
      PROVE  HandInv'
  <2>1. /\ Accepting(n, h, c) /\ ~Reads(c)
        /\ hand' = hand /\ faults' = faults /\ mixed' = mixed
    BY <1>4 DEF Stores, Loses, Accepts
  <2>2. Advance({c[1]}) \/ at' = at
    BY <1>4 DEF Stores, Loses
  <2>3. Steady
    BY <2>1, <2>2, <1>3 DEF Steady
  <2> QED BY <2>1, <2>3, <1>1
<1>5. ASSUME NEW n \in Nodes, NEW h, NEW c \in Transfers,
             SendsPull(n, h, c) \/ Hangs(n, h, c) \/ SendsNothing(n, h, c)
      PROVE  HandInv'
  BY <1>1, <1>5 DEF SendsPull, Hangs, SendsNothing, Steady
<1>6. ASSUME NEW n \in Nodes, NEW h, NEW c \in Transfers, Sends(n, h, c) PROVE HandInv'
  <2>0. /\ Accepting(n, h, c) /\ OpOf(c).op = "get" /\ Reads(c)
        /\ faults' = faults /\ mixed' = mixed
    BY <1>6 DEF Sends, Accepts, Reads
  <2>1. CASE store[n][OpOf(h).block] = Absent
    BY <1>1, <1>6, <2>0, <2>1 DEF Sends, Steady
  <2>2. CASE store[n][OpOf(h).block] # Absent
    <3>1. /\ c[1] \in Threads /\ ~Ended(c[1]) /\ Op(c[1]) = OpOf(c)
          /\ hand' = [hand EXCEPT ![c[1]] = store[n][OpOf(h).block]] /\ Advance({c[1]})
      BY <1>6, <2>0, <2>2, AcceptedIs, WaitsHere DEF Sends
    <3>2. ASSUME NEW t \in Threads \ {c[1]} PROVE HandOf(t)'
      <4>1. hand'[t] = hand[t] /\ at'[t] = at[t]
        BY <3>1 DEF Types, Advance
      <4> QED BY <2>0, <4>1, HandKept
    <3>3. HandOf(c[1])'
      <4> SUFFICES ASSUME NEW t, t = c[1], at'[t] <= Length(t), Op(t)'.op = "set",
                          NEW v, v = hand'[t], NEW b, b = Op(t)'.block
                   PROVE  v # Absent /\ (mixed = {} => Fits(v, b)')
        BY <2>0 DEF HandOf, Fits
      <4>1. v = store[n][OpOf(h).block] /\ at'[t] = at[t] + 1 /\ at[t] <= Length(t)
        BY <3>1, NotEnded DEF Types, Advance
      <4>2. ContentOf[Op(t).block] = ContentOf[b]
        BY <3>1, <4>1, NextSet
      <4>3. ASSUME mixed = {} PROVE Fits(v, b)'
        <5>1. h = c
          BY <2>0, <4>3, OwnThread
        <5>2. store[n][Op(t).block] \in {Absent, ContentOf[Op(t).block]} \cup TornOnes
          BY <3>1, <4>3, TransferType DEF RightContent, TornOnes
        <5> QED BY <2>0, <2>2, <3>1, <4>1, <4>2, <5>1, <5>2 DEF Fits, TornOnes
      <4> QED BY <2>2, <4>1, <4>3
    <3> QED BY <3>2, <3>3 DEF HandInv
  <2> QED BY <2>1, <2>2
<1>7. ASSUME NEW n \in Nodes, Ends(n, Writers(n)), hand' = hand, faults' = 0 => faults = 0
      PROVE  HandInv'
  BY <1>1, <1>7, EndsSteady
<1>9. Fault => faults' # 0
  BY DEF Fault, Types
<1>8. ASSUME NEW n \in Nodes, NEW h, NEW c \in Transfers, EndsSending(n, h, c) PROVE HandInv'
  <2>1. CASE /\ OpOf(c).op = "get" /\ Ends(n, Writers(n) \cup {c[1]})
             /\ hand' = [hand EXCEPT ![c[1]] = Torn]
    <3>1. c[1] \in Threads /\ ~Ended(c[1]) /\ Op(c[1]) = OpOf(c)
      BY <1>8, <2>1, AcceptedIs, WaitsHere DEF EndsSending
    <3>2. faults' # 0 /\ mixed' = mixed
      BY <1>8, <1>9, <2>1 DEF EndsSending, Ends
    <3>3. ASSUME NEW t \in Threads \ {c[1]} PROVE HandOf(t)'
      <4>1. hand'[t] = hand[t]
        BY <2>1, <3>1 DEF Types
      <4>2. CASE t \in Writers(n)
        <5>1. at'[t] = at[t] + 1 /\ ~Ended(t) /\ Op(t).op # "get"
          BY <2>1, <4>2 DEF Ends, Writers, Waiting, At
        <5> QED BY <3>2, <4>1, <5>1, HandKept
      <4>3. CASE t \notin Writers(n)
        <5>1. at'[t] = at[t]
          BY <2>1, <4>3 DEF Ends
        <5> QED BY <3>2, <4>1, <5>1, HandKept
      <4> QED BY <4>2, <4>3
    <3>4. HandOf(c[1])'
      <4>1. hand'[c[1]] = Torn
        BY <2>1, <3>1 DEF Types
      <4> QED BY <3>2, <4>1, ContentType DEF HandOf, Fits, TornOnes
    <3> QED BY <3>3, <3>4 DEF HandInv
  <2>2. CASE Ends(n, Writers(n)) /\ UNCHANGED hand
    BY <1>8, <1>9, <2>2, <1>7 DEF EndsSending
  <2> QED BY <1>8, <2>1, <2>2 DEF EndsSending
<1>10. ASSUME NEW n \in Nodes, NEW h, NEW c \in Transfers, Fails(n, h, c) PROVE HandInv'
  <2>1. /\ c[1] \in Threads /\ ~Ended(c[1]) /\ Op(c[1]) = OpOf(c)
        /\ mixed' = mixed /\ faults' # 0
        /\ Advance({c[1]}) \/ at' = at
        /\ OpOf(c).op = "get" => Advance({c[1]})
    BY <1>9, <1>10, FailsIs, WaitsHere
  <2>2. ASSUME NEW t \in Threads \ {c[1]} PROVE at'[t] = at[t]
    BY <2>1 DEF Advance
  <2>3. CASE hand' = hand /\ OpOf(c).op # "get"
    <3>1. Steady
      BY <2>1, <2>2, <2>3 DEF Steady, Advance
    <3> QED BY <1>1, <2>1, <2>3, <3>1
  <2>4. CASE hand' = [hand EXCEPT ![c[1]] = Torn] /\ OpOf(c).op = "get"
    <3>1. ASSUME NEW t \in Threads \ {c[1]} PROVE HandOf(t)'
      BY <2>1, <2>2, <2>4, HandKept DEF Types
    <3>2. HandOf(c[1])'
      <4>1. hand'[c[1]] = Torn
        BY <2>1, <2>4 DEF Types
      <4> QED BY <2>1, <4>1, ContentType DEF HandOf, Fits, TornOnes
    <3> QED BY <3>1, <3>2 DEF HandInv
  <2>5. OpOf(c).op = "get" => hand' = [hand EXCEPT ![c[1]] = Torn]
    BY <1>10, FailsIs
       DEF Fails, StoreFails, PullStoreFails, PusherEnds, ReadFails, Reads
  <2> QED BY <1>10, <2>3, <2>4, <2>5, FailsLeaves
<1>11. ASSUME NEW t \in Threads, DeleteFails(t) PROVE HandInv'
  <2>1. /\ Advance({t}) /\ ~Ended(t) /\ Op(t).op # "get"
        /\ hand' = hand /\ mixed' = mixed /\ faults' # 0
    BY <1>9, <1>11 DEF DeleteFails, Deletes, Drops, At, StepInv
  <2>2. Steady
    BY <2>1 DEF Advance, Steady
  <2> QED BY <1>1, <2>1, <2>2
<1> QED
  BY <1>2, <1>4, <1>5, <1>6, <1>7, <1>8, <1>9, <1>10, <1>11
     DEF Next, Datanode, Faults, Fails, Follows, NodeEnds

----------------------------------------------------------------------------
(* What files hold.                                                         *)

\* What a step does to a block of a datanode.
DeletedAt(m, b) ==
  /\ store'[m][b] = Absent
  /\ \E t \in Threads : Delete(t) /\ Op(t).node = m /\ Op(t).block = b
PushedTo(m, b) ==
  \E h \in handlers[m], c \in Transfers :
    Stores(m, h, c) /\ b = OpOf(c).block /\ store'[m][b] = hand[c[1]]
PulledTo(m, b) ==
  \E n \in Nodes, h \in UNION {handlers[k] : k \in Nodes}, c \in Transfers :
    /\ SendsPull(n, h, c) /\ OpOf(c).to = m /\ OpOf(h).block = b
    /\ store[n][b] # Absent /\ store'[m][b] = store[n][b]

\* A block changes only by a deletion, a push, a pull or a fault.
LEMMA StoreChanges ==
  ASSUME Types, QueueInv, Next, NEW m \in Nodes, NEW b \in Blocks
  PROVE  \/ store'[m][b] = store[m][b]
         \/ DeletedAt(m, b) \/ PushedTo(m, b) \/ PulledTo(m, b)
         \/ store'[m][b] = Torn /\ faults' # 0
<1> DEFINE Goal == \/ store'[m][b] = store[m][b]
                   \/ DeletedAt(m, b) \/ PushedTo(m, b) \/ PulledTo(m, b)
                   \/ store'[m][b] = Torn /\ faults' # 0
<1>0. /\ \A k \in Nodes : DOMAIN store[k] = Blocks
      /\ DOMAIN store = Nodes
  BY DEF Types
<1>1. ASSUME NEW t \in Threads, Proxy(t) PROVE Goal
  <2>1. CASE Delete(t)
    <3>1. at[t] <= Length(t)
      BY <2>1, NotEnded DEF Delete, Deletes, Drops, At
    <3>2. Op(t).node \in Nodes /\ Op(t).block \in Blocks
      BY <3>1, CurrentTransfer
    <3>3. CASE Op(t).node = m /\ Op(t).block = b
      BY <1>0, <2>1, <3>2, <3>3 DEF Delete, DeletedAt
    <3>4. CASE ~(Op(t).node = m /\ Op(t).block = b)
      BY <1>0, <2>1, <3>2, <3>4 DEF Delete
    <3> QED BY <3>3, <3>4
  <2>2. CASE ~Delete(t)
    BY <1>1, <2>2 DEF Proxy, Announce, Connect, ConnectFails, Pull, PullFails
  <2> QED BY <2>1, <2>2
<1>2. ASSUME NEW n \in Nodes, NEW h \in handlers[n], NEW c \in Transfers, Stores(n, h, c)
      PROVE  Goal
  <2>1. store' = [store EXCEPT ![n][OpOf(c).block] = hand[c[1]]]
    BY <1>2 DEF Stores, Named
  <2>2. CASE n = m /\ OpOf(c).block = b
    BY <1>0, <1>2, <2>1, <2>2 DEF PushedTo
  <2>3. CASE ~(n = m /\ OpOf(c).block = b)
    BY <1>0, <2>1, <2>3
  <2> QED BY <2>2, <2>3
<1>3. ASSUME NEW n \in Nodes, NEW h \in handlers[n], NEW c \in Transfers, SendsPull(n, h, c)
      PROVE  Goal
  <2>1. CASE store[n][OpOf(h).block] = Absent
    BY <1>3, <2>1 DEF SendsPull
  <2>2. CASE store[n][OpOf(h).block] # Absent
    <3>1. store' = [store EXCEPT ![OpOf(c).to][OpOf(h).block] = store[n][OpOf(h).block]]
      BY <1>3, <2>2 DEF SendsPull
    <3>2. CASE OpOf(c).to = m /\ OpOf(h).block = b
      <4>1. store'[m][b] = store[n][b]
        BY <1>0, <3>1, <3>2
      <4> QED BY <1>3, <2>2, <3>2, <4>1 DEF PulledTo
    <3>3. CASE ~(OpOf(c).to = m /\ OpOf(h).block = b)
      BY <1>0, <3>1, <3>3
    <3> QED BY <3>2, <3>3
  <2> QED BY <2>1, <2>2
<1>4. ASSUME NEW n \in Nodes, NEW h \in handlers[n], NEW c \in Transfers, EndsSending(n, h, c)
      PROVE  Goal
  <2>1. faults' # 0
    BY <1>4 DEF EndsSending, Fault, Types
  <2>2. CASE store' = [store EXCEPT ![OpOf(c).to][OpOf(h).block] = Torn]
    <3>1. CASE OpOf(c).to = m /\ OpOf(h).block = b
      BY <1>0, <2>1, <2>2, <3>1
    <3>2. CASE ~(OpOf(c).to = m /\ OpOf(h).block = b)
      BY <1>0, <2>2, <3>2
    <3> QED BY <3>1, <3>2
  <2> QED BY <1>4, <2>2 DEF EndsSending
<1>5. ASSUME NEW n \in Nodes, NEW h \in handlers[n], NEW c \in Transfers,
             \/ Sends(n, h, c) \/ Loses(n, h, c) \/ Hangs(n, h, c)
             \/ Follows(n, h, c) \/ SendsNothing(n, h, c)
      PROVE  Goal
  BY <1>5 DEF Sends, Loses, Hangs, Follows, SendsNothing
<1>6. ASSUME NEW n \in Nodes, NodeEnds(n) PROVE Goal
  BY <1>6 DEF NodeEnds
<1>8. ASSUME NEW t \in Threads, DeleteFails(t) PROVE Goal
  BY <1>8 DEF DeleteFails
<1>9. ASSUME NEW n \in Nodes, NEW h, NEW c \in Transfers, Fails(n, h, c) PROVE Goal
  <2>0. Fault
    BY <1>9, FailsIs
  <2>1. faults' # 0
    BY <2>0 DEF Fault, Types
  <2>2. store' = store \/ \E k \in Nodes, a \in Blocks :
                            \/ store' = [store EXCEPT ![k][a] = Torn]
                            \/ store' = [store EXCEPT ![k][a] = store[k][a]]
    BY <1>9, FailsLeaves
  <2>3. store'[m][b] \in {store[m][b], Torn}
    BY <1>0, <2>2
  <2> QED BY <2>1, <2>3
<1> HIDE DEF Goal
<1>7. Goal
  BY <1>1, <1>2, <1>3, <1>4, <1>5, <1>6, <1>8, <1>9 DEF Next, Datanode, Faults, Fails
<1> QED BY <1>7 DEF Goal

\* Marks stay, and so do ends and faults.
LEMMA MarksStay ==
  Types /\ Next =>
    down \subseteq down' /\ mixed \subseteq mixed' /\ (faults' = 0 => faults = 0)
<1> SUFFICES ASSUME Types, Next
             PROVE  down \subseteq down' /\ mixed \subseteq mixed' /\ (faults' = 0 => faults = 0)
  OBVIOUS
<1>0. Fault => faults' # 0
  BY DEF Fault, Types
<1>1. ASSUME NEW t \in Threads, Proxy(t)
      PROVE  down' = down /\ mixed \subseteq mixed' /\ faults' = faults
  BY <1>1 DEF Proxy, Announce, Connect, ConnectFails, Pull, PullFails, Delete
<1>2. ASSUME NEW n \in Nodes, NEW h, NEW c \in Transfers,
             \/ Stores(n, h, c) \/ Sends(n, h, c) \/ SendsPull(n, h, c)
             \/ Loses(n, h, c) \/ Hangs(n, h, c) \/ SendsNothing(n, h, c)
      PROVE  down' = down /\ mixed' = mixed /\ faults' = faults
  BY <1>2 DEF Stores, Sends, SendsPull, Loses, Hangs, SendsNothing
<1>3. ASSUME NEW n \in Nodes, NEW S, Ends(n, S) PROVE down \subseteq down' /\ mixed' = mixed
  BY <1>3 DEF Ends
<1>4. ASSUME NEW n \in Nodes, NEW h, NEW c \in Transfers, Fails(n, h, c)
      PROVE  down' = down /\ mixed' = mixed /\ Fault
  BY <1>4 DEF Fails, StoreFails, PullStoreFails, PusherEnds, ReadFails
<1>5. ASSUME NEW t \in Threads, DeleteFails(t)
      PROVE  down' = down /\ mixed' = mixed /\ Fault
  BY <1>5 DEF DeleteFails
<1>6. ASSUME Faults
      PROVE  down \subseteq down' /\ mixed' = mixed /\ faults' # 0
  <2>1. ASSUME NEW n \in Nodes, NodeEnds(n) \/ \E h, c : EndsSending(n, h, c)
        PROVE  down \subseteq down' /\ mixed' = mixed /\ Fault
    <3>1. (\E S : Ends(n, S)) /\ Fault
      BY <2>1 DEF NodeEnds, EndsSending
    <3> QED BY <3>1, <1>3
  <2> QED BY <1>0, <1>4, <1>5, <1>6, <2>1 DEF Faults, Fails
<1>7. ASSUME NEW n \in Nodes, NEW h, NEW c, Follows(n, h, c)
      PROVE  down \subseteq down' /\ mixed' = mixed /\ faults' = faults
  BY <1>3, <1>7 DEF Follows
<1> QED BY <1>1, <1>2, <1>6, <1>7 DEF Next, Datanode

\* What a push stores is something, and fits.
LEMMA PushIs ==
  ASSUME Types, QueueInv, HandInv, NEW n \in Nodes, NEW h, NEW c \in Transfers,
         Stores(n, h, c)
  PROVE  hand[c[1]] # Absent /\ (mixed = {} => Fits(hand[c[1]], OpOf(c).block))
<1>1. /\ Waits(c) /\ OpOf(c).op = "set"
  BY AcceptedIs DEF Stores, Accepts
<1> QED BY <1>1, WaitsHere, NotEnded DEF HandInv, HandOf

\* Files keep the content of their blocks.
LEMMA RightContentStep ==
  Types /\ StepInv /\ QueueInv /\ HandInv /\ RightContent /\ Next => RightContent'
<1> SUFFICES ASSUME Types, QueueInv, HandInv, RightContent, Next, mixed' = {},
                    NEW m \in Nodes, NEW b \in Blocks, NEW v, v = store'[m][b]
             PROVE  v = Absent \/ Fits(v, b)'
  BY DEF RightContent, Fits, TornOnes
<1>1. mixed = {} /\ (faults' = 0 => faults = 0)
  BY MarksStay
<1>2. ASSUME NEW n \in Nodes PROVE store[n][b] = Absent \/ Fits(store[n][b], b)
  BY <1>1 DEF RightContent, Fits, TornOnes
<1>3. CASE v = store[m][b]
  BY <1>1, <1>2, <1>3, FitsLater
<1>4. CASE DeletedAt(m, b)
  BY <1>4 DEF DeletedAt
<1>5. CASE PushedTo(m, b)
  BY <1>1, <1>5, PushIs, FitsLater DEF PushedTo
<1>6. CASE PulledTo(m, b)
  BY <1>1, <1>2, <1>6, FitsLater DEF PulledTo
<1>7. CASE v = Torn /\ faults' # 0
  BY <1>7 DEF Fits, TornOnes
<1> QED BY <1>3, <1>4, <1>5, <1>6, <1>7, StoreChanges

----------------------------------------------------------------------------
(* What becomes of writes.                                                  *)

\* What a step does to a thread.
Stays(t)   == at'[t] = at[t] /\ step'[t] = step[t]
GoesOn(t)  == at'[t] = at[t] + 1 /\ step'[t] = "call"
Enters(t)  == /\ at'[t] = at[t] /\ step[t] \in {"call", "connect", "pull"}
              /\ step'[t] \in {"connect", "pull", "wait"}
HasRead(t) == /\ ~Ended(t) /\ Op(t).op = "get"
              /\ GoesOn(t) \/ (at'[t] = at[t] /\ step'[t] = "failed")
Pushed(t)  == /\ GoesOn(t)
              /\ \E n \in Nodes : \E h \in handlers[n] :
                   Stores(n, h, Here(t)) \/ Loses(n, h, Here(t))
Pulled(t)  == /\ at'[t] = at[t] /\ step[t] = "wait" /\ step'[t] = "drop"
              /\ \E n \in Nodes : \E h \in handlers[n] : SendsPull(n, h, Here(t))
Suffers(t) == /\ faults' # 0
              /\ \/ at'[t] = at[t]
                 \/ /\ at'[t] = at[t] + 1
                    /\ Op(t).op = "set" => \/ Op(t).node \in down'
                                           \/ <<Op(t).node, Op(t).block>> \in unwritten'
Turn(t) ==
  \/ Stays(t) \/ (Delete(t) /\ GoesOn(t)) \/ Enters(t)
  \/ HasRead(t) \/ Pushed(t) \/ Pulled(t) \/ Suffers(t)

\* Every thread takes one of these turns in every step.
LEMMA Turns ==
  ASSUME Types, StepInv, QueueInv, Next, NEW t \in Threads
  PROVE  Turn(t)
<1>0. ASSUME NEW u \in Threads, Advance({u})
      PROVE  GoesOn(u) /\ \A w \in Threads \ {u} : Stays(w)
  BY <1>0 DEF Advance, GoesOn, Stays
<1>1. ASSUME NEW u \in Threads, Proxy(u) PROVE Turn(t)
  <2>1. CASE Announce(u)
    <3>1. /\ at' = at /\ step[u] = "call"
          /\ \E s \in {"connect", "pull"} : step' = [step EXCEPT ![u] = s]
      BY <2>1 DEF Announce, At
    <3> QED BY <3>1 DEF Turn, Stays, Enters, Types
  <2>2. CASE Connect(u) \/ Pull(u)
    <3>1. /\ at' = at /\ step[u] \in {"connect", "pull"} /\ step' = [step EXCEPT ![u] = "wait"]
      BY <2>2 DEF Connect, Pull, At
    <3> QED BY <3>1 DEF Turn, Stays, Enters, Types
  <2>3. CASE ConnectFails(u)
    <3>1. Op(u).node \in down' /\ (Advance({u}) \/ at' = at) /\ faults' # 0
      BY <2>3 DEF ConnectFails, Types
    <3>2. CASE at' = at
      BY <3>1, <3>2 DEF Turn, Suffers
    <3>3. CASE Advance({u})
      BY <3>1, <3>3, <1>0 DEF Turn, Suffers, GoesOn
    <3> QED BY <3>1, <3>2, <3>3
  <2>4. CASE PullFails(u)
    <3>1. at' = at /\ faults' # 0
      BY <2>4 DEF PullFails, Types
    <3> QED BY <3>1 DEF Turn, Suffers
  <2>5. CASE Delete(u)
    BY <2>5, <1>0 DEF Delete, Turn
  <2> QED BY <1>1, <2>1, <2>2, <2>3, <2>4, <2>5 DEF Proxy
<1>2. ASSUME NEW n \in Nodes, NEW h \in handlers[n], NEW c \in Transfers,
             \/ Stores(n, h, c) \/ Sends(n, h, c) \/ SendsPull(n, h, c) \/ Loses(n, h, c)
      PROVE  Turn(t)
  <2>1. /\ c[1] \in Threads /\ c = Here(c[1]) /\ Op(c[1]) = OpOf(c)
        /\ ~Ended(c[1]) /\ step[c[1]] = "wait"
    <3>1. Waits(c)
      BY <1>2, AcceptedIs DEF Stores, Sends, SendsPull, Loses, Accepts
    <3> QED BY <3>1, WaitsHere
  <2>2. CASE Stores(n, h, c) \/ Loses(n, h, c)
    <3>1. Advance({c[1]}) \/ UNCHANGED <<at, step>>
      BY <2>2 DEF Stores, Loses
    <3>2. CASE Advance({c[1]})
      <4>1. GoesOn(c[1]) /\ \A w \in Threads \ {c[1]} : Stays(w)
        BY <2>1, <3>2, <1>0
      <4> QED BY <2>1, <2>2, <4>1 DEF Turn, Pushed
    <3> QED BY <3>1, <3>2 DEF Turn, Stays
  <2>3. CASE Sends(n, h, c)
    <3>1. /\ OpOf(c).op = "get"
          /\ Advance({c[1]}) \/ (at' = at /\ step' = [step EXCEPT ![c[1]] = "failed"])
      BY <2>3 DEF Sends
    <3>2. CASE Advance({c[1]})
      <4>1. GoesOn(c[1]) /\ \A w \in Threads \ {c[1]} : Stays(w)
        BY <2>1, <3>2, <1>0
      <4> QED BY <2>1, <3>1, <4>1 DEF Turn, HasRead
    <3>3. CASE at' = at /\ step' = [step EXCEPT ![c[1]] = "failed"]
      BY <2>1, <3>1, <3>3 DEF Turn, HasRead, Stays, Types
    <3> QED BY <3>1, <3>2, <3>3
  <2>4. CASE SendsPull(n, h, c)
    <3>1. at' = at /\ step' = [step EXCEPT ![c[1]] = "drop"]
      BY <2>4 DEF SendsPull, Answered
    <3>2. CASE t = c[1]
      BY <2>1, <2>4, <3>1, <3>2 DEF Turn, Pulled, Types
    <3>3. CASE t # c[1]
      BY <3>1, <3>3 DEF Turn, Stays, Types
    <3> QED BY <3>2, <3>3
  <2> QED BY <1>2, <2>2, <2>3, <2>4
<1>3. ASSUME NEW n \in Nodes, NEW h, NEW c \in Transfers, Hangs(n, h, c) \/ SendsNothing(n, h, c)
      PROVE  Turn(t)
  BY <1>3 DEF Hangs, SendsNothing, Turn, Stays
<1>4. ASSUME NEW n \in Nodes, NEW S, Ends(n, S), faults' # 0,
             \A u \in S : Op(u).node = n
      PROVE  Turn(t)
  BY <1>4 DEF Ends, Turn, Suffers
<1>5. ASSUME NEW n, NEW u \in Writers(n) PROVE Op(u).node = n
  BY DEF Writers, Waiting
<1>6. ASSUME NEW n \in Nodes, NEW h \in handlers[n], NEW c \in Transfers, EndsSending(n, h, c)
      PROVE  Turn(t)
  <2>0. faults' # 0
    BY <1>6 DEF EndsSending, Fault, Types
  <2>1. CASE OpOf(c).op = "get" /\ Ends(n, Writers(n) \cup {c[1]})
    <3>1. Waits(c) /\ OpOf(c).node = n
      BY <1>6, <2>1, AcceptedIs DEF EndsSending
    <3>2. Op(c[1]).node = n
      BY <3>1, WaitsHere
    <3> QED BY <2>0, <2>1, <3>2, <1>4, <1>5
  <2>2. CASE Ends(n, Writers(n))
    BY <2>0, <2>2, <1>4, <1>5
  <2> QED BY <1>6, <2>1, <2>2 DEF EndsSending
<1>7. ASSUME NEW n \in Nodes, NodeEnds(n) \/ \E h, c : Follows(n, h, c) PROVE Turn(t)
  <2>1. Ends(n, Writers(n)) /\ faults' # 0
    BY <1>7 DEF NodeEnds, Follows, Orphaned, Fault, Types
  <2> QED BY <2>1, <1>4, <1>5
<1>8. ASSUME NEW n \in Nodes, NEW h, NEW c \in Transfers, Fails(n, h, c) PROVE Turn(t)
  <2>1. /\ faults' # 0 /\ c[1] \in Threads /\ Op(c[1]) = OpOf(c)
        /\ Accepting(n, h, c)
        /\ Advance({c[1]}) \/ at' = at
        /\ Advance({c[1]}) => OpOf(c).op \in {"get", "set"}
    BY <1>8, FailsIs DEF Fault, Types, Accepts, Advance
  <2>2. CASE at' = at
    BY <2>1, <2>2 DEF Turn, Suffers
  <2>3. CASE Advance({c[1]}) /\ t # c[1]
    BY <2>1, <2>3, <1>0 DEF Turn
  <2>4. CASE Advance({c[1]}) /\ t = c[1] /\ at' # at
    <3>1. at'[t] = at[t] + 1
      BY <2>4, <1>0 DEF GoesOn
    <3>2. ASSUME OpOf(c).op = "set" PROVE <<OpOf(c).node, OpOf(c).block>> \in unwritten'
      <4>1. StoreFails(n, h, c)
        BY <1>8, <2>4, <3>2
           DEF Fails, StoreFails, PullStoreFails, PusherEnds, ReadFails, Reads
      <4>2. OpOf(c).node = n
        BY <2>1, AcceptedIs
      <4> QED BY <4>1, <4>2 DEF StoreFails, Unstored, Named
    <3> QED BY <2>1, <2>4, <3>1, <3>2 DEF Turn, Suffers
  <2> QED BY <2>1, <2>2, <2>3, <2>4
<1>9. ASSUME NEW u \in Threads, DeleteFails(u) PROVE Turn(t)
  <2>1. /\ Advance({u}) /\ Op(u).op # "set" /\ faults' # 0
    BY <1>9 DEF DeleteFails, Deletes, Drops, At, StepInv, Fault, Types
  <2> QED BY <2>1, <1>0 DEF Turn, Suffers, GoesOn
<1> QED
  BY <1>1, <1>2, <1>3, <1>6, <1>7, <1>8, <1>9 DEF Next, Datanode, Faults, Fails

\* What is deleted belongs to a deletion or to a migration.
LEMMA DeleteIs ==
  ASSUME Types, StepInv, NEW t \in Threads, Delete(t)
  PROVE  /\ Here(t) \in Transfers /\ OpOf(Here(t)) = Op(t) /\ Op(t).op \in {"move", "delete"}
         /\ at[t] <= Length(t)
         /\ step[t] = "drop" \/ (step[t] = "call" /\ Op(t).op = "delete")
<1>1. at[t] <= Length(t)
  BY NotEnded DEF Delete, Deletes, Drops, At
<1> QED BY <1>1, CurrentTransfer DEF Delete, Deletes, Drops, At, StepInv

\* A file that could not be written holds something when one could write it.
LEMMA WrittenAgain ==
  ASSUME Types, QueueInv, HandInv, Next, NEW m \in Nodes, NEW b \in Blocks,
         <<m, b>> \in unwritten, <<m, b>> \notin unwritten'
  PROVE  store'[m][b] # Absent
<1>0. /\ \A k \in Nodes : DOMAIN store[k] = Blocks
      /\ DOMAIN store = Nodes
  BY DEF Types
<1>1. ASSUME NEW n \in Nodes, NEW h, NEW c \in Transfers, Stores(n, h, c)
      PROVE  store'[m][b] # Absent
  <2>1. n = m /\ OpOf(c).block = b
    BY <1>1 DEF Stores, Named
  <2>2. store' = [store EXCEPT ![m][b] = hand[c[1]]] /\ hand[c[1]] # Absent
    BY <1>1, <2>1, PushIs DEF Stores, Named
  <2> QED BY <1>0, <2>2
<1>2. ASSUME NEW n \in Nodes, NEW h, NEW c \in Transfers, SendsPull(n, h, c)
      PROVE  store'[m][b] # Absent
  <2>1. /\ OpOf(c).to = m /\ OpOf(h).block = b /\ store[n][b] # Absent
        /\ store' = [store EXCEPT ![m][b] = store[n][b]]
    BY <1>2 DEF SendsPull
  <2> QED BY <1>0, <2>1
<1>3. ASSUME NEW t \in Threads, Proxy(t) \/ DeleteFails(t) PROVE unwritten' = unwritten
  BY <1>3 DEF Proxy, Announce, Connect, ConnectFails, Pull, PullFails, Delete, DeleteFails
<1>4. ASSUME NEW n \in Nodes, NEW h, NEW c \in Transfers,
             \/ Sends(n, h, c) \/ Loses(n, h, c) \/ Hangs(n, h, c)
             \/ Follows(n, h, c) \/ SendsNothing(n, h, c)
      PROVE  unwritten' = unwritten
  BY <1>4 DEF Sends, Loses, Hangs, Follows, SendsNothing, Ends
<1>5. ASSUME NEW n \in Nodes, NodeEnds(n) \/ \E h, c : EndsSending(n, h, c)
      PROVE  unwritten' = unwritten
  BY <1>5 DEF NodeEnds, EndsSending, Ends
<1>6. ASSUME NEW n \in Nodes, NEW h, NEW c \in Transfers, Fails(n, h, c)
      PROVE  unwritten \subseteq unwritten'
  BY <1>6, FailsLeaves
<1> QED
  BY <1>1, <1>2, <1>3, <1>4, <1>5, <1>6 DEF Next, Datanode, Faults, Fails

\* What was pushed is stored and stays.
LEMMA WritesLandStep ==
  Types /\ StepInv /\ QueueInv /\ StationInv /\ HandInv /\ WritesLand /\ Next => WritesLand'
<1> SUFFICES ASSUME Types, StepInv, QueueInv, StationInv, HandInv, WritesLand, Next,
                    NEW x \in Transfers, OpOf(x).op = "set", at'[x[1]] > x[2],
                    OpOf(x).block \notin Removed, OpOf(x).node \notin mixed' \cup down',
                    <<OpOf(x).node, OpOf(x).block>> \notin unwritten'
             PROVE  store'[OpOf(x).node][OpOf(x).block] # Absent
  BY DEF WritesLand, Done, Removed, OpOf
<1> DEFINE m == OpOf(x).node
           b == OpOf(x).block
           t == x[1]
<1>1. /\ m \in Nodes /\ b \in Blocks /\ t \in Threads /\ x[2] \in Nat /\ x = <<t, x[2]>>
      /\ m \notin mixed /\ m \notin down
  BY MarksStay, TransferType
<1>4. CASE <<m, b>> \in unwritten
  BY <1>1, <1>4, WrittenAgain
<1>2. CASE at[t] > x[2] /\ <<m, b>> \notin unwritten
  <2>1. store[m][b] # Absent
    BY <1>1, <1>2 DEF WritesLand, Done
  <2>2. ~DeletedAt(m, b)
    BY DeleteIs DEF DeletedAt, Removed
  <2>3. PushedTo(m, b) => store'[m][b] # Absent
    BY <1>1, PushIs DEF PushedTo
  <2>4. PulledTo(m, b) => store'[m][b] # Absent
    BY DEF PulledTo
  <2> QED BY <1>1, <2>1, <2>2, <2>3, <2>4, StoreChanges, ContentType
<1>3. CASE ~(at[t] > x[2])
  <2>1. at[t] = x[2] /\ at'[t] = at[t] + 1
    <3>1. at'[t] = at[t] \/ at'[t] = at[t] + 1
      BY <1>1, Turns DEF Turn, Stays, GoesOn, Enters, HasRead, Pushed, Pulled, Suffers
    <3> QED BY <1>1, <1>3, <3>1, IndexType
  <2>2. x = Here(t) /\ Op(t) = OpOf(x)
    BY <1>1, <2>1 DEF Here, Op, OpOf
  <2>3. Pushed(t)
    <3>1. ~Delete(t)
      BY <1>1, <2>2, DeleteIs
    <3>2. ~Stays(t) /\ ~Enters(t) /\ ~HasRead(t) /\ ~Pulled(t)
      BY <1>1, <2>1, <2>2, IndexType DEF Stays, Enters, HasRead, Pulled
    <3>3. ~Suffers(t)
      BY <1>1, <2>1, <2>2, IndexType DEF Suffers
    <3> QED BY <1>1, <3>1, <3>2, <3>3, Turns DEF Turn
  <2>4. PICK n \in Nodes : \E h \in handlers[n] : Stores(n, h, x) \/ Loses(n, h, x)
    BY <2>2, <2>3 DEF Pushed
  <2>41. PICK h \in handlers[n] : Stores(n, h, x) \/ Loses(n, h, x)
    BY <2>4
  <2>5. n = m /\ Accepting(n, h, x)
    BY <2>41, AcceptedIs DEF Stores, Loses, Accepts
  <2>6. ~Loses(n, h, x)
    BY <1>1, <2>5, OwnThread DEF Loses
  <2>7. store' = [store EXCEPT ![m][b] = hand[t]] /\ hand[t] # Absent
    BY <2>41, <2>5, <2>6, PushIs DEF Stores, Named
  <2> QED BY <1>1, <2>7 DEF Types
<1> QED BY <1>2, <1>3, <1>4

----------------------------------------------------------------------------
(* Migrations.                                                              *)

\* Where a migration is with its block.
Before(x)   == \/ at[x[1]] < x[2]
               \/ at[x[1]] = x[2] /\ step[x[1]] \in {"call", "pull", "wait"}
Dropping(x) == at[x[1]] = x[2] /\ step[x[1]] = "drop"
After(x)    == at[x[1]] > x[2]

Kept(x) ==
  LET b == OpOf(x).block
      n == OpOf(x).node
      m == OpOf(x).to
  IN /\ Before(x) => store[n][b] # Absent
     /\ Dropping(x) => store[m][b] = ContentOf[b]
     /\ After(x) => store[n][b] = Absent /\ store[m][b] = ContentOf[b]
MoveInv == Quiet => \A x \in Transfers : OpOf(x).op = "move" => Kept(x)

\* A migration goes from one phase to another by the pull and by the deletion.
LEMMA Phases ==
  ASSUME Types, StepInv, QueueInv, Next, faults' = 0,
         NEW x \in Transfers, OpOf(x).op = "move"
  PROVE  \/ /\ (Before(x)' => Before(x)) /\ (Dropping(x)' => Dropping(x))
            /\ (After(x)' => After(x)) /\ ~(Delete(x[1]) /\ Here(x[1]) = x)
            /\ \A n \in Nodes : \A h \in handlers[n] : ~SendsPull(n, h, x)
         \/ Delete(x[1]) /\ Here(x[1]) = x /\ Dropping(x) /\ After(x)'
         \/ /\ Before(x) /\ Dropping(x)'
            /\ \E n \in Nodes : \E h \in handlers[n] : SendsPull(n, h, x)
<1> DEFINE t == x[1]
<1>1. /\ t \in Threads /\ x[2] \in Nat /\ x = <<t, x[2]>> /\ x[2] <= Length(t)
      /\ at[t] \in Int
  BY TransferType, IndexType
<1>2. Turn(t) /\ ~Suffers(t)
  BY <1>1, Turns DEF Suffers
<1>3. CASE Delete(t) /\ Here(t) = x
  <2>1. step[t] = "drop" /\ at[t] = x[2] /\ at'[t] = at[t] + 1
    <3>1. Advance({t}) /\ Op(t) = OpOf(x) /\ at[t] = x[2]
      BY <1>1, <1>3, DeleteIs DEF Delete, Here
    <3> QED BY <1>1, <1>3, <3>1, DeleteIs DEF Advance
  <2> QED BY <1>1, <1>3, <2>1 DEF Dropping, After
<1>4. ASSUME NEW n \in Nodes, NEW h \in handlers[n], SendsPull(n, h, x)
      PROVE  Before(x) /\ Dropping(x)'
  <2>1. at[t] = x[2] /\ step[t] = "wait"
    BY <1>4, AcceptedIs DEF SendsPull, Accepts, Waits
  <2>2. at'[t] = at[t] /\ step'[t] = "drop"
    BY <1>1, <1>4 DEF SendsPull, Answered, Types
  <2> QED BY <2>1, <2>2 DEF Before, Dropping
<1>5. ASSUME ~(Delete(t) /\ Here(t) = x),
             \A n \in Nodes : \A h \in handlers[n] : ~SendsPull(n, h, x)
      PROVE  (Before(x)' => Before(x)) /\ (Dropping(x)' => Dropping(x)) /\ (After(x)' => After(x))
  <2>1. CASE at[t] > x[2]
    <3>1. at'[t] = at[t] \/ at'[t] = at[t] + 1
      BY <1>2 DEF Turn, Stays, GoesOn, Enters, HasRead, Pushed, Pulled
    <3> QED BY <1>1, <2>1, <3>1 DEF Before, Dropping, After
  <2>2. CASE at[t] < x[2]
    <3>1. at'[t] = at[t] \/ (at'[t] = at[t] + 1 /\ step'[t] = "call")
      BY <1>2 DEF Turn, Stays, GoesOn, Enters, HasRead, Pushed, Pulled
    <3> QED BY <1>1, <2>2, <3>1 DEF Before, Dropping, After
  <2>3. CASE at[t] = x[2]
    <3>1. x = Here(t) /\ Op(t) = OpOf(x)
      BY <1>1, <2>3 DEF Here, Op, OpOf
    <3>2. CASE Stays(t)
      BY <3>2 DEF Stays, Before, Dropping, After
    <3>3. CASE Enters(t)
      <4>1. step[t] # "connect"
        BY <1>1, <3>1 DEF StepInv
      <4> QED BY <1>1, <2>3, <3>3, <4>1 DEF Enters, Before, Dropping, After
    <3>4. ~HasRead(t) /\ ~Pulled(t) /\ ~Delete(t)
      BY <1>5, <3>1 DEF HasRead, Pulled
    <3>5. ~Pushed(t)
      BY <3>1 DEF Pushed, Stores, Loses, Reads
    <3> QED BY <1>2, <3>2, <3>3, <3>4, <3>5 DEF Turn
  <2> QED BY <1>1, <2>1, <2>2, <2>3
<1> QED BY <1>3, <1>4, <1>5

\* A migration keeps its block in every phase.
LEMMA MoveStep ==
  ASSUME MovesApart, Types, StepInv, QueueInv, StationInv, RightContent, MoveInv, Next
  PROVE  MoveInv'
<1> SUFFICES ASSUME mixed' = {}, faults' = 0, NEW x \in Transfers, OpOf(x).op = "move",
                    NEW b, b = OpOf(x).block, NEW n, n = OpOf(x).node,
                    NEW m, m = OpOf(x).to
             PROVE  /\ Before(x)' => store'[n][b] # Absent
                    /\ Dropping(x)' => store'[m][b] = ContentOf[b]
                    /\ After(x)' => store'[n][b] = Absent /\ store'[m][b] = ContentOf[b]
  BY DEF MoveInv, Quiet, Kept, OpOf
<1>1. mixed = {} /\ faults = 0 /\ down = {}
  BY MarksStay DEF Types
<1>2. /\ Before(x) => store[n][b] # Absent
      /\ Dropping(x) => store[m][b] = ContentOf[b]
      /\ After(x) => store[n][b] = Absent /\ store[m][b] = ContentOf[b]
  BY <1>1 DEF MoveInv, Quiet, Kept
<1>3. /\ n \in Nodes /\ m \in Nodes /\ b \in Blocks /\ n # m
      /\ \A y \in Transfers \ {x} : Changes(y) => OpOf(y).block # b
      /\ x[1] \in Threads
  BY TransferType DEF MovesApart
<1>4. store[n][b] \in {Absent, ContentOf[b]}
  BY <1>1, <1>3 DEF RightContent
<1>5. ASSUME NEW k \in Nodes
      PROVE  \/ store'[k][b] = store[k][b]
             \/ Delete(x[1]) /\ Here(x[1]) = x /\ k = n /\ store'[k][b] = Absent
             \/ /\ k = m /\ store'[k][b] = store[n][b]
                /\ \E h \in UNION {handlers[j] : j \in Nodes} : SendsPull(n, h, x)
  <2>1. CASE DeletedAt(k, b)
    <3>1. PICK t \in Threads : Delete(t) /\ Op(t).node = k /\ Op(t).block = b
      BY <2>1 DEF DeletedAt
    <3>2. Here(t) \in Transfers /\ OpOf(Here(t)) = Op(t) /\ Changes(Here(t))
      BY <3>1, DeleteIs DEF Changes
    <3>3. Here(t) = x
      BY <1>3, <3>1, <3>2
    <3> QED BY <2>1, <3>1, <3>2, <3>3 DEF DeletedAt, Here
  <2>2. ~PushedTo(k, b)
    <3> SUFFICES ASSUME NEW h, NEW c \in Transfers, Stores(k, h, c), b = OpOf(c).block
                 PROVE  FALSE
      BY DEF PushedTo
    <3>1. OpOf(c).op = "set"
      BY AcceptedIs DEF Stores, Accepts
    <3> QED BY <1>3, <3>1 DEF Changes
  <2>3. CASE PulledTo(k, b)
    <3>1. PICK j \in Nodes, h \in UNION {handlers[i] : i \in Nodes}, c \in Transfers :
            /\ SendsPull(j, h, c) /\ OpOf(c).to = k /\ OpOf(h).block = b
            /\ store'[k][b] = store[j][b]
      BY <2>3 DEF PulledTo
    <3>2. Accepting(j, h, c) /\ OpOf(c).op = "move" /\ Reads(h) /\ Changes(c)
      BY <3>1 DEF SendsPull, Accepts, Changes
    <3>3. h = c /\ OpOf(c).node = j
      BY <1>1, <3>2, OwnThread, AcceptedIs
    <3>4. c = x
      BY <1>3, <3>1, <3>2, <3>3
    <3> QED BY <3>1, <3>3, <3>4
  <2> QED BY <1>3, <2>1, <2>2, <2>3, StoreChanges
<1>6. CASE Delete(x[1]) /\ Here(x[1]) = x /\ Dropping(x) /\ After(x)'
  <2>1. ASSUME NEW h PROVE ~SendsPull(n, h, x)
    <3> SUFFICES ASSUME SendsPull(n, h, x) PROVE FALSE
      OBVIOUS
    <3>1. step[x[1]] = "wait"
      BY <1>3, AcceptedIs DEF SendsPull, Accepts, Waits
    <3> QED BY <1>6, <3>1 DEF Dropping
  <2>2. store'[m][b] = ContentOf[b]
    BY <1>2, <1>3, <1>5, <1>6, <2>1
  <2>3. store' = [store EXCEPT ![n][b] = Absent]
    <3>1. Op(x[1]) = OpOf(x)
      BY <1>3, <1>6, DeleteIs
    <3> QED BY <1>1, <1>6, <3>1 DEF Delete
  <2>4. store'[n][b] = Absent
    BY <1>3, <2>3 DEF Types
  <2>5. ~Before(x)' /\ ~Dropping(x)'
    <3>1. at'[x[1]] > x[2] /\ at'[x[1]] \in Int /\ x[2] \in Int
      <4>1. at' \in [Threads -> 1 .. 5]
        BY TypeStep DEF Types
      <4> QED BY <1>3, <1>6, <4>1, TransferType DEF After
    <3> QED BY <3>1 DEF Before, Dropping
  <2> QED BY <2>2, <2>4, <2>5
<1>7. CASE /\ Before(x) /\ Dropping(x)'
           /\ \E k \in Nodes : \E h \in handlers[k] : SendsPull(k, h, x)
  <2>1. PICK k \in Nodes : \E h \in handlers[k] : SendsPull(k, h, x)
    BY <1>7
  <2>2. PICK h \in handlers[k] : SendsPull(k, h, x)
    BY <2>1
  <2>3. Accepting(k, h, x) /\ Reads(h)
    BY <2>2 DEF SendsPull, Accepts
  <2>4. k = n /\ h = x
    BY <1>1, <2>3, OwnThread, AcceptedIs
  <2>5. store[n][b] # Absent /\ store' = [store EXCEPT ![m][b] = store[n][b]]
    BY <1>2, <1>7, <2>2, <2>4 DEF SendsPull
  <2>6. store'[m][b] = ContentOf[b]
    BY <1>3, <1>4, <2>5 DEF Types
  <2>7. ~Before(x)' /\ ~After(x)'
    BY <1>7, <1>3, TransferType DEF Dropping, Before, After
  <2> QED BY <2>6, <2>7, <1>7
<1>8. CASE /\ (Before(x)' => Before(x)) /\ (Dropping(x)' => Dropping(x))
           /\ (After(x)' => After(x)) /\ ~(Delete(x[1]) /\ Here(x[1]) = x)
           /\ \A k \in Nodes : \A h \in handlers[k] : ~SendsPull(k, h, x)
  <2>1. \A k \in Nodes : store'[k][b] = store[k][b]
    <3> SUFFICES ASSUME NEW h \in UNION {handlers[j] : j \in Nodes}, SendsPull(n, h, x)
                 PROVE  FALSE
      BY <1>5, <1>8
    <3>1. h \in handlers[n]
      BY DEF SendsPull, Accepts, Accepting
    <3> QED BY <1>3, <1>8, <3>1
  <2> QED BY <1>2, <1>3, <1>8, <2>1
<1> QED BY <1>6, <1>7, <1>8, Phases

----------------------------------------------------------------------------
(* The theorems.                                                            *)

\* The inductive invariant.
IInv == Types /\ StepInv /\ QueueInv /\ StationInv /\ HandInv /\ RightContent /\ WritesLand

\* The invariant holds at first, ...
LEMMA InitInv == Init => IInv
<1> SUFFICES ASSUME Init PROVE IInv
  OBVIOUS
<1>1. \A t \in Threads : at[t] = 1 /\ step[t] = "call" /\ Length(t) >= 1 /\ Length(t) <= 4
  BY LengthType DEF Init
<1>2. ASSUME NEW t \in Threads
      PROVE  Op(t) = Script[t][1] /\ Op(t).block \in Blocks
  <2>1. Script[t] \in Seq(Operations) /\ Len(Script[t]) \in 1 .. 4
    BY ScriptAssumption DEF Length
  <2>2. Script[t][1] \in Operations
    BY <2>1
  <2> QED BY <1>1, <2>2 DEF Op, Operations
<1>3. ASSUME NEW n \in Nodes
      PROVE  handlers[n] = {} /\ backlog[n] = <<>> /\ Pending(n) = {}
  BY <1>1 DEF Init, Pending, At
<1>4. hand \in [Threads -> Contents \cup {Absent, Torn}] /\ HandInv
  <2>1. ASSUME NEW t \in Threads
        PROVE  hand[t] = IF Op(t).op = "set" THEN ContentOf[Op(t).block] ELSE Absent
    BY <1>2 DEF Init
  <2>2. hand = [t \in Threads |-> hand[t]]
    BY DEF Init
  <2>3. ASSUME NEW t \in Threads
        PROVE  hand[t] \in Contents \cup {Absent, Torn} /\ HandOf(t)
    BY <1>2, <2>1, ContentType DEF HandOf, Fits
  <2> QED BY <2>2, <2>3 DEF HandInv
<1>5. Types
  <2>1. store \in [Nodes -> [Blocks -> Contents \cup {Absent, Torn}]]
    BY ContentType DEF Init
  <2>2. /\ at \in [Threads -> 1 .. 5]
        /\ step \in [Threads -> {"call", "connect", "wait", "pull", "drop", "failed"}]
    BY DEF Init
  <2>3. \A t \in Threads : at[t] <= Length(t) + 1
    BY <1>1, LengthType
  <2>4. /\ handlers \in [Nodes -> SUBSET Transfers] /\ backlog \in [Nodes -> Seq(Transfers)]
        /\ busy \in [Nodes -> SUBSET Threads] /\ down \subseteq Nodes /\ mixed \subseteq Nodes
        /\ unwritten \subseteq Nodes \X Blocks /\ down = {}
        /\ \A n \in Nodes : \A t, u \in busy[n] : t = u
    BY DEF Init
  <2>5. faults \in 0 .. MaxFaults
    BY ScriptAssumption DEF Init
  <2> QED BY <1>4, <2>1, <2>2, <2>3, <2>4, <2>5 DEF Types
<1>6. StepInv /\ QueueInv
  BY <1>1, <1>3 DEF StepInv, QueueInv, Queued, Members, Distinct
<1>7. StationInv
  <2>1. ASSUME NEW n \in Nodes PROVE Served(n)
    <3>1. Cardinality({}) = 0 /\ IsFiniteSet({})
      BY FS_EmptySet
    <3>2. /\ Pending(n) = {} /\ handlers[n] = {} /\ Len(backlog[n]) = 0
      BY <1>3
    <3> QED BY <3>1, <3>2 DEF Served
  <2>2. ASSUME NEW n \in Nodes PROVE Solo(n)
    BY <1>3 DEF Solo, Around, Outstanding
  <2>3. HandlersInv
    BY <1>3 DEF HandlersInv
  <2> QED BY <2>1, <2>2, <2>3 DEF StationInv, CountInv, SoloInv
<1>8. RightContent
  BY DEF Init, RightContent
<1>9. WritesLand
  <2> SUFFICES ASSUME NEW x \in Transfers, at[x[1]] > x[2] PROVE FALSE
    BY DEF WritesLand, Done
  <2> QED BY <1>1, TransferType
<1> QED BY <1>4, <1>5, <1>6, <1>7, <1>8, <1>9 DEF IInv

\* ... in a step that changes nothing, ...
LEMMA Stutter == IInv /\ UNCHANGED vars => IInv'
<1> SUFFICES ASSUME IInv, UNCHANGED vars PROVE IInv'
  OBVIOUS
<1>1. Types' /\ StepInv' /\ QueueInv'
  BY DEF IInv, vars, Types, StepInv, Op, QueueInv, Queued, Linked, Waits, OpOf
<1>2. \A n \in Nodes : Pending(n)' = Pending(n) /\ Around(n)' = Around(n)
  BY DEF vars, Pending, At, Ended, Op, Around, Outstanding, Here
<1>3. HandlersInv' /\ CountInv' /\ SoloInv'
  BY <1>2 DEF IInv, StationInv, vars, HandlersInv, CountInv, Served, SoloInv, Solo, Reads, OpOf
<1>4. HandInv'
  BY DEF IInv, vars, HandInv, HandOf, Ended, Op, Fits, TornOnes
<1>5. RightContent' /\ WritesLand'
  BY DEF IInv, vars, RightContent, WritesLand, Done, Removed, OpOf
<1> QED BY <1>1, <1>3, <1>4, <1>5 DEF IInv, StationInv

\* ... and after every other step.
LEMMA Step == IInv /\ Next => IInv'
BY TypeStep, StepStep, QueueStep, StationStep, HandStep, RightContentStep, WritesLandStep DEF IInv

\* Everything above, in every state: the inductive invariant.
THEOREM Invariance == Spec => []IInv
<1>1. IInv /\ [Next]_vars => IInv'
  BY Step, Stutter
<1> QED BY InitInv, <1>1, PTL DEF Spec

\* Threads, datanodes and their queues keep their types, and no datanode is
\* busy with two pulls: its one RPC thread (src/src/datanode/datanode.cpp) waits
\* in handle_set until the block is there.
THEOREM TypeCorrect == Spec => []TypeOK
<1>1. IInv => TypeOK
  <2> SUFFICES ASSUME Types PROVE TypeOK
    BY DEF IInv
  <2>1. ASSUME NEW n \in Nodes PROVE Cardinality(busy[n]) <= 1
    <3>1. CASE busy[n] = {}
      BY <3>1, FS_EmptySet
    <3>2. CASE busy[n] # {}
      <4>1. PICK t \in busy[n] : TRUE
        BY <3>2
      <4>2. busy[n] = {t}
        BY <4>1 DEF Types
      <4> QED BY <4>2, FS_Singleton
    <3> QED BY <3>1, <3>2
  <2> QED BY <2>1 DEF Types, TypeOK
<1> QED BY Invariance, <1>1, PTL

\* For any number of proxies, datanodes and transfers: as long as no read was
\* announced at a datanode where something was outstanding, no file holds what
\* belongs to another block, although no read checks its block id and any thread
\* of a datanode may accept any connection.
THEOREM RightContentHolds == Spec => []RightContent
<1>1. IInv => RightContent
  BY DEF IInv
<1> QED BY Invariance, <1>1, PTL

\* For any number of proxies, datanodes and transfers: a push to a datanode
\* that is up and was not marked is stored when write_to_datanode returns, unless
\* the file could not be written.
THEOREM WritesLandHolds == Spec => []WritesLand
<1>1. IInv => WritesLand
  BY DEF IInv
<1> QED BY Invariance, <1>1, PTL

\* For any number of migrations of different blocks, in whatever directions:
\* block_migration loses no block unless something fails; it deletes the source
\* whether or not the pull succeeded.
THEOREM MovesKeep == ASSUME MovesApart PROVE Spec => []MovesKeepTheBlock
<1>1. Init => MoveInv
  <2> SUFFICES ASSUME Init, NEW x \in Transfers, OpOf(x).op = "move" PROVE Kept(x)
    BY DEF MoveInv
  <2>1. /\ OpOf(x).block \in Stored[OpOf(x).node] /\ OpOf(x).node \in Nodes
        /\ OpOf(x).block \in Blocks /\ x[1] \in Threads /\ x[2] \in Nat /\ 1 <= x[2]
    BY TransferType DEF MovesApart
  <2>2. at[x[1]] = 1 /\ step[x[1]] = "call"
    BY <2>1 DEF Init
  <2>3. store[OpOf(x).node][OpOf(x).block] # Absent
    BY <2>1, ContentType DEF Init
  <2> QED BY <2>1, <2>2, <2>3 DEF Kept, Dropping, After
<1>2. IInv /\ MoveInv /\ [Next]_vars => MoveInv'
  <2>1. CASE Next
    BY <2>1, MoveStep DEF IInv
  <2>2. CASE UNCHANGED vars
    BY <2>2 DEF vars, MoveInv, Quiet, Kept, Before, Dropping, After, OpOf
  <2> QED BY <2>1, <2>2
<1>3. IInv /\ MoveInv => MovesKeepTheBlock
  <2> SUFFICES ASSUME IInv, MoveInv, Quiet, NEW x \in Transfers, OpOf(x).op = "move"
               PROVE  LET b == OpOf(x).block
                      IN /\ \/ store[OpOf(x).node][b] # Absent
                            \/ store[OpOf(x).to][b] = ContentOf[b]
                         /\ Done(x[1], x[2]) => /\ store[OpOf(x).node][b] = Absent
                                                /\ store[OpOf(x).to][b] = ContentOf[b]
    BY DEF MovesKeepTheBlock
  <2>1. Kept(x)
    BY DEF MoveInv
  <2>2. Before(x) \/ Dropping(x) \/ After(x)
    <3>1. x[1] \in Threads /\ x[2] \in Nat /\ at[x[1]] \in Int /\ x = <<x[1], x[2]>>
      BY TransferType, IndexType DEF IInv
    <3>2. CASE at[x[1]] = x[2]
      <4>1. Op(x[1]) = OpOf(x)
        BY <3>2 DEF Op, OpOf
      <4>2. step[x[1]] \in {"call", "pull", "wait", "drop"}
        BY <3>1, <4>1 DEF IInv, Types, StepInv
      <4> QED BY <3>2, <4>2 DEF Before, Dropping
    <3>3. CASE at[x[1]] # x[2]
      BY <3>1, <3>3 DEF Before, After
    <3> QED BY <3>2, <3>3
  <2> QED BY <2>1, <2>2 DEF Kept, After, Done
<1> QED BY Invariance, <1>1, <1>2, <1>3, PTL DEF Spec
=============================================================================
